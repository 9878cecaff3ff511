----------------------------- MODULE SyncProofs -----------------------------
(***************************************************************************)
(* Proofs about sync-collection beside any number of writers, clients,     *)
(* names and tokens: no client misses a change for good, none is told      *)
(* valid-sync-token, and SyncClients implements ChangeFeed.  Two facts     *)
(* about the object requests carry all of it: a step adds at most one      *)
(* record, under the next token (LogStep), and changes only what that      *)
(* record is about (StepIsLogged).                                         *)
(***************************************************************************)
EXTENDS SyncRefinement, ObjectRequestsProofs

(* A difference about n between v and the collection is due after t.       *)
Due(v, n, t) == v[n] # findByUri(n) => \E e \in log : e.uri = n /\ e.token > t
AllDue(v, t) == \A n \in Names : Due(v, n, t)

(* What a REPORT that has read the log will leave of the client's view.    *)
Kept(k) == [n \in Names |-> IF n \in k.removed THEN NoBody ELSE k.view[n]]

(* What holds of a client and of its REPORT after each read.               *)
Following(k) ==
    /\ IF k.has THEN k.token <= counter /\ AllDue(k.view, k.token) ELSE k.token = 0
    /\ k.at # "idle" => k.base <= counter /\ (k.has => k.token <= k.base)
    /\ k.at = "fetch" /\ k.has =>
          \A n \in Names \ k.changed : Due(Kept(k), n, k.base)
    /\ k.at = "answer" => AllDue(k.answer, k.base)

(* Each name in the log has a last record.                                 *)
LastExists ==
    \A c \in log : \E d \in log :
        d.uri = c.uri /\ \A e \in log : e.uri = c.uri => e.token <= d.token

(* The inductive invariant.                                                *)
SyncInv ==
    /\ IInv
    /\ LastExists
    /\ client \in [Clients -> Client]
    /\ \A c \in Clients : Following(client[c])

-----------------------------------------------------------------------------
(* The object requests as clients see them.                                *)

Recorded(n, kind) ==
    /\ counter' = counter + 1
    /\ log' = log \cup {[token |-> counter + 1, uri |-> n, kind |-> kind]}

(* A step adds no record, or one with the next token.                      *)
LEMMA LogStep ==
    ASSUME IInv, [Next]_vars
    PROVE  \/ UNCHANGED <<counter, log>>
           \/ \E n \in Names, kind \in Kinds : Recorded(n, kind)
<1>1. StoreStep /\ StoreTypeOK
  BY StepOK, IInvSplits DEF StoreInv
<1>2. ASSUME NEW n \in Known, NEW kind \in Kinds, NEW pre, BumpAndLog(n, kind, pre)
      PROVE  UNCHANGED <<counter, log>> \/ Recorded(n, kind)
  BY <1>2 DEF BumpAndLog, Recorded
<1>3. Known \subseteq Names /\ {"created", "modified", "deleted"} \subseteq Kinds
  BY <1>1 DEF Known, Names, StoreTypeOK, Kinds
<1>4. CASE \E n \in Known, b \in Bodies, kind \in {"created", "modified"},
              pre \in Precondition :
              \E out : saveResource(n, b, kind, pre, out) /\ UNCHANGED present
  BY <1>2, <1>3, <1>4 DEF saveResource
<1>5. CASE \E n \in Known, pre \in Precondition :
              \E out : deleteResource(n, pre, out) /\ UNCHANGED <<present, minted>>
  BY <1>2, <1>3, <1>5 DEF deleteResource
<1>6. CASE \E cur \in Known, new \in Known :
              \E out : restoreResource(cur, new, out) /\ UNCHANGED <<present, minted>>
  BY <1>2, <1>3, <1>6 DEF restoreResource
<1>7. CASE \E old \in SUBSET Names : purgeDeletedBefore(old)
  BY <1>7 DEF purgeDeletedBefore
<1> QED BY <1>1, <1>4, <1>5, <1>6, <1>7 DEF StoreStep

(* So the log only grows, and a record added is newer than every token.    *)
LEMMA LogGrows ==
    ASSUME IInv, [Next]_vars
    PROVE  /\ counter \in Nat /\ counter' \in Nat /\ counter <= counter'
           /\ log \subseteq log' /\ log \subseteq Change
           /\ \A e \in log : e.token \in Nat /\ e.token <= counter
           /\ \A e \in log' \ log : e.token = counter + 1
<1>1. counter \in Nat /\ log \subseteq Change /\ \A e \in log : e.token <= counter
  BY DEF IInv, TypeOK, StoreTypeOK, LogContiguous
<1> QED BY <1>1, LogStep DEF Recorded, Change

(* What was due stays due, and every new difference is due.                *)
LEMMA StaysDue ==
    ASSUME IInv, [Next]_vars, NEW v, NEW n \in Names, NEW t \in Nat,
           t <= counter, Due(v, n, t)
    PROVE  v[n] # BodyIn(rows', n) => \E e \in log' : e.uri = n /\ e.token > t
<1> SUFFICES ASSUME v[n] # BodyIn(rows', n)
             PROVE  \E e \in log' : e.uri = n /\ e.token > t
  OBVIOUS
<1>1. CASE BodyIn(rows', n) = findByUri(n)
  BY <1>1, LogGrows DEF Due
<1>2. CASE BodyIn(rows', n) # findByUri(n)
  <2>1. PICK e \in log' \ log : e.uri = n
    BY <1>2, StepIsLogged DEF SeenIsLogged
  <2>2. e.token > t
    BY <2>1, LogGrows
  <2> QED BY <2>1, <2>2
<1> QED BY <1>1, <1>2

LEMMA LastStays ==
    ASSUME IInv, LastExists, [Next]_vars
    PROVE  LastExists'
<1>1. CASE UNCHANGED log
  BY <1>1 DEF LastExists
<1>2. ASSUME NEW n \in Names, NEW kind \in Kinds, Recorded(n, kind)
      PROVE  LastExists'
  <2> DEFINE rec == [token |-> counter + 1, uri |-> n, kind |-> kind]
  <2>1. log' = log \cup {rec} /\ rec.token = counter + 1 /\ rec.uri = n
    BY <1>2 DEF Recorded
  <2>2. counter \in Nat /\ \A e \in log : e.token \in Nat /\ e.token <= counter
    BY LogGrows
  <2> SUFFICES ASSUME NEW c \in log'
               PROVE  \E d \in log' : /\ d.uri = c.uri
                                      /\ \A e \in log' : e.uri = c.uri => e.token <= d.token
    BY DEF LastExists
  <2>3. CASE c.uri = n
    <3>1. \A e \in log' : e.token <= rec.token
      BY <2>1, <2>2
    <3> QED BY <2>1, <2>3, <3>1
  <2>4. CASE c.uri # n
    <3>1. c \in log /\ \A e \in log' : e.uri = c.uri => e \in log
      BY <2>1, <2>4
    <3> QED BY <2>1, <3>1 DEF LastExists
  <2> QED BY <2>3, <2>4
<1> QED BY <1>1, <1>2, LogStep

(* A step of the handlers leaves every client following.                   *)
LEMMA HandlersKeepSyncInv ==
    ASSUME SyncInv, [Next]_vars, UNCHANGED client
    PROVE  SyncInv'
<1>1. IInv' /\ LastExists' /\ client' \in [Clients -> Client]
  BY NextIInv, LastStays DEF SyncInv
<1>2. IInv /\ counter \in Nat /\ counter' \in Nat /\ counter <= counter'
  BY LogGrows DEF SyncInv
<1>3. ASSUME NEW c \in Clients PROVE Following(client[c])'
  <2> DEFINE k == client[c]
  <2>1. k \in Client /\ Following(k) /\ client'[c] = k
    BY DEF SyncInv
  <2>2. k.token \in Nat /\ k.base \in Nat
    BY <2>1 DEF Client
  <2>3. ASSUME k.at # "idle" PROVE k.base <= counter' /\ (k.has => k.token <= k.base)
    BY <1>2, <2>1, <2>2, <2>3 DEF Following
  <2>4. ASSUME k.at = "fetch", k.has, NEW n \in Names \ k.changed
        PROVE  Kept(k)[n] # BodyIn(rows', n) => \E e \in log' : e.uri = n /\ e.token > k.base
    <3>1. Due(Kept(k), n, k.base) /\ k.base <= counter
      BY <2>1, <2>4 DEF Following
    <3> QED BY <1>2, <2>2, <2>4, <3>1, StaysDue
  <2>5. ASSUME k.at = "answer", NEW n \in Names
        PROVE  k.answer[n] # BodyIn(rows', n) => \E e \in log' : e.uri = n /\ e.token > k.base
    <3>1. Due(k.answer, n, k.base) /\ k.base <= counter
      BY <2>1, <2>5 DEF Following, AllDue
    <3> QED BY <1>2, <2>2, <2>5, <3>1, StaysDue
  <2>6. ASSUME k.has, NEW n \in Names
        PROVE  k.view[n] # BodyIn(rows', n) => \E e \in log' : e.uri = n /\ e.token > k.token
    <3>1. Due(k.view, n, k.token) /\ k.token <= counter
      BY <2>1, <2>6 DEF Following, AllDue
    <3> QED BY <1>2, <2>2, <2>6, <3>1, StaysDue
  <2> QED BY <1>2, <2>1, <2>2, <2>3, <2>4, <2>5, <2>6
          DEF Following, AllDue, Due, findByUri, Kept
<1> QED BY <1>1, <1>3 DEF SyncInv

-----------------------------------------------------------------------------
(* The steps of a client.                                                  *)

(* They read only, and change one client.                                  *)
LEMMA OneClient ==
    ASSUME SyncInv, UNCHANGED vars, NEW c \in Clients, NEW k \in Client,
           Following(k), client' = [client EXCEPT ![c] = k]
    PROVE  SyncInv'
<1>1. IInv' /\ LastExists'
  <2>1. IInv'
    BY NextIInv DEF SyncInv
  <2> QED BY <2>1 DEF SyncInv, LastExists, vars
<1>2. client' \in [Clients -> Client]
  BY DEF SyncInv
<1>3. ASSUME NEW d \in Clients PROVE Following(client[d])'
  <2>1. Following(client'[d])
    BY DEF SyncInv
  <2>2. \A n \in Names : findByUri(n)' = findByUri(n)
    BY DEF vars, findByUri, BodyIn
  <2>3. UNCHANGED <<counter, log>>
    BY DEF vars
  <2> QED BY <2>1, <2>2, <2>3 DEF Following, AllDue, Due, Kept
<1> QED BY <1>1, <1>2, <1>3 DEF SyncInv

(* What changesSince needs of the log: distinct tokens, and about each     *)
(* name a last record, which is no deletion if the name is shown.          *)
ShownIsLogged ==
    \A n \in Names : findByUri(n) # NoBody =>
        \E c \in log : /\ c.uri = n
                       /\ c.kind # "deleted"
                       /\ \A d \in log : d.uri = n => d.token <= c.token

LogFolds ==
    /\ log \subseteq Change
    /\ \A c, d \in log : c.token = d.token => c = d
    /\ LastExists
    /\ ShownIsLogged

LEMMA SyncLogFolds == SyncInv => LogFolds
<1> SUFFICES ASSUME SyncInv PROVE LogFolds
  OBVIOUS
<1>1. ShownIsLogged
  BY DEF SyncInv, IInv, LiveIsLogged, ShownIsLogged, findByUri, BodyIn, Live
<1> QED BY <1>1 DEF LogFolds, SyncInv, IInv, TypeOK, StoreTypeOK, LogContiguous

(* A name about which the log holds a record after the token is reported   *)
(* changed or removed.                                                     *)
LEMMA ReportsAll ==
    ASSUME LogFolds, NEW t \in Nat, NEW n \in Names,
           \E e \in log : e.uri = n /\ e.token > t
    PROVE  n \in changedSince(t) \cup removedSince(t)
<1>1. PICK e \in log : e.uri = n /\ e.token > t
  OBVIOUS
<1>2. PICK d \in log : d.uri = n /\ \A f \in log : f.uri = n => f.token <= d.token
  BY <1>1 DEF LogFolds, LastExists
<1>3. d.token \in Nat /\ e.token \in Nat
  BY <1>1, <1>2 DEF LogFolds, Change
<1>4. d \in LastSince(t)
  BY <1>1, <1>2, <1>3 DEF LastSince
<1> QED BY <1>2, <1>4 DEF changedSince, removedSince

(* A name reported removed, and not changed, is not live.                  *)
LEMMA RemovedIsGone ==
    ASSUME LogFolds, NEW t \in Nat, NEW n \in Names, n \in removedSince(t)
    PROVE  findByUri(n) = NoBody
<1>1. PICK d \in log : /\ d.uri = n /\ d.kind = "deleted"
                       /\ \A f \in log : f.uri = n => f.token <= d.token
  BY DEF removedSince, LastSince
<1> SUFFICES ASSUME findByUri(n) # NoBody PROVE FALSE
  OBVIOUS
<1>2. PICK c \in log : /\ c.uri = n /\ c.kind # "deleted"
                       /\ \A f \in log : f.uri = n => f.token <= c.token
  BY DEF LogFolds, ShownIsLogged
<1>3. c.token \in Nat /\ d.token \in Nat
  BY <1>1, <1>2 DEF LogFolds, Change
<1>4. c.token = d.token
  BY <1>1, <1>2, <1>3
<1> QED BY <1>1, <1>2, <1>4 DEF LogFolds

(* A client that was due all it lacked is right, once it has applied the   *)
(* diff of the log, about each name that it will not fetch.                *)
LEMMA DiffIsRight ==
    ASSUME LogFolds, NEW k \in Client, AllDue(k.view, k.token),
           NEW q, q.view = k.view, q.changed = changedSince(k.token),
           q.removed = removedSince(k.token), NEW n \in Names \ q.changed
    PROVE  Kept(q)[n] = findByUri(n)
<1>1. k.token \in Nat
  BY DEF Client
<1>2. CASE n \in q.removed
  BY <1>1, <1>2, RemovedIsGone DEF Kept
<1>3. CASE n \notin q.removed
  <2>1. ~\E e \in log : e.uri = n /\ e.token > k.token
    BY <1>1, <1>3, ReportsAll
  <2> QED BY <2>1, <1>3 DEF AllDue, Due, Kept
<1> QED BY <1>2, <1>3

LEMMA RestingOK ==
    ASSUME NEW has \in BOOLEAN, NEW t \in Nat, NEW v \in Views,
           IF has THEN t <= counter /\ AllDue(v, t) ELSE t = 0
    PROVE  Resting(has, t, v) \in Client /\ Following(Resting(has, t, v))
<1>1. Empty \in Views
  BY DEF Empty, Views
<1>2. NewClient \in Client
  BY <1>1 DEF NewClient, Client
<1>3. Resting(has, t, v) \in Client
  BY <1>2 DEF Resting, Client
<1> QED BY <1>3, <1>2 DEF Resting, NewClient, Following

LEMMA ReportedOK ==
    ASSUME StoreTypeOK, NEW k \in Client,
           k.has => \A n \in Names \ k.changed : Due(Kept(k), n, k.base)
    PROVE  Reported(k) \in Views /\ AllDue(Reported(k), k.base)
<1>1. \A n \in Names : findByUri(n) \in Bodies \cup {NoBody}
  BY FindType
<1>2. Reported(k) \in Views
  BY <1>1 DEF Reported, Views, Client
<1>3. ASSUME NEW n \in Names PROVE Due(Reported(k), n, k.base)
  <2>1. CASE ~k.has \/ n \in k.changed
    BY <2>1 DEF Due, Reported
  <2>2. CASE k.has /\ n \notin k.changed
    <3>1. Due(Kept(k), n, k.base) /\ Reported(k)[n] = Kept(k)[n]
      BY <2>2 DEF Reported, Kept
    <3> QED BY <3>1 DEF Due
  <2> QED BY <2>1, <2>2
<1> QED BY <1>2, <1>3 DEF AllDue

LEMMA ClientsKeepSyncInv ==
    ASSUME SyncInv, UNCHANGED vars, NEW c \in Clients, Sync(c)
    PROVE  SyncInv'
<1> DEFINE k == client[c]
<1>1. k \in Client /\ Following(k)
  BY DEF SyncInv
<1>2. counter \in Nat /\ log \subseteq Change
  BY DEF SyncInv, IInv, TypeOK, StoreTypeOK
<1>3. CASE SyncFindRow(c)
  <2> DEFINE q == [k EXCEPT !.at = "log", !.base = counter]
  <2>1. q \in Client
    BY <1>1, <1>2 DEF Client
  <2>2. Following(q)
    BY <1>1, <1>2 DEF Following, Client
  <2> QED BY <1>3, <2>1, <2>2, OneClient DEF SyncFindRow
<1>4. CASE SyncReadLog(c)
  <2> DEFINE q == [k EXCEPT !.at = "fetch",
                            !.changed = IF k.has THEN changedSince(k.token) ELSE {},
                            !.removed = IF k.has THEN removedSince(k.token) ELSE {}]
  <2>1. k.at = "log" /\ k.token \in Nat /\ k.base \in Nat
    BY <1>1, <1>4 DEF SyncReadLog, Client
  <2>2. ~(k.has /\ k.token > k.base)
    BY <1>1, <2>1 DEF Following
  <2>3. client' = [client EXCEPT ![c] = q]
    BY <1>4, <2>2 DEF SyncReadLog
  <2>4. q \in Client
    <3>1. changedSince(k.token) \subseteq Names /\ removedSince(k.token) \subseteq Names
      BY <1>2 DEF changedSince, removedSince, LastSince, Change
    <3> QED BY <1>1, <3>1 DEF Client
  <2>5. /\ q.has = k.has /\ q.token = k.token /\ q.view = k.view /\ q.base = k.base
        /\ q.at = "fetch"
        /\ k.has => q.changed = changedSince(k.token) /\ q.removed = removedSince(k.token)
    BY <1>1 DEF Client
  <2>6. ASSUME k.has, NEW n \in Names \ q.changed PROVE Due(Kept(q), n, k.base)
    <3>1. AllDue(k.view, k.token)
      BY <1>1, <2>6 DEF Following
    <3>2. Kept(q)[n] = findByUri(n)
      <4> HIDE DEF k, q
      <4>1. LogFolds /\ k \in Client /\ n \in Names \ q.changed
        BY <1>1, <2>6, SyncLogFolds
      <4>2. /\ q.view = k.view /\ q.changed = changedSince(k.token)
            /\ q.removed = removedSince(k.token)
        BY <2>5, <2>6
      <4> QED BY <3>1, <4>1, <4>2, DiffIsRight
    <3> QED BY <3>2 DEF Due
  <2>7. Following(q)
    BY <1>1, <2>1, <2>5, <2>6 DEF Following
  <2> QED BY <2>3, <2>4, <2>7, OneClient
<1>5. CASE SyncFetch(c)
  <2> DEFINE q == [k EXCEPT !.at = "answer", !.answer = Reported(k),
                            !.changed = {}, !.removed = {}]
  <2>1. k.at = "fetch" /\ client' = [client EXCEPT ![c] = q]
    BY <1>5 DEF SyncFetch
  <2>2. Reported(k) \in Views /\ AllDue(Reported(k), k.base)
    BY <1>1, <2>1, ReportedOK DEF Following, SyncInv, IInv, TypeOK
  <2>3. q \in Client
    BY <1>1, <2>2 DEF Client
  <2>4. /\ q.has = k.has /\ q.token = k.token /\ q.view = k.view /\ q.base = k.base
        /\ q.at = "answer" /\ q.answer = Reported(k)
    BY <1>1 DEF Client
  <2>5. Following(q)
    BY <1>1, <2>1, <2>2, <2>4 DEF Following
  <2> QED BY <2>1, <2>3, <2>5, OneClient
<1>6. CASE SyncDeliver(c)
  <2>1. k.base \in Nat /\ k.answer \in Views /\ k.base <= counter /\ AllDue(k.answer, k.base)
    BY <1>1, <1>6 DEF SyncDeliver, Client, Following
  <2> QED BY <1>6, <2>1, RestingOK, OneClient DEF SyncDeliver
<1>7. CASE SyncLose(c)
  <2>1. k.has \in BOOLEAN /\ k.token \in Nat /\ k.view \in Views
    BY <1>1 DEF Client
  <2>2. IF k.has THEN k.token <= counter /\ AllDue(k.view, k.token) ELSE k.token = 0
    BY <1>1 DEF Following
  <2> QED BY <1>7, <2>1, <2>2, RestingOK, OneClient DEF SyncLose
<1> QED BY <1>3, <1>4, <1>5, <1>6, <1>7 DEF Sync

LEMMA InitSyncInv == SyncInit => SyncInv
<1> SUFFICES ASSUME SyncInit PROVE SyncInv
  OBVIOUS
<1>1. IInv /\ LastExists
  BY InitIInv DEF SyncInit, Init, StoreInit, LastExists
<1>2. Empty \in Views
  BY DEF Empty, Views
<1>3. NewClient \in Client /\ Following(NewClient)
  BY <1>2 DEF NewClient, Client, Following
<1> QED BY <1>1, <1>3 DEF SyncInit, SyncInv

LEMMA NextSyncInv == SyncInv /\ [SyncNext]_syncVars => SyncInv'
<1> SUFFICES ASSUME SyncInv, [SyncNext]_syncVars PROVE SyncInv'
  OBVIOUS
<1>1. CASE UNCHANGED syncVars
  BY <1>1, HandlersKeepSyncInv DEF syncVars, vars
<1> QED BY <1>1, HandlersKeepSyncInv, ClientsKeepSyncInv DEF SyncNext

(* SyncInv holds in every reachable state.                                 *)
THEOREM SyncInductive == SyncSpec => []SyncInv
BY InitSyncInv, NextSyncInv, PTL DEF SyncSpec

(* Nothing is missed for good, however REPORTs and writes interleave and   *)
(* whichever answers are lost.                                             *)
THEOREM NothingIsMissed == SyncSpec => []NothingMissed
<1>1. SyncInv => NothingMissed
  BY DEF SyncInv, Following, AllDue, Due, NothingMissed
<1> QED BY <1>1, SyncInductive, PTL

(* A client that follows the protocol is never sent back to a full resync. *)
THEOREM NobodyIsSentBack == SyncSpec => []NoSpuriousResync
<1>1. SyncInv => NoSpuriousResync
  BY DEF SyncInv, Following, NoSpuriousResync
<1> QED BY <1>1, SyncInductive, PTL

-----------------------------------------------------------------------------
(* The refinement.                                                         *)

LEMMA MaxIs ==
    ASSUME NEW S, S \subseteq Nat, NEW m \in S, \A y \in S : y <= m
    PROVE  Max(S) = m
<1>1. Max(S) \in S /\ \A y \in S : Max(S) >= y
  BY DEF Max
<1>2. Max(S) \in Nat /\ m \in Nat /\ Max(S) >= m /\ Max(S) <= m
  BY <1>1
<1> QED BY <1>2

(* LastToken is the token of the last record about n, or 0.                *)
LEMMA LastTokenIs ==
    ASSUME SyncInv, NEW n \in Names
    PROVE  /\ LastToken(n) \in Nat
           /\ \A e \in log : e.uri = n => e.token <= LastToken(n)
<1> DEFINE S == {0} \cup {c.token : c \in {d \in log : d.uri = n}}
<1>1. S \subseteq Nat
  BY DEF SyncInv, IInv, TypeOK, StoreTypeOK, Change
<1>2. CASE \E c \in log : c.uri = n
  <2>1. PICK d \in log : d.uri = n /\ \A e \in log : e.uri = n => e.token <= d.token
    BY <1>2 DEF SyncInv, LastExists
  <2>2. d.token \in S /\ \A y \in S : y <= d.token
    BY <1>1, <2>1
  <2>3. Max(S) = d.token
    BY <1>1, <2>2, MaxIs
  <2> QED BY <1>1, <2>1, <2>2, <2>3 DEF LastToken
<1>3. CASE ~\E c \in log : c.uri = n
  <2>1. S = {0}
    BY <1>3
  <2>2. Max(S) = 0
    BY <2>1, MaxIs
  <2> QED BY <1>3, <2>2 DEF LastToken
<1> QED BY <1>2, <1>3

(* A record moves the last token of its own name only.                     *)
LEMMA LastTokenMoves ==
    ASSUME SyncInv, NEW n \in Names, NEW kind \in Kinds, Recorded(n, kind)
    PROVE  /\ LastToken(n)' = counter + 1
           /\ \A m \in Names \ {n} : LastToken(m)' = LastToken(m)
<1> DEFINE rec == [token |-> counter + 1, uri |-> n, kind |-> kind]
           S(m) == {0} \cup {c.token : c \in {d \in log' : d.uri = m}}
<1>1. counter \in Nat /\ \A e \in log : e.token \in Nat /\ e.token <= counter
  BY DEF SyncInv, IInv, TypeOK, StoreTypeOK, LogContiguous, Change
<1>2. log' = log \cup {rec}
  BY DEF Recorded
<1>3. S(n) \subseteq Nat /\ counter + 1 \in S(n) /\ \A y \in S(n) : y <= counter + 1
  <2>1. rec \in log' /\ rec.uri = n /\ rec.token = counter + 1
    BY <1>2
  <2>2. counter + 1 \in S(n)
    BY <2>1
  <2>3. \A d \in log' : d.token \in Nat /\ d.token <= counter + 1
    BY <1>1, <1>2
  <2> QED BY <1>1, <2>2, <2>3
<1>4. LastToken(n)' = counter + 1
  BY <1>3, MaxIs DEF LastToken
<1>5. ASSUME NEW m \in Names \ {n} PROVE LastToken(m)' = LastToken(m)
  <2>1. {d \in log' : d.uri = m} = {d \in log : d.uri = m}
    BY <1>2
  <2> QED BY <2>1 DEF LastToken
<1> QED BY <1>4, <1>5

(* A step of the handlers is a change of one resource or shows nothing.    *)
LEMMA HandlersRefine ==
    ASSUME SyncInv, [Next]_vars, UNCHANGED client
    PROVE  [Feed!Next]_(Feed!feedVars)
<1>0. IInv /\ IInv' /\ rows' \in [Names -> Row]
  BY NextIInv DEF SyncInv, IInv, TypeOK, StoreTypeOK
<1>1. CASE UNCHANGED <<counter, log>>
  <2>1. \A n \in Names : findByUri(n)' = findByUri(n)
    BY <1>0, <1>1, StepIsLogged DEF SeenIsLogged, findByUri
  <2>2. LiveView' = LiveView
    BY <2>1 DEF LiveView
  <2>3. [n \in Names |-> LastToken(n)]' = [n \in Names |-> LastToken(n)]
    BY <1>1 DEF LastToken
  <2> QED BY <1>1, <2>2, <2>3 DEF Feed!feedVars
<1>2. ASSUME NEW n \in Names, NEW kind \in Kinds, Recorded(n, kind)
      PROVE  Feed!Change(n)
  <2> DEFINE b == BodyIn(rows', n)
  <2>1. \A m \in Names \ {n} : findByUri(m)' = findByUri(m)
    <3>1. \A c \in log' \ log : c.uri = n
      BY <1>2 DEF Recorded
    <3> QED BY <1>0, <3>1, StepIsLogged DEF SeenIsLogged, findByUri
  <2>2. b \in Bodies \cup {NoBody} /\ findByUri(n)' = b
    BY <1>0 DEF BodyIn, findByUri, Row
  <2>3. LiveView' = [LiveView EXCEPT ![n] = b]
    BY <2>1, <2>2 DEF LiveView
  <2>4. [m \in Names |-> LastToken(m)]'
           = [[m \in Names |-> LastToken(m)] EXCEPT ![n] = counter + 1]
    BY <1>2, LastTokenMoves
  <2>5. counter' = counter + 1
    BY <1>2 DEF Recorded
  <2> QED BY <2>2, <2>3, <2>4, <2>5 DEF Feed!Change
<1> QED BY <1>0, <1>1, <1>2, LogStep DEF Feed!Next

(* The answer of a REPORT is a sync; no other step of a client shows.      *)
LEMMA ClientsRefine ==
    ASSUME SyncInv, UNCHANGED vars, NEW c \in Clients, Sync(c)
    PROVE  [Feed!Next]_(Feed!feedVars)
<1> DEFINE k == client[c]
<1>1. k \in Client /\ Following(k) /\ client \in [Clients -> Client]
  BY DEF SyncInv
<1>2. LiveView' = LiveView /\ counter' = counter
  BY DEF vars, LiveView, findByUri, BodyIn
<1>3. [n \in Names |-> LastToken(n)]' = [n \in Names |-> LastToken(n)]
  BY DEF vars, LastToken
<1>4. CASE SyncDeliver(c)
  <2>1. /\ k.at = "answer" /\ k.answer \in Views /\ k.base \in Nat /\ k.token \in Nat
        /\ k.base <= counter /\ (k.has => k.token <= k.base)
        /\ AllDue(k.answer, k.base)
    BY <1>1, <1>4 DEF SyncDeliver, Client, Following
  <2> DEFINE q == Resting(TRUE, k.base, k.answer)
  <2>2. client' = [client EXCEPT ![c] = q]
    BY <1>4 DEF SyncDeliver
  <2>3. q.has = TRUE /\ q.token = k.base /\ q.view = k.answer
    BY DEF Resting, NewClient
  <2>4. ASSUME NEW n \in Names, LastToken(n) <= k.base
        PROVE  k.answer[n] = findByUri(n)
    <3> SUFFICES ASSUME k.answer[n] # findByUri(n) PROVE FALSE
      OBVIOUS
    <3>1. PICK e \in log : e.uri = n /\ e.token > k.base
      BY <2>1 DEF AllDue, Due
    <3>2. e.token <= LastToken(n) /\ LastToken(n) \in Nat /\ e.token \in Nat
      BY <3>1, LastTokenIs DEF SyncInv, IInv, TypeOK, StoreTypeOK, Change
    <3> QED BY <2>1, <2>4, <3>1, <3>2
  <2>5. Feed!Exact(k.answer, k.base)
    BY <2>4 DEF Feed!Exact, LiveView
  <2>6. k.base \in k.token..counter
    <3>1. k.token <= k.base
      BY <1>1, <2>1 DEF Following
    <3> QED BY <2>1, <3>1, LogGrows DEF SyncInv
  <2>7. /\ [d \in Clients |-> client[d].has]'
              = [[d \in Clients |-> client[d].has] EXCEPT ![c] = TRUE]
        /\ [d \in Clients |-> client[d].token]'
              = [[d \in Clients |-> client[d].token] EXCEPT ![c] = k.base]
        /\ [d \in Clients |-> client[d].view]'
              = [[d \in Clients |-> client[d].view] EXCEPT ![c] = k.answer]
    BY <1>1, <2>2, <2>3
  <2>8. Feed!Sync(c)
    BY <1>2, <1>3, <2>1, <2>5, <2>6, <2>7 DEF Feed!Sync, Feed!Views, Views
  <2> QED BY <2>8 DEF Feed!Next
<1>5. CASE ~SyncDeliver(c)
  <2>1. ~(k.has /\ k.token > k.base) \/ k.at # "log"
    BY <1>1 DEF Following, Client
  <2>2. PICK q : /\ client' = [client EXCEPT ![c] = q]
                 /\ q.has = k.has /\ q.token = k.token /\ q.view = k.view
    <3>1. CASE SyncFindRow(c)
      <4> DEFINE q == [k EXCEPT !.at = "log", !.base = counter]
      <4>1. q.has = k.has /\ q.token = k.token /\ q.view = k.view
        BY <1>1 DEF Client
      <4>2. client' = [client EXCEPT ![c] = q]
        BY <3>1 DEF SyncFindRow
      <4> HIDE DEF q
      <4> QED BY <4>1, <4>2
    <3>2. CASE SyncReadLog(c)
      <4> DEFINE q == [k EXCEPT !.at = "fetch",
                  !.changed = IF k.has THEN changedSince(k.token) ELSE {},
                  !.removed = IF k.has THEN removedSince(k.token) ELSE {}]
      <4>1. q.has = k.has /\ q.token = k.token /\ q.view = k.view
        BY <1>1 DEF Client
      <4>2. client' = [client EXCEPT ![c] = q]
        BY <2>1, <3>2 DEF SyncReadLog
      <4> HIDE DEF q
      <4> QED BY <4>1, <4>2
    <3>3. CASE SyncFetch(c)
      <4> DEFINE q == [k EXCEPT !.at = "answer", !.answer = Reported(k),
                                !.changed = {}, !.removed = {}]
      <4>1. q.has = k.has /\ q.token = k.token /\ q.view = k.view
        BY <1>1 DEF Client
      <4>2. client' = [client EXCEPT ![c] = q]
        BY <3>3 DEF SyncFetch
      <4> HIDE DEF q
      <4> QED BY <4>1, <4>2
    <3>4. CASE SyncLose(c)
      <4> DEFINE q == Resting(k.has, k.token, k.view)
      <4>1. q.has = k.has /\ q.token = k.token /\ q.view = k.view
        BY <1>1 DEF Client, Resting, NewClient
      <4>2. client' = [client EXCEPT ![c] = q]
        BY <3>4 DEF SyncLose
      <4> HIDE DEF q
      <4> QED BY <4>1, <4>2
    <3> QED BY <1>5, <3>1, <3>2, <3>3, <3>4 DEF Sync
  <2>3. \A d \in Clients : /\ client'[d].has = client[d].has
                           /\ client'[d].token = client[d].token
                           /\ client'[d].view = client[d].view
    BY <1>1, <2>2
  <2> QED BY <1>2, <1>3, <2>3 DEF Feed!feedVars
<1> QED BY <1>4, <1>5

LEMMA InitRefines == SyncInit => Feed!Init
<1> SUFFICES ASSUME SyncInit PROVE Feed!Init
  OBVIOUS
<1>1. /\ counter = 0 /\ log = {} /\ rows = [n \in Names |-> NoRow]
      /\ client = [c \in Clients |-> NewClient]
  BY DEF SyncInit, Init, StoreInit
<1>2. LiveView = [n \in Names |-> NoBody]
  BY <1>1 DEF LiveView, findByUri, BodyIn, NoRow
<1>3. [n \in Names |-> LastToken(n)] = [n \in Names |-> 0]
  <2>1. ASSUME NEW n \in Names PROVE LastToken(n) = 0
    <3>1. {0} \cup {c.token : c \in {d \in log : d.uri = n}} = {0}
      BY <1>1
    <3> QED BY <3>1, MaxIs DEF LastToken
  <2> QED BY <2>1
<1> QED BY <1>1, <1>2, <1>3 DEF Feed!Init, NewClient, Empty

LEMMA NextRefines == SyncInv /\ [SyncNext]_syncVars => [Feed!Next]_(Feed!feedVars)
<1> SUFFICES ASSUME SyncInv, [SyncNext]_syncVars PROVE [Feed!Next]_(Feed!feedVars)
  OBVIOUS
<1>1. CASE UNCHANGED syncVars
  BY <1>1, HandlersRefine DEF syncVars, vars
<1> QED BY <1>1, HandlersRefine, ClientsRefine DEF SyncNext

(* The tables, the handlers and the REPORTs implement the change feed: what *)
(* clients see is one resource changing at a time, and syncs that never go *)
(* back and are exact up to their token.                                   *)
THEOREM ImplementsTheFeed == SyncSpec => ImplementsFeed
BY InitRefines, NextRefines, SyncInductive, PTL DEF SyncSpec, ImplementsFeed, Feed!Spec
=============================================================================
