------------------------ MODULE ObjectRequestsProofs ------------------------
(***************************************************************************)
(* Proofs about ObjectRequests, for any number of workers, names, bodies   *)
(* and tokens.  The inductive invariant IInv splits into what the tables   *)
(* satisfy (StoreInv) and what the requests under way carry.  First, one   *)
(* lemma per batch says that it preserves StoreInv; then one lemma per     *)
(* handler says that its steps preserve IInv; the theorems follow.  Last,  *)
(* what a batch does to what readers see and to what its client is told.   *)
(***************************************************************************)
EXTENDS ObjectRequests, TLAPS

StoreInv == /\ StoreTypeOK
            /\ present
            /\ FreshUnused
            /\ LogContiguous
            /\ LiveIsLogged
            /\ UidsUnique

-----------------------------------------------------------------------------
(* The tables.                                                             *)

(* A read returns a body or null.                                          *)
LEMMA FindType ==
    ASSUME StoreTypeOK, NEW n \in Names
    PROVE  /\ findByUri(n) \in Bodies \cup {NoBody}
           /\ findDeletedByUri(n) \in Bodies \cup {NoBody}
           /\ rows[n] \in Row
BY DEF StoreTypeOK, findByUri, findDeletedByUri, BodyIn, Row

(* Statements 1 and 2 keep the log contiguous, and record the write.       *)
LEMMA BumpKeepsLog ==
    ASSUME StoreTypeOK, LogContiguous, NEW n \in Names, NEW kind \in Kinds,
           NEW pre, BumpAndLog(n, kind, pre)
    PROVE  /\ counter' \in Nat
           /\ log' \subseteq Change
           /\ LogContiguous'
<1>1. CASE ~BumpGate(n, pre)
  BY <1>1 DEF BumpAndLog, StoreTypeOK, LogContiguous
<1>2. CASE BumpGate(n, pre)
  <2> DEFINE rec == [token |-> counter + 1, uri |-> n, kind |-> kind]
  <2>1. counter' = counter + 1 /\ log' = log \cup {rec}
    BY <1>2 DEF BumpAndLog
  <2>2. counter \in Nat /\ log \subseteq Change
    BY DEF StoreTypeOK
  <2>3. rec \in Change
    BY <2>2 DEF Change, Kinds
  <2>4. \A c \in log' : c.token \in Nat /\ c.token <= counter + 1
    BY <2>1, <2>2 DEF LogContiguous, Change
  <2>5. \A t \in 1..counter' : \E c \in log' : c.token = t
    <3> SUFFICES ASSUME NEW t \in 1..(counter + 1)
                 PROVE  \E c \in log' : c.token = t
      BY <2>1
    <3>1. CASE t = counter + 1
      <4>1. rec \in log' /\ rec.token = t
        BY <3>1, <2>1
      <4> QED BY <4>1
    <3>2. CASE t # counter + 1
      BY <3>2, <2>1, <2>2 DEF LogContiguous
    <3> QED BY <3>1, <3>2
  <2>6. \A c, d \in log' : c.token = d.token => c = d
    <3>1. \A c \in log : c.token <= counter /\ c.token \in Nat
      BY <2>2 DEF LogContiguous, Change
    <3> QED BY <2>1, <2>2, <3>1 DEF LogContiguous
  <2> QED BY <2>1, <2>2, <2>3, <2>4, <2>5, <2>6 DEF LogContiguous
<1> QED BY <1>1, <1>2

(* A name is never one that could be minted now.                           *)
LEMMA MintFresh ==
    ASSUME StoreTypeOK, NEW n \in Known, NEW needed, NEW new \in Mint(needed)
    PROVE  /\ new \subseteq Fresh \ minted
           /\ n \notin new
           /\ n \in Names
           /\ needed \/ new = {}
BY FreshAssumption DEF Mint, Known, Names, StoreTypeOK

(* The newest record about a name outlives a write to another name.        *)
LEMMA OthersStayLogged ==
    ASSUME LiveIsLogged, NEW n \in Names, NEW kind \in Kinds, NEW pre,
           BumpAndLog(n, kind, pre), NEW m \in Names \ {n}, Live(m)
    PROVE  \E c \in log' : /\ c.uri = m
                           /\ c.kind # "deleted"
                           /\ \A d \in log' : d.uri = m => d.token <= c.token
<1>1. PICK c \in log : /\ c.uri = m
                       /\ c.kind # "deleted"
                       /\ \A d \in log : d.uri = m => d.token <= c.token
  BY DEF LiveIsLogged
<1>2. log \subseteq log' /\ \A d \in log' : d.uri = m => d \in log
  BY DEF BumpAndLog
<1> QED BY <1>1, <1>2

(* What the last two statements of saveResource do to the rows: the name   *)
(* gets the body if the object statement hits, its ghost moves to a name   *)
(* that had no row, and no other row changes.                              *)
LEMMA SaveRows ==
    ASSUME StoreTypeOK, FreshUnused,
           NEW n \in Known, NEW b \in Bodies, NEW pre, NEW new \in Mint(Ghost(n)),
           rows' = IF SaveHits(n, pre)
                   THEN [Evacuated(n, new) EXCEPT ![n] = LiveRow(b)]
                   ELSE Evacuated(n, new)
    PROVE  /\ rows' \in [Names -> Row]
           /\ rows'[n] = IF SaveHits(n, pre) THEN LiveRow(b)
                         ELSE IF Ghost(n) THEN NoRow ELSE rows[n]
           /\ \A m \in Names \ {n} : rows'[m] = IF m \in new THEN rows[n] ELSE rows[m]
           /\ \A m \in new : Ghost(n) /\ rows[m] = NoRow
           /\ \A m \in Names \ {n} : rows'[m].is = "live" => rows'[m] = rows[m]
<1>1. /\ n \in Names /\ n \notin new /\ new \subseteq Fresh \ minted
      /\ Ghost(n) \/ new = {}
  BY MintFresh
<1>2. Evacuated(n, new) \in [Names -> Row]
  BY <1>1 DEF Evacuated, StoreTypeOK, NoRow, Row
<1>3. LiveRow(b) \in Row
  BY DEF LiveRow, Row
<1>4. /\ Evacuated(n, new)[n] = IF Ghost(n) THEN NoRow ELSE rows[n]
      /\ \A m \in Names \ {n} :
            Evacuated(n, new)[m] = IF m \in new THEN rows[n] ELSE rows[m]
  BY <1>1 DEF Evacuated
<1>5. /\ rows' \in [Names -> Row]
      /\ rows'[n] = IF SaveHits(n, pre) THEN LiveRow(b)
                    ELSE IF Ghost(n) THEN NoRow ELSE rows[n]
      /\ \A m \in Names \ {n} : rows'[m] = IF m \in new THEN rows[n] ELSE rows[m]
  BY <1>1, <1>2, <1>3, <1>4
<1>6. \A m \in new : Ghost(n) /\ rows[m] = NoRow
  BY <1>1 DEF FreshUnused
<1> QED BY <1>1, <1>5, <1>6 DEF Ghost

(* saveResource.                                                           *)
LEMMA SaveKeepsStore ==
    ASSUME StoreInv,
           NEW n \in Known, NEW b \in Bodies, NEW kind \in {"created", "modified"},
           NEW pre \in Precondition, NEW out,
           saveResource(n, b, kind, pre, out), UNCHANGED present
    PROVE  StoreInv' /\ minted \subseteq minted'
<1> USE DEF StoreInv
<1>1. CASE UNCHANGED <<counter, log, rows, minted>>
  BY <1>1 DEF StoreTypeOK, FreshUnused, LogContiguous, LiveIsLogged, UidsUnique, Live
<1>2. ASSUME ~SaveAborts(n, b, pre),
             BumpAndLog(n, kind, pre),
             NEW new \in Mint(Ghost(n)),
             rows' = IF SaveHits(n, pre)
                     THEN [Evacuated(n, new) EXCEPT ![n] = LiveRow(b)]
                     ELSE Evacuated(n, new),
             minted' = minted \cup new
      PROVE  StoreInv' /\ minted \subseteq minted'
  <2>1. /\ n \in Names /\ n \notin new /\ new \subseteq Fresh \ minted
        /\ Ghost(n) \/ new = {}
    BY <1>2, MintFresh
  <2>2. kind \in Kinds /\ kind # "deleted"
    BY DEF Kinds
  <2>3. counter' \in Nat /\ log' \subseteq Change /\ LogContiguous'
    BY <1>2, <2>1, <2>2, BumpKeepsLog
  <2>4. /\ rows' \in [Names -> Row]
        /\ rows'[n] = IF SaveHits(n, pre) THEN LiveRow(b)
                      ELSE IF Ghost(n) THEN NoRow ELSE rows[n]
        /\ \A m \in Names \ {n} : rows'[m] = IF m \in new THEN rows[n] ELSE rows[m]
        /\ \A m \in Names \ {n} : rows'[m].is = "live" => rows'[m] = rows[m]
    BY <1>2, SaveRows
  <2>5. minted' \subseteq Fresh /\ minted \subseteq minted'
    BY <1>2, <2>1 DEF StoreTypeOK
  <2>6. FreshUnused'
    <3> SUFFICES ASSUME NEW g \in Fresh \ minted'
                 PROVE  rows'[g] = NoRow
      BY DEF FreshUnused
    <3>1. g \in Names /\ g # n /\ g \notin new /\ g \notin minted
      BY <1>2, FreshAssumption DEF Known, Names
    <3> QED BY <3>1, <2>4 DEF FreshUnused
  <2>7. SaveHits(n, pre) => BumpGate(n, pre)
    BY DEF SaveHits, BumpGate, Live
  <2>8. LiveIsLogged'
    <3> SUFFICES ASSUME NEW m \in Names, rows'[m].is = "live"
                 PROVE  \E c \in log' : /\ c.uri = m
                                        /\ c.kind # "deleted"
                                        /\ \A d \in log' : d.uri = m => d.token <= c.token
      BY DEF LiveIsLogged, Live
    <3> DEFINE rec == [token |-> counter + 1, uri |-> n, kind |-> kind]
    <3>1. CASE m = n /\ BumpGate(n, pre)
      <4>1. /\ rec \in log' /\ rec.uri = m /\ rec.kind # "deleted"
            /\ rec.token = counter'
        BY <3>1, <1>2, <2>2 DEF BumpAndLog
      <4>2. \A d \in log' : d.token <= rec.token
        BY <4>1, <2>3 DEF LogContiguous
      <4> QED BY <4>1, <4>2
    <3>2. CASE m = n /\ ~BumpGate(n, pre)
      <4>1. rows'[m] = rows[m] /\ log' = log
        BY <3>2, <2>4, <2>7, <1>2 DEF BumpAndLog, NoRow
      <4> QED BY <4>1 DEF LiveIsLogged, Live
    <3>3. CASE m # n
      <4>1. Live(m)
        BY <3>3, <2>4 DEF Live
      <4> QED BY <4>1, <3>3, <1>2, <2>1, <2>2, OthersStayLogged
    <3> QED BY <3>1, <3>2, <3>3
  <2>9. UidsUnique'
    <3> SUFFICES ASSUME NEW l \in Names, NEW m \in Names, l # m,
                        rows'[l].is = "live", rows'[m].is = "live"
                 PROVE  UidOf[rows'[l].body] # UidOf[rows'[m].body]
      BY DEF UidsUnique, Live
    <3>1. CASE SaveHits(n, pre)
      <4>1. rows'[n].body = b /\ ~UidClash(n, b)
        BY <3>1, <2>4, <1>2 DEF SaveAborts, LiveRow
      <4>2. \A k \in Names \ {n} : rows'[k].is = "live" =>
               Live(k) /\ UidOf[rows'[k].body] # UidOf[b]
        BY <4>1, <2>4 DEF UidClash, Live
      <4> QED BY <4>1, <4>2, <2>4 DEF UidsUnique, Live
    <3>2. CASE ~SaveHits(n, pre)
      <4>1. rows'[l] = rows[l] /\ rows'[m] = rows[m]
        BY <3>2, <2>4 DEF NoRow
      <4> QED BY <4>1 DEF UidsUnique, Live
    <3> QED BY <3>1, <3>2
  <2> QED BY <2>3, <2>4, <2>5, <2>6, <2>8, <2>9 DEF StoreTypeOK
<1> HIDE DEF StoreInv
<1> QED BY <1>1, <1>2 DEF saveResource, StoreInv, StoreTypeOK

(* deleteResource.                                                         *)
LEMMA DeleteKeepsStore ==
    ASSUME StoreInv, NEW n \in Known, NEW pre \in Precondition, NEW out,
           deleteResource(n, pre, out), UNCHANGED <<present, minted>>
    PROVE  StoreInv'
<1> USE DEF StoreInv
<1>0. n \in Names
  BY DEF Known, Names, StoreTypeOK
<1>1. CASE UNCHANGED <<counter, log, rows>>
  BY <1>1 DEF StoreTypeOK, FreshUnused, LogContiguous, LiveIsLogged, UidsUnique, Live
<1>2. ASSUME BumpAndLog(n, "deleted", pre),
             rows' = IF DeleteHits(n, pre)
                     THEN [rows EXCEPT ![n].is = "ghost"] ELSE rows
      PROVE  StoreInv'
  <2>1. "deleted" \in Kinds
    BY DEF Kinds
  <2>2. counter' \in Nat /\ log' \subseteq Change /\ LogContiguous'
    BY <1>0, <1>2, <2>1, BumpKeepsLog
  <2>3. /\ rows' \in [Names -> Row]
        /\ \A m \in Names : rows'[m].is = "live" => rows'[m] = rows[m]
        /\ DeleteHits(n, pre) => rows'[n].is = "ghost"
        /\ \A m \in Names \ {n} : rows'[m] = rows[m]
    BY <1>0, <1>2 DEF StoreTypeOK, Row
  <2>4. FreshUnused'
    BY <2>3, FreshAssumption DEF FreshUnused, Known, Names
  <2>5. LiveIsLogged'
    <3> SUFFICES ASSUME NEW m \in Names, rows'[m].is = "live"
                 PROVE  \E c \in log' : /\ c.uri = m
                                        /\ c.kind # "deleted"
                                        /\ \A d \in log' : d.uri = m => d.token <= c.token
      BY DEF LiveIsLogged, Live
    <3>0. Live(m)
      BY <2>3 DEF Live
    <3>1. CASE m # n
      BY <3>0, <3>1, <1>0, <1>2, <2>1, OthersStayLogged
    <3>2. CASE m = n
      <4>1. ~DeleteHits(n, pre)
        BY <3>2, <2>3
      <4>2. ~BumpGate(n, pre)
        BY <4>1, <3>0, <3>2 DEF DeleteHits, BumpGate
      <4>3. log' = log
        BY <4>2, <1>2 DEF BumpAndLog
      <4> QED BY <4>3, <3>0 DEF LiveIsLogged
    <3> QED BY <3>1, <3>2
  <2>6. UidsUnique'
    BY <2>3 DEF UidsUnique, Live
  <2> QED BY <2>2, <2>3, <2>4, <2>5, <2>6 DEF StoreTypeOK
<1> QED BY <1>1, <1>2 DEF deleteResource

(* restoreResource.                                                        *)
LEMMA RestoreKeepsStore ==
    ASSUME StoreInv, NEW cur \in Known, NEW new \in Known, NEW out,
           restoreResource(cur, new, out), UNCHANGED <<present, minted>>
    PROVE  StoreInv'
<1> USE DEF StoreInv
<1>0. cur \in Names /\ new \in Names
  BY DEF Known, Names, StoreTypeOK
<1>1. CASE UNCHANGED <<counter, log, rows>>
  BY <1>1 DEF StoreTypeOK, FreshUnused, LogContiguous, LiveIsLogged, UidsUnique, Live
<1>2. ASSUME ~RestoreAborts(cur, new),
             BumpAndLog(new, "created", Overwrite),
             rows' = IF Ghost(cur) THEN Restored(cur, new) ELSE rows
      PROVE  StoreInv'
  <2>1. "created" \in Kinds
    BY DEF Kinds
  <2>2. counter' \in Nat /\ log' \subseteq Change /\ LogContiguous'
    BY <1>0, <1>2, <2>1, BumpKeepsLog
  <2>3. rows[cur].body \in Bodies \cup {NoBody}
    BY <1>0, FindType DEF Row
  <2>4. /\ rows' \in [Names -> Row]
        /\ \A m \in Names \ {cur, new} : rows'[m] = rows[m]
        /\ Ghost(cur) => /\ rows'[new] = LiveRow(rows[cur].body)
                         /\ cur # new => rows'[cur] = NoRow
        /\ ~Ghost(cur) => rows' = rows
    <3>1. CASE Ghost(cur)
      <4>1. rows' = Restored(cur, new)
        BY <3>1, <1>2
      <4>2. LiveRow(rows[cur].body) \in Row /\ NoRow \in Row
        BY <2>3 DEF LiveRow, NoRow, Row
      <4>3. Restored(cur, new) \in [Names -> Row]
        BY <4>2 DEF Restored, StoreTypeOK
      <4> QED BY <3>1, <4>1, <4>3, <1>0 DEF Restored
    <3>2. CASE ~Ghost(cur)
      BY <3>2, <1>2 DEF StoreTypeOK
    <3> QED BY <3>1, <3>2
  <2>5. \A m \in Names \ {new} : rows'[m].is = "live" => rows'[m] = rows[m]
    BY <2>4 DEF NoRow
  <2>6. FreshUnused'
    BY <2>4, FreshAssumption DEF FreshUnused, Known, Names
  <2>7. LiveIsLogged'
    <3> SUFFICES ASSUME NEW m \in Names, rows'[m].is = "live"
                 PROVE  \E c \in log' : /\ c.uri = m
                                        /\ c.kind # "deleted"
                                        /\ \A d \in log' : d.uri = m => d.token <= c.token
      BY DEF LiveIsLogged, Live
    <3>1. CASE m # new
      <4>1. Live(m)
        BY <3>1, <2>5 DEF Live
      <4> QED BY <4>1, <3>1, <1>0, <1>2, <2>1, OthersStayLogged
    <3>2. CASE m = new
      <4> DEFINE rec == [token |-> counter + 1, uri |-> new, kind |-> "created"]
      <4>1. BumpGate(new, Overwrite)
        BY DEF BumpGate, Overwrite
      <4>2. /\ rec \in log' /\ rec.uri = m /\ rec.kind # "deleted"
            /\ rec.token = counter'
        BY <4>1, <3>2, <1>2 DEF BumpAndLog
      <4>3. \A d \in log' : d.token <= rec.token
        BY <4>2, <2>2 DEF LogContiguous
      <4> QED BY <4>2, <4>3
    <3> QED BY <3>1, <3>2
  <2>8. UidsUnique'
    <3> SUFFICES ASSUME NEW l \in Names, NEW m \in Names, l # m,
                        rows'[l].is = "live", rows'[m].is = "live"
                 PROVE  UidOf[rows'[l].body] # UidOf[rows'[m].body]
      BY DEF UidsUnique, Live
    <3>1. CASE Ghost(cur)
      <4>1. rows'[new].body = rows[cur].body /\ ~UidClash(cur, rows[cur].body)
        BY <3>1, <2>4, <1>2 DEF RestoreAborts, LiveRow
      <4>2. \A k \in Names \ {new} : rows'[k].is = "live" =>
               Live(k) /\ UidOf[rows'[k].body] # UidOf[rows[cur].body]
        BY <3>1, <4>1, <2>4, <2>5 DEF UidClash, Live, Ghost
      <4> QED BY <4>1, <4>2, <2>5 DEF UidsUnique, Live
    <3>2. CASE ~Ghost(cur)
      BY <3>2, <2>4 DEF UidsUnique, Live
    <3> QED BY <3>1, <3>2
  <2> QED BY <2>2, <2>4, <2>6, <2>7, <2>8 DEF StoreTypeOK
<1> QED BY <1>1, <1>2 DEF restoreResource

(* purgeDeletedBefore: readers and the log see nothing of it.              *)
LEMMA PurgeKeepsStore ==
    ASSUME StoreInv, NEW old \in SUBSET Names, purgeDeletedBefore(old)
    PROVE  StoreInv' /\ UNCHANGED minted
<1>1. /\ rows' \in [Names -> Row]
      /\ \A m \in Names : rows'[m] = NoRow \/ rows'[m] = rows[m]
  BY DEF StoreInv, StoreTypeOK, purgeDeletedBefore, NoRow, Row
<1>2. UNCHANGED <<present, counter, log, minted>>
  BY DEF purgeDeletedBefore
<1>3. FreshUnused'
  BY <1>1, <1>2 DEF StoreInv, FreshUnused, Names
<1>4. LiveIsLogged'
  BY <1>1, <1>2 DEF StoreInv, LiveIsLogged, Live, NoRow
<1>5. UidsUnique'
  BY <1>1 DEF StoreInv, UidsUnique, Live, NoRow
<1> QED BY <1>1, <1>2, <1>3, <1>4, <1>5 DEF StoreInv, StoreTypeOK, LogContiguous

-----------------------------------------------------------------------------
(* The requests.                                                           *)

RequestsOK == req \in [Workers -> Request] /\ RequestsCarry

LEMMA IInvSplits == /\ IInv <=> StoreInv /\ RequestsOK
                    /\ IInv' <=> StoreInv' /\ RequestsOK'
BY DEF IInv, StoreInv, RequestsOK, TypeOK

(* Any step that changes the request of one worker only, to one that       *)
(* carries what it must, keeps all requests in order.                      *)
LEMMA OneRequest ==
    ASSUME RequestsOK, NEW w \in Workers, NEW r \in Request,
           Carries(r, minted'), minted \subseteq minted',
           req' = [req EXCEPT ![w] = r]
    PROVE  RequestsOK'
<1>1. req' \in [Workers -> Request]
  BY DEF RequestsOK
<1>2. ASSUME NEW v \in Workers PROVE Carries(req'[v], minted')
  <2>1. CASE v = w
    BY <2>1 DEF RequestsOK
  <2>2. CASE v # w
    <3>1. req'[v] = req[v] /\ Carries(req[v], minted)
      BY <2>2 DEF RequestsOK, RequestsCarry
    <3> QED BY <3>1 DEF Carries
  <2> QED BY <2>1, <2>2
<1> QED BY <1>1, <1>2 DEF RequestsOK, RequestsCarry

LEMMA IdleRequest ==
    ASSUME NEW out \in {"none", "ok", "conflict", "error", "refused"}, NEW m
    PROVE  /\ Idle(out) \in Request
           /\ Carries(Idle(out), m)
           /\ Idle(out).at = "idle" /\ Idle(out).out = out
BY DEF Idle, Request, Stages, Condition, Unconditional, Carries

(* Answering is always in order.                                           *)
LEMMA AnswerOK ==
    ASSUME RequestsOK, NEW w \in Workers,
           NEW out \in {"none", "ok", "conflict", "error", "refused"},
           Answer(w, out), minted \subseteq minted'
    PROVE  RequestsOK'
<1>1. Idle(out) \in Request /\ Carries(Idle(out), minted')
  BY IdleRequest
<1> QED BY <1>1, OneRequest DEF Answer

(* A request that arrives.                                                 *)
LEMMA ArriveOK ==
    ASSUME RequestsOK, NEW w \in Workers, NEW r \in Request, NEW lists,
           Carries(r, minted), Arrive(w, r, lists)
    PROVE  RequestsOK'
<1>1. minted' = minted
  BY DEF Arrive, storeVars
<1>2. CASE req' = [req EXCEPT ![w] = r]
  BY <1>1, <1>2, OneRequest
<1>3. CASE Answer(w, "refused")
  BY <1>1, <1>3, AnswerOK
<1> QED BY <1>2, <1>3 DEF Arrive

(* A step of a handler that only reads.                                    *)
LEMMA ReadOK ==
    ASSUME RequestsOK, UNCHANGED storeVars, NEW w \in Workers,
           \/ \E r \in Request : /\ Carries(r, minted)
                                /\ req' = [req EXCEPT ![w] = r]
           \/ \E out \in {"none", "refused"} : Answer(w, out)
    PROVE  RequestsOK'
<1>1. minted' = minted
  BY DEF storeVars
<1> QED BY <1>1, OneRequest, AnswerOK

-----------------------------------------------------------------------------
(* The steps of PUT.                                                       *)
LEMMA PutKeepsRequests ==
    ASSUME StoreTypeOK, RequestsOK, NEW w \in Workers, Put(w)
    PROVE  RequestsOK'
<1> DEFINE r == req[w]
<1>1. r \in Request /\ Carries(r, minted)
  BY DEF RequestsOK, RequestsCarry
<1>2. CASE PutArrive(w)
  <2>1. PICK n \in Known, b \in Bodies, c \in Conds, lists \in IfLists :
           Arrive(w, Begin("put.findByUri", n, b, c), lists)
    BY <1>2 DEF PutArrive
  <2> DEFINE q == Begin("put.findByUri", n, b, c)
  <2>2. c \in Condition /\ n \in Names /\ n \in Uris \cup minted
    BY <1>1, CondsAssumption DEF Known, Names, StoreTypeOK
  <2>3. q \in Request /\ Carries(q, minted)
    BY <2>2 DEF Begin, Request, Stages, Carries
  <2> QED BY <2>1, <2>3, ArriveOK
<1>3. CASE PutFindByUri(w)
  <2> DEFINE q == [r EXCEPT !.at = "put.findUid", !.found = findByUri(r.name)]
  <2>1. CASE CondHolds(r.cond, findByUri(r.name))
    <3>1. r.name \in Names /\ r.at = "put.findByUri"
      BY <1>1, <1>3 DEF PutFindByUri, Carries, StoreTypeOK, Names
    <3>2. findByUri(r.name) \in Bodies \cup {NoBody}
      BY <1>1, <3>1, FindType
    <3>3. q \in Request /\ Carries(q, minted)
      BY <1>1, <2>1, <3>1, <3>2 DEF Request, Stages, Carries
    <3>4. req' = [req EXCEPT ![w] = q] /\ UNCHANGED storeVars
      BY <1>3, <2>1 DEF PutFindByUri
    <3> QED BY <3>3, <3>4, ReadOK
  <2>2. CASE ~CondHolds(r.cond, findByUri(r.name))
    BY <1>3, <2>2, ReadOK DEF PutFindByUri
  <2> QED BY <2>1, <2>2
<1>4. CASE PutFindUid(w)
  <2> DEFINE q == [r EXCEPT !.at = "put.save"]
  <2>1. q \in Request /\ Carries(q, minted)
    BY <1>1, <1>4 DEF PutFindUid, Request, Stages, Carries
  <2>2. UNCHANGED storeVars /\ (req' = [req EXCEPT ![w] = q] \/ Answer(w, "refused"))
    BY <1>4 DEF PutFindUid, Goto
  <2> QED BY <2>1, <2>2, ReadOK
<1>5. CASE PutSave(w)
  <2>1. PICK out \in {"ok", "conflict", "error"} :
           minted \subseteq minted' /\ Answer(w, out)
    BY <1>5 DEF PutSave, saveResource
  <2> QED BY <2>1, AnswerOK
<1> QED BY <1>2, <1>3, <1>4, <1>5 DEF Put

(* The steps of DELETE.                                                    *)
LEMMA DeleteKeepsRequests ==
    ASSUME StoreTypeOK, RequestsOK, NEW w \in Workers, Delete(w)
    PROVE  RequestsOK'
<1> DEFINE r == req[w]
<1>1. r \in Request /\ Carries(r, minted)
  BY DEF RequestsOK, RequestsCarry
<1>2. CASE DeleteArrive(w)
  <2>1. PICK n \in Known, c \in Conds, lists \in IfLists :
           /\ c.kind # "must-not-exist"
           /\ Arrive(w, Begin("delete.findByUri", n, NoBody, c), lists)
    BY <1>2 DEF DeleteArrive
  <2> DEFINE q == Begin("delete.findByUri", n, NoBody, c)
  <2>2. c \in Condition /\ n \in Names /\ n \in Uris \cup minted
    BY <1>1, CondsAssumption DEF Known, Names, StoreTypeOK
  <2>3. q \in Request /\ Carries(q, minted)
    BY <2>1, <2>2 DEF Begin, Request, Stages, Carries
  <2> QED BY <2>1, <2>3, ArriveOK
<1>3. CASE DeleteFindByUri(w)
  <2> DEFINE found == findByUri(r.name)
             q == [r EXCEPT !.at = "delete.write", !.found = found]
  <2>1. CASE found # NoBody /\ CondHolds(r.cond, found)
    <3>1. r.name \in Names /\ r.at = "delete.findByUri"
      BY <1>1, <1>3 DEF DeleteFindByUri, Carries, StoreTypeOK, Names
    <3>2. found \in Bodies \cup {NoBody}
      BY <1>1, <3>1, FindType
    <3>3. q \in Request /\ Carries(q, minted)
      BY <1>1, <2>1, <3>1, <3>2 DEF Request, Stages, Carries
    <3>4. req' = [req EXCEPT ![w] = q] /\ UNCHANGED storeVars
      BY <1>3, <2>1 DEF DeleteFindByUri
    <3> QED BY <3>3, <3>4, ReadOK
  <2>2. CASE ~(found # NoBody /\ CondHolds(r.cond, found))
    BY <1>3, <2>2, ReadOK DEF DeleteFindByUri
  <2> QED BY <2>1, <2>2
<1>4. CASE DeleteWrite(w)
  <2>1. PICK out \in {"ok", "conflict", "error"} : Answer(w, out) /\ UNCHANGED minted
    BY <1>4 DEF DeleteWrite
  <2> QED BY <2>1, AnswerOK
<1> QED BY <1>2, <1>3, <1>4 DEF Delete

(* The steps of restore-deleted.                                           *)
LEMMA RestoreKeepsRequests ==
    ASSUME StoreTypeOK, RequestsOK, NEW w \in Workers, Restore(w)
    PROVE  RequestsOK'
<1> DEFINE r == req[w]
<1>1. r \in Request /\ Carries(r, minted)
  BY DEF RequestsOK, RequestsCarry
<1>2. CASE RestoreArrive(w)
  <2>1. PICK n \in Known :
           Arrive(w, Begin("restore.findDeleted", n, NoBody, Unconditional), {})
    BY <1>2 DEF RestoreArrive
  <2> DEFINE q == Begin("restore.findDeleted", n, NoBody, Unconditional)
  <2>2. n \in Names /\ n \in Uris \cup minted /\ Unconditional \in Condition
    BY <1>1 DEF Known, Names, StoreTypeOK, Unconditional, Condition
  <2>3. q \in Request /\ Carries(q, minted)
    BY <2>2 DEF Begin, Request, Stages, Carries
  <2> QED BY <2>1, <2>3, ArriveOK
<1>3. CASE RestoreFindDeleted(w)
  <2> DEFINE found == findDeletedByUri(r.name)
             q == [r EXCEPT !.at = "restore.findUid", !.found = found]
  <2>1. CASE found # NoBody
    <3>1. r.name \in Names /\ r.at = "restore.findDeleted"
      BY <1>1, <1>3 DEF RestoreFindDeleted, Carries, StoreTypeOK, Names
    <3>2. found \in Bodies \cup {NoBody}
      BY <1>1, <3>1, FindType
    <3>3. q \in Request /\ Carries(q, minted)
      BY <1>1, <3>1, <3>2 DEF Request, Stages, Carries
    <3>4. req' = [req EXCEPT ![w] = q] /\ UNCHANGED storeVars
      BY <1>3, <2>1 DEF RestoreFindDeleted
    <3> QED BY <3>3, <3>4, ReadOK
  <2>2. CASE found = NoBody
    BY <1>3, <2>2, ReadOK DEF RestoreFindDeleted
  <2> QED BY <2>1, <2>2
<1>4. CASE RestoreFindUid(w)
  <2> DEFINE q == [r EXCEPT !.at = "restore.findLive"]
  <2>1. q \in Request /\ Carries(q, minted)
    BY <1>1, <1>4 DEF RestoreFindUid, Request, Stages, Carries
  <2>2. UNCHANGED storeVars /\ (req' = [req EXCEPT ![w] = q] \/ Answer(w, "refused"))
    BY <1>4 DEF RestoreFindUid, Goto
  <2> QED BY <2>1, <2>2, ReadOK
<1>5. CASE RestoreFindLive(w)
  <2>1. PICK new \in Mint(Live(r.name)) :
           /\ minted' = minted \cup new
           /\ \E to \in IF new = {} THEN {r.name} ELSE new :
                 req' = [req EXCEPT ![w].at = "restore.write", ![w].to = to]
    BY <1>5 DEF RestoreFindLive
  <2>2. PICK to \in IF new = {} THEN {r.name} ELSE new :
           req' = [req EXCEPT ![w].at = "restore.write", ![w].to = to]
    BY <2>1
  <2> DEFINE q == [r EXCEPT !.at = "restore.write", !.to = to]
  <2>3. UNCHANGED <<present, counter, log, rows>>
    BY <1>5 DEF RestoreFindLive
  <2>4. r.name \in Known /\ r.at = "restore.findLive"
    BY <1>1, <1>5 DEF RestoreFindLive, Carries, Known
  <2>5. new \subseteq Fresh
    BY <1>1, <2>1, <2>4, MintFresh
  <2>6. minted \subseteq minted' /\ minted' \subseteq Fresh
    BY <1>1, <2>1, <2>5 DEF StoreTypeOK
  <2>7. to \in Uris \cup minted' /\ r.name \in Uris \cup minted'
    BY <2>1, <2>2, <2>4, <2>6 DEF Known
  <2>8. q \in Request /\ Carries(q, minted')
    BY <1>1, <2>4, <2>6, <2>7 DEF Request, Stages, Carries, Names
  <2> QED BY <2>2, <2>6, <2>8, OneRequest
<1>6. CASE RestoreWrite(w)
  <2>1. PICK out \in {"ok", "conflict", "error"} : Answer(w, out) /\ UNCHANGED minted
    BY <1>6 DEF RestoreWrite
  <2> QED BY <2>1, AnswerOK
<1> QED BY <1>2, <1>3, <1>4, <1>5, <1>6 DEF Restore

-----------------------------------------------------------------------------
(* What a write sends, given what its request carries.                     *)
LEMMA PutSends ==
    ASSUME StoreTypeOK, RequestsOK, NEW w \in Workers, PutSave(w)
    PROVE  \E n \in Known, b \in Bodies, kind \in {"created", "modified"},
              pre \in Precondition :
              \E out : saveResource(n, b, kind, pre, out) /\ UNCHANGED present
<1> DEFINE r == req[w]
           kind == IF r.found = NoBody THEN "created" ELSE "modified"
           pre == PutPrecondition(r.cond, r.found)
<1>1. r \in Request /\ Carries(r, minted)
  BY DEF RequestsOK, RequestsCarry
<1>2. r.name \in Known /\ r.body \in Bodies /\ kind \in {"created", "modified"}
  BY <1>1 DEF PutSave, Carries, Known
<1>3. pre \in Precondition
  BY <1>1 DEF PutPrecondition, Precondition, Overwrite, Request
<1>4. \E out : saveResource(r.name, r.body, kind, pre, out) /\ UNCHANGED present
  BY DEF PutSave
<1> QED BY <1>2, <1>3, <1>4

LEMMA DeleteSends ==
    ASSUME StoreTypeOK, RequestsOK, NEW w \in Workers, DeleteWrite(w)
    PROVE  \E n \in Known, pre \in Precondition :
              \E out : deleteResource(n, pre, out) /\ UNCHANGED <<present, minted>>
<1> DEFINE r == req[w]
           pre == DeletePrecondition(r.cond, r.found)
<1>1. r \in Request /\ Carries(r, minted)
  BY DEF RequestsOK, RequestsCarry
<1>2. r.name \in Known
  BY <1>1 DEF DeleteWrite, Carries, Known
<1>3. pre \in Precondition
  BY <1>1 DEF DeletePrecondition, Precondition, Overwrite, Request
<1>4. \E out : deleteResource(r.name, pre, out) /\ UNCHANGED <<present, minted>>
  BY DEF DeleteWrite
<1> QED BY <1>2, <1>3, <1>4

LEMMA RestoreSends ==
    ASSUME RequestsOK, NEW w \in Workers, RestoreWrite(w)
    PROVE  \E cur \in Known, new \in Known :
              \E out : restoreResource(cur, new, out) /\ UNCHANGED <<present, minted>>
<1>1. Carries(req[w], minted)
  BY DEF RequestsOK, RequestsCarry
<1>2. req[w].name \in Known /\ req[w].to \in Known
  BY <1>1 DEF RestoreWrite, Carries, Known
<1> QED BY <1>2 DEF RestoreWrite

(* What a step of the object requests does to the tables: one batch, a     *)
(* newly minted name, or nothing.                                          *)
StoreStep ==
    \/ \E n \in Known, b \in Bodies, kind \in {"created", "modified"},
          pre \in Precondition :
          \E out : saveResource(n, b, kind, pre, out) /\ UNCHANGED present
    \/ \E n \in Known, pre \in Precondition :
          \E out : deleteResource(n, pre, out) /\ UNCHANGED <<present, minted>>
    \/ \E cur \in Known, new \in Known :
          \E out : restoreResource(cur, new, out) /\ UNCHANGED <<present, minted>>
    \/ \E old \in SUBSET Names : purgeDeletedBefore(old)
    \/ /\ UNCHANGED <<present, counter, log, rows>>
       /\ minted \subseteq minted' /\ minted' \subseteq Fresh

(* A step of a request handler is one of those, and keeps all requests in  *)
(* order.                                                                  *)
LEMMA StepOK ==
    ASSUME StoreTypeOK, RequestsOK, [Next]_vars
    PROVE  StoreStep /\ RequestsOK'
<1>1. ASSUME NEW w \in Workers, Put(w) PROVE StoreStep
  <2>1. ASSUME ~PutSave(w) PROVE UNCHANGED storeVars
    BY <1>1, <2>1 DEF Put, PutArrive, PutFindByUri, PutFindUid, Arrive
  <2> QED BY <2>1, PutSends DEF storeVars, StoreStep, StoreTypeOK
<1>2. ASSUME NEW w \in Workers, Delete(w) PROVE StoreStep
  <2>1. ASSUME ~DeleteWrite(w) PROVE UNCHANGED storeVars
    BY <1>2, <2>1 DEF Delete, DeleteArrive, DeleteFindByUri, Arrive
  <2> QED BY <2>1, DeleteSends DEF storeVars, StoreStep, StoreTypeOK
<1>3. ASSUME NEW w \in Workers, Restore(w) PROVE StoreStep
  <2>1. ASSUME ~RestoreWrite(w), ~RestoreFindLive(w) PROVE UNCHANGED storeVars
    BY <1>3, <2>1 DEF Restore, RestoreArrive, RestoreFindDeleted, RestoreFindUid, Arrive
  <2>2. CASE RestoreFindLive(w)
    BY <2>2 DEF RestoreFindLive, Mint, StoreStep, StoreTypeOK
  <2> QED BY <2>1, <2>2, RestoreSends DEF storeVars, StoreStep, StoreTypeOK
<1>4. ASSUME NEW w \in Workers, Crash(w) PROVE StoreStep /\ RequestsOK'
  <2>1. UNCHANGED storeVars
    BY <1>4 DEF Crash
  <2>2. StoreStep
    BY <2>1 DEF storeVars, StoreStep, StoreTypeOK
  <2> QED BY <1>4, <2>1, <2>2, ReadOK DEF Crash
<1>5. CASE Purge
  BY <1>5 DEF Purge, purgeDeletedBefore, StoreStep, RequestsOK, RequestsCarry
<1>6. CASE UNCHANGED vars
  BY <1>6 DEF vars, StoreStep, StoreTypeOK, RequestsOK, RequestsCarry
<1> QED BY <1>1, <1>2, <1>3, <1>4, <1>5, <1>6, PutKeepsRequests,
           DeleteKeepsRequests, RestoreKeepsRequests DEF Next

(* The invariant is inductive.                                             *)
LEMMA InitIInv == Init => IInv
<1> SUFFICES ASSUME Init PROVE IInv
  OBVIOUS
<1>1. /\ present = TRUE /\ counter = 0 /\ log = {} /\ minted = {}
      /\ rows = [n \in Names |-> NoRow]
      /\ req = [w \in Workers |-> Idle("none")]
  BY DEF Init, StoreInit
<1>2. RequestsOK
  BY <1>1, IdleRequest DEF RequestsOK, RequestsCarry
<1>3. StoreTypeOK /\ FreshUnused
  BY <1>1 DEF StoreTypeOK, FreshUnused, NoRow, Row, Names
<1>4. LogContiguous
  BY <1>1 DEF LogContiguous
<1>5. LiveIsLogged /\ UidsUnique
  BY <1>1 DEF LiveIsLogged, UidsUnique, Live, NoRow
<1> QED BY <1>1, <1>2, <1>3, <1>4, <1>5, IInvSplits DEF StoreInv

LEMMA NextIInv == IInv /\ [Next]_vars => IInv'
<1> SUFFICES ASSUME StoreInv, RequestsOK, [Next]_vars PROVE StoreInv' /\ RequestsOK'
  BY IInvSplits
<1>1. StoreTypeOK /\ StoreStep /\ RequestsOK'
  BY StepOK DEF StoreInv
<1>2. CASE /\ UNCHANGED <<present, counter, log, rows>>
           /\ minted \subseteq minted' /\ minted' \subseteq Fresh
  BY <1>1, <1>2 DEF StoreInv, StoreTypeOK, FreshUnused, LogContiguous, LiveIsLogged,
     UidsUnique, Live
<1>3. CASE \E n \in Known, b \in Bodies, kind \in {"created", "modified"},
              pre \in Precondition :
              \E out : saveResource(n, b, kind, pre, out) /\ UNCHANGED present
  BY <1>1, <1>3, SaveKeepsStore
<1>4. CASE \E n \in Known, pre \in Precondition :
              \E out : deleteResource(n, pre, out) /\ UNCHANGED <<present, minted>>
  BY <1>1, <1>4, DeleteKeepsStore
<1>5. CASE \E cur \in Known, new \in Known :
              \E out : restoreResource(cur, new, out) /\ UNCHANGED <<present, minted>>
  BY <1>1, <1>5, RestoreKeepsStore
<1>6. CASE \E old \in SUBSET Names : purgeDeletedBefore(old)
  BY <1>1, <1>6, PurgeKeepsStore
<1> QED BY <1>1, <1>2, <1>3, <1>4, <1>5, <1>6 DEF StoreStep

(* IInv holds in every reachable state.                                    *)
THEOREM Inductive == Spec => []IInv
BY InitIInv, NextIInv, PTL DEF Spec

(* Types, with no bound on the number of workers or tokens.                *)
THEOREM TypeCorrect == Spec => []TypeOK
<1>1. IInv => TypeOK
  BY DEF IInv
<1> QED BY <1>1, Inductive, PTL

(* One record per token 1..sync_counter, however requests interleave.      *)
THEOREM LogIsContiguous == Spec => []LogContiguous
<1>1. IInv => LogContiguous
  BY DEF IInv
<1> QED BY <1>1, Inductive, PTL

(* A sync never reports a live resource as removed for good.               *)
THEOREM LiveResourcesAreLogged == Spec => []LiveIsLogged
<1>1. IInv => LiveIsLogged
  BY DEF IInv
<1> QED BY <1>1, Inductive, PTL

(* No two live resources share a UID.                                      *)
THEOREM NoUidTwice == Spec => []UidsUnique
<1>1. IInv => UidsUnique
  BY DEF IInv
<1> QED BY <1>1, Inductive, PTL

-----------------------------------------------------------------------------
(* What one batch does to what readers see and to what its client is told: *)
(* the action properties, from the same invariant.                         *)

(* Every change a reader can see has a new record.                         *)
SeenIsLogged == \A n \in Names : BodyIn(rows', n) # findByUri(n)
                   => \E c \in log' \ log : c.uri = n

(* Every ghost is still there, under its name or one that was free.        *)
GhostsKept == \A n \in Names : Ghost(n) =>
                 \E m \in Names : /\ rows'[m].is # "none"
                                  /\ rows'[m].body = rows[n].body
                                  /\ m = n \/ rows[m].is = "none"

(* Statements 1 and 2, when their WHERE holds, add a record that is new.   *)
LEMMA BumpIsNew ==
    ASSUME StoreInv, NEW n \in Names, NEW kind, NEW pre,
           BumpAndLog(n, kind, pre), BumpGate(n, pre)
    PROVE  \E c \in log' \ log : c.uri = n
<1> DEFINE rec == [token |-> counter + 1, uri |-> n, kind |-> kind]
<1>1. rec \in log' /\ rec.uri = n /\ rec.token = counter + 1
  BY DEF BumpAndLog
<1>2. counter \in Nat /\ \A c \in log : c.token <= counter
  BY DEF StoreInv, StoreTypeOK, LogContiguous
<1>3. rec \notin log
  BY <1>1, <1>2
<1> QED BY <1>1, <1>3

(* saveResource.                                                           *)
LEMMA SaveOutcome ==
    ASSUME StoreInv,
           NEW n \in Known, NEW b \in Bodies, NEW kind \in {"created", "modified"},
           NEW pre \in Precondition, NEW out,
           saveResource(n, b, kind, pre, out), UNCHANGED present
    PROVE  /\ SeenIsLogged
           /\ GhostsKept
           /\ out = "ok" =>
                 /\ BodyIn(rows', n) = b
                 /\ pre.kind = "match" => findByUri(n) = pre.etag
                 /\ pre.kind = "create" => findByUri(n) = NoBody
<1>0. n \in Names
  BY DEF Known, Names, StoreInv, StoreTypeOK
<1>1. CASE out = "conflict" /\ UNCHANGED <<counter, log, rows, minted>>
  BY <1>1 DEF SeenIsLogged, GhostsKept, findByUri, BodyIn, Ghost
<1>2. ASSUME ~SaveAborts(n, b, pre),
             out = Verdict(n, pre, SaveHits(n, pre)),
             BumpAndLog(n, kind, pre),
             NEW new \in Mint(Ghost(n)),
             rows' = IF SaveHits(n, pre)
                     THEN [Evacuated(n, new) EXCEPT ![n] = LiveRow(b)]
                     ELSE Evacuated(n, new)
      PROVE  /\ SeenIsLogged
             /\ GhostsKept
             /\ out = "ok" =>
                   /\ BodyIn(rows', n) = b
                   /\ pre.kind = "match" => findByUri(n) = pre.etag
                   /\ pre.kind = "create" => findByUri(n) = NoBody
  <2>1. /\ rows' \in [Names -> Row]
        /\ rows'[n] = IF SaveHits(n, pre) THEN LiveRow(b)
                      ELSE IF Ghost(n) THEN NoRow ELSE rows[n]
        /\ \A m \in Names \ {n} : rows'[m] = IF m \in new THEN rows[n] ELSE rows[m]
        /\ \A m \in new : Ghost(n) /\ rows[m] = NoRow
        /\ \A m \in Names \ {n} : rows'[m].is = "live" => rows'[m] = rows[m]
    BY <1>2, SaveRows DEF StoreInv
  <2>2. SaveHits(n, pre) => BumpGate(n, pre)
    BY DEF SaveHits, BumpGate, Live, StoreInv
  <2>3. SeenIsLogged
    <3> SUFFICES ASSUME NEW m \in Names, BodyIn(rows', m) # findByUri(m)
                 PROVE  \E c \in log' \ log : c.uri = m
      BY DEF SeenIsLogged
    <3>1. m = n /\ SaveHits(n, pre)
      BY <2>1 DEF BodyIn, findByUri, Ghost, NoRow
    <3> QED BY <3>1, <2>2, <1>0, <1>2, BumpIsNew
  <2>4. GhostsKept
    <3> SUFFICES ASSUME NEW m \in Names, Ghost(m)
                 PROVE  \E k \in Names : /\ rows'[k].is # "none"
                                         /\ rows'[k].body = rows[m].body
                                         /\ k = m \/ rows[k].is = "none"
      BY DEF GhostsKept
    <3>1. CASE m # n
      BY <3>1, <2>1 DEF Ghost, NoRow
    <3>2. CASE m = n
      <4>1. PICK g \in Fresh \ minted : new = {g}
        BY <3>2, <1>2 DEF Mint
      <4>2. g \in Names /\ g # n
        BY FreshAssumption DEF Known, Names
      <4>3. rows'[g] = rows[n] /\ rows[g] = NoRow
        BY <4>1, <4>2, <2>1
      <4> QED BY <4>2, <4>3, <3>2 DEF Ghost, NoRow
    <3> QED BY <3>1, <3>2
  <2>5. ASSUME out = "ok"
        PROVE  /\ BodyIn(rows', n) = b
               /\ pre.kind = "match" => findByUri(n) = pre.etag
               /\ pre.kind = "create" => findByUri(n) = NoBody
    <3>1. SaveHits(n, pre)
      BY <2>5, <1>2 DEF Verdict, SaveHits
    <3>2. BodyIn(rows', n) = b
      BY <3>1, <2>1 DEF BodyIn, LiveRow
    <3> QED BY <3>1, <3>2, <1>2 DEF SaveHits, SaveAborts, findByUri, BodyIn, Live
  <2> QED BY <2>3, <2>4, <2>5
<1> QED BY <1>1, <1>2 DEF saveResource

(* deleteResource.                                                         *)
LEMMA DeleteOutcome ==
    ASSUME StoreInv, NEW n \in Known, NEW pre \in Precondition, NEW out,
           deleteResource(n, pre, out)
    PROVE  /\ SeenIsLogged
           /\ GhostsKept
           /\ out = "ok" =>
                 /\ BodyIn(rows', n) = NoBody
                 /\ pre.kind = "match" => findByUri(n) = pre.etag
<1>0. n \in Names /\ rows \in [Names -> Row] /\ present
  BY DEF Known, Names, StoreInv, StoreTypeOK
<1>1. CASE out = "conflict" /\ UNCHANGED <<counter, log, rows>>
  BY <1>1 DEF SeenIsLogged, GhostsKept, findByUri, BodyIn, Ghost
<1>2. ASSUME out = Verdict(n, pre, DeleteHits(n, pre)),
             BumpAndLog(n, "deleted", pre),
             rows' = IF DeleteHits(n, pre)
                     THEN [rows EXCEPT ![n].is = "ghost"] ELSE rows
      PROVE  /\ SeenIsLogged
             /\ GhostsKept
             /\ out = "ok" =>
                   /\ BodyIn(rows', n) = NoBody
                   /\ pre.kind = "match" => findByUri(n) = pre.etag
  <2>1. /\ \A m \in Names \ {n} : rows'[m] = rows[m]
        /\ rows'[n].body = rows[n].body
        /\ rows'[n].is = IF DeleteHits(n, pre) THEN "ghost" ELSE rows[n].is
    BY <1>0, <1>2 DEF Row
  <2>2. DeleteHits(n, pre) => BumpGate(n, pre)
    BY <1>0 DEF DeleteHits, BumpGate, Live
  <2>3. SeenIsLogged
    <3> SUFFICES ASSUME NEW m \in Names, BodyIn(rows', m) # findByUri(m)
                 PROVE  \E c \in log' \ log : c.uri = m
      BY DEF SeenIsLogged
    <3>1. m = n /\ DeleteHits(n, pre)
      BY <2>1 DEF BodyIn, findByUri
    <3> QED BY <3>1, <2>2, <1>0, <1>2, BumpIsNew
  <2>4. GhostsKept
    BY <2>1 DEF GhostsKept, Ghost
  <2>5. ASSUME out = "ok"
        PROVE  /\ BodyIn(rows', n) = NoBody
               /\ pre.kind = "match" => findByUri(n) = pre.etag
    BY <2>5, <2>1, <1>2 DEF Verdict, DeleteHits, BodyIn, findByUri, Live
  <2> QED BY <2>3, <2>4, <2>5
<1> QED BY <1>1, <1>2 DEF deleteResource

(* restoreResource.                                                        *)
LEMMA RestoreOutcome ==
    ASSUME StoreInv, NEW cur \in Known, NEW new \in Known, NEW out,
           restoreResource(cur, new, out)
    PROVE  SeenIsLogged /\ GhostsKept
<1>0. cur \in Names /\ new \in Names /\ present
  BY DEF Known, Names, StoreInv, StoreTypeOK
<1>1. CASE UNCHANGED rows
  BY <1>1 DEF SeenIsLogged, GhostsKept, findByUri, BodyIn, Ghost
<1>2. ASSUME ~RestoreAborts(cur, new), Ghost(cur),
             BumpAndLog(new, "created", Overwrite),
             rows' = Restored(cur, new)
      PROVE  SeenIsLogged /\ GhostsKept
  <2>1. /\ rows'[new] = LiveRow(rows[cur].body)
        /\ cur # new => rows'[cur] = NoRow /\ rows[new] = NoRow
        /\ \A m \in Names \ {cur, new} : rows'[m] = rows[m]
    BY <1>0, <1>2 DEF Restored, RestoreAborts
  <2>2. BumpGate(new, Overwrite)
    BY <1>0 DEF BumpGate, Overwrite
  <2>3. SeenIsLogged
    <3> SUFFICES ASSUME NEW m \in Names, BodyIn(rows', m) # findByUri(m)
                 PROVE  \E c \in log' \ log : c.uri = m
      BY DEF SeenIsLogged
    <3>1. m = new
      BY <2>1, <1>2 DEF BodyIn, findByUri, Ghost, NoRow
    <3> QED BY <3>1, <2>2, <1>0, <1>2, BumpIsNew
  <2>4. GhostsKept
    BY <2>1, <1>0, <1>2 DEF GhostsKept, Ghost, NoRow, LiveRow
  <2> QED BY <2>3, <2>4
<1> QED BY <1>1, <1>2 DEF restoreResource

-----------------------------------------------------------------------------
(* From batches to steps of the system.                                    *)

(* What a step of PutSave, DeleteWrite and RestoreWrite is made of.        *)
LEMMA PutSaveOutcome ==
    ASSUME IInv, NEW w \in Workers, PutSave(w)
    PROVE  /\ SeenIsLogged /\ GhostsKept
           /\ req'[w].out = "ok" =>
                 /\ BodyIn(rows', req[w].name) = req[w].body
                 /\ req[w].cond.kind = "must-match" =>
                       findByUri(req[w].name) \in req[w].cond.etags
                 /\ req[w].cond.kind = "must-not-exist" =>
                       findByUri(req[w].name) = NoBody
<1> DEFINE r == req[w]
           kind == IF r.found = NoBody THEN "created" ELSE "modified"
           pre == PutPrecondition(r.cond, r.found)
<1>1. /\ r \in Request /\ Carries(r, minted) /\ StoreInv
      /\ req \in [Workers -> Request]
  BY IInvSplits DEF RequestsOK, RequestsCarry
<1>2. PICK out \in {"ok", "conflict", "error"} :
         /\ saveResource(r.name, r.body, kind, pre, out)
         /\ Answer(w, out)
         /\ UNCHANGED present
  BY DEF PutSave
<1>3. /\ r.name \in Known /\ r.body \in Bodies /\ kind \in {"created", "modified"}
      /\ CondHolds(r.cond, r.found)
  BY <1>1 DEF PutSave, Carries, Known
<1>4. pre \in Precondition
  BY <1>1 DEF PutPrecondition, Precondition, Overwrite, Request
<1>5. /\ SeenIsLogged /\ GhostsKept
      /\ out = "ok" =>
            /\ BodyIn(rows', r.name) = r.body
            /\ pre.kind = "match" => findByUri(r.name) = pre.etag
            /\ pre.kind = "create" => findByUri(r.name) = NoBody
  BY <1>1, <1>2, <1>3, <1>4, SaveOutcome
<1>6. req'[w].out = out
  BY <1>1, <1>2 DEF Answer, Idle
<1>7. /\ r.cond.kind = "must-match" =>
            pre.kind = "match" /\ pre.etag = r.found /\ r.found \in r.cond.etags
      /\ r.cond.kind = "must-not-exist" => pre.kind = "create"
  BY <1>3 DEF PutPrecondition, CondHolds
<1> QED BY <1>5, <1>6, <1>7

LEMMA DeleteWriteOutcome ==
    ASSUME IInv, NEW w \in Workers, DeleteWrite(w)
    PROVE  /\ SeenIsLogged /\ GhostsKept
           /\ req'[w].out = "ok" =>
                 /\ BodyIn(rows', req[w].name) = NoBody
                 /\ req[w].cond.kind = "must-match" =>
                       findByUri(req[w].name) \in req[w].cond.etags
           /\ req[w].cond.kind # "must-not-exist"
<1> DEFINE r == req[w]
           pre == DeletePrecondition(r.cond, r.found)
<1>1. /\ r \in Request /\ Carries(r, minted) /\ StoreInv
      /\ req \in [Workers -> Request]
  BY IInvSplits DEF RequestsOK, RequestsCarry
<1>2. PICK out \in {"ok", "conflict", "error"} :
         deleteResource(r.name, pre, out) /\ Answer(w, out)
  BY DEF DeleteWrite
<1>3. /\ r.name \in Known /\ CondHolds(r.cond, r.found)
      /\ r.cond.kind # "must-not-exist"
  BY <1>1 DEF DeleteWrite, Carries, Known
<1>4. pre \in Precondition
  BY <1>1 DEF DeletePrecondition, Precondition, Overwrite, Request
<1>5. /\ SeenIsLogged /\ GhostsKept
      /\ out = "ok" =>
            /\ BodyIn(rows', r.name) = NoBody
            /\ pre.kind = "match" => findByUri(r.name) = pre.etag
  BY <1>1, <1>2, <1>3, <1>4, DeleteOutcome
<1>6. req'[w].out = out
  BY <1>1, <1>2 DEF Answer, Idle
<1>7. r.cond.kind = "must-match" =>
         pre.kind = "match" /\ pre.etag = r.found /\ r.found \in r.cond.etags
  BY <1>3 DEF DeletePrecondition, CondHolds
<1> QED BY <1>3, <1>5, <1>6, <1>7

LEMMA RestoreWriteOutcome ==
    ASSUME IInv, NEW w \in Workers, RestoreWrite(w)
    PROVE  SeenIsLogged /\ GhostsKept
<1> DEFINE r == req[w]
<1>1. Carries(r, minted) /\ StoreInv
  BY IInvSplits DEF RequestsOK, RequestsCarry
<1>2. PICK out : restoreResource(r.name, r.to, out)
  BY DEF RestoreWrite
<1>3. r.name \in Known /\ r.to \in Known
  BY <1>1 DEF RestoreWrite, Carries, Known
<1> QED BY <1>1, <1>2, <1>3, RestoreOutcome

(* A step is a batch, the purge, or leaves the rows alone.                 *)
LEMMA StepKinds ==
    ASSUME [Next]_vars
    PROVE  \/ \E w \in Workers : PutSave(w) \/ DeleteWrite(w) \/ RestoreWrite(w)
           \/ Purge
           \/ UNCHANGED rows
BY DEF Next, vars, storeVars, Put, Delete, Restore, Arrive, Crash,
       PutArrive, PutFindByUri, PutFindUid, DeleteArrive, DeleteFindByUri,
       RestoreArrive, RestoreFindDeleted, RestoreFindUid, RestoreFindLive

(* A step changes the request of one worker at most.                       *)
LEMMA OneWorker ==
    ASSUME IInv, NEW w \in Workers, [Next]_vars, req'[w] # req[w]
    PROVE  Put(w) \/ Delete(w) \/ Restore(w) \/ Crash(w)
<1>1. req \in [Workers -> Request]
  BY DEF IInv, TypeOK
<1>2. ~UNCHANGED req /\ ~Purge
  BY DEF Purge
<1>3. PICK v \in Workers : Put(v) \/ Delete(v) \/ Restore(v) \/ Crash(v)
  BY <1>2 DEF Next, vars
<1>4. \E r : req' = [req EXCEPT ![v] = r]
  <2>1. CASE Put(v)
    BY <2>1 DEF Put, PutArrive, PutFindByUri, PutFindUid, PutSave, Arrive, Goto, Answer
  <2>2. CASE Delete(v)
    BY <2>2 DEF Delete, DeleteArrive, DeleteFindByUri, DeleteWrite, Arrive, Answer
  <2>3. CASE Restore(v)
    BY <2>3 DEF Restore, RestoreArrive, RestoreFindDeleted, RestoreFindUid,
       RestoreFindLive, RestoreWrite, Arrive, Goto, Answer
  <2>4. CASE Crash(v)
    BY <2>4 DEF Crash, Answer
  <2> QED BY <1>3, <2>1, <2>2, <2>3, <2>4
<1>5. v = w
  BY <1>1, <1>4
<1> QED BY <1>3, <1>5

(* Only the batch of a write answers it with success.                      *)
LEMMA WhoAnswers ==
    ASSUME IInv, NEW w \in Workers, [Next]_vars,
           req[w].at \in {"put.save", "delete.write"}, req'[w].out = "ok"
    PROVE  \/ req[w].at = "put.save" /\ PutSave(w)
           \/ req[w].at = "delete.write" /\ DeleteWrite(w)
<1>1. req \in [Workers -> Request] /\ req[w].out = "none"
  BY DEF IInv, TypeOK, RequestsCarry, Carries
<1>2. req'[w] # req[w]
  BY <1>1
<1>3. ~Crash(w)
  BY <1>1 DEF Crash, Answer, Idle
<1>4. Put(w) \/ Delete(w) \/ Restore(w)
  BY <1>2, <1>3, OneWorker
<1> QED BY <1>4 DEF Put, Delete, Restore, PutArrive, PutFindByUri, PutFindUid,
        PutSave, DeleteArrive, DeleteFindByUri, DeleteWrite, RestoreArrive,
        RestoreFindDeleted, RestoreFindUid, RestoreFindLive, RestoreWrite, Arrive

-----------------------------------------------------------------------------
(* A step makes no change that readers see without a new record.           *)
LEMMA StepIsLogged == ASSUME IInv, [Next]_vars PROVE SeenIsLogged
<1>1. CASE Purge
  BY <1>1 DEF Purge, purgeDeletedBefore, SeenIsLogged, BodyIn, findByUri, Ghost, NoRow
<1>2. CASE UNCHANGED rows
  BY <1>2 DEF SeenIsLogged, BodyIn, findByUri
<1> QED BY <1>1, <1>2, StepKinds, PutSaveOutcome, DeleteWriteOutcome,
           RestoreWriteOutcome

(* No change of what readers see escapes the change log.                   *)
THEOREM ChangesAreLogged == Spec => EveryChangeLogged
<1>1. IInv /\ [Next]_vars => [SeenIsLogged]_vars
  BY StepIsLogged
<1>2. [SeenIsLogged]_vars <=> [\A n \in Names : BodyIn(rows', n) # findByUri(n)
         => \E c \in log' \ log : c.uri = n]_vars
  BY DEF SeenIsLogged
<1> QED BY <1>1, <1>2, Inductive, PTL DEF Spec, EveryChangeLogged

(* A deleted resource stays recoverable until the purge takes it.          *)
THEOREM GhostsAreKept == Spec => GhostsSurvive
<1>1. IInv /\ [Next]_vars => [Purge \/ \A n \in Names : Ghost(n) =>
          \E m \in Names : /\ rows'[m].is # "none"
                           /\ rows'[m].body = rows[n].body
                           /\ m = n \/ rows[m].is = "none"]_vars
  <2> SUFFICES ASSUME IInv, [Next]_vars PROVE Purge \/ GhostsKept
    BY DEF GhostsKept
  <2>1. CASE UNCHANGED rows
    BY <2>1 DEF GhostsKept, Ghost
  <2> QED BY <2>1, StepKinds, PutSaveOutcome, DeleteWriteOutcome,
             RestoreWriteOutcome
<1> QED BY <1>1, Inductive, PTL DEF Spec, GhostsSurvive

(* No lost update: a successful write with If-Match met one of those       *)
(* versions, one with If-None-Match: * met none.                           *)
THEOREM UpdatesAreNotLost == Spec => NoLostUpdate
<1>1. IInv /\ [Next]_vars =>
      [\A w \in Workers :
          LET r == req[w] IN
          /\ r.at \in {"put.save", "delete.write"}
          /\ req'[w].out = "ok"
          => /\ r.cond.kind = "must-match" => findByUri(r.name) \in r.cond.etags
             /\ r.cond.kind = "must-not-exist" => findByUri(r.name) = NoBody]_vars
  BY WhoAnswers, PutSaveOutcome, DeleteWriteOutcome
<1> QED BY <1>1, Inductive, PTL DEF Spec, NoLostUpdate

(* What a success answer says is so.                                       *)
THEOREM SuccessIsNeverALie == Spec => SuccessIsTrue
<1>1. IInv /\ [Next]_vars =>
      [\A w \in Workers :
          LET r == req[w] IN
          req'[w].out = "ok" =>
             /\ r.at = "put.save" => BodyIn(rows', r.name) = r.body
             /\ r.at = "delete.write" => BodyIn(rows', r.name) = NoBody]_vars
  BY WhoAnswers, PutSaveOutcome, DeleteWriteOutcome
<1> QED BY <1>1, Inductive, PTL DEF Spec, SuccessIsTrue
=============================================================================
