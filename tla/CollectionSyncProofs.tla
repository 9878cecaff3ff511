------------------------- MODULE CollectionSyncProofs -------------------------
(***************************************************************************)
(* Proofs about object requests, and the clients that sync, beside the     *)
(* requests on their collection, for any number of each.                   *)
(*                                                                         *)
(* First the requests alone.  The counter may be rolled back and the       *)
(* collection may go and come back, so that neither presence nor the       *)
(* contiguity of the log can be part of the invariant; what holds the      *)
(* system together instead are the keys of the tables: sync_changes's      *)
(* (TokenClash), the foreign key to the collection (SaveAborts) and the    *)
(* UID index (UidClash).                                                   *)
(*                                                                         *)
(* Then the clients: an accepted token misses nothing.  A client's token   *)
(* may be ahead of the counter; what keeps it good is that all tokens up   *)
(* to it were logged (Covers): the key of sync_changes refuses every write *)
(* that would log one of them a second time, so that every record to come  *)
(* is newer than the token.                                                *)
(***************************************************************************)
EXTENDS CollectionSync, SyncProofs

(* What the tables satisfy through every life of the collection.           *)
TablesInv ==
    /\ StoreTypeOK
    /\ FreshUnused
    /\ NoOrphans
    /\ TokensUnique
    /\ UidsUnique

(* The inductive invariant.                                                *)
LifeInv == TablesInv /\ RequestsOK

(* Statements 1 and 2 do nothing in a collection that is gone, and record  *)
(* a change under a token of its own otherwise, whatever became of the     *)
(* counter.                                                                *)
LEMMA BumpKeepsTokens ==
    ASSUME StoreTypeOK, TokensUnique, NEW n \in Names, NEW kind \in Kinds,
           NEW pre, BumpAndLog(n, kind, pre), ~TokenClash(n, pre)
    PROVE  /\ counter' \in Nat
           /\ log' \subseteq Change
           /\ TokensUnique'
           /\ ~present => log' = log
           /\ BumpGate(n, pre) => \E c \in log' \ log : c.uri = n
<1>1. CASE ~BumpGate(n, pre)
  BY <1>1 DEF BumpAndLog, StoreTypeOK, TokensUnique
<1>2. CASE BumpGate(n, pre)
  <2> DEFINE rec == [token |-> counter + 1, uri |-> n, kind |-> kind]
  <2>1. counter' = counter + 1 /\ log' = log \cup {rec}
    BY <1>2 DEF BumpAndLog
  <2>2. rec \in Change /\ counter' \in Nat
    BY <2>1 DEF Change, Kinds, StoreTypeOK
  <2>3. \A c \in log : c.token # rec.token
    BY <1>2 DEF TokenClash
  <2>4. TokensUnique'
    BY <2>1, <2>3 DEF TokensUnique
  <2>5. rec \in log' \ log /\ rec.uri = n
    BY <2>1, <2>3
  <2> QED BY <1>2, <2>1, <2>2, <2>4, <2>5 DEF BumpGate, StoreTypeOK
<1> QED BY <1>1, <1>2

(* saveResource.                                                           *)
LEMMA SaveKeepsTables ==
    ASSUME TablesInv,
           NEW n \in Known, NEW b \in Bodies, NEW kind \in {"created", "modified"},
           NEW pre \in Precondition, NEW out,
           saveResource(n, b, kind, pre, out), UNCHANGED present
    PROVE  TablesInv' /\ (present => SeenIsLogged)
<1> USE DEF TablesInv
<1>1. CASE UNCHANGED <<counter, log, rows, minted>>
  BY <1>1 DEF StoreTypeOK, FreshUnused, NoOrphans, TokensUnique, UidsUnique, Live,
     SeenIsLogged, BodyIn, findByUri
<1>2. ASSUME ~SaveAborts(n, b, pre),
             BumpAndLog(n, kind, pre),
             NEW new \in Mint(Ghost(n)),
             rows' = IF SaveHits(n, pre)
                     THEN [Evacuated(n, new) EXCEPT ![n] = LiveRow(b)]
                     ELSE Evacuated(n, new),
             minted' = minted \cup new
      PROVE  TablesInv' /\ (present => SeenIsLogged)
  <2>1. /\ n \in Names /\ n \notin new /\ new \subseteq Fresh \ minted
        /\ Ghost(n) \/ new = {}
    BY <1>2, MintFresh
  <2>2. kind \in Kinds /\ ~TokenClash(n, pre)
    BY <1>2 DEF Kinds, SaveAborts
  <2>3. /\ counter' \in Nat /\ log' \subseteq Change /\ TokensUnique'
        /\ ~present => log' = log
        /\ BumpGate(n, pre) => \E c \in log' \ log : c.uri = n
    BY <1>2, <2>1, <2>2, BumpKeepsTokens
  <2>4. /\ rows' \in [Names -> Row]
        /\ rows'[n] = IF SaveHits(n, pre) THEN LiveRow(b)
                      ELSE IF Ghost(n) THEN NoRow ELSE rows[n]
        /\ \A m \in Names \ {n} : rows'[m] = IF m \in new THEN rows[n] ELSE rows[m]
        /\ \A m \in new : Ghost(n) /\ rows[m] = NoRow
        /\ \A m \in Names \ {n} : rows'[m].is = "live" => rows'[m] = rows[m]
    BY <1>2, SaveRows
  <2>5. SaveHits(n, pre) => present /\ BumpGate(n, pre)
    BY <1>2 DEF SaveAborts, SaveHits, BumpGate, Live
  <2>6. minted' \subseteq Fresh
    BY <1>2, <2>1 DEF StoreTypeOK
  <2>7. FreshUnused'
    <3> SUFFICES ASSUME NEW g \in Fresh \ minted'
                 PROVE  rows'[g] = NoRow
      BY DEF FreshUnused
    <3>1. g \in Names /\ g # n /\ g \notin new /\ g \notin minted
      BY <1>2, FreshAssumption DEF Known, Names
    <3> QED BY <3>1, <2>4 DEF FreshUnused
  <2>8. NoOrphans'
    BY <2>1, <2>3, <2>4, <2>5 DEF NoOrphans, Ghost, NoRow
  <2>9. UidsUnique'
    <3> SUFFICES ASSUME NEW l \in Names, NEW m \in Names, l # m,
                        rows'[l].is = "live", rows'[m].is = "live"
                 PROVE  UidOf[rows'[l].body] # UidOf[rows'[m].body]
      BY DEF UidsUnique, Live
    <3>1. CASE SaveHits(n, pre)
      <4>1. rows'[n].body = b /\ ~UidClash(n, b)
        BY <3>1, <2>4, <1>2 DEF SaveAborts, LiveRow
      <4>2. \A k \in Names \ {n} : rows'[k].is = "live" =>
               Live(k) /\ UidOf[rows'[k].body] # UidOf[b]
        BY <4>1, <2>4 DEF UidClash, Live
      <4> QED BY <4>1, <4>2, <2>4 DEF UidsUnique, Live
    <3>2. CASE ~SaveHits(n, pre)
      <4>1. rows'[l] = rows[l] /\ rows'[m] = rows[m]
        BY <3>2, <2>4 DEF NoRow
      <4> QED BY <4>1 DEF UidsUnique, Live
    <3> QED BY <3>1, <3>2
  <2>10. present => SeenIsLogged
    <3> SUFFICES ASSUME NEW m \in Names, BodyIn(rows', m) # findByUri(m)
                 PROVE  \E c \in log' \ log : c.uri = m
      BY DEF SeenIsLogged
    <3>1. m = n /\ SaveHits(n, pre)
      BY <2>4 DEF BodyIn, findByUri, Ghost, NoRow
    <3> QED BY <3>1, <2>3, <2>5
  <2> QED BY <2>3, <2>4, <2>6, <2>7, <2>8, <2>9, <2>10 DEF StoreTypeOK
<1> HIDE DEF TablesInv
<1> QED BY <1>1, <1>2 DEF saveResource, TablesInv, StoreTypeOK

(* deleteResource.                                                         *)
LEMMA DeleteKeepsTables ==
    ASSUME TablesInv, NEW n \in Known, NEW pre \in Precondition, NEW out,
           deleteResource(n, pre, out), UNCHANGED <<present, minted>>
    PROVE  TablesInv' /\ (present => SeenIsLogged)
<1> USE DEF TablesInv
<1>0. n \in Names
  BY DEF Known, Names, StoreTypeOK
<1>1. CASE UNCHANGED <<counter, log, rows>>
  BY <1>1 DEF StoreTypeOK, FreshUnused, NoOrphans, TokensUnique, UidsUnique, Live,
     SeenIsLogged, BodyIn, findByUri
<1>2. ASSUME ~TokenClash(n, pre),
             BumpAndLog(n, "deleted", pre),
             rows' = IF DeleteHits(n, pre)
                     THEN [rows EXCEPT ![n].is = "ghost"] ELSE rows
      PROVE  TablesInv' /\ (present => SeenIsLogged)
  <2>1. "deleted" \in Kinds
    BY DEF Kinds
  <2>2. /\ counter' \in Nat /\ log' \subseteq Change /\ TokensUnique'
        /\ ~present => log' = log
        /\ BumpGate(n, pre) => \E c \in log' \ log : c.uri = n
    BY <1>0, <1>2, <2>1, BumpKeepsTokens
  <2>3. /\ rows' \in [Names -> Row]
        /\ \A m \in Names : rows'[m].is = "live" => rows'[m] = rows[m]
        /\ \A m \in Names \ {n} : rows'[m] = rows[m]
        /\ ~DeleteHits(n, pre) => rows' = rows
    BY <1>0, <1>2 DEF StoreTypeOK, Row
  <2>4. DeleteHits(n, pre) => Live(n) /\ (present => BumpGate(n, pre))
    BY DEF DeleteHits, BumpGate, Live
  <2>5. FreshUnused'
    BY <2>3, FreshAssumption DEF FreshUnused, Known, Names
  <2>6. NoOrphans'
    BY <1>0, <2>2, <2>3, <2>4 DEF NoOrphans, Live, NoRow
  <2>7. UidsUnique'
    BY <2>3 DEF UidsUnique, Live
  <2>8. present => SeenIsLogged
    BY <1>0, <2>2, <2>3, <2>4 DEF SeenIsLogged, BodyIn, findByUri
  <2> QED BY <2>2, <2>3, <2>5, <2>6, <2>7, <2>8 DEF StoreTypeOK
<1> QED BY <1>1, <1>2 DEF deleteResource

(* restoreResource.                                                        *)
LEMMA RestoreKeepsTables ==
    ASSUME TablesInv, NEW cur \in Known, NEW new \in Known, NEW out,
           restoreResource(cur, new, out), UNCHANGED <<present, minted>>
    PROVE  TablesInv' /\ (present => SeenIsLogged)
<1> USE DEF TablesInv
<1>0. cur \in Names /\ new \in Names
  BY DEF Known, Names, StoreTypeOK
<1>1. CASE UNCHANGED <<counter, log, rows>>
  BY <1>1 DEF StoreTypeOK, FreshUnused, NoOrphans, TokensUnique, UidsUnique, Live,
     SeenIsLogged, BodyIn, findByUri
<1>2. ASSUME ~RestoreAborts(cur, new),
             BumpAndLog(new, "created", Overwrite),
             rows' = IF Ghost(cur) THEN Restored(cur, new) ELSE rows
      PROVE  TablesInv' /\ (present => SeenIsLogged)
  <2>1. "created" \in Kinds /\ ~TokenClash(new, Overwrite)
    BY <1>2 DEF Kinds, RestoreAborts
  <2>2. /\ counter' \in Nat /\ log' \subseteq Change /\ TokensUnique'
        /\ ~present => log' = log
        /\ BumpGate(new, Overwrite) => \E c \in log' \ log : c.uri = new
    BY <1>0, <1>2, <2>1, BumpKeepsTokens
  <2>3. /\ rows' \in [Names -> Row]
        /\ \A m \in Names \ {cur, new} : rows'[m] = rows[m]
        /\ Ghost(cur) => /\ rows'[new] = LiveRow(rows[cur].body)
                         /\ cur # new => rows'[cur] = NoRow /\ rows[new] = NoRow
        /\ ~Ghost(cur) => rows' = rows
    <3>1. CASE Ghost(cur)
      <4>1. rows[cur].body \in Bodies \cup {NoBody}
        BY <1>0, FindType DEF Row
      <4>2. LiveRow(rows[cur].body) \in Row /\ NoRow \in Row
        BY <4>1 DEF LiveRow, NoRow, Row
      <4>3. Restored(cur, new) \in [Names -> Row]
        BY <4>2 DEF Restored, StoreTypeOK
      <4> QED BY <3>1, <4>3, <1>0, <1>2 DEF Restored, RestoreAborts
    <3>2. CASE ~Ghost(cur)
      BY <3>2, <1>2 DEF StoreTypeOK
    <3> QED BY <3>1, <3>2
  <2>4. \A m \in Names \ {new} : rows'[m].is = "live" => rows'[m] = rows[m]
    BY <2>3 DEF NoRow
  <2>5. FreshUnused'
    BY <2>3, FreshAssumption DEF FreshUnused, Known, Names
  <2>6. NoOrphans'
    BY <1>0, <2>2, <2>3 DEF NoOrphans, Ghost, NoRow
  <2>7. UidsUnique'
    <3> SUFFICES ASSUME NEW l \in Names, NEW m \in Names, l # m,
                        rows'[l].is = "live", rows'[m].is = "live"
                 PROVE  UidOf[rows'[l].body] # UidOf[rows'[m].body]
      BY DEF UidsUnique, Live
    <3>1. CASE Ghost(cur)
      <4>1. rows'[new].body = rows[cur].body /\ ~UidClash(cur, rows[cur].body)
        BY <3>1, <2>3, <1>2 DEF RestoreAborts, LiveRow
      <4>2. \A k \in Names \ {new} : rows'[k].is = "live" =>
               Live(k) /\ UidOf[rows'[k].body] # UidOf[rows[cur].body]
        BY <3>1, <4>1, <2>3, <2>4 DEF UidClash, Live, Ghost
      <4> QED BY <4>1, <4>2, <2>4 DEF UidsUnique, Live
    <3>2. CASE ~Ghost(cur)
      BY <3>2, <2>3 DEF UidsUnique, Live
    <3> QED BY <3>1, <3>2
  <2>8. present => SeenIsLogged
    <3> SUFFICES ASSUME present, NEW m \in Names, BodyIn(rows', m) # findByUri(m)
                 PROVE  \E c \in log' \ log : c.uri = m
      BY DEF SeenIsLogged
    <3>1. m = new
      BY <2>3 DEF BodyIn, findByUri, Ghost, NoRow
    <3>2. BumpGate(new, Overwrite)
      BY DEF BumpGate, Overwrite
    <3> QED BY <3>1, <3>2, <2>2
  <2> QED BY <2>2, <2>3, <2>5, <2>6, <2>7, <2>8 DEF StoreTypeOK
<1> QED BY <1>1, <1>2 DEF restoreResource

(* purgeDeletedBefore.                                                     *)
LEMMA PurgeKeepsTables ==
    ASSUME TablesInv, NEW old \in SUBSET Names, purgeDeletedBefore(old)
    PROVE  TablesInv' /\ SeenIsLogged
<1>1. /\ rows' \in [Names -> Row]
      /\ \A m \in Names : \/ rows'[m] = rows[m]
                          \/ rows'[m] = NoRow /\ Ghost(m)
  BY DEF TablesInv, StoreTypeOK, purgeDeletedBefore, NoRow, Row
<1>2. UNCHANGED <<present, counter, log, minted>>
  BY DEF purgeDeletedBefore
<1>3. FreshUnused' /\ NoOrphans'
  BY <1>1, <1>2 DEF TablesInv, FreshUnused, NoOrphans, Names
<1>4. UidsUnique' /\ SeenIsLogged
  BY <1>1 DEF TablesInv, UidsUnique, Live, NoRow, SeenIsLogged, BodyIn, findByUri, Ghost
<1> QED BY <1>1, <1>2, <1>3, <1>4 DEF TablesInv, StoreTypeOK, TokensUnique

(* Any step of the object requests.                                        *)
LEMMA NextKeepsLifeInv ==
    ASSUME LifeInv, [Next]_vars
    PROVE  LifeInv' /\ (present => SeenIsLogged)
<1>1. StoreTypeOK /\ RequestsOK /\ TablesInv
  BY DEF LifeInv, TablesInv
<1>2. StoreStep /\ RequestsOK'
  BY <1>1, StepOK
<1>3. TablesInv' /\ (present => SeenIsLogged)
  <2>1. CASE \E n \in Known, b \in Bodies, kind \in {"created", "modified"},
                pre \in Precondition :
                \E out : saveResource(n, b, kind, pre, out) /\ UNCHANGED present
    BY <1>1, <2>1, SaveKeepsTables
  <2>2. CASE \E n \in Known, pre \in Precondition :
                \E out : deleteResource(n, pre, out) /\ UNCHANGED <<present, minted>>
    BY <1>1, <2>2, DeleteKeepsTables
  <2>3. CASE \E cur \in Known, new \in Known :
                \E out : restoreResource(cur, new, out) /\ UNCHANGED <<present, minted>>
    BY <1>1, <2>3, RestoreKeepsTables
  <2>4. CASE \E old \in SUBSET Names : purgeDeletedBefore(old)
    BY <1>1, <2>4, PurgeKeepsTables
  <2>5. CASE /\ UNCHANGED <<present, counter, log, rows>>
             /\ minted \subseteq minted' /\ minted' \subseteq Fresh
    BY <1>1, <2>5 DEF TablesInv, StoreTypeOK, FreshUnused, NoOrphans, TokensUnique,
       UidsUnique, Live, SeenIsLogged, BodyIn, findByUri
  <2> QED BY <1>2, <2>1, <2>2, <2>3, <2>4, <2>5 DEF StoreStep
<1> QED BY <1>2, <1>3 DEF LifeInv

-----------------------------------------------------------------------------
(* The requests on the collection.                                         *)

(* save: the counter it writes comes from the request, and nothing else of *)
(* the collection changes.                                                 *)
LEMMA UpsertKeepsTables ==
    ASSUME TablesInv, NEW c \in Nat, save(c)
    PROVE  TablesInv' /\ SeenIsLogged
BY DEF TablesInv, save, StoreTypeOK, FreshUnused, NoOrphans, TokensUnique,
   UidsUnique, Live, SeenIsLogged, BodyIn, findByUri

(* delete and its cascade leave empty tables.                              *)
LEMMA CascadeKeepsTables ==
    ASSUME TablesInv, deleteCollection
    PROVE  TablesInv' /\ ~present'
<1>1. /\ rows' = [n \in Names |-> NoRow] /\ NoRow \in Row
      /\ log' = {} /\ counter' = 0 /\ present' = FALSE /\ minted' = minted
  BY DEF deleteCollection, NoRow, Row
<1>2. StoreTypeOK'
  BY <1>1 DEF TablesInv, StoreTypeOK
<1>3. UidsUnique'
  BY <1>1 DEF UidsUnique, Live, NoRow
<1> QED BY <1>1, <1>2, <1>3 DEF TablesInv, FreshUnused, Names, NoOrphans, TokensUnique

(* Requests that only read leave the tables alone.                         *)
LEMMA StillTables ==
    ASSUME TablesInv, UNCHANGED storeVars
    PROVE  TablesInv' /\ SeenIsLogged
BY DEF TablesInv, storeVars, StoreTypeOK, FreshUnused, NoOrphans, TokensUnique,
   UidsUnique, Live, SeenIsLogged, BodyIn, findByUri

LEMMA OnCollectionCarries ==
    ASSUME NEW stage \in {"proppatch.save", "create.save", "drop.findAll", "drop.write"},
           NEW base \in Nat, NEW m
    PROVE  /\ OnCollection(stage, base) \in Request
           /\ Carries(OnCollection(stage, base), m)
BY DEF OnCollection, Begin, Request, Stages, Unconditional, Condition, Carries

LEMMA LifecycleKeepsLifeInv ==
    ASSUME LifeInv, NEW w \in Workers, Lifecycle(w)
    PROVE  LifeInv' /\ (present /\ present' => SeenIsLogged)
<1>1. TablesInv /\ RequestsOK /\ counter \in Nat
  BY DEF LifeInv, TablesInv, StoreTypeOK
<1>2. CASE CreateArrive(w)
  <2>1. RequestsOK'
    BY <1>1, <1>2, OnCollectionCarries, ReadOK DEF CreateArrive
  <2> QED BY <1>1, <1>2, <2>1, StillTables DEF CreateArrive, LifeInv
<1>3. CASE CreateSave(w)
  <2>1. TablesInv' /\ SeenIsLogged
    BY <1>1, <1>3, UpsertKeepsTables DEF CreateSave
  <2>2. RequestsOK'
    BY <1>1, <1>3, AnswerOK DEF CreateSave, save
  <2> QED BY <2>1, <2>2 DEF LifeInv
<1>4. CASE PropPatchArrive(w)
  <2>1. RequestsOK'
    BY <1>1, <1>4, OnCollectionCarries, ArriveOK DEF PropPatchArrive
  <2> QED BY <1>1, <1>4, <2>1, StillTables DEF PropPatchArrive, Arrive, LifeInv
<1>5. CASE PropPatchSave(w)
  <2>1. req[w].base \in Nat
    BY <1>1 DEF RequestsOK, Request
  <2>2. TablesInv' /\ SeenIsLogged
    BY <1>1, <1>5, <2>1, UpsertKeepsTables DEF PropPatchSave
  <2>3. RequestsOK'
    BY <1>1, <1>5, AnswerOK DEF PropPatchSave, save
  <2> QED BY <2>2, <2>3 DEF LifeInv
<1>6. CASE DropArrive(w)
  <2>1. PICK stage \in {"drop.findAll", "drop.write"} : Arrive(w, OnCollection(stage, 0), {})
    BY <1>6 DEF DropArrive
  <2>2. RequestsOK'
    BY <1>1, <2>1, OnCollectionCarries, ArriveOK
  <2> QED BY <1>1, <2>1, <2>2, StillTables DEF Arrive, LifeInv
<1>7. CASE DropFindAll(w)
  <2> DEFINE q == [req[w] EXCEPT !.at = "drop.write", !.base = 1]
  <2>1. req[w] \in Request /\ Carries(req[w], minted) /\ req[w].at = "drop.findAll"
    BY <1>1, <1>7 DEF RequestsOK, RequestsCarry, DropFindAll
  <2>2. q \in Request /\ Carries(q, minted)
    BY <2>1 DEF Request, Stages, Carries
  <2>3. UNCHANGED storeVars /\ (req' = [req EXCEPT ![w] = q] \/ Answer(w, "refused"))
    BY <1>7 DEF DropFindAll
  <2>4. RequestsOK'
    BY <1>1, <2>2, <2>3, ReadOK
  <2> QED BY <1>1, <2>3, <2>4, StillTables DEF LifeInv
<1>8. CASE DropWrite(w)
  <2>1. TablesInv' /\ ~present'
    BY <1>1, <1>8, CascadeKeepsTables DEF DropWrite
  <2>2. RequestsOK'
    BY <1>1, <1>8, AnswerOK DEF DropWrite, deleteCollection
  <2> QED BY <2>1, <2>2 DEF LifeInv
<1> QED BY <1>2, <1>3, <1>4, <1>5, <1>6, <1>7, <1>8 DEF Lifecycle

-----------------------------------------------------------------------------
LEMMA InitLifeInv == Init => LifeInv
<1> SUFFICES ASSUME Init PROVE LifeInv
  OBVIOUS
<1>1. StoreTypeOK /\ FreshUnused /\ UidsUnique /\ RequestsOK
  BY InitIInv, IInvSplits DEF StoreInv
<1>2. NoOrphans /\ TokensUnique
  BY DEF Init, StoreInit, NoOrphans, TokensUnique
<1> QED BY <1>1, <1>2 DEF LifeInv, TablesInv

LEMMA StepLifeInv ==
    LifeInv /\ [LifecycleNext]_vars => LifeInv' /\ (present /\ present' => SeenIsLogged)
BY NextKeepsLifeInv, LifecycleKeepsLifeInv DEF LifecycleNext

(* LifeInv holds through every life of the collection.                     *)
THEOREM LifeInductive == LifecycleSpec => []LifeInv
<1>1. LifeInv /\ [LifecycleNext]_vars => LifeInv'
  BY StepLifeInv
<1> QED BY <1>1, InitLifeInv, PTL DEF LifecycleSpec

(* No write lands in a deleted collection.                                 *)
THEOREM NothingIsOrphaned == LifecycleSpec => []NoOrphans
<1>1. LifeInv => NoOrphans
  BY DEF LifeInv, TablesInv
<1> QED BY <1>1, LifeInductive, PTL

(* Two changes never share a token, although the counter may roll back.    *)
THEOREM TokensAreUnique == LifecycleSpec => []TokensUnique
<1>1. LifeInv => TokensUnique
  BY DEF LifeInv, TablesInv
<1> QED BY <1>1, LifeInductive, PTL

(* No two live resources share a UID, in any life of the collection.       *)
THEOREM NoUidTwiceInAnyLife == LifecycleSpec => []UidsUnique
<1>1. LifeInv => UidsUnique
  BY DEF LifeInv, TablesInv
<1> QED BY <1>1, LifeInductive, PTL

(* While the collection stays, every change readers see has a new record,  *)
(* even after its counter was rolled back.                                 *)
THEOREM ChangesAreLoggedWhilePresent == LifecycleSpec => LoggedWhilePresent
<1>1. LifeInv /\ [LifecycleNext]_vars =>
      [present /\ present' =>
          \A n \in Names : BodyIn(rows', n) # findByUri(n)
              => \E c \in log' \ log : c.uri = n]_vars
  BY StepLifeInv DEF SeenIsLogged
<1> QED BY <1>1, LifeInductive, PTL DEF LifecycleSpec, LoggedWhilePresent

-----------------------------------------------------------------------------
(* The clients.                                                            *)

(* What holds of a client and of its REPORT after each read.  Compare      *)
(* Following: the token may be beyond the counter.                         *)
Tracking(k) ==
    /\ k.has => Covers(k.token) /\ AllDue(k.view, k.token)
    /\ k.at # "idle" => Covers(k.base)
    /\ k.at = "fetch" /\ k.has =>
          \A n \in Names \ k.changed : Due(Kept(k), n, k.base)
    /\ k.at = "answer" => AllDue(k.answer, k.base)

(* The log of a collection into which no save of an earlier life went.     *)
LogIntact ==
    /\ Covers(counter)
    /\ \A e \in log : Covers(e.token)
    /\ LastExists
    /\ ShownIsLogged

(* The inductive invariant.                                                *)
ClientsInv ==
    /\ LifeInv
    /\ client \in [Clients -> Client]
    /\ ~present => \A c \in Clients \ outdated : ~Attached(c)
    /\ present /\ ~torn =>
          LogIntact /\ \A c \in Clients \ outdated : Tracking(client[c])

-----------------------------------------------------------------------------
(* What a step of the object requests does to the log.                     *)

(* A record that the key of the table admits; a deletion's name is gone.   *)
NewRecord(n, kind) ==
    /\ Recorded(n, kind)
    /\ \A e \in log : e.token # counter + 1
    /\ kind = "deleted" => BodyIn(rows', n) = NoBody

LEMMA RecordStep ==
    ASSUME StoreTypeOK, RequestsOK, [Next]_vars
    PROVE  /\ UNCHANGED present
           /\ \/ UNCHANGED <<counter, log>>
              \/ \E n \in Names, kind \in Kinds : NewRecord(n, kind)
<1>1. StoreStep
  BY StepOK
<1>2. ASSUME NEW n \in Known, NEW kind \in Kinds, NEW pre,
             BumpAndLog(n, kind, pre), ~TokenClash(n, pre),
             BumpGate(n, pre) /\ kind = "deleted" => BodyIn(rows', n) = NoBody
      PROVE  UNCHANGED <<counter, log>> \/ NewRecord(n, kind)
  BY <1>2 DEF BumpAndLog, Recorded, NewRecord, TokenClash
<1>3. Known \subseteq Names /\ {"created", "modified", "deleted"} \subseteq Kinds
  BY DEF Known, Names, StoreTypeOK, Kinds
<1>4. CASE \E n \in Known, b \in Bodies, kind \in {"created", "modified"},
              pre \in Precondition :
              \E out : saveResource(n, b, kind, pre, out) /\ UNCHANGED present
  BY <1>2, <1>3, <1>4 DEF saveResource, SaveAborts
<1>5. ASSUME NEW n \in Known, NEW pre \in Precondition, NEW out,
             deleteResource(n, pre, out), UNCHANGED <<present, minted>>
      PROVE  UNCHANGED <<counter, log>> \/ NewRecord(n, "deleted")
  <2>1. CASE UNCHANGED <<counter, log>>
    BY <2>1
  <2>2. CASE /\ ~TokenClash(n, pre)
             /\ BumpAndLog(n, "deleted", pre)
             /\ rows' = IF DeleteHits(n, pre)
                        THEN [rows EXCEPT ![n].is = "ghost"] ELSE rows
    <3>1. n \in Names /\ "deleted" \in Kinds
      BY <1>3
    <3>2. BumpGate(n, pre) => DeleteHits(n, pre) \/ ~Live(n)
      BY DEF BumpGate, DeleteHits, Live
    <3>3. BumpGate(n, pre) => BodyIn(rows', n) = NoBody
      BY <2>2, <3>1, <3>2 DEF BodyIn, Live, StoreTypeOK, Row
    <3> QED BY <1>2, <2>2, <3>1, <3>3
  <2> QED BY <1>5, <2>1, <2>2 DEF deleteResource
<1>6. CASE \E cur \in Known, new \in Known :
              \E out : restoreResource(cur, new, out) /\ UNCHANGED <<present, minted>>
  BY <1>2, <1>3, <1>6 DEF restoreResource, RestoreAborts
<1>7. CASE \E old \in SUBSET Names : purgeDeletedBefore(old)
  BY <1>7 DEF purgeDeletedBefore
<1> QED BY <1>1, <1>3, <1>4, <1>5, <1>6, <1>7 DEF StoreStep

(* Tokens covered stay covered, and a new record is newer than each.       *)
LEMMA CoveredIsPast ==
    ASSUME StoreTypeOK, NEW n \in Names, NEW kind \in Kinds, NewRecord(n, kind),
           NEW t \in Nat, Covers(t)
    PROVE  /\ t <= counter
           /\ \A s \in 1..t : \E e \in log' : e.token = s
<1>1. counter \in Nat /\ log \subseteq log'
  BY DEF StoreTypeOK, NewRecord, Recorded
<1>2. ~(t > counter)
  <2> SUFFICES ASSUME t > counter PROVE FALSE
    OBVIOUS
  <2>1. counter + 1 \in 1..t
    BY <1>1
  <2> QED BY <2>1 DEF Covers, NewRecord
<1> QED BY <1>1, <1>2 DEF Covers

(* The log stays intact.                                                   *)
LEMMA LogStaysIntact ==
    ASSUME StoreTypeOK, LogIntact, SeenIsLogged,
           NEW n \in Names, NEW kind \in Kinds, NewRecord(n, kind)
    PROVE  LogIntact'
<1> DEFINE rec == [token |-> counter + 1, uri |-> n, kind |-> kind]
<1>1. /\ log' = log \cup {rec} /\ counter' = counter + 1
      /\ rec.token = counter + 1 /\ rec.uri = n /\ rec.kind = kind
      /\ kind = "deleted" => BodyIn(rows', n) = NoBody
  BY DEF NewRecord, Recorded
<1>2. counter \in Nat /\ \A e \in log : e.token \in Nat
  BY DEF StoreTypeOK, Change
<1>3. \A e \in log : e.token <= counter
  BY <1>2, CoveredIsPast DEF LogIntact
<1>4. \A s \in 1..(counter + 1) : \E e \in log' : e.token = s
  <2> SUFFICES ASSUME NEW s \in 1..(counter + 1)
               PROVE  \E e \in log' : e.token = s
    OBVIOUS
  <2>1. CASE s = counter + 1
    BY <2>1, <1>1
  <2>2. CASE s # counter + 1
    BY <2>2, <1>1, <1>2 DEF LogIntact, Covers
  <2> QED BY <2>1, <2>2
<1>5. Covers(counter)'
  BY <1>1, <1>4 DEF Covers
<1>6. ASSUME NEW e \in log', NEW s \in 1..e.token
      PROVE  \E f \in log' : f.token = s
  <2>1. e.token \in Nat /\ e.token <= counter + 1
    BY <1>1, <1>2, <1>3
  <2> QED BY <1>2, <1>4, <2>1
<1>7. LastExists'
  <2> SUFFICES ASSUME NEW c \in log'
               PROVE  \E d \in log' : /\ d.uri = c.uri
                                      /\ \A e \in log' : e.uri = c.uri => e.token <= d.token
    BY DEF LastExists
  <2>1. CASE c.uri = n
    <3>1. \A e \in log' : e.token <= rec.token
      BY <1>1, <1>2, <1>3
    <3> QED BY <1>1, <2>1, <3>1
  <2>2. CASE c.uri # n
    <3>1. c \in log /\ \A e \in log' : e.uri = c.uri => e \in log
      BY <1>1, <2>2
    <3> QED BY <1>1, <3>1 DEF LogIntact, LastExists
  <2> QED BY <2>1, <2>2
<1>8. ASSUME NEW m \in Names, BodyIn(rows', m) # NoBody
      PROVE  \E c \in log' : /\ c.uri = m
                             /\ c.kind # "deleted"
                             /\ \A d \in log' : d.uri = m => d.token <= c.token
  <2>1. CASE m = n
    <3>1. \A d \in log' : d.token <= rec.token
      BY <1>1, <1>2, <1>3
    <3> QED BY <1>1, <1>8, <2>1, <3>1
  <2>2. CASE m # n
    <3>1. findByUri(m) = BodyIn(rows', m)
      BY <1>1, <2>2 DEF SeenIsLogged
    <3>2. \A d \in log' : d.uri = m => d \in log
      BY <1>1, <2>2
    <3> QED BY <1>1, <1>8, <3>1, <3>2 DEF LogIntact, ShownIsLogged
  <2> QED BY <2>1, <2>2
<1>9. (\A e \in log : Covers(e.token))'
  BY <1>6 DEF Covers
<1>10. ShownIsLogged'
  BY <1>8 DEF ShownIsLogged, findByUri
<1> QED BY <1>5, <1>7, <1>9, <1>10 DEF LogIntact

(* A new record leaves each client that tracks the collection tracking it. *)
LEMMA RecordKeepsTracking ==
    ASSUME StoreTypeOK, SeenIsLogged,
           NEW n \in Names, NEW kind \in Kinds, NewRecord(n, kind),
           NEW k \in Client, Tracking(k)
    PROVE  Tracking(k)'
<1>1. k.token \in Nat /\ k.base \in Nat
  BY DEF Client
<1>2. ASSUME NEW v, NEW m \in Names, NEW t \in Nat, Covers(t), Due(v, m, t)
      PROVE  v[m] # BodyIn(rows', m) => \E e \in log' : e.uri = m /\ e.token > t
  <2> SUFFICES ASSUME v[m] # BodyIn(rows', m)
               PROVE  \E e \in log' : e.uri = m /\ e.token > t
    OBVIOUS
  <2>1. CASE BodyIn(rows', m) = findByUri(m)
    <3>1. log \subseteq log'
      BY DEF NewRecord, Recorded
    <3> QED BY <1>2, <2>1, <3>1 DEF Due
  <2>2. CASE BodyIn(rows', m) # findByUri(m)
    <3>1. PICK e \in log' \ log : e.uri = m
      BY <2>2 DEF SeenIsLogged
    <3>2. e.token = counter + 1 /\ counter \in Nat
      BY <3>1 DEF NewRecord, Recorded, StoreTypeOK
    <3>3. t <= counter
      BY <1>2, CoveredIsPast
    <3> QED BY <3>1, <3>2, <3>3
  <2> QED BY <2>1, <2>2
<1>3. ASSUME k.has
      PROVE  /\ \A s \in 1..k.token : \E e \in log' : e.token = s
             /\ \A m \in Names : k.view[m] # BodyIn(rows', m)
                   => \E e \in log' : e.uri = m /\ e.token > k.token
  BY <1>1, <1>2, <1>3, CoveredIsPast DEF Tracking, AllDue
<1>4. ASSUME k.at # "idle"
      PROVE  \A s \in 1..k.base : \E e \in log' : e.token = s
  BY <1>1, <1>4, CoveredIsPast DEF Tracking
<1>5. ASSUME k.at = "fetch", k.has, NEW m \in Names \ k.changed
      PROVE  Kept(k)[m] # BodyIn(rows', m) => \E e \in log' : e.uri = m /\ e.token > k.base
  <2>1. Covers(k.base) /\ Due(Kept(k), m, k.base)
    BY <1>5 DEF Tracking
  <2> QED BY <1>1, <1>2, <1>5, <2>1
<1>6. ASSUME k.at = "answer", NEW m \in Names
      PROVE  k.answer[m] # BodyIn(rows', m) => \E e \in log' : e.uri = m /\ e.token > k.base
  <2>1. Covers(k.base) /\ Due(k.answer, m, k.base)
    BY <1>6 DEF Tracking, AllDue
  <2> QED BY <1>1, <1>2, <2>1
<1> QED BY <1>3, <1>4, <1>5, <1>6 DEF Tracking, Covers, AllDue, Due, findByUri, Kept

(* Nor does a step that shows nothing new and records nothing.             *)
LEMMA SilenceKeepsTracking ==
    ASSUME SeenIsLogged, UNCHANGED log
    PROVE  /\ LogIntact /\ Covers(counter)' => LogIntact'
           /\ \A k : Tracking(k) => Tracking(k)'
<1>1. \A n \in Names : BodyIn(rows', n) = findByUri(n)
  BY DEF SeenIsLogged
<1>2. LogIntact /\ Covers(counter)' => LogIntact'
  BY <1>1 DEF LogIntact, Covers, LastExists, ShownIsLogged, findByUri
<1>3. ASSUME NEW k, Tracking(k) PROVE Tracking(k)'
  BY <1>1, <1>3 DEF Tracking, Covers, AllDue, Due, Kept, findByUri
<1> QED BY <1>2, <1>3
-----------------------------------------------------------------------------
(* The steps of the handlers.                                              *)

(* An object request.                                                      *)
LEMMA ObjectsKeepClients ==
    ASSUME ClientsInv, [Next]_vars, UNCHANGED <<client, outdated>>,
           torn' = (present' /\ (torn \/ ~Covers(counter)'))
    PROVE  ClientsInv'
<1>1. LifeInv' /\ (present => SeenIsLogged)
  BY NextKeepsLifeInv DEF ClientsInv
<1>2. StoreTypeOK /\ RequestsOK
  BY DEF ClientsInv, LifeInv, TablesInv
<1>3. /\ UNCHANGED present
      /\ \/ UNCHANGED <<counter, log>>
         \/ \E n \in Names, kind \in Kinds : NewRecord(n, kind)
  BY <1>2, RecordStep
<1>4. ASSUME present', ~torn'
      PROVE  LogIntact' /\ \A c \in Clients \ outdated' : Tracking(client[c])'
  <2>1. /\ SeenIsLogged /\ LogIntact /\ Covers(counter)'
        /\ \A c \in Clients \ outdated : client[c] \in Client /\ Tracking(client[c])
    BY <1>1, <1>3, <1>4 DEF ClientsInv
  <2>2. CASE UNCHANGED <<counter, log>>
    <3>1. LogIntact' /\ \A k : Tracking(k) => Tracking(k)'
      BY <2>1, <2>2, SilenceKeepsTracking
    <3> QED BY <2>1, <3>1 DEF Tracking
  <2>3. CASE \E n \in Names, kind \in Kinds : NewRecord(n, kind)
    <3>1. PICK n \in Names, kind \in Kinds : NewRecord(n, kind)
      BY <2>3
    <3>2. LogIntact'
      BY <1>2, <2>1, <3>1, LogStaysIntact
    <3>3. ASSUME NEW k \in Client, Tracking(k) PROVE Tracking(k)'
      BY <1>2, <2>1, <3>1, <3>3, RecordKeepsTracking
    <3> QED BY <2>1, <3>2, <3>3
  <2> QED BY <1>3, <2>2, <2>3
<1>5. ~present' => \A c \in Clients \ outdated' : ~Attached(c)'
  BY <1>3 DEF ClientsInv, Attached
<1> QED BY <1>1, <1>4, <1>5 DEF ClientsInv

(* save: in a collection that stays, as much of the log is covered as      *)
(* ~torn says; a new collection has no log, and no client that knows it.   *)
LEMMA SaveKeepsClients ==
    ASSUME ClientsInv, LifeInv', NEW base, save(base), UNCHANGED <<client, outdated>>,
           torn' = (present' /\ (torn \/ ~Covers(counter)'))
    PROVE  ClientsInv'
<1>1. present' /\ UNCHANGED <<log, rows>>
  BY DEF save
<1>2. SeenIsLogged
  BY <1>1 DEF SeenIsLogged, findByUri, BodyIn
<1>3. ASSUME ~torn'
      PROVE  LogIntact' /\ \A c \in Clients \ outdated' : Tracking(client[c])'
  <2>1. Covers(counter)' /\ ~torn
    BY <1>1, <1>3
  <2>2. CASE present
    <3>1. LogIntact /\ \A c \in Clients \ outdated : Tracking(client[c])
      BY <2>1, <2>2 DEF ClientsInv
    <3>2. LogIntact' /\ \A k : Tracking(k) => Tracking(k)'
      BY <1>1, <1>2, <2>1, <3>1, SilenceKeepsTracking
    <3> QED BY <3>1, <3>2 DEF Tracking
  <2>3. CASE ~present
    <3>1. log' = {} /\ \A n \in Names : findByUri(n)' = NoBody
      BY <1>1, <2>3 DEF ClientsInv, LifeInv, TablesInv, NoOrphans, findByUri, BodyIn, NoRow
    <3>2. LogIntact'
      BY <2>1, <3>1 DEF LogIntact, LastExists, ShownIsLogged
    <3>3. \A c \in Clients \ outdated : ~client[c].has /\ client[c].at = "idle"
      BY <2>3 DEF ClientsInv, Attached
    <3> QED BY <3>2, <3>3 DEF Tracking
  <2> QED BY <2>2, <2>3
<1> QED BY <1>1, <1>3 DEF ClientsInv

LEMMA HandlersKeepClients ==
    ASSUME ClientsInv, LifecycleNext, UNCHANGED client,
           outdated' = IF present' THEN outdated
                       ELSE {c \in Clients : Attached(c)},
           torn' = (present' /\ (torn \/ ~Covers(counter)'))
    PROVE  ClientsInv'
<1>1. LifeInv'
  BY StepLifeInv DEF ClientsInv
<1>2. CASE ~present'
  BY <1>1, <1>2 DEF ClientsInv, Attached
<1>3. CASE present' /\ (Next \/ UNCHANGED vars)
  BY <1>3, ObjectsKeepClients
<1>4. ASSUME present', NEW w \in Workers, Lifecycle(w)
      PROVE  ClientsInv'
  <2>1. CASE \E base : save(base)
    BY <1>1, <1>4, <2>1, SaveKeepsClients
  <2>2. CASE UNCHANGED storeVars
    <3>1. SeenIsLogged /\ UNCHANGED <<present, counter, log>>
      BY <2>2 DEF storeVars, SeenIsLogged, findByUri, BodyIn
    <3>2. ASSUME ~torn'
          PROVE  LogIntact' /\ \A c \in Clients \ outdated' : Tracking(client[c])'
      <4>1. LogIntact /\ \A c \in Clients \ outdated : Tracking(client[c])
        BY <1>4, <3>1, <3>2 DEF ClientsInv
      <4>2. Covers(counter)'
        BY <3>1, <4>1 DEF LogIntact, Covers
      <4>3. LogIntact' /\ \A k : Tracking(k) => Tracking(k)'
        BY <3>1, <4>1, <4>2, SilenceKeepsTracking
      <4> QED BY <1>4, <4>1, <4>3 DEF Tracking
    <3> QED BY <1>1, <1>4, <3>2 DEF ClientsInv
  <2>3. ~DropWrite(w)
    BY <1>4 DEF DropWrite, deleteCollection
  <2> QED BY <1>4, <2>1, <2>2, <2>3
          DEF Lifecycle, CreateArrive, CreateSave, PropPatchArrive, PropPatchSave,
              DropArrive, DropFindAll, Arrive
<1> QED BY <1>2, <1>3, <1>4 DEF LifecycleNext

-----------------------------------------------------------------------------
(* The steps of a client: from tracking to tracking.                       *)

LEMMA ClientsTrack ==
    ASSUME StoreTypeOK, LogIntact, LogFolds, UNCHANGED vars, NEW c \in Clients,
           client \in [Clients -> Client], Sync(c), Tracking(client[c])
    PROVE  Tracking(client'[c])
<1> DEFINE k == client[c]
<1>1. k \in Client /\ Tracking(k)
  OBVIOUS
<1>2. CASE SyncFindRow(c)
  <2> DEFINE q == [k EXCEPT !.at = "log", !.base = counter]
  <2>1. client'[c] = q
    BY <1>2 DEF SyncFindRow
  <2>2. q.has = k.has /\ q.token = k.token /\ q.view = k.view /\ q.at = "log" /\ q.base = counter
    BY <1>1 DEF Client
  <2> QED BY <1>1, <2>1, <2>2 DEF Tracking, LogIntact
<1>3. CASE SyncReadLog(c)
  <2> DEFINE q == [k EXCEPT !.at = "fetch",
                            !.changed = IF k.has THEN changedSince(k.token) ELSE {},
                            !.removed = IF k.has THEN removedSince(k.token) ELSE {}]
  <2>1. k.at = "log" /\ client'[c] = IF k.has /\ k.token > k.base
                                     THEN Resting(FALSE, 0, Empty) ELSE q
    BY <1>3 DEF SyncReadLog
  <2>2. Tracking(Resting(FALSE, 0, Empty))
    BY DEF Resting, NewClient, Tracking
  <2>3. /\ q.has = k.has /\ q.token = k.token /\ q.view = k.view /\ q.base = k.base
        /\ q.at = "fetch"
        /\ k.has => q.changed = changedSince(k.token) /\ q.removed = removedSince(k.token)
    BY <1>1 DEF Client
  <2>4. ASSUME k.has, NEW n \in Names \ q.changed PROVE Due(Kept(q), n, k.base)
    <3> HIDE DEF k, q
    <3>1. AllDue(k.view, k.token)
      BY <1>1, <2>4 DEF Tracking
    <3>2. Kept(q)[n] = findByUri(n)
      BY <1>1, <2>3, <2>4, <3>1, DiffIsRight
    <3> QED BY <3>2 DEF Due
  <2>5. Tracking(q)
    <3> HIDE DEF k, q
    <3> QED BY <1>1, <2>1, <2>3, <2>4 DEF Tracking
  <2> QED BY <2>1, <2>2, <2>5
<1>4. CASE SyncFetch(c)
  <2> DEFINE q == [k EXCEPT !.at = "answer", !.answer = Reported(k),
                            !.changed = {}, !.removed = {}]
  <2>1. k.at = "fetch" /\ client'[c] = q
    BY <1>4 DEF SyncFetch
  <2>2. AllDue(Reported(k), k.base)
    BY <1>1, <2>1, ReportedOK DEF Tracking
  <2>3. /\ q.has = k.has /\ q.token = k.token /\ q.view = k.view /\ q.base = k.base
        /\ q.at = "answer" /\ q.answer = Reported(k)
    BY <1>1 DEF Client
  <2> QED BY <1>1, <2>1, <2>2, <2>3 DEF Tracking
<1>5. CASE SyncDeliver(c)
  <2>1. k.at = "answer" /\ client'[c] = Resting(TRUE, k.base, k.answer)
    BY <1>5 DEF SyncDeliver
  <2> QED BY <1>1, <2>1 DEF Tracking, Resting, NewClient
<1>6. CASE SyncLose(c)
  <2>1. client'[c] = Resting(k.has, k.token, k.view)
    BY <1>6 DEF SyncLose
  <2> QED BY <1>1, <2>1 DEF Tracking, Resting, NewClient
<1> QED BY <1>2, <1>3, <1>4, <1>5, <1>6 DEF Sync

(* A client that rests with a proper token and view is one.                *)
LEMMA RestingType ==
    ASSUME NEW has \in BOOLEAN, NEW t \in Nat, NEW v \in Views
    PROVE  Resting(has, t, v) \in Client
<1>1. Empty \in Views
  BY DEF Empty, Views
<1> QED BY <1>1 DEF Resting, NewClient, Client

LEMMA OthersRest ==
    ASSUME StoreTypeOK, NEW c \in Clients, client \in [Clients -> Client], Sync(c)
    PROVE  /\ client' \in [Clients -> Client]
           /\ \A d \in Clients \ {c} : client'[d] = client[d]
           /\ present \/ Attached(c)
<1> DEFINE k == client[c]
<1>1. k \in Client /\ k.has \in BOOLEAN /\ k.token \in Nat /\ k.view \in Views
      /\ k.base \in Nat /\ k.answer \in Views
  BY DEF Client
<1>2. counter \in Nat /\ log \subseteq Change /\ Empty \in Views
  BY DEF StoreTypeOK, Empty, Views
<1>3. CASE SyncFindRow(c)
  <2>1. [k EXCEPT !.at = "log", !.base = counter] \in Client
    BY <1>1, <1>2 DEF Client
  <2> QED BY <1>3, <2>1 DEF SyncFindRow
<1>4. CASE SyncReadLog(c)
  <2>1. Resting(FALSE, 0, Empty) \in Client
    BY <1>2, RestingType
  <2>2. changedSince(k.token) \subseteq Names /\ removedSince(k.token) \subseteq Names
    BY <1>2 DEF changedSince, removedSince, LastSince, Change
  <2>3. [k EXCEPT !.at = "fetch",
                  !.changed = IF k.has THEN changedSince(k.token) ELSE {},
                  !.removed = IF k.has THEN removedSince(k.token) ELSE {}] \in Client
    BY <1>1, <2>2 DEF Client
  <2> QED BY <1>4, <2>1, <2>3 DEF SyncReadLog, Attached
<1>5. CASE SyncFetch(c)
  <2>1. \A n \in Names : findByUri(n) \in Bodies \cup {NoBody}
    BY FindType
  <2>2. Reported(k) \in Views
    BY <1>1, <2>1 DEF Reported, Views, Client
  <2>3. [k EXCEPT !.at = "answer", !.answer = Reported(k),
                  !.changed = {}, !.removed = {}] \in Client
    BY <1>1, <2>2 DEF Client
  <2> QED BY <1>5, <2>3 DEF SyncFetch, Attached
<1>6. CASE SyncDeliver(c)
  <2>1. Resting(TRUE, k.base, k.answer) \in Client
    BY <1>1, RestingType
  <2> QED BY <1>6, <2>1 DEF SyncDeliver, Attached
<1>7. CASE SyncLose(c)
  <2>1. Resting(k.has, k.token, k.view) \in Client
    BY <1>1, RestingType
  <2> QED BY <1>7, <2>1 DEF SyncLose, Attached
<1> QED BY <1>3, <1>4, <1>5, <1>6, <1>7 DEF Sync

LEMMA SyncKeepsClients ==
    ASSUME ClientsInv, UNCHANGED vars, NEW c \in Clients, Sync(c),
           outdated' = {d \in outdated : Attached(d)'}, UNCHANGED torn
    PROVE  ClientsInv'
<1>1. StoreTypeOK /\ TokensUnique /\ LifeInv /\ client \in [Clients -> Client]
  BY DEF ClientsInv, LifeInv, TablesInv
<1>2. LifeInv' /\ UNCHANGED <<present, counter, log, rows>>
  BY <1>1, StepLifeInv DEF vars
<1>3. /\ client' \in [Clients -> Client]
      /\ \A d \in Clients \ {c} : client'[d] = client[d]
      /\ present \/ Attached(c)
  BY <1>1, OthersRest
<1>4. ASSUME ~present', NEW d \in Clients \ outdated' PROVE ~Attached(d)'
  <2>1. ~present /\ \A e \in Clients \ outdated : ~Attached(e)
    BY <1>2, <1>4 DEF ClientsInv
  <2> QED BY <1>3, <1>4, <2>1 DEF Attached
<1>5. ASSUME present', ~torn'
      PROVE  LogIntact' /\ \A d \in Clients \ outdated' : Tracking(client[d])'
  <2>1. LogIntact /\ \A d \in Clients \ outdated : Tracking(client[d])
    BY <1>2, <1>5 DEF ClientsInv
  <2>2. SeenIsLogged /\ Covers(counter)'
    BY <1>2, <2>1 DEF SeenIsLogged, findByUri, BodyIn, LogIntact, Covers
  <2>3. LogIntact' /\ \A k : Tracking(k) => Tracking(k)'
    BY <1>2, <2>1, <2>2, SilenceKeepsTracking
  <2>4. LogFolds
    BY <1>1, <2>1 DEF LogFolds, LogIntact, StoreTypeOK, TokensUnique
  <2>5. ASSUME NEW d \in Clients \ outdated' PROVE Tracking(client'[d])
    <3>1. CASE ~Attached(d)'
      BY <3>1 DEF Attached, Tracking
    <3>2. CASE d \notin outdated
      <4>1. CASE d = c
        BY <1>1, <2>1, <2>4, <3>2, <4>1, ClientsTrack
      <4>2. CASE d # c
        BY <1>3, <2>1, <3>2, <4>2
      <4> QED BY <4>1, <4>2
    <3> QED BY <2>5, <3>1, <3>2
  <2>6. ASSUME NEW d \in Clients \ outdated' PROVE Tracking(client[d])'
    <3>1. \A k : Tracking(k) => Tracking(k)'
      BY <2>3
    <3>2. Tracking(client'[d])
      BY <2>5, <2>6
    <3>3. \A n \in Names : findByUri(n)' = findByUri(n)
      BY <1>2 DEF findByUri, BodyIn
    <3> QED BY <1>2, <3>2, <3>3 DEF Tracking, Covers, AllDue, Due, Kept
  <2> QED BY <2>3, <2>6
<1> QED BY <1>2, <1>3, <1>4, <1>5 DEF ClientsInv

-----------------------------------------------------------------------------
LEMMA InitClientsInv == CollectionSyncInit => ClientsInv
<1> SUFFICES ASSUME CollectionSyncInit PROVE ClientsInv
  OBVIOUS
<1>1. LifeInv /\ present
  BY InitLifeInv DEF CollectionSyncInit, SyncInit, Init, StoreInit
<1>2. NewClient \in Client
  <2>1. Empty \in Views
    BY DEF Empty, Views
  <2> QED BY <2>1 DEF NewClient, Client
<1>3. client = [c \in Clients |-> NewClient]
  BY DEF CollectionSyncInit, SyncInit
<1>4. LogIntact
  BY DEF CollectionSyncInit, SyncInit, Init, StoreInit, LogIntact, Covers, LastExists,
     ShownIsLogged, findByUri, BodyIn, NoRow
<1>5. \A c \in Clients : Tracking(client[c])
  BY <1>3 DEF NewClient, Tracking
<1> QED BY <1>1, <1>2, <1>3, <1>4, <1>5 DEF ClientsInv

LEMMA StepClientsInv ==
    ASSUME ClientsInv, [CollectionSyncNext]_collectionSyncVars
    PROVE  ClientsInv'
<1>1. CASE UNCHANGED collectionSyncVars
  <2>1. /\ UNCHANGED <<present, counter, log, rows, minted, req>>
        /\ UNCHANGED <<client, outdated, torn>>
    BY <1>1 DEF collectionSyncVars, syncVars
  <2>2. LifeInv'
    BY <2>1, StepLifeInv DEF ClientsInv, vars, storeVars
  <2> QED BY <2>1, <2>2 DEF ClientsInv, Attached, Tracking, LogIntact, Covers, LastExists,
          ShownIsLogged, AllDue, Due, Kept, findByUri, BodyIn
<1> QED BY <1>1, HandlersKeepClients, SyncKeepsClients DEF CollectionSyncNext

(* Within one life of the collection a client whose token is accepted is   *)
(* due every change it has not seen, whatever became of the counter.       *)
THEOREM NoAcceptedTokenMisses == CollectionSyncSpec => []AcceptedTokensMissNothing
<1>1. ClientsInv /\ [CollectionSyncNext]_collectionSyncVars => ClientsInv'
  BY StepClientsInv
<1>2. ClientsInv => AcceptedTokensMissNothing
  BY DEF ClientsInv, Tracking, AllDue, Due, AcceptedTokensMissNothing
<1> QED BY <1>1, <1>2, InitClientsInv, PTL DEF CollectionSyncSpec
=============================================================================
