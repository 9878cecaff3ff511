------------------------- MODULE CollectionLifecycle -------------------------
(***************************************************************************)
(* The requests on the collection itself, run beside the object requests:  *)
(* MKCALENDAR and the default provisioning (both: read, then save a new    *)
(* collection), PROPPATCH (read, then save the same collection with other  *)
(* metadata), and the two deletions -- DAV DELETE, unconditional, and the  *)
(* delete-calendar tool, which first looks whether anything is inside.     *)
(*                                                                         *)
(* D1CalendarCollectionRepository.save is an UPSERT of the whole row, the  *)
(* sync_counter included, from the aggregate read earlier.                 *)
(***************************************************************************)
EXTENDS ObjectRequests

(* save: insert the row or overwrite it, with the counter held in memory.  *)
save(inMemory) ==
    /\ present' = TRUE
    /\ counter' = inMemory
    /\ UNCHANGED <<log, rows, minted>>

(* delete: ON DELETE CASCADE takes the objects, ghosts and log along.      *)
deleteCollection ==
    /\ present' = FALSE
    /\ counter' = 0
    /\ log' = {}
    /\ rows' = [n \in Names |-> NoRow]
    /\ UNCHANGED minted

(* A request on the collection, with what it read of it.                   *)
OnCollection(stage, base) ==
    [Begin(stage, NoName, NoBody, Unconditional) EXCEPT !.base = base]

-----------------------------------------------------------------------------
(* CreateCollection.execute, and one round of ProvisionDefaultCollections. *)

CreateArrive(w) ==
    /\ "create" \in Ops
    /\ req[w].at = "idle"
    /\ IF present THEN Answer(w, "refused")
       ELSE req' = [req EXCEPT ![w] = OnCollection("create.save", 0)]
    /\ UNCHANGED storeVars

CreateSave(w) ==
    /\ req[w].at = "create.save"
    /\ save(0)
    /\ Answer(w, "ok")

(* UpdateCollectionProperties.execute; withMetadata keeps the counter that *)
(* findById read.                                                          *)
PropPatchArrive(w) ==
    /\ "proppatch" \in Ops
    /\ Arrive(w, OnCollection("proppatch.save", counter), {})

PropPatchSave(w) ==
    /\ req[w].at = "proppatch.save"
    /\ save(req[w].base)
    /\ Answer(w, "ok")

(* DAV DELETE goes straight to the deletion; so does the tool with force.  *)
DropArrive(w) ==
    /\ "drop" \in Ops
    /\ \E stage \in {"drop.findAll", "drop.write"} :
          Arrive(w, OnCollection(stage, 0), {})

(* Without force a collection with a live resource is refused.  base = 1   *)
(* marks a deletion that found it empty.                                   *)
DropFindAll(w) ==
    /\ req[w].at = "drop.findAll"
    /\ IF findAllInCollection = {}
       THEN req' = [req EXCEPT ![w].at = "drop.write", ![w].base = 1]
       ELSE Answer(w, "refused")
    /\ UNCHANGED storeVars

DropWrite(w) ==
    /\ req[w].at = "drop.write"
    /\ deleteCollection
    /\ Answer(w, "ok")

Lifecycle(w) ==
    \/ CreateArrive(w) \/ CreateSave(w)
    \/ PropPatchArrive(w) \/ PropPatchSave(w)
    \/ DropArrive(w) \/ DropFindAll(w) \/ DropWrite(w)

LifecycleNext == Next \/ \E w \in Workers : Lifecycle(w)

LifecycleSpec == Init /\ [][LifecycleNext]_vars

-----------------------------------------------------------------------------
(* Properties.                                                             *)

(* Without its collection nothing of it is left, whatever batch was on its *)
(* way when the collection went: no write lands in a deleted collection.   *)
NoOrphans ==
    ~present => /\ log = {}
                /\ \A n \in Names : rows[n] = NoRow

(* Change records keep distinct tokens through every rollback of the       *)
(* counter: a wedged collection refuses writes, it never mixes two changes *)
(* under one token.                                                        *)
TokensUnique == \A c, d \in log : c.token = d.token => c = d

(* While the collection exists, before and after the step, nothing readers *)
(* see changes without a new change record, whatever became of the counter. *)
LoggedWhilePresent ==
    [][present /\ present' =>
          \A n \in Names : BodyIn(rows', n) # findByUri(n)
              => \E c \in log' \ log : c.uri = n]_vars

(* repositories.ts 412 and ports/index.ts 392: the sync-token only ever    *)
(* advances while the collection exists; a PROPPATCH does not move it.     *)
CounterNeverRollsBack ==
    [][present /\ present' => counter' >= counter]_vars

(* delete-collection.ts 15-22: without force nothing live is deleted along *)
(* with the collection.                                                    *)
DropWithoutForceIsSafe ==
    [][\A w \in Workers :
          req[w].at = "drop.write" /\ req[w].base = 1 /\ req'[w].out = "ok"
          => findAllInCollection = {}]_vars
=============================================================================
