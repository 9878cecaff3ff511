---------------------------- MODULE ObjectRequests ----------------------------
(***************************************************************************)
(* The request handlers that read and write calendar object resources: the *)
(* use cases PutCalendarObject, DeleteCalendarObject and RestoreDeleted,   *)
(* and the nightly purge.  Each request runs in its own Worker invocation; *)
(* every await is a database round trip, so each read is a step of its own *)
(* and any other request may run between a handler's reads and its batch.  *)
(***************************************************************************)
EXTENDS CalendarStore, FiniteSets

CONSTANTS
    Workers,    \* concurrent Worker invocations
    Ops,        \* the kinds of request that arrive
    Conds,      \* the ETag conditions that requests carry
    IfLists,    \* the sync-token conditions that If headers carry
    NoName,     \* "no name"
    MaxToken    \* bound: no request arrives once counter has reached it

ASSUME NoNameAssumption == NoName \notin Names
ASSUME MaxTokenAssumption == MaxToken \in Nat

VARIABLE req    \* per worker: the request it is serving

vars == <<present, counter, log, rows, minted, req>>

(* ETagCondition: from If-None-Match: * / If-Match: * / If-Match: "..."    *)
Condition == [kind: {"unconditional", "must-not-exist", "must-exist", "must-match"},
              etags: SUBSET Bodies]
Unconditional == [kind |-> "unconditional", etags |-> {}]

ASSUME CondsAssumption == Conds \subseteq Condition

Stages == {"idle",
           "put.findByUri", "put.findUid", "put.save",
           "delete.findByUri", "delete.write",
           "restore.findDeleted", "restore.findUid", "restore.findLive", "restore.write",
           "proppatch.save", "create.save", "drop.findAll", "drop.write"}

(* out is the answer of the worker's last request: a success, a            *)
(* ConcurrencyConflictError from the batch, a 500, or a refusal before any *)
(* write; "none" while it is being served or when the request was lost.    *)
Request == [at: Stages, name: Names \cup {NoName}, body: Bodies \cup {NoBody},
            cond: Condition, found: Bodies \cup {NoBody},
            to: Names \cup {NoName}, base: Nat,
            out: {"none", "ok", "conflict", "error", "refused"}]

(* A request as it arrives, and a worker that serves none.                 *)
Begin(stage, n, b, c) ==
    [at |-> stage, name |-> n, body |-> b, cond |-> c, found |-> NoBody,
     to |-> NoName, base |-> 0, out |-> "none"]

Idle(out) == [at |-> "idle", name |-> NoName, body |-> NoBody,
              cond |-> Unconditional, found |-> NoBody, to |-> NoName,
              base |-> 0, out |-> out]

Goto(w, stage) == req' = [req EXCEPT ![w].at = stage]
Answer(w, out) == req' = [req EXCEPT ![w] = Idle(out)]

TypeOK == StoreTypeOK /\ req \in [Workers -> Request]

Init == StoreInit /\ req = [w \in Workers |-> Idle("none")]

(* Names a client can know: its own, and those the server has minted.      *)
Known == Uris \cup minted

-----------------------------------------------------------------------------
(* Checks shared by the handlers.                                          *)

(* If: (<token>) -- an OR of ANDs; no list at all is no condition.         *)
evaluateSyncTokenIfPrecondition(lists) ==
    lists # {} => \E conds \in lists :
                     \A c \in conds : (c.token = counter) # c.negate

CondHolds(cond, found) ==
    CASE cond.kind = "unconditional"  -> TRUE
      [] cond.kind = "must-not-exist" -> found = NoBody
      [] cond.kind = "must-exist"     -> found # NoBody
      [] cond.kind = "must-match"     -> found # NoBody /\ found \in cond.etags

(* Mutant: no compare-and-set on the ETag.                                 *)
PutPreconditionNoCas(cond, found) ==
    IF found = NoBody THEN [kind |-> "create", etag |-> NoBody] ELSE Overwrite

(* How PUT turns the header and what it read into a write precondition.    *)
PutPrecondition(cond, found) ==
    IF cond.kind = "must-match" THEN [kind |-> "match", etag |-> found]
    ELSE IF found = NoBody      THEN [kind |-> "create", etag |-> NoBody]
    ELSE Overwrite

DeletePrecondition(cond, found) ==
    IF cond.kind = "must-match" THEN [kind |-> "match", etag |-> found]
    ELSE Overwrite

(* no-uid-conflict (R4): nobody else owns this UID, as far as the handler  *)
(* knows its owners, and a resource's UID is never changed.                *)
checkNoUidConflict(n, b, found, owners) ==
    /\ \A m \in owners : m = n
    /\ found # NoBody => UidOf[found] = UidOf[b]

(* A request arrives at a free worker: it finds the collection and its     *)
(* If header is evaluated against the token just read.                     *)
Arrive(w, r, lists) ==
    /\ req[w].at = "idle"
    /\ counter < MaxToken
    /\ IF present /\ evaluateSyncTokenIfPrecondition(lists)
       THEN req' = [req EXCEPT ![w] = r]
       ELSE Answer(w, "refused")
    /\ UNCHANGED storeVars

-----------------------------------------------------------------------------
(* PUT: PutCalendarObject.execute                                          *)

PutArrive(w) ==
    /\ "put" \in Ops
    /\ \E n \in Known, b \in Bodies, c \in Conds, lists \in IfLists :
          Arrive(w, Begin("put.findByUri", n, b, c), lists)

PutFindByUri(w) ==
    /\ req[w].at = "put.findByUri"
    /\ LET found == findByUri(req[w].name) IN
       IF CondHolds(req[w].cond, found)
       THEN req' = [req EXCEPT ![w].at = "put.findUid", ![w].found = found]
       ELSE Answer(w, "refused")
    /\ UNCHANGED storeVars

(* The query for the UID's owner.  If it fails the error is swallowed and  *)
(* the check goes on as if the UID had no owner.                           *)
PutFindUid(w) ==
    /\ req[w].at = "put.findUid"
    /\ \E owners \in {findUriByUid(UidOf[req[w].body]), {}} :
          IF checkNoUidConflict(req[w].name, req[w].body, req[w].found, owners)
          THEN Goto(w, "put.save") ELSE Answer(w, "refused")
    /\ UNCHANGED storeVars

PutSave(w) ==
    LET r == req[w]
        kind == IF r.found = NoBody THEN "created" ELSE "modified"
    IN  /\ r.at = "put.save"
        /\ \E out \in {"ok", "conflict", "error"} :
              /\ saveResource(r.name, r.body, kind,
                              PutPrecondition(r.cond, r.found), out)
              /\ Answer(w, out)
        /\ UNCHANGED present

-----------------------------------------------------------------------------
(* DELETE: DeleteCalendarObject.execute.  It has no If-None-Match.         *)

DeleteArrive(w) ==
    /\ "delete" \in Ops
    /\ \E n \in Known, c \in Conds, lists \in IfLists :
          /\ c.kind # "must-not-exist"
          /\ Arrive(w, Begin("delete.findByUri", n, NoBody, c), lists)

DeleteFindByUri(w) ==
    /\ req[w].at = "delete.findByUri"
    /\ LET found == findByUri(req[w].name) IN
       IF found # NoBody /\ CondHolds(req[w].cond, found)
       THEN req' = [req EXCEPT ![w].at = "delete.write", ![w].found = found]
       ELSE Answer(w, "refused")
    /\ UNCHANGED storeVars

DeleteWrite(w) ==
    LET r == req[w] IN
    /\ r.at = "delete.write"
    /\ \E out \in {"ok", "conflict", "error"} :
          /\ deleteResource(r.name, DeletePrecondition(r.cond, r.found), out)
          /\ Answer(w, out)
    /\ UNCHANGED <<present, minted>>

-----------------------------------------------------------------------------
(* restore-deleted: RestoreDeleted.execute                                 *)

RestoreArrive(w) ==
    /\ "restore" \in Ops
    /\ \E n \in Known :
          Arrive(w, Begin("restore.findDeleted", n, NoBody, Unconditional), {})

RestoreFindDeleted(w) ==
    /\ req[w].at = "restore.findDeleted"
    /\ LET found == findDeletedByUri(req[w].name) IN
       IF found # NoBody
       THEN req' = [req EXCEPT ![w].at = "restore.findUid", ![w].found = found]
       ELSE Answer(w, "refused")
    /\ UNCHANGED storeVars

RestoreFindUid(w) ==
    /\ req[w].at = "restore.findUid"
    /\ IF findUriByUid(UidOf[req[w].found]) = {}
       THEN Goto(w, "restore.findLive") ELSE Answer(w, "refused")
    /\ UNCHANGED storeVars

(* newUri: the ghost's own name, or a fresh one if a live resource has it. *)
RestoreFindLive(w) ==
    /\ req[w].at = "restore.findLive"
    /\ \E new \in Mint(Live(req[w].name)) :
          /\ minted' = minted \cup new
          /\ \E to \in IF new = {} THEN {req[w].name} ELSE new :
                req' = [req EXCEPT ![w].at = "restore.write", ![w].to = to]
    /\ UNCHANGED <<present, counter, log, rows>>

RestoreWrite(w) ==
    LET r == req[w] IN
    /\ r.at = "restore.write"
    /\ \E out \in {"ok", "conflict", "error"} :
          /\ restoreResource(r.name, r.to, out)
          /\ Answer(w, out)
    /\ UNCHANGED <<present, minted>>

-----------------------------------------------------------------------------
(* The cron trigger, and a Worker invocation that dies or whose client     *)
(* goes away before the batch was sent.                                    *)

Purge ==
    /\ "purge" \in Ops
    /\ \E old \in SUBSET {n \in Names : Ghost(n)} : purgeDeletedBefore(old)
    /\ UNCHANGED req

Crash(w) ==
    /\ req[w].at # "idle"
    /\ Answer(w, "none")
    /\ UNCHANGED storeVars

Put(w) == PutArrive(w) \/ PutFindByUri(w) \/ PutFindUid(w) \/ PutSave(w)
Delete(w) == DeleteArrive(w) \/ DeleteFindByUri(w) \/ DeleteWrite(w)
Restore(w) == \/ RestoreArrive(w) \/ RestoreFindDeleted(w) \/ RestoreFindUid(w)
              \/ RestoreFindLive(w) \/ RestoreWrite(w)

Next ==
    \/ \E w \in Workers : Put(w) \/ Delete(w) \/ Restore(w) \/ Crash(w)
    \/ Purge

Spec == Init /\ [][Next]_vars

-----------------------------------------------------------------------------
(* Properties.                                                             *)

(* The change log holds exactly one record for each token 1..sync_counter, *)
(* so that a token names one point of the collection's history and "every  *)
(* change after token t" is well defined (sync_changes, RFC 6578).         *)
LogContiguous ==
    /\ \A t \in 1..counter : \E c \in log : c.token = t
    /\ \A c \in log : c.token <= counter
    /\ \A c, d \in log : c.token = d.token => c = d

(* The last record about a live resource is never a deletion: a sync that  *)
(* folds the log last-wins (changesSince) never reports it as removed.     *)
LiveIsLogged ==
    \A n \in Names : Live(n) =>
        \E c \in log : /\ c.uri = n
                       /\ c.kind # "deleted"
                       /\ \A d \in log : d.uri = n => d.token <= c.token

(* No two live resources share a UID, although handlers check for it long  *)
(* before they write, and ghosts keep theirs (R4, calendar_objects_uid_live). *)
UidsUnique ==
    \A m, n \in Names : Live(m) /\ Live(n) /\ m # n
        => UidOf[rows[m].body] # UidOf[rows[n].body]

(* What a handler carries from its reads to its batch: the name and body   *)
(* it was sent, and a found ETag that satisfied its condition.             *)
Carries(r, m) ==
    /\ r.at # "idle" => r.out = "none"
    /\ r.at \in {"put.findByUri", "put.findUid", "put.save"} =>
          r.name \in Uris \cup m /\ r.body \in Bodies
    /\ r.at \in {"put.findUid", "put.save"} => CondHolds(r.cond, r.found)
    /\ r.at \in {"delete.findByUri", "delete.write"} =>
          r.name \in Uris \cup m /\ r.cond.kind # "must-not-exist"
    /\ r.at = "delete.write" => r.found # NoBody /\ CondHolds(r.cond, r.found)
    /\ r.at \in {"restore.findDeleted", "restore.findUid",
                 "restore.findLive", "restore.write"} => r.name \in Uris \cup m
    /\ r.at = "restore.write" => r.to \in Uris \cup m

RequestsCarry == \A w \in Workers : Carries(req[w], minted)

(* A name that was never minted has no row, so the rename of a ghost       *)
(* (deletedGhostUri) never lands on one.                                   *)
FreshUnused == \A g \in Fresh \ minted : rows[g] = NoRow

(* The inductive invariant.                                                *)
IInv ==
    /\ TypeOK
    /\ present
    /\ RequestsCarry
    /\ FreshUnused
    /\ LogContiguous
    /\ LiveIsLogged
    /\ UidsUnique

(* No change of what readers see escapes the change log.                   *)
EveryChangeLogged ==
    [][\A n \in Names : BodyIn(rows', n) # findByUri(n)
           => \E c \in log' \ log : c.uri = n]_vars

(* A request answered with success whose If-Match named ETags replaced or  *)
(* deleted one of those very versions, and one with If-None-Match: *       *)
(* created: no lost update, whatever ran between its reads and its batch.  *)
NoLostUpdate ==
    [][\A w \in Workers :
          LET r == req[w] IN
          /\ r.at \in {"put.save", "delete.write"}
          /\ req'[w].out = "ok"
          => /\ r.cond.kind = "must-match" => findByUri(r.name) \in r.cond.etags
             /\ r.cond.kind = "must-not-exist" => findByUri(r.name) = NoBody]_vars

(* What a success answer says is so at that moment: after a PUT the name   *)
(* holds the body that was sent, after a DELETE nothing is there.          *)
SuccessIsTrue ==
    [][\A w \in Workers :
          LET r == req[w] IN
          req'[w].out = "ok" =>
             /\ r.at = "put.save" => BodyIn(rows', r.name) = r.body
             /\ r.at = "delete.write" => BodyIn(rows', r.name) = NoBody]_vars

(* A deleted resource stays recoverable until the purge takes it: reuse of *)
(* its name only moves the ghost to a name nobody has, whole.              *)
GhostsSurvive ==
    [][Purge \/ \A n \in Names : Ghost(n) =>
          \E m \in Names : /\ rows'[m].is # "none"
                           /\ rows'[m].body = rows[n].body
                           /\ m = n \/ rows[m].is = "none"]_vars

(* repositories.ts 442-447: in match mode a write whose ETag went stale is *)
(* a no-op in all three statements; more generally a request answered 412  *)
(* or refused changes nothing that clients or the trash view can see.      *)
RejectedLeavesNoTrace ==
    [][\A w \in Workers :
          req[w].at # "idle" /\ req'[w].out \in {"conflict", "refused"}
          => UNCHANGED <<counter, log, rows>>]_vars

(* repositories.ts 656-659: nothing else touches a restore's ghost, so a   *)
(* restore that reports success has brought the resource back.             *)
RestoreTellsTheTruth ==
    [][\A w \in Workers :
          req[w].at = "restore.write" /\ req'[w].out = "ok"
          => BodyIn(rows', req[w].to) = req[w].found]_vars

(* R4 (03-domain-model.md:330): an existing resource is never overwritten  *)
(* with another UID.                                                       *)
UidNeverChanges ==
    [][\A n \in Names : Live(n) /\ rows'[n].is = "live"
          => UidOf[rows'[n].body] = UidOf[rows[n].body]]_vars
=============================================================================
