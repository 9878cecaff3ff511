------------------------------ MODULE ToolWrites ------------------------------
(***************************************************************************)
(* The MCP tools that compose object requests: UpdateTodo with its one     *)
(* retry, CompleteTodo and the completion of a recurring task (two PUTs),  *)
(* MoveTodo (a PUT, then a DELETE in another collection), DeleteTodo.      *)
(* Each looks its task up, decides on what it read, and then runs whole    *)
(* PUT and DELETE requests, so every step of ObjectRequests can come in    *)
(* between.  The requests are those of ObjectRequests, run by the same     *)
(* worker.                                                                 *)
(*                                                                         *)
(* Collections share the tables here: a resource name is a pair            *)
(* <<collection, uri>> and the UID in a body is qualified by its           *)
(* collection, as the keys of the tables are.  They also share the counter *)
(* and the log, at which no tool looks.                                    *)
(***************************************************************************)
EXTENDS ObjectRequests, Sequences

CONSTANTS
    Collections,    \* the owner's task lists
    Task,           \* the UID of the task the calls are about
    Edits,          \* what a call may write into fields no tool decides by
    LastOcc,        \* the number of the series' last occurrence
    MaxOcc,         \* bound: no completion begins at this occurrence
    Mixes           \* sets of kinds of call; a behaviour sees one of them

VARIABLES
    tool,           \* per worker: the tool call it is serving
    acked,          \* edits whose call was answered with success
    served          \* the kinds of call that arrive (never changes)

toolVars == <<tool, acked, served>>
allVars == <<vars, toolVars>>

(* The task's own UID, and those of the snapshots of its occurrences.      *)
TaskUids == {<<Task>>} \cup {<<Task, k>> : k \in 1..(MaxOcc - 1)}

(* A VTODO, by what the tools read or write: the occurrence its DTSTART    *)
(* is at, whether it has an RRULE, its completion and its edited fields.   *)
TaskBody == [coll: Collections, uid: TaskUids, occ: 1..MaxOcc,
             rrule: BOOLEAN, done: BOOLEAN, edits: SUBSET Edits]

UriOf(b) == <<b.coll, b.uid>>               \* `${uid}.ics`

ASSUME MaxOccAssumption == MaxOcc \in Nat \ {0}
ASSUME BodiesAssumption == Bodies = TaskBody
ASSUME UidOfAssumption == \A b \in Bodies : UidOf[b] = <<b.coll, b.uid>>
(* Any task can be stored under `${uid}.ics`.                              *)
ASSUME UrisAssumption == \A b \in Bodies : UriOf(b) \in Uris

ToolKinds == {"update", "complete", "update-complete", "move", "delete"}

Call == [kind: ToolKinds, at: STRING, coll: Collections, to: Collections,
         edit: Edits, retries: 0..1, name: Names \cup {NoName},
         body: Bodies \cup {NoBody}, refusedAt: STRING]

NoCall == [at |-> "idle"]

Step(w, stage) == tool' = [tool EXCEPT ![w].at = stage]
Finish(w) == tool' = [tool EXCEPT ![w] = NoCall]
At(w, stage) == tool[w].at = stage /\ req[w].at = "idle"

-----------------------------------------------------------------------------
(* domain/ical/semantics: what the tools make of a task.                   *)

Patched(b, e) == [b EXCEPT !.edits = @ \cup {e}]
applyCompletion(b) == [b EXCEPT !.done = TRUE]

(* buildCompletionSnapshot under the UID deterministicSnapshotUid derives  *)
(* from the master's UID and DTSTART.                                      *)
deterministicSnapshotUid(b) == Append(b.uid, b.occ)
buildCompletionSnapshot(b) ==
    [applyCompletion(b) EXCEPT !.uid = deterministicSnapshotUid(b), !.rrule = FALSE]

(* advanceMasterToNextOccurrence and the choice of STATUS: the master goes *)
(* to the next raw step of its rule, completed if that is past the bound.  *)
AdvancedMaster(b) ==
    LET next == [b EXCEPT !.occ = @ + 1]
    IN  IF next.occ > LastOcc THEN applyCompletion(next) ELSE [next EXCEPT !.done = FALSE]

(* Octets are moved unchanged; only the collection they are in differs.    *)
InCollection(b, c) == [b EXCEPT !.coll = c]

-----------------------------------------------------------------------------
(* A tool call arrives and looks its task up: UID to name, name to body.   *)

ToolArrive(w) ==
    /\ tool[w].at = "idle" /\ req[w].at = "idle"
    /\ counter < MaxToken
    /\ \E k \in served \cap ToolKinds, c, to \in Collections, e \in Edits :
          /\ k = "move" <=> to # c              \* MoveTodoSameCollectionError
          /\ tool' = [tool EXCEPT ![w] =
                [kind |-> k, at |-> "lookup.findUriByUid", coll |-> c, to |-> to, edit |-> e,
                 retries |-> IF k \in {"update", "update-complete"} THEN 1 ELSE 0,
                 name |-> NoName, body |-> NoBody, refusedAt |-> ""]]
    /\ UNCHANGED <<vars, acked, served>>

LookupFindUri(w) ==
    /\ At(w, "lookup.findUriByUid")
    /\ LET found == findUriByUid(<<tool[w].coll, <<Task>>>>) IN
       IF found = {} THEN Finish(w)             \* TodoNotFoundError
       ELSE \E n \in found :
               tool' = [tool EXCEPT ![w].name = n, ![w].at = "lookup.findByUri"]
    /\ UNCHANGED <<vars, acked, served>>

(* Which write comes first.                                                *)
FirstWrite(k, b) ==
    CASE k = "delete" -> "delete.write"
      [] k = "move"   -> "move.put"
      [] k \in {"complete", "update-complete"} /\ b.rrule -> "complete.snapshot"
      [] OTHER        -> "update.put"

LookupFindByUri(w) ==
    /\ At(w, "lookup.findByUri")
    /\ LET b == findByUri(tool[w].name) IN
       IF b = NoBody THEN Finish(w)
       ELSE tool' = [tool EXCEPT ![w].body = b, ![w].at = FirstWrite(tool[w].kind, b)]
    /\ UNCHANGED <<vars, acked, served>>

-----------------------------------------------------------------------------
(* The requests a tool runs: PutCalendarObject.execute and                 *)
(* DeleteCalendarObject.execute find the collection first.                 *)

MustMatch(b) == [kind |-> "must-match", etags |-> {b}]
MustNotExist == [kind |-> "must-not-exist", etags |-> {}]

Invoke(w, request, stage) ==
    /\ IF present THEN req' = [req EXCEPT ![w] = request] ELSE Answer(w, "refused")
    /\ tool' = [tool EXCEPT ![w].at = stage, ![w].refusedAt = ""]
    /\ UNCHANGED <<storeVars, acked, served>>

InvokePut(w, n, b, cond, stage) == Invoke(w, Begin("put.findByUri", n, b, cond), stage)
InvokeDelete(w, n, stage) ==
    Invoke(w, Begin("delete.findByUri", n, NoBody, Unconditional), stage)

(* A request of ObjectRequests makes its next step; a tool remembers at    *)
(* which stage its request was refused.                                    *)
RequestStep(w) ==
    /\ \/ PutFindByUri(w) \/ PutFindUid(w) \/ PutSave(w)
       \/ DeleteFindByUri(w) \/ DeleteWrite(w)
    /\ tool' = IF tool[w].at # "idle" /\ req'[w].out = "refused"
               THEN [tool EXCEPT ![w].refusedAt = req[w].at] ELSE tool
    /\ UNCHANGED <<acked, served>>

(* isSameResourceConflict, for a must-match write: the ETag was stale when *)
(* PUT read it, or the batch lost the race.                                *)
isSameResourceConflict(w, condKind) ==
    \/ req[w].out = "conflict"
    \/ condKind = "must-match" /\ req[w].out = "refused" /\ tool[w].refusedAt = "put.findByUri"

(* UpdateTodo.execute: on a conflict the whole attempt is made once more,  *)
(* from the lookup on.                                                     *)
RetryOrFail(w, condKind) ==
    IF isSameResourceConflict(w, condKind) /\ tool[w].retries > 0
    THEN tool' = [tool EXCEPT ![w].at = "lookup.findUriByUid", ![w].retries = 0]
    ELSE Finish(w)

-----------------------------------------------------------------------------
(* UpdateTodo, and CompleteTodo for a task without RRULE: one PUT.         *)

(* attemptUpdate: the fields a call sends are patched into what it read,   *)
(* also when it completes the task with them; CompleteTodo sends none.     *)
PatchKinds == {"update", "update-complete"}
Asked(t) == IF t.kind \in PatchKinds THEN Patched(t.body, t.edit) ELSE t.body

UpdatedBody(t) == IF t.kind = "update" THEN Asked(t) ELSE applyCompletion(Asked(t))

(* Mutant: an attempt that overwrites without the ETag it read.            *)
UpdatePutUnconditional(w) ==
    /\ At(w, "update.put")
    /\ InvokePut(w, tool[w].name, UpdatedBody(tool[w]), Unconditional, "update.done")

UpdatePut(w) ==
    /\ At(w, "update.put")
    /\ InvokePut(w, tool[w].name, UpdatedBody(tool[w]), MustMatch(tool[w].body), "update.done")

(* A call that ends with success has acknowledged the fields it was sent.  *)
Acknowledge(w) ==
    acked' = IF req[w].out = "ok" /\ tool[w].kind \in PatchKinds
             THEN acked \cup {tool[w].edit} ELSE acked

UpdateDone(w) ==
    /\ At(w, "update.done")
    /\ IF req[w].out = "ok" THEN Finish(w) ELSE RetryOrFail(w, "must-match")
    /\ Acknowledge(w)
    /\ UNCHANGED <<vars, served>>

-----------------------------------------------------------------------------
(* completeRecurringTodo: the completed snapshot first, then the master,   *)
(* both made of the patched task.                                          *)

(* Mutant: the master is advanced first, the snapshot made afterwards.     *)
CompleteSnapshotLast(w) ==
    LET s == buildCompletionSnapshot(Asked(tool[w])) IN
    \/ /\ At(w, "complete.snapshot")
       /\ InvokePut(w, tool[w].name, AdvancedMaster(Asked(tool[w])),
                    MustMatch(tool[w].body), "complete.master.done")
    \/ /\ At(w, "complete.master.done")
       /\ InvokePut(w, UriOf(s), s, MustNotExist, "complete.done")

CompleteSnapshot(w) ==
    LET s == buildCompletionSnapshot(Asked(tool[w])) IN
    /\ At(w, "complete.snapshot")
    /\ tool[w].body.occ < MaxOcc
    /\ InvokePut(w, UriOf(s), s, MustNotExist, "complete.snapshot.done")

CompleteMaster(w) ==
    /\ At(w, "complete.snapshot.done")
    /\ IF req[w].out = "ok"
       THEN InvokePut(w, tool[w].name, AdvancedMaster(Asked(tool[w])),
                      MustMatch(tool[w].body), "complete.done")
       ELSE RetryOrFail(w, "must-not-exist") /\ UNCHANGED <<vars, acked, served>>

CompleteDone(w) ==
    /\ At(w, "complete.done")
    /\ IF req[w].out = "ok" THEN Finish(w) ELSE RetryOrFail(w, "must-match")
    /\ Acknowledge(w)
    /\ UNCHANGED <<vars, served>>

-----------------------------------------------------------------------------
(* MoveTodo: PUT into the target, then DELETE in the source.  DeleteTodo.  *)

MovePut(w) ==
    LET b == InCollection(tool[w].body, tool[w].to) IN
    /\ At(w, "move.put")
    /\ InvokePut(w, UriOf(b), b, MustNotExist, "move.delete")

(* Mutant: the source is deleted whatever became of the PUT.               *)
MoveDeleteAnyway(w) ==
    /\ At(w, "move.delete")
    /\ InvokeDelete(w, tool[w].name, "delete.done")

MoveDelete(w) ==
    /\ At(w, "move.delete")
    /\ IF req[w].out = "ok"
       THEN InvokeDelete(w, tool[w].name, "delete.done")
       ELSE Finish(w) /\ UNCHANGED <<vars, acked, served>>

DeleteTodo(w) ==
    /\ At(w, "delete.write")
    /\ InvokeDelete(w, tool[w].name, "delete.done")

DeleteDone(w) ==
    /\ At(w, "delete.done")
    /\ Finish(w)
    /\ UNCHANGED <<vars, acked, served>>

-----------------------------------------------------------------------------
(* A CalDAV client edits the task: it PUTs what it read with one more edit *)
(* and If-Match.  Clients are outside the repository.                      *)
DavEdit(w) ==
    /\ "dav-edit" \in served
    /\ tool[w].at = "idle" /\ req[w].at = "idle"
    /\ counter < MaxToken
    /\ \E n \in Names, e \in Edits :
          /\ Live(n) /\ rows[n].body.uid = <<Task>>
          /\ req' = [req EXCEPT ![w] =
                Begin("put.findByUri", n, Patched(rows[n].body, e), MustMatch(rows[n].body))]
    /\ UNCHANGED <<storeVars, toolVars>>

(* The invocation dies, and with it the tool and the request it runs.      *)
ToolCrash(w) ==
    /\ tool[w].at # "idle" \/ req[w].at # "idle"
    /\ Answer(w, "none")
    /\ Finish(w)
    /\ UNCHANGED <<storeVars, acked, served>>

(* One recurring task in one collection, under `${uid}.ics` or the name    *)
(* another client gave it.                                                 *)
ToolInit ==
    /\ present = TRUE /\ counter = 1 /\ minted = {}
    /\ req = [w \in Workers |-> Idle("none")]
    /\ \E c \in Collections, n \in Uris, recurs \in BOOLEAN :
          LET b == [coll |-> c, uid |-> <<Task>>, occ |-> 1, rrule |-> recurs,
                    done |-> FALSE, edits |-> {}]
          IN  /\ n[1] = c /\ Len(n[2]) = 1
              /\ rows = [m \in Names |-> IF m = n THEN LiveRow(b) ELSE NoRow]
              /\ log = {[token |-> 1, uri |-> n, kind |-> "created"]}
    /\ tool = [w \in Workers |-> NoCall]
    /\ acked = {}
    /\ served \in Mixes

ToolStep(w) ==
    \/ ToolArrive(w) \/ LookupFindUri(w) \/ LookupFindByUri(w)
    \/ RequestStep(w)
    \/ UpdatePut(w) \/ UpdateDone(w)
    \/ CompleteSnapshot(w) \/ CompleteMaster(w) \/ CompleteDone(w)
    \/ MovePut(w) \/ MoveDelete(w) \/ DeleteTodo(w) \/ DeleteDone(w)
    \/ DavEdit(w) \/ ToolCrash(w)

ToolNext == \E w \in Workers : ToolStep(w)

ToolSpec == ToolInit /\ [][ToolNext]_allVars

-----------------------------------------------------------------------------
(* Properties.                                                             *)

Masters == {n \in Names : Live(n) /\ rows[n].body.uid = <<Task>>}

(* A task is never lost by moving it, however many moves, edits and deaths *)
(* of invocations interleave: unless somebody deletes it, it is in at      *)
(* least one of the collections (move-todo.ts: "PUT, then DELETE").        *)
MovedTaskExists == "delete" \notin served => Masters # {}

(* An edit that was acknowledged is in the task as long as nobody moves or *)
(* deletes it: updates, completions, retries and other clients' PUTs never *)
(* write it back out (update-todo.ts: the retry is no lost update).        *)
EditsSurvive ==
    served \cap {"move", "delete"} = {} =>
        \A n \in Masters : acked \subseteq rows[n].body.edits

(* Every occurrence the master has moved past has its completed snapshot:  *)
(* no occurrence is skipped, wherever the two PUTs are interrupted         *)
(* (recurring-completion.ts: snapshot first).                              *)
NoOccurrenceSkipped ==
    \A n \in Masters : \A k \in 1..(rows[n].body.occ - 1) :
        \E m \in Names : /\ Live(m)
                         /\ rows[m].body.uid = <<Task, k>>
                         /\ rows[m].body.done

(* recurring-completion.ts 104-106: when a completion is sent again, the   *)
(* PUT of its snapshot is absorbed as an upsert of the same resource.      *)
RetryIsAbsorbed ==
    [][\A w \in Workers :
          tool[w].at = "complete.snapshot.done" /\ req[w].at = "put.findByUri"
          => req'[w].out # "refused"]_allVars

(* move-todo.ts 34-42: a move never loses data, so what it deletes in the  *)
(* source is what it has put into the target.                              *)
MovesDeleteWhatTheyCopied ==
    [][\A w \in Workers :
          /\ tool[w].at = "delete.done" /\ tool[w].kind = "move"
          /\ req[w].at = "delete.write" /\ req'[w].out = "ok"
          => findByUri(req[w].name) = tool[w].body]_allVars
=============================================================================
