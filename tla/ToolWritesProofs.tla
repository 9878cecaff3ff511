--------------------------- MODULE ToolWritesProofs ---------------------------
(***************************************************************************)
(* Proofs about the tools that compose object requests, for any number of  *)
(* invocations, collections, edits and mixes of calls: a move never loses  *)
(* the task, an acknowledged edit is never written back out, and no        *)
(* occurrence is completed without its snapshot.                           *)
(*                                                                         *)
(* The invariant says what a tool has learnt when it is between two round  *)
(* trips (ToolKnows), what a request under way will write (WritesWell), and *)
(* what the tables satisfy (TablesFit).  A move leaves the task in two     *)
(* places until its DELETE, and other moves may delete what it has just    *)
(* created; what saves the task is a count: there is always one more copy  *)
(* than there are deletions still to come (CopiesOutnumberDeletions).      *)
(***************************************************************************)
EXTENDS ToolWrites, ObjectRequestsProofs, FiniteSetTheorems, SequenceTheorems

PutStages == {"put.findByUri", "put.findUid", "put.save"}
DeleteStages == {"delete.findByUri", "delete.write"}

(* A tool waits for the request it runs at these stages only.              *)
PutResults == {"update.done", "complete.snapshot.done", "complete.done", "move.delete"}
LookupStages == {"lookup.findUriByUid", "lookup.findByUri"}
UpdateResults == {"update.done", "complete.done"}
WriteStages == {"update.put", "complete.snapshot", "move.put", "delete.write"}
ToolStages == {"idle"} \cup LookupStages \cup WriteStages \cup PutResults \cup {"delete.done"}

ToolCall == [kind: ToolKinds, at: ToolStages \ {"idle"}, coll: Collections, to: Collections,
             edit: Edits, retries: 0..1, name: Names \cup {NoName},
             body: Bodies \cup {NoBody}, refusedAt: Stages \cup {""}]

ToolTypeOK == /\ tool \in [Workers -> ToolCall \cup {NoCall}]
              /\ acked \subseteq Edits

(* The names under which snapshots are stored.                             *)
SnapshotNames == {UriOf(b) : b \in {b \in Bodies : b.uid # <<Task>>}}

IsMaster(b) == b.uid = <<Task>>

(* Occurrence k has its completed snapshot.                                *)
Snapped(table, k) == \E m \in Names : /\ table[m].is = "live"
                                      /\ table[m].body.uid = <<Task, k>>
                                      /\ table[m].body.done

(* Every occurrence before the one body b is at has its snapshot.          *)
SnappedBefore(table, b) == IsMaster(b) => \A k \in 1..(b.occ - 1) : Snapped(table, k)

(* What can be read has a name that a client or a tool chose; the task is  *)
(* never under a snapshot's name; snapshots are completed.                 *)
RowFits(n, b) == /\ n \in Uris /\ b \in Bodies
                 /\ IsMaster(b) <=> n \notin SnapshotNames
                 /\ ~IsMaster(b) => b.done

TablesFit == \A n \in Names : Live(n) => /\ RowFits(n, rows[n].body)
                                        /\ SnappedBefore(rows, rows[n].body)

(* What a PUT under way will do: replace a version of the task by one with *)
(* the same edits or more, or create a copy of the task or a snapshot.     *)
Replaces(r, b) == /\ r.cond = MustMatch(b)
                  /\ IsMaster(b) /\ IsMaster(r.body)
                  /\ b.edits \subseteq r.body.edits

WritesWell(r, table) ==
    r.at \in PutStages =>
        /\ RowFits(r.name, r.body)
        /\ SnappedBefore(table, r.body)
        /\ r.cond = MustNotExist \/ \E b \in Bodies : Replaces(r, b)

(* What the PUT a tool waits for is, by the stage the tool is at.          *)
PutFitsStage(t, r) ==
    /\ t.at \in {"idle"} \cup PutResults
    /\ t.at \in UpdateResults =>
          /\ r.name = t.name /\ IsMaster(r.body)
          /\ t.kind \in PatchKinds => t.edit \in r.body.edits
    /\ t.at = "complete.snapshot.done" => r.body.uid = <<Task, t.body.occ>>
    /\ t.at = "move.delete" => r.cond = MustNotExist /\ IsMaster(r.body)
    /\ IsMaster(r.body) => (t.at = "move.delete" <=> r.cond = MustNotExist)

(* What a tool has learnt, and what the request it runs is.                *)
ToolKnows(t, r, table) ==
    /\ t.at \in LookupStages \cup WriteStages => r.at = "idle"
    /\ t.at \notin {"idle", "lookup.findUriByUid"} => t.name \in Uris \ SnapshotNames
    /\ t.at \in WriteStages \cup PutResults =>
          t.body \in Bodies /\ IsMaster(t.body) /\ SnappedBefore(table, t.body)
    /\ t.at \in {"complete.snapshot.done", "complete.done"} => t.body.occ < MaxOcc
    /\ r.at \in {"idle"} \cup PutStages \cup DeleteStages
    /\ r.at \in PutStages => PutFitsStage(t, r)
    /\ r.at \in DeleteStages => t.at = "delete.done" /\ r.name = t.name
    /\ t.at = "complete.snapshot.done" /\ r.at = "idle" /\ r.out = "ok" =>
          Snapped(table, t.body.occ)

(* Somebody moves or deletes the task.                                     *)
Removes == served \cap {"move", "delete"} # {}

ServedKinds(t) ==
    /\ t.at # "idle" => t.kind \in served
    /\ t.at \in {"move.put", "move.delete"} => t.kind = "move"
    /\ t.at = "delete.write" => t.kind = "delete"
    /\ t.at = "delete.done" => t.kind \in {"move", "delete"}

(* An update was successful and is about to be acknowledged.               *)
Succeeded(t, r) == /\ t.at \in UpdateResults /\ t.kind \in PatchKinds
                   /\ r.at = "idle" /\ r.out = "ok"

(* If nobody removes the task it is in one place, and has every edit that  *)
(* was acknowledged or is about to be.                                     *)
EditsKept ==
    ~Removes =>
        /\ \A m, n \in Masters : m = n
        /\ \A n \in Masters :
              /\ acked \subseteq rows[n].body.edits
              /\ \A w \in Workers : Succeeded(tool[w], req[w])
                                    => tool[w].edit \in rows[n].body.edits

(* The invocations that will delete the task somewhere, having put it      *)
(* somewhere else.                                                         *)
WillDelete(t, r) == \/ t.at = "move.delete" /\ r.at = "idle" /\ r.out = "ok"
                    \/ t.at = "delete.done" /\ r.at \in DeleteStages

Deleters == {w \in Workers : WillDelete(tool[w], req[w])}

CopiesOutnumberDeletions ==
    "delete" \notin served =>
        /\ IsFiniteSet(Masters) /\ IsFiniteSet(Deleters)
        /\ Cardinality(Deleters) < Cardinality(Masters)

ToolsKnow ==
    \A w \in Workers : /\ WritesWell(req[w], rows)
                       /\ ToolKnows(tool[w], req[w], rows)
                       /\ ServedKinds(tool[w])

(* The inductive invariant.                                                *)
ToolInv ==
    /\ StoreInv
    /\ RequestsOK
    /\ ToolTypeOK
    /\ TablesFit
    /\ ToolsKnow
    /\ EditsKept
    /\ CopiesOutnumberDeletions

-----------------------------------------------------------------------------
(* Task bodies and their names.                                            *)

LEMMA Uids ==
    /\ \A k \in Nat : <<Task, k>> # <<Task>> /\ Append(<<Task>>, k) = <<Task, k>>
    /\ \A k, l \in Nat : <<Task, k>> = <<Task, l>> => k = l
<1>1. \A k \in Nat : Len(<<Task, k>>) = 2 /\ Len(<<Task>>) = 1
  OBVIOUS
<1>2. \A k \in Nat : <<Task, k>> # <<Task>>
  BY <1>1
<1>3. ASSUME NEW k \in Nat PROVE Append(<<Task>>, k) = <<Task, k>>
  <2> DEFINE T == {Task} \cup Nat
             s == Append(<<Task>>, k)
  <2>1. <<Task>> \in Seq(T) /\ k \in T
    OBVIOUS
  <2>2. s \in Seq(T) /\ Len(s) = 2 /\ s[1] = Task /\ s[2] = k
    BY <2>1
  <2>3. <<Task, k>> \in Seq(T) /\ Len(<<Task, k>>) = 2
    OBVIOUS
  <2>4. \A i \in 1..2 : s[i] = <<Task, k>>[i]
    BY <2>2
  <2> HIDE DEF T, s
  <2> QED BY <2>2, <2>3, <2>4, SeqEqual DEF s
<1>4. \A k, l \in Nat : <<Task, k>> = <<Task, l>> => k = l
  OBVIOUS
<1> QED BY <1>2, <1>3, <1>4

(* What the tools make of a task is a task that can be stored.             *)
LEMMA TaskBodies ==
    ASSUME NEW b \in Bodies, IsMaster(b)
    PROVE  /\ b.occ \in 1..MaxOcc /\ b.edits \subseteq Edits
           /\ \A e \in Edits : /\ Patched(b, e) \in Bodies /\ IsMaster(Patched(b, e))
                               /\ Patched(b, e).occ = b.occ
                               /\ Patched(b, e).edits = b.edits \cup {e}
           /\ applyCompletion(b) \in Bodies /\ IsMaster(applyCompletion(b))
           /\ applyCompletion(b).occ = b.occ /\ applyCompletion(b).edits = b.edits
           /\ \A c \in Collections :
                 /\ InCollection(b, c) \in Bodies /\ IsMaster(InCollection(b, c))
                 /\ InCollection(b, c).occ = b.occ
           /\ b.occ < MaxOcc =>
                 /\ AdvancedMaster(b) \in Bodies /\ IsMaster(AdvancedMaster(b))
                 /\ AdvancedMaster(b).occ = b.occ + 1
                 /\ AdvancedMaster(b).edits = b.edits
                 /\ buildCompletionSnapshot(b) \in Bodies
                 /\ buildCompletionSnapshot(b).uid = <<Task, b.occ>>
                 /\ buildCompletionSnapshot(b).done
                 /\ ~IsMaster(buildCompletionSnapshot(b))
<1>1. b \in TaskBody
  BY BodiesAssumption
<1>2. /\ b.occ \in 1..MaxOcc /\ b.edits \subseteq Edits /\ b.coll \in Collections
      /\ b.uid = <<Task>> /\ b.uid \in TaskUids
  BY <1>1 DEF TaskBody, IsMaster
<1>3. \A e \in Edits : /\ Patched(b, e) \in Bodies /\ IsMaster(Patched(b, e))
                       /\ Patched(b, e).occ = b.occ
                       /\ Patched(b, e).edits = b.edits \cup {e}
  BY <1>1, <1>2, BodiesAssumption DEF TaskBody, IsMaster, Patched
<1>4. /\ applyCompletion(b) \in Bodies /\ IsMaster(applyCompletion(b))
      /\ applyCompletion(b).occ = b.occ /\ applyCompletion(b).edits = b.edits
  BY <1>1, <1>2, BodiesAssumption DEF TaskBody, IsMaster, applyCompletion
<1>5. \A c \in Collections :
         /\ InCollection(b, c) \in Bodies /\ IsMaster(InCollection(b, c))
         /\ InCollection(b, c).occ = b.occ
  BY <1>1, <1>2, BodiesAssumption DEF TaskBody, IsMaster, InCollection
<1>6. ASSUME b.occ < MaxOcc
      PROVE  /\ AdvancedMaster(b) \in Bodies /\ IsMaster(AdvancedMaster(b))
             /\ AdvancedMaster(b).occ = b.occ + 1
             /\ AdvancedMaster(b).edits = b.edits
  <2>1. b.occ + 1 \in 1..MaxOcc
    BY <1>2, <1>6, MaxOccAssumption
  <2> QED BY <1>1, <1>2, <2>1, BodiesAssumption
          DEF TaskBody, IsMaster, AdvancedMaster, applyCompletion
<1>7. ASSUME b.occ < MaxOcc
      PROVE  /\ buildCompletionSnapshot(b) \in Bodies
             /\ buildCompletionSnapshot(b).uid = <<Task, b.occ>>
             /\ buildCompletionSnapshot(b).done
             /\ ~IsMaster(buildCompletionSnapshot(b))
  <2>1. deterministicSnapshotUid(b) = <<Task, b.occ>> /\ <<Task, b.occ>> # <<Task>>
    BY <1>2, Uids DEF deterministicSnapshotUid
  <2>2. b.occ \in 1..(MaxOcc - 1)
    BY <1>2, <1>7, MaxOccAssumption
  <2>3. <<Task, b.occ>> \in TaskUids
    BY <2>2 DEF TaskUids
  <2> DEFINE s == [b EXCEPT !.done = TRUE, !.uid = <<Task, b.occ>>, !.rrule = FALSE]
  <2>4. buildCompletionSnapshot(b) = s
    BY <1>1, <2>1 DEF buildCompletionSnapshot, applyCompletion, TaskBody
  <2>5. s \in TaskBody /\ s.uid = <<Task, b.occ>> /\ s.done
    BY <1>1, <2>3 DEF TaskBody
  <2> QED BY <2>1, <2>4, <2>5, BodiesAssumption DEF IsMaster
<1> QED BY <1>2, <1>3, <1>4, <1>5, <1>6, <1>7

(* `${uid}.ics` of the task is no snapshot's name.                         *)
LEMMA TaskNames ==
    ASSUME NEW b \in Bodies
    PROVE  /\ UriOf(b) \in Uris
           /\ IsMaster(b) <=> UriOf(b) \notin SnapshotNames
<1>1. ASSUME NEW c \in Bodies, UriOf(b) = UriOf(c) PROVE b.uid = c.uid
  BY <1>1 DEF UriOf
<1> QED BY <1>1, UrisAssumption DEF SnapshotNames, IsMaster

-----------------------------------------------------------------------------
(* Steps that leave the tables alone.                                      *)

(* What is known of the snapshots stays true while they do.                *)
LEMMA KnowledgeStays ==
    ASSUME NEW old, NEW new, \A k : Snapped(old, k) => Snapped(new, k),
           NEW t, NEW r, WritesWell(r, old), ToolKnows(t, r, old)
    PROVE  WritesWell(r, new) /\ ToolKnows(t, r, new)
<1>1. \A b : SnappedBefore(old, b) => SnappedBefore(new, b)
  BY DEF SnappedBefore
<1>2. WritesWell(r, new)
  BY <1>1 DEF WritesWell
<1>3. ToolKnows(t, r, new)
  BY <1>1 DEF ToolKnows
<1> QED BY <1>2, <1>3

(* A step of one worker in which the tables stay as they are.              *)
LEMMA QuietStep ==
    ASSUME ToolInv, UNCHANGED <<storeVars, served>>,
           NEW w \in Workers, NEW t \in ToolCall \cup {NoCall}, NEW r \in Request,
           tool' = [tool EXCEPT ![w] = t], req' = [req EXCEPT ![w] = r],
           Carries(r, minted), WritesWell(r, rows), ToolKnows(t, r, rows), ServedKinds(t),
           acked' \subseteq Edits,
           ~Removes => \A n \in Masters :
                          /\ acked' \subseteq rows[n].body.edits
                          /\ Succeeded(t, r) => t.edit \in rows[n].body.edits,
           "delete" \notin served /\ WillDelete(t, r) => WillDelete(tool[w], req[w])
    PROVE  ToolInv'
<1>1. UNCHANGED <<present, counter, log, rows, minted>>
  BY DEF storeVars
<1>2. StoreInv'
  BY <1>1 DEF ToolInv, StoreInv, StoreTypeOK, FreshUnused, LogContiguous, LiveIsLogged,
     UidsUnique, Live
<1>3. RequestsOK'
  BY <1>1, OneRequest DEF ToolInv
<1>4. /\ tool \in [Workers -> ToolCall \cup {NoCall}] /\ req \in [Workers -> Request]
      /\ tool'[w] = t /\ req'[w] = r
      /\ \A v \in Workers \ {w} : tool'[v] = tool[v] /\ req'[v] = req[v]
  BY DEF ToolInv, ToolTypeOK, RequestsOK
<1>5. ToolTypeOK' /\ Masters' = Masters /\ TablesFit'
  BY <1>1, <1>4 DEF ToolInv, ToolTypeOK, TablesFit, Masters, Live
<1>6. ToolsKnow'
  BY <1>1, <1>4 DEF ToolInv, ToolsKnow, ServedKinds
<1>7. EditsKept'
  <2> SUFFICES ASSUME ~Removes
               PROVE  EditsKept'
    BY DEF EditsKept, Removes
  <2>1. \A n \in Masters : \A v \in Workers :
           Succeeded(tool'[v], req'[v]) => tool'[v].edit \in rows[n].body.edits
    BY <1>4 DEF ToolInv, EditsKept
  <2> QED BY <1>1, <1>5, <2>1 DEF ToolInv, EditsKept
<1>8. CopiesOutnumberDeletions'
  <2>1. "delete" \notin served => Deleters' \subseteq Deleters
    BY <1>4 DEF Deleters
  <2> QED BY <1>5, <2>1, FS_Subset, FS_CardinalityType DEF ToolInv, CopiesOutnumberDeletions
<1> QED BY <1>2, <1>3, <1>5, <1>6, <1>7, <1>8 DEF ToolInv

(* What the invariant says of one worker.                                  *)
LEMMA OneTool ==
    ASSUME ToolInv, NEW w \in Workers
    PROVE  /\ tool[w] \in ToolCall \cup {NoCall} /\ req[w] \in Request
           /\ tool[w].at = "idle" => tool[w] = NoCall
           /\ tool[w].at # "idle" => tool[w] \in ToolCall
           /\ Carries(req[w], minted)
           /\ WritesWell(req[w], rows) /\ ToolKnows(tool[w], req[w], rows)
           /\ ServedKinds(tool[w])
           /\ acked \subseteq Edits
           /\ tool = [tool EXCEPT ![w] = tool[w]] /\ req = [req EXCEPT ![w] = req[w]]
           /\ ~Removes => \A n \in Masters : acked \subseteq rows[n].body.edits
           /\ present /\ StoreTypeOK
<1>1. /\ tool \in [Workers -> ToolCall \cup {NoCall}] /\ req \in [Workers -> Request]
      /\ acked \subseteq Edits /\ present /\ StoreTypeOK
      /\ Carries(req[w], minted)
  BY DEF ToolInv, ToolTypeOK, RequestsOK, RequestsCarry, StoreInv
<1>2. \A t \in ToolCall : t.at # "idle"
  BY DEF ToolCall
<1>3. NoCall.at = "idle"
  BY DEF NoCall
<1>4. tool = [tool EXCEPT ![w] = tool[w]] /\ req = [req EXCEPT ![w] = req[w]]
  BY <1>1
<1>5. /\ WritesWell(req[w], rows) /\ ToolKnows(tool[w], req[w], rows)
      /\ ServedKinds(tool[w])
  BY DEF ToolInv, ToolsKnow
<1>6. ~Removes => \A n \in Masters : acked \subseteq rows[n].body.edits
  BY DEF ToolInv, EditsKept
<1> QED BY <1>1, <1>2, <1>3, <1>4, <1>5, <1>6

(* A tool call that ends, or an invocation that dies.                      *)
LEMMA FinishKeeps ==
    ASSUME ToolInv, UNCHANGED <<storeVars, acked, served>>, NEW w \in Workers,
           Finish(w),
           \/ UNCHANGED req /\ tool[w].at # "idle" /\ req[w].at = "idle"
           \/ Answer(w, "none")
    PROVE  ToolInv'
<1> DEFINE t == NoCall
<1>1. t \in ToolCall \cup {NoCall} /\ t.at = "idle"
  BY DEF NoCall
<1>2. tool' = [tool EXCEPT ![w] = t]
  BY DEF Finish
<1>3. ASSUME NEW r \in Request, r.at = "idle", Carries(r, minted),
             req' = [req EXCEPT ![w] = r]
      PROVE  ToolInv'
  <2>1. WritesWell(r, rows) /\ ToolKnows(t, r, rows) /\ ServedKinds(t)
    BY <1>1, <1>3 DEF WritesWell, ToolKnows, ServedKinds, PutStages, DeleteStages,
       LookupStages, WriteStages, PutResults
  <2>2. ~Succeeded(t, r) /\ ~WillDelete(t, r)
    BY <1>1 DEF Succeeded, UpdateResults, WillDelete
  <2> QED BY <1>1, <1>2, <1>3, <2>1, <2>2, OneTool, QuietStep
<1>4. CASE Answer(w, "none")
  BY <1>3, <1>4, IdleRequest DEF Answer
<1>5. CASE UNCHANGED req /\ req[w].at = "idle"
  BY <1>3, <1>5, OneTool
<1> QED BY <1>4, <1>5

(* A tool that goes on to its next stage while no request is under way.    *)
LEMMA StageKeeps ==
    ASSUME ToolInv, UNCHANGED <<vars, acked, served>>, NEW w \in Workers,
           NEW t \in ToolCall, tool' = [tool EXCEPT ![w] = t], req[w].at = "idle",
           t.at \in LookupStages \cup WriteStages, ServedKinds(t),
           t.at # "lookup.findUriByUid" => t.name \in Uris \ SnapshotNames,
           t.at \in WriteStages =>
              t.body \in Bodies /\ IsMaster(t.body) /\ SnappedBefore(rows, t.body)
    PROVE  ToolInv'
<1> DEFINE r == req[w]
<1>1. UNCHANGED storeVars /\ req' = [req EXCEPT ![w] = r] /\ Carries(r, minted)
  BY OneTool DEF vars, storeVars
<1>2. WritesWell(r, rows) /\ ToolKnows(t, r, rows)
  BY DEF WritesWell, ToolKnows, PutStages, DeleteStages, LookupStages, WriteStages,
     PutResults
<1>3. ~Succeeded(t, r) /\ ~WillDelete(t, r)
  BY DEF Succeeded, UpdateResults, WillDelete, LookupStages, WriteStages
<1> QED BY <1>1, <1>2, <1>3, OneTool, QuietStep

(* A tool starts a request.                                                *)
LEMMA InvokeKeeps ==
    ASSUME ToolInv, UNCHANGED served, NEW w \in Workers, NEW r \in Request, NEW stage,
           At(w, tool[w].at), tool[w].at # "idle",
           Invoke(w, r, stage), stage \in PutResults \cup {"delete.done"},
           Carries(r, minted), WritesWell(r, rows),
           \A t \in ToolCall :
              /\ t.at = stage
              /\ t.kind = tool[w].kind /\ t.name = tool[w].name
              /\ t.body = tool[w].body /\ t.edit = tool[w].edit
              => ToolKnows(t, r, rows) /\ ServedKinds(t)
                 /\ ("delete" \notin served /\ WillDelete(t, r)
                        => WillDelete(tool[w], req[w])),
           r.at # "idle"
    PROVE  ToolInv'
<1> DEFINE t == [tool[w] EXCEPT !.at = stage, !.refusedAt = ""]
<1>1. tool[w] \in ToolCall /\ present
  BY OneTool
<1>2. t \in ToolCall
  BY <1>1 DEF ToolCall, ToolStages, PutResults
<1>3. /\ t.at = stage /\ t.kind = tool[w].kind /\ t.name = tool[w].name
      /\ t.body = tool[w].body /\ t.edit = tool[w].edit
  BY <1>1 DEF ToolCall
<1>4. /\ tool' = [tool EXCEPT ![w] = t] /\ req' = [req EXCEPT ![w] = r]
      /\ UNCHANGED <<storeVars, acked>>
  BY <1>1 DEF Invoke
<1>5. /\ ToolKnows(t, r, rows) /\ ServedKinds(t)
      /\ "delete" \notin served /\ WillDelete(t, r) => WillDelete(tool[w], req[w])
  BY <1>2, <1>3
<1>6. ~Succeeded(t, r)
  BY DEF Succeeded
<1> QED BY <1>2, <1>4, <1>5, <1>6, OneTool, QuietStep

-----------------------------------------------------------------------------
(* The lookup.                                                             *)

LEMMA ArriveKeeps == ASSUME ToolInv, NEW w \in Workers, ToolArrive(w) PROVE ToolInv'
<1> DEFINE T(k, c, to, e) ==
              [kind |-> k, at |-> "lookup.findUriByUid", coll |-> c, to |-> to, edit |-> e,
               retries |-> IF k \in {"update", "update-complete"} THEN 1 ELSE 0,
               name |-> NoName, body |-> NoBody, refusedAt |-> ""]
<1>0. \E k \in served \cap ToolKinds, c, to \in Collections, e \in Edits :
         /\ k = "move" <=> to # c
         /\ tool' = [tool EXCEPT ![w] = T(k, c, to, e)]
  BY Zenon DEF ToolArrive
<1>1. PICK k \in served \cap ToolKinds, c, to \in Collections, e \in Edits :
         tool' = [tool EXCEPT ![w] = T(k, c, to, e)]
  BY <1>0, Zenon
<1> DEFINE t == T(k, c, to, e)
<1>2. t \in ToolCall /\ t.at = "lookup.findUriByUid" /\ t.kind \in served
  BY DEF ToolCall, ToolStages, LookupStages
<1>3. ServedKinds(t)
  BY <1>2 DEF ServedKinds
<1>4. UNCHANGED <<vars, acked, served>> /\ req[w].at = "idle"
  BY DEF ToolArrive
<1> QED BY <1>1, <1>2, <1>3, <1>4, StageKeeps DEF LookupStages, WriteStages

LEMMA FindUriKeeps == ASSUME ToolInv, NEW w \in Workers, LookupFindUri(w) PROVE ToolInv'
<1> DEFINE found == findUriByUid(<<tool[w].coll, <<Task>>>>)
<1>1. /\ tool[w].at = "lookup.findUriByUid" /\ req[w].at = "idle"
      /\ UNCHANGED <<vars, acked, served>>
  BY DEF LookupFindUri, At
<1>2. tool[w] \in ToolCall /\ ServedKinds(tool[w])
  BY <1>1, OneTool
<1>3. CASE Finish(w)
  BY <1>1, <1>3, FinishKeeps DEF vars, storeVars
<1>4. CASE \E n \in found :
              tool' = [tool EXCEPT ![w].name = n, ![w].at = "lookup.findByUri"]
  <2>1. PICK n \in found : tool' = [tool EXCEPT ![w].name = n, ![w].at = "lookup.findByUri"]
    BY <1>4
  <2> DEFINE t == [tool[w] EXCEPT !.name = n, !.at = "lookup.findByUri"]
  <2>2. n \in Names /\ Live(n) /\ UidOf[rows[n].body] = <<tool[w].coll, <<Task>>>>
    BY DEF findUriByUid
  <2>3. RowFits(n, rows[n].body)
    BY <2>2 DEF ToolInv, TablesFit
  <2>4. n \in Uris \ SnapshotNames
    BY <2>2, <2>3, UidOfAssumption DEF RowFits, IsMaster
  <2>5. t \in ToolCall /\ t.at = "lookup.findByUri" /\ t.name = n /\ t.kind = tool[w].kind
    BY <1>2, <2>2 DEF ToolCall, ToolStages, LookupStages
  <2>6. ServedKinds(t)
    BY <1>1, <1>2, <2>5 DEF ServedKinds
  <2>7. tool' = [tool EXCEPT ![w] = t]
    BY <2>1
  <2> QED BY <1>1, <2>4, <2>5, <2>6, <2>7, StageKeeps DEF LookupStages, WriteStages
<1> QED BY <1>3, <1>4 DEF LookupFindUri

LEMMA FindByUriKeeps == ASSUME ToolInv, NEW w \in Workers, LookupFindByUri(w) PROVE ToolInv'
<1> DEFINE n == tool[w].name
           b == findByUri(n)
<1>1. /\ tool[w].at = "lookup.findByUri" /\ req[w].at = "idle"
      /\ UNCHANGED <<vars, acked, served>>
  BY DEF LookupFindByUri, At
<1>2. tool[w] \in ToolCall /\ ServedKinds(tool[w]) /\ n \in Uris \ SnapshotNames
  BY <1>1, OneTool DEF ToolKnows
<1>3. CASE b = NoBody
  BY <1>1, <1>3, FinishKeeps DEF LookupFindByUri, vars, storeVars
<1>4. CASE b # NoBody
  <2>1. Live(n) /\ b = rows[n].body /\ n \in Names
    BY <1>2, <1>4 DEF findByUri, BodyIn, Live, Names
  <2>2. b \in Bodies /\ IsMaster(b) /\ SnappedBefore(rows, b)
    BY <1>2, <2>1 DEF ToolInv, TablesFit, RowFits
  <2> DEFINE stage == FirstWrite(tool[w].kind, b)
             t == [tool[w] EXCEPT !.body = b, !.at = stage]
  <2>3. /\ stage \in WriteStages
        /\ stage = "move.put" => tool[w].kind = "move"
        /\ stage = "delete.write" => tool[w].kind = "delete"
    BY DEF FirstWrite, WriteStages
  <2>4. /\ t \in ToolCall /\ t.at = stage /\ t.body = b /\ t.name = n
        /\ t.kind = tool[w].kind
    BY <1>2, <2>2, <2>3 DEF ToolCall, ToolStages, WriteStages
  <2>5. ServedKinds(t)
    BY <1>1, <1>2, <2>3, <2>4 DEF ServedKinds, WriteStages
  <2>6. tool' = [tool EXCEPT ![w] = t]
    BY <1>4 DEF LookupFindByUri
  <2> QED BY <1>1, <1>2, <2>2, <2>3, <2>4, <2>5, <2>6, StageKeeps DEF WriteStages
<1> QED BY <1>3, <1>4

(* A failed attempt is made again, or given up.                            *)
LEMMA RetryKeeps ==
    ASSUME ToolInv, UNCHANGED <<vars, acked, served>>, NEW w \in Workers, NEW condKind,
           RetryOrFail(w, condKind), tool[w].at # "idle", req[w].at = "idle"
    PROVE  ToolInv'
<1>1. CASE Finish(w)
  BY <1>1, FinishKeeps DEF vars, storeVars
<1>2. CASE tool' = [tool EXCEPT ![w].at = "lookup.findUriByUid", ![w].retries = 0]
  <2> DEFINE t == [tool[w] EXCEPT !.at = "lookup.findUriByUid", !.retries = 0]
  <2>1. tool[w] \in ToolCall /\ ServedKinds(tool[w])
    BY OneTool
  <2>2. t \in ToolCall /\ t.at = "lookup.findUriByUid" /\ t.kind = tool[w].kind
    <3>1. 0 \in 0..1 /\ "lookup.findUriByUid" \in ToolStages \ {"idle"}
      BY DEF ToolStages, LookupStages
    <3> QED BY <2>1, <3>1 DEF ToolCall
  <2>3. ServedKinds(t)
    BY <2>1, <2>2 DEF ServedKinds
  <2>4. tool' = [tool EXCEPT ![w] = t]
    BY <1>2
  <2> QED BY <2>2, <2>3, <2>4, StageKeeps DEF LookupStages, WriteStages
<1> QED BY <1>1, <1>2 DEF RetryOrFail

-----------------------------------------------------------------------------
(* The requests that tools run.                                            *)

LEMMA BeginPut ==
    ASSUME NEW n \in Uris, NEW b \in Bodies, NEW cond \in Condition, NEW m,
           NEW r, r = Begin("put.findByUri", n, b, cond)
    PROVE  /\ r \in Request /\ Carries(r, m)
           /\ r.at = "put.findByUri" /\ r.at \in PutStages /\ r.at \notin DeleteStages
           /\ r.name = n /\ r.body = b /\ r.cond = cond
BY DEF Begin, Request, Stages, Carries, PutStages, DeleteStages, Names

LEMMA BeginDelete ==
    ASSUME NEW n \in Uris, NEW m,
           NEW r, r = Begin("delete.findByUri", n, NoBody, Unconditional)
    PROVE  /\ r \in Request /\ Carries(r, m)
           /\ r.at = "delete.findByUri" /\ r.at \notin PutStages /\ r.at \in DeleteStages
           /\ r.name = n
BY DEF Begin, Request, Stages, Carries, PutStages, DeleteStages, Names, Unconditional,
   Condition

LEMMA Conditions ==
    /\ MustNotExist \in Condition
    /\ \A b \in Bodies : MustMatch(b) \in Condition /\ MustMatch(b) # MustNotExist
BY DEF MustMatch, MustNotExist, Condition

(* Before its first write a tool has the task, as it was, and its name.    *)
LEMMA HasRead ==
    ASSUME ToolInv, NEW w \in Workers, tool[w].at \in WriteStages \cup PutResults
    PROVE  LET t == tool[w] IN
           /\ t \in ToolCall /\ t.at # "idle"
           /\ t.name \in Uris /\ t.name \notin SnapshotNames
           /\ t.body \in Bodies /\ IsMaster(t.body) /\ SnappedBefore(rows, t.body)
           /\ t.edit \in Edits /\ t.to \in Collections
           /\ ServedKinds(t)
<1>1. tool[w].at \notin {"idle", "lookup.findUriByUid"}
  BY DEF WriteStages, PutResults
<1> QED BY <1>1, OneTool DEF ToolKnows, ToolCall

(* What a call sends is in the task it makes, and no edit is taken out.    *)
LEMMA AskedTask ==
    ASSUME NEW t, t.body \in Bodies, IsMaster(t.body), t.edit \in Edits
    PROVE  /\ Asked(t) \in Bodies /\ IsMaster(Asked(t)) /\ Asked(t).occ = t.body.occ
           /\ t.body.edits \subseteq Asked(t).edits
           /\ t.kind \in PatchKinds => t.edit \in Asked(t).edits
<1>1. CASE t.kind \in PatchKinds
  <2>1. Asked(t) = Patched(t.body, t.edit)
    BY <1>1 DEF Asked
  <2> QED BY <2>1, TaskBodies
<1>2. CASE t.kind \notin PatchKinds
  BY <1>2 DEF Asked
<1> QED BY <1>1, <1>2

(* A tool overwrites the version it has read, with the same edits or more. *)
LEMMA ReplaceKeeps ==
    ASSUME ToolInv, UNCHANGED served, NEW w \in Workers, NEW b \in Bodies, NEW stage,
           tool[w].at \in WriteStages \cup PutResults, req[w].at = "idle",
           InvokePut(w, tool[w].name, b, MustMatch(tool[w].body), stage),
           IsMaster(b), SnappedBefore(rows, b), tool[w].body.edits \subseteq b.edits,
           stage \in UpdateResults,
           stage = "complete.done" => tool[w].body.occ < MaxOcc,
           tool[w].kind \in PatchKinds => tool[w].edit \in b.edits
    PROVE  ToolInv'
<1> DEFINE r == Begin("put.findByUri", tool[w].name, b, MustMatch(tool[w].body))
<1>1. /\ tool[w].name \in Uris /\ tool[w].name \notin SnapshotNames
      /\ tool[w].body \in Bodies /\ IsMaster(tool[w].body)
      /\ SnappedBefore(rows, tool[w].body) /\ tool[w].at # "idle"
  BY HasRead
<1>2. MustMatch(tool[w].body) \in Condition /\ MustMatch(tool[w].body) # MustNotExist
  BY <1>1, Conditions
<1>3. /\ r \in Request /\ Carries(r, minted)
      /\ r.at = "put.findByUri" /\ r.at \in PutStages /\ r.at \notin DeleteStages
      /\ r.name = tool[w].name /\ r.body = b /\ r.cond = MustMatch(tool[w].body)
  BY <1>1, <1>2, BeginPut
<1>4. WritesWell(r, rows)
  BY <1>1, <1>3 DEF WritesWell, RowFits, Replaces
<1> HIDE DEF r
<1>5. ASSUME NEW t \in ToolCall, t.at = stage, t.kind = tool[w].kind,
             t.name = tool[w].name, t.body = tool[w].body, t.edit = tool[w].edit
      PROVE  ToolKnows(t, r, rows) /\ ServedKinds(t) /\ ~WillDelete(t, r)
  <2>1. PutFitsStage(t, r)
    BY <1>2, <1>3, <1>5 DEF PutFitsStage, PutResults, UpdateResults
  <2>2. ToolKnows(t, r, rows)
    BY <1>1, <1>3, <1>5, <2>1 DEF ToolKnows, LookupStages, WriteStages, PutResults, UpdateResults
  <2>3. t.kind \in served
    BY <1>1, <1>5, OneTool DEF ServedKinds
  <2> QED BY <1>5, <2>2, <2>3 DEF ServedKinds, WillDelete, UpdateResults
<1>6. Invoke(w, r, stage) /\ At(w, tool[w].at) /\ stage \in PutResults
  BY DEF InvokePut, r, At, PutResults, UpdateResults
<1> QED BY <1>1, <1>3, <1>4, <1>5, <1>6, InvokeKeeps

(* A tool makes a new resource: a snapshot, or a copy of the task.         *)
LEMMA CreateKeeps ==
    ASSUME ToolInv, UNCHANGED served, NEW w \in Workers, NEW b \in Bodies, NEW stage,
           tool[w].at \in WriteStages, req[w].at = "idle",
           InvokePut(w, UriOf(b), b, MustNotExist, stage),
           SnappedBefore(rows, b),
           \/ /\ stage = "complete.snapshot.done" /\ tool[w].body.occ < MaxOcc
              /\ ~IsMaster(b) /\ b.done /\ b.uid = <<Task, tool[w].body.occ>>
           \/ stage = "move.delete" /\ IsMaster(b) /\ tool[w].kind = "move"
    PROVE  ToolInv'
<1> DEFINE r == Begin("put.findByUri", UriOf(b), b, MustNotExist)
<1>1. /\ tool[w].name \in Uris /\ tool[w].name \notin SnapshotNames
      /\ tool[w].body \in Bodies /\ IsMaster(tool[w].body)
      /\ SnappedBefore(rows, tool[w].body) /\ tool[w].at # "idle"
  BY HasRead
<1>2. UriOf(b) \in Uris /\ (IsMaster(b) <=> UriOf(b) \notin SnapshotNames)
  BY TaskNames
<1>3. /\ r \in Request /\ Carries(r, minted)
      /\ r.at = "put.findByUri" /\ r.at \in PutStages /\ r.at \notin DeleteStages
      /\ r.name = UriOf(b) /\ r.body = b /\ r.cond = MustNotExist
  BY <1>2, Conditions, BeginPut
<1>4. WritesWell(r, rows)
  BY <1>2, <1>3 DEF WritesWell, RowFits
<1> HIDE DEF r
<1>5. ASSUME NEW t \in ToolCall, t.at = stage, t.kind = tool[w].kind,
             t.name = tool[w].name, t.body = tool[w].body, t.edit = tool[w].edit
      PROVE  ToolKnows(t, r, rows) /\ ServedKinds(t) /\ ~WillDelete(t, r)
  <2>1. PutFitsStage(t, r)
    BY <1>3, <1>5 DEF PutFitsStage, PutResults, UpdateResults
  <2>2. ToolKnows(t, r, rows)
    BY <1>1, <1>3, <1>5, <2>1 DEF ToolKnows, LookupStages, WriteStages, PutResults
  <2>3. t.kind \in served
    BY <1>1, <1>5, OneTool DEF ServedKinds
  <2> QED BY <1>3, <1>5, <2>2, <2>3 DEF ServedKinds, WillDelete
<1>6. Invoke(w, r, stage) /\ At(w, tool[w].at) /\ stage \in PutResults
  BY DEF InvokePut, r, At, PutResults
<1> QED BY <1>1, <1>3, <1>4, <1>5, <1>6, InvokeKeeps

(* A tool deletes the resource it has read.                                *)
LEMMA RemoveKeeps ==
    ASSUME ToolInv, UNCHANGED served, NEW w \in Workers,
           tool[w].at \in WriteStages \cup PutResults, req[w].at = "idle",
           InvokeDelete(w, tool[w].name, "delete.done"),
           \/ tool[w].kind = "delete"
           \/ tool[w].kind = "move" /\ WillDelete(tool[w], req[w])
    PROVE  ToolInv'
<1> DEFINE r == Begin("delete.findByUri", tool[w].name, NoBody, Unconditional)
<1>1. tool[w].name \in Uris /\ tool[w].name \notin SnapshotNames /\ tool[w].at # "idle"
  BY HasRead
<1>2. /\ r \in Request /\ Carries(r, minted)
      /\ r.at = "delete.findByUri" /\ r.at \notin PutStages /\ r.at \in DeleteStages
      /\ r.name = tool[w].name
  BY <1>1, BeginDelete
<1> HIDE DEF r
<1>3. tool[w].kind \in served
  BY <1>1, OneTool DEF ServedKinds
<1>4. ASSUME NEW t \in ToolCall, t.at = "delete.done", t.kind = tool[w].kind,
             t.name = tool[w].name, t.body = tool[w].body, t.edit = tool[w].edit
      PROVE  /\ ToolKnows(t, r, rows) /\ ServedKinds(t)
             /\ "delete" \notin served /\ WillDelete(t, r)
                   => WillDelete(tool[w], req[w])
  <2>1. ToolKnows(t, r, rows)
    BY <1>1, <1>2, <1>4 DEF ToolKnows, LookupStages, WriteStages, PutResults
  <2> QED BY <1>3, <1>4, <2>1 DEF ServedKinds
<1>5. Invoke(w, r, "delete.done") /\ At(w, tool[w].at) /\ WritesWell(r, rows)
  BY <1>2 DEF InvokeDelete, r, At, WritesWell
<1> QED BY <1>1, <1>2, <1>4, <1>5, InvokeKeeps

-----------------------------------------------------------------------------
(* The tools, stage by stage.                                              *)

LEMMA UpdatePutKeeps == ASSUME ToolInv, NEW w \in Workers, UpdatePut(w) PROVE ToolInv'
<1> DEFINE t == tool[w]
           b == UpdatedBody(t)
<1>1. /\ t.at = "update.put" /\ req[w].at = "idle" /\ UNCHANGED served
      /\ InvokePut(w, t.name, b, MustMatch(t.body), "update.done")
  BY DEF UpdatePut, At, InvokePut, Invoke
<1>2. /\ t.body \in Bodies /\ IsMaster(t.body) /\ SnappedBefore(rows, t.body)
      /\ t.edit \in Edits
  BY <1>1, HasRead DEF WriteStages
<1>3. /\ b \in Bodies /\ IsMaster(b) /\ b.occ = t.body.occ
      /\ t.body.edits \subseteq b.edits
      /\ t.kind \in PatchKinds => t.edit \in b.edits
  BY <1>2, AskedTask, TaskBodies DEF UpdatedBody
<1>4. SnappedBefore(rows, b)
  BY <1>2, <1>3 DEF SnappedBefore
<1> HIDE DEF b
<1> QED BY <1>1, <1>3, <1>4, ReplaceKeeps DEF WriteStages, UpdateResults

LEMMA CompleteSnapshotKeeps ==
    ASSUME ToolInv, NEW w \in Workers, CompleteSnapshot(w) PROVE ToolInv'
<1> DEFINE t == tool[w]
           s == buildCompletionSnapshot(Asked(t))
<1>1. /\ t.at = "complete.snapshot" /\ req[w].at = "idle" /\ UNCHANGED served
      /\ t.body.occ < MaxOcc
      /\ InvokePut(w, UriOf(s), s, MustNotExist, "complete.snapshot.done")
  BY DEF CompleteSnapshot, At, InvokePut, Invoke
<1>2. Asked(t) \in Bodies /\ IsMaster(Asked(t)) /\ Asked(t).occ = t.body.occ
  BY <1>1, HasRead, AskedTask DEF WriteStages
<1>3. s \in Bodies /\ s.uid = <<Task, t.body.occ>> /\ s.done /\ ~IsMaster(s)
  BY <1>1, <1>2, TaskBodies
<1> HIDE DEF s
<1> QED BY <1>1, <1>3, CreateKeeps DEF WriteStages, SnappedBefore

LEMMA CompleteMasterKeeps ==
    ASSUME ToolInv, NEW w \in Workers, CompleteMaster(w) PROVE ToolInv'
<1> DEFINE t == tool[w]
           b == AdvancedMaster(Asked(t))
<1>1. t.at = "complete.snapshot.done" /\ req[w].at = "idle"
  BY DEF CompleteMaster, At
<1>2. CASE req[w].out # "ok"
  BY <1>1, <1>2, RetryKeeps DEF CompleteMaster
<1>3. CASE req[w].out = "ok"
  <2>1. /\ UNCHANGED served
        /\ InvokePut(w, t.name, b, MustMatch(t.body), "complete.done")
    BY <1>3 DEF CompleteMaster, InvokePut, Invoke
  <2>2. /\ t.body \in Bodies /\ IsMaster(t.body) /\ SnappedBefore(rows, t.body)
        /\ t.body.occ < MaxOcc /\ Snapped(rows, t.body.occ)
    BY <1>1, <1>3, HasRead, OneTool DEF PutResults, ToolKnows
  <2>3. /\ Asked(t) \in Bodies /\ IsMaster(Asked(t)) /\ Asked(t).occ = t.body.occ
        /\ t.body.edits \subseteq Asked(t).edits
        /\ t.kind \in PatchKinds => t.edit \in Asked(t).edits
    BY <1>1, <2>2, HasRead, AskedTask DEF PutResults
  <2>4. /\ b \in Bodies /\ IsMaster(b) /\ b.occ = t.body.occ + 1
        /\ b.edits = Asked(t).edits /\ t.body.occ \in 1..MaxOcc
    BY <2>2, <2>3, TaskBodies
  <2>5. SnappedBefore(rows, b)
    BY <2>2, <2>4, MaxOccAssumption DEF SnappedBefore
  <2> HIDE DEF b
  <2> QED BY <1>1, <2>1, <2>2, <2>3, <2>4, <2>5, ReplaceKeeps DEF PutResults, UpdateResults
<1> QED BY <1>2, <1>3

LEMMA MovePutKeeps == ASSUME ToolInv, NEW w \in Workers, MovePut(w) PROVE ToolInv'
<1> DEFINE t == tool[w]
           b == InCollection(t.body, t.to)
<1>1. /\ t.at = "move.put" /\ req[w].at = "idle" /\ UNCHANGED served
      /\ InvokePut(w, UriOf(b), b, MustNotExist, "move.delete")
  BY DEF MovePut, At, InvokePut, Invoke
<1>2. /\ t.body \in Bodies /\ IsMaster(t.body) /\ SnappedBefore(rows, t.body)
      /\ t.to \in Collections /\ t.kind = "move"
  BY <1>1, HasRead DEF WriteStages, ServedKinds
<1>3. b \in Bodies /\ IsMaster(b) /\ b.occ = t.body.occ
  BY <1>2, TaskBodies
<1>4. SnappedBefore(rows, b)
  BY <1>2, <1>3 DEF SnappedBefore
<1> HIDE DEF b
<1> QED BY <1>1, <1>2, <1>3, <1>4, CreateKeeps DEF WriteStages

LEMMA MoveDeleteKeeps == ASSUME ToolInv, NEW w \in Workers, MoveDelete(w) PROVE ToolInv'
<1>1. tool[w].at = "move.delete" /\ req[w].at = "idle"
  BY DEF MoveDelete, At
<1>2. CASE req[w].out # "ok"
  BY <1>1, <1>2, FinishKeeps DEF MoveDelete, vars, storeVars
<1>3. CASE req[w].out = "ok"
  <2>1. UNCHANGED served /\ InvokeDelete(w, tool[w].name, "delete.done")
    BY <1>3 DEF MoveDelete, InvokeDelete, Invoke
  <2>2. tool[w].kind = "move" /\ WillDelete(tool[w], req[w])
    BY <1>1, <1>3, OneTool DEF ServedKinds, WillDelete
  <2> QED BY <1>1, <2>1, <2>2, RemoveKeeps DEF PutResults
<1> QED BY <1>2, <1>3

LEMMA DeleteTodoKeeps == ASSUME ToolInv, NEW w \in Workers, DeleteTodo(w) PROVE ToolInv'
<1>1. /\ tool[w].at = "delete.write" /\ req[w].at = "idle" /\ UNCHANGED served
      /\ InvokeDelete(w, tool[w].name, "delete.done")
  BY DEF DeleteTodo, At, InvokeDelete, Invoke
<1>2. tool[w].kind = "delete"
  BY <1>1, OneTool DEF ServedKinds
<1> QED BY <1>1, <1>2, RemoveKeeps DEF WriteStages

LEMMA DeleteDoneKeeps == ASSUME ToolInv, NEW w \in Workers, DeleteDone(w) PROVE ToolInv'
BY FinishKeeps DEF DeleteDone, At, vars, storeVars

LEMMA ToolCrashKeeps == ASSUME ToolInv, NEW w \in Workers, ToolCrash(w) PROVE ToolInv'
BY FinishKeeps DEF ToolCrash, storeVars

(* The acknowledgement: the edit has been in the task since the PUT.       *)
LEMMA AcknowledgeKeeps ==
    ASSUME ToolInv, NEW w \in Workers, tool[w].at \in UpdateResults, req[w].at = "idle",
           UNCHANGED <<vars, served>>, Finish(w),
           req[w].out = "ok", tool[w].kind \in PatchKinds, Acknowledge(w)
    PROVE  ToolInv'
<1> DEFINE t == NoCall
           r == req[w]
<1>1. /\ acked' = acked \cup {tool[w].edit}
      /\ UNCHANGED storeVars /\ UNCHANGED req
  BY DEF Acknowledge, vars, storeVars
<1>2. tool[w].edit \in Edits
  BY HasRead DEF PutResults, UpdateResults
<1>3. Succeeded(tool[w], r)
  BY DEF Succeeded
<1>4. /\ acked' \subseteq Edits
      /\ ~Removes => \A n \in Masters : acked' \subseteq rows[n].body.edits
  BY <1>1, <1>2, <1>3, OneTool DEF ToolInv, EditsKept
<1>5. t \in ToolCall \cup {NoCall} /\ t.at = "idle" /\ tool' = [tool EXCEPT ![w] = t]
  BY DEF Finish, NoCall
<1>6. WritesWell(r, rows) /\ ToolKnows(t, r, rows) /\ ServedKinds(t)
  BY <1>5 DEF WritesWell, ToolKnows, ServedKinds, PutStages, DeleteStages,
     LookupStages, WriteStages, PutResults
<1>7. ~Succeeded(t, r) /\ ~WillDelete(t, r)
  BY <1>5 DEF Succeeded, UpdateResults, WillDelete
<1>8. req' = [req EXCEPT ![w] = r] /\ r \in Request /\ Carries(r, minted)
  BY <1>1, OneTool
<1> HIDE DEF t, r
<1> QED BY <1>1, <1>4, <1>5, <1>6, <1>7, <1>8, QuietStep

(* A call that ends with its last PUT, or makes another attempt.           *)
LEMMA DoneKeeps ==
    ASSUME ToolInv, NEW w \in Workers, UpdateDone(w) \/ CompleteDone(w) PROVE ToolInv'
<1>1. /\ tool[w].at \in UpdateResults /\ tool[w].at # "idle" /\ req[w].at = "idle"
      /\ UNCHANGED <<vars, served>> /\ Acknowledge(w)
      /\ IF req[w].out = "ok" THEN Finish(w) ELSE RetryOrFail(w, "must-match")
  BY DEF UpdateDone, CompleteDone, At, UpdateResults
<1>2. CASE req[w].out = "ok" /\ tool[w].kind \in PatchKinds
  BY <1>1, <1>2, AcknowledgeKeeps
<1>3. CASE ~(req[w].out = "ok" /\ tool[w].kind \in PatchKinds)
  <2>1. UNCHANGED acked
    BY <1>1, <1>3 DEF Acknowledge
  <2> QED BY <1>1, <2>1, FinishKeeps, RetryKeeps DEF vars, storeVars
<1> QED BY <1>2, <1>3

(* A CalDAV client's edit.                                                 *)
LEMMA DavEditKeeps == ASSUME ToolInv, NEW w \in Workers, DavEdit(w) PROVE ToolInv'
<1>1. PICK n \in Names, e \in Edits :
         /\ Live(n) /\ rows[n].body.uid = <<Task>>
         /\ req' = [req EXCEPT ![w] =
              Begin("put.findByUri", n, Patched(rows[n].body, e), MustMatch(rows[n].body))]
  BY DEF DavEdit
<1>2. /\ tool[w].at = "idle" /\ req[w].at = "idle"
      /\ UNCHANGED storeVars /\ UNCHANGED <<tool, acked, served>>
  BY DEF DavEdit, toolVars
<1> DEFINE b == rows[n].body
           r == Begin("put.findByUri", n, Patched(b, e), MustMatch(b))
           t == tool[w]
<1>3. RowFits(n, b) /\ SnappedBefore(rows, b)
  BY <1>1 DEF ToolInv, TablesFit
<1>4. b \in Bodies /\ IsMaster(b) /\ n \in Uris /\ n \notin SnapshotNames
  BY <1>1, <1>3 DEF RowFits, IsMaster
<1>5. /\ Patched(b, e) \in Bodies /\ IsMaster(Patched(b, e))
      /\ Patched(b, e).occ = b.occ /\ Patched(b, e).edits = b.edits \cup {e}
  BY <1>4, TaskBodies
<1>6. MustMatch(b) \in Condition /\ MustMatch(b) # MustNotExist
  BY <1>4, Conditions
<1>7. /\ r \in Request /\ Carries(r, minted)
      /\ r.at = "put.findByUri" /\ r.at \in PutStages /\ r.at \notin DeleteStages
      /\ r.name = n /\ r.body = Patched(b, e) /\ r.cond = MustMatch(b)
  BY <1>4, <1>5, <1>6, BeginPut
<1>8. SnappedBefore(rows, Patched(b, e))
  BY <1>3, <1>4, <1>5 DEF SnappedBefore
<1>9. req' = [req EXCEPT ![w] = r]
  BY <1>1
<1> HIDE DEF r
<1>10. WritesWell(r, rows)
  BY <1>4, <1>5, <1>7, <1>8 DEF WritesWell, RowFits, Replaces
<1>11. t = NoCall /\ t.at = "idle" /\ tool' = [tool EXCEPT ![w] = t]
  BY <1>2, OneTool
<1>12. PutFitsStage(t, r)
  BY <1>6, <1>7, <1>11 DEF PutFitsStage, UpdateResults
<1>13. ToolKnows(t, r, rows) /\ ServedKinds(t)
  BY <1>7, <1>11, <1>12 DEF ToolKnows, ServedKinds, LookupStages, WriteStages, PutResults
<1>14. ~Succeeded(t, r) /\ ~WillDelete(t, r)
  BY <1>11 DEF Succeeded, UpdateResults, WillDelete
<1> QED BY <1>2, <1>7, <1>9, <1>10, <1>11, <1>13, <1>14, OneTool, QuietStep

-----------------------------------------------------------------------------
(* The requests, round trip by round trip.                                 *)

(* A round trip that only reads: the request goes on, or is refused.       *)
LEMMA ReadKeeps ==
    ASSUME ToolInv, UNCHANGED storeVars, UNCHANGED <<acked, served>>, NEW w \in Workers,
           RequestsOK', req[w].at # "idle",
           NEW r \in Request, req' = [req EXCEPT ![w] = r],
           \/ r.at = "idle" /\ r.out = "refused"
           \/ /\ req[w].at \in PutStages /\ r.at \in PutStages
              /\ r.name = req[w].name /\ r.body = req[w].body /\ r.cond = req[w].cond
           \/ /\ req[w].at \in DeleteStages /\ r.at \in DeleteStages
              /\ r.name = req[w].name,
           tool' = IF tool[w].at # "idle" /\ req'[w].out = "refused"
                   THEN [tool EXCEPT ![w].refusedAt = req[w].at] ELSE tool
    PROVE  ToolInv'
<1> DEFINE q == tool[w]
           t == tool'[w]
<1>0. PutStages \cap DeleteStages = {} /\ "idle" \notin PutStages \cup DeleteStages
  BY DEF PutStages, DeleteStages
<1>1. /\ q \in ToolCall \cup {NoCall} /\ req[w] \in Request
      /\ WritesWell(req[w], rows) /\ ToolKnows(q, req[w], rows) /\ ServedKinds(q)
  BY OneTool
<1>2. /\ t \in ToolCall \cup {NoCall} /\ tool' = [tool EXCEPT ![w] = t]
      /\ t.at = q.at
      /\ t.at # "idle" => /\ t.kind = q.kind /\ t.name = q.name /\ t.body = q.body
                          /\ t.edit = q.edit
  <2>1. tool \in [Workers -> ToolCall \cup {NoCall}] /\ req[w].at \in Stages
    BY <1>1 DEF ToolInv, ToolTypeOK, Request
  <2>2. CASE tool' = tool
    BY <2>1, <2>2
  <2>3. CASE q.at # "idle" /\ tool' = [tool EXCEPT ![w].refusedAt = req[w].at]
    <3>1. q \in ToolCall
      BY <2>3, OneTool
    <3>2. t = [q EXCEPT !.refusedAt = req[w].at] /\ tool' = [tool EXCEPT ![w] = t]
      BY <2>1, <2>3
    <3>3. /\ [q EXCEPT !.refusedAt = req[w].at] \in ToolCall
          /\ [q EXCEPT !.refusedAt = req[w].at].at = q.at
          /\ [q EXCEPT !.refusedAt = req[w].at].kind = q.kind
          /\ [q EXCEPT !.refusedAt = req[w].at].name = q.name
          /\ [q EXCEPT !.refusedAt = req[w].at].body = q.body
          /\ [q EXCEPT !.refusedAt = req[w].at].edit = q.edit
      BY <2>1, <3>1 DEF ToolCall
    <3> QED BY <3>2, <3>3
  <2> QED BY <2>2, <2>3
<1>3. Carries(r, minted)
  <2>1. req'[w] = r /\ minted' = minted
    BY DEF ToolInv, RequestsOK, storeVars
  <2> QED BY <2>1 DEF RequestsOK, RequestsCarry
<1>4. WritesWell(r, rows)
  BY <1>0, <1>1 DEF WritesWell, Replaces
<1>5. ServedKinds(t)
  BY <1>1, <1>2 DEF ServedKinds
<1>6. r.at \in PutStages => PutFitsStage(t, r)
  BY <1>0, <1>1, <1>2 DEF ToolKnows, PutFitsStage, PutResults
<1>7. ToolKnows(t, r, rows)
  BY <1>0, <1>1, <1>2, <1>6 DEF ToolKnows, LookupStages, WriteStages, PutResults
<1>8. ~Succeeded(t, r) /\ (WillDelete(t, r) => WillDelete(q, req[w]))
  BY <1>0, <1>2 DEF Succeeded, WillDelete
<1> HIDE DEF t
<1> QED BY <1>1, <1>2, <1>3, <1>4, <1>5, <1>7, <1>8, OneTool, QuietStep

LEMMA ReadsKeep ==
    ASSUME ToolInv, NEW w \in Workers,
           PutFindByUri(w) \/ PutFindUid(w) \/ DeleteFindByUri(w),
           tool' = IF tool[w].at # "idle" /\ req'[w].out = "refused"
                   THEN [tool EXCEPT ![w].refusedAt = req[w].at] ELSE tool,
           UNCHANGED <<acked, served>>
    PROVE  ToolInv'
<1> DEFINE q == req[w]
<1>1. /\ q \in Request /\ StoreTypeOK /\ RequestsOK
      /\ WritesWell(q, rows) /\ ToolKnows(tool[w], q, rows)
  BY OneTool DEF ToolInv
<1>2. UNCHANGED storeVars
  BY DEF PutFindByUri, PutFindUid, DeleteFindByUri
<1>3. RequestsOK'
  BY <1>1, PutKeepsRequests, DeleteKeepsRequests DEF Put, Delete
<1>4. CASE Answer(w, "refused")
  <2>1. q.at # "idle"
    BY DEF PutFindByUri, PutFindUid, DeleteFindByUri
  <2> QED BY <1>2, <1>3, <1>4, <2>1, IdleRequest, ReadKeeps DEF Answer
<1>5. CASE \E found : PutFindByUri(w)
                      /\ req' = [req EXCEPT ![w].at = "put.findUid", ![w].found = found]
  <2>1. PICK found : req' = [req EXCEPT ![w].at = "put.findUid", ![w].found = found]
    BY <1>5
  <2> DEFINE r == [q EXCEPT !.at = "put.findUid", !.found = found]
  <2>2. req' = [req EXCEPT ![w] = r] /\ q.at = "put.findByUri"
    BY <1>5, <2>1 DEF PutFindByUri
  <2>3. r \in Request
    BY <1>3, <2>2 DEF RequestsOK, ToolInv
  <2>4. r.at = "put.findUid" /\ r.name = q.name /\ r.body = q.body /\ r.cond = q.cond
    BY <1>1 DEF Request
  <2> HIDE DEF r
  <2> QED BY <1>2, <1>3, <2>2, <2>3, <2>4, ReadKeeps DEF PutStages
<1>6. CASE PutFindUid(w) /\ req' = [req EXCEPT ![w].at = "put.save"]
  <2> DEFINE r == [q EXCEPT !.at = "put.save"]
  <2>1. req' = [req EXCEPT ![w] = r] /\ q.at = "put.findUid"
    BY <1>6 DEF PutFindUid
  <2>2. r \in Request
    BY <1>3, <2>1 DEF RequestsOK, ToolInv
  <2>3. r.at = "put.save" /\ r.name = q.name /\ r.body = q.body /\ r.cond = q.cond
    BY <1>1 DEF Request
  <2> HIDE DEF r
  <2> QED BY <1>2, <1>3, <2>1, <2>2, <2>3, ReadKeeps DEF PutStages
<1>7. CASE \E found : DeleteFindByUri(w)
                      /\ req' = [req EXCEPT ![w].at = "delete.write", ![w].found = found]
  <2>1. PICK found : req' = [req EXCEPT ![w].at = "delete.write", ![w].found = found]
    BY <1>7
  <2> DEFINE r == [q EXCEPT !.at = "delete.write", !.found = found]
  <2>2. req' = [req EXCEPT ![w] = r] /\ q.at = "delete.findByUri"
    BY <1>7, <2>1 DEF DeleteFindByUri
  <2>3. r \in Request
    BY <1>3, <2>2 DEF RequestsOK, ToolInv
  <2>4. r.at = "delete.write" /\ r.name = q.name
    BY <1>1 DEF Request
  <2> HIDE DEF r
  <2> QED BY <1>2, <1>3, <2>2, <2>3, <2>4, ReadKeeps DEF DeleteStages
<1> QED BY <1>4, <1>5, <1>6, <1>7 DEF PutFindByUri, PutFindUid, DeleteFindByUri, Goto

(* What readers see of a resource does not change.                         *)
SameToReaders(m) == /\ rows'[m].is = "live" <=> Live(m)
                    /\ Live(m) => rows'[m] = rows[m]

(* The batch of a PUT: the body is stored and the client is told so, or    *)
(* nothing that readers see changes and the client is told that.           *)
LEMMA SaveDoes ==
    ASSUME ToolInv, NEW w \in Workers, PutSave(w)
    PROVE  /\ StoreInv' /\ RequestsOK' /\ minted \subseteq minted'
           /\ \A m \in Names \ {req[w].name} : SameToReaders(m)
           /\ \E out \in {"ok", "conflict", "error"} :
                 /\ req' = [req EXCEPT ![w] = Idle(out)]
                 /\ out # "ok" => SameToReaders(req[w].name)
                 /\ out = "ok" =>
                       /\ rows'[req[w].name] = LiveRow(req[w].body)
                       /\ req[w].cond = MustNotExist => ~Live(req[w].name)
                       /\ \A b : req[w].cond = MustMatch(b) =>
                             Live(req[w].name) /\ rows[req[w].name].body = b
<1> DEFINE r == req[w]
           n == r.name
           kind == IF r.found = NoBody THEN "created" ELSE "modified"
           pre == PutPrecondition(r.cond, r.found)
<1>1. /\ r \in Request /\ Carries(r, minted) /\ StoreInv /\ RequestsOK
      /\ WritesWell(r, rows) /\ present
  BY OneTool DEF ToolInv
<1>2. PICK out \in {"ok", "conflict", "error"} :
         /\ saveResource(n, r.body, kind, pre, out)
         /\ Answer(w, out)
         /\ UNCHANGED present
  BY DEF PutSave
<1>3. r.at = "put.save"
  BY DEF PutSave
<1>4. /\ n \in Known /\ n \in Names /\ r.body \in Bodies
      /\ kind \in {"created", "modified"} /\ CondHolds(r.cond, r.found)
  BY <1>1, <1>3 DEF Carries, Known, Names, StoreInv, StoreTypeOK
<1>5. pre \in Precondition
  BY <1>1 DEF PutPrecondition, Precondition, Overwrite, Request
<1>6. StoreInv' /\ minted \subseteq minted'
  BY <1>1, <1>2, <1>4, <1>5, SaveKeepsStore
<1>7. RequestsOK'
  BY <1>2, <1>6, <1>1, AnswerOK
<1>8. /\ r.cond = MustNotExist => pre.kind = "create"
      /\ \A b : r.cond = MustMatch(b) => pre.kind = "match" /\ pre.etag = b
      /\ pre.kind \in {"create", "match"}
  <2>1. /\ r.cond = MustNotExist => r.found = NoBody /\ r.cond.kind = "must-not-exist"
        /\ \A b : r.cond = MustMatch(b) => r.cond.kind = "must-match" /\ r.found = b
    <3>1. ASSUME r.cond = MustNotExist
          PROVE  r.found = NoBody /\ r.cond.kind = "must-not-exist"
      BY <1>4, <3>1 DEF CondHolds, MustNotExist
    <3>2. ASSUME NEW b, r.cond = MustMatch(b)
          PROVE  r.cond.kind = "must-match" /\ r.found = b
      <4>1. r.cond.kind = "must-match" /\ r.cond.etags = {b}
        BY <3>2 DEF MustMatch
      <4> QED BY <1>4, <4>1 DEF CondHolds
    <3> QED BY <3>1, <3>2
  <2>2. r.cond = MustNotExist \/ \E b : r.cond = MustMatch(b)
    BY <1>1, <1>3 DEF WritesWell, PutStages, Replaces
  <2> QED BY <2>1, <2>2 DEF PutPrecondition
<1>9. /\ \A m \in Names \ {n} : SameToReaders(m)
      /\ out # "ok" => SameToReaders(n)
      /\ out = "ok" => /\ rows'[n] = LiveRow(r.body)
                       /\ SaveHits(n, pre)
                       /\ pre.kind = "create" => ~Live(n)
  <2>1. CASE out = "conflict" /\ UNCHANGED <<counter, log, rows, minted>>
    BY <2>1 DEF SameToReaders, Live
  <2>2. ASSUME ~SaveAborts(n, r.body, pre),
               out = Verdict(n, pre, SaveHits(n, pre)),
               NEW new \in Mint(Ghost(n)),
               rows' = IF SaveHits(n, pre)
                       THEN [Evacuated(n, new) EXCEPT ![n] = LiveRow(r.body)]
                       ELSE Evacuated(n, new)
        PROVE  /\ \A m \in Names \ {n} : SameToReaders(m)
               /\ out # "ok" => SameToReaders(n)
               /\ out = "ok" => /\ rows'[n] = LiveRow(r.body)
                                /\ SaveHits(n, pre)
                                /\ pre.kind = "create" => ~Live(n)
    <3>1. /\ rows'[n] = IF SaveHits(n, pre) THEN LiveRow(r.body)
                        ELSE IF Ghost(n) THEN NoRow ELSE rows[n]
          /\ \A m \in Names \ {n} : rows'[m] = IF m \in new THEN rows[n] ELSE rows[m]
          /\ \A m \in new : Ghost(n) /\ rows[m] = NoRow
      BY <1>1, <1>4, <2>2, SaveRows DEF StoreInv
    <3>2. \A m \in Names \ {n} : SameToReaders(m)
      BY <3>1 DEF SameToReaders, Live, Ghost, NoRow
    <3>3. out = "ok" <=> SaveHits(n, pre)
      BY <1>1, <1>8, <2>2 DEF Verdict, BumpGate, SaveHits
    <3>4. ~SaveHits(n, pre) => SameToReaders(n)
      BY <3>1 DEF SameToReaders, Live, Ghost, NoRow
    <3> QED BY <3>1, <3>2, <3>3, <3>4, <2>2 DEF SaveAborts
  <2> QED BY <1>2, <2>1, <2>2 DEF saveResource
<1>10. req' = [req EXCEPT ![w] = Idle(out)]
  BY <1>2 DEF Answer
<1> QED BY <1>6, <1>7, <1>8, <1>9, <1>10 DEF SaveHits

(* Snapshots stay: nothing but a PUT of the task or of a new snapshot, or  *)
(* a DELETE of the task, changes what readers see.                         *)
LEMMA SnapshotsStay ==
    ASSUME ToolInv, NEW n \in Names,
           \A m \in Names \ {n} : SameToReaders(m),
           \/ SameToReaders(n) \/ ~Live(n) \/ n \notin SnapshotNames
    PROVE  \A k : Snapped(rows, k) => Snapped(rows', k)
<1> SUFFICES ASSUME NEW k, NEW m \in Names,
                    Live(m), rows[m].body.uid = <<Task, k>>, rows[m].body.done
             PROVE  Snapped(rows', k)
  BY DEF Snapped, Live
<1>1. ~IsMaster(rows[m].body)
  <2>1. <<Task, k>> # <<Task>>
    <3>1. Len(<<Task, k>>) = 2 /\ Len(<<Task>>) = 1
      OBVIOUS
    <3> QED BY <3>1
  <2> QED BY <2>1 DEF IsMaster
<1>2. m \in SnapshotNames
  BY <1>1 DEF ToolInv, TablesFit, RowFits
<1>3. SameToReaders(m)
  BY <1>2
<1> QED BY <1>3 DEF SameToReaders, Snapped

(* Once a write has been answered, the tools know what they should.        *)
LEMMA AnswerKeeps ==
    ASSUME ToolInv, StoreInv', RequestsOK', NEW w \in Workers,
           NEW out \in {"ok", "conflict", "error"}, req' = [req EXCEPT ![w] = Idle(out)],
           UNCHANGED toolVars, req[w].at # "idle",
           \A k : Snapped(rows, k) => Snapped(rows', k),
           tool[w].at = "complete.snapshot.done" /\ out = "ok" =>
              Snapped(rows', tool[w].body.occ)
    PROVE  ToolTypeOK' /\ ToolsKnow'
<1> DEFINE r == Idle(out)
<1>1. r.at = "idle" /\ r.out = out
  BY IdleRequest
<1>2. /\ req' \in [Workers -> Request] /\ req'[w] = r
      /\ \A v \in Workers \ {w} : req'[v] = req[v]
      /\ UNCHANGED <<tool, acked, served>>
  BY DEF ToolInv, RequestsOK, toolVars
<1> HIDE DEF r
<1>3. ToolTypeOK'
  BY <1>2 DEF ToolInv, ToolTypeOK
<1>4. ASSUME NEW v \in Workers
      PROVE  /\ WritesWell(req'[v], rows') /\ ToolKnows(tool[v], req'[v], rows')
             /\ ServedKinds(tool[v])
  <2>1. /\ WritesWell(req[v], rows) /\ ToolKnows(tool[v], req[v], rows)
        /\ ServedKinds(tool[v])
    BY OneTool
  <2>2. WritesWell(req[v], rows') /\ ToolKnows(tool[v], req[v], rows')
    BY <2>1, KnowledgeStays
  <2>3. CASE v # w
    BY <1>2, <2>1, <2>2, <2>3
  <2>4. CASE v = w
    <3>1. WritesWell(r, rows')
      BY <1>1 DEF WritesWell, PutStages
    <3>2. ToolKnows(tool[w], r, rows')
      BY <1>1, <2>2, <2>4 DEF ToolKnows, PutStages, DeleteStages
    <3> QED BY <1>2, <2>1, <2>4, <3>1, <3>2
  <2> QED BY <2>3, <2>4
<1>5. ToolsKnow'
  BY <1>2, <1>4 DEF ToolsKnow, ServedKinds
<1> QED BY <1>3, <1>5

(* A batch after which readers see what they saw before.                   *)
LEMMA InvisibleKeeps ==
    ASSUME ToolInv, \A m \in Names : SameToReaders(m), NEW w \in Workers,
           NEW out \in {"conflict", "error"}, req' = [req EXCEPT ![w] = Idle(out)],
           UNCHANGED toolVars, \A k : Snapped(rows, k) => Snapped(rows', k)
    PROVE  TablesFit' /\ EditsKept' /\ CopiesOutnumberDeletions'
<1>1. /\ req'[w].at = "idle" /\ req'[w].out # "ok"
      /\ \A v \in Workers \ {w} : req'[v] = req[v]
      /\ UNCHANGED <<tool, acked, served>>
  BY IdleRequest DEF ToolInv, RequestsOK, toolVars
<1>2. TablesFit'
  BY DEF ToolInv, TablesFit, SnappedBefore, SameToReaders, Live
<1>3. Masters' = Masters /\ \A n \in Masters : rows'[n] = rows[n]
  BY DEF Masters, SameToReaders, Live
<1>4. EditsKept'
  <2>1. \A v \in Workers : Succeeded(tool[v], req'[v]) => Succeeded(tool[v], req[v])
    BY <1>1 DEF Succeeded
  <2> QED BY <1>1, <1>3, <2>1 DEF ToolInv, EditsKept, Removes
<1>5. CopiesOutnumberDeletions'
  <2>1. Deleters' \subseteq Deleters
    BY <1>1 DEF Deleters, WillDelete, DeleteStages
  <2> QED BY <1>1, <1>3, <2>1, FS_Subset, FS_CardinalityType
          DEF ToolInv, CopiesOutnumberDeletions
<1> QED BY <1>2, <1>4, <1>5

LEMMA PutSaveKeeps ==
    ASSUME ToolInv, NEW w \in Workers, PutSave(w), UNCHANGED toolVars
    PROVE  ToolInv'
<1> DEFINE t == tool[w]
           r == req[w]
           n == r.name
           b == r.body
<1>1. PICK out \in {"ok", "conflict", "error"} :
         /\ req' = [req EXCEPT ![w] = Idle(out)]
         /\ out # "ok" => SameToReaders(n)
         /\ out = "ok" => /\ rows'[n] = LiveRow(b)
                          /\ r.cond = MustNotExist => ~Live(n)
                          /\ \A c : r.cond = MustMatch(c) => Live(n) /\ rows[n].body = c
  BY SaveDoes
<1>2. /\ StoreInv' /\ RequestsOK' /\ minted \subseteq minted'
      /\ \A m \in Names \ {n} : SameToReaders(m)
  BY SaveDoes
<1>3. /\ r.at = "put.save" /\ r.at \in PutStages /\ r.at # "idle"
      /\ WritesWell(r, rows) /\ ToolKnows(t, r, rows) /\ ServedKinds(t)
      /\ n \in Names
  BY OneTool DEF PutSave, PutStages, Carries, ToolInv, StoreInv, StoreTypeOK, Names
<1>4. /\ RowFits(n, b) /\ SnappedBefore(rows, b) /\ PutFitsStage(t, r)
      /\ r.cond = MustNotExist \/ \E c \in Bodies : Replaces(r, c)
  BY <1>3 DEF WritesWell, ToolKnows
<1>5. out = "ok" => ~Live(n) \/ (Live(n) /\ Replaces(r, rows[n].body))
  BY <1>1, <1>4 DEF Replaces
<1>6. \A k : Snapped(rows, k) => Snapped(rows', k)
  BY <1>1, <1>2, <1>3, <1>4, <1>5, SnapshotsStay DEF RowFits, Replaces
<1>7. ToolTypeOK' /\ ToolsKnow'
  <2>1. ASSUME t.at = "complete.snapshot.done", out = "ok"
        PROVE  Snapped(rows', t.body.occ)
    <3>1. b.uid = <<Task, t.body.occ>> /\ t.body.occ \in Nat
      <4>1. t.body \in Bodies /\ IsMaster(t.body)
        BY <2>1, HasRead DEF PutResults
      <4> QED BY <1>4, <2>1, <4>1, TaskBodies, MaxOccAssumption DEF PutFitsStage
    <3>2. b.done
      BY <1>4, <3>1, Uids DEF RowFits, IsMaster
    <3> QED BY <1>1, <1>3, <2>1, <3>1, <3>2 DEF Snapped, LiveRow
  <2> QED BY <1>1, <1>2, <1>3, <1>6, <2>1, AnswerKeeps
<1>8. CASE out # "ok"
  BY <1>1, <1>2, <1>3, <1>6, <1>7, <1>8, InvisibleKeeps DEF ToolInv
<1>9. CASE out = "ok"
  <2>1. /\ rows'[n].is = "live" /\ rows'[n].body = b
        /\ req'[w].at = "idle" /\ req'[w].out = "ok"
        /\ \A v \in Workers \ {w} : req'[v] = req[v]
        /\ UNCHANGED <<tool, acked, served>>
    BY <1>1, <1>9, IdleRequest DEF LiveRow, ToolInv, RequestsOK, toolVars
  <2>2. TablesFit'
    <3> SUFFICES ASSUME NEW m \in Names, rows'[m].is = "live"
                 PROVE  RowFits(m, rows'[m].body) /\ SnappedBefore(rows', rows'[m].body)
      BY DEF TablesFit, Live
    <3>1. CASE m = n
      BY <1>4, <1>6, <2>1, <3>1 DEF SnappedBefore
    <3>2. CASE m # n
      <4>1. Live(m) /\ rows'[m] = rows[m]
        BY <1>2, <3>2 DEF SameToReaders
      <4> QED BY <1>6, <4>1 DEF ToolInv, TablesFit, SnappedBefore
    <3> QED BY <3>1, <3>2
  <2>3. /\ Masters' \ {n} = Masters \ {n}
        /\ \A m \in Masters \ {n} : rows'[m] = rows[m]
    BY <1>2 DEF Masters, SameToReaders, Live
  <2>4. n \in Masters' <=> IsMaster(b)
    BY <1>3, <2>1 DEF Masters, Live, IsMaster
  <2>5. CASE t.at = "move.delete"
    <3>1. IsMaster(b) /\ ~Live(n)
      BY <1>1, <1>4, <1>9, <2>5 DEF PutFitsStage
    <3>2. Masters' = Masters \cup {n} /\ n \notin Masters
      BY <2>3, <2>4, <3>1 DEF Masters
    <3>3. EditsKept'
      BY <1>3, <2>1, <2>5 DEF EditsKept, Removes, ServedKinds
    <3>4. Deleters' \subseteq Deleters \cup {w}
      BY <2>1 DEF Deleters
    <3>5. CopiesOutnumberDeletions'
      <4> SUFFICES ASSUME "delete" \notin served'
                   PROVE  /\ IsFiniteSet(Masters') /\ IsFiniteSet(Deleters')
                          /\ Cardinality(Deleters') < Cardinality(Masters')
        BY DEF CopiesOutnumberDeletions
      <4>1. /\ IsFiniteSet(Masters) /\ IsFiniteSet(Deleters)
            /\ Cardinality(Deleters) < Cardinality(Masters)
        BY <2>1 DEF ToolInv, CopiesOutnumberDeletions
      <4>2. IsFiniteSet(Masters') /\ Cardinality(Masters') = Cardinality(Masters) + 1
        BY <3>2, <4>1, FS_AddElement
      <4>3. /\ IsFiniteSet(Deleters \cup {w})
            /\ Cardinality(Deleters \cup {w}) <= Cardinality(Deleters) + 1
        <5>1. Cardinality(Deleters) \in Nat
          BY <4>1, FS_CardinalityType
        <5>2. /\ IsFiniteSet(Deleters \cup {w})
              /\ Cardinality(Deleters \cup {w})
                   = IF w \in Deleters THEN Cardinality(Deleters)
                     ELSE Cardinality(Deleters) + 1
          BY <4>1, FS_AddElement
        <5> QED BY <5>1, <5>2
      <4>4. /\ IsFiniteSet(Deleters')
            /\ Cardinality(Deleters') <= Cardinality(Deleters \cup {w})
        BY <3>4, <4>3, FS_Subset
      <4> QED BY <4>1, <4>2, <4>3, <4>4, FS_CardinalityType
    <3> QED BY <1>2, <1>7, <2>2, <3>3, <3>5 DEF ToolInv
  <2>6. CASE t.at # "move.delete"
    <3>1. IsMaster(b) => Live(n) /\ Replaces(r, rows[n].body)
      BY <1>1, <1>4, <1>9, <2>6 DEF PutFitsStage, Replaces
    <3>2. ~IsMaster(b) => ~Live(n)
      BY <1>1, <1>4, <1>9 DEF Replaces
    <3>3. n \in Masters <=> IsMaster(b)
      BY <1>3, <3>1, <3>2 DEF Masters, Replaces, IsMaster
    <3>4. Masters' = Masters
      BY <2>3, <2>4, <3>3
    <3>5. \A m \in Masters : rows[m].body.edits \subseteq rows'[m].body.edits
      BY <2>1, <2>3, <3>1, <3>3 DEF Replaces
    <3>6. EditsKept'
      <4> SUFFICES ASSUME ~Removes, NEW m \in Masters
                   PROVE  /\ acked \subseteq rows'[m].body.edits
                          /\ \A v \in Workers : Succeeded(tool[v], req'[v])
                                => tool[v].edit \in rows'[m].body.edits
        BY <2>1, <3>4 DEF EditsKept, Removes, ToolInv
      <4>1. ASSUME NEW v \in Workers, Succeeded(tool[v], req'[v])
            PROVE  tool[v].edit \in rows'[m].body.edits
        <5>1. CASE v # w
          BY <2>1, <3>5, <4>1, <5>1 DEF ToolInv, EditsKept
        <5>2. CASE v = w
          <6>1. IsMaster(b) /\ t.edit \in b.edits
            BY <1>4, <4>1, <5>2 DEF PutFitsStage, Succeeded
          <6>2. m = n
            BY <3>3, <6>1 DEF ToolInv, EditsKept
          <6> QED BY <2>1, <5>2, <6>1, <6>2
        <5> QED BY <5>1, <5>2
      <4>2. acked \subseteq rows'[m].body.edits
        BY <3>5 DEF ToolInv, EditsKept
      <4> QED BY <4>1, <4>2
    <3>7. Deleters' \subseteq Deleters
      BY <2>1, <2>6 DEF Deleters, WillDelete, DeleteStages
    <3>8. CopiesOutnumberDeletions'
      BY <2>1, <3>4, <3>7, FS_Subset, FS_CardinalityType
         DEF ToolInv, CopiesOutnumberDeletions
    <3> QED BY <1>2, <1>7, <2>2, <3>6, <3>8 DEF ToolInv
  <2> QED BY <2>5, <2>6
<1> QED BY <1>8, <1>9

LEMMA DeleteWriteKeeps ==
    ASSUME ToolInv, NEW w \in Workers, DeleteWrite(w), UNCHANGED toolVars
    PROVE  ToolInv'
<1> DEFINE t == tool[w]
           r == req[w]
           n == r.name
           pre == DeletePrecondition(r.cond, r.found)
<1>1. /\ r.at = "delete.write" /\ r.at \in DeleteStages /\ r.at # "idle"
      /\ ToolKnows(t, r, rows) /\ ServedKinds(t) /\ r \in Request /\ Carries(r, minted)
      /\ StoreInv /\ RequestsOK
  BY OneTool DEF DeleteWrite, DeleteStages, ToolInv
<1>2. PICK out \in {"ok", "conflict", "error"} :
         /\ deleteResource(n, pre, out) /\ Answer(w, out)
         /\ UNCHANGED <<present, minted>>
  BY DEF DeleteWrite
<1>3. /\ n \in Known /\ n \in Names /\ n \notin SnapshotNames
      /\ t.at = "delete.done" /\ n = t.name
  BY <1>1 DEF Carries, Known, ToolKnows, StoreInv, StoreTypeOK, Names
<1>4. pre \in Precondition
  BY <1>1 DEF DeletePrecondition, Precondition, Overwrite, Request
<1>5. StoreInv' /\ RequestsOK'
  BY <1>1, <1>2, <1>3, <1>4, DeleteKeepsStore, AnswerOK
<1>6. /\ \A m \in Names \ {n} : rows'[m] = rows[m]
      /\ rows'[n].is = "live" => rows'[n] = rows[n]
  BY <1>1, <1>2, <1>3 DEF deleteResource, StoreInv, StoreTypeOK, Row
<1>7. \A m \in Names \ {n} : SameToReaders(m)
  BY <1>6 DEF SameToReaders, Live
<1>8. \A k : Snapped(rows, k) => Snapped(rows', k)
  BY <1>3, <1>7, SnapshotsStay
<1>9. req' = [req EXCEPT ![w] = Idle(out)]
  BY <1>2 DEF Answer
<1>10. ToolTypeOK' /\ ToolsKnow'
  BY <1>1, <1>3, <1>5, <1>8, <1>9, AnswerKeeps
<1>11. TablesFit'
  BY <1>3, <1>6, <1>8 DEF ToolInv, TablesFit, SnappedBefore, Live
<1>12. Removes /\ UNCHANGED <<tool, acked, served>>
  BY <1>1, <1>3 DEF ServedKinds, Removes, toolVars
<1>13. EditsKept'
  BY <1>12 DEF EditsKept, Removes
<1>14. CopiesOutnumberDeletions'
  <2> SUFFICES ASSUME "delete" \notin served'
               PROVE  /\ IsFiniteSet(Masters') /\ IsFiniteSet(Deleters')
                      /\ Cardinality(Deleters') < Cardinality(Masters')
    BY DEF CopiesOutnumberDeletions
  <2>1. /\ IsFiniteSet(Masters) /\ IsFiniteSet(Deleters)
        /\ Cardinality(Deleters) < Cardinality(Masters)
        /\ Cardinality(Masters) \in Nat /\ Cardinality(Deleters) \in Nat
    BY <1>12, FS_CardinalityType DEF ToolInv, CopiesOutnumberDeletions
  <2>2. w \in Deleters
    BY <1>1, <1>3 DEF Deleters, WillDelete
  <2>3. Deleters' \subseteq Deleters \ {w}
    <3>1. /\ req'[w].at = "idle"
          /\ \A v \in Workers \ {w} : req'[v] = req[v]
      BY <1>1, <1>9, IdleRequest DEF RequestsOK
    <3>2. w \notin Deleters'
      BY <1>3, <1>12, <3>1 DEF Deleters, WillDelete, DeleteStages
    <3> QED BY <1>12, <3>1, <3>2 DEF Deleters
  <2>4. /\ IsFiniteSet(Deleters \ {w})
        /\ Cardinality(Deleters \ {w}) = Cardinality(Deleters) - 1
    BY <2>1, <2>2, FS_RemoveElement
  <2>5. /\ IsFiniteSet(Deleters')
        /\ Cardinality(Deleters') <= Cardinality(Deleters) - 1
        /\ Cardinality(Deleters') \in Nat
    BY <2>3, <2>4, FS_Subset, FS_CardinalityType
  <2>6. Masters \ {n} \subseteq Masters' /\ Masters' \subseteq Masters
    BY <1>6 DEF Masters, Live
  <2>7. /\ IsFiniteSet(Masters \ {n})
        /\ Cardinality(Masters \ {n}) >= Cardinality(Masters) - 1
    <3>1. /\ IsFiniteSet(Masters \ {n})
          /\ Cardinality(Masters \ {n}) = IF n \in Masters THEN Cardinality(Masters) - 1
                                          ELSE Cardinality(Masters)
      BY <2>1, FS_RemoveElement
    <3> QED BY <2>1, <3>1
  <2>8. /\ IsFiniteSet(Masters') /\ Cardinality(Masters') \in Nat
    BY <2>1, <2>6, FS_Subset, FS_CardinalityType
  <2>9. /\ Cardinality(Masters \ {n}) <= Cardinality(Masters')
        /\ Cardinality(Masters \ {n}) \in Nat
    BY <2>6, <2>7, <2>8, FS_Subset, FS_CardinalityType
  <2> QED BY <2>1, <2>5, <2>7, <2>8, <2>9
<1> QED BY <1>5, <1>10, <1>11, <1>13, <1>14 DEF ToolInv

-----------------------------------------------------------------------------
(* The invariant.                                                          *)

LEMMA InitToolInv == ToolInit => ToolInv
<1> SUFFICES ASSUME ToolInit PROVE ToolInv
  OBVIOUS
<1>1. PICK c \in Collections, n \in Uris, recurs \in BOOLEAN :
         LET b == [coll |-> c, uid |-> <<Task>>, occ |-> 1, rrule |-> recurs,
                   done |-> FALSE, edits |-> {}]
         IN  /\ n[1] = c /\ Len(n[2]) = 1
             /\ rows = [m \in Names |-> IF m = n THEN LiveRow(b) ELSE NoRow]
             /\ log = {[token |-> 1, uri |-> n, kind |-> "created"]}
  BY DEF ToolInit
<1> DEFINE b == [coll |-> c, uid |-> <<Task>>, occ |-> 1, rrule |-> recurs,
                 done |-> FALSE, edits |-> {}]
           rec == [token |-> 1, uri |-> n, kind |-> "created"]
<1>2. b \in Bodies /\ IsMaster(b) /\ b.occ = 1 /\ b.edits = {}
  BY BodiesAssumption, MaxOccAssumption DEF TaskBody, TaskUids, IsMaster
<1>3. /\ present = TRUE /\ counter = 1 /\ minted = {} /\ log = {rec}
      /\ rows = [m \in Names |-> IF m = n THEN LiveRow(b) ELSE NoRow]
      /\ req = [w \in Workers |-> Idle("none")]
      /\ tool = [w \in Workers |-> NoCall] /\ acked = {} /\ Len(n[2]) = 1
  BY <1>1 DEF ToolInit
<1> HIDE DEF b
<1>4. /\ n \in Names /\ n \in Uris /\ rows \in [Names -> Row]
      /\ rows[n].is = "live" /\ rows[n].body = b
      /\ \A m \in Names \ {n} : rows[m] = NoRow /\ rows[m].is # "live"
  BY <1>2, <1>3 DEF Names, Row, LiveRow, NoRow
<1>5. rec \in Change /\ rec.token = 1 /\ rec.uri = n /\ rec.kind # "deleted"
  BY <1>4 DEF Change, Kinds
<1>6. StoreInv
  <2>1. StoreTypeOK
    BY <1>3, <1>4, <1>5 DEF StoreTypeOK
  <2>2. FreshUnused
    BY <1>4, FreshAssumption DEF FreshUnused, Names
  <2>3. LogContiguous
    BY <1>3, <1>5 DEF LogContiguous
  <2>4. LiveIsLogged
    BY <1>3, <1>4, <1>5 DEF LiveIsLogged, Live
  <2>5. UidsUnique
    BY <1>4 DEF UidsUnique, Live
  <2> QED BY <1>3, <2>1, <2>2, <2>3, <2>4, <2>5 DEF StoreInv
<1>7. /\ RequestsOK
      /\ \A w \in Workers : req[w].at = "idle" /\ req[w].out = "none"
  BY <1>3, IdleRequest DEF RequestsOK, RequestsCarry
<1>8. \A w \in Workers : tool[w] = NoCall /\ tool[w].at = "idle"
  BY <1>3 DEF NoCall
<1>9. ToolTypeOK
  BY <1>3 DEF ToolTypeOK
<1>10. n \notin SnapshotNames
  <2> SUFFICES ASSUME NEW d \in Bodies, d.uid # <<Task>>, n = UriOf(d)
               PROVE  FALSE
    BY DEF SnapshotNames
  <2>1. d.uid \in TaskUids /\ n[2] = d.uid
    BY BodiesAssumption DEF TaskBody, UriOf
  <2>2. PICK k \in 1..(MaxOcc - 1) : d.uid = <<Task, k>>
    BY <2>1 DEF TaskUids
  <2>3. Len(n[2]) = 2
    BY <2>1, <2>2
  <2> QED BY <1>3, <2>3
<1>11. TablesFit
  BY <1>2, <1>4, <1>10 DEF TablesFit, RowFits, SnappedBefore, Live
<1>12. ToolsKnow
  BY <1>7, <1>8 DEF ToolsKnow, WritesWell, ToolKnows, ServedKinds, PutStages, DeleteStages,
     LookupStages, WriteStages, PutResults
<1>13. Masters = {n}
  BY <1>2, <1>4 DEF Masters, Live, IsMaster
<1>14. EditsKept
  BY <1>3, <1>8, <1>13 DEF EditsKept, Succeeded, UpdateResults
<1>15. CopiesOutnumberDeletions
  <2>1. Deleters = {}
    BY <1>8 DEF Deleters, WillDelete
  <2>2. IsFiniteSet({}) /\ Cardinality({}) = 0
    BY FS_EmptySet
  <2>3. IsFiniteSet({n}) /\ Cardinality({n}) = 1
    BY FS_Singleton
  <2> QED BY <1>13, <2>1, <2>2, <2>3 DEF CopiesOutnumberDeletions
<1> QED BY <1>6, <1>7, <1>9, <1>11, <1>12, <1>14, <1>15 DEF ToolInv

LEMMA NextToolInv == ToolInv /\ [ToolNext]_allVars => ToolInv'
<1> SUFFICES ASSUME ToolInv, [ToolNext]_allVars PROVE ToolInv'
  OBVIOUS
<1>1. CASE UNCHANGED allVars
  BY <1>1 DEF allVars, toolVars, vars, ToolInv, StoreInv, StoreTypeOK, FreshUnused,
     LogContiguous, LiveIsLogged, UidsUnique, RequestsOK, RequestsCarry, ToolTypeOK,
     TablesFit, ToolsKnow, ServedKinds, EditsKept, Removes, Masters, Deleters,
     CopiesOutnumberDeletions, Live
<1>2. ASSUME NEW w \in Workers, ToolStep(w) PROVE ToolInv'
  <2>1. ASSUME RequestStep(w) PROVE ToolInv'
    <3>1. CASE PutSave(w) \/ DeleteWrite(w)
      <4>1. PICK out \in {"ok", "conflict", "error"} : req' = [req EXCEPT ![w] = Idle(out)]
        BY <3>1 DEF PutSave, DeleteWrite, Answer
      <4>2. req'[w].out # "refused"
        BY <4>1, IdleRequest DEF ToolInv, RequestsOK
      <4>3. UNCHANGED toolVars
        BY <2>1, <4>2 DEF RequestStep, toolVars
      <4> QED BY <3>1, <4>3, PutSaveKeeps, DeleteWriteKeeps
    <3>2. CASE PutFindByUri(w) \/ PutFindUid(w) \/ DeleteFindByUri(w)
      BY <2>1, <3>2, ReadsKeep DEF RequestStep
    <3> QED BY <2>1, <3>1, <3>2 DEF RequestStep
  <2> QED BY <1>2, <2>1, ArriveKeeps, FindUriKeeps, FindByUriKeeps, UpdatePutKeeps,
             DoneKeeps, CompleteSnapshotKeeps, CompleteMasterKeeps,
             MovePutKeeps, MoveDeleteKeeps, DeleteTodoKeeps,
             DeleteDoneKeeps, DavEditKeeps, ToolCrashKeeps DEF ToolStep
<1> QED BY <1>1, <1>2 DEF ToolNext

(* However tools, retries, clients and deaths interleave, this holds.      *)
THEOREM ToolsInductive == ToolSpec => []ToolInv
BY InitToolInv, NextToolInv, PTL DEF ToolSpec

(* A task is never lost by moving it: unless somebody deletes it, it is in *)
(* at least one of the collections.                                        *)
THEOREM MovesLoseNothing == ToolSpec => []MovedTaskExists
<1>1. ToolInv => MovedTaskExists
  BY FS_EmptySet, FS_CardinalityType
     DEF ToolInv, CopiesOutnumberDeletions, MovedTaskExists
<1> QED BY <1>1, ToolsInductive, PTL

(* An acknowledged edit is in the task as long as nobody moves or deletes  *)
(* it, whatever else is written.                                           *)
THEOREM AcknowledgedEditsSurvive == ToolSpec => []EditsSurvive
<1>1. ToolInv => EditsSurvive
  BY DEF ToolInv, EditsKept, Removes, EditsSurvive
<1> QED BY <1>1, ToolsInductive, PTL

(* Every occurrence the task has moved past has its completed snapshot.    *)
THEOREM NoOccurrenceIsSkipped == ToolSpec => []NoOccurrenceSkipped
<1>1. ToolInv => NoOccurrenceSkipped
  BY DEF ToolInv, TablesFit, SnappedBefore, Snapped, IsMaster, Masters,
     NoOccurrenceSkipped, Live
<1> QED BY <1>1, ToolsInductive, PTL
=============================================================================
