---------------------------- MODULE CalendarStore ----------------------------
(***************************************************************************)
(* The D1 (SQLite) tables behind one calendar collection, and the batches  *)
(* that infrastructure/d1/repositories.ts runs against them.               *)
(*                                                                         *)
(*   calendar_collections  one row: present, counter (sync_counter)        *)
(*   calendar_objects      rows: resource name -> live, ghost or no row    *)
(*   sync_changes          log: the set of change records, keyed by token  *)
(*                                                                         *)
(* db.batch(...) is one SQLite transaction: its statements run in order    *)
(* and either all take effect or none does, so a batch is one action here. *)
(* A ghost is a soft-deleted row (deleted_at IS NOT NULL).  The ETag of a  *)
(* resource is a hash of its iCalendar text, so a body is its own ETag.    *)
(***************************************************************************)
EXTENDS Naturals

CONSTANTS
    Uris,       \* resource names chosen by clients and tools
    Fresh,      \* names the server mints (timestamp and random suffix)
    Bodies,     \* iCalendar texts, and so also the ETags
    NoBody,     \* "no body": findByUri returned null
    UidOf       \* the UID written in a body

Names == Uris \cup Fresh

ASSUME NoBodyAssumption == NoBody \notin Bodies
(* Nobody guesses a name before the server has minted it.                  *)
ASSUME FreshAssumption == Uris \cap Fresh = {}

VARIABLES present, counter, log, rows, minted

storeVars == <<present, counter, log, rows, minted>>

Kinds == {"created", "modified", "deleted"}
Row == [is: {"none", "live", "ghost"}, body: Bodies \cup {NoBody}]
NoRow == [is |-> "none", body |-> NoBody]
LiveRow(b) == [is |-> "live", body |-> b]
Change == [token: Nat \ {0}, uri: Names, kind: Kinds]

(* How strongly a write is guarded (ports: ResourceWritePrecondition).     *)
Precondition == [kind: {"create", "match", "overwrite"},
                 etag: Bodies \cup {NoBody}]

StoreTypeOK ==
    /\ present \in BOOLEAN
    /\ counter \in Nat
    /\ log \subseteq Change
    /\ rows \in [Names -> Row]
    /\ minted \subseteq Fresh

(* A collection as MKCALENDAR or the provisioning leaves it.               *)
StoreInit ==
    /\ present = TRUE
    /\ counter = 0
    /\ log = {}
    /\ rows = [n \in Names |-> NoRow]
    /\ minted = {}

-----------------------------------------------------------------------------
(* Reads.  Every reader but the trash views filters deleted_at IS NULL.    *)

Live(n) == rows[n].is = "live"
Ghost(n) == rows[n].is = "ghost"

BodyIn(table, n) == IF table[n].is = "live" THEN table[n].body ELSE NoBody
findByUri(n) == BodyIn(rows, n)
findDeletedByUri(n) == IF Ghost(n) THEN rows[n].body ELSE NoBody
findUriByUid(uid) == {n \in Names : Live(n) /\ UidOf[rows[n].body] = uid}
findAllInCollection == {n \in Names : Live(n)}

-----------------------------------------------------------------------------
(* Statements 1 and 2 of every batch: take the next token, log the change. *)

(* Mutants: only the object statement guarded; every mode guarded.         *)
BumpGateUnguarded(n, pre) == present
BumpGateEveryMode(n, pre) == /\ present
                             /\ rows[n].is # "none"
                             /\ pre.kind = "match" => rows[n].body = pre.etag

(* The WHERE of both: the collection row, and in match mode a row with the *)
(* expected ETag under that name -- live or ghost alike.                   *)
BumpGate(n, pre) ==
    /\ present
    /\ pre.kind = "match" => /\ rows[n].is # "none"
                             /\ rows[n].body = pre.etag

(* Mutant: the change is logged before the counter is incremented.         *)
LogThenBump(n, kind, pre) ==
    IF BumpGate(n, pre)
    THEN /\ counter' = counter + 1
         /\ log' = log \cup {[token |-> counter, uri |-> n, kind |-> kind]}
    ELSE UNCHANGED <<counter, log>>

BumpAndLog(n, kind, pre) ==
    IF BumpGate(n, pre)
    THEN /\ counter' = counter + 1
         /\ log' = log \cup {[token |-> counter + 1, uri |-> n, kind |-> kind]}
    ELSE UNCHANGED <<counter, log>>

(* Mutant: sync_changes without its primary key.                           *)
NoTokenKey(n, pre) == FALSE

(* PRIMARY KEY (owner, collection_id, token) of sync_changes.              *)
TokenClash(n, pre) ==
    BumpGate(n, pre) /\ \E c \in log : c.token = counter + 1

(* Mutant: the unique index dropped.                                       *)
NoUidIndex(n, b) == FALSE

(* The partial unique index on uid, WHERE deleted_at IS NULL.              *)
UidClash(n, b) ==
    \E m \in Names \ {n} : Live(m) /\ UidOf[rows[m].body] = UidOf[b]

(* Mutant: match mode, too, looks at the collection row.                   *)
VerdictByBump(n, pre, hit) ==
    IF BumpGate(n, pre) THEN "ok"
    ELSE IF pre.kind = "match" THEN "conflict" ELSE "error"

(* executeWriteBatch's verdict on a batch that committed: match mode looks *)
(* at the object statement, the others at the collection row.              *)
Verdict(n, pre, hit) ==
    IF pre.kind = "match"
    THEN IF hit THEN "ok" ELSE "conflict"
    ELSE IF BumpGate(n, pre) THEN "ok" ELSE "error"

(* A set holding one minted name if one is needed, the empty set if not.   *)
Mint(needed) == IF needed THEN {{g} : g \in Fresh \ minted} ELSE {{}}

(* Mutant: the ghost in the way is removed.                                *)
GhostDropped(n, new) ==
    [m \in Names |-> IF m = n /\ Ghost(n) THEN NoRow ELSE rows[m]]

(* The ghost-evacuating rename that precedes every object write.           *)
Evacuated(n, new) ==
    [m \in Names |-> IF m \in new THEN rows[n]
                     ELSE IF m = n /\ Ghost(n) THEN NoRow
                     ELSE rows[m]]

-----------------------------------------------------------------------------
(* saveResource: does the object statement find or insert its row?  In     *)
(* match mode UPDATE ... WHERE uri AND etag, after the rename.             *)
SaveHits(n, pre) ==
    pre.kind = "match" => Live(n) /\ rows[n].body = pre.etag

(* Mutant: foreign keys not enforced.                                      *)
SaveAbortsNoForeignKey(n, b, pre) ==
    \/ TokenClash(n, pre)
    \/ pre.kind = "create" /\ Live(n)
    \/ SaveHits(n, pre) /\ UidClash(n, b)

(* A constraint violation, which rolls the whole batch back: the change    *)
(* log's key, the object's key (plain INSERT), the UID index, or the       *)
(* foreign key to a collection row that is gone.                           *)
SaveAborts(n, b, pre) ==
    \/ TokenClash(n, pre)
    \/ pre.kind = "create" /\ Live(n)
    \/ SaveHits(n, pre) /\ (UidClash(n, b) \/ ~present)

saveResource(n, b, kind, pre, out) ==
    \/ /\ SaveAborts(n, b, pre)
       /\ out = "conflict"
       /\ UNCHANGED <<counter, log, rows, minted>>
    \/ /\ ~SaveAborts(n, b, pre)
       /\ out = Verdict(n, pre, SaveHits(n, pre))
       /\ BumpAndLog(n, kind, pre)
       /\ \E new \in Mint(Ghost(n)) :
             /\ rows' = IF SaveHits(n, pre)
                        THEN [Evacuated(n, new) EXCEPT ![n] = LiveRow(b)]
                        ELSE Evacuated(n, new)
             /\ minted' = minted \cup new

(* deleteResource: set deleted_at on a live row (with the expected ETag).  *)
DeleteHits(n, pre) ==
    Live(n) /\ (pre.kind = "match" => rows[n].body = pre.etag)

deleteResource(n, pre, out) ==
    \/ /\ TokenClash(n, pre)
       /\ out = "conflict"
       /\ UNCHANGED <<counter, log, rows>>
    \/ /\ ~TokenClash(n, pre)
       /\ out = Verdict(n, pre, DeleteHits(n, pre))
       /\ BumpAndLog(n, "deleted", pre)
       /\ rows' = IF DeleteHits(n, pre)
                  THEN [rows EXCEPT ![n].is = "ghost"] ELSE rows

(* restoreResource: clear deleted_at of the ghost at cur, now named new.   *)
Overwrite == [kind |-> "overwrite", etag |-> NoBody]

RestoreAborts(cur, new) ==
    \/ TokenClash(new, Overwrite)
    \/ Ghost(cur) /\ (UidClash(cur, rows[cur].body) \/ (new # cur /\ rows[new] # NoRow))

Restored(cur, new) ==
    [m \in Names |-> IF m = new THEN LiveRow(rows[cur].body)
                     ELSE IF m = cur THEN NoRow ELSE rows[m]]

restoreResource(cur, new, out) ==
    \/ /\ RestoreAborts(cur, new)
       /\ out = "conflict"
       /\ UNCHANGED <<counter, log, rows>>
    \/ /\ ~RestoreAborts(cur, new)
       /\ out = Verdict(new, Overwrite, TRUE)
       /\ BumpAndLog(new, "created", Overwrite)
       /\ rows' = IF Ghost(cur) THEN Restored(cur, new) ELSE rows

(* purgeDeletedBefore: physically drop the ghosts older than the cutoff;   *)
(* which ghosts are old enough is left open.  No token, no change record.  *)
purgeDeletedBefore(old) ==
    /\ old # {}
    /\ \A n \in old : Ghost(n)
    /\ rows' = [n \in Names |-> IF n \in old THEN NoRow ELSE rows[n]]
    /\ UNCHANGED <<present, counter, log, minted>>

=============================================================================
