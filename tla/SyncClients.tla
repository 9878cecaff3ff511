----------------------------- MODULE SyncClients -----------------------------
(***************************************************************************)
(* Clients that follow a collection with sync-collection REPORTs (RFC      *)
(* 6578) while object requests change it.  SyncCollection.execute is three *)
(* database reads with an await between them: the collection row (whose    *)
(* counter becomes the new token), the change log, the resources.  The     *)
(* client applies the answer and keeps its token; an answer may be lost.   *)
(***************************************************************************)
EXTENDS ObjectRequests

CONSTANT Clients

VARIABLE client

syncVars == <<present, counter, log, rows, minted, req, client>>

Views == [Names -> Bodies \cup {NoBody}]
Empty == [n \in Names |-> NoBody]

(* has/token: the sync-token the client kept, if any; view: what it shows. *)
(* base, changed, removed, answer: the REPORT under way.                   *)
Client == [at: {"idle", "log", "fetch", "answer"}, has: BOOLEAN, token: Nat,
           view: Views, base: Nat, changed: SUBSET Names,
           removed: SUBSET Names, answer: Views]

NewClient == [at |-> "idle", has |-> FALSE, token |-> 0, view |-> Empty,
              base |-> 0, changed |-> {}, removed |-> {}, answer |-> Empty]

(* A client with token t (none if ~has) and view v, and no REPORT open.    *)
Resting(has, t, v) == [NewClient EXCEPT !.has = has, !.token = t, !.view = v]

SyncTypeOK == TypeOK /\ client \in [Clients -> Client]
SyncInit == Init /\ client = [c \in Clients |-> NewClient]

-----------------------------------------------------------------------------
(* Mutant of LastSince: off by one.                                        *)
LastSinceNext(since) ==
    {c \in log : /\ c.token > since + 1
                 /\ \A d \in log : d.uri = c.uri => d.token <= c.token}

(* CalendarCollection.changesSince: per name, the last record after the    *)
(* token decides between changed and removed.                              *)
LastSince(since) ==
    {c \in log : /\ c.token > since
                 /\ \A d \in log : d.uri = c.uri => d.token <= c.token}

(* Mutant of removedSince: deletions are left out, as in an initial sync.  *)
RemovedNever(since) == {}

changedSince(since) == {c.uri : c \in {d \in LastSince(since) : d.kind # "deleted"}}
removedSince(since) == {c.uri : c \in {d \in LastSince(since) : d.kind = "deleted"}}

(* The diff of the answer, applied to the client's view.  A changed name   *)
(* that the fetch does not find is reported removed; an initial sync lists *)
(* all live resources.                                                     *)
Reported(k) ==
    [n \in Names |->
        IF ~k.has \/ n \in k.changed THEN findByUri(n)
        ELSE IF n \in k.removed THEN NoBody
        ELSE k.view[n]]

SyncFindRow(c) ==
    /\ client[c].at = "idle"
    /\ present
    /\ client' = [client EXCEPT ![c].at = "log", ![c].base = counter]

(* A token beyond the counter read is answered 403 valid-sync-token; the   *)
(* client forgets it and starts over.                                      *)
SyncReadLog(c) ==
    LET k == client[c] IN
    /\ k.at = "log"
    /\ client' = [client EXCEPT ![c] =
          IF k.has /\ k.token > k.base THEN Resting(FALSE, 0, Empty)
          ELSE [k EXCEPT !.at = "fetch",
                         !.changed = IF k.has THEN changedSince(k.token) ELSE {},
                         !.removed = IF k.has THEN removedSince(k.token) ELSE {}]]

SyncFetch(c) ==
    LET k == client[c] IN
    /\ k.at = "fetch"
    /\ client' = [client EXCEPT ![c] =
          [k EXCEPT !.at = "answer", !.answer = Reported(k),
                    !.changed = {}, !.removed = {}]]

(* Mutants: the token is read when the answer is sent; off by one.         *)
DeliverLatest(c) ==
    /\ client[c].at = "answer"
    /\ client' = [client EXCEPT ![c] =
          Resting(TRUE, counter, client[c].answer)]
DeliverNext(c) ==
    /\ client[c].at = "answer"
    /\ client' = [client EXCEPT ![c] =
          Resting(TRUE, client[c].base + 1, client[c].answer)]

(* The answer carries the token of the row read first.                     *)
SyncDeliver(c) ==
    /\ client[c].at = "answer"
    /\ client' = [client EXCEPT ![c] =
          Resting(TRUE, client[c].base, client[c].answer)]

SyncLose(c) ==
    LET k == client[c] IN
    /\ k.at # "idle"
    /\ client' = [client EXCEPT ![c] = Resting(k.has, k.token, k.view)]

Sync(c) == \/ SyncFindRow(c) \/ SyncReadLog(c) \/ SyncFetch(c)
           \/ SyncDeliver(c) \/ SyncLose(c)

SyncNext == \/ Next /\ UNCHANGED client
            \/ (\E c \in Clients : Sync(c)) /\ UNCHANGED vars

SyncSpec == SyncInit /\ [][SyncNext]_syncVars

(* The client keeps polling, and is not for ever unlucky: a REPORT may die *)
(* at any of its steps, but no step dies every time it is reached.         *)
Polling(c) ==
    /\ WF_syncVars(SyncFindRow(c) /\ UNCHANGED vars)
    /\ SF_syncVars(SyncReadLog(c) /\ UNCHANGED vars)
    /\ SF_syncVars(SyncFetch(c) /\ UNCHANGED vars)
    /\ SF_syncVars(SyncDeliver(c) /\ UNCHANGED vars)

FairSyncSpec == SyncSpec /\ \A c \in Clients : Polling(c)

-----------------------------------------------------------------------------
(* Properties.                                                             *)

(* Wherever a client's view differs from the collection, the change log    *)
(* holds a record about that resource newer than the client's token: the   *)
(* next sync-collection repairs it, so nothing is missed for good.         *)
NothingMissed ==
    \A c \in Clients : client[c].has =>
        \A n \in Names : client[c].view[n] # findByUri(n)
            => \E e \in log : e.uri = n /\ e.token > client[c].token

(* No client that followed the protocol is ever told valid-sync-token and  *)
(* sent back to a full resync.                                             *)
NoSpuriousResync ==
    \A c \in Clients : client[c].has =>
        /\ client[c].token <= counter
        /\ client[c].at = "log" => client[c].token <= client[c].base

(* Once writing has stopped (here: at the bound, and always eventually) a  *)
(* polling client shows exactly the live resources.                        *)
LiveView == [n \in Names |-> findByUri(n)]
Converges == \A c \in Clients : <>[](client[c].view = LiveView)
=============================================================================
