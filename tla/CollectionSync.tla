---------------------------- MODULE CollectionSync ----------------------------
(***************************************************************************)
(* Everything at once: object requests, requests on the collection itself, *)
(* and clients that sync it.  While the collection is gone a REPORT is     *)
(* answered 404 and changes nothing here: the clients of interest are      *)
(* those that did not poll in the meantime, and cannot tell a recreated    *)
(* collection from the one they knew.                                      *)
(***************************************************************************)
EXTENDS SyncClients, CollectionLifecycle

(* outdated: the clients that still use, or are about to get, a token from *)
(* before the collection was deleted.  torn: a save of before the deletion *)
(* has set the counter of the new collection beyond what its log covers.   *)
VARIABLES outdated, torn
collectionSyncVars == <<syncVars, outdated, torn>>

Attached(c) == client[c].has \/ client[c].at # "idle"

(* Each token up to t was logged.                                          *)
Covers(t) == \A s \in 1..t : \E e \in log : e.token = s

CollectionSyncInit == SyncInit /\ outdated = {} /\ torn = FALSE

CollectionSyncNext ==
    \/ /\ LifecycleNext /\ UNCHANGED client
       /\ outdated' = IF present' THEN outdated
                       ELSE {c \in Clients : Attached(c)}
       /\ torn' = (present' /\ (torn \/ ~Covers(counter)'))
    \/ /\ (\E c \in Clients : Sync(c)) /\ UNCHANGED vars
       /\ outdated' = {c \in outdated : Attached(c)'}
       /\ UNCHANGED torn

CollectionSyncSpec == CollectionSyncInit /\ [][CollectionSyncNext]_collectionSyncVars

-----------------------------------------------------------------------------
(* Properties.                                                             *)

(* A client whose token the server accepts is due every change it has not  *)
(* seen: within one life of the collection no token is taken for a later   *)
(* one of the same value, though PROPPATCH and a second MKCALENDAR roll    *)
(* the counter back (sync-token.ts 14: unique, monotonic).  It fails for a *)
(* token of a collection that was deleted and made anew since, and once a  *)
(* PROPPATCH that read the deleted collection is saved into the new one.   *)
AcceptedTokensMissNothing ==
    ~torn => \A c \in Clients \ outdated :
        client[c].has /\ present /\ client[c].token <= counter =>
            \A n \in Names : client[c].view[n] # findByUri(n)
                => \E e \in log : e.uri = n /\ e.token > client[c].token
=============================================================================
