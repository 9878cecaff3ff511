--------------------------- MODULE FrontDoorsProofs ---------------------------
(***************************************************************************)
(* What holds at both doors for any calendars, objects and requests.  The  *)
(* invariant: the tables are sound (Sound: a calendar that is there is     *)
(* whole, and every object, also a deleted one, is in a calendar that is   *)
(* there and takes its kind) and the quota is within its limit.  That      *)
(* deleted objects fit as well is what RestoreDeleted needs, which checks  *)
(* no kinds.  Each use case keeps the tables sound, and leaves them alone  *)
(* when it throws (Kept); each request then changes them only in the way   *)
(* StepKeeps allows.                                                       *)
(***************************************************************************)
EXTENDS FrontDoors, WellFoundedInduction, TLAPS

(* What an outcome of a use case keeps.                                    *)
Kept(o, s) == Sound(o.shelf) /\ (~Ok(o) => o.shelf = s)

-----------------------------------------------------------------------------
(* The use cases.                                                          *)

LEMMA KeptIsSound == ASSUME NEW o, NEW s, Kept(o, s) PROVE Sound(o.shelf)
  BY DEF Kept

LEMMA Thrown == ASSUME NEW s, Sound(s), NEW e, e # "none" PROVE Kept(Throw(s, e), s)
  BY DEF Kept, Throw

LEMMA CreateCollectionKeeps ==
    ASSUME NEW s, Sound(s), NEW c \in Ids, NEW cal, IsCalendar(cal)
    PROVE  Kept(CreateCollection(s, c, cal), s)
  <1>1. CASE Exists(s, c)
    BY <1>1, Thrown DEF CreateCollection
  <1>2. CASE ~Exists(s, c)
    <2>1. PICK t : t = [s EXCEPT !.cals[c] = cal]
      OBVIOUS
    <2>2. /\ t = [cals |-> t.cals, live |-> t.live, trash |-> t.trash]
          /\ t.cals = [s.cals EXCEPT ![c] = cal] /\ t.live = s.live /\ t.trash = s.trash
      BY <2>1 DEF Sound
    <2>3. /\ t.cals = [d \in Ids |-> t.cals[d]] /\ t.cals[c] = cal
          /\ \A d \in Ids : d # c => t.cals[d] = s.cals[d]
      BY <2>2 DEF Sound
    <2>4. \A o \in t.live \cup t.trash : Fits(o, t)
      BY <1>2, <2>2, <2>3 DEF Sound, Fits, Exists
    <2>5. Sound(t)
      BY <2>2, <2>3, <2>4 DEF Sound, Exists
    <2> QED
      BY <1>2, <2>1, <2>5 DEF CreateCollection, Done, Kept, Ok
  <1> QED
    BY <1>1, <1>2

(* ProvisionDefaults: a calendar that is new has nothing in it.            *)
LEMMA ProvisionKeeps == ASSUME NEW s, Sound(s) PROVE Sound(ProvisionDefaults(s))
  <1>1. PICK t : t = ProvisionDefaults(s)
    OBVIOUS
  <1>2. /\ t = [cals |-> t.cals, live |-> t.live, trash |-> t.trash]
        /\ t.live = s.live /\ t.trash = s.trash
        /\ t.cals = [c \in Ids |-> IF c \in DOMAIN DefaultSpecs /\ ~Exists(s, c)
                                   THEN DefaultSpecs[c] ELSE s.cals[c]]
    BY <1>1 DEF Sound, ProvisionDefaults
  <1>3. \A c \in Ids : Exists(s, c) => t.cals[c] = s.cals[c]
    BY <1>2
  <1>4. \A c \in DOMAIN DefaultSpecs : IsCalendar(DefaultSpecs[c])
    BY DEF DefaultSpecs, IsCalendar
  <1>5. \A c \in Ids : Exists(t, c) => IsCalendar(t.cals[c])
    BY <1>2, <1>4 DEF Sound, Exists
  <1>6. \A o \in t.live \cup t.trash : Fits(o, t)
    BY <1>2, <1>3 DEF Sound, Fits, Exists
  <1>7. t.cals = [c \in Ids |-> t.cals[c]]
    BY <1>2
  <1> QED
    BY <1>1, <1>2, <1>5, <1>6, <1>7 DEF Sound

(* UpdateCollectionProperties: the components stay what they are.          *)
LEMMA UpdateKeeps ==
    ASSUME NEW s, Sound(s), NEW c \in Ids, NEW meta, "comps" \notin DOMAIN meta
    PROVE  Kept(UpdateProperties(s, c, meta), s)
  <1>1. CASE ~Exists(s, c)
    BY <1>1, Thrown DEF UpdateProperties
  <1>2. CASE Exists(s, c)
    <2>1. PICK cal : cal = WithMetadata(s.cals[c], meta)
      OBVIOUS
    <2>2. IsCalendar(s.cals[c])
      BY <1>2 DEF Sound
    <2>3. DOMAIN s.cals[c] = {"name", "comps", "color"}
      BY <2>2 DEF IsCalendar
    <2>4. IsCalendar(cal) /\ cal.comps = s.cals[c].comps
      BY <2>1, <2>3 DEF IsCalendar, WithMetadata
    <2>5. PICK t : t = [s EXCEPT !.cals[c] = cal]
      OBVIOUS
    <2>6. /\ t = [cals |-> t.cals, live |-> t.live, trash |-> t.trash]
          /\ t.cals = [s.cals EXCEPT ![c] = cal] /\ t.live = s.live /\ t.trash = s.trash
      BY <2>5 DEF Sound
    <2>7. /\ t.cals = [d \in Ids |-> t.cals[d]] /\ t.cals[c] = cal
          /\ \A d \in Ids : d # c => t.cals[d] = s.cals[d]
      BY <2>6 DEF Sound
    <2>8. DOMAIN cal = {"name", "comps", "color"} /\ DOMAIN NoCal = {"name"}
      BY <2>4 DEF IsCalendar, NoCal
    <2>9. Exists(t, c)
      <3>1. "comps" \in DOMAIN cal /\ "comps" \notin DOMAIN NoCal
        BY <2>8
      <3> QED
        BY <2>7, <3>1 DEF Exists
    <2>10. \A o \in t.live \cup t.trash : Fits(o, t)
      BY <2>4, <2>6, <2>7, <2>9 DEF Sound, Fits, Exists
    <2>11. Sound(t)
      BY <2>4, <2>6, <2>7, <2>10 DEF Sound, Exists
    <2>12. UpdateProperties(s, c, meta) = Done(t)
      BY <1>2, <2>1, <2>5 DEF UpdateProperties
    <2> QED
      BY <2>11, <2>12 DEF Done, Kept, Ok
  <1> QED
    BY <1>1, <1>2

LEMMA NothingToSet ==
    ASSUME NEW s, Sound(s), NEW c \in Ids PROVE UpdateProperties(s, c, <<>>).shelf = s
  <1>1. CASE ~Exists(s, c)
    BY <1>1 DEF UpdateProperties, Throw
  <1>2. CASE Exists(s, c)
    <2>1. s.cals[c] = [f \in DOMAIN s.cals[c] |-> s.cals[c][f]]
      BY <1>2 DEF Sound, IsCalendar
    <2>2. WithMetadata(s.cals[c], <<>>) = s.cals[c]
      BY <2>1 DEF WithMetadata
    <2>3. [s EXCEPT !.cals[c] = s.cals[c]] = s
      BY DEF Sound
    <2> QED
      BY <1>2, <2>2, <2>3 DEF UpdateProperties, Done
  <1> QED
    BY <1>1, <1>2

(* A calendar goes with everything that is in it.                          *)
LEMMA DeleteCollectionKeeps ==
    ASSUME NEW s, Sound(s), NEW c \in Ids PROVE Sound(DeleteCollection(s, c))
  <1>1. PICK t : t = DeleteCollection(s, c)
    OBVIOUS
  <1>2. /\ t = [cals |-> t.cals, live |-> t.live, trash |-> t.trash]
        /\ t.cals = [s.cals EXCEPT ![c] = NoCal]
        /\ t.live = s.live \ ObjectsIn(s, c) /\ t.trash = {g \in s.trash : g.cal # c}
    BY <1>1 DEF Sound, DeleteCollection
  <1>3. /\ t.cals = [d \in Ids |-> t.cals[d]] /\ t.cals[c] = NoCal
        /\ \A d \in Ids : d # c => t.cals[d] = s.cals[d]
    BY <1>2 DEF Sound
  <1>4. \A o \in t.live \cup t.trash : o \in s.live \cup s.trash /\ o.cal # c
    BY <1>2 DEF ObjectsIn
  <1>5. \A o \in t.live \cup t.trash : Fits(o, t)
    BY <1>3, <1>4 DEF Sound, Fits, Exists
  <1>6. Sound(t)
    BY <1>2, <1>3, <1>5 DEF Sound, Exists
  <1> QED
    BY <1>1, <1>6

(* The use cases on objects leave the calendars alone.                     *)
LEMMA SameCalendars ==
    ASSUME NEW s, Sound(s), NEW live, NEW trash, \A o \in live \cup trash : Fits(o, s)
    PROVE  Kept(Done([s EXCEPT !.live = live, !.trash = trash]), s)
  <1>1. PICK t : t = [s EXCEPT !.live = live, !.trash = trash]
    OBVIOUS
  <1>2. /\ t = [cals |-> t.cals, live |-> t.live, trash |-> t.trash]
        /\ t.cals = s.cals /\ t.live = live /\ t.trash = trash
    BY <1>1 DEF Sound
  <1>3. Sound(t)
    BY <1>2 DEF Sound, Fits, Exists
  <1> QED
    BY <1>1, <1>3 DEF Kept, Done, Ok

LEMMA PutViolations ==
    ASSUME NEW s, NEW c, NEW uri, NEW b, PutViolation(s, c, uri, b) = "none"
    PROVE  b.kind \in s.cals[c].comps
  BY DEF PutViolation

LEMMA MoveGhostFits ==
    ASSUME NEW s, Sound(s), NEW c, NEW uri PROVE \A o \in MoveGhost(s, c, uri) : Fits(o, s)
  <1> SUFFICES ASSUME NEW o \in MoveGhost(s, c, uri) PROVE Fits(o, s)
    OBVIOUS
  <1>1. PICK fresh : fresh = FreshUri(s, c, uri)
    OBVIOUS
  <1>2. PICK g \in s.trash : o = IF g.cal = c /\ g.uri = uri THEN [g EXCEPT !.uri = fresh] ELSE g
    BY <1>1 DEF MoveGhost
  <1>3. Fits(g, s)
    BY DEF Sound
  <1>4. o = Object(g.cal, o.uri, g.body)
    BY <1>2, <1>3 DEF Fits, Object
  <1> QED
    BY <1>3, <1>4 DEF Fits, Object

LEMMA PutObjectKeeps ==
    ASSUME NEW s, Sound(s), NEW c \in Ids, NEW uri, NEW b, NEW condition, NEW ifHolds
    PROVE  Kept(PutObject(s, c, uri, b, condition, ifHolds), s)
  <1>1. PICK o : o = PutObject(s, c, uri, b, condition, ifHolds)
    OBVIOUS
  <1>2. CASE \E e : e # "none" /\ o = Throw(s, e)
    BY <1>1, <1>2, Thrown
  <1>3. CASE ~\E e : e # "none" /\ o = Throw(s, e)
    <2>1. PICK live, trash : /\ live = (s.live \ AtUri(s, c, uri)) \cup {Object(c, uri, b)}
                             /\ trash = MoveGhost(s, c, uri)
      OBVIOUS
    <2>2. /\ Exists(s, c) /\ PutViolation(s, c, uri, b) = "none"
          /\ o = Done([s EXCEPT !.live = live, !.trash = trash])
      BY <1>1, <1>3, <2>1 DEF PutObject, Sound
    <2>3. Fits(Object(c, uri, b), s)
      BY <2>2, PutViolations DEF Fits, Object
    <2>4. \A x \in live \cup trash : Fits(x, s)
      BY <2>1, <2>3, MoveGhostFits DEF Sound
    <2> QED
      BY <1>1, <2>2, <2>4, SameCalendars
  <1> QED
    BY <1>2, <1>3

LEMMA DeleteObjectKeeps ==
    ASSUME NEW s, Sound(s), NEW c, NEW uri, NEW condition, NEW ifHolds
    PROVE  Kept(DeleteObject(s, c, uri, condition, ifHolds), s)
  <1>1. PICK o : o = DeleteObject(s, c, uri, condition, ifHolds)
    OBVIOUS
  <1>2. CASE \E e : e # "none" /\ o = Throw(s, e)
    BY <1>1, <1>2, Thrown
  <1>3. CASE ~\E e : e # "none" /\ o = Throw(s, e)
    <2>1. PICK live, trash : /\ live = s.live \ AtUri(s, c, uri)
                             /\ trash = s.trash \cup AtUri(s, c, uri)
      OBVIOUS
    <2>2. o = Done([s EXCEPT !.live = live, !.trash = trash])
      BY <1>1, <1>3, <2>1 DEF DeleteObject, Sound
    <2>3. \A x \in live \cup trash : Fits(x, s)
      BY <2>1 DEF Sound, AtUri, ObjectsIn
    <2> QED
      BY <1>1, <2>2, <2>3, SameCalendars
  <1> QED
    BY <1>2, <1>3

LEMMA RestoreObjectKeeps ==
    ASSUME NEW s, Sound(s), NEW c, NEW uri PROVE Kept(RestoreObject(s, c, uri), s)
  <1>1. PICK o : o = RestoreObject(s, c, uri)
    OBVIOUS
  <1>2. CASE \E e : e # "none" /\ o = Throw(s, e)
    BY <1>1, <1>2, Thrown
  <1>3. CASE ~\E e : e # "none" /\ o = Throw(s, e)
    <2> DEFINE ghosts == {g \in s.trash : g.cal = c /\ g.uri = uri}
               g == CHOOSE g \in ghosts : TRUE
               back == IF AtUri(s, c, uri) = {} THEN uri ELSE FreshUri(s, c, uri)
               row == [g EXCEPT !.uri = back]
    <2>1. PICK live, trash : live = s.live \cup {row} /\ trash = s.trash \ {g}
      OBVIOUS
    <2>2. o = IF ~Exists(s, c) THEN Throw(s, "CollectionNotFound")
              ELSE IF ghosts = {} THEN Throw(s, "NotFound")
              ELSE IF WithUid(s, c, g.body.uid) # {} THEN Throw(s, "RestoreUidConflict")
              ELSE Done([s EXCEPT !.trash = @ \ {g}, !.live = @ \cup {row}])
      BY <1>1, Zenon DEF RestoreObject
    <2> HIDE DEF back
    <2>3. [s EXCEPT !.trash = @ \ {g}, !.live = @ \cup {row}]
              = [s EXCEPT !.live = live, !.trash = trash]
      BY <2>1 DEF Sound
    <2>4. ghosts # {} /\ o = Done([s EXCEPT !.live = live, !.trash = trash])
      BY <1>3, <2>2, <2>3
    <2>5. g \in s.trash
      BY <2>4
    <2>6. row = Object(g.cal, row.uri, g.body)
      BY <2>5 DEF Sound, Fits, Object
    <2>7. \A x \in live \cup trash : Fits(x, s)
      BY <2>1, <2>5, <2>6 DEF Sound, Fits, Object
    <2> HIDE DEF ghosts, g, row
    <2> QED
      BY <1>1, <2>7, <2>4, SameCalendars
  <1> QED
    BY <1>2, <1>3

(* A row that is created, with or without a place.                         *)
LEMMA CreateKeeps ==
    ASSUME NEW s, Sound(s), NEW c \in Ids, NEW kind, NEW valid, NEW pin
    PROVE  Kept(Create(s, c, kind, valid, pin), s)
  BY Thrown, PutObjectKeeps DEF Create

(* MoveTodo.execute: the row that is moved is still there when its copy    *)
(* has been made, so the DELETE that follows a PUT does not fail.          *)
LEMMA MoveKeeps ==
    ASSUME NEW s, Sound(s), NEW c \in Ids, NEW to \in Ids, c # to, NEW o \in s.live, o.cal = c
    PROVE  Kept(Move(s, c, to, o), s)
  <1>1. PICK put : put = PutObject(s, to, <<o.body.uid>>, o.body, "must-not-exist", TRUE)
    OBVIOUS
  <1>2. Kept(put, s)
    BY <1>1, PutObjectKeeps
  <1>3. CASE ~Ok(put)
    BY <1>1, <1>2, <1>3 DEF Move
  <1>4. CASE Ok(put)
    <2>1. PICK n : n = DeleteObject(put.shelf, c, o.uri, "unconditional", TRUE)
      OBVIOUS
    <2>2. Move(s, c, to, o) = n
      BY <1>1, <1>4, <2>1 DEF Move
    <2>3. Kept(n, put.shelf)
      <3>1. Sound(put.shelf)
        BY <1>2 DEF Kept
      <3> QED
        BY <2>1, <3>1, DeleteObjectKeeps
    <2>4. put.shelf.cals = s.cals /\ o \in put.shelf.live
      <3>1. put.shelf = [s EXCEPT !.live = (@ \ AtUri(s, to, <<o.body.uid>>))
                                             \cup {Object(to, <<o.body.uid>>, o.body)},
                                  !.trash = MoveGhost(s, to, <<o.body.uid>>)]
        BY <1>1, <1>4 DEF PutObject, Ok, Throw, Done, PutViolation
      <3>2. o \notin AtUri(s, to, <<o.body.uid>>)
        BY DEF AtUri, ObjectsIn
      <3> QED
        BY <3>1, <3>2 DEF Sound
    <2>5. Exists(put.shelf, c) /\ AtUri(put.shelf, c, o.uri) # {}
      BY <2>4 DEF Sound, Fits, Exists, AtUri, ObjectsIn
    <2>6. Ok(n)
      BY <2>1, <2>5 DEF DeleteObject, Done, Ok
    <2> QED
      BY <2>2, <2>3, <2>6 DEF Kept
  <1> QED
    BY <1>3, <1>4

-----------------------------------------------------------------------------
(* The month's quota.                                                      *)

Spent == 0..MonthlyLimit

(* What a month's count may be after more of it is spent.                  *)
SpentFrom(u) == u..MonthlyLimit

(* Each unit given out is counted, and none beyond the limit.              *)
LEMMA TryConsume ==
    ASSUME NEW u \in Spent
    PROVE  /\ tryConsume(u).used \in SpentFrom(u)
           /\ tryConsume(u).ok => tryConsume(u).used = u + 1
  <1>1. MonthlyLimit \in Nat /\ 1 <= MonthlyLimit /\ u \in Nat /\ u <= MonthlyLimit
    BY MonthlyLimitAssumption DEF Spent
  <1>2. CASE u = 0 \/ u < MonthlyLimit
    BY <1>1, <1>2 DEF SpentFrom, tryConsume
  <1>3. CASE ~(u = 0 \/ u < MonthlyLimit)
    <2>1. ~tryConsume(u).ok
      BY <1>3, Zenon DEF tryConsume
    <2>2. tryConsume(u).used = u
      BY <1>3, Zenon DEF tryConsume
    <2>3. u \in SpentFrom(u)
      BY <1>1 DEF SpentFrom
    <2> QED
      BY <2>1, <2>2, <2>3, Zenon
  <1> QED
    BY <1>2, <1>3

LEMMA Searches ==
    ASSUME NEW u \in Spent, NEW result PROVE Searched(u, result).used \in SpentFrom(u)
  BY TryConsume DEF Searched

LEMMA AutoResolves ==
    ASSUME NEW s, NEW u \in Spent, NEW text, NEW result
    PROVE  AutoResolved(s, u, text, result).used \in SpentFrom(u)
  <1>1. u \in SpentFrom(u)
    BY MonthlyLimitAssumption DEF Spent, SpentFrom
  <1> QED
    BY <1>1, Searches DEF AutoResolved

LEMMA SpentGrows ==
    ASSUME NEW u \in Spent, NEW v \in SpentFrom(u)
    PROVE  v \in Spent /\ SpentFrom(v) \subseteq SpentFrom(u) /\ u <= v
  BY MonthlyLimitAssumption DEF Spent, SpentFrom

(* The rows count at least what was asked on them and what searches still  *)
(* in flight will ask; so a search may ask whenever it has a unit.         *)
Counts == [Months -> Nat]
QuotaInv ==
    /\ month \in Months
    /\ used \in [Months -> Spent]
    /\ begun \in Counts /\ reserved \in Counts /\ asked \in Counts
    /\ \A m \in Months : asked[m] + reserved[m] <= used[m]

LEMMA QuotaUntouched == ASSUME QuotaInv, UNCHANGED quotaVars PROVE QuotaInv'
  BY DEF QuotaInv, quotaVars

LEMMA SpendKeeps ==
    ASSUME QuotaInv, NEW total \in SpentFrom(used[month]), Spend(total) PROVE QuotaInv'
  <1>1. used[month] \in Spent /\ used[month] \in Nat /\ month \in Months
    BY MonthlyLimitAssumption DEF QuotaInv, Spent
  <1>2. total \in Spent /\ total \in Nat /\ used[month] <= total
    BY <1>1, SpentGrows, MonthlyLimitAssumption DEF Spent
  <1>3. PICK more \in Nat : more = total - used[month] /\ total = used[month] + more
    BY <1>1, <1>2
  <1>4. /\ used' = [used EXCEPT ![month] = total]
        /\ asked' = [asked EXCEPT ![month] = asked[month] + more]
        /\ UNCHANGED <<month, begun, reserved>>
    BY <1>3 DEF Spend
  <1>5. used' \in [Months -> Spent] /\ asked' \in Counts
    BY <1>1, <1>2, <1>4 DEF QuotaInv, Counts
  <1>6. ASSUME NEW m \in Months PROVE asked'[m] + reserved'[m] <= used'[m]
    <2>1. asked[m] \in Nat /\ reserved[m] \in Nat /\ used[m] \in Nat /\ asked[m] + reserved[m] <= used[m]
      BY MonthlyLimitAssumption DEF QuotaInv, Counts, Spent
    <2>2. CASE m = month
      <3>1. asked'[m] = asked[m] + more /\ used'[m] = used[m] + more /\ reserved'[m] = reserved[m]
        BY <1>3, <1>4, <2>2 DEF QuotaInv, Counts
      <3> QED
        BY <2>1, <3>1
    <2>3. CASE m # month
      BY <1>4, <2>1, <2>3 DEF QuotaInv, Counts
    <2> QED
      BY <2>2, <2>3
  <1> QED
    BY <1>4, <1>5, <1>6 DEF QuotaInv

(* A search that takes a step: it is counted in one place or another.      *)
LEMMA CountsChange ==
    ASSUME NEW count \in Counts, NEW m \in Months
    PROVE  /\ [count EXCEPT ![m] = @ + 1] \in Counts
           /\ count[m] > 0 => [count EXCEPT ![m] = @ - 1] \in Counts
  BY DEF Counts

LEMMA ReservesKeep == ASSUME QuotaInv, NEW m \in Months, SearchReserves(m) PROVE QuotaInv'
  <1>1. begun' \in Counts /\ reserved' \in Counts /\ UNCHANGED <<month, asked>>
    BY CountsChange DEF SearchReserves, Fewer, More, QuotaInv
  <1>2. PICK u \in Spent : u = used[m]
    BY DEF QuotaInv
  <1>3. PICK v : v = tryConsume(u).used
    OBVIOUS
  <1>4. v \in SpentFrom(u) /\ v \in Spent /\ u <= v
    BY <1>3, TryConsume, SpentGrows
  <1>5. used' = [used EXCEPT ![m] = v]
    BY <1>2, <1>3 DEF SearchReserves
  <1>6. used' \in [Months -> Spent]
    BY <1>4, <1>5 DEF QuotaInv
  <1>7. \/ reserved' = [reserved EXCEPT ![m] = @ + 1] /\ v = u + 1
        \/ reserved' = reserved
    BY <1>2, <1>3, TryConsume DEF SearchReserves, More
  <1>8. ASSUME NEW k \in Months PROVE asked'[k] + reserved'[k] <= used'[k]
    <2>1. asked[k] \in Nat /\ reserved[k] \in Nat /\ used[k] \in Nat /\ asked[k] + reserved[k] <= used[k]
      BY MonthlyLimitAssumption DEF QuotaInv, Counts, Spent
    <2>2. u \in Nat /\ v \in Nat
      BY <1>2, <1>4, MonthlyLimitAssumption DEF Spent
    <2>3. CASE k = m
      <3>1. used'[k] = v /\ used[k] = u /\ asked'[k] = asked[k]
        BY <1>1, <1>2, <1>5, <2>3 DEF QuotaInv
      <3>2. \/ reserved'[k] = reserved[k]
            \/ reserved'[k] = reserved[k] + 1 /\ v = u + 1
        <4>1. reserved \in [Months -> Nat]
          BY DEF QuotaInv, Counts
        <4> QED
          BY <1>7, <2>3, <4>1
      <3> QED
        BY <1>4, <2>1, <2>2, <3>1, <3>2
    <2>4. CASE k # m
      <3>1. used'[k] = used[k] /\ asked'[k] = asked[k] /\ reserved'[k] = reserved[k]
        BY <1>1, <1>5, <1>7, <2>4 DEF QuotaInv, Counts
      <3> QED
        BY <2>1, <3>1
    <2> QED
      BY <2>3, <2>4
  <1> QED
    BY <1>1, <1>6, <1>8 DEF QuotaInv

LEMMA EndsKeep == ASSUME QuotaInv, NEW m \in Months, SearchEnds(m) PROVE QuotaInv'
  <1>1. reserved' \in Counts /\ asked' \in Counts /\ UNCHANGED <<month, used, begun>>
    BY CountsChange DEF SearchEnds, Fewer, More, QuotaInv
  <1>2. ASSUME NEW k \in Months PROVE asked'[k] + reserved'[k] <= used'[k]
    <2>1. asked[k] \in Nat /\ reserved[k] \in Nat /\ used[k] \in Nat /\ asked[k] + reserved[k] <= used[k]
      BY MonthlyLimitAssumption DEF QuotaInv, Counts, Spent
    <2>2. \/ k = m /\ asked'[k] = asked[k] + 1 /\ reserved'[k] = reserved[k] - 1
          \/ asked'[k] = asked[k] /\ reserved'[k] = reserved[k]
      BY DEF SearchEnds, Fewer, More, QuotaInv, Counts
    <2> QED
      BY <1>1, <2>1, <2>2
  <1> QED
    BY <1>1, <1>2 DEF QuotaInv

LEMMA DiesKeep == ASSUME QuotaInv, NEW m \in Months, SearchDies(m) PROVE QuotaInv'
  <1>1. begun' \in Counts /\ reserved' \in Counts /\ UNCHANGED <<month, used, asked>>
    BY CountsChange DEF SearchDies, Fewer, QuotaInv
  <1>2. ASSUME NEW k \in Months PROVE asked'[k] + reserved'[k] <= used'[k]
    <2>1. asked[k] \in Nat /\ reserved[k] \in Nat /\ used[k] \in Nat /\ asked[k] + reserved[k] <= used[k]
      BY MonthlyLimitAssumption DEF QuotaInv, Counts, Spent
    <2>2. reserved'[k] = reserved[k] - 1 \/ reserved'[k] = reserved[k]
      BY DEF SearchDies, Fewer, QuotaInv, Counts
    <2> QED
      BY <1>1, <2>1, <2>2
  <1> QED
    BY <1>1, <1>2 DEF QuotaInv

-----------------------------------------------------------------------------
(* What a step keeps, and what it is answered.                             *)

DoorsInv == Sound(shelf) /\ QuotaInv

ReadersChangeNothing ==
    answer'.door = "mcp" /\ answer'.grant # Legacy /\ "write" \notin answer'.grant
        => shelf' = shelf

StepKeeps ==
    /\ Sound(shelf')
    /\ Refused(answer') => shelf' = shelf
    /\ ReadersChangeNothing

(* A DAV response that is no refusal may come with any tables.             *)
LEMMA Responded ==
    ASSUME NEW request, NEW s, NEW status, NEW body,
           Respond(request, s, status, body), Sound(s), Sound(shelf),
           \/ s = shelf
           \/ request # "PROPPATCH" /\ ~(status >= 400)
           \/ ~(status >= 400) /\ \A results \in body : \A p \in DOMAIN results : results[p] = 200
    PROVE  StepKeeps
  BY DEF Respond, StepKeeps, ReadersChangeNothing, Refused

LEMMA RefusedKeeps ==
    ASSUME NEW request, NEW status, Refuse(request, status), Sound(shelf) PROVE StepKeeps
  BY Responded DEF Refuse

LEMMA RunKeeps ==
    ASSUME NEW request, NEW outcome, NEW status \in {201, 204}, Run(request, outcome, status),
           request # "PROPPATCH", Kept(outcome, shelf), Sound(shelf)
    PROVE  StepKeeps
  <1>1. PICK n : n = IF Ok(outcome) THEN status ELSE StatusOf(outcome.error)
    OBVIOUS
  <1>2. Respond(request, outcome.shelf, n, {})
    BY <1>1 DEF Run
  <1>3. outcome.shelf = shelf \/ n = status
    BY <1>1 DEF Kept
  <1>4. ~(status >= 400)
    OBVIOUS
  <1> QED
    BY <1>2, <1>3, <1>4, Responded DEF Kept

(* A tool answers with tables it has changed only under a grant that may   *)
(* write, and with no error but that of the list that follows.             *)
LEMMA Replied ==
    ASSUME NEW tool, NEW grant, NEW s, NEW error, NEW body,
           Reply(tool, grant, s, error, body), Sound(s), Sound(shelf),
           \/ s = shelf
           \/ allowsWrite(grant) /\ error \in {"none", "invalid IANA time zone"}
    PROVE  StepKeeps
  BY DEF Reply, StepKeeps, ReadersChangeNothing, Refused, allowsWrite

LEMMA RepliedTodos ==
    ASSUME NEW tool, NEW grant, NEW zone, NEW s, NEW body,
           ReplyWithTodos(tool, grant, zone, s, body), Sound(s), Sound(shelf),
           s = shelf \/ allowsWrite(grant)
    PROVE  StepKeeps
  BY Replied DEF ReplyWithTodos

LEMMA UseCaseFails ==
    ASSUME NEW tool, NEW grant, NEW o, Failed(tool, grant, o), Kept(o, shelf), ~Ok(o), Sound(shelf)
    PROVE  StepKeeps
  BY Replied DEF Failed, Kept

LEMMA ToolFails ==
    ASSUME NEW tool, NEW grant, NEW error, toolError(tool, grant, error), Sound(shelf)
    PROVE  StepKeeps
  BY Replied DEF toolError

LEMMA Unmoved == ASSUME Sound(shelf), shelf' = shelf PROVE StepKeeps
  BY DEF StepKeeps, ReadersChangeNothing

-----------------------------------------------------------------------------
(* The tools.                                                              *)

(* The wrapper lets a call of these tools through only with a grant that   *)
(* may write.                                                              *)
LEMMA WriteToolsNeedWrite ==
    \A tool \in {"create-calendar", "update-calendar", "delete-calendar", "create-todo",
                  "create-event", "create-todos", "create-events", "delete-todo",
                  "delete-event", "move-todo", "restore-deleted"} :
        \A grant : Admitted(tool, grant) => allowsWrite(grant)
  BY DEF Admitted, isWriteTool, ReadOnlyTools

LEMMA SearchLocations == ASSUME DoorsInv, SearchLocation PROVE StepKeeps /\ QuotaInv'
  <1>1. \/ \E grant : toolError("search-location", grant, "read-only token") /\ UNCHANGED quotaVars
        \/ UNCHANGED <<shelf, answer, month, used, reserved, asked>> /\ More(begun, month)
    BY DEF SearchLocation, Call
  <1>2. CASE \E grant : toolError("search-location", grant, "read-only token") /\ UNCHANGED quotaVars
    BY <1>2, ToolFails, QuotaUntouched DEF DoorsInv
  <1>3. CASE UNCHANGED <<shelf, answer, month, used, reserved, asked>> /\ More(begun, month)
    <2>1. StepKeeps
      BY <1>3, Unmoved DEF DoorsInv
    <2>2. QuotaInv'
      BY <1>3, CountsChange DEF More, QuotaInv, DoorsInv
    <2> QED
      BY <2>1, <2>2
  <1> QED
    BY <1>1, <1>2, <1>3

LEMMA CreateTodos == ASSUME DoorsInv, CreateTodo PROVE StepKeeps /\ QuotaInv'
  <1>1. ASSUME NEW grant, allowsWrite(grant), NEW c \in Ids, NEW valid, NEW zone,
               NEW text, NEW place, CreateTodoAt(grant, c, valid, zone, text, place)
        PROVE  StepKeeps /\ Spend(place.used)
    BY <1>1, ToolFails, UseCaseFails, KeptIsSound, RepliedTodos, CreateKeeps
       DEF CreateTodoAt, DoorsInv
  <1>2. PICK grant :
           \/ toolError("create-todo", grant, "read-only token") /\ UNCHANGED quotaVars
           \/ /\ Admitted("create-todo", grant)
              /\ \E c \in Ids : \E valid, zone, text, result :
                    CreateTodoAt(grant, c, valid, zone, text, AutoResolved(shelf, used[month], text, result))
    BY DEF CreateTodo, Call
  <1>3. CASE toolError("create-todo", grant, "read-only token") /\ UNCHANGED quotaVars
    BY <1>3, ToolFails, QuotaUntouched DEF DoorsInv
  <1>4. ASSUME NEW c \in Ids, NEW valid, NEW zone, NEW text, NEW result,
               Admitted("create-todo", grant),
               CreateTodoAt(grant, c, valid, zone, text, AutoResolved(shelf, used[month], text, result))
        PROVE  StepKeeps /\ QuotaInv'
    <2>1. allowsWrite(grant)
      BY <1>4, WriteToolsNeedWrite
    <2>2. PICK place : place = AutoResolved(shelf, used[month], text, result)
      OBVIOUS
    <2>3. place.used \in SpentFrom(used[month])
      BY <2>2, AutoResolves DEF DoorsInv, QuotaInv
    <2>4. StepKeeps /\ Spend(place.used)
      BY <1>1, <1>4, <2>1, <2>2
    <2> QED
      BY <2>3, <2>4, SpendKeeps DEF DoorsInv
  <1> QED
    BY <1>2, <1>3, <1>4

LEMMA CreateEvents == ASSUME DoorsInv, CreateEvent PROVE StepKeeps /\ QuotaInv'
  <1>1. ASSUME NEW grant, allowsWrite(grant), NEW c \in Ids, NEW valid, NEW place,
               CreateEventAt(grant, c, valid, place)
        PROVE  StepKeeps /\ Spend(place.used)
    BY <1>1, ToolFails, UseCaseFails, KeptIsSound, Replied, CreateKeeps
       DEF CreateEventAt, DoorsInv
  <1>2. PICK grant :
           \/ toolError("create-event", grant, "read-only token") /\ UNCHANGED quotaVars
           \/ /\ Admitted("create-event", grant)
              /\ \E c \in Ids : \E valid, text, result :
                    CreateEventAt(grant, c, valid, AutoResolved(shelf, used[month], text, result))
    BY DEF CreateEvent, Call
  <1>3. CASE toolError("create-event", grant, "read-only token") /\ UNCHANGED quotaVars
    BY <1>3, ToolFails, QuotaUntouched DEF DoorsInv
  <1>4. ASSUME NEW c \in Ids, NEW valid, NEW text, NEW result,
               Admitted("create-event", grant),
               CreateEventAt(grant, c, valid, AutoResolved(shelf, used[month], text, result))
        PROVE  StepKeeps /\ QuotaInv'
    <2>1. allowsWrite(grant)
      BY <1>4, WriteToolsNeedWrite
    <2>2. PICK place : place = AutoResolved(shelf, used[month], text, result)
      OBVIOUS
    <2>3. place.used \in SpentFrom(used[month])
      BY <2>2, AutoResolves DEF DoorsInv, QuotaInv
    <2>4. StepKeeps /\ Spend(place.used)
      BY <1>1, <1>4, <2>1, <2>2
    <2> QED
      BY <2>3, <2>4, SpendKeeps DEF DoorsInv
  <1> QED
    BY <1>2, <1>3, <1>4

(* A batch: what its items leave, one after the other.                     *)
LEMMA ItemKeeps ==
    ASSUME NEW acc, Sound(acc.shelf), NEW u \in Spent, acc.used \in SpentFrom(u),
           NEW c \in Ids, NEW kind, NEW item
    PROVE  /\ Sound(WithItem(acc, c, kind, item).shelf)
           /\ WithItem(acc, c, kind, item).used \in SpentFrom(u)
  <1>1. acc.used \in Spent /\ SpentFrom(acc.used) \subseteq SpentFrom(u)
    BY SpentGrows
  <1>2. Sound(WithItem(acc, c, kind, item).shelf)
    BY CreateKeeps DEF WithItem, Kept
  <1>3. WithItem(acc, c, kind, item).used \in SpentFrom(u)
    BY <1>1, AutoResolves DEF WithItem
  <1> QED
    BY <1>2, <1>3

LEMMA CreateBatches == ASSUME DoorsInv, CreateBatch PROVE StepKeeps /\ QuotaInv'
  <1>0. used[month] \in Spent /\ used[month] \in SpentFrom(used[month])
    BY MonthlyLimitAssumption DEF DoorsInv, QuotaInv, Spent, SpentFrom
  <1>1. ASSUME NEW c \in Ids, NEW kind, NEW first, NEW second
        PROVE  /\ Sound(CreateAll(c, kind, first, second).shelf)
               /\ CreateAll(c, kind, first, second).used \in SpentFrom(used[month])
    <2> DEFINE one == WithItem(Batch(shelf, used[month]), c, kind, first)
    <2>1. Sound(one.shelf) /\ one.used \in SpentFrom(used[month])
      BY <1>0, ItemKeeps DEF Batch, DoorsInv
    <2> HIDE DEF one
    <2>2. /\ Sound(WithItem(one, c, kind, second).shelf)
          /\ WithItem(one, c, kind, second).used \in SpentFrom(used[month])
      BY <1>0, <2>1, ItemKeeps
    <2> QED
      BY <2>2 DEF CreateAll, one
  <1>2. PICK tool \in {"create-todos", "create-events"} : \E grant :
           \/ toolError(tool, grant, "read-only token") /\ UNCHANGED quotaVars
           \/ /\ Admitted(tool, grant)
              /\ \E c \in Ids : \E kind, first, second, zone :
                    /\ AnswerBatch(tool, grant, zone, CreateAll(c, kind, first, second))
                    /\ Spend(CreateAll(c, kind, first, second).used)
    BY DEF CreateBatch, Call
  <1>3. StepKeeps
    BY <1>1, <1>2, WriteToolsNeedWrite, ToolFails, RepliedTodos DEF AnswerBatch, DoorsInv
  <1>4. QuotaInv'
    BY <1>1, <1>2, QuotaUntouched, SpendKeeps DEF DoorsInv
  <1> QED
    BY <1>3, <1>4

LEMMA ReadingTools ==
    ASSUME DoorsInv,
           \/ CurrentTime \/ ListEvents \/ GetFreeBusy \/ ListTodos \/ ReportCardTelemetry
           \/ ListKnownLocations \/ ListCalendars \/ ListDeleted
    PROVE  StepKeeps /\ QuotaInv'
  <1>1. CASE CurrentTime
    BY <1>1, ToolFails, QuotaUntouched, Replied DEF CurrentTime, Call, DoorsInv
  <1>2. CASE ListEvents
    BY <1>2, ToolFails, QuotaUntouched, Replied DEF ListEvents, Call, DoorsInv
  <1>3. CASE GetFreeBusy
    BY <1>3, ToolFails, QuotaUntouched, Replied DEF GetFreeBusy, Call, DoorsInv
  <1>4. CASE ListTodos
    BY <1>4, ToolFails, QuotaUntouched, RepliedTodos DEF ListTodos, Call, DoorsInv
  <1>5. CASE ReportCardTelemetry
    BY <1>5, ToolFails, QuotaUntouched, Replied DEF ReportCardTelemetry, Call, DoorsInv
  <1>6. CASE ListKnownLocations
    BY <1>6, ToolFails, QuotaUntouched, Replied DEF ListKnownLocations, Call, DoorsInv
  <1>7. CASE ListCalendars
    BY <1>7, ToolFails, QuotaUntouched, Replied DEF ListCalendars, Call, DoorsInv
  <1>8. CASE ListDeleted
    BY <1>8, ToolFails, QuotaUntouched, RepliedTodos DEF ListDeleted, Call, DoorsInv
  <1> QED
    BY <1>1, <1>2, <1>3, <1>4, <1>5, <1>6, <1>7, <1>8

LEMMA DeleteCalendars == ASSUME DoorsInv, DeleteCalendarTool PROVE StepKeeps /\ QuotaInv'
  BY WriteToolsNeedWrite, ToolFails, QuotaUntouched, Replied, DeleteCollectionKeeps
     DEF DeleteCalendarTool, Call, DoorsInv

LEMMA DeleteObjectTools == ASSUME DoorsInv, DeleteObjectTool PROVE StepKeeps /\ QuotaInv'
  BY WriteToolsNeedWrite, ToolFails, QuotaUntouched, RepliedTodos, DeleteObjectKeeps
     DEF DeleteObjectTool, Call, DoorsInv, Kept

LEMMA Moves == ASSUME DoorsInv, MoveTodo PROVE StepKeeps /\ QuotaInv'
  <1>1. ASSUME NEW grant, allowsWrite(grant), NEW c \in Ids, NEW to \in Ids, c # to, NEW zone,
               NEW task \in shelf.live, task.cal = c, MoveTodoTo(grant, c, to, zone, task)
        PROVE  StepKeeps
    BY <1>1, MoveKeeps, UseCaseFails, KeptIsSound, RepliedTodos DEF MoveTodoTo, DoorsInv
  <1>2. ASSUME NEW c, NEW uid, NEW found, found = Lookup(shelf, c, "VTODO", uid), found # {}
        PROVE  (CHOOSE o \in found : TRUE) \in shelf.live /\ (CHOOSE o \in found : TRUE).cal = c
    BY <1>2 DEF Lookup, WithUid, ObjectsIn
  <1>3. PICK grant :
           /\ UNCHANGED quotaVars
           /\ \/ \E error : toolError("move-todo", grant, error)
              \/ /\ Admitted("move-todo", grant)
                 /\ \E c \in Ids, to \in Ids : \E uid, zone, found :
                       /\ c # to /\ found = Lookup(shelf, c, "VTODO", uid) /\ found # {}
                       /\ MoveTodoTo(grant, c, to, zone, CHOOSE o \in found : TRUE)
    BY DEF MoveTodo, Call
  <1>4. ASSUME NEW error, toolError("move-todo", grant, error) PROVE StepKeeps
    BY <1>4, ToolFails DEF DoorsInv
  <1>5. ASSUME NEW c \in Ids, NEW to \in Ids, c # to, NEW uid, NEW zone, NEW found,
               found = Lookup(shelf, c, "VTODO", uid), found # {}, Admitted("move-todo", grant),
               MoveTodoTo(grant, c, to, zone, CHOOSE o \in found : TRUE)
        PROVE  StepKeeps
    BY <1>1, <1>2, <1>5, WriteToolsNeedWrite
  <1> QED
    BY <1>3, <1>4, <1>5, QuotaUntouched DEF DoorsInv

LEMMA Restores == ASSUME DoorsInv, RestoreDeleted PROVE StepKeeps /\ QuotaInv'
  BY WriteToolsNeedWrite, ToolFails, QuotaUntouched, UseCaseFails, KeptIsSound, RepliedTodos, RestoreObjectKeeps
     DEF RestoreDeleted, Call, DoorsInv

LEMMA Authorizations ==
    ASSUME DoorsInv, Authorize \/ ExternalToken PROVE StepKeeps /\ QuotaInv'
  BY Unmoved, QuotaUntouched DEF Authorize, ExternalToken, DoorsInv

(* Searches in flight, and the turn of the month.                          *)
LEMMA SearchSteps == ASSUME DoorsInv, SearchStep PROVE StepKeeps /\ QuotaInv'
  <1>1. shelf' = shelf
    BY DEF SearchStep, NewMonth, SearchReserves, SearchEnds, SearchDies, SearchAnswer,
           toolError, Reply
  <1>2. CASE NewMonth
    <2>1. month' \in Months
      BY <1>2, LastMonthAssumption DEF NewMonth, DoorsInv, QuotaInv, Months
    <2>2. UNCHANGED <<shelf, used, begun, reserved, asked>>
      BY <1>2 DEF NewMonth
    <2>3. QuotaInv'
      BY <2>1, <2>2 DEF DoorsInv, QuotaInv
    <2> QED
      BY <1>1, <2>3, Unmoved DEF DoorsInv
  <1>3. CASE \E m \in Months : SearchReserves(m) \/ SearchEnds(m) \/ SearchDies(m)
    BY <1>1, <1>3, ReservesKeep, EndsKeep, DiesKeep, Unmoved DEF DoorsInv
  <1> QED
    BY <1>2, <1>3 DEF SearchStep

(* A non-empty set of numbers has a least one.                             *)
LEMMA LeastOf == ASSUME NEW T, T \subseteq Nat, T # {} PROVE \E x \in T : \A y \in T : x <= y
  <1>1. PICK R : R = OpToRel(<, Nat)
    OBVIOUS
  <1>2. PICK x \in T : \A y \in T : ~(<<y, x>> \in R)
    BY <1>1, WFMin, NatLessThanWellFounded, Zenon
  <1>3. \A y \in T : y < x => <<y, x>> \in R
    BY <1>1 DEF OpToRel
  <1>4. \A y \in T : ~(y < x)
    BY <1>2, <1>3, Zenon
  <1>5. x \in Nat /\ \A y \in T : y \in Nat
    OBVIOUS
  <1> QED
    BY <1>4, <1>5

(* The id that create-calendar settles on.                                 *)
LEMMA SettledId ==
    ASSUME NEW name \in Labels, Settled(name) # 0 PROVE Candidate(name, Settled(name)) \in Ids
  <1> DEFINE ends == {a \in 1..MaxSuffix :
                        \/ ~Exists(shelf, Candidate(name, a))
                        \/ Normalized(shelf.cals[Candidate(name, a)].name) = Normalized(name)}
  <1>1. Settled(name) = IF ends = {} THEN 0 ELSE CHOOSE a \in ends : \A b \in ends : a <= b
    BY DEF Settled
  <1>2. ends # {} /\ ends \subseteq Nat /\ ends \subseteq 1..MaxSuffix
    BY <1>1, SlugsAssumption
  <1> HIDE DEF ends
  <1>3. \E a \in ends : \A b \in ends : a <= b
    BY <1>2, LeastOf
  <1>4. Settled(name) \in ends
    BY <1>1, <1>2, <1>3
  <1> QED
    BY <1>2, <1>4, SlugsAssumption

LEMMA CreateCalendars == ASSUME DoorsInv, CreateCalendar PROVE StepKeeps /\ QuotaInv'
  <1>1. ASSUME NEW grant, allowsWrite(grant), NEW zone, NEW c \in Ids, NEW cal, IsCalendar(cal),
               CreateCalendarWithId(grant, zone, c, cal)
        PROVE  StepKeeps
    BY <1>1, UseCaseFails, KeptIsSound, RepliedTodos, CreateCollectionKeeps
       DEF CreateCalendarWithId, DoorsInv
  <1>2. ASSUME NEW grant, allowsWrite(grant), NEW zone,
               NEW cal, IsCalendar(cal), cal.name \in Labels,
               CreateCalendarByName(grant, zone, cal)
        PROVE  StepKeeps
    <2>1. PICK a : a = Settled(cal.name)
      OBVIOUS
    <2>2. CASE a = 0
      BY <1>2, <2>1, <2>2, ToolFails DEF CreateCalendarByName, DoorsInv
    <2>3. CASE a # 0
      <3>1. PICK c : c = Candidate(cal.name, a)
        OBVIOUS
      <3>2. c \in Ids
        BY <1>2, <2>1, <2>3, <3>1, SettledId
      <3> QED
        BY <1>2, <2>1, <2>3, <3>1, <3>2, RepliedTodos, CreateCollectionKeeps
           DEF CreateCalendarByName, DoorsInv, Kept
    <2> QED
      BY <2>2, <2>3
  <1>3. PICK grant :
           IF Admitted("create-calendar", grant)
           THEN \E name \in Labels, comps \in {{"VTODO"}, {"VEVENT"}}, byName \in BOOLEAN,
                   c \in Ids, color \in Colors \cup {NoColor, "no color at all"}, zone \in Zones :
                   LET cal == [name |-> name, comps |-> comps, color |-> color] IN
                   /\ byName => c = SlugOf[name]
                   /\ IF color = "no color at all"
                      THEN toolError("create-calendar", grant, "not a color")
                      ELSE IF byName THEN CreateCalendarByName(grant, zone, cal)
                      ELSE CreateCalendarWithId(grant, zone, c, cal)
                   /\ UNCHANGED quotaVars
           ELSE toolError("create-calendar", grant, "read-only token") /\ UNCHANGED quotaVars
    BY DEF CreateCalendar, Call
  <1>4. ASSUME NEW error, toolError("create-calendar", grant, error) PROVE StepKeeps
    BY <1>4, ToolFails DEF DoorsInv
  <1>5. ASSUME NEW name \in Labels, NEW comps, NEW c \in Ids, NEW color, NEW zone, NEW cal,
               cal = [name |-> name, comps |-> comps, color |-> color],
               Admitted("create-calendar", grant),
               CreateCalendarByName(grant, zone, cal) \/ CreateCalendarWithId(grant, zone, c, cal)
        PROVE  StepKeeps
    BY <1>1, <1>2, <1>5, WriteToolsNeedWrite DEF IsCalendar
  <1> QED
    BY <1>3, <1>4, <1>5, QuotaUntouched DEF DoorsInv

LEMMA UpdateCalendars == ASSUME DoorsInv, UpdateCalendar PROVE StepKeeps /\ QuotaInv'
  <1>1. PICK grant :
           IF Admitted("update-calendar", grant)
           THEN \E c \in Ids, name \in SUBSET Labels,
                   color \in SUBSET (Colors \cup {"no color at all"}) :
                   LET meta == Given(name, color)
                       o == UpdateProperties(shelf, c, meta)
                   IN  /\ Cardinality(name) <= 1 /\ Cardinality(color) <= 1
                       /\ IF meta = <<>> THEN toolError("update-calendar", grant, "nothing to change")
                          ELSE IF ~Ok(o) THEN Failed("update-calendar", grant, o)
                          ELSE IF "no color at all" \in color
                          THEN toolError("update-calendar", grant, "not a color")
                          ELSE Reply("update-calendar", grant, o.shelf, "none", {c})
                       /\ UNCHANGED quotaVars
           ELSE toolError("update-calendar", grant, "read-only token") /\ UNCHANGED quotaVars
    BY DEF UpdateCalendar, Call
  <1>2. ASSUME NEW error, toolError("update-calendar", grant, error) PROVE StepKeeps
    BY <1>2, ToolFails DEF DoorsInv
  <1>3. ASSUME NEW c \in Ids, NEW meta, "comps" \notin DOMAIN meta, NEW o,
               o = UpdateProperties(shelf, c, meta), Admitted("update-calendar", grant),
               \/ ~Ok(o) /\ Failed("update-calendar", grant, o)
               \/ Reply("update-calendar", grant, o.shelf, "none", {c})
        PROVE  StepKeeps
    <2>1. Kept(o, shelf)
      BY <1>3, UpdateKeeps DEF DoorsInv
    <2> QED
      BY <1>3, <2>1, WriteToolsNeedWrite, Replied, UseCaseFails, KeptIsSound DEF DoorsInv
  <1>4. \A name, color : "comps" \notin DOMAIN Given(name, color)
    BY DEF Given
  <1> QED
    BY <1>1, <1>2, <1>3, <1>4, QuotaUntouched DEF DoorsInv

-----------------------------------------------------------------------------
(* The DAV methods.                                                        *)

LEMMA Discoveries == ASSUME DoorsInv, PropfindDiscovery PROVE StepKeeps
  <1>1. PICK where, depth, malformed, filter : Discover(where, depth, malformed, filter)
    BY DEF PropfindDiscovery
  <1>2. CASE \E status : Refuse("PROPFIND", status)
    BY <1>2, RefusedKeeps DEF DoorsInv
  <1>3. CASE \E body : Respond("PROPFIND", ProvisionDefaults(shelf), 207, body)
    BY <1>3, Responded, ProvisionKeeps DEF DoorsInv
  <1> QED
    BY <1>1, <1>2, <1>3 DEF Discover

LEMMA Propfinds == ASSUME DoorsInv, PropfindCalendar \/ PropfindObject PROVE StepKeeps
  BY Responded, RefusedKeeps DEF PropfindCalendar, PropfindObject, DoorsInv

LEMMA Proppatches == ASSUME DoorsInv, Proppatch PROVE StepKeeps
  <1>1. CASE \E status : Refuse("PROPPATCH", status)
    BY <1>1, RefusedKeeps DEF DoorsInv
  <1>2. CASE ~\E status : Refuse("PROPPATCH", status)
    <2>1. PICK c, ops :
             /\ c \in Ids /\ Exists(shelf, c)
             /\ Respond("PROPPATCH", UpdateProperties(shelf, c, PatchMetadata(ops)).shelf,
                        207, {PatchResults(ops)})
      BY <1>2 DEF Proppatch
    <2>2. PICK meta : meta = PatchMetadata(ops)
      OBVIOUS
    <2>3. "comps" \notin DOMAIN meta
      BY <2>2 DEF PatchMetadata, Fields
    <2>4. Sound(UpdateProperties(shelf, c, meta).shelf)
      BY <2>1, <2>3, UpdateKeeps DEF DoorsInv, Kept
    <2>5. CASE Failures(ops) = {}
      <3>1. \A p \in DOMAIN PatchResults(ops) : PatchResults(ops)[p] = 200
        BY <2>5 DEF PatchResults
      <3> QED
        BY <2>1, <2>2, <2>4, <3>1, Responded DEF DoorsInv
    <2>6. CASE Failures(ops) # {}
      <3>1. meta = <<>>
        BY <2>2, <2>6 DEF PatchMetadata
      <3>2. UpdateProperties(shelf, c, meta).shelf = shelf
        BY <2>1, <3>1, NothingToSet DEF DoorsInv
      <3> QED
        BY <2>1, <2>2, <2>4, <3>2, Responded DEF DoorsInv
    <2> QED
      BY <2>5, <2>6
  <1> QED
    BY <1>1, <1>2

LEMMA CalendarMethods == ASSUME DoorsInv, MkCalendar \/ DeleteCalendar PROVE StepKeeps
  <1>1. CASE MkCalendar
    BY <1>1, RunKeeps, CreateCollectionKeeps DEF MkCalendar, DoorsInv, IsCalendar
  <1>2. CASE DeleteCalendar
    BY <1>2, Responded, RefusedKeeps, DeleteCollectionKeeps DEF DeleteCalendar, DoorsInv
  <1> QED
    BY <1>1, <1>2

LEMMA ObjectMethods == ASSUME DoorsInv, PutRequest \/ DeleteRequest PROVE StepKeeps
  <1>1. CASE PutRequest
    BY <1>1, RunKeeps, RefusedKeeps, PutObjectKeeps DEF PutRequest, DoorsInv
  <1>2. CASE DeleteRequest
    BY <1>2, RunKeeps, RefusedKeeps, DeleteObjectKeeps DEF DeleteRequest, DoorsInv
  <1> QED
    BY <1>1, <1>2

LEMMA DavReads ==
    ASSUME DoorsInv,
           \/ ProxyRefused \/ Options \/ Unauthenticated \/ Unroutable \/ Get
           \/ Multiget \/ MultigetOnObject \/ CalendarQuery \/ FreeBusy \/ PrincipalReport
    PROVE  StepKeeps
  <1>1. CASE \E request, status : Refuse(request, status)
    BY <1>1, RefusedKeeps DEF DoorsInv
  <1>2. CASE \E request, status, body : Respond(request, shelf, status, body)
    BY <1>2, Responded DEF DoorsInv
  <1>3. ProxyRefused \/ Options \/ Unauthenticated \/ Unroutable => StepKeeps
    BY <1>1, <1>2 DEF ProxyRefused, Options, Unauthenticated, Unroutable
  <1>4. Get \/ FreeBusy \/ PrincipalReport => StepKeeps
    BY <1>1, <1>2 DEF Get, FreeBusy, PrincipalReport
  <1>5. Multiget \/ MultigetOnObject => StepKeeps
    BY <1>1, <1>2 DEF Multiget, MultigetOnObject
  <1>6. CalendarQuery => StepKeeps
    BY <1>1, <1>2 DEF CalendarQuery
  <1> QED
    BY <1>3, <1>4, <1>5, <1>6

-----------------------------------------------------------------------------
(* The two doors together.                                                 *)

LEMMA DavKeeps == ASSUME DoorsInv, DavRequest PROVE StepKeeps
  BY Discoveries, Propfinds, Proppatches, CalendarMethods, ObjectMethods, DavReads DEF DavRequest

LEMMA McpKeeps == ASSUME DoorsInv, McpCall PROVE StepKeeps /\ QuotaInv'
  BY ReadingTools, SearchLocations, Authorizations, CreateTodos, CreateEvents, CreateBatches,
     CreateCalendars, UpdateCalendars, DeleteCalendars, DeleteObjectTools, Moves, Restores
     DEF McpCall

LEMMA NextKeeps == ASSUME DoorsInv, Next PROVE StepKeeps /\ DoorsInv'
  <1>1. StepKeeps /\ QuotaInv'
    BY DavKeeps, McpKeeps, SearchSteps, QuotaUntouched DEF Next, DoorsInv
  <1> QED
    BY <1>1 DEF StepKeeps, DoorsInv

(* The tables stay sound and the quota within its limit, whatever comes in *)
(* through either door: the inductive invariant, for any number of         *)
(* requests on any calendars.                                              *)
THEOREM DoorsInductive == Spec => []DoorsInv
<1>1. Init => DoorsInv
  <2>1. ASSUME Init PROVE QuotaInv
    BY <2>1, MonthlyLimitAssumption, LastMonthAssumption DEF Init, QuotaInv, Months, Counts, Spent
  <2> QED
    BY <2>1, StartsAssumption DEF Init, DoorsInv
<1>2. DoorsInv /\ [Next]_doorVars => DoorsInv'
  <2>1. ASSUME DoorsInv, UNCHANGED doorVars PROVE DoorsInv'
    BY <2>1, QuotaUntouched DEF doorVars, DoorsInv
  <2> QED
    BY <2>1, NextKeeps
<1> QED
  BY <1>1, <1>2, PTL DEF Spec

(* Both doors, moves, restores and calendars made anew keep every live     *)
(* object in a calendar that is there and takes its kind.                  *)
THEOREM ObjectsFit == Spec => []ObjectsFitTheirCalendar
<1>1. DoorsInv => ObjectsFitTheirCalendar
  BY DEF DoorsInv, Sound, Fits, ObjectsFitTheirCalendar
<1> QED
  BY <1>1, DoorsInductive, PTL

(* Searches in flight together, across the turn of a month, pins and       *)
(* batches never ask the provider more often than the month allows.        *)
THEOREM QuotaIsKept == Spec => []QuotaHolds
<1>1. DoorsInv => QuotaHolds
  <2>1. ASSUME DoorsInv, NEW m \in Months PROVE asked[m] <= MonthlyLimit
    <3>1. asked[m] \in Nat /\ reserved[m] \in Nat /\ used[m] \in Spent /\ asked[m] + reserved[m] <= used[m]
      BY <2>1 DEF DoorsInv, QuotaInv, Counts
    <3> QED
      BY <3>1, MonthlyLimitAssumption DEF Spent
  <2> QED
    BY <2>1 DEF QuotaHolds
<1> QED
  BY <1>1, DoorsInductive, PTL

(* A request that is refused, at either door, has changed nothing.         *)
THEOREM RefusedIsUnchanged == Spec => RefusalsChangeNothing
<1>1. DoorsInv /\ [Next]_doorVars => [Refused(answer') => shelf' = shelf]_doorVars
  BY NextKeeps DEF StepKeeps
<1> QED
  BY <1>1, DoorsInductive, PTL DEF Spec, RefusalsChangeNothing

(* A grant without the write scope changes nothing, with any tool.         *)
THEOREM ReadersOnlyRead == Spec => ReadersDoNotWrite
<1>1. DoorsInv /\ [Next]_doorVars
        => [answer'.door = "mcp" /\ answer'.grant # Legacy /\ "write" \notin answer'.grant
               => shelf' = shelf]_doorVars
  BY NextKeeps DEF StepKeeps, ReadersChangeNothing
<1> QED
  BY <1>1, DoorsInductive, PTL DEF Spec, ReadersDoNotWrite
=============================================================================
