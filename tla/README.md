# A TLA+ verification of the CalDAV server

This directory holds TLA+ models of the server in this repository and of the two cards
it shows inside chat applications, TLC configurations that check them, and TLAPS proofs.
Paths below are relative to the repository; `repositories.ts` is
`src/infrastructure/d1/repositories.ts`, a use case is named by its class or file, and
`todos-entry.ts` and `agenda-entry.ts` are in `src/presentation/mcp/ui/`.

Contents: 1 the system, 2 the modules, 3 the runs, 4 where the code and its comments
part, 5 fairness, 6 the proofs, 7 what is not modelled.

## 1. The system

The server is a Cloudflare Worker. Every request runs in its own invocation, all of
them share one D1 (SQLite) database, and nothing else is shared: no locks, no memory.
A handler is a sequence of database round trips, and **between any two of them any
other handler may run**. `db.batch([...])` is the only atomic unit: one SQLite
transaction. Two doors lead in: WebDAV (`app.ts`) for calendar clients, MCP
(`server.ts`) for language models and for the cards, which are programs of their own in the
user's browser and talk to the server only by tool calls through their host.

### Inventory

| Component | State it keeps | Operations | Hard behaviours | What makes it correct |
|---|---|---|---|---|
| D1 store and unit of work (`repositories.ts`, `migrations/`) | collection row with `sync_counter`; object rows, live or soft-deleted ("ghosts"); `sync_changes` keyed by token | find*, `saveResource`, `deleteResource`, `restoreResource`, `purgeDeletedBefore`, collection `save` and `delete` | statements that match no row are no errors; constraint violations roll back; ghosts occupy names | gapless unique tokens, every visible change logged, UIDs unique, ghosts never lost |
| Object requests (`PutCalendarObject`, `DeleteCalendarObject`, `RestoreDeleted`, `scheduled`) | what the handler read | one request each | check, then act in a later round trip; death of an invocation | no lost update, truthful answers |
| Collection requests (`CreateCollection`, `ProvisionDefaultCollections`, `UpdateCollectionProperties`, `DeleteCollection`) | the aggregate read | read, then save the whole row; cascade delete | whole-row UPSERT from stale memory; deletion under running writes | no orphans, unique tokens, no change unlogged |
| sync-collection (`SyncCollection`, `changesSince`, `SyncToken`) | the client's token and view | one REPORT: three reads | row, log and bodies are read at different moments; lost answers | nothing missed for good, no needless resync, convergence |
| Compositions by MCP tools (`MoveTodo`, `completeRecurringTodo`, `UpdateTodo`) | what they looked up | two writes, or a write and one retry | one step of two fails; a retry meets its own first step | no loss, no lost edit, no skipped occurrence |
| calendar-query and the occurrence index | `first_occurrence`, `last_occurrence` | index at PUT, filter at query | bounds of infinite or cut-off series, zones | no occurrence in range is filtered out |
| Recurrence expansion, free-busy, time zones | none | pure functions | overrides, EXDATE, limits, merging, DST gaps | agreement of every list with every other |
| iCalendar semantics (`domain/ical/semantics/`) | none | create, patch, complete | value types change, zones are pruned, alarms move along | edits keep what they do not touch |
| WebDAV protocol (`app.ts`, `presentation/dav/`) | none | routing, conditions, PROPPATCH, PROPFIND, REPORT | order of checks and writes | a refusal changes nothing |
| MCP server and tools (`server.ts`) | grants | adapters, batches, place resolution | checks after writes, scopes | as above; readers do not write |
| Geocoding quota | one counter per month | `tryConsume` | concurrent calls at the limit | never more than the limit |
| MCP cards | confirmed and optimistic state, queued sends, render gate, open page | toggles, edits, pushes, refetch, render, detail pages | answers out of order, stale pushes, suppressed renders, lists refreshed under an open page | the last wish wins, nothing optimistic stays, the truth is shown, untouched fields stay |
| Confirmation tokens, OAuth, telemetry, proxy | none | - | nothing is decided by them, or they are external | - |

`PROJECT.json` lists the same components with their status and, under `hazards`, each
place in the code where one of these behaviours bites, with the properties that watch it.

## 2. The modules

```
CalendarStore              the tables of one collection and the batches on them
  ObjectRequests             PUT, DELETE, restore, purge: one step per round trip
    CollectionLifecycle        MKCALENDAR, provisioning, PROPPATCH, deletion
    SyncClients                sync-collection REPORTs and their clients
      SyncRefinement             ... implement ChangeFeed
      CollectionSync             SyncClients + CollectionLifecycle
    ToolWrites                 update, complete, move, delete of a task by MCP tools
ChangeFeed                 the abstract promise: changes one at a time, exact views

CalendarTime               values, zones, instants
  Recurrence                 expansion, index, queries, free/busy of an event
    EventEdits                 create-event, update-event, PUT
      TodoEdits                  the same of tasks; completion of a series
        TaskSheet                  the detail page of the todos card
          EventSheet                 the pages of the agenda card; both together

CardCalls                  tool calls of a card, answered in any order
  TodosCard                  the todos card
  AgendaCard                 the agenda card

Shelf                      one owner's calendars, objects and trash; the use cases
  DavRequests                every route of the WebDAV door
  McpTools                   every tool that is no race; scopes; searches under the geocoding quota
    FrontDoors                 both doors on one shelf

ObjectRequestsProofs       the proofs about object requests, which the next three extend
  SyncProofs <- CollectionSyncProofs
  ToolWritesProofs
CalendarProofs             the proofs about the calendar data and the pages, on EventSheet
AgendaCardProofs, TodosCardProofs, FrontDoorsProofs
MC*                        small instances for TLC
```

The four families model the same objects at four grains. In the first a body is a model
value and time is the order of round trips; in the second one object is looked at from inside
and there are no races; in the third the server is a list behind calls; in the fourth a request is
one step and what counts is which request is refused. A fact one family abstracts from is
the subject of another, as the header of each module says.

### Store, requests, clients

**CalendarStore.** One collection; `owner` and `collection_id` are in every key, so
collections do not interact except in the tools that move objects.

| Code | Model |
|---|---|
| collection row exists / `sync_counter` | `present` / `counter` |
| `calendar_objects`, key `uri` | `rows`: name -> `none`, `live` or `ghost`, with its body |
| `etag` (SHA-256 of the text) | the body itself; collisions are not considered |
| `uid` | `UidOf[body]` |
| `sync_changes` | `log`, a set of records with token, name and kind |
| names made of timestamp and randomness | `Fresh`, each minted at most once (`minted`) |
| `db.batch` | one action; its statements are composed in order |
| WHERE of statements 1 and 2 | `BumpGate` |
| primary keys, the partial UID index, foreign keys | `TokenClash`, `UidClash`, `SaveAborts`, `RestoreAborts`: the batch rolls back and is answered 412 |
| `executeWriteBatch`'s look at `meta.changes` | `Verdict` |
| ghost rename before an object write | `Evacuated` |

The gate is translated with what it says, not what the comments say of it: it matches a
ghost's ETag as well as a live one's.

**ObjectRequests.** `req[w]` is the request worker `w` serves: the round trip it is about
to make (`at`), its input, what it has read (`found`), and the last answer (`out`:
`ok` is 2xx, `conflict` a `ConcurrencyConflictError`, `error` a 500, `refused` any answer
given before a write). `Arrive` is the read of the collection with the evaluation of the `If`
header's sync-token lists; then one action per read and one for the batch. `Crash`
ends an invocation between any two steps, which also stands for a client that hangs up. An
answer lost after the batch leaves the same state as one that arrived.
`Purge` may take any non-empty set of ghosts: how old each is is left open.

**CollectionLifecycle.** `save` overwrites `counter` with the value in memory
(`base`), as the UPSERT does. The aggregate is read in `...Arrive` and saved in a later step.
`deleteCollection` is the DELETE with its ON DELETE CASCADE. MKCALENDAR and a
round of provisioning do the same to the store: read, then save counter 0.

**SyncClients.** `SyncFindRow`, `SyncReadLog`, `SyncFetch` are the three reads of a REPORT;
the new token is the counter of the first, the diff comes from the second, the bodies
from the third. `SyncDeliver` applies the answer and keeps the token; `SyncLose`
drops the REPORT at any point. Clients are external code, modelled by what RFC 6578 and the
comments of `SyncCollection` expect of them: apply the diff, keep the token, start
over on `valid-sync-token`.

**ChangeFeed** is the promise without tables, handlers or REPORTs: a version that advances by one
with each change, and syncs that hand out a version `t` with a view that is
exact for all resources unchanged since `t`. `SyncRefinement` maps it: version is
`counter`, the last change of a name its newest record in `log`.

**ToolWrites.** A tool call is a program counter around whole PUT and DELETE requests of
ObjectRequests, run by the same worker: look the task up by UID, decide, write, and for
`UpdateTodo` once more on a conflict of the same resource. A body has the collection,
the UID, which occurrence of the series it stands at, whether it repeats, whether it is done, and
which acknowledged edits it contains. A call of `UpdateTodo` that completes the task may change other fields as well (`Asked`): they
are patched in before the task is completed, in the snapshot and in the master. `ToolCrash` may end a call between its two writes. `MaxOcc` bounds how far
a series that never ends is followed.

### Calendar data

Time is counted in slots, `DaySlots` to a day; a value is a wall clock with a zone, "date", "utc"
or "floating" (**CalendarTime**). A zone has one transition, so gaps and overlaps exist, and instants
are found from wall clocks by the code's two-step lookup of the offset. **Recurrence** has
the expansion with EXDATE, RDATE, overrides and its limit, the index columns, the
candidates of a query with its slack for other zones, and the merging of busy periods. Rules are "every n
days" with COUNT and UNTIL. **EventEdits** and **TodoEdits** are what `validate`, create, update and
completion do to the fields that say when, including VTIMEZONEs and alarms. Their state is
one stored object; actions are the PUT of a client and the tools' writes.

### The cards

The module state of a card is one record, `card`; each of its functions that changes state is an operator from
a card to the next, so that a handler reads as the sequence of calls it makes. `card.dom` is what the
document shows, and changes only when the code renders. Tool calls are sent, carried out and
answered in three steps of any order (**CardCalls**); a rejected call may or may not have been
carried out. **TodosCard** has lists with optimistic overlays, coalesced toggles,
taps queued for rows being created, pushes of the host (also of an old listing), the gate that suppresses
renders under a page or a focused input, rows that keep their place once drawn. **AgendaCard** has views of a list, a month
or a day, the filter of calendars, the range each read sends and takes over, and the edits of an
event that wait for one another. **TaskSheet** and **EventSheet** are the detail
pages: a working copy made from the row, gestures, the comparison on saving, while other clients write
the object and the list is read again under the open page.

Variables marked as history (`wish`, `told`, `gone`, `newest`, `unsure`, ...) are no part of the code: they record
what the properties compare the state with, and no guard but one reads them: the server gives no id twice (`gone`).

### The two doors

**Shelf** has calendars with their names, colours and component kinds, live objects and the trash, and
each use case as an operator from a shelf to an outcome. **DavRequests** is every
route from the order of its checks to its status, **McpTools** every tool with its scope, its batches
and its answer, and the resolution of places under the monthly quota. Display names are compared as `create-calendar` does,
up to case, blanks and Unicode form (`Normalized`). **FrontDoors** lets requests at either
door follow one another; each is one step, but for searches. These share a row of the quota with whatever runs meanwhile, so
that reading the month, taking a unit of it and asking the provider are steps of their own (`begun`, `reserved`, `asked`, counted per
month): any number of searches overlap, an invocation may die with its unit, and a month may end under way. A use case that throws answers with the shelf its outcome names, so that a move whose
second write failed would show as a refusal that changed something.

## 3. The runs

Deadlock checking is off where every actor may stop or a bound stops all of them; it is on
in MCCalendarData, whose stored object can always be written again.

| Run | Instance | Checks |
|---|---|---|
| MCObjectWrites | 2 workers; 2 names, 2 mintable ones, 3 bodies of 2 UIDs; put, delete, restore, purge; every kind of condition and `If` header; tokens to 4 | `LogContiguous`, `LiveIsLogged`, `UidsUnique`, `EveryChangeLogged`, `NoLostUpdate`, `SuccessIsTrue`, `GhostsSurvive` |
| MCSync | 2 workers, 1 client; 2 names and 1 mintable, 2 bodies; tokens to 2; fairness | `NothingMissed`, `NoSpuriousResync`, `ImplementsFeed`, `Converges` |
| MCLifecycle | 2 workers, 1 client; put, delete, MKCALENDAR, PROPPATCH, deletion of the collection; tokens to 2; 1.6 million states | `NoOrphans`, `TokensUnique`, `LoggedWhilePresent`, `AcceptedTokensMissNothing` |
| MCToolWrites | 2 workers; 2 collections, a task under either kind of name, a series of 2 occurrences, 3 mixes of calls with another client's edits; 5 occurrences at most; tokens to 4 | `MovedTaskExists`, `EditsSurvive`, `NoOccurrenceSkipped` |
| MCTodosCard | 6 mixes of gestures; 3 gestures, 1 change by others, 1 rejected call | `LastWishWins`, `WishIsShown`, `OverlaysEnd`, `SuppressedRendersAreMadeUp`, `ShowsTruth` |
| MCAgendaCard | 10 mixes; 3 days, 2 months that share one, 2 calendars, 3 ids of events, one of which repeats; 3 gestures, 1 rejected call | `KnowsTheList`, `EditsArrive`, `NothingStaysOptimistic`, `DrawsWhatItKnows` |
| MCCalendarData | 4 slots a day; zones half a day east and west and one with daylight saving; 13 events and 11 tasks of clients, up to 2 tool edits of each; all ranges over 6 points, 3 readers | `RangesAgree`, `QueryFindsOccurrences`, `BusyTimeIsExact`, `EditsKeepZonesWhole`, `CompletionTakesOneOccurrence`, `AlarmsFollowTheDate`, `TheQueryFindsWhatIsListed` |
| MCSheets | a device half a day east; 5 tasks and 3 events of clients, in other zones too, one of which begins daylight saving at midnight; 3 gestures on one page, 1 write of others under it; 0.7 million states | `UntouchedFieldsStay`, `PagesAreSavedAsShown` |
| MCFrontDoors | 4 ids, 2 of which share a slug; an empty and a used shelf; 5 mixes of requests, 3 requests each; names that differ in case only; searches over 2 months, with a limit of 2 | `ObjectsFitTheirCalendar`, `QuotaHolds`, `RefusalsChangeNothing`, `ReadersDoNotWrite` |

Why the bounds suffice.

- *Races on the store* are between one request's reads and another's batch, so two workers show
  them; a third write in between is reached by one worker serving two requests while the other
  waits. `MaxToken` bounds arrivals, not batches: requests under way finish. Two names
  and two UIDs are what a UID conflict needs; two bodies of one UID and a third of another tell an update
  from a change of UID. Four tokens allow delete, reuse, delete and restore of one name. MCLifecycle needs one name
  only, since its hazards lie between the collection row and any resource; it leaves restore out for its size.
- *ToolWrites*: a call has at most two writes and one retry, so two workers and one task reach each point
  between them; fields sent with a completion meet the same edits as those of an update; the mixes separate calls whose combination has no property to speak of (a deleted task keeps no edits).
- *Cards*: each behaviour has one mix of gestures, so that the state spaces of the mixes add up. Three gestures are
  tap, undo and one more; every overlay is put on by one gesture and taken off by one answer, so a second
  row and a second call are enough to have them meet in any order.
- *Calendar data*: with four slots a day, offsets of plus and minus two move a value to the day before and the day after; six unrolled
  instances exceed the limit of four, so that cut-off series occur; two edits are there and back.
- *Doors*: each property is about one request after a history; the histories that matter (trash, delete, recreate, move,
  restore) have two steps. Three requests are one search more than the monthly limit, and two months let a search begin in one and
  end in the next.

What the bounds leave open the proofs of section 6 close for object requests, sync, the life cycle, the tools, both
doors, the calendar data, and all but two properties of the cards and their pages. The mixes stay a choice of the instances: a proof holds for every mix.

Symmetry is used for workers, and for names where no constant distinguishes them, and never in
MCSync, which checks liveness.

Each property of a passing run is also checked against a mutated definition, for
example the gate on the object statement only, the change logged before the increment, an overlay that a
failure leaves behind, an alarm shifted by wall clock, a check moved behind its write. TLC finds each violated. The mutated forms stand
beside the definitions they mutate.

## 4. Where the code and its comments part

Three runs check what a comment of the repository says, and TLC finds a
counterexample in what the code does.

| Run | What is said | What happens |
|---|---|---|
| VCounterRollback | the token never goes back (`repositories.ts:412`) | a PUT commits between PROPPATCH's read and its save, which writes the old counter back. The next write clashes with a logged token and is answered 412, and so is each later one |
| VUntilDay | converting UNTIL does not shift the last day (`vevent-patch.ts:287`) | a series east of UTC that is made all-day loses its last day: UNTIL keeps the date it has in UTC |
| VUnanchoredSeries | a recurring task has a DTSTART (`vtodo-patch.ts:177`) | `update-todo` gives a rule to a task with a DUE only and writes no DTSTART; every completion of it then fails |

Rollbacks alone never make a client miss a change, because the clashing key refuses the writes that would reuse
a token: that is `AcceptedTokensMissNothing`, proved for any number of clients and requests. It has two exceptions, both
of which are real. A collection deleted and made anew starts at 0 without the old log, so that a client that slept
through it presents an old token that is accepted as a new one (clients in `outdated`). And a PROPPATCH that read before
the deletion and saves after it brings the row back, or overwrites the new one, with a counter that the new log does not
cover (`torn`): writes may then take tokens that clients were already given.

Other disagreements met while modelling, which no run repeats. Those with a name are stated as a property in
the module given; TLC refutes them on that module's instance.

| Property | Module | What the code does instead |
|---|---|---|
| `RejectedLeavesNoTrace` | ObjectRequests | `repositories.ts:442` says all statements of a batch with a stale ETag are no-ops; the second of two conditional DELETEs is answered 412, yet takes a token and logs a deletion: the gate matches the ghost |
| `RestoreTellsTheTruth` | ObjectRequests | a PUT that reuses the name renames the ghost away; the restore answers success and logs a creation, and nothing is restored (`repositories.ts:657`) |
| `UidNeverChanges` | ObjectRequests | a plain PUT overwrites a resource that was deleted and recreated with another UID after its check (R4, `docs/modeling/03-domain-model.md:330`) |
| `DropWithoutForceIsSafe` | CollectionLifecycle | a PUT between the check for emptiness and the deletion goes with the collection (`delete-collection.ts:19`) |
| `RetryIsAbsorbed` | ToolWrites | a completion repeated after its second PUT failed is refused by its own snapshot, though `recurring-completion.ts:104` says the PUT is absorbed |
| `MovesDeleteWhatTheyCopied` | ToolWrites | `move-todo` deletes the source without condition: an edit or a completion of it that came after the copy was made is deleted with it, though `move-todo.ts:34-42` says that the order of its writes loses nothing |
| `QueryFindsAll` | EventEdits | a series that mixes dates of its own zone with dates of the reader's (a floating EXDATE of a series in UTC; EXDATEs with a time kept by a series made all-day): the EXDATE may exclude, for the index alone, the occurrence that bounds it (`occurrence-bounds.ts:80`) |
| `QueryFindsDueTasks` | TodoEdits | `occurrence-bounds.ts:206` relies on DUE not being before DTSTART, but `validate` lets that pass when a zone must be resolved to compare them; the list shows such a task in a window, the REPORT does not |
| `QueryFindsRepeats` | TodoEdits | rules do not enter a task's index, so a REPORT misses later occurrences; `occurrence-bounds.ts` calls that harmless |
| `SameNameSameCalendar` | FrontDoors | `create-calendar` by a name whose plain slug was freed makes a second calendar of that name (`server.ts:2424`) |
| `EveryTaskHasAChannel` | TodosCard | a task drawn as completed by a pushed listing while its toggle is under way is drawn nowhere when the toggle fails and it is open again (`completed-dedup.ts:20`) |
| `OldListIsNotFresh` | TodosCard | a list the host replays from an old conversation is drawn over a newer one and, as long as the last own reading is less than 2.5 s old, not read again: the card passes for fresh, which `freshness.ts:14-18` names as the hole to close |
| `RetryRepeats` | TodosCard | when an undo fails, the banner's button repeats the tap on the row as it was, and asks for done again instead of the undo |
| `TypedTextSurvives` | TodosCard | a render between the blur and its timer, after a change of the host's context, replaces the draft row and its text is lost (`render-gate.ts:44`) |
| `QueuedTapsHaveARow` | TodosCard | a row whose creation has just been answered is still drawn under its temporary id; a tap on it is queued and never sent |
| `EditsTakeTurns` | AgendaCard | after a deletion that was reported failed, two edits of an event are under way at once (`agenda-entry.ts:4229`) |
| `AnswersAreDrawn` | AgendaCard | the reading after a mutation, answered when the row's animation has ended, is taken in and not drawn (`agenda-entry.ts:4141`) |
| `DeletedRowsAreGone` | AgendaCard | an event the last answer named as added stays drawn while it is deleted (`agenda-entry.ts:1388`) |
| `RangeFitsTheView` | AgendaCard | an answer that comes after a change of view makes its own range the card's (`agenda-entry.ts:1838`) |

And of the detail pages, where the properties of MCSheets say in their definitions what they except:

- A list refreshed under an open page becomes the row its working copy is compared with (`todos-entry.ts:2421`,
  `agenda-entry.ts:2836`). If another client has moved the date meanwhile, the old date of the page
  differs and is sent: a field the user never touched overwrites that client's edit, though the comments
  speak of changed fields only (`todos-entry.ts:2971`, `agenda-entry.ts:3326`).
- The last day of a repetition is shown as UNTIL's day in UTC (`todos-entry.ts:2032`), and that of a floating due is built in UTC.
- Changing another part of a repetition drops its COUNT; a cleared last day is saved as none; a repetition
  without a date is not sent, silently.
- `todos-entry.ts:1991` says that back discards; the code saves.
- A due of another zone is rewritten in the device's when its page is edited.
- Where daylight saving begins at midnight (Beirut) and a series starts at midnight, its last day, if it is the day of the change, is
  stored as 23:00 of the day before, and the page shows that day: the two-step lookup of `localFieldsToEpoch` goes back from a
  clock time that was skipped.
- On a device in such a zone an all-day event of that day is listed, and opened, as of the day before (`event-dto.ts:299`): its date
  becomes an instant and is read back. Tasks, whose dates stay dates, are not affected.
- The page of a later occurrence sends its own date to the master of the series, whose DTSTART moves there
  (`agenda-entry.ts:3336`, against `docs/modeling/12-vevent-agentic.md:14-16`); rows of overrides show no repetition
  though edits go to the series.
- The end of an event with a DURATION or without an end moves with its start; making a timed event all-day within its day is refused;
  of more than two alarms the page keeps two (`agenda-entry.ts:3365`).

Smaller ones: a tool call with an invalid `timeZone` answers `isError` after its write has been made; `report-card-telemetry` is
annotated read-only but needs the write scope; MKCALENDAR ignores `calendar-color` and
`calendar-order`; `tryConsume` admits the first call of a month even under a limit of 0.
As `app.ts` replaces limits that are not above 0 by its default, only a limit between 0 and 1 is ever exceeded; the model
has whole limits (`MonthlyLimitAssumption`).

PUT and DELETE with `If-Match: *` are last-writer-wins by documented design, so a
race there is no finding.

## 5. Fairness

Safety needs none. `Converges` assumes, of the client only:

- weak fairness of `SyncFindRow`: a client polls again and again;
- strong fairness of the other steps of a REPORT: each may die whenever it is reached
  (`SyncLose`), but not every time.

Of the server nothing is assumed. A worker may stop for ever in the middle of a
request, since an invocation may die. That writing stops is not assumed either but follows
from the bound: once `counter` has reached `MaxToken` no request arrives, and those under
way finish, die or stall. So `Converges` says: whatever happened while there were
writes, afterwards the client ends with exactly the live resources.

The cards state no fairness: what must happen in the end (the last wish wins, overlays end, a suppressed
render is made up for) is stated of the states in which nothing is in flight, which needs no assumption about when
answers come.

## 6. The proofs

All theorems hold for every value of the constants that meets the assumptions below: any number of workers, clients,
names, bodies, conditions and tokens; of collections, edits and occurrences; of events, tasks, calendars, days and mixes of
gestures, with any number of gestures, failures and changes by others; of zones, of the dates and rules of an event or task, of readers and
ranges, of instances unrolled; of calendars, objects and requests at the doors. The
sets may be infinite.

| Theorem | Module | States |
|---|---|---|
| `Inductive`, `TypeCorrect` | ObjectRequestsProofs | `Spec => []IInv`, `[]TypeOK` |
| `LogIsContiguous`, `LiveResourcesAreLogged`, `NoUidTwice` | ObjectRequestsProofs | the invariants of MCObjectWrites |
| `ChangesAreLogged` | ObjectRequestsProofs | what readers see never changes without a record |
| `GhostsAreKept` | ObjectRequestsProofs | only the purge loses a deleted resource |
| `UpdatesAreNotLost` | ObjectRequestsProofs | success with `If-Match` or `If-None-Match: *` means the condition held at the commit |
| `SuccessIsNeverALie` | ObjectRequestsProofs | what a success answer says holds in the state it leaves |
| `LifeInductive` | CollectionSyncProofs | `LifecycleSpec => []LifeInv` |
| `NothingIsOrphaned`, `TokensAreUnique`, `NoUidTwiceInAnyLife` | CollectionSyncProofs | the tables stay consistent while collections come and go and counters roll back |
| `ChangesAreLoggedWhilePresent` | CollectionSyncProofs | `LoggedWhilePresent` |
| `SyncInductive` | SyncProofs | `SyncSpec => []SyncInv` |
| `NothingIsMissed`, `NobodyIsSentBack` | SyncProofs | the invariants of MCSync |
| `ImplementsTheFeed` | SyncProofs | sync-collection implements ChangeFeed |
| `NoAcceptedTokenMisses` | CollectionSyncProofs | `AcceptedTokensMissNothing`: clients beside requests that roll the counter back |
| `ToolsInductive` | ToolWritesProofs | `ToolSpec => []ToolInv` |
| `MovesLoseNothing` | ToolWritesProofs | `MovedTaskExists`: however many moves run at once, one copy of the task is left |
| `AcknowledgedEditsSurvive` | ToolWritesProofs | `EditsSurvive`: an answered edit, alone or with a completion, is not written back out by another tool or client |
| `NoOccurrenceIsSkipped` | ToolWritesProofs | `NoOccurrenceSkipped`: each occurrence passed has its snapshot |
| `CardInductive` | AgendaCardProofs | `Spec => []CardInv` |
| `NothingStays`, `EditsReachTheServer` | AgendaCardProofs | `NothingStaysOptimistic`, `EditsArrive` |
| `TheDocumentIsTheState`, `TheListIsKnown` | AgendaCardProofs | `DrawsWhatItKnows`, `KnowsTheList` |
| `TodosInductive` | TodosCardProofs | `Spec => []CardInv` |
| `TheLastTapWins` | TodosCardProofs | `LastWishWins`, for any interleaving of taps, answers, readings and rejections |
| `NoOverlayOutlivesItsCall`, `HeldBackRendersAreMadeUp` | TodosCardProofs | `OverlaysEnd`, `SuppressedRendersAreMadeUp` |
| `EventsFit`, `TodosFit` | CalendarProofs | the stored event or task is well formed, and one its validation accepts |
| `QueriesAgree` | CalendarProofs | `RangesAgree`: an override shows the same whether or not its occurrence was reached |
| `TheIndexHidesNothing` | CalendarProofs | `QueryFindsOccurrences`: an index in UTC and a day of slack serve callers in any zone |
| `BusyTimeIsTold` | CalendarProofs | `BusyTimeIsExact`, for any finite number of occurrences |
| `TheQueryAgreesWithTheList` | CalendarProofs | `TheQueryFindsWhatIsListed`, the same of tasks |
| `ZonesStayWhole` | CalendarProofs | `EditsKeepZonesWhole` |
| `CompletionIsExact`, `AlarmsKeepTheirDistance` | CalendarProofs | `CompletionTakesOneOccurrence`, `AlarmsFollowTheDate` |
| `SheetsFit` | CalendarProofs | what the pages store is accepted by validation; an open page edits a row of its own kind |
| `PagesSendOnlyChanges` | CalendarProofs | `UntouchedFieldsStay`: after any gestures, and whatever others wrote under the page |
| `PagesAreStoredAsShown` | CalendarProofs | `PagesAreSavedAsShown`: for every zone of the object and of the device, with the clock times daylight saving skips |
| `DoorsInductive` | FrontDoorsProofs | `Spec => []DoorsInv` |
| `ObjectsFit`, `QuotaIsKept` | FrontDoorsProofs | `ObjectsFitTheirCalendar`; `QuotaHolds`, for searches that overlap and straddle months |
| `RefusedIsUnchanged`, `ReadersOnlyRead` | FrontDoorsProofs | the action properties `RefusalsChangeNothing`, `ReadersDoNotWrite` |

Assumptions: `NoBody` is no body and `NoName` no name; minted names are not guessed
(`FreshAssumption`); `MaxToken` is a natural number; conditions are of the four kinds. Of the tools: bodies are
all task bodies, and each can be stored under `${uid}.ics`. Of the cards: ids the server gives are no temporary ids, a
month contains its own day and days that exist, the default range is not empty, the lists a behaviour starts with are lists
of rows. Of the doors: the monthly limit is a whole number above 0 (`app.ts:1051`), the ids `create-calendar` derives from names are
among `Ids`, the shelves at the start are sound. Of the calendar data: a zone is less than a day from UTC and its transition skips less than a day, as do its offset and transition
taken together (no zone that crossed the date line, such as Samoa's in 2011); the slack is a day; ranges lie between
0 and `OCCURRENCE_INDEX_MAX`; what clients store and tools are given has the fields of such an object, a rule repeats every day or less often, and an
object has finitely many overrides. Of the pages: the device is in one of the zones, a day has three slots or more (09:00 and 10:00 are slots of one
day), and the days
inputs offer begin at their first slot. TLC evaluates all of them in the runs.

**Object requests.** None of the invariants is inductive by itself. `UidsUnique` needs nothing
of the handlers, since the index refuses what they overlook, but a rename or a restore must not land on
a row: for this `FreshUnused` says that names not yet minted have no row. `LiveIsLogged`
needs `LogContiguous` (the new record has the largest token). `NoLostUpdate`
needs `RequestsCarry`: what a handler carries to its batch is an ETag that satisfied
its condition, so that the compare-and-set of the batch carries the condition over the reads in between.
`IInv` is their conjunction. The proof is cut between handlers and tables: `StepOK` shows once that a step
of any handler is, for the tables, one of the four batches with legal arguments, a minted name, or nothing
(`StoreStep`), and leaves all requests in order (`RequestsOK`). What each batch does to the tables is
one lemma (`SaveKeepsStore`, ...). The other proof modules use the same cut.

**Life cycle.** Beside requests on the collection itself, neither presence nor a gapless log is an
invariant: a PROPPATCH rolls the counter back, a deletion takes the log away. What is left is `LifeInv`: what the keys of the tables alone hold
together. A token is never logged twice because a clash rolls the batch back (`TokenClash`), no row
outlives its collection because of the foreign key (`SaveAborts`), no UID is live twice because of the index. The
requests keep `RequestsOK`, and `StepOK` is reused as it stands.

**Sync.** `SyncInv` adds to `IInv`, for each client, what holds at each stage of its REPORT (`Following`):
every difference between its view and the collection is recorded with a token later than the one it
has, or will get. Two facts about the writers carry this: a step adds at most one record, under the next token
(`LogStep`), and changes only what that record is about (`StepIsLogged`). That a name in the log has a last record
would be an induction over the log; it is part of the invariant instead (`LastExists`). The refinement then
maps batches that record to `Change`, other steps of the handlers to stuttering, and `SyncDeliver` to `Sync`; the remaining steps of a
REPORT stutter.

**Both together.** With rollbacks a client's token may be ahead of the counter, so `Following` no longer holds; what keeps
a token good is that every token up to it was logged (`Covers`). A write takes `counter + 1` only if the log does not
hold it, so that each new record is newer than every covered token (`CoveredIsPast`), however far back the counter is.
`ClientsInv` adds that to `LifeInv`, with `torn` excluded: the counter and each token in the log are covered,
and each client that is not `outdated` tracks the collection (`Tracking`).

**Tools.** `ToolInv` adds to the tables and requests what a tool knows between its round trips (`ToolKnows`), what
a PUT under way will do (`WritesWell`: replace a version of the task by one with the same edits or more, or create a copy
or a snapshot) and what can be read at all (`TablesFit`). Three facts carry the properties. *Edits*: a replacement carries
the ETag of the version it was made from, and the ETag is the body, so that the edits it keeps are those that are there when it
commits. *Snapshots*: the PUT of the moved master is made only after that of the snapshot has
been answered with success, and nothing removes a snapshot. *Moves*: while moves run the task is in several places, and a move may
delete the copy another one has just made. No invariant about a single move holds; what holds is a count: the copies
outnumber the deletions still to come (`CopiesOutnumberDeletions`). A move adds a copy before it adds a deletion, because its PUT
demands that nothing is there, and each DELETE takes one of each. The count is over finite sets, since workers and names may be infinite.

**Agenda card.** `CardInv` has five parts, as the header of AgendaCardProofs says. `EditsInv` holds because an event that is
locked takes no second edit; a deletion that comes back lifts the lock of an edit (`EditsTakeTurns` fails), and the events of which that
happened are excepted (`freed`). `DrawInv` counts failures, because the banner of a failed listing may have been replaced by that of a later one.
`KnowInv` has a witness that moves: the gesture `g` that last changed the range or the filter. Every reading sent at `g` or later asks
for what is shown, and either such a reading has been applied or one is under way. Its cases are cut by class, not by action:
what only draws and reads (`PageStep`), listings that arrive (`ListingStep`), the server's side of a call,
and gestures that send a change; each class keeps `CardInv` by one lemma, and each action is shown to be of a class.

**Todos card.** `LastWishWins` is about the end of a loop of toggles; the invariant is about its middle. A task has one loop at a time,
and its overlay is the wish (`Loops`, `WishesKept`); once the server has carried a toggle out the list says what that call asked
for (`Told`), and it is with this that the loop compares the wish before it stops. The rest is that nobody else writes the task: an id is never given twice
(`Ever`), so that a row created later is none the user has tapped on. `SuppressedRendersAreMadeUp` needs that a suppressed render is marked for later
(`RenderOwed`), and that each way out of a page, a focus or a blur looks at the mark.

**Doors.** `Sound` says of the trash what `ObjectsFitTheirCalendar` says of live objects, and must: `RestoreDeleted` checks
no kinds, so a deleted object has to fit its calendar still when it comes back. That holds because no use case changes a calendar's kinds and a
deletion of the calendar takes the trash along. Each use case keeps the tables sound and leaves them alone when it
throws (`Kept`); each route and each tool then changes them only as `StepKeeps` allows. Two requests write twice: discovery provisions before it
looks, but cannot be refused afterwards; a move's DELETE follows its PUT, but cannot fail, since the object
was just found and the PUT went elsewhere. For the *quota* (`QuotaInv`) the count of a month is never less than the units that were taken of it: those that
searches still hold and those the provider has been asked on; a search that dies makes the sum smaller and leaves the count alone. Batches are folds of a step that keeps `Sound`, nested as far as a batch has items in the model.

**Calendar data.** The invariant is `EventFits` and `TodoFits`: the stored object has the shape of one and was accepted by
validation; the rest is about the operators. What is later by a day on the clock is later in time, in every zone (`LaterDays`):
instances of a rule are therefore in order (`RuleInOrder`), so that the loop over the iterator, which stops at the first
one out of range, has missed none. For *ranges*, what a longer loop adds begins at or after the end of the shorter one, and an
override shows the same as a candidate's and by itself (`NestedOccurrences`). For the *index*, the same value read in two zones is less than
a day apart (`ReadersAgreeOnTheDay`), and so are the two ends of an occurrence although its length is measured in one zone and
its start in another (`OccurrencePeriodsAgree`; this is what the assumption on offset and transition is for). Hence each occurrence a
caller sees has a counterpart in the index less than a day away (`Counterparts`), and the slack is a day. The three conditions of `ReadAlike`
are needed there: an EXDATE or a RECURRENCE-ID must hit in UTC what it hits in the caller's zone, UNTIL must
admit the same instances, and of two overrides of one occurrence the code shows one, which may be another in UTC.
Left out are the day at each end of the time the index covers, where the counterpart falls outside, and RDATEs cut off by the limit.
That a finite set of numbers has a least one is proved by a smallest counterexample (`LeastAndGreatest`), since induction has an operator as a parameter.
For *free/busy*, an expansion is finite (`FiniteExpansion`), and the merging loop is a function of the number of its turns (`coalesced`): that such a
function exists, and that each turn keeps `LoopFits`, are smallest counterexamples too. `LoopFits` says that after some turns the intervals taken so far
are covered exactly, that those pushed lie before the current one and do not meet it, and that none of those left begins before it (`Turns`); the last is
what sorting is for, and why an interval inside the current one may shrink nothing.
For *completion*, the instances of the master that was moved are those of the old one from the second on (`InstancesMoveUp`).

**Pages.** `SheetFits` adds to both the shape of a list's rows and of the open page. What makes `UntouchedFieldsStay` true is that
the comparison on saving is the inverse of the working copy: a copy just made sends nothing (`SheetDrafts`, `EventDrafts`). For an event that
needs a start that is never the empty date, and an end that has a time exactly when the start has one; both are part of the
invariant, because a page is also rendered with rows listed after it was opened. Then a field left alone is not in the patch, and the
patch is applied to what is stored by then (`Patching`, `PatchedEvent`): a new date still changes the type of UNTIL, and nothing else of the rule (`UntilFollows`).

`PagesAreSavedAsShown` asks the opposite of the fields that are sent: what the tool stores must be read back as the page had it. Each
conversion is inverted by one lemma. A date or a clock time typed on the page becomes an instant of the device's zone and comes back the
same (`DuesAreShown`, `DatesAreShown`), because the tools refuse a timed value in a zone with daylight saving
(`FixedZonesSkipNothing`); an all-day value is never refused and comes back where its midnight exists. The last day becomes an UNTIL at the
time of day of the start, in the zone of the start, and its day is read there (`LastDayOfBuilt`); a client's series may be in a zone with daylight saving, and
so the property speaks of last days whose clock time exists. The rule is built for the very start it is stored with, so that its type does not
change again (`BuiltRulesFollow`). A field that is not sent is read as it was: the page was opened with the row of what is stored
(`KeptRepetitions`, `SingleEvents`). All this needs of the invariant that a working copy has days that begin at their first
slot and times within a day, or the cleared input, which no tool accepts.

**Only model-checked.**

- `Converges`: liveness is out of the prover's reach. `NothingMissed`, which is its safety half, is proved.
- `WishIsShown` and `ShowsTruth` of the todos card: they hold for the mixes of gestures of MCTodosCard and
  not for every mix. With deletions and retries under an open page in the view of all tasks, a row that keeps its place may be drawn from
  memory; an invariant would have to name all such combinations. What they rest on, `CardInv`, is proved.

## 7. What is not modelled

Store, requests and clients

- Failure of a read (a rejected D1 promise): the request ends with a 500, as `Crash`. The one failure that a handler swallows, that
  of the search for the owner of a UID in a PUT, is modelled (`PutFindUid`).
- The syntax of token URIs: a token of another collection is refused by its prefix. A REPORT on
  a missing collection (404) changes nothing.
- Overflow of `sync_counter`: an SQLite integer of 64 bits, read as a double; 2^53 writes to one
  collection are out of range.
- Pagination: the server does not truncate REPORTs.
- `update-event`'s and `complete-todo`'s races beyond those of the task tools: they run the same PUT with
  the same single retry.

Calendar data

- Frequencies other than daily and BY parts: they are the iterator's of `ical.js`.
- Parser and serialiser, folding and escaping, names of zones, zones with more than one transition or with one that skips a day: pure
  text and tables, which have unit tests.
- Texts, places of events, travel time and relative alarms of events; journals, whose expansion is the same loop without durations.

Cards

- Creating and recolouring calendars in the agenda, the inline draft row there, marks of the sync lens, swipes and
  their animation, HTML and CSS. On pages only dates and repetition: texts are compared the same way one by one.
- `affected` and the diffs of listings the server computes for them: they are for display.

Doors

- XML text, hrefs and property values; `calendar-order`; property filters on texts.
- Confirmation tokens: this commit issues one to a card and verifies none, so nothing depends on them.
- OAuth, whose state an external library keeps; telemetry; the proxy, of which the Worker sees a method in disguise (modelled).
