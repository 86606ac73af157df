# A verification project for the BLIK service desk

BLIK is the IT service desk of a school: teachers file tickets, administrators
and interns work on them, plan visits, and send printer cartridges to be
refilled.  The backend is one NestJS process over PostgreSQL
(`src/apps/backend/src`), the client a React application
(`src/apps/frontend/src`).  This directory models the backend and what the
client does with it in TLA+, checks small instances with TLC and proves theorems
with TLAPS.

Paths below are relative to `src/apps/backend/src` unless they begin with
`src/`.

## 1. How the program runs, and what that means for a model

* One Node process.  A handler runs without interruption from one `await` to the
  next, so **every `await` is a point where other handlers may run**.
* PostgreSQL in its default isolation (read committed), reached through Prisma.
  The services read without locks, decide, and write **by id**: nothing compares
  the row with the one that was read.  `$transaction` makes several writes
  atomic, but does not protect what was read before it.
* Crons (`@nestjs/schedule`) run in the same process, at fixed times, and do not
  wait for a slow earlier tick.
* Events (`EventEmitter2`) are delivered in the process after the service's
  write; a crash loses them.
* A failing write (a referent or the row itself is gone) throws: what the
  handler did before stays done.

Hence one form for all modules: an operation is a *request* going through steps.
A READ step takes the snapshot and checks every precondition (the early returns
and thrown exceptions of the handler are its guard), WRITE steps change rows by
id using what the request carries, and what follows a write (a history row, an
event) is a step of its own where it matters.

## 2. Inventory

| Component | State it keeps | Operations | Talks to | Hard part |
|---|---|---|---|---|
| Tickets (`tickets/tickets.service.ts`, `policies/`, `history/`) | `Ticket`, `TicketHistory`, `TicketCollaborator` rows | create, assign, classify, changeStatus, rate, collaborators, tags, setArchived, remove, bulkAction, lists | SLA deadlines, history, events | stale reads, two-step audit, referents that vanish |
| SLA and archive crons (`sla/`, `system/ticket-archive.cron.ts`) | breach flags, `archivedAt` | find, then mark | tickets, notifications | must eventually flag; late marks |
| Accounts (`users/`) | `User` | LDAP upsert and sync, create, setRole, remove | every table with a user reference | removal while requests are in flight |
| Categories (`categories/`) | `Category` | create, update, remove | tickets | count, then delete |
| Cartridges (`cartridges/`, `cartridge-reports/`) | `CartridgeRequest`, `CartridgeReport`, Excel files | create, collect, cancel, scanArrival; generate, close | notifications | batches against single requests, crash between two writes |
| Visits (`tickets/visits/`) | `TicketVisit`, `VisitSlot` | propose, confirm, counter, reschedule, setStatus; reminder cron | tickets, working hours, tasks, notifications | double booking, who agreed to what, reminders |
| Calendar tasks (`tickets/calendar-tasks/`) | `CalendarTask` | create, update, remove | visits | none of its own |
| Working hours (`common/utils/working-hours.ts`, `system/working-hours.service.ts`) | one settings row | get, set | visits, tasks | intervals against days |
| Notifications (`notifications/`) | `Notification`, `NotificationDelivery`, `PendingChannelDelivery`, preferences | event handlers, notifyUsers, flushPending | every service, three channels | quiet hours, at least once, partial failure |
| Refill calendar (`refill-events/`) | `RefillEvent` | create, update, reminder cron | notifications | flags against a moved date |
| Authentication (`auth/`) | `RefreshToken`, `LoginEvent`, `MaxLink` | login, refresh, logout, link and unlink | users, maintenance flag, client | rotation of tokens under concurrent refreshes |
| Client session (`src/apps/frontend/src/shared/api/client.ts`) | one promise of a refresh in flight | request, refresh | authentication | many requests failing at once |
| Feature flags (`system/feature-flags.service.ts`) | `SystemFlag`, a cache of 15 s | isEnabled, set | every service | a load in flight when a flag is set |
| Error log (`system/error-log.service.ts`) | `ErrorLog` | capture, resolve | notifications | one issue per fingerprint |
| Ticket chat (`tickets/tickets.gateway.ts`, `tickets/comments/`) | socket rooms, `TicketComment` | join, leave, typing, comment | policy | access lost while in the room |
| Files (`tickets/attachments/`, `storage/`) | `TicketAttachment`, disk | upload, download | tickets | file and row apart |
| Directory (`auth/ldap/`) | none | bind, search | users | - |
| Routes and guards (`*.controller.ts`, `common/guards/`) | none | every route of the HTTP interface | all services | three layers of refusals (guard, policy, service) |
| Screens (`src/apps/frontend/src/features/`, `app/`) | the cache of the queries | queries, buttons, intervals | every route | rules repeated in the client; answers grown stale |
| Everything else: knowledge base, search, locations, services, snippets, announcements, tags, kiosk | single rows | plain reads and writes | screens | - |
| Documents, messenger signature, configuration | - | pure computations, wiring | - | - |

What makes the modelled components correct:

* **Tickets**: work stands on a classified ticket; moments (first response,
  resolved, closed) agree with the status; nobody loses a ticket; the audit trail
  misses only what a request that failed between its two statements left out; the status follows the map of transitions (only if requests do not
  overlap); lists agree with the access policy.
* **Crons**: a late ticket ends up flagged; only settled tickets are archived.
* **Cartridges**: a code names one cartridge; a batch holds what its sheet
  lists; a filled cartridge went through a closed batch; its author is told once.
* **Visits**: a proposed visit always leaves a choice and a confirmed one always
  has a time; it lies in working hours; it was agreed to by both sides; nobody
  is booked twice; both sides are reminded once.
* **Sessions**: a session has one live refresh token, and none after its logout;
  racing tabs strand nobody; rights taken away end with the access token that
  carries them; maintenance and the directory shut out whom they should; a page
  acts for the user it shows.
* **Notifications**: quiet hours are quiet; an internal note stays inside; nothing
  is told twice; what was held back is sent in the end.
* **Screens**: what is offered is accepted; one's own change is seen; what is
  polled catches up with the server.

The hazards are listed, each at its line, in `PROJECT.json`.

## 3. Modules

| Module | What it is |
|---|---|
| `TicketPolicy` | status machine and RBAC as pure operators |
| `TicketLifecycle` | abstract specification: what a ticket does, seen from outside |
| `Tickets` | the ticket service in steps; `INSTANCE`s `TicketLifecycle` as the refinement target |
| `TicketDesk` | `Tickets` composed with the SLA cron, the archive cron, the passing of time, and the lists |
| `TicketsProofs` | theorems about `Tickets`, and that it implements `TicketLifecycle` |
| `TicketDeskProofs` | theorems about `TicketDesk`; extends `TicketsProofs` |
| `Cartridges` | requests and batches, with a crash at every await |
| `CartridgesProofs` | theorems about `Cartridges` |
| `WorkingHours` | the arithmetic of working days |
| `Visits` | visits, their reminder cron, calendar tasks; extends `TicketPolicy` and `WorkingHours` |
| `VisitsProofs` | theorems about `WorkingHours` and `Visits`, however operations overlap |
| `VisitsSerialProofs` | what `Visits` promises while nothing overlaps |
| `Sessions` | accounts, refresh tokens, the directory, and the tabs of one browser |
| `SessionsProofs` | theorems about `Sessions` |
| `Notifications` | events, recipients, channels, quiet hours, pending deliveries; the refill calendar and the error log |
| `NotificationsProofs` | theorems about `Notifications` |
| `Routes` | what every route admits, reads and writes; instantiates `TicketPolicy` |
| `Pages` | what every page asks and offers, by the client's own rules; extends `Routes` |
| `Screens` | a browser before a page: queries, a button, the server's cache of flags; extends `Pages` |
| `ScreensProofs` | theorems about `Screens`, page by page |
| `MC*` | instances for TLC |

Operators whose comment begins with *Slip* are not part of the model.  Each is a
plausible mistake in the code it stands next to (a dropped guard, a forgotten
reset, the wrong flag), with the parameters of the operator it is an alternative
to.  `PROJECT.json` names, for every property of every passing run, the slip that
makes it fail.

### Tickets

State: `ticket` (the rows), `history` (the actions in each ticket's
`TicketHistory`), `unrecorded` (the writes whose entry was never inserted, a history
variable), `account` and `category` (what foreign keys may refer to),
`dropping` (a category counted as unused whose deletion is under way) and `req`
(the requests in flight: operation, actor, ticket, the values read).

`AssignRead`/`AssignWrite`, `ClassifyRead`/`ClassifyWrite` and so on are the two
halves of one service method; `RecordHistory` is the `history.record` call that
follows, together with the event emitted in the same turn.  `Write` fails, and
the request ends, when the row or a referent of it is gone.  `RecordHistory` fails
when the actor or the ticket is gone, and `Fail` ends a request at any await: a
statement throws, or the process stops, which is this step for every request in
flight.  The update and the entry are two statements without a transaction, so a
request that fails between them leaves its write `unrecorded`; the deletion of an
unused category may stop after its count (`RemoveCategoryFail`).  `bulkAction` is a sequence of the same operations.  `Role` is the role in
the access token, which may be 15 minutes old, so it does not follow the account.
`RemoveUser` is the transaction of `UsersService.remove`: created tickets go to
the sentinel account, executors are set to null, collaborator rows are deleted.

Abstractions: a deadline is `none`, `ahead` or `past` and a moment `none`,
`recent` or `old`; texts, numbers, tags, locations and DTO validation are left
out; a deleted ticket's id is never used again.

### TicketDesk

`SweepResponses`/`MarkResponses` and `SweepResolutions`/`MarkResolutions` are the
find and the update of the two halves of `checkBreaches`; `DeadlinePasses` and
`RetentionPasses` let time pass; `settledFor` is a history variable (how long
ago the status last changed).  `FindAll`, `MyOpenTickets` and `SlaToday` are the
queries of the list and of the home screen as sets of tickets; a deadline ahead may
fall today or later (`DueToday`).  Not modelled: two overlapping runs of the SLA cron,
and failures of the crons' own statements (a tick that fails is followed by another
two minutes later; the liveness properties assume that ticks get through).

### Cartridges

`cart` and `report` are the tables, `sheet` what each Excel file lists,
`announced` how often an author was told, `op` the operations in flight and
`past` what has ever happened (`overlap`, `crash`).  Who asks is left out: every
operation has somebody who may ask for it.  The 20 attempts to draw a code end in
an error that changes nothing.  Saving the sheet and creating the batch's row are
one step, since the file is reachable through the row only.

### Visits

`visit` holds each row with its windows (`slots`), `task` the calendar tasks,
`ticket` and `gone` what other services change; `cron` is the run of the
reminder cron, one visit at a time, and `told` counts reminders for the present
booking (a history variable).  Booking is three steps (read the visit, read the
technician's day, write), a transaction that replaces windows two (delete the
windows it sees, write), so two transactions may leave both sets of windows, as
read committed allows.  Each window carries who offered it; that is history too,
the code does not keep it.  Left out: the history rows and events after a write,
notes, the feature flag (on), changes of the working-hours settings (a constant).

### Sessions

`users`, `refreshTokens`, `maxOwner` and `maintenance` are rows of the database,
`directory` what LDAP would say, `sync` the synchronisation under way, `cookie` and
`tabs` the browser.  A request in `flight` is taken by `Serve` from one await of
`AuthService` to the next (`stage`: known, checked, granted, spent, issued) and by
`Answer` into the tab that sent it.  Each tab has two slots: `form` for what the
user submits and `session` for what the client does by itself; the second is the
`refreshPromise` of `client.ts`, which all calls answered 401 (`wait`) share.
`Lose` drops an answer, `Crash` ends what was being served.  The clock counts in
lifetimes of the access token.  `changed`, `ended`, `raced`, `stranded` and `shut`
are history variables: when rights last changed, which sessions were logged out
of, overlapped or were hit by a loss, and who has been outside the staff group
through a whole synchronisation.  So is `mixed` of a tab: another user's answer took
the cookie over under it, or somebody logged in while its own session request was
in flight (`Overtaken`).  Passwords, throttling, the login log and the
LDAP protocol are left out; a login succeeds or not.

### Notifications

A domain event is a record (what happened, who did it, whom it names, its one
detail).  A handler becomes a job that goes through the awaits of `notifyUsers`:
the recipients and the quiet hours (`Resolve`), one person's preferences and row
(`NotifyUser`), then one channel after the other (`Deliver`), which either sends or
leaves a row in `pending`.  `flushPending` is the cron, `FlushSend` and
`FlushDelete` its two halves for one row.  Roles, the working group, preferences,
subscriptions, MAX links and the quiet hours change in between.  `isWithinQuietHours`
is the code's comparison of minutes; `QuietMinutes`, a count around midnight, is
the reference it is checked against on a day of four moments.  `sent`, `told`,
`again`, `insiders` and `spoilt` are history.  The texts of messages, the outside
services (a send works or not) and delays are left out.

### Routes, Pages and Screens

A *scene* is all that decides whether a route admits a request: the account, how it
stands to the ticket (`creator`, `hand`), the ticket's status, its visit, and
whether the task on the screen is one's own.  `Routes` has for each route the set
of scenes that pass guard, policy and service (`who`), the tables its answer is made
from and the tables it writes; pseudo-tables (`Workload`, `ConfirmedVisit`,
`CommentAttachment`) stand for the part of a table an answer depends on.

`Pages` has for each page the queries (`key`, route, the scenes in which the client
asks) and the buttons (route, the scenes in which the client draws it, the keys
its `onSuccess` declares stale).  The conditions are those of the components
(`CanActOnStatus`, `requesterPicks`, ...), not the server's.

`Screens` watches one query of one page (any of them) while the user presses one
button.  `data` is what the browser knows, `flight` the request under way and, once
the server has read the tables, what it read.  `Execute` changes the tables,
`Succeed` is the `onSuccess`, `Lose` an answer that never comes.  The flags are read
through `FeatureFlagsService.cache`: `BeginLoad` and `StoreLoad` are the two sides of
the await in `load`, `SetFlag` is `set`, `Expire` the end of its 15 seconds.

All other notices leave out the one who caused them; a broadcast (`sendManual`) goes
to its sender too, and its page declares nothing stale.  So `Execute` of a broadcast
leaves a `push` on its way to the sender's socket: `ReceivePush` is the handler of
`useNotificationsSocket`, which declares `notifications` stale, before or after
the answer of the button; `MissPush` is a socket that was not connected.

Abstractions: every feature is on; a query that is refused is not watched; the
changes other people make, the socket messages about them, failed and retried
queries and hidden browser tabs are left out.  The wallboard panel, login and onboarding are not among the
pages.

## 4. Runs

| Run | Bounds | Shows |
|---|---|---|
| `tickets_race` | 1 ticket, 3 users (one of each role), 2 requests at once, the operations of `RacingOperations`, failures | `TypeOK`, `WorkIsClassified`, `MomentsFollowStatus`, `OwnedUnlessRemoved`, `Audited` hold at every interleaving and failure |
| `tickets_apart` | 1 ticket, 2 users, 2 requests of every kind but the rating, no two between read and write of the status at once (`NoOverlap`) | `Tickets` implements `TicketLifecycle` |
| `tickets_stale` | as `tickets_race` | **violation**: overlapping requests leave the map of transitions |
| `desk_sla` | 1 ticket, 3 users, 1 request, both crons | breaches are flagged; lists agree with access |
| `desk_reopened` | same | **violation**: a reopened ticket, late again, is never flagged |
| `desk_home` | same | **violation**: "burning today" lists other people's tickets |
| `desk_archive` | same | **violation**: a ticket rejected today is archived tonight |
| `cartridges` | 2 requests, 2 codes, 2 batches, 2 operations at once, crashes | batches and codes |
| `visits` | 2 visits of 1 ticket, 2 operations at once, 4 steps of clients and services in all (at most 2 by other services), 3 ticks of the cron, 1 crash | bookings, agreements, reminders |
| `sessions` | 2 accounts (a local administrator, a directory user), 2 tabs, 1 call each, 2 tokens, 2 lifetimes, 2 outside events | tokens, cookie, rights, maintenance, directory, MAX launch |
| `notifications` | 3 people, 1 ticket, 1 browser, a day of 4 moments, 1 handler, 2 runs of the cron, 3 outside events | quiet hours, internal notes, no repetition, delivery in the end |
| `screens` | 4 people (an applicant, one who is no employee, an intern, an administrator), every page, every query, 1 button per visit, the push of a broadcast received or missed | offered is accepted, own change shown, polled queries catch up |

Why the bounds are enough: tickets do not interact (each write names one id), so
one ticket with two requests shows every pairwise interference; three users cover
the three roles, and one person may act in several of them.  `tickets_apart` leaves
the history out of the view of a state, since no step is decided by it; `tickets_race`
sees `history` and `unrecorded` as their union, which is all `Audited` asks of them
and which each step changes in one way whether an entry was inserted or lost.  The
instances of `TicketDesk` leave out failing requests.  Two batches and two
cartridges are what it takes for a batch to reach for another's cartridge.  Two
visits are what double booking needs; four steps are two proposals and two
confirmations; the windows are two that overlap and one that spans a night.
Three ticks let a visit be booked, reminded of at both leads, and begin.  Two tabs
race for one cookie, and two tokens are a session and its successor; an access
token lives one unit of the clock and a refresh token two, so one outlives the
other; two outside events are a change and its consequence (a synchronisation
after a departure, a crash after a demotion).  Four moments with a cron at every
second one have a window past midnight, one within the day and none, and moments
at, before and after their ends; two runs of the cron overlap; three events are
the change of a person, of a setting and a crash.  Queries share nothing but the
tables, so one watched query shows whatever any of them can show; and since a
page's data is declared stale by each button separately, one button suffices.
Every bound is a constant of the module or a named guard (`Enabled`, `MaxAnnounced`,
`MaxTold`, `MaxSteps`, `MaxElsewhere`, `Horizon`, `MaxTime`, `MaxTokens`, `MaxEvents`,
`MaxJobs`, `MaxRuns`).

Deadlock is checked in `screens`, where one can always leave a page.  Elsewhere it is
not: a quiet desk, or one whose bounded ids are used up, really stops.

Properties that begin with `Serial =>` (in `Cartridges` and `Visits`) are claimed
while no two operations have overlapped.  Without the premise they fail, by
races listed among the hazards; with it they hold through crashes and any order
of calls.  The others hold at every interleaving.

**Fairness.**  `DeskSpec` assumes weak fairness of `SweepStep` alone: the
scheduler fires the SLA cron every two minutes and the database answers it.
Nothing is assumed of clients, other services or the clock.  `Notifications` assumes
that the delivery cron fires, and that a handler or a run that has begun goes on
(one process, no lock); not that a send works.  `Screens` assumes that a request
is answered, that the interval of a query and the 15 seconds of the cache run
out, and that a load of the cache ends; not that the user does anything.  The
fairness of `Sessions` says that the server goes on and an answer arrives unless
it is lost; its properties are safety only.  All other specifications state
safety only.

**What is excepted.**  `OfferedIsAccepted` names the refusals it knows.  The largest:
the comment on `collaborators` (`tickets/policies/ticket-policy.ts:11`) gives a
collaborator the access of the assigned intern, and the ticket page offers him visits
and tasks; but `VisitsService` and `CalendarTasksService` load the ticket without its
collaborators, so the server refuses them all.  Others are ticking off a
colleague's task on the ticket page, and the two forms of request for accounts the
directory does not call employees.  `OwnChangeShown` names three omissions (the
counts of open tickets in the list of assignees, the warning of a busy technician
after a task was changed, the maintenance banner until its next minute), two
races (a change made before the first answer to a query is there, because
`invalidateQueries` does not restart a first load, and a flag set while the server
was loading the flags) and the sender's own copy of a broadcast when the push
missed his socket.  `CatchesUp` shows that the flags and the list of notifications
heal.

### Findings

1. `tickets_stale`: `assign` writes back the status it read before its awaits, and
   `changeStatus` checks the transition on an old row, so two requests can take a
   ticket along a transition the map (`tickets/ticket-status.ts`) does not have.
2. `desk_reopened`: the resolution check of the SLA cron skips a ticket with
   `resolvedAt`, which reopening never clears.
3. `desk_home`: `slaToday` spreads a `{ OR }` and gives `OR` again, which drops the
   restriction to one's own tickets.
4. `desk_archive`: the archive compares `closedAt`, which an earlier closing left
   behind.

## 5. Proofs

TLAPS proves, for every value of the constants:

* `TypeCorrect`: `Spec => []TypeOK` for `Tickets`.  Inductive together with `Named`:
  a request past its read names its user and ticket and has the arguments its
  operation needs.
* `Safety`, and from it `WorkClassified`, `MomentsAgree`, `NobodyLosesATicket`.
  None of the three is inductive, because a request may write back a status it
  read long ago.  The argument is monotonicity: the facts a status stands on
  (priority, deadlines, moments, an executor) are never taken back while the
  ticket exists (`Grows`), except by removals, which leave their own mark.  So
  `SafetyInv` says that every row justifies its status (`RowSound`) and that every
  request in flight carries a `Pledge`: the status it has seen was justified by
  the row and, since facts only grow, still is.  Each action is shown to move
  tickets `Forward` and to keep rows sound.
* `FitsAsAWhole`: an interval that `checkSlotWithinWorkingHours` accepts by its two
  ends lies in the working hours minute by minute.  The argument is that both ends
  have the same quotient by the length of a day, so every moment between has it
  too, and the remainders are ordered as the moments are.
* `VisitsTypeCorrect`, `AlwaysAChoiceAndATime`, `NeverOutsideHours` for `Visits`,
  from one inductive invariant (`Inv` of `VisitsProofs`).  The two safety
  properties are not inductive: a row is written from what an operation carries
  across its awaits.  So the invariant also bounds the carried data (`OpSound`):
  windows that fit the working hours, at least one of them unless the operation
  only sets a status, and the id of a visit.  No step needs the row to be what it
  was when the operation read it, which is why overlaps and crashes do no harm
  here.

* `TrailComplete`: `Audited`.  What a row shows is accounted for (recorded, about to
  be, or left `unrecorded` by a request that ended between its two statements) by the
  request that wrote it, with one exception: `assign` writes back the status it read.  So the invariant adds that a
  pending assignment `Vouched` for what it read, and that a new ticket has no
  executor, since otherwise its first assignment would be recorded as a
  reassignment.
* `ApartImplements`: `Tickets` implements `TicketLifecycle`, for any number of
  requests, as long as no two that move the status of one ticket are between read and
  write at once (`NoOverlap`); all else may overlap, on that ticket and on others.
  `CurrentInv` says that what such a request has read is still the status of its
  ticket, or the ticket is deleted; only a write of its own kind could change that
  (`StatusKept`, `AdminStatus`).  Then every step is a step of the life cycle of one
  ticket (`LifecycleMoves`) or changes nothing it sees.  `ApartFollowsMap` follows:
  the property `tickets_stale` refutes where the premise fails.  So the missing lock
  harms the life cycle by this one kind of overlap and no other.
  `OneAtATimeImplements` is the case of one request, where the premise is always so.
* `DeskTypeCorrect`, `CronsKeepGuarantees`, `CronsKeepLifecycle`, `ListsAgree` for
  `TicketDesk`: the crons and the clock change marks and ages of rows only
  (`CronsTouch`), so they keep the invariants of the service, `Audited` with its one
  exception included, and
  the refinement; and `VisibilityWhere` is `CanView`.
* `CartridgesTypeCorrect`, `FilledOnlyByItsBatch`, `SheetListsItsBatch`, however
  operations overlap and the process dies.  Closing a batch fills whatever row names
  it, and attaching writes rows read two awaits ago; so `Inv` says that a row in a
  batch has been collected and that an operation carries (`Carries`) only facts
  nobody undoes: an existing row goes on existing, a collected one stays so, a sheet
  is written once (`Persists`).  `CodeIsUnique`, `AuthorsToldOnce` and the action
  property `RequestsOnlyMoveOn` add `SerialInv`: while nothing has overlapped, at
  most one operation is in flight, what it has read is still so, and a row's status
  agrees with its batch's.
* `NobodyBookedTwice`, `ConfirmedByTheOtherSide`, `NeverOverATask` for `Visits` while
  nothing has overlapped.  `Orderly`: one thing is in progress, and its snapshots of
  the visit and of the technician's day are still what the tables say; `Effect`
  says what a step may make of a visit.  `EverybodyRemindedOnce` needs more
  (`Remembers`): a flag is set exactly when its reminder was counted, apart from
  the visit the cron is at and what a crash lost; what the cron has listed is still
  due; and a visit that has begun was due in an earlier quarter of an hour.  The last
  part is why `Visits` assumes `LeadAssumption`: the interval of the cron is no longer
  than either lead, as in the code (15 minutes against 4 hours and 30 minutes).
* All eight invariants of `Sessions`, for every number of tabs, calls, users and
  tokens.  One invariant of types (`Typed`, what a request carries at each stage),
  and on top of it: `RightsInv` (the rights a request carries are the account's, or
  changed in this very moment); `LeaversInv` (those outside the group stay out of the
  list being written, and no login in flight brings them in); `ShownInv` (whom a
  tab shows, and whom its cookie and requests are for); `OwnersInv` (a
  session's tokens are one user's); `RotationInv` (in a session nobody raced in one
  refresh is under way at most, and a live token is the one it carries, until
  spent); `CookieInv` (a spent cookie has its successor on the way to the browser).
* All four invariants of `Notifications`, for every day length, every window and any
  number of handlers.  `QuietHeld` rests on `QuietIsQuiet`, the arithmetic of
  `isWithinQuietHours` against the count modulo a day, windows over midnight
  included, and on the fact that whoever sends read the clock in its present step.
  `NoteStaysInside` needs that the recipients of an internal note were insiders
  when they were resolved, and that `insiders` only grows.  `OnceInv`
  says that a channel a handler has still to serve has neither been served nor been
  put off, and that no two handlers serve one note.
* `ScreensTypeCorrect` and `NothingOfferedInVain` (`OfferedIsAccepted`) for `Screens`:
  for any accounts with any roles, in every relation to what the page shows.  The
  invariant (`BrowserInv`) only says that the scene is one of the open page and the
  key one of its queries; the rest is about the tables of `Routes` and `Pages`, and
  goes page by page (`Honest`), the page of a ticket panel by panel.  What makes
  that page work is `WhoSees`: whoever sees a ticket is an administrator, an intern
  at work on it, or its applicant, and only a helper sees more than the service of
  visits, which loads the ticket without its helpers, lets him.
* `ChangesAreShown` (`OwnChangeShown`).  Again most of it is about tables: on each page
  every button `Declared` stale a key that covers each query it touches, or the key
  is among `Forgotten`, or it is the one a broadcast leaves to the push (`Pushed`) (`Tidy`, page by page; the page of a ticket by sets of tables,
  `ShownUnder` and `DeclaredUnder`), and a page's buttons are told apart by their
  names (`Unique`).  `ShownInv` follows a press through the steps of the browser: the
  button pressed touches the query watched; after an unexcused change of a flag
  neither the server's cache nor a load of it is old (`FlagsFresh`); after the push
  of a broadcast (`PushSeen`) and after the success of any other change
  (`AskedAgain`) the query is on its way, or has been answered with the present.

What the proofs changed.  `ActsAsShown` was false once a browser could hold four
tokens: a tab's session request overtaken by a login put the other user's token
under the name shown.  The bound of the run had hidden it.  The property now says
which request excuses it (`Overtaken`), and the theorem holds for every bound.
`OneLiveToken` needed no exception for lost answers and crashes, and lost it.

Assumptions: only the named `ASSUME`s of the modules (a role for each user, `Null` and
the sentinel are no user, at least one account before a screen, and so on), which TLC
evaluates in every run, and the premises stated in the theorems themselves:
`[]NoOverlap` for the two named *Apart* and for `CronsKeepLifecycle` (two requests
at work on different tickets, or on one without both moving its status, satisfy
it), and one request for the one named *OneAtATime*.

Only model-checked: liveness (`ResponseBreachDetected`,
`FirstResolutionBreachDetected`, `PendingDelivered`, `CatchesUp`), which under
fairness is out of TLAPS's reach.  Every safety property of a passing run is a
theorem.

## 6. Not modelled, and the plan

`PROJECT.json` lists every component with its status.  Next, in this order:

1. The rooms of the ticket chat against access that is lost, and the comment a tab
   misses while a fetch is in flight.
2. Files against rows under partial failure.
3. What each feature does while its flag is off.

Observed, and claimed nowhere, because no text of the repository says otherwise:
moving a refill date does not reset the reminders sent for the old one; the
subscription of a shared browser stays with the account that made it first;
hourly moves let a confirmed visit drift from the agreed time; a message with a
refused file stays, and a second try repeats it.

Left out for good: layout of documents, rendering of screens, wiring and
configuration, the matching of words (tags, search), and single rows read and
written without conditions beyond what `Routes` says of them.
