------------------------------- MODULE Visits -------------------------------
(***************************************************************************)
(* Visits of a technician to the author of a ticket: VisitsService, the    *)
(* VisitReminderCron that runs every quarter of an hour, and the calendar  *)
(* tasks that make a technician busy.                                      *)
(*                                                                         *)
(* The staff propose one to three windows and the author picks one, or     *)
(* answers with windows of their own and the staff pick.  A confirmed      *)
(* visit that is moved far goes back to be confirmed.  An operation reads  *)
(* the visit, then (to book a time) reads the technician's day, then       *)
(* writes by id; a transaction locks no row it has only read.  The history *)
(* row and the event that follow a write are left out.  Operators marked   *)
(* "Slip" are plausible mistakes, not the code.                            *)
(***************************************************************************)
EXTENDS TicketPolicy, WorkingHours, FiniteSets

CONSTANTS
    Ticket,         \* tickets visits are planned for
    Visit,          \* ids of visits
    Task,           \* ids of calendar tasks
    Sentinel,       \* the "deleted user" account
    Master,         \* accounts with isMaster: they cannot be removed
    Op,             \* how many operations may be in flight at once
    Horizon,        \* the last moment of the clock, in ticks of the cron
    Quarter,        \* minutes between two ticks of the cron
    Window,         \* the windows clients ask for
    Author,         \* the accounts that file the tickets
    MaxSteps,       \* operations begun and steps of other services: a bound
    MaxElsewhere,   \* steps of other services among them: a bound
    SmallShift,     \* SMALL_SHIFT_MS
    Lead,           \* LEAD_MS
    PresenceLead    \* PRESENCE_LEAD_MS

ASSUME VisitSentinelAssumption == Sentinel \notin User /\ Sentinel # Null
ASSUME WindowAssumption ==
    Window \subseteq [start : Nat, end : Nat] /\ Null \notin Window
ASSUME TimesAssumption ==
    {Horizon, Quarter, SmallShift, Lead, PresenceLead, MaxSteps, MaxElsewhere}
        \subseteq Nat
\* A visit that is about to begin is due for both reminders in some run of the
\* cron: 15 minutes against 4 hours and 30 minutes.
ASSUME LeadAssumption == Quarter <= Lead /\ Quarter <= PresenceLead
ASSUME AuthorAssumption == Author \subseteq User
ASSUME VisitNullAssumption == Null \notin Visit \cup Ticket

VARIABLES
    ticket,     \* what visits ask of the Ticket table
    visit,      \* the TicketVisit table, each row with its slots
    task,       \* the CalendarTask table
    gone,       \* accounts that were removed
    op,         \* the operations in flight
    clock,      \* ticks of the cron so far
    cron,       \* the reminder cron's run
    spent,      \* operations begun and steps of other services (bounds)
    told,       \* told[v]: reminders sent for the time v is booked (history)
    past        \* "overlap", "crash": what has ever happened (history)

vars == <<ticket, visit, task, gone, op, clock, cron, spent, told, past>>

rows == <<ticket, visit, task, gone>>

-----------------------------------------------------------------------------
(* Rows, requests, the cron's run *)

Now == clock * Quarter

\* Who offered a window is history: the code keeps the window alone.
Slot == [window : Window, by : {"staff", "author"}]

VisitStatus == {"PROPOSED", "CONFIRMED", "DONE", "CANCELLED"}

\* The row of a visit that is not there yet.
NoVisit == [status |-> "ABSENT", ticket |-> Null, technician |-> Null,
            slots |-> {}, scheduled |-> Null, counterProposed |-> FALSE,
            reminderSentAt |-> FALSE, presenceReminderSentAt |-> FALSE]

NoTask == [owner |-> Null, ticket |-> Null, window |-> Null, done |-> FALSE]

\* What an operation carries across its awaits; for propose, the field visit
\* names the ticket.
Idle == [kind |-> "none", user |-> Null, visit |-> Null, technician |-> Null,
         by |-> "staff", offer |-> {}, doomed |-> {}]

CronIdle == [kind |-> "idle", list |-> {}, visit |-> Null]

\* The cron has finished, or given up, in this quarter of an hour.
CronOver == [kind |-> "presence", list |-> {}, visit |-> Null]

\* Reminders for one booked time are counted up to two: a bound of the model.
MaxTold == 2

TicketRow ==
    [createdBy : User \cup {Sentinel}, assignedTo : User \cup {Null},
     collaborators : {{}}, there : BOOLEAN]

VisitRow ==
    [status : VisitStatus \cup {"ABSENT", "DELETED"},
     ticket : Ticket \cup {Null}, technician : User \cup {Null, Sentinel},
     slots : SUBSET Slot, scheduled : Window \cup {Null},
     counterProposed : BOOLEAN, reminderSentAt : BOOLEAN,
     presenceReminderSentAt : BOOLEAN]

TaskRow ==
    [owner : User \cup {Null}, ticket : Ticket \cup {Null},
     window : Window \cup {Null}, done : BOOLEAN]

OpState ==
    [kind : {"none", "propose", "confirm", "book", "counter", "recount",
             "nudge", "shift", "postpone", "recall", "return",
             "DONE", "CANCELLED"},
     user : User \cup {Null}, visit : Visit \cup Ticket \cup {Null},
     technician : User \cup {Null, Sentinel}, by : {"staff", "author"},
     offer : SUBSET Slot, doomed : SUBSET Slot]

CronState ==
    [kind : {"idle", "reminder", "presence"},
     list : SUBSET Visit, visit : Visit \cup {Null}]

ToldState ==
    [reminder : 0 .. MaxTold, presence : 0 .. MaxTold, since : 0 .. Horizon]

\* No row refers to an account that was removed.
NoReferenceTo(users) ==
    /\ \A v \in Visit : visit[v].technician \notin users
    /\ \A t \in Ticket :
          ticket[t].createdBy \notin users /\ ticket[t].assignedTo \notin users
    /\ \A k \in Task : task[k].owner \notin users

TypeOK ==
    /\ ticket \in [Ticket -> TicketRow]
    /\ visit \in [Visit -> VisitRow]
    /\ task \in [Task -> TaskRow]
    /\ gone \subseteq User
    /\ op \in [Op -> OpState]
    /\ clock \in 0 .. Horizon
    /\ cron \in CronState
    /\ spent \in [ops : 0 .. MaxSteps, elsewhere : 0 .. MaxElsewhere]
    /\ told \in [Visit -> ToldState]
    /\ past \subseteq {"overlap", "crash"}
    /\ NoReferenceTo(gone)

Init ==
    /\ ticket \in [Ticket -> {[createdBy |-> u, assignedTo |-> Null,
                               collaborators |-> {}, there |-> TRUE] : u \in Author}]
    /\ visit = [v \in Visit |-> NoVisit]
    /\ task = [k \in Task |-> NoTask]
    /\ gone = {}
    /\ op = [o \in Op |-> Idle]
    /\ clock = 0
    /\ cron = CronIdle
    /\ spent = [ops |-> 0, elsewhere |-> 0]
    /\ told = [v \in Visit |-> [reminder |-> 0, presence |-> 0, since |-> 0]]
    /\ past = {}

-----------------------------------------------------------------------------
(* The steps of an operation *)

Running(o) == op[o] # Idle

CronRunning == cron \notin {CronIdle, CronOver}

Noticed(overlap) == past' = IF overlap THEN past \cup {"overlap"} ELSE past

MoreSteps == spent.ops + spent.elsewhere < MaxSteps

\* A request arrives and its first read lets it go on.
Begin(o, next) ==
    /\ ~Running(o)
    /\ op' = [op EXCEPT ![o] = next]
    /\ Noticed(CronRunning \/ \E p \in Op : Running(p))
    /\ MoreSteps
    /\ spent' = [spent EXCEPT !.ops = @ + 1]
    /\ UNCHANGED <<rows, clock, cron, told>>

Continue(o, next) ==
    /\ op' = [op EXCEPT ![o] = next]
    /\ UNCHANGED <<ticket, task, gone, clock, cron, spent, past>>

\* A row is written by id.  A row that is gone makes the write, and with it
\* the operation, fail.
Write(o, row) ==
    LET v == op[o].visit IN
    /\ visit' = IF visit[v].status = "DELETED" THEN visit
                ELSE [visit EXCEPT ![v] = row]
    /\ Continue(o, Idle)

\* The visit has a new time: nobody was reminded of it yet.
Untold(v) == told' = [told EXCEPT ![v] =
                        [reminder |-> 0, presence |-> 0, since |-> clock]]

IsTech(u, row) ==
    row.technician = u \/ ticket[row.ticket].assignedTo = u

IsAdmin(u) == Role[u] = "ADMIN"

IsRequester(u, row) == ticket[row.ticket].createdBy = u

Planned(v) == visit[v].status \in {"PROPOSED", "CONFIRMED"}

-----------------------------------------------------------------------------
(* Windows and the technician's day *)

\* Slip: the days in between, and their nights, are not looked at.
WindowByItsEnds(w) ==
    w.start < w.end /\ w.start >= Now /\ EndsWithinWorkingHours(w.start, w.end)

WindowAllowed(w) ==
    /\ w.start < w.end
    /\ w.start >= Now
    /\ FitsWorkingHours(w.start, w.end)

OfferBy(side, ws) == [window : ws, by : {side}]

MayOffer(ws) ==
    /\ Cardinality(ws) \in 1 .. 3
    /\ \A w \in ws : WindowAllowed(w)

Overlap(w, x) == w.start < x.end /\ w.end > x.start

BusyVisit(technician, w, except) ==
    \E v \in Visit \ {except} :
        /\ visit[v].technician = technician
        /\ visit[v].status = "CONFIRMED"
        /\ Overlap(visit[v].scheduled, w)

BusyTask(technician, w) ==
    \E k \in Task :
        /\ task[k].owner = technician
        /\ ~task[k].done
        /\ Overlap(task[k].window, w)

\* Slip: only tasks make a technician busy.
BusyWithTasks(technician, w, except) == BusyTask(technician, w)

\* Slip: only visits make a technician busy.
BusyWithVisits(technician, w, except) == BusyVisit(technician, w, except)

FindTechnicianConflicts(technician, w, except) ==
    BusyVisit(technician, w, except) \/ BusyTask(technician, w)

-----------------------------------------------------------------------------
(* propose *)

ProposeRead(o, u, t, ws) ==
    /\ ticket[t].there
    /\ CanView(u, ticket[t])
    /\ IsStaffRole(u)
    /\ MayOffer(ws)
    /\ Begin(o, [Idle EXCEPT !.kind = "propose", !.user = u, !.visit = t,
                    !.technician = IF ticket[t].assignedTo # Null
                                   THEN ticket[t].assignedTo ELSE u,
                    !.offer = OfferBy("staff", ws)])

\* The row refers to the ticket, the technician and the proposer.
ProposeWrite(o) ==
    /\ op[o].kind = "propose"
    /\ IF ticket[op[o].visit].there /\ {op[o].technician, op[o].user} \cap gone = {}
       THEN \E v \in Visit :
                /\ visit[v].status = "ABSENT"
                /\ visit' = [visit EXCEPT ![v] =
                        [NoVisit EXCEPT !.status = "PROPOSED",
                            !.ticket = op[o].visit,
                            !.technician = op[o].technician,
                            !.slots = op[o].offer]]
       ELSE UNCHANGED visit
    /\ Continue(o, Idle)
    /\ UNCHANGED told

-----------------------------------------------------------------------------
(* confirm: read, look at the technician's day, write *)

ConfirmRead(o, u, v, s) ==
    /\ visit[v].status = "PROPOSED"
    /\ IF visit[v].counterProposed
       THEN IsTech(u, visit[v]) \/ IsAdmin(u)
       ELSE IsRequester(u, visit[v])
    /\ s \in visit[v].slots
    /\ Begin(o, [Idle EXCEPT !.kind = "confirm", !.visit = v,
                    !.technician = visit[v].technician, !.offer = {s},
                    !.by = IF visit[v].counterProposed THEN "staff" ELSE "author"])

\* The one window the operation is about.
Chosen(o) == CHOOSE w \in Window : \E s \in op[o].offer : s.window = w

\* The technician's day is read: a conflict ends the operation.
CheckConflicts(o, kind, next) ==
    /\ op[o].kind = kind
    /\ Continue(o, IF FindTechnicianConflicts(op[o].technician, Chosen(o), op[o].visit)
                   THEN Idle ELSE [op[o] EXCEPT !.kind = next])
    /\ UNCHANGED <<visit, told>>

\* The reminders are due anew.
Booked(row, w) == [row EXCEPT !.scheduled = w, !.reminderSentAt = FALSE,
                              !.presenceReminderSentAt = FALSE]

ConfirmWrite(o) ==
    /\ op[o].kind = "book"
    /\ Write(o, [Booked(visit[op[o].visit], Chosen(o)) EXCEPT
                    !.status = "CONFIRMED", !.counterProposed = FALSE])
    /\ Untold(op[o].visit)

-----------------------------------------------------------------------------
(* counter, reschedule *)

CounterRead(o, u, v, ws) ==
    /\ visit[v].status = "PROPOSED"
    /\ IsRequester(u, visit[v])
    /\ MayOffer(ws)
    /\ Begin(o, [Idle EXCEPT !.kind = "counter", !.visit = v,
                    !.by = "author", !.offer = OfferBy("author", ws)])

\* A transaction deletes the slots it sees; another one may have inserted
\* slots it does not see.
DeleteSlots(o, kind, next) ==
    /\ op[o].kind = kind
    /\ Continue(o, [op[o] EXCEPT !.kind = next, !.doomed = visit[op[o].visit].slots])
    /\ UNCHANGED <<visit, told>>

\* Slip: the windows are not put in place of those that were there.
AddOnly(row, o) == row.slots \cup op[o].offer

\* Slip: the new windows are forgotten.
DeleteOnly(row, o) == row.slots \ op[o].doomed

NewSlots(row, o) == (row.slots \ op[o].doomed) \cup op[o].offer

Countered(row, o) ==
    [row EXCEPT !.counterProposed = TRUE, !.slots = NewSlots(row, o)]

CounterWrite(o) ==
    /\ op[o].kind = "recount"
    /\ Write(o, Countered(visit[op[o].visit], o))
    /\ UNCHANGED told

Distance(a, b) == IF a < b THEN b - a ELSE a - b

\* A visit moved by more than SmallShift goes back to be confirmed.
RescheduleRead(o, u, v, w) ==
    /\ visit[v].status = "CONFIRMED"
    /\ IsTech(u, visit[v]) \/ IsAdmin(u)
    /\ WindowAllowed(w)
    /\ Begin(o, [Idle EXCEPT !.visit = v, !.technician = visit[v].technician,
                    !.offer = OfferBy("staff", {w}),
                    !.kind = IF Distance(w.start, visit[v].scheduled.start) > SmallShift
                             THEN "postpone" ELSE "nudge"])

ShiftWrite(o) ==
    /\ op[o].kind = "shift"
    /\ Write(o, Booked(visit[op[o].visit], Chosen(o)))
    /\ Untold(op[o].visit)

ReturnWrite(o) ==
    /\ op[o].kind = "return"
    /\ Write(o, [Booked(visit[op[o].visit], Null) EXCEPT
                    !.status = "PROPOSED", !.counterProposed = FALSE,
                    !.slots = NewSlots(visit[op[o].visit], o)])
    /\ Untold(op[o].visit)

-----------------------------------------------------------------------------
(* setStatus *)

SetStatusRead(o, u, v, status) ==
    /\ Planned(v)
    /\ \/ IsTech(u, visit[v]) \/ IsAdmin(u)
       \/ status = "CANCELLED" /\ IsRequester(u, visit[v])
    /\ Begin(o, [Idle EXCEPT !.kind = status, !.visit = v])

SetStatusWrite(o) ==
    /\ op[o].kind \in {"DONE", "CANCELLED"}
    /\ Write(o, [visit[op[o].visit] EXCEPT !.status = op[o].kind])
    /\ UNCHANGED told

OpStep(o) ==
    \/ \E u \in User, t \in Ticket, ws \in SUBSET Window : ProposeRead(o, u, t, ws)
    \/ ProposeWrite(o)
    \/ \E u \in User, v \in Visit :
          \/ \E s \in visit[v].slots : ConfirmRead(o, u, v, s)
          \/ \E ws \in SUBSET Window : CounterRead(o, u, v, ws)
          \/ \E w \in Window : RescheduleRead(o, u, v, w)
          \/ \E status \in {"DONE", "CANCELLED"} : SetStatusRead(o, u, v, status)
    \/ CheckConflicts(o, "confirm", "book")
    \/ ConfirmWrite(o)
    \/ DeleteSlots(o, "counter", "recount")
    \/ CounterWrite(o)
    \/ CheckConflicts(o, "nudge", "shift")
    \/ ShiftWrite(o)
    \/ CheckConflicts(o, "postpone", "recall")
    \/ DeleteSlots(o, "recall", "return")
    \/ ReturnWrite(o)
    \/ SetStatusWrite(o)

-----------------------------------------------------------------------------
(* Calendar tasks: one statement each after their checks.  Somebody is     *)
(* always allowed to change or drop a task: its owner.                      *)

\* A step of another service, taken at once.
Meanwhile ==
    /\ Noticed(CronRunning \/ \E o \in Op : Running(o))
    /\ MoreSteps /\ spent.elsewhere < MaxElsewhere
    /\ spent' = [spent EXCEPT !.elsewhere = @ + 1]
    /\ UNCHANGED <<op, clock, cron, told>>

TaskStep(k, row) ==
    /\ task' = [task EXCEPT ![k] = row]
    /\ Meanwhile
    /\ UNCHANGED <<ticket, visit, gone>>

CreateTask(u, owner, k, t, w) ==
    /\ task[k] = NoTask
    /\ {u, owner} \cap gone = {}
    /\ IsStaffRole(u) /\ IsStaffRole(owner)
    /\ owner = u \/ IsAdmin(u)
    /\ t # Null => ticket[t].there /\ CanView(u, ticket[t])
    /\ WindowAllowed(w)
    /\ TaskStep(k, [owner |-> owner, ticket |-> t, window |-> w, done |-> FALSE])

MoveTask(k, w) ==
    /\ task[k] # NoTask
    /\ WindowAllowed(w)
    /\ TaskStep(k, [task[k] EXCEPT !.window = w])

SetTaskDone(k, done) ==
    /\ task[k] # NoTask
    /\ TaskStep(k, [task[k] EXCEPT !.done = done])

RemoveTask(k) == task[k] # NoTask /\ TaskStep(k, NoTask)

-----------------------------------------------------------------------------
(* What other services do to these tables *)

\* TicketsService.assign
AssignTicket(t, u) ==
    /\ ticket[t].there
    /\ IsStaffRole(u) /\ u \notin gone
    /\ ticket' = [ticket EXCEPT ![t].assignedTo = u]
    /\ Meanwhile
    /\ UNCHANGED <<visit, task, gone>>

\* TicketsService.remove: visits and tasks of the ticket go with it.
DeleteTicket(t) ==
    /\ ticket[t].there
    /\ ticket' = [ticket EXCEPT ![t].there = FALSE]
    /\ visit' = [v \in Visit |-> IF visit[v].ticket = t
                                 THEN [NoVisit EXCEPT !.status = "DELETED"]
                                 ELSE visit[v]]
    /\ task' = [k \in Task |-> IF task[k].ticket = t THEN NoTask ELSE task[k]]
    /\ Meanwhile
    /\ UNCHANGED gone

\* Slip: visits are left with the account that goes.
VisitLeft(row, u) == row

VisitHandedOver(row, u) ==
    IF row.technician = u THEN [row EXCEPT !.technician = Sentinel] ELSE row

TicketHandedOver(row, u) ==
    [row EXCEPT !.createdBy = IF @ = u THEN Sentinel ELSE @,
                !.assignedTo = IF @ = u THEN Null ELSE @]

\* UsersService.remove, one transaction.
RemoveUser(u) ==
    /\ u \notin gone \cup Master
    /\ gone' = gone \cup {u}
    /\ ticket' = [t \in Ticket |-> TicketHandedOver(ticket[t], u)]
    /\ visit' = [v \in Visit |-> VisitHandedOver(visit[v], u)]
    /\ task' = [k \in Task |-> IF task[k].owner = u THEN NoTask ELSE task[k]]
    /\ Meanwhile

Elsewhere ==
    \/ \E u, owner \in User, k \in Task, t \in Ticket \cup {Null}, w \in Window :
            CreateTask(u, owner, k, t, w)
    \/ \E k \in Task, w \in Window : MoveTask(k, w)
    \/ \E k \in Task, done \in BOOLEAN : SetTaskDone(k, done)
    \/ \E k \in Task : RemoveTask(k)
    \/ \E t \in Ticket, u \in User : AssignTicket(t, u)
    \/ \E t \in Ticket : DeleteTicket(t)
    \/ \E u \in User : RemoveUser(u)

-----------------------------------------------------------------------------
(* The reminder cron: list what is due, then mark each and notify *)

DueWithin(v, lead) ==
    /\ visit[v].status = "CONFIRMED"
    /\ visit[v].scheduled.start > Now
    /\ visit[v].scheduled.start <= Now + lead

RemindersDue == {v \in Visit : ~visit[v].reminderSentAt /\ DueWithin(v, Lead)}

\* Slip: the other reminder's flag is asked.
PresenceDueUnreminded ==
    {v \in Visit : ~visit[v].reminderSentAt /\ DueWithin(v, PresenceLead)}

PresenceDue ==
    {v \in Visit : ~visit[v].presenceReminderSentAt /\ DueWithin(v, PresenceLead)}

CheckVisitReminders ==
    /\ cron = CronIdle
    /\ cron' = [kind |-> "reminder", list |-> RemindersDue, visit |-> Null]
    /\ Noticed(\E o \in Op : Running(o))
    /\ UNCHANGED <<rows, op, clock, spent, told>>

CheckPresenceReminders ==
    /\ cron = [CronOver EXCEPT !.kind = "reminder"]
    /\ cron' = [kind |-> "presence", list |-> PresenceDue, visit |-> Null]
    /\ UNCHANGED <<rows, op, clock, spent, told, past>>

\* Marking a visit that is gone throws, which ends the whole run.
MarkReminded(v) ==
    /\ cron.visit = Null /\ v \in cron.list
    /\ IF visit[v].status = "DELETED"
       THEN cron' = CronOver /\ UNCHANGED visit
       ELSE /\ cron' = [cron EXCEPT !.visit = v]
            /\ visit' = IF cron.kind = "reminder"
                        THEN [visit EXCEPT ![v].reminderSentAt = TRUE]
                        ELSE [visit EXCEPT ![v].presenceReminderSentAt = TRUE]
    /\ UNCHANGED <<ticket, task, gone, op, clock, spent, told, past>>

AtMostTwice(n) == IF n < MaxTold THEN n + 1 ELSE n

NotifyReminded ==
    /\ cron.visit # Null
    /\ cron' = [cron EXCEPT !.visit = Null, !.list = @ \ {cron.visit}]
    /\ told' = IF cron.kind = "reminder"
               THEN [told EXCEPT ![cron.visit].reminder = AtMostTwice(@)]
               ELSE [told EXCEPT ![cron.visit].presence = AtMostTwice(@)]
    /\ UNCHANGED <<rows, op, clock, spent, past>>

CronStep ==
    \/ CheckVisitReminders
    \/ CheckPresenceReminders
    \/ \E v \in Visit : MarkReminded(v)
    \/ NotifyReminded

\* A quarter of an hour passes: neither the cron's run nor an operation takes
\* that long.
Tick ==
    /\ cron = CronOver
    /\ \A o \in Op : ~Running(o)
    /\ clock < Horizon
    /\ clock' = clock + 1
    /\ cron' = CronIdle
    /\ UNCHANGED <<rows, op, spent, told, past>>

\* The process dies in the middle of the cron's run: the rest of the run and
\* the operations in flight are lost.  Elsewhere a crash is an operation that
\* takes no further step.  Once is enough: a bound of the model.
Crash ==
    /\ "crash" \notin past
    /\ CronRunning
    /\ op' = [o \in Op |-> Idle]
    /\ cron' = CronOver
    /\ past' = past \cup {"crash"}
    /\ UNCHANGED <<rows, clock, spent, told>>

Next == (\E o \in Op : OpStep(o)) \/ Elsewhere \/ CronStep \/ Tick \/ Crash

Spec == Init /\ [][Next]_vars

-----------------------------------------------------------------------------
(* What holds however operations, cron and crashes interleave *)

\* A confirmed visit has a time and a proposed one has windows to choose from,
\* although slots are replaced and times written back by overlapping operations.
TimesMatchStatus ==
    \A v \in Visit :
        /\ visit[v].status = "CONFIRMED" => visit[v].scheduled # Null
        /\ visit[v].status = "PROPOSED" => visit[v].slots # {}

\* Nobody is visited outside working hours: every minute of a booked time, not
\* only its ends, lies in the hours of one working day.
VisitsInWorkingHours ==
    \A v \in Visit :
        visit[v].scheduled # Null =>
            \A t \in visit[v].scheduled.start .. visit[v].scheduled.end :
                IsWithinWorkingHours(t)

-----------------------------------------------------------------------------
(* What holds as long as nothing has overlapped *)

Serial == "overlap" \notin past

\* No technician is booked for two visits at once.  The visits of removed
\* technicians come together at the sentinel account.
NoDoubleBooking ==
    Serial =>
        \A v, w \in Visit :
            /\ v # w
            /\ visit[v].status = "CONFIRMED" /\ visit[w].status = "CONFIRMED"
            /\ visit[v].technician = visit[w].technician
            /\ visit[v].technician # Sentinel
            => ~Overlap(visit[v].scheduled, visit[w].scheduled)

\* Both sides are reminded once of every booked time: of one that begins now
\* or earlier, both reminders went out, if the cron ran between the booking
\* and the beginning.  A crash may cost a reminder and never sends one twice.
RemindedOnce ==
    Serial =>
        \A v \in Visit :
            /\ told[v].reminder <= 1 /\ told[v].presence <= 1
            /\ /\ visit[v].status = "CONFIRMED"
               /\ visit[v].scheduled.start <= Now
               /\ visit[v].scheduled.start > (told[v].since + 1) * Quarter
               /\ "crash" \notin past
               => told[v].reminder = 1 /\ told[v].presence = 1

\* A time becomes confirmed only by the side that did not offer it.
OtherSideConfirms ==
    [][Serial' => \A v \in Visit :
          visit[v].status = "PROPOSED" /\ visit'[v].status = "CONFIRMED" =>
              \E o \in Op :
                  /\ op[o].kind = "book" /\ op[o].visit = v
                  /\ \A s \in op[o].offer : s.by # op[o].by]_vars

\* A visit is never put over a task its technician has yet to do, although a
\* task may be put over a visit.
BookedAroundTasks ==
    [][Serial' => \A v \in Visit :
          \/ visit'[v].scheduled \in {visit[v].scheduled, Null}
          \/ ~BusyTask(visit[v].technician, visit'[v].scheduled)]_vars
=============================================================================
