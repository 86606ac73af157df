--------------------------- MODULE Notifications ---------------------------
(***************************************************************************)
(* The notification service: who is told of a domain event, through which  *)
(* channels, and what waits for the end of the quiet hours; with the       *)
(* sources of its own events, the calendar of planned refills and the log  *)
(* of errors.  Handlers run concurrently, one await at a time; the ticket, *)
(* the people and the settings may change under them.                      *)
(***************************************************************************)
EXTENDS Naturals, Sequences, FiniteSets

CONSTANTS User, Creator,     \* accounts; the requester of the ticket
          FirstRole,         \* the role of each at the start
          Device,            \* browsers a push subscription belongs to
          None,
          Day,               \* moments of a day
          Every,             \* moments between two runs of the delivery cron
          Window,            \* quiet hours an administrator may set
          FirstWindow,       \* those in force at the start
          MaxJobs, MaxRuns, MaxEvents   \* bounds of the model

QuietMinutes(w) ==   \* the moments from start up to end, around the clock
    IF None \in {w.start, w.end} THEN {}
    ELSE {t \in 0..Day - 1 : (t + Day - w.start) % Day < (w.end + Day - w.start) % Day}

ASSUME NotificationConstants ==
    /\ Creator \in User /\ None \notin User
    /\ FirstRole \in [User -> {"USER", "INTERN", "ADMIN"}]
    /\ {Day, Every, MaxJobs, MaxRuns, MaxEvents} \subseteq Nat \ {0}
    /\ Day % Every = 0
    /\ FirstWindow \in Window
    /\ Window \subseteq [start : 0..Day - 1 \cup {None}, end : 0..Day - 1 \cup {None}]
    /\ \A w \in Window : \E t \in 0..Day - 1 : t % Every = 0 /\ t \notin QuietMinutes(w)

VARIABLES
    people,     \* role, isActive and MAX link of every account
    owner,      \* whose push subscription a device's endpoint is
    prefs,      \* rows of the table of preferences
    quiet,      \* the quiet hours in force
    ticket,     \* the parties of one ticket
    visit,      \* its visit
    refill,     \* one planned refill, and the cron's progress over it
    errors,     \* issues of one fingerprint, and captures between find and create
    jobs,       \* handlers of events in progress
    notes,      \* rows of the table of notifications
    pending,    \* rows of PendingChannelDelivery
    runs,       \* runs of the delivery cron in progress
    events,     \* bounds the model: what befell the system from outside
    insiders,   \* history: who ever was staff or in the ticket's working group
    spoilt,     \* history: a crash, overlapping runs or overlapping captures
    told,       \* history: reminders sent, by days left
    sent,       \* history: what went out through which channel, until spoilt
    again       \* history: something of it went out a second time

sources == <<ticket, visit, refill, errors>>
settings == <<people, owner, prefs, quiet>>
delivery == <<jobs, notes, pending, runs>>
trace == <<sent, again>>
history == <<events, insiders, spoilt, told, trace>>
vars == <<sources, settings, delivery, history>>

Channel == {"IN_APP", "MAX", "WEB_PUSH"}
InterruptiveSlip == <<"IN_APP", "MAX", "WEB_PUSH">>
Interruptive == <<"MAX", "WEB_PUSH">>   \* the channels that interrupt, in their order
Moment == 0..Day - 1

NotificationType ==
    {"TICKET_CREATED", "TICKET_ASSIGNED", "TICKET_STATUS_CHANGED", "TICKET_COMMENTED",
     "TICKET_MENTIONED", "TICKET_COLLABORATOR_ADDED", "TICKET_RESPONSE_BREACHED",
     "TICKET_RESOLUTION_BREACHED", "VISIT_PROPOSED", "VISIT_CONFIRMED", "VISIT_CANCELLED",
     "VISIT_RESCHEDULED", "VISIT_REMINDER", "CARTRIDGE_FILLED", "REFILL_EVENT_CREATED",
     "REFILL_EVENT_REMINDER", "ADMIN_BROADCAST", "SYSTEM_ERROR"}

(* An event: what happened, who did it, whom it names, and its one detail. *)
Event(kind, actor, who, is) == [kind |-> kind, actor |-> actor, who |-> who, is |-> is]

Free == [step |-> "free", event |-> Event("none", None, {}, "none"), type |-> "none",
         todo |-> {}, quiet |-> FALSE, hush |-> FALSE,
         note |-> 0, rest |-> <<>>]

NoRefill == [row |-> FALSE, isCancelled |-> FALSE, left |-> 0,
             reminder3dSentAt |-> FALSE, reminder1dSentAt |-> FALSE,
             cron |-> "idle", need |-> {}]

TypeOK ==
    /\ people \in [User -> [role : {"USER", "INTERN", "ADMIN"}, isActive : BOOLEAN,
                            maxLink : BOOLEAN]]
    /\ owner \in [Device -> User \cup {None}]
    /\ prefs \subseteq [userId : User, type : NotificationType,
                        enabled : BOOLEAN, push : BOOLEAN]
    /\ quiet \in Window
    /\ ticket \in [createdById : User, assignedToId : User \cup {None},
                   collaborators : SUBSET User]
    /\ visit \in [technicianId : User \cup {None}, scheduled : BOOLEAN]
    /\ refill \in [row : BOOLEAN, isCancelled : BOOLEAN, left : 0..4,
                   reminder3dSentAt : BOOLEAN, reminder1dSentAt : BOOLEAN,
                   cron : {"idle", "found", "stored"}, need : SUBSET {1, 3}]
    /\ errors \in [open : 0..MaxEvents, creating : 0..MaxEvents]
    /\ \A j \in 1..MaxJobs :
          /\ jobs[j].step \in {"free", "emitted", "mention", "loop", "channels"}
          /\ jobs[j].todo \subseteq User
          /\ jobs[j].note \in 0..Len(notes)
          /\ jobs[j].step = "channels" => jobs[j].note # 0 /\ jobs[j].rest # <<>>
    /\ \A n \in 1..Len(notes) :
          notes[n] \in [user : User, internal : BOOLEAN]
    /\ pending \subseteq (1..Len(notes)) \X {"MAX", "WEB_PUSH"}
    /\ \A r \in 1..MaxRuns :
          /\ runs[r].items \subseteq (1..Len(notes)) \X {"MAX", "WEB_PUSH"}
          /\ runs[r].sent \in runs[r].items \cup {<<>>}
    /\ events \in 0..MaxEvents
    /\ told \in [{1, 3} -> 0..MaxEvents]
    /\ sent \subseteq (1..Len(notes)) \X Channel

Ended == [items |-> {}, sent |-> <<>>, active |-> {}, hush |-> FALSE]

Init ==
    /\ people = [u \in User |-> [role |-> FirstRole[u], isActive |-> TRUE, maxLink |-> TRUE]]
    /\ owner = [d \in Device |-> Creator]
    /\ prefs = {}
    /\ quiet = FirstWindow
    /\ \E tech \in {u \in User : FirstRole[u] = "INTERN"} :
          /\ ticket = [createdById |-> Creator, assignedToId |-> tech, collaborators |-> {}]
          /\ visit = [technicianId |-> tech, scheduled |-> TRUE]
    /\ refill = NoRefill
    /\ errors = [open |-> 0, creating |-> 0]
    /\ jobs = [j \in 1..MaxJobs |-> Free]
    /\ notes = <<>> /\ pending = {}
    /\ runs = [r \in 1..MaxRuns |-> Ended]
    /\ events = 0
    /\ insiders = {u \in User : FirstRole[u] # "USER"}
    /\ spoilt = FALSE
    /\ told = [d \in {1, 3} |-> 0]
    /\ sent = {} /\ again = FALSE

-----------------------------------------------------------------------------
(* Whom each handler tells. *)

Active(role) == {u \in User : people[u].isActive /\ people[u].role = role}
getSuperAdminIds == Active("ADMIN")
getTeacherIds == Active("USER")
Staff == {u \in User : people[u].role # "USER"}

Tell(type, to) == [type |-> type, to |-> to \ {None}]
TellOthers(type, to, e) == Tell(type, to \ {e.actor})

STATUS_NOTIFICATION_RULES == [RESOLVED |-> "creator", CLOSED |-> "creator",
                              REJECTED |-> "creator", REOPENED |-> "assignee"]

WorkingGroup == {ticket.assignedToId} \cup ticket.collaborators

onTicketCreated(e) == TellOthers("TICKET_CREATED", getSuperAdminIds, e)

onTicketAssigned(e) == TellOthers("TICKET_ASSIGNED", e.who \cup {ticket.createdById}, e)

onTicketStatusChanged(e) ==
    TellOthers("TICKET_STATUS_CHANGED",
               IF e.is \notin DOMAIN STATUS_NOTIFICATION_RULES THEN {}
               ELSE IF STATUS_NOTIFICATION_RULES[e.is] = "creator" THEN {ticket.createdById}
               ELSE WorkingGroup, e)

CommentedSlip(e) ==   \* an internal note reaches its subject as well
    TellOthers("TICKET_COMMENTED", WorkingGroup \cup {ticket.createdById}, e)

onTicketCommented(e) ==
    TellOthers("TICKET_COMMENTED",
               WorkingGroup \cup {u \in {ticket.createdById} : e.is # "internal"}, e)

TellMentioned(e) ==
    TellOthers("TICKET_MENTIONED",
               {u \in e.who : e.is = "internal" => u \in Active("ADMIN") \cup Active("INTERN")},
               e)

onResponseBreached(e) ==
    Tell("TICKET_RESPONSE_BREACHED", {ticket.assignedToId} \cup getSuperAdminIds)

onResolutionBreached(e) ==
    Tell("TICKET_RESOLUTION_BREACHED", {ticket.assignedToId} \cup getSuperAdminIds)

onVisitProposed(e) == TellOthers("VISIT_PROPOSED", {ticket.createdById}, e)

onVisitConfirmed(e) ==
    TellOthers("VISIT_CONFIRMED",
               IF ~visit.scheduled THEN {}
               ELSE IF e.is = "byTechnician" THEN {ticket.createdById}
               ELSE {visit.technicianId}, e)

onVisitCancelled(e) ==
    TellOthers("VISIT_CANCELLED",
               {IF e.is = "byTechnician" THEN ticket.createdById ELSE visit.technicianId}, e)

onVisitCountered(e) == TellOthers("VISIT_PROPOSED", {visit.technicianId}, e)

onVisitRescheduled(e) == TellOthers("VISIT_RESCHEDULED", {ticket.createdById}, e)

onCartridgeFilled(e) == TellOthers("CARTRIDGE_FILLED", {Creator}, e)

onRefillEventCreated(e) == TellOthers("REFILL_EVENT_CREATED", getTeacherIds, e)

onRefillEventReminder(e) == Tell("REFILL_EVENT_REMINDER", getTeacherIds)

notifySuperAdmins(e) == Tell("SYSTEM_ERROR", getSuperAdminIds)

sendManual(e) ==
    Tell("ADMIN_BROADCAST", IF e.who # {} THEN e.who ELSE {u \in User : people[u].isActive})

notifyAbout(e) == TellOthers(e.is, e.who, e)   \* the caller names type and people

Handler(e) ==
    CASE e.kind = "ticket.created"              -> onTicketCreated(e)
      [] e.kind = "ticket.assigned"             -> onTicketAssigned(e)
      [] e.kind = "ticket.status-changed"       -> onTicketStatusChanged(e)
      [] e.kind = "ticket.commented"            -> onTicketCommented(e)
      [] e.kind = "ticket.response-breached"    -> onResponseBreached(e)
      [] e.kind = "ticket.resolution-breached"  -> onResolutionBreached(e)
      [] e.kind = "visit.proposed"              -> onVisitProposed(e)
      [] e.kind = "visit.confirmed"             -> onVisitConfirmed(e)
      [] e.kind = "visit.cancelled"             -> onVisitCancelled(e)
      [] e.kind = "visit.countered"             -> onVisitCountered(e)
      [] e.kind = "visit.rescheduled"           -> onVisitRescheduled(e)
      [] e.kind = "cartridge.filled"            -> onCartridgeFilled(e)
      [] e.kind = "refill-event.created"        -> onRefillEventCreated(e)
      [] e.kind = "refill-event.reminder"       -> onRefillEventReminder(e)
      [] e.kind = "system.error"                -> notifySuperAdmins(e)
      [] e.kind = "broadcast"                   -> sendManual(e)
      [] e.kind = "about"                       -> notifyAbout(e)

-----------------------------------------------------------------------------
(* A handler at work: it resolves the recipients, reads the clock, and then *)
(* takes the recipients and their channels one by one.                      *)

isWithinQuietHoursSlip(t, w) ==   \* a window past midnight is taken for an empty one
    /\ None \notin {w.start, w.end}
    /\ t \in w.start .. w.end - 1

isWithinQuietHours(t, w) ==
    /\ None \notin {w.start, w.end}
    /\ w.start # w.end
    /\ IF w.start < w.end THEN t \in w.start .. w.end - 1
                          ELSE t >= w.start \/ t < w.end

Skips(e) == e.kind = "about" /\ e.is = "VISIT_REMINDER"   \* skipQuietHours

(* An emission counts for two events, anything else for one. *)
Emission == events + 2 <= MaxEvents /\ events' = events + 2
Change == events < MaxEvents /\ events' = events + 1

Emitted(e) ==   \* emit: the handler starts in the first free slot
    LET j == CHOOSE i \in 1..MaxJobs :
                /\ jobs[i].step = "free"
                /\ \A k \in 1..i - 1 : jobs[k].step # "free"
    IN  [jobs EXCEPT ![j] = [Free EXCEPT !.step = "emitted", !.event = e]]

SlotFree == \E j \in 1..MaxJobs : jobs[j].step = "free"

(* The handler is through with one list of recipients. *)
Finished(j) ==
    IF jobs[j].type # "TICKET_MENTIONED"
       /\ jobs[j].event.kind = "ticket.commented" /\ jobs[j].event.who # {}
    THEN [Free EXCEPT !.step = "mention", !.event = jobs[j].event]
    ELSE Free

(* The handler's reads, up to the clock: the day may be at any moment.       *)
Resolve(j) ==
    \E t \in Moment :
        LET e == jobs[j].event
            tell == IF jobs[j].step = "mention" THEN TellMentioned(e) ELSE Handler(e)
            quietNow == ~Skips(e) /\ isWithinQuietHours(t, quiet)
        IN  /\ jobs[j].step \in {"emitted", "mention"}
            /\ jobs' = [jobs EXCEPT ![j] =
                  IF tell.to # {}
                  THEN [@ EXCEPT !.step = "loop", !.type = tell.type, !.todo = tell.to,
                                 !.quiet = quietNow, !.hush = t \in QuietMinutes(quiet)]
                  ELSE IF @.step = "emitted" THEN Finished(j) ELSE Free]
            /\ UNCHANGED <<sources, settings, notes, pending, runs, history>>

(* The row of a user for a type; no row stands for everything switched on. *)
Pref(u, type) ==
    LET rows == {p \in prefs : p.userId = u /\ p.type = type}
    IN  IF rows = {} THEN [enabled |-> TRUE, push |-> TRUE]
        ELSE LET p == CHOOSE p \in rows : TRUE IN [enabled |-> p.enabled, push |-> p.push]

Wants(u, type) == people[u].isActive /\ Pref(u, type).enabled

(* The next of the recipients, or the end of the list. *)
Onward(j, job) ==
    [jobs EXCEPT ![j] = IF job.rest # <<>> THEN job
                        ELSE IF job.todo # {} THEN [job EXCEPT !.step = "loop"]
                        ELSE Finished(j)]

Records(n, c) ==
    IF spoilt THEN UNCHANGED trace
    ELSE /\ sent' = sent \cup {<<n, c>>}
         /\ again' = (again \/ <<n, c>> \in sent)

(* A user who wants to hear of it gets a row and the bell, which is always   *)
(* on; the channels that interrupt follow, unless push is switched off.      *)
NotifyUser(j) ==   \* the order of the recipients makes no difference
    LET job == jobs[j]
        u == CHOOSE u \in job.todo : TRUE
        next == [job EXCEPT !.todo = @ \ {u}]
    IN  /\ job.step = "loop"
        /\ IF Wants(u, job.type)
           THEN /\ notes' = Append(notes, [user |-> u,
                                           internal |-> job.event.is = "internal"])
                /\ Records(Len(notes) + 1, "IN_APP")
                /\ jobs' = Onward(j, [next EXCEPT !.step = "channels", !.note = Len(notes) + 1,
                                !.rest = IF Pref(u, job.type).push THEN Interruptive ELSE <<>>])
           ELSE /\ jobs' = Onward(j, next)
                /\ UNCHANGED <<notes, trace>>
        /\ UNCHANGED <<sources, settings, pending, runs, events, insiders, spoilt, told>>

isEnabledFor(channel, u) ==
    IF channel = "MAX" THEN people[u].maxLink ELSE \E d \in Device : owner[d] = u

(* A channel's send: a message to the messenger, whatever comes of it, or a  *)
(* push to every subscription of the user, of which the expired ones are     *)
(* removed.  No send is repeated.  active is the user's row as it was read.  *)
SendMax(n, active) ==
    /\ UNCHANGED owner
    /\ IF active /\ people[notes[n].user].maxLink THEN Records(n, "MAX") ELSE UNCHANGED trace

SendWebPush(n) ==
    \E expired \in SUBSET {d \in Device : owner[d] = notes[n].user} :
        /\ owner' = [d \in Device |-> IF d \in expired THEN None ELSE owner[d]]
        /\ Records(n, "WEB_PUSH")

Send(n, c, active) == IF c = "MAX" THEN SendMax(n, active) ELSE SendWebPush(n)

Deliver(j) ==
    LET job == jobs[j]
        c == Head(job.rest)
    IN  /\ job.step = "channels"
        /\ IF ~isEnabledFor(c, notes[job.note].user) THEN UNCHANGED <<owner, pending, trace>>
           ELSE IF job.quiet
           THEN pending' = pending \cup {<<job.note, c>>} /\ UNCHANGED <<owner, trace>>
           ELSE Send(job.note, c, TRUE) /\ UNCHANGED pending
        /\ jobs' = Onward(j, [job EXCEPT !.rest = Tail(@)])
        /\ UNCHANGED <<sources, people, prefs, quiet, notes, runs, events, insiders, spoilt, told>>

Work(j) == Resolve(j) \/ NotifyUser(j) \/ Deliver(j)

-----------------------------------------------------------------------------
(* The delivery cron: every quarter of an hour, outside the quiet hours, it  *)
(* sends what is pending and deletes each row after sending it.  A run that  *)
(* finds its row gone fails there and leaves the rest to the next.           *)

Running == \E i \in 1..MaxRuns : runs[i] # Ended

flushPending(t) ==
    LET r == CHOOSE i \in 1..MaxRuns : runs[i] = Ended
    IN  /\ t % Every = 0
        /\ ~isWithinQuietHours(t, quiet)
        /\ pending # {}
        /\ \E i \in 1..MaxRuns : runs[i] = Ended
        /\ spoilt' = (spoilt \/ Running)
        /\ spoilt => ~Running        \* bounds the model: one overlap, or one crash
        /\ runs' = [runs EXCEPT ![r] =
              [items |-> pending, sent |-> <<>>, hush |-> t \in QuietMinutes(quiet),
               active |-> {u \in User : people[u].isActive}]]
        /\ sent' = IF spoilt' THEN {} ELSE sent
        /\ UNCHANGED <<sources, settings, jobs, notes, pending, events, insiders, told, again>>

First(items) ==   \* the rows come in the order they were stored
    CHOOSE i \in items : \A k \in items :
        i[1] < k[1] \/ (i[1] = k[1] /\ (i = k \/ i[2] = "MAX"))

FlushSend(r) ==
    LET item == First(runs[r].items)
    IN  /\ runs[r].sent = <<>> /\ runs[r].items # {}
        /\ runs' = [runs EXCEPT ![r].sent = item]
        /\ Send(item[1], item[2], notes[item[1]].user \in runs[r].active)
        /\ UNCHANGED <<sources, people, prefs, quiet, jobs, notes, pending,
                       events, insiders, spoilt, told>>

FlushDeleteSlip(r) ==   \* the row is left behind
    LET left == runs[r].items \ {runs[r].sent}
    IN  /\ runs[r].sent # <<>>
        /\ runs' = [runs EXCEPT ![r] = IF left = {} THEN Ended
                                       ELSE [runs[r] EXCEPT !.items = left, !.sent = <<>>]]
        /\ UNCHANGED <<sources, settings, jobs, notes, pending, history>>

FlushDelete(r) ==
    LET item == runs[r].sent
        left == runs[r].items \ {item}
    IN  /\ item # <<>>
        /\ pending' = pending \ {item}
        /\ runs' = [runs EXCEPT ![r] = IF item \notin pending \/ left = {} THEN Ended
                                       ELSE [runs[r] EXCEPT !.items = left, !.sent = <<>>]]
        /\ UNCHANGED <<sources, settings, jobs, notes, history>>

Flush(r) == FlushSend(r) \/ FlushDelete(r)

(* The process stops and starts again: what was in progress is lost.  No     *)
(* event survives it, the rows do.                                           *)
Crash ==
    /\ Change /\ spoilt' = TRUE /\ sent' = {}
    /\ jobs' = [j \in 1..MaxJobs |-> Free]
    /\ runs' = [r \in 1..MaxRuns |-> Ended]
    /\ refill' = [refill EXCEPT !.cron = "idle", !.need = {}]
    /\ errors' = [errors EXCEPT !.creating = 0]
    /\ UNCHANGED <<ticket, visit, settings, notes, pending, insiders, told, again>>

-----------------------------------------------------------------------------
(* What the other services emit, with what it changes of the parties.  Each  *)
(* of them counts towards MaxEvents.                                         *)

Emits(e) ==
    /\ Emission /\ SlotFree
    /\ jobs' = Emitted(e)
    /\ UNCHANGED <<refill, errors, settings, notes, pending, runs, spoilt, told, trace>>

Parties == {ticket.createdById, ticket.assignedToId}

TicketEmits ==
    /\ UNCHANGED <<ticket, visit, insiders>>
    /\ \/ Emits(Event("ticket.created", ticket.createdById, {}, "none"))
       \/ \E to \in {"IN_PROGRESS", "RESOLVED"} :
             Emits(Event("ticket.status-changed", ticket.assignedToId, {}, to))
       \/ Emits(Event("ticket.status-changed", ticket.createdById, {}, "REOPENED"))
       \/ Emits(Event("ticket.response-breached", None, {}, "none"))
       \/ Emits(Event("ticket.resolution-breached", None, {}, "none"))

(* A comment keeps of the people it mentions the active staff. *)
CommentEmits ==
    \E u \in Parties, mentioned \in SUBSET User, is \in {"internal", "public"} :
        /\ is = "internal" => u \in Staff
        /\ Cardinality(mentioned) <= 1
        /\ mentioned \subseteq Active("ADMIN") \cup Active("INTERN")
        /\ Emits(Event("ticket.commented", u, mentioned, is))
        /\ UNCHANGED <<ticket, visit, insiders>>

AssignEmits ==
    \E u \in Active("ADMIN"), to \in Active("INTERN") \cup Active("ADMIN") :
        /\ Emits(Event("ticket.assigned", u, {to}, "none"))
        /\ ticket' = [ticket EXCEPT !.assignedToId = to,
                                    !.collaborators = @ \ {to}]
        /\ insiders' = insiders \cup {to}
        /\ UNCHANGED visit

CollaboratorAdded ==
    \E u \in Parties \cap Staff, to \in Active("INTERN") \cup Active("ADMIN") :
        /\ to \notin WorkingGroup \cup {ticket.createdById}
        /\ Emits(Event("about", u, {to}, "TICKET_COLLABORATOR_ADDED"))
        /\ ticket' = [ticket EXCEPT !.collaborators = @ \cup {to}]
        /\ insiders' = insiders \cup {to}
        /\ UNCHANGED visit

VisitEmits ==
    \E by \in {"byTechnician", "byCreator"} :
        LET u == IF by = "byTechnician" THEN visit.technicianId ELSE ticket.createdById
            moves(scheduled) == visit' = [visit EXCEPT !.scheduled = scheduled]
        IN  /\ UNCHANGED <<ticket, insiders>>
            /\ \/ /\ by = "byTechnician" /\ moves(FALSE)
                  /\ Emits(Event("visit.proposed", u, {}, by))
               \/ Emits(Event("visit.confirmed", u, {}, by)) /\ moves(TRUE)
               \/ Emits(Event("visit.cancelled", u, {}, by)) /\ UNCHANGED visit
               \/ /\ by = "byCreator" /\ moves(FALSE)
                  /\ Emits(Event("visit.countered", u, {}, by))
               \/ /\ by = "byTechnician" /\ \E s \in BOOLEAN : moves(s)
                  /\ Emits(Event("visit.rescheduled", u, {}, by))
               \/ /\ visit.scheduled /\ UNCHANGED visit
                  /\ Emits(Event("about", None, {visit.technicianId, ticket.createdById},
                                 "VISIT_REMINDER"))

CartridgeFilled ==
    /\ \E u \in Active("ADMIN") : Emits(Event("cartridge.filled", u, {}, "none"))
    /\ UNCHANGED <<ticket, visit, insiders>>

Broadcast ==
    \E u \in Active("ADMIN"), who \in {{}, {Creator}} :
        /\ Emits(Event("broadcast", u, who, "none"))
        /\ UNCHANGED <<ticket, visit, insiders>>

(* What people change of the settings. *)
Sets == Change /\ UNCHANGED <<sources, delivery, spoilt, told, trace>>

SetRole ==
    \E u \in Parties, role \in {"USER", "INTERN"} :
        /\ people[u].role # role
        /\ people' = [people EXCEPT ![u].role = role]
        /\ insiders' = IF role = "USER" THEN insiders ELSE insiders \cup {u}
        /\ Sets /\ UNCHANGED <<owner, prefs, quiet>>

Deactivate ==
    \E u \in Parties :
        /\ people[u].isActive
        /\ people' = [people EXCEPT ![u].isActive = FALSE]
        /\ Sets /\ UNCHANGED <<owner, prefs, quiet, insiders>>

UnlinkMax ==
    \E u \in Parties :
        /\ people[u].maxLink
        /\ people' = [people EXCEPT ![u].maxLink = FALSE]
        /\ Sets /\ UNCHANGED <<owner, prefs, quiet, insiders>>

setPreferences ==
    \E u \in Parties, type \in {"TICKET_COMMENTED"},
       enabled \in BOOLEAN, push \in BOOLEAN :
        LET others == {p \in prefs : p.userId # u \/ p.type # type}
        IN  /\ prefs' = IF enabled /\ push THEN others
                        ELSE others \cup {[userId |-> u, type |-> type,
                                           enabled |-> enabled, push |-> push]}
            /\ prefs' # prefs
            /\ Sets /\ UNCHANGED <<people, owner, quiet, insiders>>

setQuietHours ==
    /\ quiet' \in Window \ {quiet}
    /\ Sets /\ UNCHANGED <<people, owner, prefs, insiders>>

(* The endpoint is unique: a subscription takes it over from whoever had it. *)
subscribeToPush ==
    \E u \in Parties, d \in Device :
        /\ owner[d] # u
        /\ owner' = [owner EXCEPT ![d] = u]
        /\ Sets /\ UNCHANGED <<people, prefs, quiet, insiders>>

unsubscribeFromPush ==
    \E d \in Device :
        /\ owner[d] # None
        /\ owner' = [owner EXCEPT ![d] = None]
        /\ Sets /\ UNCHANGED <<people, prefs, quiet, insiders>>

-----------------------------------------------------------------------------
(* Planned refills: the hourly cron finds what is due, stores a flag, emits. *)

RefillCreate ==
    /\ ~refill.row
    /\ \E left \in {1, 4} : refill' = [NoRefill EXCEPT !.row = TRUE, !.left = left]
    /\ Emission /\ SlotFree
    /\ \E u \in Active("ADMIN") : jobs' = Emitted(Event("refill-event.created", u, {}, "none"))
    /\ UNCHANGED <<ticket, visit, errors, settings, notes, pending, runs,
                   insiders, spoilt, told, trace>>

RefillUpdate ==   \* another deadline, or cancelled: the flags stay as they are
    /\ refill.row
    /\ \/ \E left \in {1, 4} : refill' = [refill EXCEPT !.left = left]
       \/ \E is \in BOOLEAN : refill' = [refill EXCEPT !.isCancelled = is]
    /\ refill' # refill
    /\ Change
    /\ UNCHANGED <<ticket, visit, errors, settings, delivery, insiders, spoilt, told, trace>>

DueSlip == {d \in {1, 3} : refill.left <= d /\ (d = 3 => ~refill.reminder3dSentAt)}

(* The reminders that are due and whose flags a run finds unset. *)
Due == {d \in {1, 3} : /\ refill.left <= d
                       /\ ~(IF d = 3 THEN refill.reminder3dSentAt ELSE refill.reminder1dSentAt)}

RefillFind ==
    /\ refill.row /\ ~refill.isCancelled /\ refill.left > 0
    /\ refill.cron = "idle" /\ Due # {}
    /\ refill' = [refill EXCEPT !.cron = "found", !.need = Due]
    /\ UNCHANGED <<ticket, visit, errors, settings, delivery, history>>

Longest == CHOOSE d \in refill.need : \A e \in refill.need : e <= d

RefillStore ==
    /\ refill.cron = "found"
    /\ refill' = [refill EXCEPT !.cron = "stored",
                    !.reminder3dSentAt = @ \/ Longest = 3,
                    !.reminder1dSentAt = @ \/ Longest = 1]
    /\ UNCHANGED <<ticket, visit, errors, settings, delivery, history>>

emitReminder ==
    /\ refill.cron = "stored" /\ SlotFree
    /\ jobs' = Emitted(Event("refill-event.reminder", None, {}, "none"))
    /\ told' = [told EXCEPT ![Longest] = @ + 1]
    /\ LET need == refill.need \ {Longest}
       IN  refill' = [refill EXCEPT !.need = need, !.cron = IF need = {} THEN "idle" ELSE "found"]
    /\ UNCHANGED <<ticket, visit, errors, settings, notes, pending, runs,
                   events, insiders, spoilt, trace>>

DayPasses ==   \* the cron has had its hours, and no handler takes a day
    /\ refill.left > 0 /\ refill.cron = "idle"
    /\ refill.isCancelled \/ Due = {}
    /\ \A j \in 1..MaxJobs : jobs[j] = Free
    /\ \A r \in 1..MaxRuns : runs[r] = Ended
    /\ refill' = [refill EXCEPT !.left = @ - 1]
    /\ UNCHANGED <<ticket, visit, errors, settings, delivery, history>>

checkReminders == RefillFind \/ RefillStore \/ emitReminder

(* The log of errors: an open issue counts on, a missing one is created and  *)
(* told to the administrators; in between, another capture may look as well. *)
CaptureFind ==
    /\ Change
    /\ IF errors.open > 0 THEN UNCHANGED <<errors, spoilt>>
       ELSE /\ errors' = [errors EXCEPT !.creating = @ + 1]
            /\ spoilt' = (spoilt \/ errors.creating > 0)
    /\ UNCHANGED <<ticket, visit, refill, settings, delivery, insiders, told, trace>>

CaptureCreate ==
    /\ errors.creating > 0 /\ SlotFree
    /\ errors' = [open |-> errors.open + 1, creating |-> errors.creating - 1]
    /\ jobs' = Emitted(Event("system.error", None, {}, "none"))
    /\ UNCHANGED <<ticket, visit, refill, settings, notes, pending, runs, history>>

ResolveIssue ==
    /\ errors.open > 0
    /\ errors' = [errors EXCEPT !.open = @ - 1]
    /\ Change
    /\ UNCHANGED <<ticket, visit, refill, settings, delivery, insiders, spoilt, told, trace>>

-----------------------------------------------------------------------------
Happens ==
    \/ TicketEmits \/ CommentEmits \/ AssignEmits \/ CollaboratorAdded \/ VisitEmits
    \/ CartridgeFilled \/ Broadcast \/ RefillCreate \/ RefillUpdate
    \/ CaptureFind \/ ResolveIssue
    \/ SetRole \/ Deactivate \/ UnlinkMax \/ setPreferences \/ setQuietHours
    \/ subscribeToPush \/ unsubscribeFromPush

Next ==
    \/ \E j \in 1..MaxJobs : Work(j)
    \/ \E r \in 1..MaxRuns : Flush(r)
    \/ \E t \in Moment : flushPending(t)
    \/ Happens \/ DayPasses \/ checkReminders \/ CaptureCreate \/ Crash

(* Awaits come back, and every day has a quarter the cron runs in outside    *)
(* the quiet hours (which leave it one: see NotificationConstants).          *)
Fairness ==
    /\ WF_vars(\E t \in Moment : flushPending(t))
    /\ WF_vars(\E j \in 1..MaxJobs : Work(j))
    /\ WF_vars(\E r \in 1..MaxRuns : Flush(r))

Spec == Init /\ [][Next]_vars /\ Fairness

-----------------------------------------------------------------------------
(* Nobody is disturbed in the quiet hours: a handler that sends through an   *)
(* interruptive channel, or a run of the delivery cron, read the clock at a  *)
(* moment outside them, counted around midnight.  Reminders of a visit are   *)
(* the one exception.                                                        *)
QuietHeld ==
    /\ \A j \in 1..MaxJobs :
          (jobs[j].step = "channels" /\ ~jobs[j].quiet /\ ~Skips(jobs[j].event))
          => ~jobs[j].hush
    /\ \A r \in 1..MaxRuns : ~runs[r].hush

(* An internal note stays inside: no notification of it, of the comment or   *)
(* of a mention in it, ever goes to somebody who was neither on the staff    *)
(* nor in the working group, whatever changed since it was written.          *)
NoteStaysInside ==
    \A n \in 1..Len(notes) : notes[n].internal => notes[n].user \in insiders

(* While the process does not crash and neither runs of the delivery cron    *)
(* nor captures overlap, nothing is told twice: a notification goes out once *)
(* per channel, a reminder of a refill once, and an error with an open issue *)
(* opens no second one.                                                      *)
NothingToldTwice ==
    \/ spoilt
    \/ /\ ~again
       /\ \A d \in {1, 3} : told[d] <= 1
       /\ errors.open <= 1

(* What the quiet hours held back is sent, or tried, after them: pending     *)
(* deliveries do not stay for ever, even over a crash in the middle of a run.*)
PendingDelivered == pending # {} ~> pending = {}
=============================================================================
