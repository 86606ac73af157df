------------------------ MODULE NotificationsProofs ------------------------
(***************************************************************************)
(* Proofs about Notifications, for every set of people and devices, every   *)
(* day and every window of quiet hours, and every bound.                   *)
(***************************************************************************)
EXTENDS Notifications, WellFoundedInduction, TLAPS

-----------------------------------------------------------------------------
(* The clock: the window of quiet hours, and what the code makes of it.     *)

LEMMA ModSmall == ASSUME NEW d \in Nat \ {0}, NEW a \in 0 .. d - 1 PROVE a % d = a
OBVIOUS

LEMMA ModLarge ==
    ASSUME NEW d \in Nat \ {0}, NEW a \in d .. d + d - 1 PROVE a % d = a - d
OBVIOUS

\* A moment is quiet by the code exactly when it lies in the window, counted
\* around midnight (shared/quiet-hours.ts: isWithinQuietHours).
LEMMA QuietIsQuiet ==
    ASSUME NEW t \in Moment, NEW w \in Window
    PROVE  isWithinQuietHours(t, w) <=> t \in QuietMinutes(w)
<1>1. Day \in Nat \ {0} /\ t \in 0 .. Day - 1
    BY NotificationConstants DEF Moment
<1>2. CASE None \in {w.start, w.end}
    BY <1>2 DEF isWithinQuietHours, QuietMinutes
<1>3. CASE None \notin {w.start, w.end}
  <2>1. w.start \in 0 .. Day - 1 /\ w.end \in 0 .. Day - 1
    BY <1>3, NotificationConstants
  <2>. DEFINE since(x) == IF x >= w.start THEN x - w.start ELSE x + Day - w.start
  <2>2. ASSUME NEW x \in 0 .. Day - 1 PROVE (x + Day - w.start) % Day = since(x)
    <3>. DEFINE a == x + Day - w.start
    <3>1. CASE x >= w.start
      <4>1. a \in Day .. Day + Day - 1 /\ a - Day = x - w.start
        BY <1>1, <2>1, <3>1
      <4>. HIDE DEF a
      <4>2. a % Day = a - Day
        BY ONLY <1>1, <4>1, ModLarge
      <4>. QED
        BY <3>1, <4>1, <4>2 DEF a
    <3>2. CASE x < w.start
      <4>1. a \in 0 .. Day - 1
        BY <1>1, <2>1, <3>2
      <4>. HIDE DEF a
      <4>2. a % Day = a
        BY <1>1, <4>1, ModSmall
      <4>. QED
        BY <1>1, <2>1, <3>2, <4>2 DEF a
    <3>. QED
      BY <1>1, <2>1, <3>1, <3>2
  <2>3. t \in QuietMinutes(w) <=> since(t) < since(w.end)
    BY <1>1, <1>3, <2>1, <2>2 DEF QuietMinutes
  <2>. QED
    BY <1>1, <1>3, <2>1, <2>3 DEF isWithinQuietHours
<1>. QED
    BY <1>2, <1>3

-----------------------------------------------------------------------------
(* The first of some pending rows is one of them.                           *)

Item == Nat \X {"MAX", "WEB_PUSH"}

Less == {p \in Nat \X Nat : p[1] < p[2]}

LEMMA LessWellFounded == IsWellFoundedOn(Less, Nat)
BY NatLessThanWellFounded DEF OpToRel, Less

LEMMA FirstIsOne ==
    ASSUME NEW items \in SUBSET Item, items # {}
    PROVE  First(items) \in items
<1>. DEFINE N == {i[1] : i \in items}
<1>1. N \subseteq Nat /\ N # {} /\ \A k \in items : k[1] \in N
    BY DEF Item
<1>. HIDE DEF N
<1>2. PICK n \in N : \A m \in N : <<m, n>> \notin Less
    BY <1>1, LessWellFounded, WFMin
<1>3. \A m \in N : n <= m
  <2>1. SUFFICES ASSUME NEW m \in N PROVE n <= m
    OBVIOUS
  <2>2. m \in Nat /\ n \in Nat /\ <<m, n>> \notin Less
    BY <1>1, <1>2
  <2>. QED
    BY <2>2 DEF Less
<1>4. \A k \in items : n < k[1] \/ n = k[1]
  <2>1. SUFFICES ASSUME NEW k \in items PROVE n < k[1] \/ n = k[1]
    OBVIOUS
  <2>. DEFINE m == k[1]
  <2>2. m \in N
    BY <1>1
  <2>. HIDE DEF m
  <2>3. n <= m /\ m \in Nat /\ n \in Nat
    BY <1>1, <1>2, <1>3, <2>2
  <2>4. n < m \/ n = m
    BY <2>3
  <2>. QED
    BY <2>4 DEF m
<1>5. \E i \in items : \A k \in items :
         i[1] < k[1] \/ (i[1] = k[1] /\ (i = k \/ i[2] = "MAX"))
  <2>1. CASE <<n, "MAX">> \in items
    BY <1>4, <2>1
  <2>2. CASE <<n, "MAX">> \notin items
    <3>1. PICK i \in items : i[1] = n
      BY <1>2 DEF N
    <3>2. \A k \in items : k[1] = n => k = <<n, "WEB_PUSH">>
      BY <2>2 DEF Item
    <3>. QED
      BY <1>4, <3>1, <3>2
  <2>. QED
    BY <2>1, <2>2
<1>. QED
    BY <1>5 DEF First

-----------------------------------------------------------------------------
(* The type invariant, in parts: the parties and the settings; the handlers *)
(* in progress; what is stored and what the cron takes of it; the counters. *)

Kinds == {"ticket.created", "ticket.assigned", "ticket.status-changed", "ticket.commented",
          "ticket.response-breached", "ticket.resolution-breached", "visit.proposed",
          "visit.confirmed", "visit.cancelled", "visit.countered", "visit.rescheduled",
          "cartridge.filled", "refill-event.created", "refill-event.reminder",
          "system.error", "broadcast", "about"}

Words == NotificationType \cup {"none", "internal", "public", "IN_PROGRESS", "RESOLVED",
                                "REOPENED", "byTechnician", "byCreator"}

EventRow == [kind : Kinds \cup {"none"}, actor : User \cup {None}, who : SUBSET User,
             is : Words]

\* What the services emit: only a comment is internal.
Emittable == {e \in EventRow : /\ e.kind \in Kinds
                               /\ e.is = "internal" => e.kind = "ticket.commented"}

Job == [step : {"free", "emitted", "mention", "loop", "channels"}, event : EventRow,
        type : Words, todo : SUBSET User, quiet : BOOLEAN, hush : BOOLEAN, note : Nat,
        rest : {<<>>, Interruptive, <<"WEB_PUSH">>}]

NoteRow == [user : User, internal : BOOLEAN]

Run == [items : SUBSET Item, sent : Item \cup {<<>>}, active : SUBSET User, hush : BOOLEAN]

PartiesTyped ==
    /\ people \in [User -> [role : {"USER", "INTERN", "ADMIN"}, isActive : BOOLEAN,
                            maxLink : BOOLEAN]]
    /\ owner \in [Device -> User \cup {None}]
    /\ prefs \subseteq [userId : User, type : NotificationType,
                        enabled : BOOLEAN, push : BOOLEAN]
    /\ quiet \in Window
    /\ ticket \in [createdById : User, assignedToId : User, collaborators : SUBSET User]
    /\ visit \in [technicianId : User, scheduled : BOOLEAN]

JobOK(job, n) ==
    /\ job \in Job
    /\ job.note \in 0..n
    /\ job.step # "free" => job.event \in Emittable
    /\ job.step = "channels" => job.note # 0
    /\ job.step = "loop" => job.todo # {}
    /\ job.step = "channels" <=> job.rest # <<>>

JobsTyped ==
    /\ notes \in Seq(NoteRow)
    /\ jobs \in [1..MaxJobs -> Job]
    /\ \A j \in 1..MaxJobs : JobOK(jobs[j], Len(notes))

Stored == (1..Len(notes)) \X {"MAX", "WEB_PUSH"}

RowsTyped ==
    /\ pending \subseteq Stored
    /\ runs \in [1..MaxRuns -> Run]
    /\ \A r \in 1..MaxRuns :
          /\ runs[r].items \subseteq Stored
          /\ runs[r].sent \in runs[r].items \cup {<<>>}
    /\ sent \subseteq (1..Len(notes)) \X Channel
    /\ again \in BOOLEAN

CountersTyped ==
    /\ events \in 0..MaxEvents
    /\ errors \in [open : Nat, creating : Nat]
    /\ errors.open + errors.creating <= events
    /\ spoilt \in BOOLEAN

Typed == PartiesTyped /\ JobsTyped /\ RowsTyped /\ CountersTyped

\* The reminders of the planned refill: a reminder that went out has its flag
\* set, and the cron sends none whose flag was set when it looked.
Flagged(d) == IF d = 3 THEN refill.reminder3dSentAt ELSE refill.reminder1dSentAt

RefillInv ==
    /\ refill \in [row : BOOLEAN, isCancelled : BOOLEAN, left : 0..4,
                   reminder3dSentAt : BOOLEAN, reminder1dSentAt : BOOLEAN,
                   cron : {"idle", "found", "stored"}, need : SUBSET {1, 3}]
    /\ told \in [{1, 3} -> {0, 1}]
    /\ \A d \in {1, 3} : told[d] = 1 => refill.row /\ Flagged(d)
    /\ refill.cron # "idle" => refill.row /\ refill.need # {}
    /\ refill.cron = "found" => \A d \in refill.need : ~Flagged(d)
    /\ refill.cron = "stored" => /\ told[Longest] = 0 /\ Flagged(Longest)
                                 /\ \A d \in refill.need \ {Longest} : ~Flagged(d)

\* A handler that may interrupt read the clock outside the quiet hours.
QuietInv ==
    /\ \A j \in 1..MaxJobs :
          /\ jobs[j].step \in {"loop", "channels"}
          /\ ~jobs[j].quiet
          /\ ~Skips(jobs[j].event)
          => ~jobs[j].hush
    /\ \A r \in 1..MaxRuns : ~runs[r].hush

\* The working group and the staff are insiders, and so is everybody a handler
\* of an internal note has still to tell.
InsideInv ==
    /\ {ticket.assignedToId} \cup ticket.collaborators \subseteq insiders
    /\ \A u \in User : people[u].role # "USER" => u \in insiders
    /\ \A j \in 1..MaxJobs :
          jobs[j].step \in {"loop", "channels"} /\ jobs[j].event.is = "internal"
          => jobs[j].todo \subseteq insiders
    /\ NoteStaysInside

\* Until spoilt: what a handler is about to deliver went out nowhere and waits
\* nowhere; one run at most takes pending rows, and what waits and went out is
\* the row that run is about to delete.
Rest(job) == {c \in Channel : \/ (c = "MAX" /\ job.rest = Interruptive)
                             \/ (c = "WEB_PUSH" /\ job.rest # <<>>)}

OnceInv ==
    /\ ~again
    /\ errors.open + errors.creating <= 1
    /\ \A j \in 1..MaxJobs : jobs[j].step = "channels" =>
          /\ \A c \in Rest(jobs[j]) : <<jobs[j].note, c>> \notin sent \cup pending
          /\ \A k \in 1..MaxJobs :
                jobs[k].step = "channels" /\ jobs[k].note = jobs[j].note => j = k
    /\ \A r \in 1..MaxRuns :
          /\ runs[r].items \subseteq pending
          /\ \A s \in 1..MaxRuns : runs[r] # Ended /\ runs[s] # Ended => r = s
    /\ \A p \in pending \cap sent : \E r \in 1..MaxRuns : runs[r].sent = p

LEMMA TypedGivesTypeOK ==
    ASSUME Typed, RefillInv PROVE TypeOK
<1>1. MaxEvents \in Nat /\ 1 <= MaxEvents
    BY NotificationConstants
<1>2. errors \in [open : 0..MaxEvents, creating : 0..MaxEvents]
    BY <1>1 DEF Typed, CountersTyped
<1>3. told \in [{1, 3} -> 0..MaxEvents]
    BY <1>1 DEF RefillInv
<1>4. \A j \in 1..MaxJobs :
          /\ jobs[j].step \in {"free", "emitted", "mention", "loop", "channels"}
          /\ jobs[j].todo \subseteq User
          /\ jobs[j].note \in 0..Len(notes)
          /\ jobs[j].step = "channels" => jobs[j].note # 0 /\ jobs[j].rest # <<>>
    BY DEF Typed, JobsTyped, JobOK, Job
<1>5. \A n \in 1..Len(notes) : notes[n] \in [user : User, internal : BOOLEAN]
  <2>1. \A n \in 1..Len(notes) : notes[n] \in NoteRow
    BY DEF Typed, JobsTyped
  <2>. QED
    BY <2>1 DEF NoteRow
<1>6. ticket \in [createdById : User, assignedToId : User \cup {None},
                  collaborators : SUBSET User]
    BY DEF Typed, PartiesTyped
<1>7. visit \in [technicianId : User \cup {None}, scheduled : BOOLEAN]
    BY DEF Typed, PartiesTyped
<1>. QED
    BY <1>2, <1>3, <1>4, <1>5, <1>6, <1>7
       DEF TypeOK, Typed, PartiesTyped, RowsTyped, CountersTyped, RefillInv, Stored

LEMMA FreeIsJob == Free \in Job /\ Free.step = "free" /\ \A n \in Nat : JobOK(Free, n)
<1>1. Free.event \in EventRow
    BY DEF Free, EventRow, Event, Words
<1>3. Free.type \in Words /\ Free.rest = <<>> /\ Free.step = "free" /\ Free.note = 0
    BY DEF Free, Words
<1>2. Free \in Job
    BY <1>1, <1>3 DEF Free, Job
<1>. QED
    BY <1>2, <1>3 DEF JobOK

LEMMA EndedIsRun == Ended \in Run /\ Ended.items = {} /\ Ended.sent = <<>> /\ ~Ended.hush
BY DEF Ended, Run

LEMMA InitTyped == Init => Typed /\ RefillInv
<1>. SUFFICES ASSUME Init PROVE Typed /\ RefillInv
    OBVIOUS
<1>1. PartiesTyped
  <2>1. people \in [User -> [role : {"USER", "INTERN", "ADMIN"}, isActive : BOOLEAN,
                             maxLink : BOOLEAN]]
    BY NotificationConstants DEF Init
  <2>. QED
    BY <2>1, NotificationConstants DEF Init, PartiesTyped
<1>2. JobsTyped
  <2>1. notes \in Seq(NoteRow) /\ Len(notes) = 0
    BY DEF Init
  <2>2. \A j \in 1..MaxJobs : jobs[j] = Free
    BY DEF Init
  <2>3. jobs \in [1..MaxJobs -> Job]
    BY FreeIsJob DEF Init
  <2>. QED
    BY <2>1, <2>2, <2>3, FreeIsJob DEF JobsTyped
<1>3. RowsTyped
  <2>1. \A r \in 1..MaxRuns : runs[r] = Ended
    BY DEF Init
  <2>2. runs \in [1..MaxRuns -> Run]
    BY EndedIsRun DEF Init
  <2>. QED
    BY <2>1, <2>2, EndedIsRun DEF Init, RowsTyped
<1>4. CountersTyped
  <2>1. MaxEvents \in Nat
    BY NotificationConstants
  <2>2. errors = [open |-> 0, creating |-> 0] /\ events = 0 /\ spoilt = FALSE
    BY DEF Init
  <2>3. errors.open + errors.creating <= events
    BY <2>2
  <2>4. errors \in [open : Nat, creating : Nat]
    BY <2>2
  <2>5. events \in 0..MaxEvents
    BY <2>1, <2>2
  <2>6. spoilt \in BOOLEAN
    BY <2>2
  <2>. QED
    BY <2>3, <2>4, <2>5, <2>6 DEF CountersTyped
<1>5. RefillInv
    BY DEF Init, RefillInv, NoRefill, Flagged
<1>. QED
    BY <1>1, <1>2, <1>3, <1>4, <1>5 DEF Typed

-----------------------------------------------------------------------------
(* What is emitted starts a handler in a free slot; nothing else of the      *)
(* handlers, of what is stored or of what went out changes.                  *)

Begun(e) == [Free EXCEPT !.step = "emitted", !.event = e]

Speaks == /\ \E e \in Emittable : jobs' = Emitted(e)
          /\ UNCHANGED <<settings, notes, pending, runs, spoilt, trace>>

LEMMA BegunIsJob ==
    ASSUME NEW e \in Emittable
    PROVE  /\ Begun(e).step = "emitted" /\ Begun(e).event = e
           /\ \A n \in Nat : JobOK(Begun(e), n)
<1>1. Free \in Job
    BY FreeIsJob
<1>2. /\ Begun(e).step = "emitted" /\ Begun(e).event = e
      /\ Begun(e).note = 0 /\ Begun(e).rest = <<>>
    BY <1>1 DEF Begun, Free
<1>3. Begun(e) \in Job
    BY <1>1 DEF Begun, Job, Emittable
<1>. QED
    BY <1>2, <1>3 DEF JobOK

LEMMA EmittedSlots ==
    ASSUME JobsTyped, NEW e \in Emittable, jobs' = Emitted(e)
    PROVE  /\ jobs' \in [1..MaxJobs -> Job]
           /\ \A j \in 1..MaxJobs : jobs'[j] = jobs[j] \/ jobs'[j] = Begun(e)
<1>1. PICK j : jobs' = [jobs EXCEPT ![j] = Begun(e)]
    BY DEF Emitted, Begun
<1>2. Begun(e) \in Job
    BY BegunIsJob DEF JobOK
<1>. QED
    BY <1>1, <1>2 DEF JobsTyped

LEMMA SpeaksTyped ==
    ASSUME JobsTyped, Speaks PROVE JobsTyped'
<1>1. PICK e \in Emittable : jobs' = Emitted(e)
    BY DEF Speaks
<1>2. notes' = notes /\ Len(notes) \in Nat
    BY DEF Speaks, JobsTyped
<1>3. \A j \in 1..MaxJobs : JobOK(jobs'[j], Len(notes))
    BY <1>1, <1>2, EmittedSlots, BegunIsJob DEF JobsTyped
<1>. QED
    BY <1>1, <1>2, <1>3, EmittedSlots DEF JobsTyped

LEMMA EventIsRow ==
    ASSUME NEW kind \in Kinds, NEW actor \in User \cup {None}, NEW who \in SUBSET User,
           NEW is \in Words, is = "internal" => kind = "ticket.commented"
    PROVE  Event(kind, actor, who, is) \in Emittable
BY DEF Event, Emittable, EventRow

\* The emission of an event of the log or of the crons.
Tells ==
    \/ TicketEmits \/ CommentEmits \/ AssignEmits \/ CollaboratorAdded \/ VisitEmits
    \/ CartridgeFilled \/ Broadcast \/ RefillCreate \/ emitReminder \/ CaptureCreate

LEMMA EmitsSpeaks ==
    ASSUME NEW e \in Emittable, Emits(e) PROVE Speaks
BY DEF Emits, Speaks, settings, trace

LEMMA TellsSpeaks ==
    ASSUME Typed, Tells PROVE Speaks
<1>. USE DEF Kinds, Words, NotificationType
<1>0. /\ ticket.createdById \in User /\ ticket.assignedToId \in User
      /\ visit.technicianId \in User /\ Creator \in User
    BY NotificationConstants DEF Typed, PartiesTyped
<1>1. CASE TicketEmits
    BY <1>0, <1>1, EventIsRow, EmitsSpeaks DEF TicketEmits
<1>2. CASE CommentEmits
  <2>1. PICK u \in Parties, mentioned \in SUBSET User, is \in {"internal", "public"} :
            Emits(Event("ticket.commented", u, mentioned, is))
    BY <1>2 DEF CommentEmits
  <2>2. u \in User
    BY <1>0 DEF Parties
  <2>. QED
    BY <2>1, <2>2, EventIsRow, EmitsSpeaks
<1>3. CASE AssignEmits
  <2>1. PICK u \in Active("ADMIN"), to \in Active("INTERN") \cup Active("ADMIN") :
            Emits(Event("ticket.assigned", u, {to}, "none"))
    BY <1>3 DEF AssignEmits
  <2>. QED
    BY <2>1, EventIsRow, EmitsSpeaks DEF Active
<1>4. CASE CollaboratorAdded
  <2>1. PICK u \in Parties, to \in Active("INTERN") \cup Active("ADMIN") :
            Emits(Event("about", u, {to}, "TICKET_COLLABORATOR_ADDED"))
    BY <1>4 DEF CollaboratorAdded
  <2>. QED
    BY <1>0, <2>1, EventIsRow, EmitsSpeaks DEF Active, Parties
<1>5. CASE VisitEmits
  <2>1. PICK by \in {"byTechnician", "byCreator"}, u \in User :
            \/ Emits(Event("visit.proposed", u, {}, by))
            \/ Emits(Event("visit.confirmed", u, {}, by))
            \/ Emits(Event("visit.cancelled", u, {}, by))
            \/ Emits(Event("visit.countered", u, {}, by))
            \/ Emits(Event("visit.rescheduled", u, {}, by))
            \/ Emits(Event("about", None, {visit.technicianId, ticket.createdById},
                           "VISIT_REMINDER"))
    BY <1>0, <1>5 DEF VisitEmits
  <2>. QED
    BY <1>0, <2>1, EventIsRow, EmitsSpeaks
<1>6. CASE CartridgeFilled
    BY <1>6, EventIsRow, EmitsSpeaks DEF CartridgeFilled, Active
<1>7. CASE Broadcast
  <2>1. PICK u \in Active("ADMIN"), who \in {{}, {Creator}} :
            Emits(Event("broadcast", u, who, "none"))
    BY <1>7 DEF Broadcast
  <2>. QED
    BY <1>0, <2>1, EventIsRow, EmitsSpeaks DEF Active
<1>8. CASE RefillCreate
    BY <1>8, EventIsRow DEF RefillCreate, Active, Speaks, settings, Emission
<1>9. CASE emitReminder
    BY <1>9, EventIsRow DEF emitReminder, Speaks, settings
<1>10. CASE CaptureCreate
    BY <1>10, EventIsRow DEF CaptureCreate, Speaks, settings, history
<1>. QED
    BY <1>1, <1>2, <1>3, <1>4, <1>5, <1>6, <1>7, <1>8, <1>9, <1>10 DEF Tells

-----------------------------------------------------------------------------
(* A handler at work.                                                        *)

LEMMA HandlerTells ==
    ASSUME PartiesTyped, NEW e \in Emittable
    PROVE  Handler(e).to \in SUBSET User /\ Handler(e).type \in Words
<1>. USE DEF Kinds, Words, NotificationType, Tell, TellOthers
<1>0. /\ ticket.createdById \in User /\ ticket.assignedToId \in User
      /\ ticket.collaborators \subseteq User
      /\ visit.technicianId \in User /\ Creator \in User
    BY NotificationConstants DEF PartiesTyped
<1>1. /\ \A role : Active(role) \subseteq User
      /\ WorkingGroup \subseteq User
    BY <1>0 DEF Active, WorkingGroup
<1>2. e.kind \in Kinds /\ e.who \subseteq User /\ e.is \in Words
    BY DEF Emittable, EventRow
<1>3. CASE e.kind = "ticket.created"
    BY <1>1, <1>3 DEF Handler, onTicketCreated, getSuperAdminIds
<1>4. CASE e.kind = "ticket.assigned"
    BY <1>0, <1>2, <1>4 DEF Handler, onTicketAssigned
<1>5. CASE e.kind = "ticket.status-changed"
  <2>1. Handler(e) = onTicketStatusChanged(e)
    BY <1>5 DEF Handler
  <2>. QED
    BY <1>0, <1>1, <2>1 DEF onTicketStatusChanged
<1>6. CASE e.kind = "ticket.commented"
    BY <1>0, <1>1, <1>6 DEF Handler, onTicketCommented
<1>7. CASE e.kind = "ticket.response-breached"
    BY <1>0, <1>1, <1>7 DEF Handler, onResponseBreached, getSuperAdminIds
<1>8. CASE e.kind = "ticket.resolution-breached"
    BY <1>0, <1>1, <1>8 DEF Handler, onResolutionBreached, getSuperAdminIds
<1>9. CASE e.kind = "visit.proposed"
    BY <1>0, <1>9 DEF Handler, onVisitProposed
<1>10. CASE e.kind = "visit.confirmed"
    BY <1>0, <1>10 DEF Handler, onVisitConfirmed
<1>11. CASE e.kind = "visit.cancelled"
    BY <1>0, <1>11 DEF Handler, onVisitCancelled
<1>12. CASE e.kind = "visit.countered"
    BY <1>0, <1>12 DEF Handler, onVisitCountered
<1>13. CASE e.kind = "visit.rescheduled"
    BY <1>0, <1>13 DEF Handler, onVisitRescheduled
<1>14. CASE e.kind = "cartridge.filled"
    BY <1>0, <1>14 DEF Handler, onCartridgeFilled
<1>15. CASE e.kind = "refill-event.created"
    BY <1>1, <1>15 DEF Handler, onRefillEventCreated, getTeacherIds
<1>16. CASE e.kind = "refill-event.reminder"
    BY <1>1, <1>16 DEF Handler, onRefillEventReminder, getTeacherIds
<1>17. CASE e.kind = "system.error"
    BY <1>1, <1>17 DEF Handler, notifySuperAdmins, getSuperAdminIds
<1>18. CASE e.kind = "broadcast"
    BY <1>2, <1>18 DEF Handler, sendManual
<1>19. CASE e.kind = "about"
    BY <1>2, <1>19 DEF Handler, notifyAbout
<1>. QED
    BY <1>2, <1>3, <1>4, <1>5, <1>6, <1>7, <1>8, <1>9, <1>10, <1>11, <1>12, <1>13, <1>14,
       <1>15, <1>16, <1>17, <1>18, <1>19

LEMMA MentionTells ==
    ASSUME PartiesTyped, NEW e \in Emittable
    PROVE  TellMentioned(e).to \in SUBSET User /\ TellMentioned(e).type \in Words
BY DEF TellMentioned, TellOthers, Tell, Words, NotificationType, Emittable, EventRow

LEMMA OneJobTyped ==
    ASSUME JobsTyped, NEW j \in 1..MaxJobs, NEW job, jobs' = [jobs EXCEPT ![j] = job],
           notes' \in Seq(NoteRow), Len(notes') \in {Len(notes), Len(notes) + 1},
           JobOK(job, Len(notes'))
    PROVE  JobsTyped'
<1>1. jobs' \in [1..MaxJobs -> Job]
    BY DEF JobsTyped, JobOK
<1>2. ASSUME NEW k \in 1..MaxJobs PROVE JobOK(jobs'[k], Len(notes'))
  <2>1. CASE k = j
    BY <2>1 DEF JobsTyped
  <2>2. CASE k # j
    <3>1. jobs'[k] = jobs[k] /\ JobOK(jobs[k], Len(notes))
      BY <2>2 DEF JobsTyped
    <3>2. Len(notes) \in Nat
      BY DEF JobsTyped
    <3>. QED
      BY <3>1, <3>2 DEF JobOK
  <2>. QED
    BY <2>1, <2>2
<1>. QED
    BY <1>1, <1>2 DEF JobsTyped

LEMMA FinishedOK ==
    ASSUME JobsTyped, NEW j \in 1..MaxJobs, jobs[j].step # "free"
    PROVE  /\ Finished(j).step \in {"free", "mention"}
           /\ \A n \in Nat : JobOK(Finished(j), n)
<1>. DEFINE next == [Free EXCEPT !.step = "mention", !.event = jobs[j].event]
<1>1. Free \in Job /\ jobs[j].event \in Emittable /\ jobs[j].event \in EventRow
    BY FreeIsJob DEF JobsTyped, JobOK, Emittable
<1>2. next.step = "mention" /\ next.event = jobs[j].event
      /\ next.note = 0 /\ next.rest = <<>>
    BY DEF Free
<1>3. next \in Job
    BY <1>1 DEF Job
<1>4. \A n \in Nat : JobOK(next, n)
    BY <1>1, <1>2, <1>3 DEF JobOK
<1>5. Finished(j) \in {next, Free}
    BY DEF Finished
<1>. QED
    BY <1>2, <1>4, <1>5, FreeIsJob

\* The recipients are found and the clock is read: the handler goes through
\* them, or has nobody to tell.
Resolved(j, t, next) ==
    \/ next.step \in {"free", "mention"}
    \/ /\ next.step = "loop" /\ next.event = jobs[j].event
       /\ next.todo = (IF jobs[j].step = "mention" THEN TellMentioned(jobs[j].event)
                                                  ELSE Handler(jobs[j].event)).to
       /\ next.quiet <=> ~Skips(next.event) /\ isWithinQuietHours(t, quiet)
       /\ next.hush <=> t \in QuietMinutes(quiet)

LEMMA ResolveGoes ==
    ASSUME Typed, NEW j \in 1..MaxJobs, Resolve(j)
    PROVE  \E t \in Moment : \E next :
             /\ jobs' = [jobs EXCEPT ![j] = next] /\ JobOK(next, Len(notes))
             /\ Resolved(j, t, next)
<1>1. PICK t \in Moment : LET e == jobs[j].event
              tell == IF jobs[j].step = "mention" THEN TellMentioned(e) ELSE Handler(e)
              quietNow == ~Skips(e) /\ isWithinQuietHours(t, quiet)
          IN  /\ jobs[j].step \in {"emitted", "mention"}
              /\ jobs' = [jobs EXCEPT ![j] =
                    IF tell.to # {}
                    THEN [@ EXCEPT !.step = "loop", !.type = tell.type, !.todo = tell.to,
                                   !.quiet = quietNow, !.hush = t \in QuietMinutes(quiet)]
                    ELSE IF @.step = "emitted" THEN Finished(j) ELSE Free]
              /\ notes' = notes
    BY DEF Resolve
<1>. DEFINE e == jobs[j].event
            tell == IF jobs[j].step = "mention" THEN TellMentioned(e) ELSE Handler(e)
            quietNow == ~Skips(e) /\ isWithinQuietHours(t, quiet)
            hushNow == t \in QuietMinutes(quiet)
            loop == [jobs[j] EXCEPT !.step = "loop", !.type = tell.type, !.todo = tell.to,
                                    !.quiet = quietNow, !.hush = hushNow]
            next == IF tell.to # {} THEN loop
                    ELSE IF jobs[j].step = "emitted" THEN Finished(j) ELSE Free
<1>2. jobs[j].step \in {"emitted", "mention"} /\ notes' = notes /\ Len(notes) \in Nat
    BY <1>1 DEF Typed, JobsTyped
<1>3. jobs' = [jobs EXCEPT ![j] = next]
    BY <1>1 DEF Typed, JobsTyped
<1>4. jobs[j] \in Job /\ jobs[j].note \in 0..Len(notes) /\ e \in Emittable
      /\ jobs[j].rest = <<>>
    BY <1>2 DEF Typed, JobsTyped, JobOK
<1>5. tell.to \in SUBSET User /\ tell.type \in Words
    BY <1>4, HandlerTells, MentionTells DEF Typed
<1>6. quietNow \in BOOLEAN /\ hushNow \in BOOLEAN
    BY DEF Skips, isWithinQuietHours
<1>7. ASSUME tell.to # {} PROVE JobOK(loop, Len(notes))
  <2>. HIDE DEF quietNow, hushNow, tell, e
  <2>1. loop \in Job
    BY <1>4, <1>5, <1>6 DEF Job
  <2>2. /\ loop.step = "loop" /\ loop.event = jobs[j].event /\ loop.note = jobs[j].note
        /\ loop.todo = tell.to
    BY <1>4 DEF Job
  <2>3. loop.rest = jobs[j].rest
    BY <1>4 DEF Job
  <2>. QED
    BY <1>4, <1>7, <2>1, <2>2, <2>3 DEF JobOK, e
<1>8. JobOK(next, Len(notes))
    BY <1>2, <1>7, FinishedOK, FreeIsJob DEF Typed
<1>9. ASSUME tell.to # {}
      PROVE  /\ next.step = "loop" /\ next.event = e /\ next.todo = tell.to
             /\ next.quiet = quietNow /\ next.hush = hushNow
  <2>. HIDE DEF quietNow, hushNow, tell, e
  <2>1. /\ loop.step = "loop" /\ loop.event = jobs[j].event /\ loop.todo = tell.to
        /\ loop.quiet = quietNow /\ loop.hush = hushNow
    BY <1>4 DEF Job
  <2>. HIDE DEF loop
  <2>. QED
    BY <1>9, <2>1 DEF e
<1>0. t \in Moment
    BY <1>1
<1>10. CASE tell.to # {}
  <2>1. /\ next.step = "loop" /\ next.event = e /\ next.todo = tell.to
        /\ next.quiet = quietNow /\ next.hush = hushNow
    BY <1>9, <1>10
  <2>. HIDE DEF next
  <2>2. Resolved(j, t, next)
    BY <2>1 DEF Resolved
  <2>. QED
    BY <1>0, <1>3, <1>8, <2>2
<1>11. CASE tell.to = {}
  <2>1. next.step \in {"free", "mention"}
    BY <1>2, <1>11, FinishedOK, FreeIsJob DEF Typed
  <2>2. Resolved(j, t, next)
    BY <2>1 DEF Resolved
  <2>. HIDE DEF next
  <2>. QED
    BY <1>0, <1>3, <1>8, <2>2
<1>. QED
    BY <1>10, <1>11

\* What a handler keeps while it goes through its recipients.
Carries(next, job) ==
    next.step \in {"loop", "channels"} =>
        /\ next.event = job.event /\ next.quiet = job.quiet /\ next.hush = job.hush
        /\ next.todo \subseteq job.todo

LEMMA OnwardGoes ==
    ASSUME JobsTyped, NEW j \in 1..MaxJobs, jobs[j].step # "free", NEW n \in Nat,
           NEW job \in Job, job.note \in 0..n, job.event \in Emittable,
           job.rest # <<>> => job.step = "channels" /\ job.note # 0,
           jobs' = Onward(j, job)
    PROVE  \E next : /\ jobs' = [jobs EXCEPT ![j] = next]
                     /\ JobOK(next, n) /\ Carries(next, job)
                     /\ next.step = "channels" => next = job
<1>. DEFINE loop == [job EXCEPT !.step = "loop"]
            next == IF job.rest # <<>> THEN job ELSE IF job.todo # {} THEN loop ELSE Finished(j)
<1>1. jobs' = [jobs EXCEPT ![j] = next]
    BY DEF Onward, JobsTyped
<1>2. CASE job.rest # <<>>
  <2>1. next = job /\ JobOK(job, n)
    BY <1>2 DEF JobOK
  <2>. QED
    BY <1>1, <2>1 DEF Carries
<1>3. CASE job.rest = <<>> /\ job.todo # {}
  <2>1. loop \in Job
    BY DEF Job
  <2>2. /\ loop.step = "loop" /\ loop.event = job.event /\ loop.todo = job.todo
        /\ loop.quiet = job.quiet /\ loop.hush = job.hush /\ loop.note = job.note
        /\ loop.rest = job.rest
    BY DEF Job
  <2>3. JobOK(loop, n)
    BY <1>3, <2>1, <2>2 DEF JobOK
  <2>4. Carries(loop, job) /\ loop.step # "channels"
    BY <2>2 DEF Carries
  <2>5. next = loop
    BY <1>3
  <2>. HIDE DEF loop, next
  <2>. QED
    BY <1>1, <2>3, <2>4, <2>5
<1>4. CASE job.rest = <<>> /\ job.todo = {}
  <2>1. next = Finished(j)
    BY <1>4
  <2>2. next.step \in {"free", "mention"} /\ JobOK(next, n)
    BY <2>1, FinishedOK
  <2>. HIDE DEF next
  <2>. QED
    BY <1>1, <2>2 DEF Carries
<1>. QED
    BY <1>2, <1>3, <1>4

\* A recipient is taken: who wants to hear of the event gets a row.
LEMMA NotifyUserGoes ==
    ASSUME Typed, NEW j \in 1..MaxJobs, NotifyUser(j)
    PROVE  \E next :
             /\ jobs[j].step = "loop"
             /\ jobs' = [jobs EXCEPT ![j] = next]
             /\ JobOK(next, Len(notes')) /\ Carries(next, jobs[j])
             /\ \/ notes' = notes /\ UNCHANGED trace /\ next.step # "channels"
                \/ /\ \E row \in NoteRow :
                         /\ notes' = Append(notes, row)
                         /\ row.user \in jobs[j].todo
                         /\ row.internal <=> jobs[j].event.is = "internal"
                   /\ Records(Len(notes) + 1, "IN_APP")
                   /\ next.step = "channels" => next.note = Len(notes) + 1
<1>. DEFINE u == CHOOSE u \in jobs[j].todo : TRUE
            next == [jobs[j] EXCEPT !.todo = @ \ {u}]
            rest == IF Pref(u, jobs[j].type).push THEN Interruptive ELSE <<>>
            rings == [next EXCEPT !.step = "channels", !.note = Len(notes) + 1, !.rest = rest]
            row == [user |-> u, internal |-> jobs[j].event.is = "internal"]
<1>1. /\ jobs[j].step = "loop"
      /\ \/ /\ notes' = Append(notes, row) /\ Records(Len(notes) + 1, "IN_APP")
            /\ jobs' = Onward(j, rings)
         \/ jobs' = Onward(j, next) /\ notes' = notes /\ UNCHANGED trace
    BY DEF NotifyUser
<1>2. /\ jobs[j] \in Job /\ jobs[j].note \in 0..Len(notes) /\ jobs[j].event \in Emittable
      /\ jobs[j].rest = <<>> /\ jobs[j].todo # {} /\ jobs[j].todo \subseteq User
      /\ JobsTyped /\ Len(notes) \in Nat
    BY <1>1 DEF Typed, JobsTyped, JobOK, Job
<1>3. u \in jobs[j].todo /\ u \in User
    BY <1>2
<1>. HIDE DEF u
<1>4. next \in Job
    BY <1>2 DEF Job
<1>5. /\ next.step = "loop" /\ next.event = jobs[j].event /\ next.note = jobs[j].note
      /\ next.quiet = jobs[j].quiet /\ next.hush = jobs[j].hush
      /\ next.rest = <<>> /\ next.todo = jobs[j].todo \ {u}
    BY <1>1, <1>2 DEF Job
<1>6. CASE jobs' = Onward(j, next) /\ notes' = notes /\ UNCHANGED trace
  <2>. HIDE DEF next
  <2>1. PICK after : /\ jobs' = [jobs EXCEPT ![j] = after]
                     /\ JobOK(after, Len(notes)) /\ Carries(after, next)
                     /\ after.step = "channels" => after = next
    BY <1>1, <1>2, <1>4, <1>5, <1>6, OnwardGoes
  <2>2. Carries(after, jobs[j]) /\ after.step # "channels"
    BY <1>5, <2>1 DEF Carries
  <2>. QED
    BY <1>1, <1>6, <2>1, <2>2
<1>7. CASE /\ notes' = Append(notes, row) /\ Records(Len(notes) + 1, "IN_APP")
           /\ jobs' = Onward(j, rings)
  <2>1. row \in NoteRow /\ row.user = u /\ (row.internal <=> jobs[j].event.is = "internal")
    BY <1>3 DEF NoteRow
  <2>2. rest \in {<<>>, Interruptive}
    OBVIOUS
  <2>. HIDE DEF next, rest
  <2>3. rings \in Job
    <3>. DEFINE n == Len(notes) + 1
    <3>1. n \in Nat
      BY <1>2
    <3>. HIDE DEF n
    <3>2. [next EXCEPT !.step = "channels", !.note = n, !.rest = rest] \in Job
      BY <1>4, <2>2, <3>1 DEF Job
    <3>. QED
      BY <3>2 DEF n
  <2>4. /\ rings.step = "channels" /\ rings.event = next.event
        /\ rings.note = Len(notes) + 1 /\ rings.quiet = next.quiet /\ rings.hush = next.hush
        /\ rings.rest = rest /\ rings.todo = next.todo
    BY <1>4 DEF Job
  <2>. HIDE DEF rings, row
  <2>5. Len(notes') = Len(notes) + 1
    BY <1>2, <1>7, <2>1 DEF JobsTyped
  <2>6. PICK after : /\ jobs' = [jobs EXCEPT ![j] = after]
                     /\ JobOK(after, Len(notes) + 1) /\ Carries(after, rings)
                     /\ after.step = "channels" => after = rings
    <3>1. rings.note \in 0..Len(notes) + 1 /\ rings.note # 0 /\ Len(notes) + 1 \in Nat
      BY <1>2, <2>4
    <3>. QED
      BY <1>1, <1>2, <1>5, <1>7, <2>3, <2>4, <3>1, OnwardGoes
  <2>7. Carries(after, jobs[j]) /\ (after.step = "channels" => after.note = Len(notes) + 1)
    BY <1>5, <2>4, <2>6 DEF Carries
  <2>. QED
    BY <1>1, <1>3, <1>7, <2>1, <2>5, <2>6, <2>7
<1>. QED
    BY <1>1, <1>6, <1>7

LEMMA RestGoes ==
    ASSUME NEW rest \in {<<>>, Interruptive, <<"WEB_PUSH">>}, rest # <<>>
    PROVE  \/ rest = Interruptive /\ Head(rest) = "MAX" /\ Tail(rest) = <<"WEB_PUSH">>
           \/ rest = <<"WEB_PUSH">> /\ Head(rest) = "WEB_PUSH" /\ Tail(rest) = <<>>
<1>1. Head(<<"MAX", "WEB_PUSH">>) = "MAX"
    OBVIOUS
<1>2. Tail(<<"MAX", "WEB_PUSH">>) = <<"WEB_PUSH">>
    OBVIOUS
<1>3. Head(<<"WEB_PUSH">>) = "WEB_PUSH"
    OBVIOUS
<1>4. Tail(<<"WEB_PUSH">>) = <<>>
    OBVIOUS
<1>5. CASE rest = Interruptive
    BY <1>1, <1>2, <1>5 DEF Interruptive
<1>6. CASE rest = <<"WEB_PUSH">>
    BY <1>3, <1>4, <1>6
<1>. QED
    BY <1>5, <1>6

LEMMA RestsDiffer ==
    <<"WEB_PUSH">> # <<>> /\ Interruptive # <<>> /\ Interruptive # <<"WEB_PUSH">>
BY DEF Interruptive

\* What a send leaves in the trace.
Traces(n, c) == \/ UNCHANGED trace
                \/ sent' = sent \cup {<<n, c>>} /\ again' = (again \/ <<n, c>> \in sent)

LEMMA RecordsTraces ==
    ASSUME NEW n, NEW c, Records(n, c) PROVE Traces(n, c)
BY DEF Records, Traces

LEMMA SendTraces ==
    ASSUME PartiesTyped, NEW n, NEW c \in {"MAX", "WEB_PUSH"}, NEW active, Send(n, c, active)
    PROVE  Traces(n, c) /\ owner' \in [Device -> User \cup {None}]
<1>1. CASE c = "MAX"
  <2>1. SendMax(n, active)
    BY <1>1 DEF Send
  <2>. QED
    BY <1>1, <2>1 DEF SendMax, Records, Traces, PartiesTyped
<1>2. CASE c = "WEB_PUSH"
  <2>1. SendWebPush(n)
    BY <1>2 DEF Send
  <2>. QED
    BY <1>2, <2>1 DEF SendWebPush, Records, Traces, PartiesTyped
<1>. QED
    BY <1>1, <1>2

\* A channel is served: the note waits, goes out, or does neither.
LEMMA DeliverGoes ==
    ASSUME Typed, NEW j \in 1..MaxJobs, Deliver(j)
    PROVE  \E next, c :
             /\ jobs[j].step = "channels" /\ c \in Rest(jobs[j]) \cap {"MAX", "WEB_PUSH"}
             /\ jobs' = [jobs EXCEPT ![j] = next]
             /\ JobOK(next, Len(notes)) /\ Carries(next, jobs[j])
             /\ next.step = "channels" =>
                   next.note = jobs[j].note /\ Rest(next) \subseteq Rest(jobs[j]) \ {c}
             /\ \/ pending' = pending /\ Traces(jobs[j].note, c)
                \/ pending' = pending \cup {<<jobs[j].note, c>>} /\ UNCHANGED trace
             /\ owner' \in [Device -> User \cup {None}]
<1>. DEFINE c == Head(jobs[j].rest)
            rest == Tail(jobs[j].rest)
            next == [jobs[j] EXCEPT !.rest = rest]
<1>1. /\ jobs[j].step = "channels"
      /\ \/ UNCHANGED <<owner, pending, trace>>
         \/ pending' = pending \cup {<<jobs[j].note, c>>} /\ UNCHANGED <<owner, trace>>
         \/ Send(jobs[j].note, c, TRUE) /\ UNCHANGED pending
      /\ jobs' = Onward(j, next)
    BY DEF Deliver, Typed, JobsTyped
<1>2. /\ jobs[j] \in Job /\ jobs[j].note \in 0..Len(notes) /\ jobs[j].event \in Emittable
      /\ jobs[j].rest \in {<<>>, Interruptive, <<"WEB_PUSH">>} /\ jobs[j].rest # <<>>
      /\ jobs[j].note # 0
      /\ JobsTyped /\ Len(notes) \in Nat
    BY <1>1 DEF Typed, JobsTyped, JobOK, Job
<1>3. \/ jobs[j].rest = Interruptive /\ c = "MAX" /\ rest = <<"WEB_PUSH">>
      \/ jobs[j].rest = <<"WEB_PUSH">> /\ c = "WEB_PUSH" /\ rest = <<>>
    BY <1>2, RestGoes
<1>4. c \in {"MAX", "WEB_PUSH"} /\ rest \in {<<>>, Interruptive, <<"WEB_PUSH">>}
    BY <1>3
<1>. HIDE DEF c, rest
<1>5. next \in Job
    BY <1>2, <1>4 DEF Job
<1>6. /\ next.step = jobs[j].step /\ next.event = jobs[j].event /\ next.note = jobs[j].note
      /\ next.quiet = jobs[j].quiet /\ next.hush = jobs[j].hush /\ next.rest = rest
      /\ next.todo = jobs[j].todo
    BY <1>2 DEF Job
<1>7. Rest(next) \subseteq Rest(jobs[j]) \ {c} /\ c \in Rest(jobs[j])
    BY <1>3, <1>6, RestsDiffer DEF Rest, Channel
<1>. HIDE DEF next
<1>8. PICK after : /\ jobs' = [jobs EXCEPT ![j] = after]
                   /\ JobOK(after, Len(notes)) /\ Carries(after, next)
                   /\ after.step = "channels" => after = next
    BY <1>1, <1>2, <1>5, <1>6, OnwardGoes
<1>9. Carries(after, jobs[j])
    BY <1>6, <1>8 DEF Carries
<1>10. /\ \/ pending' = pending /\ Traces(jobs[j].note, c)
          \/ pending' = pending \cup {<<jobs[j].note, c>>} /\ UNCHANGED trace
       /\ owner' \in [Device -> User \cup {None}]
  <2>1. CASE UNCHANGED <<owner, pending, trace>>
    BY <2>1 DEF Traces, Typed, PartiesTyped
  <2>2. CASE pending' = pending \cup {<<jobs[j].note, c>>} /\ UNCHANGED <<owner, trace>>
    BY <2>2 DEF Typed, PartiesTyped
  <2>3. CASE Send(jobs[j].note, c, TRUE) /\ UNCHANGED pending
    BY <1>4, <2>3, SendTraces DEF Typed
  <2>. QED
    BY <1>1, <2>1, <2>2, <2>3
<1>11. after.step = "channels" =>
          after.note = jobs[j].note /\ Rest(after) \subseteq Rest(jobs[j]) \ {c}
    BY <1>6, <1>7, <1>8
<1>. QED
    BY <1>1, <1>4, <1>7, <1>8, <1>9, <1>10, <1>11

-----------------------------------------------------------------------------
(* The type invariant is kept.                                               *)

LEMMA PartiesSame ==
    ASSUME PartiesTyped, UNCHANGED <<settings, ticket, visit>> PROVE PartiesTyped'
BY DEF PartiesTyped, settings

LEMMA CountersSame ==
    ASSUME CountersTyped, UNCHANGED <<events, errors, spoilt>> PROVE CountersTyped'
BY DEF CountersTyped

LEMMA StoredGrows ==
    ASSUME Len(notes) \in Nat, Len(notes') \in {Len(notes), Len(notes) + 1}
    PROVE  /\ 1..Len(notes) \subseteq (1..Len(notes))'
           /\ Stored \subseteq Stored'
BY DEF Stored

LEMMA TracesTyped ==
    ASSUME RowsTyped, Len(notes) \in Nat, Len(notes') \in {Len(notes), Len(notes) + 1},
           NEW n \in 1..Len(notes'), NEW c \in Channel, Traces(n, c)
    PROVE  sent' \subseteq (1..Len(notes')) \X Channel /\ again' \in BOOLEAN
<1>1. sent \subseteq (1..Len(notes')) \X Channel
    BY StoredGrows DEF RowsTyped
<1>2. sent' = sent \/ sent' = sent \cup {<<n, c>>}
    BY DEF Traces, trace
<1>3. \/ again' = again
      \/ again' = (again \/ <<n, c>> \in sent)
    BY DEF Traces, trace
<1>4. again' \in BOOLEAN
    BY <1>3, Zenon DEF RowsTyped
<1>. QED
    BY <1>1, <1>2, <1>4

LEMMA RowsGrow ==
    ASSUME RowsTyped, Len(notes) \in Nat, Len(notes') \in {Len(notes), Len(notes) + 1},
           UNCHANGED <<pending, runs>>,
           sent' \subseteq (1..Len(notes')) \X Channel, again' \in BOOLEAN
    PROVE  RowsTyped'
<1>1. Stored \subseteq Stored'
    BY StoredGrows
<1>2. pending' \subseteq Stored'
    BY <1>1 DEF RowsTyped
<1>3. \A r \in 1..MaxRuns :
          /\ runs'[r].items \subseteq Stored'
          /\ runs'[r].sent \in runs'[r].items \cup {<<>>}
    BY <1>1 DEF RowsTyped
<1>. QED
    BY <1>2, <1>3 DEF RowsTyped

LEMMA RowsSame ==
    ASSUME RowsTyped, Len(notes) \in Nat, UNCHANGED <<notes, pending, runs, trace>>
    PROVE  RowsTyped'
BY RowsGrow DEF RowsTyped, trace

LEMMA WorkTyped ==
    ASSUME Typed, NEW j \in 1..MaxJobs, Work(j) PROVE Typed'
<1>0. Len(notes) \in Nat
    BY DEF Typed, JobsTyped
<1>1. CASE Resolve(j)
  <2>1. UNCHANGED <<sources, settings, notes, pending, runs, history>>
    BY <1>1 DEF Resolve
  <2>2. PartiesTyped' /\ CountersTyped'
    BY <2>1, PartiesSame, CountersSame DEF Typed, sources, history
  <2>3. RowsTyped'
    BY <1>0, <2>1, RowsSame DEF Typed, history
  <2>4. JobsTyped'
    BY <1>0, <1>1, <2>1, ResolveGoes, OneJobTyped DEF Typed, JobsTyped
  <2>. QED
    BY <2>2, <2>3, <2>4 DEF Typed
<1>2. CASE NotifyUser(j)
  <2>1. UNCHANGED <<sources, settings, pending, runs, events, spoilt>>
    BY <1>2 DEF NotifyUser
  <2>2. PartiesTyped' /\ CountersTyped'
    BY <2>1, PartiesSame, CountersSame DEF Typed, sources
  <2>3. PICK next :
             /\ jobs' = [jobs EXCEPT ![j] = next]
             /\ JobOK(next, Len(notes'))
             /\ \/ notes' = notes /\ UNCHANGED trace
                \/ /\ \E row \in NoteRow : notes' = Append(notes, row)
                   /\ Records(Len(notes) + 1, "IN_APP")
    BY <1>2, NotifyUserGoes
  <2>4. CASE notes' = notes /\ UNCHANGED trace
    <3>1. JobsTyped'
      BY <1>0, <2>3, <2>4, OneJobTyped DEF Typed, JobsTyped
    <3>2. RowsTyped'
      BY <1>0, <2>1, <2>4, RowsSame DEF Typed
    <3>. QED
      BY <2>2, <3>1, <3>2 DEF Typed
  <2>5. CASE /\ \E row \in NoteRow : notes' = Append(notes, row)
             /\ Records(Len(notes) + 1, "IN_APP")
    <3>1. notes' \in Seq(NoteRow) /\ Len(notes') = Len(notes) + 1
      BY <2>5 DEF Typed, JobsTyped
    <3>2. JobsTyped'
      BY <2>3, <3>1, OneJobTyped DEF Typed
    <3>3. Traces(Len(notes'), "IN_APP") /\ Len(notes') \in 1..Len(notes')
      BY <1>0, <2>5, <3>1, RecordsTraces
    <3>4. RowsTyped'
      BY <1>0, <2>1, <3>1, <3>3, TracesTyped, RowsGrow DEF Typed, Channel
    <3>. QED
      BY <2>2, <3>2, <3>4 DEF Typed
  <2>. QED
    BY <2>3, <2>4, <2>5
<1>3. CASE Deliver(j)
  <2>1. UNCHANGED <<sources, people, prefs, quiet, notes, runs, events, spoilt>>
    BY <1>3 DEF Deliver
  <2>2. PICK next, c :
             /\ jobs[j].step = "channels" /\ c \in {"MAX", "WEB_PUSH"}
             /\ jobs' = [jobs EXCEPT ![j] = next]
             /\ JobOK(next, Len(notes))
             /\ \/ pending' = pending /\ Traces(jobs[j].note, c)
                \/ pending' = pending \cup {<<jobs[j].note, c>>} /\ UNCHANGED trace
             /\ owner' \in [Device -> User \cup {None}]
    BY <1>3, DeliverGoes
  <2>3. PartiesTyped' /\ CountersTyped'
    BY <2>1, <2>2, CountersSame DEF Typed, PartiesTyped, sources
  <2>4. JobsTyped'
    BY <1>0, <2>1, <2>2, OneJobTyped DEF Typed, JobsTyped
  <2>5. jobs[j].note \in 1..Len(notes)
    BY <1>0, <2>2 DEF Typed, JobsTyped, JobOK
  <2>6. sent' \subseteq (1..Len(notes')) \X Channel /\ again' \in BOOLEAN
    <3>1. CASE Traces(jobs[j].note, c)
      BY <1>0, <2>1, <2>2, <2>5, <3>1, TracesTyped DEF Typed, Channel
    <3>2. CASE UNCHANGED trace
      BY <2>1, <3>2 DEF Typed, RowsTyped, trace
    <3>. QED
      BY <2>2, <3>1, <3>2
  <2>7. pending' \subseteq Stored'
    BY <2>1, <2>2, <2>5 DEF Typed, RowsTyped, Stored
  <2>8. RowsTyped'
    BY <2>1, <2>6, <2>7 DEF Typed, RowsTyped, Stored
  <2>. QED
    BY <2>3, <2>4, <2>8 DEF Typed
<1>. QED
    BY <1>1, <1>2, <1>3 DEF Work

LEMMA FlushGoes ==
    ASSUME Typed, NEW r \in 1..MaxRuns, FlushSend(r)
    PROVE  \E n, c : /\ <<n, c>> = First(runs[r].items)
                     /\ <<n, c>> \in runs[r].items /\ <<n, c>> \in Stored
                     /\ runs[r].sent = <<>>
                     /\ runs' = [runs EXCEPT ![r].sent = <<n, c>>]
                     /\ Traces(n, c)
                     /\ owner' \in [Device -> User \cup {None}]
<1>. DEFINE item == First(runs[r].items)
<1>1. /\ runs[r].sent = <<>> /\ runs[r].items # {}
      /\ runs' = [runs EXCEPT ![r].sent = item]
      /\ Send(item[1], item[2], notes[item[1]].user \in runs[r].active)
    BY DEF FlushSend
<1>2. runs[r].items \subseteq Stored /\ runs[r].items \subseteq Item
    BY DEF Typed, RowsTyped, Run
<1>3. item \in runs[r].items
    BY <1>1, <1>2, FirstIsOne
<1>. HIDE DEF item
<1>4. item \in Stored
    BY <1>2, <1>3
<1>5. item = <<item[1], item[2]>> /\ item[2] \in {"MAX", "WEB_PUSH"}
    BY <1>4 DEF Stored
<1>6. /\ Traces(item[1], item[2])
      /\ owner' \in [Device -> User \cup {None}]
    BY <1>1, <1>5, SendTraces DEF Typed
<1>. QED
    BY <1>1, <1>3, <1>4, <1>5, <1>6 DEF item

LEMMA FlushTyped ==
    ASSUME Typed, NEW r \in 1..MaxRuns, Flush(r) PROVE Typed'
<1>0. Len(notes) \in Nat
    BY DEF Typed, JobsTyped
<1>1. CASE FlushSend(r)
  <2>1. UNCHANGED <<sources, people, prefs, quiet, jobs, notes, pending, events, spoilt>>
    BY <1>1 DEF FlushSend
  <2>2. PICK n, c : /\ <<n, c>> \in runs[r].items /\ <<n, c>> \in Stored
                    /\ runs' = [runs EXCEPT ![r].sent = <<n, c>>]
                    /\ Traces(n, c)
                    /\ owner' \in [Device -> User \cup {None}]
    BY <1>1, FlushGoes
  <2>3. PartiesTyped' /\ CountersTyped' /\ JobsTyped'
    BY <2>1, <2>2, CountersSame DEF Typed, PartiesTyped, JobsTyped, sources
  <2>4. n \in 1..Len(notes') /\ c \in Channel
    BY <2>1, <2>2 DEF Stored, Channel
  <2>5. sent' \subseteq (1..Len(notes')) \X Channel /\ again' \in BOOLEAN
    BY <1>0, <2>1, <2>2, <2>4, TracesTyped DEF Typed
  <2>6. runs' \in [1..MaxRuns -> Run]
    <3>1. runs[r] \in Run /\ <<n, c>> \in Item
      BY <2>2 DEF Typed, RowsTyped, Run
    <3>2. [runs[r] EXCEPT !.sent = <<n, c>>] \in Run
      BY <3>1 DEF Run
    <3>. QED
      BY <2>2, <3>2 DEF Typed, RowsTyped
  <2>7. ASSUME NEW s \in 1..MaxRuns
        PROVE  /\ runs'[s].items \subseteq Stored
               /\ runs'[s].sent \in runs'[s].items \cup {<<>>}
    <3>1. CASE s = r
      <4>1. runs'[s].items = runs[s].items /\ runs'[s].sent = <<n, c>>
        BY <2>2, <3>1 DEF Typed, RowsTyped, Run
      <4>. QED
        BY <2>2, <3>1, <4>1 DEF Typed, RowsTyped
    <3>2. CASE s # r
      BY <2>2, <3>2 DEF Typed, RowsTyped
    <3>. QED
      BY <3>1, <3>2
  <2>8. RowsTyped'
    BY <2>1, <2>5, <2>6, <2>7 DEF Typed, RowsTyped, Stored
  <2>. QED
    BY <2>3, <2>8 DEF Typed
<1>2. CASE FlushDelete(r)
  <2>. DEFINE left == runs[r].items \ {runs[r].sent}
              rest == [runs[r] EXCEPT !.items = left, !.sent = <<>>]
              next == IF runs[r].sent \notin pending \/ left = {} THEN Ended ELSE rest
  <2>1. /\ UNCHANGED <<sources, settings, jobs, notes, history>>
        /\ pending' = pending \ {runs[r].sent}
        /\ runs' = [runs EXCEPT ![r] = next]
    BY <1>2 DEF FlushDelete
  <2>2. PartiesTyped' /\ CountersTyped' /\ JobsTyped'
    BY <2>1, PartiesSame, CountersSame DEF Typed, JobsTyped, sources, history
  <2>3. runs[r] \in Run /\ runs[r].items \subseteq Stored
    BY DEF Typed, RowsTyped
  <2>4. rest \in Run
    BY <2>3 DEF Run
  <2>5. rest.items = left /\ rest.sent = <<>>
    BY <2>3 DEF Run
  <2>6. next \in Run /\ next.items \subseteq Stored /\ next.sent = <<>>
    BY <2>3, <2>4, <2>5, EndedIsRun
  <2>. HIDE DEF next
  <2>7. \A s \in 1..MaxRuns : /\ runs'[s].items \subseteq Stored
                              /\ runs'[s].sent \in runs'[s].items \cup {<<>>}
    BY <2>1, <2>6 DEF Typed, RowsTyped
  <2>8. RowsTyped'
    BY <2>1, <2>6, <2>7 DEF Typed, RowsTyped, Stored, history, trace
  <2>. QED
    BY <2>2, <2>8 DEF Typed
<1>. QED
    BY <1>1, <1>2 DEF Flush

\* A run of the delivery cron begins.
LEMMA FlushPendingGoes ==
    ASSUME Typed, NEW t \in Moment, flushPending(t)
    PROVE  \E r \in 1..MaxRuns, run \in Run :
             /\ runs[r] = Ended /\ runs' = [runs EXCEPT ![r] = run]
             /\ run.items = pending /\ run.sent = <<>>
             /\ run.hush <=> t \in QuietMinutes(quiet)
<1>. DEFINE r == CHOOSE i \in 1..MaxRuns : runs[i] = Ended
            run == [items |-> pending, sent |-> <<>>, hush |-> t \in QuietMinutes(quiet),
                    active |-> {u \in User : people[u].isActive}]
<1>1. runs' = [runs EXCEPT ![r] = run] /\ \E i \in 1..MaxRuns : runs[i] = Ended
    BY DEF flushPending
<1>2. r \in 1..MaxRuns /\ runs[r] = Ended
    BY <1>1
<1>. HIDE DEF r
<1>3. Len(notes) \in Nat /\ pending \subseteq Item
    BY DEF Typed, JobsTyped, RowsTyped, Stored, Item
<1>4. run.items = pending /\ run.sent = <<>> /\ (run.hush <=> t \in QuietMinutes(quiet))
    OBVIOUS
<1>5. run \in Run
  <2>. DEFINE hushNow == t \in QuietMinutes(quiet)
              active == {u \in User : people[u].isActive}
  <2>1. hushNow \in BOOLEAN /\ active \in SUBSET User
    OBVIOUS
  <2>. HIDE DEF hushNow, active
  <2>2. [items |-> pending, sent |-> <<>>, hush |-> hushNow, active |-> active] \in Run
    BY <1>3, <2>1 DEF Run
  <2>. QED
    BY <2>2 DEF hushNow, active
<1>. QED
    BY <1>1, <1>2, <1>4, <1>5

LEMMA FlushPendingTyped ==
    ASSUME Typed, NEW t \in Moment, flushPending(t) PROVE Typed'
<1>1. /\ UNCHANGED <<sources, settings, jobs, notes, pending, events, again>>
      /\ spoilt' = (spoilt \/ Running)
      /\ sent' = IF spoilt' THEN {} ELSE sent
    BY DEF flushPending
<1>2. PICK r \in 1..MaxRuns, run \in Run :
             /\ runs' = [runs EXCEPT ![r] = run]
             /\ run.items = pending /\ run.sent = <<>>
    BY FlushPendingGoes
<1>3. spoilt' \in BOOLEAN
    BY <1>1, Zenon DEF Typed, CountersTyped, Running
<1>4. PartiesTyped' /\ JobsTyped' /\ CountersTyped'
    BY <1>1, <1>3, PartiesSame DEF Typed, JobsTyped, CountersTyped, sources
<1>5. \A s \in 1..MaxRuns : /\ runs'[s].items \subseteq Stored
                            /\ runs'[s].sent \in runs'[s].items \cup {<<>>}
    BY <1>2 DEF Typed, RowsTyped
<1>6. sent' \subseteq (1..Len(notes)) \X Channel
    BY <1>1 DEF Typed, RowsTyped
<1>7. RowsTyped'
    BY <1>1, <1>2, <1>5, <1>6 DEF Typed, RowsTyped, Stored
<1>. QED
    BY <1>4, <1>7 DEF Typed

LEMMA CrashTyped ==
    ASSUME Typed, Crash PROVE Typed'
<1>1. /\ UNCHANGED <<ticket, visit, settings, notes, pending, again>>
      /\ jobs' = [j \in 1..MaxJobs |-> Free] /\ runs' = [r \in 1..MaxRuns |-> Ended]
      /\ spoilt' = TRUE /\ sent' = {} /\ errors' = [errors EXCEPT !.creating = 0]
      /\ events < MaxEvents /\ events' = events + 1
    BY DEF Crash, Change
<1>2. MaxEvents \in Nat /\ Len(notes) \in Nat
    BY NotificationConstants DEF Typed, JobsTyped
<1>3. PartiesTyped'
    BY <1>1, PartiesSame DEF Typed
<1>4. JobsTyped'
    BY <1>1, <1>2, FreeIsJob DEF Typed, JobsTyped
<1>5. RowsTyped'
  <2>1. \A r \in 1..MaxRuns : runs'[r] = Ended
    BY <1>1
  <2>2. runs' \in [1..MaxRuns -> Run]
    BY <1>1, EndedIsRun
  <2>. QED
    BY <1>1, <2>1, <2>2, EndedIsRun DEF Typed, RowsTyped, Stored
<1>6. CountersTyped'
  <2>1. errors' \in [open : Nat, creating : Nat] /\ errors'.creating = 0
        /\ errors'.open = errors.open
    BY <1>1 DEF Typed, CountersTyped
  <2>2. events' \in 0..MaxEvents /\ errors'.open + errors'.creating <= events'
    BY <1>1, <1>2, <2>1 DEF Typed, CountersTyped
  <2>3. spoilt' \in BOOLEAN
    BY <1>1
  <2>. QED
    BY <2>1, <2>2, <2>3 DEF CountersTyped
<1>. QED
    BY <1>3, <1>4, <1>5, <1>6 DEF Typed

\* What is emitted, and what it changes of the parties and the counters.
LEMMA TellsTyped ==
    ASSUME Typed, Tells PROVE Typed'
<1>1. Speaks /\ Len(notes) \in Nat /\ MaxEvents \in Nat
    BY TellsSpeaks, NotificationConstants DEF Typed, JobsTyped
<1>2. JobsTyped'
    BY <1>1, SpeaksTyped DEF Typed
<1>3. RowsTyped'
    BY <1>1, RowsSame DEF Typed, Speaks
<1>4. UNCHANGED <<settings, spoilt>>
    BY <1>1 DEF Speaks
<1>5. PartiesTyped'
  <2>1. CASE UNCHANGED <<ticket, visit>>
    BY <1>4, <2>1, PartiesSame DEF Typed
  <2>2. CASE AssignEmits
    <3>1. PICK to \in User : /\ ticket' = [ticket EXCEPT !.assignedToId = to,
                                                         !.collaborators = @ \ {to}]
                             /\ visit' = visit
      BY <2>2 DEF AssignEmits, Active
    <3>2. ticket' \in [createdById : User, assignedToId : User, collaborators : SUBSET User]
      BY <3>1 DEF Typed, PartiesTyped
    <3>. QED
      BY <1>4, <3>1, <3>2 DEF Typed, PartiesTyped, settings
  <2>3. CASE CollaboratorAdded
    <3>1. PICK to \in User : /\ ticket' = [ticket EXCEPT !.collaborators = @ \cup {to}]
                             /\ visit' = visit
      BY <2>3 DEF CollaboratorAdded, Active
    <3>2. ticket' \in [createdById : User, assignedToId : User, collaborators : SUBSET User]
      BY <3>1 DEF Typed, PartiesTyped
    <3>. QED
      BY <1>4, <3>1, <3>2 DEF Typed, PartiesTyped, settings
  <2>4. CASE VisitEmits
    <3>1. /\ ticket' = ticket
          /\ \/ visit' = visit
             \/ \E s \in BOOLEAN : visit' = [visit EXCEPT !.scheduled = s]
      BY <2>4 DEF VisitEmits
    <3>2. visit' \in [technicianId : User, scheduled : BOOLEAN]
      BY <3>1 DEF Typed, PartiesTyped
    <3>. QED
      BY <1>4, <3>1, <3>2 DEF Typed, PartiesTyped, settings
  <2>. QED
    BY <2>1, <2>2, <2>3, <2>4
       DEF Tells, TicketEmits, CommentEmits, CartridgeFilled, Broadcast, RefillCreate,
           emitReminder, CaptureCreate
<1>6. CountersTyped'
  <2>1. CASE errors' = errors /\ (events' = events \/ Emission)
    BY <1>1, <1>4, <2>1 DEF Typed, CountersTyped, Emission
  <2>2. CASE CaptureCreate
    <3>1. /\ errors.creating > 0 /\ events' = events
          /\ errors' = [open |-> errors.open + 1, creating |-> errors.creating - 1]
      BY <2>2 DEF CaptureCreate, history
    <3>2. /\ errors' \in [open : Nat, creating : Nat]
          /\ errors'.open + errors'.creating = errors.open + errors.creating
      BY <3>1 DEF Typed, CountersTyped
    <3>. QED
      BY <1>4, <3>1, <3>2 DEF Typed, CountersTyped
  <2>. QED
    BY <2>1, <2>2
       DEF Tells, Emits, TicketEmits, CommentEmits, AssignEmits, CollaboratorAdded, VisitEmits,
           CartridgeFilled, Broadcast, RefillCreate, emitReminder, CaptureCreate
<1>. QED
    BY <1>2, <1>3, <1>5, <1>6 DEF Typed

\* What people change of the settings.
Setting == \/ SetRole \/ Deactivate \/ UnlinkMax \/ setPreferences \/ setQuietHours
           \/ subscribeToPush \/ unsubscribeFromPush

LEMMA SettingTyped ==
    ASSUME Typed, Setting PROVE Typed'
<1>0. Len(notes) \in Nat /\ MaxEvents \in Nat
    BY NotificationConstants DEF Typed, JobsTyped
<1>1. Sets
    BY DEF Setting, SetRole, Deactivate, UnlinkMax, setPreferences, setQuietHours,
           subscribeToPush, unsubscribeFromPush
<1>2. JobsTyped' /\ RowsTyped'
    BY <1>0, <1>1, RowsSame DEF Typed, JobsTyped, Sets, delivery
<1>3. CountersTyped'
    BY <1>0, <1>1 DEF Typed, CountersTyped, Sets, Change, sources
<1>4. PartiesTyped'
  <2>0. UNCHANGED <<ticket, visit>> /\ Parties \subseteq User
    BY <1>1 DEF Sets, sources, Parties, Typed, PartiesTyped
  <2>1. CASE SetRole
    <3>1. PICK u \in Parties, role \in {"USER", "INTERN"} :
              people' = [people EXCEPT ![u].role = role]
      BY <2>1 DEF SetRole
    <3>. QED
      BY <2>0, <2>1, <3>1 DEF SetRole, Typed, PartiesTyped
  <2>2. CASE Deactivate
    <3>1. PICK u \in Parties : people' = [people EXCEPT ![u].isActive = FALSE]
      BY <2>2 DEF Deactivate
    <3>. QED
      BY ZenonT(40), <2>0, <2>2, <3>1 DEF Deactivate, Typed, PartiesTyped
  <2>3. CASE UnlinkMax
    <3>1. PICK u \in Parties : people' = [people EXCEPT ![u].maxLink = FALSE]
      BY <2>3 DEF UnlinkMax
    <3>. QED
      BY ZenonT(40), <2>0, <2>3, <3>1 DEF UnlinkMax, Typed, PartiesTyped
  <2>4. CASE setPreferences
    <3>1. PICK u \in Parties, enabled \in BOOLEAN, push \in BOOLEAN :
            prefs' \subseteq prefs \cup {[userId |-> u, type |-> "TICKET_COMMENTED",
                                          enabled |-> enabled, push |-> push]}
      BY <2>4 DEF setPreferences
    <3>2. "TICKET_COMMENTED" \in NotificationType
      BY DEF NotificationType
    <3>. DEFINE row == [userId |-> u, type |-> "TICKET_COMMENTED",
                        enabled |-> enabled, push |-> push]
    <3>3. row \in [userId : User, type : NotificationType, enabled : BOOLEAN, push : BOOLEAN]
      BY <2>0, <3>1, <3>2
    <3>. HIDE DEF row
    <3>. QED
      BY <2>0, <2>4, <3>1, <3>3 DEF setPreferences, Typed, PartiesTyped, row
  <2>5. CASE setQuietHours
    BY <2>0, <2>5 DEF setQuietHours, Typed, PartiesTyped
  <2>6. CASE subscribeToPush
    <3>1. PICK u \in Parties, d \in Device : owner' = [owner EXCEPT ![d] = u]
      BY <2>6 DEF subscribeToPush
    <3>. QED
      BY <2>0, <2>6, <3>1 DEF subscribeToPush, Typed, PartiesTyped
  <2>7. CASE unsubscribeFromPush
    <3>1. PICK d \in Device : owner' = [owner EXCEPT ![d] = None]
      BY <2>7 DEF unsubscribeFromPush
    <3>. QED
      BY <2>0, <2>7, <3>1 DEF unsubscribeFromPush, Typed, PartiesTyped
  <2>. QED
    BY <2>1, <2>2, <2>3, <2>4, <2>5, <2>6, <2>7 DEF Setting
<1>. QED
    BY <1>2, <1>3, <1>4 DEF Typed

\* The rest concerns the refill, the clock and the log of errors.
Ticks == \/ RefillUpdate \/ RefillFind \/ RefillStore \/ DayPasses
         \/ CaptureFind \/ ResolveIssue

LEMMA TicksTyped ==
    ASSUME Typed, Ticks PROVE Typed'
<1>0. Len(notes) \in Nat /\ MaxEvents \in Nat
    BY NotificationConstants DEF Typed, JobsTyped
<1>1. UNCHANGED <<ticket, visit, settings, delivery, trace>>
    BY DEF Ticks, RefillUpdate, RefillFind, RefillStore, DayPasses, CaptureFind, ResolveIssue,
           history
<1>2. PartiesTyped' /\ JobsTyped' /\ RowsTyped'
    BY <1>0, <1>1, PartiesSame, RowsSame DEF Typed, JobsTyped, delivery
<1>3. CountersTyped'
  <2>1. CASE RefillUpdate
    BY <1>0, <2>1 DEF RefillUpdate, Change, Typed, CountersTyped
  <2>2. CASE RefillFind \/ RefillStore \/ DayPasses
    BY <2>2 DEF RefillFind, RefillStore, DayPasses, history, Typed, CountersTyped
  <2>3. CASE CaptureFind
    <3>1. /\ events < MaxEvents /\ events' = events + 1
          /\ \/ UNCHANGED <<errors, spoilt>>
             \/ /\ errors' = [errors EXCEPT !.creating = @ + 1]
                /\ spoilt' = (spoilt \/ errors.creating > 0)
      BY <2>3 DEF CaptureFind, Change
    <3>2. spoilt' \in BOOLEAN
      BY <3>1, Zenon DEF Typed, CountersTyped
    <3>3. /\ errors' \in [open : Nat, creating : Nat]
          /\ errors'.open + errors'.creating <= events'
      BY <3>1 DEF Typed, CountersTyped
    <3>. QED
      BY <1>0, <3>1, <3>2, <3>3 DEF Typed, CountersTyped
  <2>4. CASE ResolveIssue
    <3>1. /\ events < MaxEvents /\ events' = events + 1 /\ spoilt' = spoilt
          /\ errors.open > 0 /\ errors' = [errors EXCEPT !.open = @ - 1]
      BY <2>4 DEF ResolveIssue, Change
    <3>2. /\ errors' \in [open : Nat, creating : Nat]
          /\ errors'.open + errors'.creating <= events'
      BY <3>1 DEF Typed, CountersTyped
    <3>. QED
      BY <1>0, <3>1, <3>2 DEF Typed, CountersTyped
  <2>. QED
    BY <2>1, <2>2, <2>3, <2>4 DEF Ticks
<1>. QED
    BY <1>2, <1>3 DEF Typed

LEMMA Steps ==
    ASSUME Next
    PROVE  \/ \E j \in 1..MaxJobs : Work(j)
           \/ \E r \in 1..MaxRuns : Flush(r)
           \/ \E t \in Moment : flushPending(t)
           \/ Tells \/ Setting \/ Ticks \/ Crash
BY DEF Next, Happens, checkReminders, Tells, Setting, Ticks

LEMMA NextTyped ==
    ASSUME Typed, [Next]_vars PROVE Typed'
<1>1. CASE Next
    BY <1>1, Steps, WorkTyped, FlushTyped, FlushPendingTyped, TellsTyped, SettingTyped,
       TicksTyped, CrashTyped
<1>2. CASE UNCHANGED vars
  <2>1. Len(notes) \in Nat
    BY DEF Typed, JobsTyped
  <2>. QED
    BY <1>2, <2>1, PartiesSame, RowsSame, CountersSame
       DEF Typed, JobsTyped, vars, sources, settings, delivery, history
<1>. QED
    BY <1>1, <1>2

-----------------------------------------------------------------------------
(* The reminders of a planned refill.                                        *)

Top(need) == CHOOSE d \in need : \A e \in need : e <= d

LEMMA TopIs ==
    ASSUME NEW need \in SUBSET {1, 3}, need # {}
    PROVE  Top(need) \in need /\ Top(need) = (IF 3 \in need THEN 3 ELSE 1)
<1>1. CASE 3 \in need
  <2>1. \A e \in need : e <= 3
    OBVIOUS
  <2>2. \A d \in need : (\A e \in need : e <= d) => d = 3
    BY <1>1
  <2>. QED
    BY <1>1, <2>1, <2>2 DEF Top
<1>2. CASE 3 \notin need
  <2>1. need = {1}
    BY <1>2
  <2>2. 1 \in need /\ \A e \in need : e <= 1
    BY <2>1
  <2>. QED
    BY <1>2, <2>1, <2>2 DEF Top
<1>. QED
    BY <1>1, <1>2

LEMMA LongestIsTop == Longest = Top(refill.need) /\ Longest' = Top(refill'.need)
BY DEF Longest, Top

LEMMA RefillKept ==
    ASSUME RefillInv, \/ UNCHANGED <<refill, told>>
                      \/ RefillCreate \/ RefillUpdate \/ RefillFind \/ RefillStore
                      \/ emitReminder \/ DayPasses \/ Crash
    PROVE  RefillInv'
<1>. USE DEF RefillInv, Flagged
<1>. DEFINE Row == [row : BOOLEAN, isCancelled : BOOLEAN, left : 0..4,
                    reminder3dSentAt : BOOLEAN, reminder1dSentAt : BOOLEAN,
                    cron : {"idle", "found", "stored"}, need : SUBSET {1, 3}]
<1>1. CASE UNCHANGED <<refill, told>>
    BY <1>1 DEF Longest
<1>2. CASE RefillCreate
  <2>1. PICK left \in {1, 4} : refill' = [NoRefill EXCEPT !.row = TRUE, !.left = left]
    BY <1>2 DEF RefillCreate
  <2>2. ~refill.row /\ told' = told
    BY <1>2 DEF RefillCreate
  <2>3. NoRefill \in Row /\ NoRefill.cron = "idle"
    BY DEF NoRefill
  <2>4. refill' \in Row
    <3>1. refill' = [row |-> TRUE, isCancelled |-> FALSE, left |-> left,
                     reminder3dSentAt |-> FALSE, reminder1dSentAt |-> FALSE,
                     cron |-> "idle", need |-> {}]
      BY <2>1 DEF NoRefill
    <3>2. left \in 0..4
      OBVIOUS
    <3>. QED
      BY ONLY <3>1, <3>2
  <2>6. refill'.row /\ refill'.cron = "idle"
    BY <2>1 DEF NoRefill
  <2>5. \A d \in {1, 3} : told[d] = 0
    BY <2>2
  <2>. QED
    BY <2>2, <2>4, <2>5, <2>6
<1>3. CASE RefillUpdate
  <2>1. \/ \E left \in {1, 4} : refill' = [refill EXCEPT !.left = left]
        \/ \E is \in BOOLEAN : refill' = [refill EXCEPT !.isCancelled = is]
    BY <1>3 DEF RefillUpdate
  <2>2. told' = told
    BY <1>3 DEF RefillUpdate
  <2>3. refill' \in Row
    BY <2>1
  <2>4. /\ refill'.row = refill.row /\ refill'.cron = refill.cron /\ refill'.need = refill.need
        /\ refill'.reminder3dSentAt = refill.reminder3dSentAt
        /\ refill'.reminder1dSentAt = refill.reminder1dSentAt
    BY <2>1
  <2>. QED
    BY <2>2, <2>3, <2>4, LongestIsTop
<1>4. CASE DayPasses
  <2>1. told' = told /\ refill.left > 0 /\ refill' = [refill EXCEPT !.left = @ - 1]
        /\ refill.cron = "idle"
    BY <1>4 DEF DayPasses, history
  <2>2. refill' \in Row
    BY <2>1
  <2>3. /\ refill'.row = refill.row /\ refill'.cron = "idle"
        /\ refill'.reminder3dSentAt = refill.reminder3dSentAt
        /\ refill'.reminder1dSentAt = refill.reminder1dSentAt
    BY <2>1
  <2>. QED
    BY <2>1, <2>2, <2>3
<1>5. CASE Crash
  <2>1. told' = told /\ refill' = [refill EXCEPT !.cron = "idle", !.need = {}]
    BY <1>5 DEF Crash
  <2>2. refill' \in Row
    BY <2>1
  <2>3. /\ refill'.row = refill.row /\ refill'.cron = "idle"
        /\ refill'.reminder3dSentAt = refill.reminder3dSentAt
        /\ refill'.reminder1dSentAt = refill.reminder1dSentAt
    BY <2>1
  <2>. QED
    BY <2>1, <2>2, <2>3
<1>6. CASE RefillFind
  <2>1. /\ told' = told /\ refill.row /\ Due # {} /\ refill.cron = "idle"
        /\ refill' = [refill EXCEPT !.cron = "found", !.need = Due]
    BY <1>6 DEF RefillFind, history
  <2>2. Due \subseteq {1, 3} /\ \A d \in Due : ~Flagged(d)
    BY DEF Due
  <2>. HIDE DEF Flagged
  <2>3. refill' \in Row
    BY <2>1, <2>2
  <2>4. /\ refill'.row = refill.row /\ refill'.cron = "found" /\ refill'.need = Due
        /\ refill'.reminder3dSentAt = refill.reminder3dSentAt
        /\ refill'.reminder1dSentAt = refill.reminder1dSentAt
    BY <2>1
  <2>5. \A d \in {1, 3} : Flagged(d)' <=> Flagged(d)
    BY <2>4 DEF Flagged
  <2>. QED
    BY <2>1, <2>2, <2>3, <2>4, <2>5
<1>7. CASE RefillStore
  <2>1. /\ told' = told /\ refill.cron = "found"
        /\ refill' = [refill EXCEPT !.cron = "stored",
                        !.reminder3dSentAt = @ \/ Longest = 3,
                        !.reminder1dSentAt = @ \/ Longest = 1]
    BY <1>7 DEF RefillStore, history
  <2>2. Longest \in refill.need /\ Longest \in {1, 3}
    BY <2>1, LongestIsTop, TopIs
  <2>3. refill' \in Row
    BY <2>1
  <2>4. /\ refill'.row = refill.row /\ refill'.cron = "stored" /\ refill'.need = refill.need
        /\ refill'.reminder3dSentAt <=> refill.reminder3dSentAt \/ Longest = 3
        /\ refill'.reminder1dSentAt <=> refill.reminder1dSentAt \/ Longest = 1
    BY <2>1
  <2>5. Longest' = Longest
    BY <2>4, LongestIsTop
  <2>6. \A d \in {1, 3} : Flagged(d)' <=> Flagged(d) \/ d = Longest
    BY <2>4
  <2>7. told[Longest] = 0
    BY <2>1, <2>2
  <2>. HIDE DEF Flagged
  <2>. QED
    BY <2>1, <2>2, <2>3, <2>4, <2>5, <2>6, <2>7
<1>8. CASE emitReminder
  <2>. DEFINE left == refill.need \ {Longest}
  <2>1. /\ refill.cron = "stored" /\ told' = [told EXCEPT ![Longest] = @ + 1]
        /\ refill' = [refill EXCEPT !.need = left, !.cron = IF left = {} THEN "idle" ELSE "found"]
    BY <1>8 DEF emitReminder
  <2>2. Longest \in refill.need /\ Longest \in {1, 3}
    BY <2>1, LongestIsTop, TopIs
  <2>3. refill' \in Row
    BY <2>1
  <2>4. /\ refill'.row = refill.row /\ refill'.cron = (IF left = {} THEN "idle" ELSE "found")
        /\ refill'.need = left
        /\ refill'.reminder3dSentAt = refill.reminder3dSentAt
        /\ refill'.reminder1dSentAt = refill.reminder1dSentAt
    BY <2>1
  <2>5. \A d \in {1, 3} : Flagged(d)' <=> Flagged(d)
    BY <2>4
  <2>6. told' \in [{1, 3} -> {0, 1}] /\ \A d \in {1, 3} : d # Longest => told'[d] = told[d]
    BY <2>1, <2>2
  <2>7. refill.row /\ Flagged(Longest) /\ \A d \in left : ~Flagged(d)
    BY <2>1
  <2>. HIDE DEF Flagged
  <2>8. \A d \in {1, 3} : told'[d] = 1 => refill'.row /\ Flagged(d)'
    BY <2>2, <2>4, <2>5, <2>6, <2>7
  <2>. QED
    BY <2>3, <2>4, <2>5, <2>6, <2>7, <2>8
<1>. QED
    BY <1>1, <1>2, <1>3, <1>4, <1>5, <1>6, <1>7, <1>8

LEMMA NextRefill ==
    ASSUME RefillInv, [Next]_vars PROVE RefillInv'
<1>1. CASE Next
  <2>1. ASSUME NEW j \in 1..MaxJobs, Work(j) PROVE UNCHANGED <<refill, told>>
    BY <2>1 DEF Work, Resolve, NotifyUser, Deliver, sources, history
  <2>2. ASSUME NEW r \in 1..MaxRuns, Flush(r) PROVE UNCHANGED <<refill, told>>
    BY <2>2 DEF Flush, FlushSend, FlushDelete, sources, history
  <2>3. ASSUME NEW t \in Moment, flushPending(t) PROVE UNCHANGED <<refill, told>>
    BY <2>3 DEF flushPending, sources
  <2>4. CASE Setting
    BY <2>4, RefillKept
       DEF Setting, Sets, SetRole, Deactivate, UnlinkMax, setPreferences, setQuietHours,
           subscribeToPush, unsubscribeFromPush, sources
  <2>5. CASE Tells
    BY <2>5, RefillKept
       DEF Tells, Emits, TicketEmits, CommentEmits, AssignEmits, CollaboratorAdded, VisitEmits,
           CartridgeFilled, Broadcast, CaptureCreate, history
  <2>6. CASE Ticks
    BY <2>6, RefillKept DEF Ticks, CaptureFind, ResolveIssue
  <2>7. CASE Crash
    BY <2>7, RefillKept
  <2>. QED
    BY <1>1, <2>1, <2>2, <2>3, <2>4, <2>5, <2>6, <2>7, Steps, RefillKept
<1>2. CASE UNCHANGED vars
    BY <1>2, RefillKept DEF vars, sources, history
<1>. QED
    BY <1>1, <1>2

\* The values of the model's variables stay of their types, whatever the people
\* set, whatever is emitted and whenever the process stops: a channel is served
\* for a note that is stored, and a run of the delivery cron takes rows of stored
\* notes (notifications.service.ts, quiet-hours-delivery.cron.ts).
THEOREM NotificationsTypeCorrect == Spec => []TypeOK
<1>1. Typed /\ RefillInv /\ [Next]_vars => (Typed /\ RefillInv)'
    BY NextTyped, NextRefill
<1>. QED
    BY <1>1, InitTyped, TypedGivesTypeOK, PTL DEF Spec

-----------------------------------------------------------------------------
(* Nobody is disturbed in the quiet hours.                                   *)

LEMMA SpeaksSlots ==
    ASSUME JobsTyped, Speaks, NEW k \in 1..MaxJobs
    PROVE  jobs'[k] = jobs[k] \/ jobs'[k].step = "emitted"
<1>1. PICK e \in Emittable : jobs' = Emitted(e)
    BY DEF Speaks
<1>. QED
    BY <1>1, EmittedSlots, BegunIsJob

LEMMA NextQuiet ==
    ASSUME Typed, QuietInv, [Next]_vars PROVE QuietInv'
<1>1. ASSUME UNCHANGED <<jobs, runs>> PROVE QuietInv'
    BY <1>1 DEF QuietInv, Skips
<1>2. ASSUME NEW j \in 1..MaxJobs, Resolve(j) PROVE QuietInv'
  <2>1. runs' = runs
    BY <1>2 DEF Resolve
  <2>2. PICK t \in Moment : \E next :
             /\ jobs' = [jobs EXCEPT ![j] = next] /\ Resolved(j, t, next)
    BY <1>2, ResolveGoes
  <2>3. PICK next : jobs' = [jobs EXCEPT ![j] = next] /\ Resolved(j, t, next)
    BY <2>2
  <2>4. t \in Moment /\ quiet \in Window
    BY <2>2 DEF Typed, PartiesTyped
  <2>5. next.step \in {"loop", "channels"} /\ ~next.quiet /\ ~Skips(next.event) => ~next.hush
    BY <2>3, <2>4, QuietIsQuiet DEF Resolved
  <2>. QED
    BY <2>1, <2>3, <2>5 DEF QuietInv, Skips, Typed, JobsTyped
<1>3. ASSUME NEW j \in 1..MaxJobs, NEW next,
             jobs[j].step = "loop" \/ jobs[j].step = "channels",
             jobs' = [jobs EXCEPT ![j] = next], Carries(next, jobs[j]), runs' = runs
      PROVE  QuietInv'
    BY <1>3 DEF QuietInv, Skips, Carries, Typed, JobsTyped
<1>4. ASSUME NEW j \in 1..MaxJobs, Work(j) PROVE QuietInv'
  <2>1. CASE NotifyUser(j)
    <3>1. runs' = runs
      BY <2>1 DEF NotifyUser
    <3>2. jobs[j].step = "loop"
      BY <2>1 DEF NotifyUser
    <3>3. PICK next : jobs' = [jobs EXCEPT ![j] = next] /\ Carries(next, jobs[j])
      BY <2>1, NotifyUserGoes
    <3>. QED
      BY <1>3, <3>1, <3>2, <3>3
  <2>2. CASE Deliver(j)
    <3>1. runs' = runs
      BY <2>2 DEF Deliver
    <3>2. jobs[j].step = "channels"
      BY <2>2 DEF Deliver
    <3>3. PICK next : jobs' = [jobs EXCEPT ![j] = next] /\ Carries(next, jobs[j])
      BY <2>2, DeliverGoes
    <3>. QED
      BY <1>3, <3>1, <3>2, <3>3
  <2>. QED
    BY <1>2, <1>4, <2>1, <2>2 DEF Work
<1>5. ASSUME NEW r \in 1..MaxRuns, Flush(r) PROVE QuietInv'
  <2>1. CASE FlushSend(r)
    <3>1. PICK n, c : runs' = [runs EXCEPT ![r].sent = <<n, c>>]
      BY <2>1, FlushGoes
    <3>2. \A s \in 1..MaxRuns : runs'[s].hush = runs[s].hush
      BY <3>1 DEF Typed, RowsTyped, Run
    <3>3. jobs' = jobs
      BY <2>1 DEF FlushSend
    <3>. QED
      BY <3>2, <3>3 DEF QuietInv, Skips
  <2>2. CASE FlushDelete(r)
    <3>. DEFINE left == runs[r].items \ {runs[r].sent}
    <3>1. /\ jobs' = jobs
          /\ \/ runs' = [runs EXCEPT ![r] = Ended]
             \/ runs' = [runs EXCEPT ![r] = [runs[r] EXCEPT !.items = left, !.sent = <<>>]]
      BY <2>2 DEF FlushDelete
    <3>. DEFINE rest == [runs[r] EXCEPT !.items = left, !.sent = <<>>]
    <3>4. rest.hush = runs[r].hush
      BY DEF Typed, RowsTyped, Run
    <3>. HIDE DEF rest
    <3>5. runs' = [runs EXCEPT ![r] = Ended] \/ runs' = [runs EXCEPT ![r] = rest]
      BY <3>1 DEF rest
    <3>2. \A s \in 1..MaxRuns : runs'[s].hush = runs[s].hush \/ runs'[s] = Ended
      BY <3>4, <3>5 DEF Typed, RowsTyped
    <3>. QED
      BY <3>1, <3>2, EndedIsRun DEF QuietInv, Skips
  <2>. QED
    BY <1>5, <2>1, <2>2 DEF Flush
<1>6. ASSUME NEW t \in Moment, flushPending(t) PROVE QuietInv'
  <2>1. PICK r \in 1..MaxRuns, run \in Run : /\ runs' = [runs EXCEPT ![r] = run]
                                             /\ run.hush <=> t \in QuietMinutes(quiet)
    BY <1>6, FlushPendingGoes
  <2>2. jobs' = jobs /\ ~isWithinQuietHours(t, quiet) /\ quiet \in Window
    BY <1>6 DEF flushPending, Typed, PartiesTyped
  <2>3. ~run.hush
    BY <2>1, <2>2, QuietIsQuiet
  <2>. QED
    BY <2>1, <2>2, <2>3 DEF QuietInv, Skips, Typed, RowsTyped
<1>7. CASE Tells
  <2>1. Speaks /\ runs' = runs
    BY <1>7, TellsSpeaks DEF Speaks
  <2>2. \A k \in 1..MaxJobs : jobs'[k] = jobs[k] \/ jobs'[k].step = "emitted"
    BY <2>1, SpeaksSlots DEF Typed
  <2>. QED
    BY <2>1, <2>2 DEF QuietInv, Skips
<1>8. CASE Crash
    BY <1>8, FreeIsJob, EndedIsRun DEF Crash, QuietInv
<1>9. CASE Setting
    BY <1>1, <1>9
       DEF Setting, Sets, SetRole, Deactivate, UnlinkMax, setPreferences, setQuietHours,
           subscribeToPush, unsubscribeFromPush, delivery
<1>10. CASE Ticks
    BY <1>1, <1>10
       DEF Ticks, RefillUpdate, RefillFind, RefillStore, DayPasses, CaptureFind, ResolveIssue,
           delivery
<1>11. CASE UNCHANGED vars
    BY <1>1, <1>11 DEF vars, delivery
<1>. QED
    BY <1>4, <1>5, <1>6, <1>7, <1>8, <1>9, <1>10, <1>11, Steps

\* Nobody is disturbed in the quiet hours, but by the reminder of a visit: the
\* clock is read outside them by whoever sends (quiet-hours.ts,
\* notifications.service.ts: notifyUsers, quiet-hours-delivery.cron.ts).
THEOREM NobodyIsDisturbed == Spec => []QuietHeld
<1>1. Init => QuietInv
  <2>. SUFFICES ASSUME Init PROVE QuietInv
    OBVIOUS
  <2>1. (\A j \in 1..MaxJobs : jobs[j] = Free) /\ (\A r \in 1..MaxRuns : runs[r] = Ended)
    BY DEF Init
  <2>. QED
    BY <2>1, FreeIsJob, EndedIsRun DEF QuietInv
<1>2. Typed /\ QuietInv /\ [Next]_vars => (Typed /\ QuietInv)'
    BY NextTyped, NextQuiet
<1>3. QuietInv => QuietHeld
    BY DEF QuietInv, QuietHeld
<1>. QED
    BY <1>1, <1>2, <1>3, InitTyped, PTL DEF Spec

-----------------------------------------------------------------------------
(* An internal note stays inside.                                            *)

Internal(job) == (job.step = "loop" \/ job.step = "channels") /\ job.event.is = "internal"

LEMMA InternalTells ==
    ASSUME PartiesTyped, InsideInv, NEW e \in Emittable, e.is = "internal"
    PROVE  Handler(e).to \subseteq insiders /\ TellMentioned(e).to \subseteq insiders
<1>1. e.kind = "ticket.commented"
    BY DEF Emittable
<1>2. Handler(e).to \subseteq WorkingGroup
    BY <1>1 DEF Handler, onTicketCommented, TellOthers, Tell
<1>3. TellMentioned(e).to \subseteq Active("ADMIN") \cup Active("INTERN")
    BY DEF TellMentioned, TellOthers, Tell
<1>. QED
    BY <1>2, <1>3 DEF InsideInv, WorkingGroup, Active

\* What is not about the handlers or the parties leaves the invariant alone.
LEMMA InsideKept ==
    ASSUME InsideInv, insiders \subseteq insiders', notes' = notes,
           \A u \in User : people'[u].role # "USER" => u \in insiders',
           {ticket'.assignedToId} \cup ticket'.collaborators \subseteq insiders',
           \A k \in 1..MaxJobs : Internal(jobs'[k]) => jobs'[k] = jobs[k]
    PROVE  InsideInv'
<1>1. \A k \in 1..MaxJobs : Internal(jobs'[k]) => jobs'[k].todo \subseteq insiders'
    BY DEF InsideInv, Internal
<1>. QED
    BY <1>1 DEF InsideInv, NoteStaysInside, Internal

LEMMA InsideSame ==
    ASSUME InsideInv, UNCHANGED <<insiders, notes, people, ticket, jobs>>
    PROVE  InsideInv'
BY DEF InsideInv, NoteStaysInside

LEMMA InsideOneJob ==
    ASSUME Typed, InsideInv, NEW j \in 1..MaxJobs, NEW next, jobs' = [jobs EXCEPT ![j] = next],
           Internal(next) => next.todo \subseteq insiders,
           UNCHANGED <<insiders, people, ticket>>, NoteStaysInside'
    PROVE  InsideInv'
<1>1. \A k \in 1..MaxJobs : Internal(jobs'[k]) => jobs'[k].todo \subseteq insiders'
    BY DEF InsideInv, Internal, Typed, JobsTyped
<1>. QED
    BY <1>1 DEF InsideInv, Internal

LEMMA WorkInside ==
    ASSUME Typed, InsideInv, NEW j \in 1..MaxJobs, Work(j) PROVE InsideInv'
<1>0. UNCHANGED <<insiders, people, ticket>>
    BY DEF Work, Resolve, NotifyUser, Deliver, history, settings, sources
<1>1. CASE Resolve(j)
  <2>1. PICK t \in Moment : \E next :
             /\ jobs' = [jobs EXCEPT ![j] = next] /\ Resolved(j, t, next)
    BY <1>1, ResolveGoes
  <2>2. PICK next : jobs' = [jobs EXCEPT ![j] = next] /\ Resolved(j, t, next)
    BY <2>1
  <2>3. jobs[j].event \in Emittable /\ notes' = notes
    BY <1>1 DEF Resolve, Typed, JobsTyped, JobOK
  <2>4. jobs[j].event.is = "internal" =>
            /\ Handler(jobs[j].event).to \subseteq insiders
            /\ TellMentioned(jobs[j].event).to \subseteq insiders
    BY <2>3, InternalTells DEF Typed
  <2>5. Internal(next) => next.todo \subseteq insiders
    BY <2>2, <2>4 DEF Internal, Resolved
  <2>. QED
    BY <1>0, <2>2, <2>3, <2>5, InsideOneJob DEF InsideInv, NoteStaysInside
<1>2. CASE NotifyUser(j)
  <2>1. PICK next : /\ jobs' = [jobs EXCEPT ![j] = next] /\ Carries(next, jobs[j])
                    /\ \/ notes' = notes
                       \/ \E row \in NoteRow :
                            /\ notes' = Append(notes, row) /\ row.user \in jobs[j].todo
                            /\ row.internal <=> jobs[j].event.is = "internal"
    BY <1>2, NotifyUserGoes
  <2>2. jobs[j].step = "loop"
    BY <1>2 DEF NotifyUser
  <2>3. jobs[j].event.is = "internal" => jobs[j].todo \subseteq insiders
    BY <2>2 DEF InsideInv
  <2>4. Internal(next) => next.todo \subseteq insiders
    BY <2>1, <2>3 DEF Internal, Carries
  <2>5. NoteStaysInside'
    <3>1. CASE notes' = notes
      BY <1>0, <3>1 DEF InsideInv, NoteStaysInside
    <3>2. ASSUME NEW row \in NoteRow, notes' = Append(notes, row),
                 row.user \in jobs[j].todo, row.internal <=> jobs[j].event.is = "internal"
          PROVE  NoteStaysInside'
      <4>1. notes \in Seq(NoteRow) /\ Len(notes') = Len(notes) + 1
        BY <3>2 DEF Typed, JobsTyped
      <4>2. \A n \in 1..Len(notes') : notes'[n] = IF n = Len(notes) + 1 THEN row ELSE notes[n]
        BY <3>2, <4>1
      <4>3. \A n \in 1..Len(notes') : n = Len(notes) + 1 \/ n \in 1..Len(notes)
        BY <4>1
      <4>4. row.internal => row.user \in insiders
        BY <2>3, <3>2
      <4>. QED
        BY <1>0, <4>2, <4>3, <4>4 DEF InsideInv, NoteStaysInside
    <3>. QED
      BY <2>1, <3>1, <3>2
  <2>. QED
    BY <1>0, <2>1, <2>4, <2>5, InsideOneJob
<1>3. CASE Deliver(j)
  <2>1. PICK next : jobs' = [jobs EXCEPT ![j] = next] /\ Carries(next, jobs[j])
    BY <1>3, DeliverGoes
  <2>2. jobs[j].step = "channels" /\ notes' = notes
    BY <1>3 DEF Deliver
  <2>3. jobs[j].event.is = "internal" => jobs[j].todo \subseteq insiders
    BY <2>2 DEF InsideInv
  <2>4. Internal(next) => next.todo \subseteq insiders
    BY <2>1, <2>3 DEF Internal, Carries
  <2>. QED
    BY <1>0, <2>1, <2>2, <2>4, InsideOneJob DEF InsideInv, NoteStaysInside
<1>. QED
    BY <1>1, <1>2, <1>3 DEF Work

LEMMA TellsInside ==
    ASSUME Typed, InsideInv, Tells PROVE InsideInv'
<1>1. Speaks
    BY TellsSpeaks
<1>2. notes' = notes /\ people' = people
    BY <1>1 DEF Speaks, settings
<1>3. \A k \in 1..MaxJobs : Internal(jobs'[k]) => jobs'[k] = jobs[k]
    BY <1>1, SpeaksSlots DEF Typed, Internal
<1>4. \/ UNCHANGED <<ticket, insiders>>
      \/ \E to : /\ insiders' = insiders \cup {to}
                 /\ \/ ticket' = [ticket EXCEPT !.assignedToId = to, !.collaborators = @ \ {to}]
                    \/ ticket' = [ticket EXCEPT !.collaborators = @ \cup {to}]
    BY DEF Tells, TicketEmits, CommentEmits, AssignEmits, CollaboratorAdded, VisitEmits,
           CartridgeFilled, Broadcast, RefillCreate, emitReminder, CaptureCreate, history
<1>5. /\ insiders \subseteq insiders'
      /\ {ticket'.assignedToId} \cup ticket'.collaborators \subseteq insiders'
    BY ZenonT(40), <1>4 DEF InsideInv, Typed, PartiesTyped
<1>. QED
    BY <1>2, <1>3, <1>5, InsideKept DEF InsideInv

LEMMA SettingInside ==
    ASSUME Typed, InsideInv, Setting PROVE InsideInv'
<1>1. Sets /\ jobs' = jobs /\ notes' = notes /\ ticket' = ticket
    BY DEF Setting, Sets, SetRole, Deactivate, UnlinkMax, setPreferences, setQuietHours,
           subscribeToPush, unsubscribeFromPush, sources, delivery
<1>2. CASE SetRole
  <2>1. PICK u \in Parties, role \in {"USER", "INTERN"} :
            /\ people' = [people EXCEPT ![u].role = role]
            /\ insiders' = IF role = "USER" THEN insiders ELSE insiders \cup {u}
    BY <1>2 DEF SetRole
  <2>2. \A v \in User : v # u => people'[v].role = people[v].role
    BY <2>1 DEF Typed, PartiesTyped
  <2>3. u \in User => people'[u].role = role
    BY <2>1 DEF Typed, PartiesTyped
  <2>4. \A v \in User : people'[v].role # "USER" => v \in insiders'
    BY <2>1, <2>2, <2>3 DEF InsideInv
  <2>5. insiders \subseteq insiders'
    BY <2>1
  <2>. QED
    BY <1>1, <2>4, <2>5, InsideKept DEF InsideInv
<1>3. CASE insiders' = insiders /\ \A v \in User : people'[v].role = people[v].role
    BY <1>1, <1>3, InsideKept DEF InsideInv
<1>4. ASSUME Deactivate \/ UnlinkMax PROVE \A v \in User : people'[v].role = people[v].role
    BY <1>4 DEF Deactivate, UnlinkMax, Typed, PartiesTyped
<1>5. ASSUME ~SetRole PROVE insiders' = insiders
    BY <1>5 DEF Setting, Deactivate, UnlinkMax, setPreferences, setQuietHours,
                subscribeToPush, unsubscribeFromPush
<1>6. ASSUME ~SetRole, ~(Deactivate \/ UnlinkMax) PROVE people' = people
    BY <1>6 DEF Setting, setPreferences, setQuietHours, subscribeToPush, unsubscribeFromPush
<1>. QED
    BY <1>2, <1>3, <1>4, <1>5, <1>6

LEMMA NextInside ==
    ASSUME Typed, InsideInv, [Next]_vars PROVE InsideInv'
<1>1. ASSUME NEW r \in 1..MaxRuns, Flush(r) PROVE InsideInv'
    BY <1>1, InsideSame DEF Flush, FlushSend, FlushDelete, sources, settings, history
<1>2. ASSUME NEW t \in Moment, flushPending(t) PROVE InsideInv'
    BY <1>2, InsideSame DEF flushPending, sources, settings
<1>3. CASE Ticks
    BY <1>3, InsideSame
       DEF Ticks, RefillUpdate, RefillFind, RefillStore, DayPasses, CaptureFind, ResolveIssue,
           settings, delivery, history
<1>4. CASE Crash
  <2>1. /\ UNCHANGED <<ticket, people, notes, insiders>>
        /\ \A j \in 1..MaxJobs : jobs'[j] = Free
    BY <1>4 DEF Crash, settings
  <2>2. \A k \in 1..MaxJobs : ~Internal(jobs'[k])
    BY <2>1, FreeIsJob DEF Internal
  <2>. QED
    BY <2>1, <2>2, InsideKept DEF InsideInv
<1>5. CASE UNCHANGED vars
    BY <1>5, InsideSame DEF vars, sources, settings, delivery, history
<1>. QED
    BY <1>1, <1>2, <1>3, <1>4, <1>5, WorkInside, TellsInside, SettingInside, Steps

\* No notification of an internal note goes to somebody who was never staff nor
\* in the working group (notifications.service.ts: onTicketCommented), whatever
\* changes between the comment and the row.
THEOREM InternalNoteStaysInside == Spec => []NoteStaysInside
<1>1. Init => InsideInv
  <2>. SUFFICES ASSUME Init PROVE InsideInv
    OBVIOUS
  <2>1. \A j \in 1..MaxJobs : jobs[j] = Free
    BY DEF Init
  <2>2. PICK tech \in {u \in User : FirstRole[u] = "INTERN"} :
            ticket = [createdById |-> Creator, assignedToId |-> tech, collaborators |-> {}]
    BY DEF Init
  <2>3. insiders = {u \in User : FirstRole[u] # "USER"} /\ Len(notes) = 0
        /\ \A u \in User : people[u].role = FirstRole[u]
    BY DEF Init
  <2>4. {ticket.assignedToId} \cup ticket.collaborators \subseteq insiders
    BY <2>2, <2>3
  <2>. QED
    BY <2>1, <2>3, <2>4, FreeIsJob DEF InsideInv, NoteStaysInside
<1>2. Typed /\ InsideInv /\ [Next]_vars => (Typed /\ InsideInv)'
    BY NextTyped, NextInside
<1>3. InsideInv => NoteStaysInside
    BY DEF InsideInv
<1>. QED
    BY <1>1, <1>2, <1>3, InitTyped, PTL DEF Spec

-----------------------------------------------------------------------------
(* Nothing is told twice, until a crash, overlapping runs or captures.       *)

LEMMA StoredIsPair ==
    ASSUME NEW p \in Stored
    PROVE  p = <<p[1], p[2]>> /\ p # <<>> /\ p[1] \in 1..Len(notes)
BY DEF Stored

LEMMA SpoiltStays ==
    ASSUME [Next]_vars, ~spoilt' PROVE ~spoilt
<1>1. ASSUME NEW j \in 1..MaxJobs, Work(j) PROVE spoilt' = spoilt
    BY <1>1 DEF Work, Resolve, NotifyUser, Deliver, history
<1>2. ASSUME NEW r \in 1..MaxRuns, Flush(r) PROVE spoilt' = spoilt
    BY <1>2 DEF Flush, FlushSend, FlushDelete, history
<1>3. ASSUME NEW t \in Moment, flushPending(t) PROVE ~spoilt
    BY <1>3 DEF flushPending
<1>4. CASE Tells
    BY <1>4 DEF Tells, Emits, TicketEmits, CommentEmits, AssignEmits, CollaboratorAdded,
                VisitEmits, CartridgeFilled, Broadcast, RefillCreate, emitReminder,
                CaptureCreate, history
<1>5. CASE Setting
    BY <1>5 DEF Setting, Sets, SetRole, Deactivate, UnlinkMax, setPreferences, setQuietHours,
                subscribeToPush, unsubscribeFromPush
<1>6. CASE Ticks
    BY <1>6 DEF Ticks, RefillUpdate, RefillFind, RefillStore, DayPasses, CaptureFind,
                ResolveIssue, history
<1>7. CASE Crash
    BY <1>7 DEF Crash
<1>8. CASE UNCHANGED vars
    BY <1>8 DEF vars, history
<1>. QED
    BY <1>1, <1>2, <1>3, <1>4, <1>5, <1>6, <1>7, <1>8, Steps

\* Handlers begin, end, or stay as they are; nothing is stored or sent.
LEMMA OnceSlots ==
    ASSUME OnceInv, UNCHANGED <<runs, pending, trace>>,
           errors'.open + errors'.creating <= 1,
           \A k \in 1..MaxJobs : jobs'[k].step = "channels" => jobs'[k] = jobs[k]
    PROVE  OnceInv'
<1>1. \A k \in 1..MaxJobs : jobs'[k].step = "channels" =>
          \A c \in Rest(jobs'[k]) : <<jobs'[k].note, c>> \notin sent' \cup pending'
    BY DEF OnceInv, Rest, trace
<1>2. \A k, i \in 1..MaxJobs : jobs'[k].step = "channels" /\ jobs'[i].step = "channels"
                               /\ jobs'[i].note = jobs'[k].note => k = i
    BY DEF OnceInv
<1>. QED
    BY <1>1, <1>2 DEF OnceInv, Rest, trace

LEMMA OnceSame ==
    ASSUME OnceInv, UNCHANGED <<runs, pending, trace, jobs, errors>> PROVE OnceInv'
BY OnceSlots DEF OnceInv

LEMMA ResolveOnce ==
    ASSUME Typed, OnceInv, NEW j \in 1..MaxJobs, Resolve(j) PROVE OnceInv'
<1>1. UNCHANGED <<runs, pending, trace, errors>>
    BY DEF Resolve, sources, history
<1>2. PICK t \in Moment : \E next :
           jobs' = [jobs EXCEPT ![j] = next] /\ Resolved(j, t, next)
    BY ResolveGoes
<1>3. PICK next : jobs' = [jobs EXCEPT ![j] = next] /\ Resolved(j, t, next)
    BY <1>2
<1>4. next.step # "channels"
    BY <1>3 DEF Resolved
<1>5. \A k \in 1..MaxJobs : jobs'[k].step = "channels" => jobs'[k] = jobs[k]
    BY <1>3, <1>4 DEF Typed, JobsTyped
<1>. QED
    BY <1>1, <1>5, OnceSlots DEF OnceInv

LEMMA NotifyUserOnce ==
    ASSUME Typed, OnceInv, ~spoilt, NEW j \in 1..MaxJobs, NotifyUser(j) PROVE OnceInv'
<1>1. UNCHANGED <<runs, pending, errors>>
    BY DEF NotifyUser, sources
<1>2. PICK next : /\ jobs' = [jobs EXCEPT ![j] = next] /\ JobOK(next, Len(notes'))
                  /\ \/ UNCHANGED trace /\ next.step # "channels"
                     \/ /\ Records(Len(notes) + 1, "IN_APP")
                        /\ next.step = "channels" => next.note = Len(notes) + 1
    BY NotifyUserGoes
<1>3. CASE UNCHANGED trace /\ next.step # "channels"
  <2>1. \A k \in 1..MaxJobs : jobs'[k].step = "channels" => jobs'[k] = jobs[k]
    BY <1>2, <1>3 DEF Typed, JobsTyped
  <2>. QED
    BY <1>1, <1>3, <2>1, OnceSlots DEF OnceInv
<1>4. CASE /\ Records(Len(notes) + 1, "IN_APP")
           /\ next.step = "channels" => next.note = Len(notes) + 1
  <2>. DEFINE new == Len(notes) + 1
  <2>1. /\ sent' = sent \cup {<<new, "IN_APP">>}
        /\ again' = (again \/ <<new, "IN_APP">> \in sent)
    BY <1>4 DEF Records
  <2>2. /\ Len(notes) \in Nat
        /\ \A c : <<new, c>> \notin sent \cup pending
        /\ \A k \in 1..MaxJobs : jobs[k].note \in 0..Len(notes)
    BY DEF Typed, JobsTyped, JobOK, RowsTyped, Stored
  <2>3. new \notin 0..Len(notes)
    BY <2>2
  <2>. HIDE DEF new
  <2>4. ~again'
    BY <2>1, <2>2 DEF OnceInv
  <2>5. ASSUME NEW k \in 1..MaxJobs, jobs'[k].step = "channels"
        PROVE  /\ \A c \in Rest(jobs'[k]) : <<jobs'[k].note, c>> \notin sent' \cup pending'
               /\ \A i \in 1..MaxJobs :
                     jobs'[i].step = "channels" /\ jobs'[i].note = jobs'[k].note => k = i
    <3>1. \A i \in 1..MaxJobs : jobs'[i].step = "channels" =>
              IF i = j THEN jobs'[i].note = new ELSE jobs'[i] = jobs[i]
      BY <1>2, <1>4 DEF Typed, JobsTyped, new
    <3>2. CASE k = j
      <4>1. jobs'[k].note = new
        BY <2>5, <3>1, <3>2
      <4>2. \A c \in Rest(jobs'[k]) : c # "IN_APP"
        BY DEF Rest
      <4>. QED
        BY <1>1, <2>1, <2>2, <2>3, <3>1, <3>2, <4>1, <4>2
    <3>3. CASE k # j
      <4>1. jobs'[k] = jobs[k] /\ jobs[k].note # new
        BY <2>2, <2>3, <2>5, <3>1, <3>3
      <4>2. \A c \in Rest(jobs[k]) : <<jobs[k].note, c>> \notin sent \cup pending
        BY <2>5, <4>1 DEF OnceInv
      <4>3. \A i \in 1..MaxJobs :
                jobs'[i].step = "channels" /\ jobs'[i].note = jobs'[k].note => k = i
        BY <2>5, <3>1, <4>1 DEF OnceInv
      <4>. QED
        BY <1>1, <2>1, <4>1, <4>2, <4>3
    <3>. QED
      BY <3>2, <3>3
  <2>6. \A p \in pending' \cap sent' : \E r \in 1..MaxRuns : runs'[r].sent = p
    BY <1>1, <2>1, <2>2 DEF OnceInv
  <2>. QED
    BY <1>1, <2>4, <2>5, <2>6 DEF OnceInv, Rest
<1>. QED
    BY <1>2, <1>3, <1>4

LEMMA DeliverOnce ==
    ASSUME Typed, OnceInv, NEW j \in 1..MaxJobs, Deliver(j) PROVE OnceInv'
<1>1. UNCHANGED <<runs, errors>> /\ jobs[j].step = "channels"
    BY DEF Deliver, sources
<1>2. PICK next, c : /\ c \in Rest(jobs[j]) /\ jobs' = [jobs EXCEPT ![j] = next]
                     /\ next.step = "channels" =>
                           next.note = jobs[j].note /\ Rest(next) \subseteq Rest(jobs[j]) \ {c}
                     /\ \/ pending' = pending /\ Traces(jobs[j].note, c)
                        \/ pending' = pending \cup {<<jobs[j].note, c>>} /\ UNCHANGED trace
    BY DeliverGoes
<1>. DEFINE item == <<jobs[j].note, c>>
<1>3. item \notin sent \cup pending
    BY <1>1, <1>2 DEF OnceInv
<1>4. /\ ~again' /\ sent \cup pending \subseteq sent' \cup pending'
      /\ sent' \cup pending' \subseteq sent \cup pending \cup {item}
      /\ pending \subseteq pending'
      /\ pending' \cap sent' = pending \cap sent
  <2>1. ~again
    BY DEF OnceInv
  <2>. HIDE DEF item
  <2>2. CASE pending' = pending /\ Traces(jobs[j].note, c)
    <3>1. \/ sent' = sent /\ again' = again
          \/ sent' = sent \cup {item} /\ again' = (again \/ item \in sent)
      BY <2>2 DEF Traces, trace, item
    <3>2. ~again'
      BY <1>3, <2>1, <3>1, Zenon
    <3>3. sent' = sent \/ sent' = sent \cup {item}
      BY <3>1
    <3>. QED
      BY <1>3, <2>2, <3>2, <3>3
  <2>3. CASE pending' = pending \cup {<<jobs[j].note, c>>} /\ UNCHANGED trace
    <3>1. pending' = pending \cup {item} /\ sent' = sent /\ again' = again
      BY <2>3 DEF trace, item
    <3>. QED
      BY <1>3, <2>1, <3>1
  <2>. QED
    BY <1>2, <2>2, <2>3
<1>5. ASSUME NEW k \in 1..MaxJobs, jobs'[k].step = "channels"
      PROVE  /\ \A d \in Rest(jobs'[k]) : <<jobs'[k].note, d>> \notin sent' \cup pending'
             /\ \A i \in 1..MaxJobs :
                   jobs'[i].step = "channels" /\ jobs'[i].note = jobs'[k].note => k = i
  <2>1. \A i \in 1..MaxJobs : jobs'[i].step = "channels" =>
            /\ jobs[i].step = "channels" /\ jobs'[i].note = jobs[i].note
            /\ Rest(jobs'[i]) \subseteq Rest(jobs[i])
            /\ i = j => c \notin Rest(jobs'[i])
    BY <1>1, <1>2 DEF Typed, JobsTyped
  <2>2. ASSUME NEW d \in Rest(jobs'[k]) PROVE <<jobs'[k].note, d>> \notin sent' \cup pending'
    <3>1. <<jobs'[k].note, d>> \notin sent \cup pending
      BY <1>5, <2>1, <2>2 DEF OnceInv
    <3>2. <<jobs'[k].note, d>> # item
      BY <1>1, <1>5, <2>1, <2>2 DEF OnceInv
    <3>. QED
      BY <1>4, <3>1, <3>2
  <2>. QED
    BY <1>5, <2>1, <2>2 DEF OnceInv
<1>6. \A r \in 1..MaxRuns : /\ runs'[r].items \subseteq pending'
                            /\ \A s \in 1..MaxRuns :
                                  runs'[r] # Ended /\ runs'[s] # Ended => r = s
    BY <1>1, <1>4 DEF OnceInv
<1>7. \A p \in pending' \cap sent' : \E r \in 1..MaxRuns : runs'[r].sent = p
    BY <1>1, <1>4 DEF OnceInv
<1>. HIDE DEF item
<1>. QED
    BY <1>1, <1>4, <1>5, <1>6, <1>7 DEF OnceInv, Rest, Ended

LEMMA FlushSendOnce ==
    ASSUME Typed, OnceInv, NEW r \in 1..MaxRuns, FlushSend(r) PROVE OnceInv'
<1>1. UNCHANGED <<jobs, pending, errors>>
    BY DEF FlushSend, sources
<1>2. PICK n, c : /\ <<n, c>> \in runs[r].items /\ <<n, c>> \in Stored
                  /\ runs[r].sent = <<>>
                  /\ runs' = [runs EXCEPT ![r].sent = <<n, c>>]
                  /\ Traces(n, c)
    BY FlushGoes
<1>. DEFINE item == <<n, c>>
<1>3. item \in pending /\ item # <<>> /\ runs[r] # Ended
    BY <1>2, StoredIsPair, EndedIsRun DEF OnceInv
<1>4. \A s \in 1..MaxRuns : /\ s # r => runs'[s] = runs[s]
                            /\ runs'[s].items = runs[s].items
                            /\ runs'[r].sent = item
    BY <1>2 DEF Typed, RowsTyped, Run
<1>. HIDE DEF item
<1>5. \A p \in pending \cap sent : FALSE
  <2>1. SUFFICES ASSUME NEW p \in pending \cap sent PROVE FALSE
    OBVIOUS
  <2>2. PICK s \in 1..MaxRuns : runs[s].sent = p
    BY <2>1 DEF OnceInv
  <2>3. p # <<>>
    BY <2>1, StoredIsPair DEF Typed, RowsTyped
  <2>4. runs[s] # Ended /\ s # r
    BY <1>2, <2>2, <2>3, EndedIsRun
  <2>. QED
    BY <1>3, <2>4 DEF OnceInv
<1>6. /\ ~again' /\ sent' \subseteq sent \cup {item}
  <2>1. \/ sent' = sent /\ again' = again
        \/ sent' = sent \cup {item} /\ again' = (again \/ item \in sent)
    BY <1>2 DEF Traces, trace, item
  <2>2. item \notin sent /\ ~again
    BY <1>3, <1>5 DEF OnceInv
  <2>3. ~again'
    BY <2>1, <2>2, Zenon
  <2>. QED
    BY <2>1, <2>3
<1>7. \A k \in 1..MaxJobs : jobs'[k].step = "channels" =>
          /\ \A d \in Rest(jobs'[k]) : <<jobs'[k].note, d>> \notin sent' \cup pending'
          /\ \A i \in 1..MaxJobs :
                jobs'[i].step = "channels" /\ jobs'[i].note = jobs'[k].note => k = i
    BY <1>1, <1>3, <1>6 DEF OnceInv, Rest
<1>8. \A s \in 1..MaxRuns : runs'[s] # Ended => runs[s] # Ended
    BY <1>3, <1>4
<1>9. \A s \in 1..MaxRuns : /\ runs'[s].items \subseteq pending'
                            /\ \A i \in 1..MaxRuns :
                                  runs'[s] # Ended /\ runs'[i] # Ended => s = i
    BY <1>1, <1>4, <1>8 DEF OnceInv
<1>10. \A p \in pending' \cap sent' : \E s \in 1..MaxRuns : runs'[s].sent = p
    BY <1>1, <1>4, <1>5, <1>6
<1>. QED
    BY <1>1, <1>6, <1>7, <1>9, <1>10 DEF OnceInv, Rest, Ended

LEMMA FlushDeleteOnce ==
    ASSUME Typed, OnceInv, NEW r \in 1..MaxRuns, FlushDelete(r) PROVE OnceInv'
<1>. DEFINE item == runs[r].sent
            left == runs[r].items \ {item}
            rest == [runs[r] EXCEPT !.items = left, !.sent = <<>>]
<1>1. /\ UNCHANGED <<jobs, errors, trace>> /\ item # <<>> /\ pending' = pending \ {item}
      /\ runs' = [runs EXCEPT ![r] = Ended] \/ runs' = [runs EXCEPT ![r] = rest]
    BY DEF FlushDelete, sources, history
<1>2. rest.items = left /\ rest.sent = <<>>
    BY DEF Typed, RowsTyped, Run
<1>. HIDE DEF rest
<1>3. runs[r] # Ended
    BY <1>1, EndedIsRun
<1>4. /\ \A s \in 1..MaxRuns : s # r => runs'[s] = runs[s] /\ runs[s] = Ended
      /\ runs'[r] = Ended \/ runs'[r] = rest
    BY <1>1, <1>3 DEF OnceInv, Typed, RowsTyped
<1>5. \A s \in 1..MaxRuns : /\ runs'[s].items \subseteq pending'
                            /\ \A i \in 1..MaxRuns :
                                  runs'[s] # Ended /\ runs'[i] # Ended => s = i
  <2>1. runs[r].items \subseteq pending
    BY DEF OnceInv
  <2>2. left \subseteq pending'
    BY <1>1, <2>1
  <2>3. \A s \in 1..MaxRuns : runs'[s] # Ended => s = r
    BY <1>4
  <2>. HIDE DEF left
  <2>4. \A s \in 1..MaxRuns : runs'[s].items \subseteq pending'
    BY <1>2, <1>4, <2>2, <2>3, EndedIsRun
  <2>. QED
    BY <2>3, <2>4
<1>6. \A p \in pending' \cap sent' : FALSE
  <2>1. SUFFICES ASSUME NEW p \in pending' \cap sent' PROVE FALSE
    OBVIOUS
  <2>2. p \in pending \cap sent /\ p # item
    BY <1>1, <2>1 DEF trace
  <2>3. PICK s \in 1..MaxRuns : runs[s].sent = p
    BY <2>2 DEF OnceInv
  <2>4. p # <<>>
    BY <2>2, StoredIsPair DEF Typed, RowsTyped
  <2>5. s # r
    BY <2>2, <2>3
  <2>. QED
    BY <1>4, <2>3, <2>4, <2>5, EndedIsRun
<1>7. \A k \in 1..MaxJobs : jobs'[k].step = "channels" =>
          /\ \A d \in Rest(jobs'[k]) : <<jobs'[k].note, d>> \notin sent' \cup pending'
          /\ \A i \in 1..MaxJobs :
                jobs'[i].step = "channels" /\ jobs'[i].note = jobs'[k].note => k = i
    BY <1>1 DEF OnceInv, Rest, trace
<1>8. ~again' /\ errors'.open + errors'.creating <= 1
    BY <1>1 DEF OnceInv, trace
<1>. QED
    BY <1>5, <1>6, <1>7, <1>8 DEF OnceInv, Rest, Ended

LEMMA FlushPendingOnce ==
    ASSUME Typed, OnceInv, NEW t \in Moment, flushPending(t), ~spoilt' PROVE OnceInv'
<1>1. UNCHANGED <<jobs, errors, pending, trace>> /\ ~Running
    BY DEF flushPending, sources, trace
<1>2. PICK r \in 1..MaxRuns, run \in Run : runs' = [runs EXCEPT ![r] = run] /\ run.items = pending
    BY FlushPendingGoes
<1>3. \A s \in 1..MaxRuns : runs[s] = Ended
    BY <1>1 DEF Running
<1>4. \A s \in 1..MaxRuns : runs'[s] = IF s = r THEN run ELSE Ended
    BY <1>2, <1>3 DEF Typed, RowsTyped
<1>5. \A s \in 1..MaxRuns : /\ runs'[s].items \subseteq pending'
                            /\ \A i \in 1..MaxRuns :
                                  runs'[s] # Ended /\ runs'[i] # Ended => s = i
    BY <1>1, <1>2, <1>4, EndedIsRun
<1>6. \A p \in pending' \cap sent' : FALSE
  <2>1. SUFFICES ASSUME NEW p \in pending \cap sent PROVE FALSE
    BY <1>1 DEF trace
  <2>2. PICK s \in 1..MaxRuns : runs[s].sent = p
    BY <2>1 DEF OnceInv
  <2>3. p # <<>>
    BY <2>1, StoredIsPair DEF Typed, RowsTyped
  <2>. QED
    BY <1>3, <2>2, <2>3, EndedIsRun
<1>7. \A k \in 1..MaxJobs : jobs'[k].step = "channels" =>
          /\ \A d \in Rest(jobs'[k]) : <<jobs'[k].note, d>> \notin sent' \cup pending'
          /\ \A i \in 1..MaxJobs :
                jobs'[i].step = "channels" /\ jobs'[i].note = jobs'[k].note => k = i
    BY <1>1 DEF OnceInv, Rest, trace
<1>8. ~again' /\ errors'.open + errors'.creating <= 1
    BY <1>1 DEF OnceInv, trace
<1>. QED
    BY <1>5, <1>6, <1>7, <1>8 DEF OnceInv, Rest, Ended

LEMMA TellsOnce ==
    ASSUME Typed, OnceInv, Tells PROVE OnceInv'
<1>1. Speaks
    BY TellsSpeaks
<1>2. UNCHANGED <<runs, pending, trace>>
    BY <1>1 DEF Speaks
<1>3. \A k \in 1..MaxJobs : jobs'[k].step = "channels" => jobs'[k] = jobs[k]
    BY <1>1, SpeaksSlots DEF Typed
<1>4. errors'.open + errors'.creating <= 1
  <2>1. CASE errors' = errors
    BY <2>1 DEF OnceInv
  <2>2. CASE CaptureCreate
    BY <2>2 DEF CaptureCreate, OnceInv, Typed, CountersTyped
  <2>. QED
    BY <2>1, <2>2
       DEF Tells, Emits, TicketEmits, CommentEmits, AssignEmits, CollaboratorAdded, VisitEmits,
           CartridgeFilled, Broadcast, RefillCreate, emitReminder
<1>. QED
    BY <1>2, <1>3, <1>4, OnceSlots

LEMMA TicksOnce ==
    ASSUME Typed, OnceInv, Ticks, ~spoilt' PROVE OnceInv'
<1>1. UNCHANGED <<runs, pending, trace, jobs>>
    BY DEF Ticks, RefillUpdate, RefillFind, RefillStore, DayPasses, CaptureFind, ResolveIssue,
           delivery, history
<1>2. errors'.open + errors'.creating <= 1
  <2>1. CASE CaptureFind
    <3>1. CASE errors' = errors
      BY <3>1 DEF OnceInv
    <3>2. CASE errors.open = 0 /\ errors' = [errors EXCEPT !.creating = @ + 1]
      <4>1. errors' # errors => spoilt' = (spoilt \/ errors.creating > 0)
        BY <2>1 DEF CaptureFind
      <4>2. errors' # errors => ~(errors.creating > 0)
        BY <4>1, Zenon
      <4>3. errors' # errors
        BY <3>2 DEF Typed, CountersTyped
      <4>. QED
        BY <3>2, <4>2, <4>3 DEF Typed, CountersTyped
    <3>. QED
      BY <2>1, <3>1, <3>2 DEF CaptureFind, Typed, CountersTyped
  <2>2. CASE ResolveIssue
    <3>1. errors' = [errors EXCEPT !.open = @ - 1]
      BY <2>2 DEF ResolveIssue
    <3>. QED
      BY <3>1 DEF OnceInv, Typed, CountersTyped
  <2>. QED
    BY <2>1, <2>2 DEF Ticks, RefillUpdate, RefillFind, RefillStore, DayPasses, OnceInv
<1>. QED
    BY <1>1, <1>2, OnceSlots

LEMMA NextOnce ==
    ASSUME Typed, spoilt \/ OnceInv, [Next]_vars PROVE (spoilt \/ OnceInv)'
<1>. SUFFICES ASSUME ~spoilt' PROVE OnceInv'
    OBVIOUS
<1>0. ~spoilt /\ OnceInv
    BY SpoiltStays
<1>1. ASSUME NEW j \in 1..MaxJobs, Work(j) PROVE OnceInv'
    BY <1>0, <1>1, ResolveOnce, NotifyUserOnce, DeliverOnce DEF Work
<1>2. ASSUME NEW r \in 1..MaxRuns, Flush(r) PROVE OnceInv'
    BY <1>0, <1>2, FlushSendOnce, FlushDeleteOnce DEF Flush
<1>3. ASSUME NEW t \in Moment, flushPending(t) PROVE OnceInv'
    BY <1>0, <1>3, FlushPendingOnce
<1>4. CASE Setting
    BY <1>0, <1>4, OnceSame
       DEF Setting, Sets, SetRole, Deactivate, UnlinkMax, setPreferences, setQuietHours,
           subscribeToPush, unsubscribeFromPush, sources, delivery
<1>5. CASE Crash
    BY <1>5 DEF Crash
<1>6. CASE UNCHANGED vars
    BY <1>0, <1>6, OnceSame DEF vars, sources, delivery, history
<1>. QED
    BY <1>0, <1>1, <1>2, <1>3, <1>4, <1>5, <1>6, TellsOnce, TicksOnce, Steps

\* A notification goes out once per channel, a reminder of a refill once, and an
\* error with an open issue opens no second one, as long as the process does not
\* crash and no runs or captures overlap (notifications.service.ts: notifyUsers,
\* quiet-hours-delivery.cron.ts, refill-reminder.cron.ts, error-log.service.ts).
THEOREM ToldOnce == Spec => []NothingToldTwice
<1>1. Init => OnceInv
  <2>. SUFFICES ASSUME Init PROVE OnceInv
    OBVIOUS
  <2>1. /\ \A j \in 1..MaxJobs : jobs[j] = Free
        /\ \A r \in 1..MaxRuns : runs[r] = Ended
        /\ pending = {} /\ sent = {} /\ ~again
    BY DEF Init
  <2>2. errors.open + errors.creating <= 1
    BY DEF Init
  <2>. QED
    BY <2>1, <2>2, FreeIsJob, EndedIsRun DEF OnceInv
<1>2. Typed /\ RefillInv /\ (spoilt \/ OnceInv) /\ [Next]_vars
        => (Typed /\ RefillInv /\ (spoilt \/ OnceInv))'
    BY NextTyped, NextRefill, NextOnce
<1>3. Typed /\ RefillInv /\ (spoilt \/ OnceInv) => NothingToldTwice
  <2>. SUFFICES ASSUME Typed, RefillInv, OnceInv PROVE NothingToldTwice
    BY DEF NothingToldTwice
  <2>1. \A d \in {1, 3} : told[d] <= 1
    BY DEF RefillInv
  <2>2. errors.open <= 1 /\ ~again
    BY DEF OnceInv, Typed, CountersTyped
  <2>. QED
    BY <2>1, <2>2 DEF NothingToldTwice
<1>. QED
    BY <1>1, <1>2, <1>3, InitTyped, PTL DEF Spec

=============================================================================
