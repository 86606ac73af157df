------------------------- MODULE VisitsSerialProofs -------------------------
(***************************************************************************)
(* Proofs about what Visits promises as long as nothing has overlapped: no *)
(* technician is booked twice, no time is confirmed by the side that       *)
(* offered it, no visit is put over a task, and everybody is reminded once.*)
(* Any calendar, any number of users, tickets, visits, tasks and windows.  *)
(***************************************************************************)
EXTENDS VisitsProofs

-----------------------------------------------------------------------------
(* One thing at a time, and what an operation has read is still so *)

Alone ==
    /\ \A o, p \in Op : Running(o) /\ Running(p) => o = p
    /\ CronRunning => \A o \in Op : ~Running(o)

OfferedBy(side, offer) == \A s \in offer : s.by = side

\* The windows of a proposed visit come from the side counterProposed names.
OneSided(row) ==
    row.status = "PROPOSED" =>
        OfferedBy(IF row.counterProposed THEN "author" ELSE "staff", row.slots)

Knows(q) ==
    /\ q.kind = "propose" => OfferedBy("staff", q.offer)
    /\ q.kind \in {"confirm", "book"} =>
          /\ visit[q.visit].status = "PROPOSED"
          /\ q.offer \subseteq visit[q.visit].slots
          /\ q.by = IF visit[q.visit].counterProposed THEN "staff" ELSE "author"
    /\ q.kind \in {"counter", "recount"} =>
          visit[q.visit].status = "PROPOSED" /\ OfferedBy("author", q.offer)
    /\ q.kind \in {"nudge", "shift", "postpone", "recall", "return"} =>
          visit[q.visit].status = "CONFIRMED" /\ OfferedBy("staff", q.offer)
    /\ q.kind \in {"confirm", "book", "nudge", "shift"} =>
          /\ q.technician = visit[q.visit].technician
          /\ \E s \in Slot : q.offer = {s}
    /\ q.kind \in {"book", "shift"} =>
          \A s \in q.offer : ~FindTechnicianConflicts(q.technician, s.window, q.visit)
    /\ q.kind \in {"recount", "return"} => q.doomed = visit[q.visit].slots
    /\ q.kind \in {"DONE", "CANCELLED"} => Planned(q.visit)

Orderly ==
    Serial => /\ Alone
              /\ \A o \in Op : Knows(op[o])
              /\ \A v \in Visit : OneSided(visit[v])

LEMMA InitOrderly == Init => Orderly
BY DEF Init, Orderly, Alone, Running, Knows, Idle, OneSided, NoVisit, CronRunning

LEMMA PastGrows == [Next]_vars => past \subseteq past'
<1>. SUFFICES ASSUME [Next]_vars PROVE past \subseteq past'
    OBVIOUS
<1>1. ASSUME NEW o \in Op, NEW q, Begin(o, q) PROVE past \subseteq past'
    BY <1>1 DEF Begin, Noticed
<1>2. ASSUME NEW o \in Op, OpStep(o) PROVE past \subseteq past'
    BY <1>1, <1>2
    DEF OpStep, ProposeRead, ProposeWrite, ConfirmRead, CheckConflicts, ConfirmWrite,
        CounterRead, DeleteSlots, CounterWrite, RescheduleRead, ShiftWrite, ReturnWrite,
        SetStatusRead, SetStatusWrite, Write, Continue
<1>3. CASE Elsewhere
  <2>1. Meanwhile => past \subseteq past'
    BY DEF Meanwhile, Noticed
  <2>. QED
    BY <1>3, <2>1
    DEF Elsewhere, CreateTask, MoveTask, SetTaskDone, RemoveTask, TaskStep,
        AssignTicket, DeleteTicket, RemoveUser
<1>4. CASE CronStep \/ Tick \/ Crash
    BY <1>4
    DEF CronStep, CheckVisitReminders, CheckPresenceReminders, MarkReminded,
        NotifyReminded, Tick, Crash, Noticed
<1>. QED
    BY <1>2, <1>3, <1>4 DEF Next, vars

LEMMA SerialStays == [Next]_vars /\ Serial' => Serial
BY PastGrows DEF Serial

-----------------------------------------------------------------------------
(* Operations *)

LEMMA BeginOrderly ==
    ASSUME Inv, Orderly, Serial, Serial', NEW o \in Op, NEW q \in OpState,
           Begin(o, q), Knows(q)
    PROVE  Orderly'
<1>1. /\ op' = [op EXCEPT ![o] = q]
      /\ ~CronRunning /\ \A p \in Op : ~Running(p)
      /\ UNCHANGED <<ticket, visit, task, gone, clock, cron, told>>
    BY DEF Begin, Serial, Noticed, rows
<1>2. op'[o] = q /\ \A p \in Op \ {o} : op'[p] = Idle
    BY <1>1 DEF Inv, TypeOK, Running
<1>3. Alone'
    BY <1>1, <1>2 DEF Alone, Running, CronRunning
<1>4. \A p \in Op : Knows(op[p])'
  <2>1. Knows(op[o])'
    BY <1>1, <1>2 DEF Knows, FindTechnicianConflicts, BusyVisit, BusyTask, Planned
  <2>2. \A p \in Op \ {o} : Knows(op[p])'
    BY <1>2 DEF Knows, Idle
  <2>. QED
    BY <2>1, <2>2
<1>. QED
    BY <1>1, <1>3, <1>4 DEF Orderly, OneSided

LEMMA OfferedByItsSide ==
    ASSUME NEW side, NEW ws PROVE OfferedBy(side, OfferBy(side, ws))
BY DEF OfferedBy, OfferBy

LEMMA ProposeReadOrderly ==
    ASSUME Inv, Orderly, Serial, Serial', NEW o \in Op, NEW u \in User, NEW t \in Ticket,
           NEW ws \in SUBSET Window, ProposeRead(o, u, t, ws)
    PROVE  Orderly'
<1>. DEFINE q == [Idle EXCEPT !.kind = "propose", !.user = u, !.visit = t,
                    !.technician = IF ticket[t].assignedTo # Null
                                   THEN ticket[t].assignedTo ELSE u,
                    !.offer = OfferBy("staff", ws)]
<1>1. OfferBy("staff", ws) \in SUBSET Slot
    BY OfferSound DEF ProposeRead
<1>2. ticket[t].assignedTo \in User \cup {Null}
    BY DEF Inv, TypeOK, TicketRow
<1>3. q \in OpState /\ Knows(q)
    BY <1>1, <1>2, OfferedByItsSide DEF Idle, OpState, Knows
<1>. QED
    BY <1>3, BeginOrderly DEF ProposeRead

LEMMA ConfirmReadOrderly ==
    ASSUME Inv, Orderly, Serial, Serial', NEW o \in Op, NEW u \in User, NEW v \in Visit,
           NEW s \in visit[v].slots, ConfirmRead(o, u, v, s)
    PROVE  Orderly'
<1>. DEFINE q == [Idle EXCEPT !.kind = "confirm", !.visit = v,
                    !.technician = visit[v].technician, !.offer = {s},
                    !.by = IF visit[v].counterProposed THEN "staff" ELSE "author"]
<1>1. visit[v] \in VisitRow /\ s \in Slot
    BY DEF Inv, TypeOK, VisitRow
<1>2. q \in OpState
    BY <1>1 DEF Idle, OpState, VisitRow
<1>3. Knows(q)
    BY <1>1 DEF ConfirmRead, Idle, Knows
<1>. QED
    BY <1>2, <1>3, BeginOrderly DEF ConfirmRead

LEMMA CounterReadOrderly ==
    ASSUME Inv, Orderly, Serial, Serial', NEW o \in Op, NEW u \in User, NEW v \in Visit,
           NEW ws \in SUBSET Window, CounterRead(o, u, v, ws)
    PROVE  Orderly'
<1>. DEFINE q == [Idle EXCEPT !.kind = "counter", !.visit = v,
                    !.by = "author", !.offer = OfferBy("author", ws)]
<1>1. OfferBy("author", ws) \in SUBSET Slot
    BY OfferSound DEF CounterRead
<1>2. q \in OpState /\ Knows(q)
    BY <1>1, OfferedByItsSide DEF Idle, OpState, Knows, CounterRead
<1>. QED
    BY <1>2, BeginOrderly DEF CounterRead

LEMMA RescheduleReadOrderly ==
    ASSUME Inv, Orderly, Serial, Serial', NEW o \in Op, NEW u \in User, NEW v \in Visit,
           NEW w \in Window, RescheduleRead(o, u, v, w)
    PROVE  Orderly'
<1>. DEFINE kind == IF Distance(w.start, visit[v].scheduled.start) > SmallShift
                    THEN "postpone" ELSE "nudge"
            s == [window |-> w, by |-> "staff"]
            q == [Idle EXCEPT !.visit = v, !.technician = visit[v].technician,
                    !.offer = OfferBy("staff", {w}), !.kind = kind]
<1>1. s \in Slot /\ OfferBy("staff", {w}) = {s}
  <2>1. s \in Slot /\ s \in OfferBy("staff", {w})
    BY DEF Slot, OfferBy
  <2>2. ASSUME NEW r \in OfferBy("staff", {w}) PROVE r = s
    BY <2>2 DEF OfferBy
  <2>. QED
    BY <2>1, <2>2
<1>2. visit[v].technician \in User \cup {Null, Sentinel}
    BY DEF Inv, TypeOK, VisitRow
<1>3. kind \in {"postpone", "nudge"}
    OBVIOUS
<1>4. Begin(o, q) /\ visit[v].status = "CONFIRMED"
    BY DEF RescheduleRead
<1>5. q \in OpState /\ Knows(q)
  <2>. HIDE DEF kind, s
  <2>1. OfferedBy("staff", {s})
    BY DEF OfferedBy, s
  <2>. QED
    BY <1>1, <1>2, <1>3, <1>4, <2>1 DEF Idle, OpState, Knows
<1>. QED
    BY <1>4, <1>5, BeginOrderly

LEMMA SetStatusReadOrderly ==
    ASSUME Inv, Orderly, Serial, Serial', NEW o \in Op, NEW u \in User, NEW v \in Visit,
           NEW status \in {"DONE", "CANCELLED"}, SetStatusRead(o, u, v, status)
    PROVE  Orderly'
<1>. DEFINE q == [Idle EXCEPT !.kind = status, !.visit = v]
<1>1. q \in OpState /\ Knows(q)
    BY DEF Idle, OpState, Knows, SetStatusRead
<1>. QED
    BY <1>1, BeginOrderly DEF SetStatusRead

\* The window an operation is about is one it carries.
LEMMA ChosenOffered ==
    ASSUME Inv, NEW o \in Op, op[o].offer # {}
    PROVE  Chosen(o) \in Window /\ \E s \in op[o].offer : s.window = Chosen(o)
<1>1. \E w \in Window : \E s \in op[o].offer : s.window = w
    BY DEF Inv, TypeOK, OpState, Slot
<1>. QED
    BY <1>1 DEF Chosen

\* An operation that goes on is alone, and writes nothing yet.
LEMMA ContinueOrderly ==
    ASSUME Inv, Orderly, Serial, NEW o \in Op, Running(o), NEW q,
           Continue(o, q), UNCHANGED visit, Knows(q)
    PROVE  Orderly'
<1>1. /\ op' = [op EXCEPT ![o] = q] /\ Serial'
      /\ ~CronRunning /\ \A p \in Op \ {o} : op[p] = Idle
      /\ UNCHANGED <<ticket, visit, task, cron>>
    BY DEF Continue, Orderly, Alone, Running, Serial
<1>2. op'[o] = q /\ \A p \in Op \ {o} : op'[p] = Idle
    BY <1>1 DEF Inv, TypeOK
<1>3. Alone'
    BY <1>1, <1>2 DEF Alone, Running, CronRunning
<1>4. \A p \in Op : Knows(op[p])'
  <2>1. Knows(op[o])'
    BY <1>1, <1>2 DEF Knows, FindTechnicianConflicts, BusyVisit, BusyTask, Planned
  <2>2. \A p \in Op \ {o} : Knows(op[p])'
    BY <1>2 DEF Knows, Idle
  <2>. QED
    BY <2>1, <2>2
<1>. QED
    BY <1>1, <1>3, <1>4 DEF Orderly, OneSided

LEMMA CheckOrderly ==
    ASSUME Inv, Orderly, Serial, NEW o \in Op,
           \/ CheckConflicts(o, "confirm", "book")
           \/ CheckConflicts(o, "nudge", "shift")
           \/ CheckConflicts(o, "postpone", "recall")
    PROVE  Orderly'
<1>1. PICK kind \in {"confirm", "nudge", "postpone"}, next \in {"book", "shift", "recall"} :
          /\ <<kind, next>> \in {<<"confirm", "book">>, <<"nudge", "shift">>,
                                 <<"postpone", "recall">>}
          /\ CheckConflicts(o, kind, next)
    OBVIOUS
<1>2. /\ op[o] \in OpState /\ op[o].kind = kind /\ Running(o) /\ UNCHANGED visit
      /\ Knows(op[o]) /\ op[o].offer # {}
    BY <1>1 DEF CheckConflicts, Running, Idle, Orderly, Inv, TypeOK, OpSound
<1>3. CASE FindTechnicianConflicts(op[o].technician, Chosen(o), op[o].visit)
  <2>1. Continue(o, Idle) /\ Knows(Idle)
    BY <1>1, <1>3 DEF CheckConflicts, Knows, Idle
  <2>. QED
    BY <1>2, <2>1, ContinueOrderly
<1>4. CASE ~FindTechnicianConflicts(op[o].technician, Chosen(o), op[o].visit)
  <2>. DEFINE q == [op[o] EXCEPT !.kind = next]
  <2>1. Continue(o, q)
    BY <1>1, <1>4 DEF CheckConflicts
  <2>2. q.kind = next /\ q.offer = op[o].offer /\ q.visit = op[o].visit
        /\ q.technician = op[o].technician /\ q.by = op[o].by
    BY <1>2 DEF OpState
  <2>3. next # "recall" => \A s \in op[o].offer : s.window = Chosen(o)
    BY <1>1, <1>2, ChosenOffered DEF Knows
  <2>. HIDE DEF q
  <2>4. Knows(q)
    BY <1>1, <1>2, <1>4, <2>2, <2>3 DEF Knows
  <2>. QED
    BY <1>2, <2>1, <2>4, ContinueOrderly
<1>. QED
    BY <1>3, <1>4

LEMMA DeleteOrderly ==
    ASSUME Inv, Orderly, Serial, NEW o \in Op,
           DeleteSlots(o, "counter", "recount") \/ DeleteSlots(o, "recall", "return")
    PROVE  Orderly'
<1>1. PICK kind \in {"counter", "recall"}, next \in {"recount", "return"} :
          /\ <<kind, next>> \in {<<"counter", "recount">>, <<"recall", "return">>}
          /\ DeleteSlots(o, kind, next)
    OBVIOUS
<1>. DEFINE q == [op[o] EXCEPT !.kind = next, !.doomed = visit[op[o].visit].slots]
<1>2. /\ op[o] \in OpState /\ op[o].kind = kind /\ Running(o) /\ UNCHANGED visit
      /\ Knows(op[o]) /\ Continue(o, q)
    BY <1>1 DEF DeleteSlots, Running, Idle, Orderly, Inv, TypeOK
<1>3. q.kind = next /\ q.offer = op[o].offer /\ q.visit = op[o].visit
      /\ q.doomed = visit[op[o].visit].slots
    BY <1>2 DEF OpState
<1>. HIDE DEF q
<1>4. Knows(q)
    BY <1>1, <1>2, <1>3 DEF Knows
<1>. QED
    BY <1>2, <1>4, ContinueOrderly

-----------------------------------------------------------------------------
(* What may become of a visit in a step of an operation, or of another      *)
(* service, that overlaps with nothing                                      *)

Untouched(v) == visit'[v] = visit[v] /\ told'[v] = told[v]

Proposes(v) ==
    /\ visit[v].status = "ABSENT" /\ visit'[v].status = "PROPOSED"
    /\ visit'[v].scheduled = Null
    /\ ~visit'[v].reminderSentAt /\ ~visit'[v].presenceReminderSentAt
    /\ OneSided(visit'[v])
    /\ told'[v] = told[v]

\* The time is booked around everything the technician has, and by the other
\* side when the visit was only proposed.
Books(v) ==
    /\ visit[v].status \in {"PROPOSED", "CONFIRMED"} /\ visit'[v].status = "CONFIRMED"
    /\ visit'[v].technician = visit[v].technician
    /\ visit'[v].scheduled \in Window
    /\ ~FindTechnicianConflicts(visit[v].technician, visit'[v].scheduled, v)
    /\ ~visit'[v].reminderSentAt /\ ~visit'[v].presenceReminderSentAt
    /\ told'[v] = [reminder |-> 0, presence |-> 0, since |-> clock]
    /\ \A x \in Visit \ {v} : Untouched(x)
    /\ visit[v].status = "PROPOSED" =>
          \E o \in Op : /\ op[o].kind = "book" /\ op[o].visit = v
                        /\ \A s \in op[o].offer : s.by # op[o].by

Returns(v) ==
    /\ visit[v].status = "CONFIRMED" /\ visit'[v].status = "PROPOSED"
    /\ visit'[v].scheduled = Null
    /\ ~visit'[v].reminderSentAt /\ ~visit'[v].presenceReminderSentAt
    /\ OneSided(visit'[v])
    /\ told'[v] = [reminder |-> 0, presence |-> 0, since |-> clock]

\* Windows are countered, or the visit is over.
Settles(v) ==
    /\ visit[v].status \in {"PROPOSED", "CONFIRMED"}
    /\ visit'[v].status \in {"PROPOSED", "DONE", "CANCELLED"}
    /\ visit'[v].scheduled = visit[v].scheduled
    /\ visit'[v].reminderSentAt = visit[v].reminderSentAt
    /\ visit'[v].presenceReminderSentAt = visit[v].presenceReminderSentAt
    /\ OneSided(visit'[v])
    /\ told'[v] = told[v]

GoesAway(v) ==
    visit'[v].status = "DELETED" /\ visit'[v].scheduled = Null /\ told'[v] = told[v]

HandsOver(v) ==
    /\ \/ visit'[v] = visit[v]
       \/ visit'[v] = [visit[v] EXCEPT !.technician = Sentinel]
    /\ told'[v] = told[v]

Effect(v) ==
    \/ Untouched(v) \/ Proposes(v) \/ Books(v) \/ Returns(v) \/ Settles(v)
    \/ GoesAway(v) \/ HandsOver(v)

\* The step is taken alone, and nothing runs after it.
AtOnce ==
    /\ ~CronRunning
    /\ \A o \in Op : op'[o] = Idle
    /\ UNCHANGED <<clock, cron>>

LEMMA EndsAtOnce ==
    ASSUME Inv, Orderly, Serial, NEW o \in Op, Running(o), Continue(o, Idle)
    PROVE  AtOnce
<1>1. op' = [op EXCEPT ![o] = Idle] /\ UNCHANGED <<clock, cron>>
    BY DEF Continue
<1>2. ~CronRunning /\ \A p \in Op \ {o} : op[p] = Idle
    BY DEF Orderly, Alone, Running
<1>. QED
    BY <1>1, <1>2 DEF AtOnce, Inv, TypeOK

\* A write by id finds the row its operation has read.
LEMMA WriteEffect ==
    ASSUME Inv, Orderly, Serial, NEW o \in Op, NEW row, Write(o, row),
           op[o].kind \notin {"none", "propose"}
    PROVE  /\ AtOnce /\ op[o].visit \in Visit
           /\ visit[op[o].visit].status \in {"PROPOSED", "CONFIRMED"}
           /\ visit' = [visit EXCEPT ![op[o].visit] = row]
           /\ visit'[op[o].visit] = row
           /\ \A v \in Visit \ {op[o].visit} : visit'[v] = visit[v]
<1>1. Running(o) /\ Continue(o, Idle)
    BY DEF Running, Idle, Write
<1>2. /\ op[o].visit \in Visit /\ op[o] \in OpState /\ Knows(op[o])
    BY DEF Inv, TypeOK, OpSound, Orderly
<1>3. visit[op[o].visit].status \in {"PROPOSED", "CONFIRMED"}
    BY <1>2 DEF Knows, OpState, Planned
<1>. QED
    BY <1>1, <1>2, <1>3, EndsAtOnce DEF Write, Inv, TypeOK

LEMMA UntoldEffect ==
    ASSUME Inv, NEW v \in Visit, Untold(v)
    PROVE  /\ told'[v] = [reminder |-> 0, presence |-> 0, since |-> clock]
           /\ \A x \in Visit \ {v} : told'[x] = told[x]
BY DEF Inv, TypeOK, Untold

LEMMA ProposeEffect ==
    ASSUME Inv, Orderly, Serial, NEW o \in Op, ProposeWrite(o)
    PROVE  AtOnce /\ \A v \in Visit : Effect(v)
<1>1. AtOnce /\ told' = told
    BY EndsAtOnce DEF ProposeWrite, Running, Idle
<1>2. CASE UNCHANGED visit
    BY <1>1, <1>2 DEF Effect, Untouched
<1>3. ASSUME NEW v \in Visit, visit[v].status = "ABSENT",
             visit' = [visit EXCEPT ![v] =
                        [NoVisit EXCEPT !.status = "PROPOSED",
                            !.ticket = op[o].visit,
                            !.technician = op[o].technician,
                            !.slots = op[o].offer]]
      PROVE  \A x \in Visit : Effect(x)
  <2>1. OfferedBy("staff", op[o].offer)
    BY DEF ProposeWrite, Orderly, Knows
  <2>2. visit'[v] = [NoVisit EXCEPT !.status = "PROPOSED", !.ticket = op[o].visit,
                        !.technician = op[o].technician, !.slots = op[o].offer]
    BY <1>3 DEF Inv, TypeOK
  <2>3. Proposes(v)
    <3>1. /\ visit'[v].status = "PROPOSED" /\ visit'[v].scheduled = Null
          /\ visit'[v].slots = op[o].offer
          /\ visit'[v].counterProposed = FALSE /\ visit'[v].reminderSentAt = FALSE
          /\ visit'[v].presenceReminderSentAt = FALSE
        BY <2>2 DEF NoVisit
    <3>. QED
        BY <1>1, <1>3, <2>1, <3>1 DEF Proposes, OneSided
  <2>4. \A x \in Visit \ {v} : Untouched(x)
    BY <1>1, <1>3 DEF Untouched, Inv, TypeOK
  <2>. QED
    BY <2>3, <2>4 DEF Effect
<1>. QED
    BY <1>1, <1>2, <1>3 DEF ProposeWrite

LEMMA ConfirmEffect ==
    ASSUME Inv, Orderly, Serial, NEW o \in Op, ConfirmWrite(o)
    PROVE  AtOnce /\ \A v \in Visit : Effect(v)
<1>. DEFINE v == op[o].visit
            row == [Booked(visit[v], Chosen(o)) EXCEPT
                        !.status = "CONFIRMED", !.counterProposed = FALSE]
<1>1. op[o].kind = "book" /\ Write(o, row) /\ Untold(v)
    BY DEF ConfirmWrite
<1>2. /\ AtOnce /\ v \in Visit /\ visit'[v] = row
      /\ \A x \in Visit \ {v} : visit'[x] = visit[x]
    BY <1>1, WriteEffect
<1>3. Knows(op[o]) /\ op[o].offer # {} /\ visit[v] \in VisitRow
    BY <1>1, <1>2 DEF Orderly, Inv, TypeOK, OpSound
<1>4. PICK s \in op[o].offer : s.window = Chosen(o) /\ s.window \in Window
    BY <1>3, ChosenOffered
<1>5. ~FindTechnicianConflicts(visit[v].technician, Chosen(o), v)
    BY <1>1, <1>3, <1>4 DEF Knows
<1>6. row.status = "CONFIRMED" /\ row.technician = visit[v].technician
      /\ row.scheduled = Chosen(o)
      /\ ~row.reminderSentAt /\ ~row.presenceReminderSentAt
    BY <1>3 DEF Booked, VisitRow
<1>7. \A r \in op[o].offer : r.by # op[o].by
  <2>1. OfferedBy(IF visit[v].counterProposed THEN "author" ELSE "staff", visit[v].slots)
    BY <1>1, <1>2, <1>3 DEF Orderly, OneSided, Knows
  <2>. QED
    BY <1>1, <1>3, <2>1 DEF OfferedBy, Knows
<1>. HIDE DEF row
<1>8. Books(v)
    BY <1>1, <1>2, <1>3, <1>4, <1>5, <1>6, <1>7, UntoldEffect DEF Books, Untouched, Knows
<1>. QED
    BY <1>2, <1>8 DEF Effect, Books

LEMMA ShiftEffect ==
    ASSUME Inv, Orderly, Serial, NEW o \in Op, ShiftWrite(o)
    PROVE  AtOnce /\ \A v \in Visit : Effect(v)
<1>. DEFINE v == op[o].visit
            row == Booked(visit[v], Chosen(o))
<1>1. op[o].kind = "shift" /\ Write(o, row) /\ Untold(v)
    BY DEF ShiftWrite
<1>2. /\ AtOnce /\ v \in Visit /\ visit'[v] = row
      /\ \A x \in Visit \ {v} : visit'[x] = visit[x]
    BY <1>1, WriteEffect
<1>3. Knows(op[o]) /\ op[o].offer # {} /\ visit[v] \in VisitRow
    BY <1>1, <1>2 DEF Orderly, Inv, TypeOK, OpSound
<1>4. PICK s \in op[o].offer : s.window = Chosen(o) /\ s.window \in Window
    BY <1>3, ChosenOffered
<1>5. ~FindTechnicianConflicts(visit[v].technician, Chosen(o), v)
      /\ visit[v].status = "CONFIRMED"
    BY <1>1, <1>3, <1>4 DEF Knows
<1>6. row.status = visit[v].status /\ row.technician = visit[v].technician
      /\ row.scheduled = Chosen(o)
      /\ ~row.reminderSentAt /\ ~row.presenceReminderSentAt
    BY <1>3 DEF Booked, VisitRow
<1>. HIDE DEF row
<1>7. Books(v)
    BY <1>1, <1>2, <1>4, <1>5, <1>6, UntoldEffect DEF Books, Untouched
<1>. QED
    BY <1>2, <1>7 DEF Effect, Books

LEMMA ReturnEffect ==
    ASSUME Inv, Orderly, Serial, NEW o \in Op, ReturnWrite(o)
    PROVE  AtOnce /\ \A v \in Visit : Effect(v)
<1>. DEFINE v == op[o].visit
            row == [Booked(visit[v], Null) EXCEPT
                        !.status = "PROPOSED", !.counterProposed = FALSE,
                        !.slots = NewSlots(visit[v], o)]
<1>1. op[o].kind = "return" /\ Write(o, row) /\ Untold(v)
    BY DEF ReturnWrite
<1>2. /\ AtOnce /\ v \in Visit /\ visit'[v] = row
      /\ \A x \in Visit \ {v} : visit'[x] = visit[x]
    BY <1>1, WriteEffect
<1>3. Knows(op[o]) /\ visit[v] \in VisitRow
    BY <1>1, <1>2 DEF Orderly, Inv, TypeOK
<1>4. NewSlots(visit[v], o) = op[o].offer
    BY <1>1, <1>3 DEF Knows, NewSlots
<1>5. /\ row.status = "PROPOSED" /\ row.counterProposed = FALSE
      /\ row.slots = op[o].offer /\ row.scheduled = Null
      /\ row.reminderSentAt = FALSE /\ row.presenceReminderSentAt = FALSE
    BY <1>3, <1>4 DEF Booked, VisitRow
<1>6. visit[v].status = "CONFIRMED" /\ OfferedBy("staff", op[o].offer)
    BY <1>1, <1>3 DEF Knows
<1>. HIDE DEF row
<1>7. Returns(v)
    BY <1>1, <1>2, <1>5, <1>6, UntoldEffect DEF Returns, OneSided
<1>. QED
    BY <1>1, <1>2, <1>7, UntoldEffect DEF Effect, Untouched

LEMMA CounterEffect ==
    ASSUME Inv, Orderly, Serial, NEW o \in Op, CounterWrite(o)
    PROVE  AtOnce /\ \A v \in Visit : Effect(v)
<1>. DEFINE v == op[o].visit
            row == Countered(visit[v], o)
<1>1. op[o].kind = "recount" /\ Write(o, row) /\ told' = told
    BY DEF CounterWrite
<1>2. /\ AtOnce /\ v \in Visit /\ visit'[v] = row
      /\ \A x \in Visit \ {v} : visit'[x] = visit[x]
    BY <1>1, WriteEffect
<1>3. Knows(op[o]) /\ visit[v] \in VisitRow
    BY <1>1, <1>2 DEF Orderly, Inv, TypeOK
<1>4. NewSlots(visit[v], o) = op[o].offer
    BY <1>1, <1>3 DEF Knows, NewSlots
<1>5. /\ row.status = visit[v].status /\ row.counterProposed = TRUE
      /\ row.slots = op[o].offer /\ row.scheduled = visit[v].scheduled
      /\ row.reminderSentAt = visit[v].reminderSentAt
      /\ row.presenceReminderSentAt = visit[v].presenceReminderSentAt
    BY <1>3, <1>4 DEF Countered, VisitRow
<1>6. visit[v].status = "PROPOSED" /\ OfferedBy("author", op[o].offer)
    BY <1>1, <1>3 DEF Knows
<1>. HIDE DEF row
<1>7. Settles(v)
    BY <1>1, <1>2, <1>5, <1>6 DEF Settles, OneSided
<1>. QED
    BY <1>1, <1>2, <1>7 DEF Effect, Untouched

LEMMA SetStatusEffect ==
    ASSUME Inv, Orderly, Serial, NEW o \in Op, SetStatusWrite(o)
    PROVE  AtOnce /\ \A v \in Visit : Effect(v)
<1>. DEFINE v == op[o].visit
            row == [visit[v] EXCEPT !.status = op[o].kind]
<1>1. op[o].kind \in {"DONE", "CANCELLED"} /\ Write(o, row) /\ told' = told
    BY DEF SetStatusWrite
<1>2. /\ AtOnce /\ v \in Visit /\ visit'[v] = row
      /\ visit[v].status \in {"PROPOSED", "CONFIRMED"}
      /\ \A x \in Visit \ {v} : visit'[x] = visit[x]
    BY <1>1, WriteEffect
<1>3. visit[v] \in VisitRow
    BY <1>2 DEF Inv, TypeOK
<1>4. /\ row.status = op[o].kind /\ row.scheduled = visit[v].scheduled
      /\ row.reminderSentAt = visit[v].reminderSentAt
      /\ row.presenceReminderSentAt = visit[v].presenceReminderSentAt
    BY <1>3 DEF VisitRow
<1>. HIDE DEF row
<1>5. Settles(v)
    BY <1>1, <1>2, <1>4 DEF Settles, OneSided
<1>. QED
    BY <1>1, <1>2, <1>5 DEF Effect, Untouched

LEMMA ElsewhereEffect ==
    ASSUME Inv, Serial, Serial', Elsewhere
    PROVE  AtOnce /\ \A v \in Visit : Effect(v)
<1>1. Meanwhile => AtOnce /\ told' = told
    BY DEF Meanwhile, Noticed, Serial, Running, AtOnce
<1>2. ASSUME UNCHANGED visit, Meanwhile PROVE AtOnce /\ \A v \in Visit : Effect(v)
    BY <1>1, <1>2 DEF Effect, Untouched
<1>3. ASSUME NEW t \in Ticket, DeleteTicket(t)
      PROVE  AtOnce /\ \A v \in Visit : Effect(v)
  <2>1. \A v \in Visit : GoesAway(v) \/ Untouched(v)
    BY <1>1, <1>3 DEF DeleteTicket, GoesAway, Untouched, NoVisit
  <2>. QED
    BY <1>1, <1>3, <2>1 DEF DeleteTicket, Effect
<1>4. ASSUME NEW u \in User, RemoveUser(u)
      PROVE  AtOnce /\ \A v \in Visit : Effect(v)
  <2>1. \A v \in Visit : HandsOver(v)
    BY <1>1, <1>4 DEF RemoveUser, VisitHandedOver, HandsOver
  <2>. QED
    BY <1>1, <1>4, <2>1 DEF RemoveUser, Effect
<1>. QED
    BY <1>2, <1>3, <1>4
    DEF Elsewhere, CreateTask, MoveTask, SetTaskDone, RemoveTask, TaskStep, AssignTicket

-----------------------------------------------------------------------------
(* Orderly is inductive *)

LEMMA EffectOrderly ==
    ASSUME Inv, Orderly, Serial, AtOnce, \A v \in Visit : Effect(v)
    PROVE  Orderly'
<1>1. Alone' /\ \A o \in Op : Knows(op[o])'
    BY DEF AtOnce, Alone, Running, CronRunning, Knows, Idle
<1>2. ASSUME NEW v \in Visit PROVE OneSided(visit[v])'
  <2>1. OneSided(visit[v]) /\ visit[v] \in VisitRow
    BY DEF Orderly, Inv, TypeOK
  <2>2. HandsOver(v) => OneSided(visit'[v])
    BY <2>1 DEF HandsOver, OneSided, VisitRow
  <2>3. Effect(v)
    OBVIOUS
  <2>. QED
    BY <2>1, <2>2, <2>3
    DEF Effect, Untouched, Proposes, Books, Returns, Settles, GoesAway, OneSided
<1>. QED
    BY <1>1, <1>2 DEF Orderly

LEMMA CronOrderly ==
    ASSUME Inv, Orderly, Serial, Serial', CronStep \/ Tick \/ Crash
    PROVE  Orderly'
<1>1. \A o \in Op : op'[o] = Idle
  <2>1. CASE CheckVisitReminders
    BY <2>1 DEF CheckVisitReminders, Noticed, Serial, Running
  <2>2. CASE CheckPresenceReminders \/ (\E v \in Visit : MarkReminded(v)) \/ NotifyReminded
    <3>1. CronRunning
        BY <2>2 DEF CheckPresenceReminders, MarkReminded, NotifyReminded, CronRunning,
                    CronIdle, CronOver
    <3>. QED
        BY <2>2, <3>1
        DEF CheckPresenceReminders, MarkReminded, NotifyReminded, Orderly, Alone, Running
  <2>. QED
    BY <2>1, <2>2 DEF CronStep, Tick, Crash, Running
<1>2. Alone' /\ \A o \in Op : Knows(op[o])'
    BY <1>1 DEF Alone, Running, Knows, Idle
<1>3. ASSUME NEW v \in Visit PROVE OneSided(visit[v])'
  <2>1. OneSided(visit[v]) /\ visit[v] \in VisitRow
    BY DEF Orderly, Inv, TypeOK
  <2>2. CASE UNCHANGED visit
    BY <2>1, <2>2
  <2>3. ASSUME NEW x \in Visit, MarkReminded(x)
        PROVE  /\ visit'[v].status = visit[v].status /\ visit'[v].slots = visit[v].slots
               /\ visit'[v].counterProposed = visit[v].counterProposed
    BY <2>1, <2>3 DEF MarkReminded, Inv, TypeOK, VisitRow
  <2>. QED
    BY <2>1, <2>2, <2>3
    DEF CronStep, CheckVisitReminders, CheckPresenceReminders, NotifyReminded, Tick,
        Crash, rows, OneSided
<1>. QED
    BY <1>2, <1>3 DEF Orderly

\* Every step of an operation either writes no visit or has an Effect on each.
LEMMA OpOrderly ==
    ASSUME Inv, Orderly, Serial, Serial', NEW o \in Op, OpStep(o)
    PROVE  /\ Orderly'
           /\ \/ UNCHANGED <<visit, clock, cron, told>>
              \/ AtOnce /\ \A v \in Visit : Effect(v)
<1>1. ASSUME \/ ProposeWrite(o) \/ ConfirmWrite(o) \/ CounterWrite(o)
             \/ ShiftWrite(o) \/ ReturnWrite(o) \/ SetStatusWrite(o)
      PROVE  Orderly' /\ AtOnce /\ \A v \in Visit : Effect(v)
    BY <1>1, ProposeEffect, ConfirmEffect, CounterEffect, ShiftEffect, ReturnEffect,
       SetStatusEffect, EffectOrderly
<1>2. ASSUME \/ CheckConflicts(o, "confirm", "book")
             \/ CheckConflicts(o, "nudge", "shift")
             \/ CheckConflicts(o, "postpone", "recall")
             \/ DeleteSlots(o, "counter", "recount")
             \/ DeleteSlots(o, "recall", "return")
      PROVE  Orderly' /\ UNCHANGED <<visit, clock, cron, told>>
    BY <1>2, CheckOrderly, DeleteOrderly DEF CheckConflicts, DeleteSlots, Continue
<1>3. ASSUME NEW q, Begin(o, q) PROVE UNCHANGED <<visit, clock, cron, told>>
    BY <1>3 DEF Begin, rows
<1>4. ASSUME NEW u \in User, NEW t \in Ticket, NEW ws \in SUBSET Window,
             ProposeRead(o, u, t, ws)
      PROVE  Orderly' /\ UNCHANGED <<visit, clock, cron, told>>
    BY <1>3, <1>4, ProposeReadOrderly DEF ProposeRead
<1>5. ASSUME NEW u \in User, NEW v \in Visit, NEW s \in visit[v].slots,
             ConfirmRead(o, u, v, s)
      PROVE  Orderly' /\ UNCHANGED <<visit, clock, cron, told>>
    BY <1>3, <1>5, ConfirmReadOrderly DEF ConfirmRead
<1>6. ASSUME NEW u \in User, NEW v \in Visit, NEW ws \in SUBSET Window,
             CounterRead(o, u, v, ws)
      PROVE  Orderly' /\ UNCHANGED <<visit, clock, cron, told>>
    BY <1>3, <1>6, CounterReadOrderly DEF CounterRead
<1>7. ASSUME NEW u \in User, NEW v \in Visit, NEW w \in Window,
             RescheduleRead(o, u, v, w)
      PROVE  Orderly' /\ UNCHANGED <<visit, clock, cron, told>>
    BY <1>3, <1>7, RescheduleReadOrderly DEF RescheduleRead
<1>8. ASSUME NEW u \in User, NEW v \in Visit, NEW status \in {"DONE", "CANCELLED"},
             SetStatusRead(o, u, v, status)
      PROVE  Orderly' /\ UNCHANGED <<visit, clock, cron, told>>
    BY <1>3, <1>8, SetStatusReadOrderly DEF SetStatusRead
<1>. QED
    BY <1>1, <1>2, <1>4, <1>5, <1>6, <1>7, <1>8 DEF OpStep

LEMMA StepOrderly ==
    ASSUME Inv, Orderly, Serial, Serial', (\E o \in Op : OpStep(o)) \/ Elsewhere
    PROVE  /\ Orderly'
           /\ \/ UNCHANGED <<visit, clock, cron, told>>
              \/ AtOnce /\ \A v \in Visit : Effect(v)
BY OpOrderly, ElsewhereEffect, EffectOrderly

LEMMA OrderlyInductive == Inv /\ Orderly /\ [Next]_vars => Orderly'
<1>. SUFFICES ASSUME Inv, Orderly, [Next]_vars, Serial' PROVE Orderly'
    BY DEF Orderly
<1>1. Serial
    BY SerialStays
<1>2. CASE UNCHANGED vars
    BY <1>2
    DEF vars, Orderly, Serial, Alone, Running, CronRunning, Knows, OneSided, Planned,
        FindTechnicianConflicts, BusyVisit, BusyTask
<1>. QED
    BY <1>1, <1>2, StepOrderly, CronOrderly DEF Next

LEMMA OrderlyHolds == Spec => []Orderly
BY InitOrderly, OrderlyInductive, Sound, PTL DEF Spec

-----------------------------------------------------------------------------
(* What follows for the times that are booked *)

\* The cron, the clock and a crash leave status, technician and time alone.
LEMMA CronKeepsTimes ==
    ASSUME Inv, NEW v \in Visit, CronStep \/ Tick \/ Crash
    PROVE  /\ visit'[v].status = visit[v].status
           /\ visit'[v].technician = visit[v].technician
           /\ visit'[v].scheduled = visit[v].scheduled
<1>1. ASSUME NEW x \in Visit, MarkReminded(x)
      PROVE  /\ visit'[v].status = visit[v].status
             /\ visit'[v].technician = visit[v].technician
             /\ visit'[v].scheduled = visit[v].scheduled
    BY <1>1 DEF MarkReminded, Inv, TypeOK, VisitRow
<1>. QED
    BY <1>1
    DEF CronStep, CheckVisitReminders, CheckPresenceReminders, NotifyReminded, Tick,
        Crash, rows

\* What an Effect does to a confirmed visit's technician and time.
LEMMA EffectKeepsTimes ==
    ASSUME Inv, NEW v \in Visit, Effect(v), ~Books(v), visit'[v].status = "CONFIRMED"
    PROVE  /\ visit[v].status = "CONFIRMED" /\ visit'[v].scheduled = visit[v].scheduled
           /\ visit'[v].technician \in {visit[v].technician, Sentinel}
<1>. visit[v] \in VisitRow
    BY DEF Inv, TypeOK
<1>. QED
    BY DEF Effect, Untouched, Proposes, Returns, Settles, GoesAway, HandsOver, VisitRow

LEMMA NoDoubleBookingInductive ==
    Inv /\ Orderly /\ NoDoubleBooking /\ [Next]_vars => NoDoubleBooking'
<1>. SUFFICES ASSUME Inv, Orderly, NoDoubleBooking, [Next]_vars, Serial',
                     NEW v \in Visit, NEW w \in Visit, v # w,
                     visit'[v].status = "CONFIRMED", visit'[w].status = "CONFIRMED",
                     visit'[v].technician = visit'[w].technician,
                     visit'[v].technician # Sentinel
              PROVE  ~Overlap(visit'[v].scheduled, visit'[w].scheduled)
    BY DEF NoDoubleBooking
<1>1. Serial
    BY SerialStays
<1>2. ASSUME visit[v].status = "CONFIRMED", visit[w].status = "CONFIRMED",
             visit[v].technician = visit'[v].technician,
             visit[w].technician = visit'[w].technician
      PROVE  ~Overlap(visit[v].scheduled, visit[w].scheduled)
    BY <1>1, <1>2 DEF NoDoubleBooking
<1>3. CASE UNCHANGED visit
    BY <1>2, <1>3
<1>4. CASE CronStep \/ Tick \/ Crash
    BY <1>2, <1>4, CronKeepsTimes
<1>5. ASSUME \A x \in Visit : Effect(x)
      PROVE  ~Overlap(visit'[v].scheduled, visit'[w].scheduled)
  <2>1. CASE ~Books(v) /\ ~Books(w)
    BY <1>2, <1>5, <2>1, EffectKeepsTimes
  <2>2. CASE Books(v)
    <3>1. /\ visit'[w] = visit[w] /\ visit[w].technician = visit[v].technician
          /\ ~BusyVisit(visit[v].technician, visit'[v].scheduled, v)
        BY <2>2 DEF Books, Untouched, FindTechnicianConflicts
    <3>. QED
        BY <3>1 DEF BusyVisit, Overlap
  <2>3. CASE Books(w)
    <3>1. /\ visit'[v] = visit[v] /\ visit[v].technician = visit[w].technician
          /\ ~BusyVisit(visit[w].technician, visit'[w].scheduled, w)
        BY <2>3 DEF Books, Untouched, FindTechnicianConflicts
    <3>. QED
        BY <3>1 DEF BusyVisit, Overlap
  <2>. QED
    BY <2>1, <2>2, <2>3
<1>. QED
    BY <1>1, <1>3, <1>4, <1>5, StepOrderly DEF Next, vars

LEMMA NoVisitTwice == Init => NoDoubleBooking
BY DEF Init, NoDoubleBooking, NoVisit

\* As long as nothing overlaps, and across crashes of the cron, no technician
\* (the account of removed ones aside) is booked for two visits at once:
\* findTechnicianConflicts before confirm and reschedule is enough.
THEOREM NobodyBookedTwice == Spec => []NoDoubleBooking
BY NoVisitTwice, NoDoubleBookingInductive, Sound, OrderlyHolds, PTL DEF Spec

\* As long as nothing overlaps, a time becomes confirmed only by the side that
\* did not offer it: the staff confirm the author's windows, and the author theirs.
THEOREM ConfirmedByTheOtherSide == Spec => OtherSideConfirms
<1>1. Inv /\ Orderly /\ [Next]_vars =>
          [Serial' => \A v \in Visit :
              visit[v].status = "PROPOSED" /\ visit'[v].status = "CONFIRMED" =>
                  \E o \in Op :
                      /\ op[o].kind = "book" /\ op[o].visit = v
                      /\ \A s \in op[o].offer : s.by # op[o].by]_vars
  <2>. SUFFICES ASSUME Inv, Orderly, [Next]_vars, Serial', NEW v \in Visit,
                       visit[v].status = "PROPOSED", visit'[v].status = "CONFIRMED"
                PROVE  \E o \in Op :
                           /\ op[o].kind = "book" /\ op[o].visit = v
                           /\ \A s \in op[o].offer : s.by # op[o].by
    OBVIOUS
  <2>1. Serial /\ visit'[v] # visit[v]
    BY SerialStays
  <2>2. (\E o \in Op : OpStep(o)) \/ Elsewhere
    BY <2>1, CronKeepsTimes DEF Next, vars
  <2>3. Effect(v)
    BY <2>1, <2>2, StepOrderly
  <2>4. Books(v)
    BY <2>3, EffectKeepsTimes
  <2>. QED
    BY <2>4 DEF Books
<1>. QED
    BY <1>1, Sound, OrderlyHolds, PTL DEF Spec, OtherSideConfirms

\* As long as nothing overlaps, a visit gets a time only where its technician
\* has no task left to do.
THEOREM NeverOverATask == Spec => BookedAroundTasks
<1>1. Inv /\ Orderly /\ [Next]_vars =>
          [Serial' => \A v \in Visit :
              \/ visit'[v].scheduled \in {visit[v].scheduled, Null}
              \/ ~BusyTask(visit[v].technician, visit'[v].scheduled)]_vars
  <2>. SUFFICES ASSUME Inv, Orderly, [Next]_vars, Serial', NEW v \in Visit,
                       visit'[v].scheduled \notin {visit[v].scheduled, Null}
                PROVE  ~BusyTask(visit[v].technician, visit'[v].scheduled)
    OBVIOUS
  <2>1. Serial
    BY SerialStays
  <2>2. (\E o \in Op : OpStep(o)) \/ Elsewhere
    BY CronKeepsTimes DEF Next, vars
  <2>3. Effect(v) /\ visit[v] \in VisitRow
    BY <2>1, <2>2, StepOrderly DEF Inv, TypeOK
  <2>4. Books(v)
    BY <2>3
    DEF Effect, Untouched, Proposes, Returns, Settles, GoesAway, HandsOver, VisitRow
  <2>. QED
    BY <2>4 DEF Books, FindTechnicianConflicts
<1>. QED
    BY <1>1, Sound, OrderlyHolds, PTL DEF Spec, BookedAroundTasks

-----------------------------------------------------------------------------
(* Reminders.  RemindedOnce looks at a visit that has begun; the invariant    *)
(* says how it got there.  Tells: a flag is set exactly when its reminder is  *)
(* counted, but for the visit the cron is at and for what a crash has lost.   *)
(* Listed: what the cron has listed is still due and unmarked.  Covered: once *)
(* the cron is past a visit that was booked before this quarter of an hour    *)
(* and is due, its flag is set; a visit that has begun was due in an earlier  *)
(* quarter, because a quarter is shorter than either lead.                    *)

Counted(flag, n, pending) ==
    /\ n <= 1
    /\ ~flag => n = 0
    /\ pending => flag /\ n = 0
    /\ flag /\ ~pending /\ "crash" \notin past => n = 1

Pending(v, kind) == cron.visit = v /\ cron.kind = kind

Tells(v) ==
    /\ told[v].reminder <= 1 /\ told[v].presence <= 1
    /\ visit[v].status = "ABSENT" =>
          ~visit[v].reminderSentAt /\ ~visit[v].presenceReminderSentAt
    /\ visit[v].status # "DELETED" =>
          /\ Counted(visit[v].reminderSentAt, told[v].reminder, Pending(v, "reminder"))
          /\ Counted(visit[v].presenceReminderSentAt, told[v].presence,
                     Pending(v, "presence"))

Listed ==
    /\ cron.kind = "idle" => cron.list = {}
    /\ cron.visit # Null => cron.visit \in cron.list
    /\ \A v \in cron.list :
          /\ visit[v].status = "CONFIRMED" /\ visit[v].scheduled.start > Now
          /\ cron.visit # v =>
                /\ cron.kind = "reminder" => ~visit[v].reminderSentAt
                /\ cron.kind = "presence" => ~visit[v].presenceReminderSentAt

\* The cron's run has dealt with v.
Past(v) == v \in cron.list => cron.visit = v

Covered(v) ==
    visit[v].status = "CONFIRMED" =>
        /\ visit[v].scheduled.start <= Now
           /\ visit[v].scheduled.start > (told[v].since + 1) * Quarter
           => visit[v].reminderSentAt /\ visit[v].presenceReminderSentAt
        /\ told[v].since < clock /\ DueWithin(v, Lead)
           /\ (cron.kind = "presence" \/ (cron.kind = "reminder" /\ Past(v)))
           => visit[v].reminderSentAt
        /\ told[v].since < clock /\ DueWithin(v, PresenceLead)
           /\ cron.kind = "presence" /\ Past(v)
           => visit[v].presenceReminderSentAt

Remembers ==
    Serial => /\ \A v \in Visit : Tells(v)
              /\ Listed
              /\ "crash" \notin past => \A v \in Visit : Covered(v)

LEMMA InitRemembers == Init => Remembers
BY VisitNullAssumption
   DEF Init, Remembers, Tells, Counted, Pending, Listed, Covered, NoVisit, CronIdle

LEMMA Later ==
    ASSUME NEW a \in Nat, NEW b \in Nat, NEW q \in Nat, a * q < b * q PROVE a < b
<1>. SUFFICES ASSUME a >= b PROVE FALSE
    OBVIOUS
<1>1. PICK d \in Nat : a = b + d
    BY a - b \in Nat /\ a = b + (a - b)
<1>2. a * q = b * q + d * q /\ d * q \in Nat /\ b * q \in Nat /\ a * q \in Nat
    BY <1>1
<1>. QED
    BY <1>2

\* Booking begins a new account; no other Effect touches flags or counts.
LEMMA EffectRemembers ==
    ASSUME Inv, Remembers, Serial, past \subseteq past', AtOnce,
           \A v \in Visit : Effect(v)
    PROVE  Remembers'
<1>1. /\ cron.list = {} /\ cron.visit = Null /\ cron' = cron /\ clock' = clock
      /\ \A v \in Visit : \A kind : ~Pending(v, kind) /\ ~Pending(v, kind)'
    BY VisitNullAssumption DEF AtOnce, CronRunning, CronIdle, CronOver, Pending
<1>2. Listed'
    BY <1>1 DEF Listed
<1>3. ASSUME NEW v \in Visit PROVE Tells(v)'
  <2>. visit[v] \in VisitRow /\ Tells(v) /\ Effect(v)
    BY DEF Inv, TypeOK, Remembers
  <2>1. CASE Untouched(v) \/ HandsOver(v)
    <3>1. /\ visit'[v].status = visit[v].status /\ told'[v] = told[v]
          /\ visit'[v].reminderSentAt = visit[v].reminderSentAt
          /\ visit'[v].presenceReminderSentAt = visit[v].presenceReminderSentAt
        BY <2>1 DEF Untouched, HandsOver, VisitRow
    <3>. QED
        BY <1>1, <3>1 DEF Tells, Counted
  <2>2. CASE Proposes(v)
    BY <1>1, <2>2 DEF Proposes, Tells, Counted
  <2>3. CASE Books(v) \/ Returns(v)
    <3>1. /\ visit'[v].status \in {"CONFIRMED", "PROPOSED"}
          /\ ~visit'[v].reminderSentAt /\ ~visit'[v].presenceReminderSentAt
          /\ told'[v].reminder = 0 /\ told'[v].presence = 0
        BY <2>3 DEF Books, Returns
    <3>. QED
        BY <1>1, <3>1 DEF Tells, Counted
  <2>4. CASE Settles(v)
    BY <1>1, <2>4 DEF Settles, Tells, Counted
  <2>5. CASE GoesAway(v)
    BY <1>1, <2>5 DEF GoesAway, Tells
  <2>. QED
    BY <2>1, <2>2, <2>3, <2>4, <2>5 DEF Effect
<1>4. ASSUME "crash" \notin past', NEW v \in Visit PROVE Covered(v)'
  <2>. SUFFICES ASSUME visit'[v].status = "CONFIRMED" PROVE Covered(v)'
    BY DEF Covered
  <2>. visit[v] \in VisitRow /\ Covered(v) /\ Effect(v) /\ told[v] \in ToldState
    BY <1>4 DEF Inv, TypeOK, Remembers
  <2>1. CASE Books(v)
    <3>1. told'[v].since = clock /\ visit'[v].scheduled.start \in Nat /\ clock \in Nat
          /\ Quarter \in Nat
        BY <2>1, WindowAssumption, TimesAssumption DEF Books, Inv, TypeOK
    <3>2. clock * Quarter <= (clock + 1) * Quarter /\ clock * Quarter \in Nat
          /\ (clock + 1) * Quarter \in Nat
        BY <3>1
    <3>. QED
        BY <1>1, <3>1, <3>2 DEF Covered, Now
  <2>2. CASE ~Books(v)
    <3>1. /\ visit[v].status = "CONFIRMED" /\ told'[v] = told[v]
          /\ visit'[v].scheduled = visit[v].scheduled
          /\ visit'[v].reminderSentAt = visit[v].reminderSentAt
          /\ visit'[v].presenceReminderSentAt = visit[v].presenceReminderSentAt
        BY <2>2 DEF Effect, Untouched, Proposes, Returns, Settles, GoesAway, HandsOver,
                    VisitRow
    <3>. QED
        BY <1>1, <3>1 DEF Covered, Now, DueWithin, Past
  <2>. QED
    BY <2>1, <2>2
<1>. QED
    BY <1>2, <1>3, <1>4 DEF Remembers

LEMMA IdleRemembers ==
    ASSUME Remembers, Serial, past \subseteq past', UNCHANGED <<visit, clock, cron, told>>
    PROVE  Remembers'
<1>1. Listed' /\ \A v \in Visit : Tells(v)'
    BY DEF Remembers, Listed, Tells, Counted, Pending, Now
<1>2. ASSUME "crash" \notin past', NEW v \in Visit PROVE Covered(v)'
    BY <1>2 DEF Remembers, Covered, Now, DueWithin, Past
<1>. QED
    BY <1>1, <1>2 DEF Remembers

LEMMA CheckRemembers ==
    ASSUME Inv, Remembers, Serial, CheckVisitReminders \/ CheckPresenceReminders,
           past \subseteq past'
    PROVE  Remembers'
<1>1. UNCHANGED <<visit, clock, told>> /\ cron'.visit = Null /\ cron.visit = Null
      /\ cron.list = {}
      /\ \A v \in Visit : \A kind : ~Pending(v, kind) /\ ~Pending(v, kind)'
  <2>1. UNCHANGED <<visit, clock, told>>
    BY DEF CheckVisitReminders, CheckPresenceReminders, rows
  <2>2. cron.visit = Null /\ cron.list = {}
    <3>1. CASE CheckVisitReminders
        BY <3>1 DEF CheckVisitReminders, CronIdle
    <3>2. CASE CheckPresenceReminders
        BY <3>2 DEF CheckPresenceReminders, CronOver
    <3>. QED
        BY <3>1, <3>2
  <2>3. cron'.visit = Null
    <3>1. CASE CheckVisitReminders
        BY <3>1 DEF CheckVisitReminders
    <3>2. CASE CheckPresenceReminders
        BY <3>2 DEF CheckPresenceReminders
    <3>. QED
        BY <3>1, <3>2
  <2>. QED
    BY <2>1, <2>2, <2>3, VisitNullAssumption DEF Pending
<1>2. \A v \in Visit : Tells(v)'
    BY <1>1 DEF Remembers, Tells, Counted
<1>3. Listed'
  <2>1. CASE CheckVisitReminders
    BY <1>1, <2>1 DEF CheckVisitReminders, Listed, RemindersDue, DueWithin, Now
  <2>2. CASE CheckPresenceReminders
    BY <1>1, <2>2 DEF CheckPresenceReminders, Listed, PresenceDue, DueWithin, Now
  <2>. QED
    BY <2>1, <2>2
<1>4. ASSUME "crash" \notin past', NEW v \in Visit PROVE Covered(v)'
  <2>. Covered(v)
    BY <1>4 DEF Remembers
  <2>1. CASE CheckVisitReminders
    BY <1>1, <2>1, VisitNullAssumption
    DEF CheckVisitReminders, Covered, RemindersDue, DueWithin, Now, Past
  <2>2. CASE CheckPresenceReminders
    BY <1>1, <2>2, VisitNullAssumption
    DEF CheckPresenceReminders, Covered, PresenceDue, DueWithin, Now, Past, CronOver
  <2>. QED
    BY <2>1, <2>2
<1>. QED
    BY <1>2, <1>3, <1>4 DEF Remembers

\* Clock readings are numbers.
LEMMA Readings ==
    ASSUME Inv
    PROVE  /\ Now \in Nat /\ clock \in Nat /\ Quarter \in Nat
           /\ \A v \in Visit :
                 /\ told[v].since \in Nat
                 /\ visit[v].status = "CONFIRMED" => visit[v].scheduled.start \in Nat
<1>1. clock \in Nat /\ Quarter \in Nat
    BY TimesAssumption DEF Inv, TypeOK
<1>2. ASSUME NEW v \in Visit
      PROVE  /\ told[v].since \in Nat
             /\ visit[v].status = "CONFIRMED" => visit[v].scheduled.start \in Nat
    BY WindowAssumption, TimesAssumption DEF Inv, TypeOK, ToldState, VisitRow, RowSound
<1>. QED
    BY <1>1, <1>2 DEF Now

\* Marking: the flag is set, the reminder is pending.
LEMMA MarkRemembers ==
    ASSUME Inv, Remembers, Serial, NEW x \in Visit, MarkReminded(x)
    PROVE  Remembers'
<1>1. /\ x \in cron.list /\ cron.visit = Null /\ x # Null
      /\ visit[x].status = "CONFIRMED" /\ visit[x].scheduled.start > Now
      /\ cron.kind \in {"reminder", "presence"}
      /\ cron.kind = "reminder" => ~visit[x].reminderSentAt
      /\ cron.kind = "presence" => ~visit[x].presenceReminderSentAt
    BY VisitNullAssumption DEF MarkReminded, Remembers, Listed, Inv, TypeOK, CronState
<1>2. /\ cron' = [cron EXCEPT !.visit = x]
      /\ visit' = IF cron.kind = "reminder"
                  THEN [visit EXCEPT ![x].reminderSentAt = TRUE]
                  ELSE [visit EXCEPT ![x].presenceReminderSentAt = TRUE]
      /\ UNCHANGED <<clock, told, past>>
    BY <1>1 DEF MarkReminded
<1>3. cron'.visit = x /\ cron'.list = cron.list /\ cron'.kind = cron.kind
    BY <1>2 DEF Inv, TypeOK, CronState
<1>4. /\ \A v \in Visit :
            /\ visit'[v].status = visit[v].status
            /\ visit'[v].scheduled = visit[v].scheduled
            /\ v # x => visit'[v] = visit[v]
      /\ cron.kind = "reminder" =>
            /\ visit'[x].reminderSentAt
            /\ visit'[x].presenceReminderSentAt = visit[x].presenceReminderSentAt
      /\ cron.kind = "presence" =>
            /\ visit'[x].presenceReminderSentAt
            /\ visit'[x].reminderSentAt = visit[x].reminderSentAt
    BY <1>1, <1>2 DEF Inv, TypeOK, VisitRow
<1>5. Listed'
  <2>1. \A v \in cron.list : v \in Visit /\ cron.visit # v
    BY <1>1, VisitNullAssumption DEF Inv, TypeOK, CronState
  <2>2. Now' = Now
    BY <1>2 DEF Now
  <2>. QED
    BY <1>1, <1>3, <1>4, <2>1, <2>2 DEF Remembers, Listed
<1>6. ASSUME NEW v \in Visit PROVE Tells(v)'
  <2>. Tells(v) /\ told'[v] = told[v]
    BY <1>2 DEF Remembers
  <2>1. CASE v = x
    BY ZenonT(40), <1>1, <1>2, <1>3, <1>4, <2>1 DEF Tells, Counted, Pending
  <2>2. CASE v # x
    BY <1>1, <1>2, <1>3, <1>4, <2>2, VisitNullAssumption DEF Tells, Counted, Pending
  <2>. QED
    BY <2>1, <2>2
<1>7. ASSUME "crash" \notin past', NEW v \in Visit PROVE Covered(v)'
  <2>. Covered(v) /\ told'[v] = told[v]
    BY <1>2, <1>7 DEF Remembers
  <2>1. Now' = Now
    BY <1>2 DEF Now
  <2>2. CASE v = x
    <3>1. ~(visit'[x].scheduled.start <= Now')
        BY <1>1, <1>4, <2>1, Readings
    <3>2. CASE cron.kind = "reminder"
        BY <1>1, <1>3, <1>4, <2>2, <3>1, <3>2 DEF Covered
    <3>3. CASE cron.kind = "presence"
      <4>1. visit'[x].presenceReminderSentAt
        BY <1>4, <3>3
      <4>2. told[x].since < clock /\ DueWithin(x, Lead)' => visit'[x].reminderSentAt
        <5>1. DueWithin(x, Lead)' => DueWithin(x, Lead)
            BY <1>2, <1>4 DEF DueWithin, Now
        <5>2. told[x].since < clock /\ DueWithin(x, Lead) => visit[x].reminderSentAt
            BY <1>1, <2>2, <3>3 DEF Covered
        <5>. QED
            BY <1>4, <3>3, <5>1, <5>2
      <4>. QED
        BY <1>2, <1>3, <2>2, <3>1, <4>1, <4>2 DEF Covered
    <3>. QED
        BY <1>1, <3>2, <3>3
  <2>3. CASE v # x
    BY <1>1, <1>2, <1>3, <1>4, <2>1, <2>3, VisitNullAssumption
    DEF Covered, DueWithin, Past
  <2>. QED
    BY <2>2, <2>3
<1>. QED
    BY <1>5, <1>6, <1>7 DEF Remembers

LEMMA NotifyRemembers ==
    ASSUME Inv, Remembers, Serial, NotifyReminded
    PROVE  Remembers'
<1>. DEFINE x == cron.visit
<1>1. /\ x \in Visit /\ x \in cron.list /\ x # Null
      /\ visit[x].status = "CONFIRMED" /\ cron.kind \in {"reminder", "presence"}
    BY DEF NotifyReminded, Remembers, Listed, Inv, TypeOK, CronState
<1>2. /\ cron'.visit = Null /\ cron'.list = cron.list \ {x} /\ cron'.kind = cron.kind
      /\ UNCHANGED <<visit, clock, past>>
    BY DEF NotifyReminded, Inv, TypeOK, CronState, rows
<1>3. /\ \A v \in Visit : v # x => told'[v] = told[v]
      /\ told'[x].since = told[x].since
      /\ cron.kind = "reminder" => /\ told'[x].reminder = AtMostTwice(told[x].reminder)
                                   /\ told'[x].presence = told[x].presence
      /\ cron.kind = "presence" => /\ told'[x].presence = AtMostTwice(told[x].presence)
                                   /\ told'[x].reminder = told[x].reminder
    BY <1>1 DEF NotifyReminded, Inv, TypeOK, ToldState
<1>. HIDE DEF x
<1>4. Listed'
    BY <1>2 DEF Remembers, Listed, Now, x
<1>5. ASSUME NEW v \in Visit PROVE Tells(v)'
  <2>. Tells(v)
    BY DEF Remembers
  <2>1. CASE v = x
    BY <1>1, <1>2, <1>3, <2>1, VisitNullAssumption
    DEF Tells, Counted, Pending, AtMostTwice, MaxTold, x
  <2>2. CASE v # x
    BY <1>1, <1>2, <1>3, <2>2, VisitNullAssumption DEF Tells, Counted, Pending, x
  <2>. QED
    BY <2>1, <2>2
<1>6. ASSUME "crash" \notin past', NEW v \in Visit PROVE Covered(v)'
  <2>1. Covered(v) /\ told'[v].since = told[v].since
    BY <1>2, <1>3, <1>6 DEF Remembers
  <2>2. Past(v)' <=> Past(v)
    BY <1>1, <1>2, VisitNullAssumption DEF Past, x
  <2>. QED
    BY <1>2, <2>1, <2>2 DEF Covered, Now, DueWithin
<1>. QED
    BY <1>4, <1>5, <1>6 DEF Remembers

\* A quarter passes.  A visit that begins within it was due for both reminders
\* when the cron ran at its start, unless it has only been booked since then.
LEMMA TickRemembers ==
    ASSUME Inv, Remembers, Serial, Tick
    PROVE  Remembers'
<1>1. /\ cron = CronOver /\ cron' = CronIdle /\ clock' = clock + 1
      /\ UNCHANGED <<visit, told, past>>
    BY DEF Tick, rows
<1>2. /\ cron.kind = "presence" /\ cron.list = {} /\ cron.visit = Null
      /\ cron'.kind = "idle" /\ cron'.list = {} /\ cron'.visit = Null
    BY <1>1 DEF CronOver, CronIdle
<1>3. Now' = Now + Quarter
    BY <1>1, Readings DEF Now
<1>4. Listed' /\ \A v \in Visit : Tells(v)'
    BY <1>1, <1>2, VisitNullAssumption DEF Remembers, Listed, Tells, Counted, Pending
<1>5. ASSUME "crash" \notin past', NEW v \in Visit, visit[v].status = "CONFIRMED",
             visit[v].scheduled.start <= Now',
             visit[v].scheduled.start > (told[v].since + 1) * Quarter
      PROVE  visit[v].reminderSentAt /\ visit[v].presenceReminderSentAt
  <2>. DEFINE start == visit[v].scheduled.start
              since == told[v].since
  <2>1. /\ Covered(v) /\ start \in Nat /\ since \in Nat
        /\ Lead \in Nat /\ PresenceLead \in Nat
    BY <1>1, <1>5, Readings, TimesAssumption DEF Remembers
  <2>2. CASE start <= Now
    BY <1>5, <2>1, <2>2 DEF Covered
  <2>3. CASE start > Now
    <3>1. since < clock
      <4>1. (since + 1) * Quarter < (clock + 1) * Quarter
          BY <1>1, <1>5, <2>1, Readings DEF Now
      <4>2. since + 1 < clock + 1
          BY <2>1, <4>1, Readings, Later
      <4>. QED
          BY <2>1, <4>2, Readings
    <3>2. DueWithin(v, Lead) /\ DueWithin(v, PresenceLead)
        BY <1>3, <1>5, <2>1, <2>3, Readings, LeadAssumption DEF DueWithin
    <3>. QED
        BY <1>2, <1>5, <2>1, <3>1, <3>2 DEF Covered, Past
  <2>. QED
    BY <2>1, <2>2, <2>3, Readings
<1>6. ASSUME "crash" \notin past', NEW v \in Visit PROVE Covered(v)'
    BY <1>1, <1>2, <1>5, <1>6 DEF Covered
<1>. QED
    BY <1>4, <1>6 DEF Remembers

LEMMA CrashRemembers ==
    ASSUME Inv, Remembers, Serial, Crash
    PROVE  Remembers'
<1>1. /\ cron' = CronOver /\ "crash" \in past' /\ UNCHANGED <<visit, told>>
    BY DEF Crash, rows
<1>2. cron'.list = {} /\ cron'.visit = Null /\ cron'.kind = "presence"
    BY <1>1 DEF CronOver
<1>3. Listed' /\ \A v \in Visit : Tells(v)'
    BY <1>1, <1>2, VisitNullAssumption DEF Remembers, Listed, Tells, Counted, Pending
<1>. QED
    BY <1>1, <1>3 DEF Remembers

LEMMA RemembersInductive == Inv /\ Orderly /\ Remembers /\ [Next]_vars => Remembers'
<1>. SUFFICES ASSUME Inv, Orderly, Remembers, [Next]_vars, Serial' PROVE Remembers'
    BY DEF Remembers
<1>1. Serial /\ past \subseteq past'
    BY PastGrows, SerialStays
<1>2. CASE (\E o \in Op : OpStep(o)) \/ Elsewhere
    BY <1>1, <1>2, StepOrderly, EffectRemembers, IdleRemembers
<1>3. CASE CronStep
    BY <1>1, <1>3, CheckRemembers, MarkRemembers, NotifyRemembers DEF CronStep
<1>4. CASE UNCHANGED vars
    BY <1>1, <1>4, IdleRemembers DEF vars
<1>. QED
    BY <1>1, <1>2, <1>3, <1>4, TickRemembers, CrashRemembers DEF Next

\* As long as nothing overlaps, nobody is reminded twice of one booked time, and
\* of a time that was booked before the last quarter of an hour and has come,
\* both sides were reminded, unless the cron died.
THEOREM EverybodyRemindedOnce == Spec => []RemindedOnce
<1>1. Inv /\ Remembers => RemindedOnce
  <2>. SUFFICES ASSUME Inv, Remembers, Serial, NEW v \in Visit
                PROVE  /\ told[v].reminder <= 1 /\ told[v].presence <= 1
                       /\ /\ visit[v].status = "CONFIRMED"
                          /\ visit[v].scheduled.start <= Now
                          /\ visit[v].scheduled.start > (told[v].since + 1) * Quarter
                          /\ "crash" \notin past
                          => told[v].reminder = 1 /\ told[v].presence = 1
    BY DEF RemindedOnce
  <2>1. Tells(v)
    BY DEF Remembers
  <2>2. ASSUME visit[v].status = "CONFIRMED", visit[v].scheduled.start <= Now,
               visit[v].scheduled.start > (told[v].since + 1) * Quarter,
               "crash" \notin past
        PROVE  told[v].reminder = 1 /\ told[v].presence = 1
    <3>1. visit[v].reminderSentAt /\ visit[v].presenceReminderSentAt
        BY <2>2 DEF Remembers, Covered
    <3>2. v \notin cron.list
        BY <2>2, Readings DEF Remembers, Listed
    <3>3. cron.visit # v
        BY <3>2, VisitNullAssumption DEF Remembers, Listed
    <3>. QED
        BY <2>1, <2>2, <3>1, <3>3 DEF Tells, Counted, Pending
  <2>. QED
    BY <2>1, <2>2 DEF Tells
<1>. QED
    BY <1>1, InitRemembers, RemembersInductive, Sound, OrderlyHolds, PTL DEF Spec
=============================================================================
