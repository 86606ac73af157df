---------------------------- MODULE VisitsProofs ----------------------------
(***************************************************************************)
(* Proofs about WorkingHours and Visits, for every calendar, every set of  *)
(* windows, users, tickets, visits and operations, and every bound.        *)
(***************************************************************************)
EXTENDS Visits, FiniteSetTheorems, TLAPS

-----------------------------------------------------------------------------
(* Working hours: an interval whose ends fit fits as a whole.  The remark   *)
(* that both ends are of one day is what carries the proof.                *)

LEMMA DivMod ==
    ASSUME NEW d \in Nat \ {0}, NEW a \in Int
    PROVE  /\ a \div d \in Int /\ a % d \in 0 .. d - 1
           /\ a = d * (a \div d) + (a % d)
OBVIOUS

LEMMA Quotients ==
    ASSUME NEW d \in Nat \ {0}, NEW x \in Int, NEW y \in Int,
           NEW p \in 0 .. d - 1, NEW q \in 0 .. d - 1, d * x + p <= d * y + q
    PROVE  x <= y
<1>. SUFFICES ASSUME x >= y + 1 PROVE FALSE
    OBVIOUS
<1>1. d * x >= d * (y + 1)
    OBVIOUS
<1>. QED
    BY <1>1

\* A moment between two moments of a day is of that day, at a minute between
\* theirs.
LEMMA SameDay ==
    ASSUME NEW s \in Int, NEW e \in Int, NEW t \in s .. e,
           LocalDateKey(s) = LocalDateKey(e)
    PROVE  /\ LocalDateKey(t) = LocalDateKey(s)
           /\ MinuteOf(s) <= MinuteOf(t) /\ MinuteOf(t) <= MinuteOf(e)
<1>1. /\ s = DayLength * LocalDateKey(s) + MinuteOf(s)
      /\ e = DayLength * LocalDateKey(e) + MinuteOf(e)
      /\ t = DayLength * LocalDateKey(t) + MinuteOf(t)
      /\ {LocalDateKey(s), LocalDateKey(e), LocalDateKey(t)} \subseteq Int
      /\ {MinuteOf(s), MinuteOf(e), MinuteOf(t)} \subseteq 0 .. DayLength - 1
    BY DivMod, DayLengthAssumption DEF LocalDateKey, MinuteOf
<1>2. LocalDateKey(s) <= LocalDateKey(t) /\ LocalDateKey(t) <= LocalDateKey(e)
  <2>1. DayLength * LocalDateKey(s) + MinuteOf(s)
            <= DayLength * LocalDateKey(t) + MinuteOf(t)
    BY <1>1
  <2>2. DayLength * LocalDateKey(t) + MinuteOf(t)
            <= DayLength * LocalDateKey(e) + MinuteOf(e)
    BY <1>1
  <2>3. LocalDateKey(s) <= LocalDateKey(t)
    BY <1>1, <2>1, Quotients, DayLengthAssumption
  <2>4. LocalDateKey(t) <= LocalDateKey(e)
    BY <1>1, <2>2, Quotients, DayLengthAssumption
  <2>. QED
    BY <2>3, <2>4
<1>3. LocalDateKey(t) = LocalDateKey(s)
    BY <1>1, <1>2
<1>. QED
    BY <1>1, <1>3, DayLengthAssumption

\* checkSlotWithinWorkingHours judges an interval by its ends, and is right:
\* every minute of an interval it accepts is within working hours.
THEOREM FitsAsAWhole ==
    ASSUME NEW s \in Nat, NEW e \in Nat, FitsWorkingHours(s, e)
    PROVE  \A t \in s .. e : IsWithinWorkingHours(t)
<1>. SUFFICES ASSUME NEW t \in s .. e
             PROVE  IsWithinWorkingHours(t)
    OBVIOUS
<1>1. /\ LocalDateKey(t) = LocalDateKey(s)
      /\ MinuteOf(s) <= MinuteOf(t) /\ MinuteOf(t) <= MinuteOf(e)
    BY SameDay DEF FitsWorkingHours
<1>2. IsWorkingDay(t)
    BY <1>1 DEF FitsWorkingHours, IsWorkingDay, IsoWeekday
<1>3. MinuteOf(s) \in Int /\ MinuteOf(t) \in Int /\ MinuteOf(e) \in Int
    BY DivMod, DayLengthAssumption DEF MinuteOf
<1>4. MinuteOf(t) \in Hours.workdayStart .. Hours.workdayEnd
    BY <1>1, <1>3, HoursAssumption DEF FitsWorkingHours
<1>. QED
    BY <1>2, <1>4 DEF IsWithinWorkingHours

-----------------------------------------------------------------------------
(* Visits.  Neither TimesMatchStatus nor VisitsInWorkingHours is inductive: *)
(* rows are written back from what an operation has carried across its     *)
(* awaits.  OpSound says what it carries: windows that fit working hours,  *)
(* at least one of them unless it only sets a status, and the id of a      *)
(* visit (of a ticket, for propose).                                       *)

Fits(w) == FitsWorkingHours(w.start, w.end)

RowSound(row) ==
    /\ \A s \in row.slots : Fits(s.window)
    /\ row.scheduled # Null => Fits(row.scheduled)
    /\ row.status = "CONFIRMED" => row.scheduled # Null
    /\ row.status = "PROPOSED" => row.slots # {}

OpSound(q) ==
    /\ \A s \in q.offer : Fits(s.window)
    /\ q.kind \notin {"none", "DONE", "CANCELLED"} => q.offer # {}
    /\ q.kind = "propose" => q.visit \in Ticket
    /\ q.kind \notin {"none", "propose"} => q.visit \in Visit

Inv ==
    /\ TypeOK
    /\ \A v \in Visit : RowSound(visit[v])
    /\ \A o \in Op : OpSound(op[o])

LEMMA IdleSound == Idle \in OpState /\ OpSound(Idle)
BY DEF Idle, OpState, OpSound

LEMMA NoVisitSound ==
    /\ NoVisit \in VisitRow /\ RowSound(NoVisit)
    /\ [NoVisit EXCEPT !.status = "DELETED"] \in VisitRow
    /\ RowSound([NoVisit EXCEPT !.status = "DELETED"])
BY DEF NoVisit, VisitRow, RowSound, VisitStatus

LEMMA NoTaskType == NoTask \in TaskRow
BY DEF NoTask, TaskRow

LEMMA InitSound == Init => Inv
<1>. SUFFICES ASSUME Init PROVE Inv
    OBVIOUS
<1>1. ticket \in [Ticket -> TicketRow]
  <2>1. \A u \in Author :
            [createdBy |-> u, assignedTo |-> Null, collaborators |-> {},
             there |-> TRUE] \in TicketRow
    BY AuthorAssumption DEF TicketRow
  <2>. QED
    BY <2>1 DEF Init
<1>2. visit \in [Visit -> VisitRow] /\ \A v \in Visit : RowSound(visit[v])
    BY NoVisitSound DEF Init
<1>3. op \in [Op -> OpState] /\ \A o \in Op : OpSound(op[o])
    BY IdleSound DEF Init
<1>4. task \in [Task -> TaskRow]
    BY NoTaskType DEF Init
<1>5. /\ gone \subseteq User /\ past \subseteq {"overlap", "crash"}
      /\ clock \in 0 .. Horizon
      /\ spent \in [ops : 0 .. MaxSteps, elsewhere : 0 .. MaxElsewhere]
    BY TimesAssumption DEF Init
<1>6. cron \in CronState
    BY DEF Init, CronIdle, CronState
<1>7. told \in [Visit -> ToldState]
    BY TimesAssumption DEF Init, ToldState, MaxTold
<1>8. NoReferenceTo(gone)
    BY DEF Init, NoReferenceTo
<1>. QED
    BY <1>1, <1>2, <1>3, <1>4, <1>5, <1>6, <1>7, <1>8 DEF Inv, TypeOK

-----------------------------------------------------------------------------
(* One operation moves on *)

LEMMA OpUpdate ==
    ASSUME Inv, NEW o \in Op, NEW q \in OpState, OpSound(q),
           op' = [op EXCEPT ![o] = q]
    PROVE  op' \in [Op -> OpState] /\ \A p \in Op : OpSound(op'[p])
BY DEF Inv, TypeOK

LEMMA BeginSound ==
    ASSUME Inv, NEW o \in Op, NEW q \in OpState, OpSound(q), Begin(o, q)
    PROVE  Inv'
<1>1. op' \in [Op -> OpState] /\ \A p \in Op : OpSound(op'[p])
    BY OpUpdate DEF Begin
<1>2. past' \subseteq {"overlap", "crash"}
    BY DEF Begin, Noticed, Inv, TypeOK
<1>3. spent' \in [ops : 0 .. MaxSteps, elsewhere : 0 .. MaxElsewhere]
  <2>1. spent.ops + 1 <= MaxSteps
      BY TimesAssumption DEF Begin, MoreSteps, Inv, TypeOK
  <2>. QED
      BY <2>1, TimesAssumption DEF Begin, Inv, TypeOK
<1>4. UNCHANGED <<rows, clock, cron, told>>
    BY DEF Begin
<1>. QED
    BY <1>1, <1>2, <1>3, <1>4 DEF Inv, TypeOK, rows, NoReferenceTo

LEMMA ContinueSound ==
    ASSUME Inv, NEW o \in Op, NEW q \in OpState, OpSound(q),
           Continue(o, q), UNCHANGED <<visit, told>>
    PROVE  Inv'
<1>1. op' \in [Op -> OpState] /\ \A p \in Op : OpSound(op'[p])
    BY OpUpdate DEF Continue
<1>. QED
    BY <1>1 DEF Continue, Inv, TypeOK, NoReferenceTo

\* A row that is written keeps its technician and is sound again.
LEMMA WriteSound ==
    ASSUME Inv, NEW o \in Op, op[o].visit \in Visit,
           NEW row \in VisitRow, RowSound(row),
           row.technician = visit[op[o].visit].technician,
           Write(o, row), told' \in [Visit -> ToldState]
    PROVE  Inv'
<1>1. op' \in [Op -> OpState] /\ \A p \in Op : OpSound(op'[p])
    BY OpUpdate, IdleSound DEF Write, Continue
<1>2. /\ visit' \in [Visit -> VisitRow] /\ \A v \in Visit : RowSound(visit'[v])
      /\ \A v \in Visit : visit'[v].technician = visit[v].technician
    BY DEF Write, Inv, TypeOK
<1>3. UNCHANGED <<ticket, task, gone, clock, cron, spent, past>>
    BY DEF Write, Continue
<1>. QED
    BY <1>1, <1>2, <1>3 DEF Inv, TypeOK, NoReferenceTo

LEMMA UntoldType ==
    ASSUME Inv, NEW v, Untold(v)
    PROVE  told' \in [Visit -> ToldState]
<1>1. [reminder |-> 0, presence |-> 0, since |-> clock] \in ToldState
    BY DEF Inv, TypeOK, ToldState, MaxTold
<1>. QED
    BY <1>1 DEF Inv, TypeOK, Untold

LEMMA ChosenFits ==
    ASSUME Inv, NEW o \in Op, op[o].offer # {}
    PROVE  Chosen(o) \in Window /\ Fits(Chosen(o)) /\ Chosen(o) # Null
<1>1. \E w \in Window : \E s \in op[o].offer : s.window = w
    BY DEF Inv, TypeOK, OpState, Slot
<1>2. Chosen(o) \in Window /\ \E s \in op[o].offer : s.window = Chosen(o)
    BY <1>1 DEF Chosen
<1>. QED
    BY <1>2, WindowAssumption DEF Inv, OpSound

LEMMA OfferFits ==
    ASSUME NEW side \in {"staff", "author"}, NEW ws \in SUBSET Window,
           ws # {}, \A w \in ws : Fits(w)
    PROVE  /\ OfferBy(side, ws) \in SUBSET Slot /\ OfferBy(side, ws) # {}
           /\ \A s \in OfferBy(side, ws) : Fits(s.window)
<1>1. PICK w \in ws : TRUE
    OBVIOUS
<1>2. [window |-> w, by |-> side] \in OfferBy(side, ws)
    BY DEF OfferBy
<1>3. OfferBy(side, ws) \in SUBSET Slot
    BY DEF OfferBy, Slot
<1>4. ASSUME NEW s \in OfferBy(side, ws) PROVE Fits(s.window)
    BY <1>4 DEF OfferBy
<1>. QED
    BY <1>2, <1>3, <1>4

LEMMA OfferSound ==
    ASSUME NEW side \in {"staff", "author"}, NEW ws \in SUBSET Window, MayOffer(ws)
    PROVE  /\ OfferBy(side, ws) \in SUBSET Slot /\ OfferBy(side, ws) # {}
           /\ \A s \in OfferBy(side, ws) : Fits(s.window)
<1>1. ws # {}
    BY FS_EmptySet DEF MayOffer
<1>2. \A w \in ws : Fits(w)
    BY DEF MayOffer, WindowAllowed, Fits
<1>. QED
    BY <1>1, <1>2, OfferFits

-----------------------------------------------------------------------------
(* The operations *)

LEMMA BeginsSound ==
    ASSUME Inv, NEW o \in Op,
           \/ \E u \in User, t \in Ticket, ws \in SUBSET Window : ProposeRead(o, u, t, ws)
           \/ \E u \in User, v \in Visit :
                 \/ \E s \in visit[v].slots : ConfirmRead(o, u, v, s)
                 \/ \E ws \in SUBSET Window : CounterRead(o, u, v, ws)
                 \/ \E w \in Window : RescheduleRead(o, u, v, w)
                 \/ \E status \in {"DONE", "CANCELLED"} : SetStatusRead(o, u, v, status)
    PROVE  Inv'
<1>1. ASSUME NEW u \in User, NEW t \in Ticket, NEW ws \in SUBSET Window,
             ProposeRead(o, u, t, ws)
      PROVE  Inv'
  <2>. DEFINE q == [Idle EXCEPT !.kind = "propose", !.user = u, !.visit = t,
                        !.technician = IF ticket[t].assignedTo # Null
                                       THEN ticket[t].assignedTo ELSE u,
                        !.offer = OfferBy("staff", ws)]
  <2>1. OfferBy("staff", ws) \in SUBSET Slot /\ OfferBy("staff", ws) # {}
        /\ \A s \in OfferBy("staff", ws) : Fits(s.window)
    BY <1>1, OfferSound DEF ProposeRead
  <2>2. ticket[t].assignedTo \in User \cup {Null}
    BY DEF Inv, TypeOK, TicketRow
  <2>3. q \in OpState /\ OpSound(q)
    BY <2>1, <2>2 DEF Idle, OpState, OpSound
  <2>. QED
    BY <1>1, <2>3, BeginSound DEF ProposeRead
<1>2. ASSUME NEW u \in User, NEW v \in Visit, NEW s \in visit[v].slots,
             ConfirmRead(o, u, v, s)
      PROVE  Inv'
  <2>. DEFINE q == [Idle EXCEPT !.kind = "confirm", !.visit = v,
                        !.technician = visit[v].technician, !.offer = {s},
                        !.by = IF visit[v].counterProposed THEN "staff" ELSE "author"]
  <2>1. visit[v] \in VisitRow /\ s \in Slot /\ Fits(s.window)
    BY DEF Inv, TypeOK, VisitRow, RowSound
  <2>2. q \in OpState /\ OpSound(q)
    BY <2>1 DEF Idle, OpState, OpSound, VisitRow
  <2>. QED
    BY <1>2, <2>2, BeginSound DEF ConfirmRead
<1>3. ASSUME NEW u \in User, NEW v \in Visit, NEW ws \in SUBSET Window,
             CounterRead(o, u, v, ws)
      PROVE  Inv'
  <2>. DEFINE q == [Idle EXCEPT !.kind = "counter", !.visit = v,
                        !.by = "author", !.offer = OfferBy("author", ws)]
  <2>1. OfferBy("author", ws) \in SUBSET Slot /\ OfferBy("author", ws) # {}
        /\ \A s \in OfferBy("author", ws) : Fits(s.window)
    BY <1>3, OfferSound DEF CounterRead
  <2>2. q \in OpState /\ OpSound(q)
    BY <2>1 DEF Idle, OpState, OpSound
  <2>. QED
    BY <1>3, <2>2, BeginSound DEF CounterRead
<1>4. ASSUME NEW u \in User, NEW v \in Visit, NEW w \in Window,
             RescheduleRead(o, u, v, w)
      PROVE  Inv'
  <2>. DEFINE kind == IF Distance(w.start, visit[v].scheduled.start) > SmallShift
                      THEN "postpone" ELSE "nudge"
              offer == OfferBy("staff", {w})
  <2>1. Fits(w)
    BY <1>4 DEF RescheduleRead, WindowAllowed, Fits
  <2>2. {w} \in SUBSET Window /\ {w} # {} /\ \A x \in {w} : Fits(x)
    BY <2>1
  <2>3. /\ offer \in SUBSET Slot /\ offer # {}
        /\ \A s \in offer : Fits(s.window)
    BY <2>2, OfferFits
  <2>4. visit[v] \in VisitRow /\ visit[v].technician \in User \cup {Null, Sentinel}
    BY DEF Inv, TypeOK, VisitRow
  <2>5. kind \in {"postpone", "nudge"}
    OBVIOUS
  <2>. DEFINE r == [Idle EXCEPT !.visit = v, !.technician = visit[v].technician,
                        !.offer = offer, !.kind = kind]
  <2>6. r \in OpState /\ OpSound(r)
    <3>. HIDE DEF kind, offer
    <3>. QED
      BY <2>3, <2>4, <2>5 DEF Idle, OpState, OpSound
  <2>7. Begin(o, r)
    BY <1>4 DEF RescheduleRead
  <2>. QED
    BY <2>6, <2>7, BeginSound
<1>5. ASSUME NEW u \in User, NEW v \in Visit, NEW status \in {"DONE", "CANCELLED"},
             SetStatusRead(o, u, v, status)
      PROVE  Inv'
  <2>. DEFINE q == [Idle EXCEPT !.kind = status, !.visit = v]
  <2>1. q \in OpState /\ OpSound(q)
    BY DEF Idle, OpState, OpSound
  <2>. QED
    BY <1>5, <2>1, BeginSound DEF SetStatusRead
<1>. QED
    BY <1>1, <1>2, <1>3, <1>4, <1>5

LEMMA ContinuesSound ==
    ASSUME Inv, NEW o \in Op,
           \/ CheckConflicts(o, "confirm", "book")
           \/ CheckConflicts(o, "nudge", "shift")
           \/ CheckConflicts(o, "postpone", "recall")
           \/ DeleteSlots(o, "counter", "recount")
           \/ DeleteSlots(o, "recall", "return")
    PROVE  Inv'
<1>. op[o] \in OpState /\ OpSound(op[o])
    BY DEF Inv, TypeOK
<1>1. ASSUME NEW kind \in {"confirm", "nudge", "postpone"},
             NEW next \in {"book", "shift", "recall"},
             CheckConflicts(o, kind, next)
      PROVE  Inv'
  <2>1. [op[o] EXCEPT !.kind = next] \in OpState
        /\ OpSound([op[o] EXCEPT !.kind = next])
    BY <1>1 DEF CheckConflicts, OpState, OpSound
  <2>2. PICK q \in {Idle, [op[o] EXCEPT !.kind = next]} : Continue(o, q)
    BY <1>1 DEF CheckConflicts
  <2>. QED
    BY <1>1, <2>1, <2>2, IdleSound, ContinueSound DEF CheckConflicts
<1>2. ASSUME NEW kind \in {"counter", "recall"}, NEW next \in {"recount", "return"},
             DeleteSlots(o, kind, next)
      PROVE  Inv'
  <2>. DEFINE q == [op[o] EXCEPT !.kind = next, !.doomed = visit[op[o].visit].slots]
  <2>1. op[o].visit \in Visit /\ visit[op[o].visit].slots \in SUBSET Slot
    BY <1>2 DEF DeleteSlots, OpSound, Inv, TypeOK, VisitRow
  <2>2. q \in OpState /\ OpSound(q)
    BY <1>2, <2>1 DEF DeleteSlots, OpState, OpSound
  <2>. QED
    BY <1>2, <2>2, ContinueSound DEF DeleteSlots
<1>. QED
    BY <1>1, <1>2

LEMMA BookedSound ==
    ASSUME NEW row \in VisitRow, RowSound(row), NEW w \in Window \cup {Null},
           w # Null => Fits(w)
    PROVE  /\ Booked(row, w) \in VisitRow
           /\ Booked(row, w).scheduled = w
           /\ Booked(row, w).technician = row.technician
           /\ Booked(row, w).status = row.status
           /\ Booked(row, w).slots = row.slots
BY DEF Booked, VisitRow, RowSound

LEMMA NewSlotsSound ==
    ASSUME Inv, NEW o \in Op, NEW row \in VisitRow, RowSound(row), op[o].offer # {}
    PROVE  /\ NewSlots(row, o) \in SUBSET Slot /\ NewSlots(row, o) # {}
           /\ \A s \in NewSlots(row, o) : Fits(s.window)
BY DEF Inv, TypeOK, OpState, OpSound, NewSlots, VisitRow, RowSound

LEMMA ConfirmedSound ==
    ASSUME NEW b \in VisitRow, RowSound(b), b.scheduled # Null
    PROVE  LET row == [b EXCEPT !.status = "CONFIRMED", !.counterProposed = FALSE]
           IN  /\ row \in VisitRow /\ RowSound(row)
               /\ row.technician = b.technician
BY DEF VisitRow, VisitStatus, RowSound

LEMMA ConfirmWriteSound ==
    ASSUME Inv, NEW o \in Op, ConfirmWrite(o)
    PROVE  Inv'
<1>. DEFINE old == visit[op[o].visit]
            row == [Booked(old, Chosen(o)) EXCEPT
                        !.status = "CONFIRMED", !.counterProposed = FALSE]
<1>1. op[o].visit \in Visit /\ old \in VisitRow /\ RowSound(old)
    BY DEF ConfirmWrite, Inv, TypeOK, OpSound
<1>2. Chosen(o) \in Window /\ Fits(Chosen(o)) /\ Chosen(o) # Null
    BY ChosenFits DEF ConfirmWrite, Inv, OpSound
<1>3. /\ Booked(old, Chosen(o)) \in VisitRow
      /\ RowSound(Booked(old, Chosen(o)))
      /\ Booked(old, Chosen(o)).scheduled # Null
      /\ Booked(old, Chosen(o)).technician = old.technician
    BY <1>1, <1>2, BookedSound DEF RowSound
<1>4. row \in VisitRow /\ RowSound(row) /\ row.technician = old.technician
    BY <1>3, ConfirmedSound
<1>. QED
    BY <1>1, <1>4, WriteSound, UntoldType DEF ConfirmWrite

LEMMA ShiftWriteSound ==
    ASSUME Inv, NEW o \in Op, ShiftWrite(o)
    PROVE  Inv'
<1>. DEFINE old == visit[op[o].visit]
            row == Booked(old, Chosen(o))
<1>1. op[o].visit \in Visit /\ old \in VisitRow /\ RowSound(old)
    BY DEF ShiftWrite, Inv, TypeOK, OpSound
<1>2. Chosen(o) \in Window /\ Fits(Chosen(o)) /\ Chosen(o) # Null
    BY ChosenFits DEF ShiftWrite, Inv, OpSound
<1>3. row \in VisitRow /\ RowSound(row) /\ row.technician = old.technician
    BY <1>1, <1>2, BookedSound DEF RowSound
<1>. QED
    BY <1>1, <1>3, WriteSound, UntoldType DEF ShiftWrite

LEMMA ReturnWriteSound ==
    ASSUME Inv, NEW o \in Op, ReturnWrite(o)
    PROVE  Inv'
<1>. DEFINE old == visit[op[o].visit]
            row == [Booked(old, Null) EXCEPT
                        !.status = "PROPOSED", !.counterProposed = FALSE,
                        !.slots = NewSlots(old, o)]
<1>1. /\ op[o].visit \in Visit /\ old \in VisitRow /\ RowSound(old)
      /\ op[o].offer # {}
    BY DEF ReturnWrite, Inv, TypeOK, OpSound
<1>2. /\ NewSlots(old, o) \in SUBSET Slot /\ NewSlots(old, o) # {}
      /\ \A s \in NewSlots(old, o) : Fits(s.window)
    BY <1>1, NewSlotsSound
<1>3. row \in VisitRow /\ RowSound(row) /\ row.technician = old.technician
    BY ZenonT(40), <1>1, <1>2, BookedSound DEF VisitRow, VisitStatus, RowSound
<1>. QED
    BY <1>1, <1>3, WriteSound, UntoldType DEF ReturnWrite

LEMMA CounterWriteSound ==
    ASSUME Inv, NEW o \in Op, CounterWrite(o)
    PROVE  Inv'
<1>. DEFINE old == visit[op[o].visit]
<1>1. /\ op[o].visit \in Visit /\ old \in VisitRow /\ RowSound(old)
      /\ op[o].offer # {}
    BY DEF CounterWrite, Inv, TypeOK, OpSound
<1>2. /\ NewSlots(old, o) \in SUBSET Slot /\ NewSlots(old, o) # {}
      /\ \A s \in NewSlots(old, o) : Fits(s.window)
    BY <1>1, NewSlotsSound
<1>3. /\ Countered(old, o) \in VisitRow /\ RowSound(Countered(old, o))
      /\ Countered(old, o).technician = old.technician
    BY <1>1, <1>2 DEF Countered, VisitRow, RowSound
<1>4. told' \in [Visit -> ToldState]
    BY DEF CounterWrite, Inv, TypeOK
<1>. QED
    BY <1>1, <1>3, <1>4, WriteSound DEF CounterWrite

LEMMA SetStatusWriteSound ==
    ASSUME Inv, NEW o \in Op, SetStatusWrite(o)
    PROVE  Inv'
<1>. DEFINE old == visit[op[o].visit]
            row == [old EXCEPT !.status = op[o].kind]
<1>1. op[o].visit \in Visit /\ old \in VisitRow /\ RowSound(old)
    BY DEF SetStatusWrite, Inv, TypeOK, OpSound
<1>2. row \in VisitRow /\ RowSound(row) /\ row.technician = old.technician
    BY <1>1 DEF SetStatusWrite, VisitRow, VisitStatus, RowSound
<1>3. told' \in [Visit -> ToldState]
    BY DEF SetStatusWrite, Inv, TypeOK
<1>. QED
    BY <1>1, <1>2, <1>3, WriteSound DEF SetStatusWrite

LEMMA ProposeWriteSound ==
    ASSUME Inv, NEW o \in Op, ProposeWrite(o)
    PROVE  Inv'
<1>. DEFINE new == [NoVisit EXCEPT !.status = "PROPOSED",
                        !.ticket = op[o].visit, !.technician = op[o].technician,
                        !.slots = op[o].offer]
<1>1. /\ op[o] \in OpState /\ op[o].visit \in Ticket /\ op[o].offer # {}
      /\ \A s \in op[o].offer : Fits(s.window)
    BY DEF ProposeWrite, Inv, TypeOK, OpSound
<1>2. new \in VisitRow /\ RowSound(new) /\ new.technician = op[o].technician
    BY <1>1 DEF NoVisit, VisitRow, VisitStatus, OpState, RowSound
<1>. HIDE DEF new
<1>3. op' \in [Op -> OpState] /\ \A p \in Op : OpSound(op'[p])
    BY OpUpdate, IdleSound DEF ProposeWrite, Continue
<1>4. \/ UNCHANGED visit
      \/ \E v \in Visit :
            visit' = [visit EXCEPT ![v] = new] /\ op[o].technician \notin gone
    BY DEF ProposeWrite, new
<1>5. /\ visit' \in [Visit -> VisitRow] /\ \A v \in Visit : RowSound(visit'[v])
      /\ \A v \in Visit : visit'[v].technician \notin gone
    BY <1>2, <1>4 DEF Inv, TypeOK, NoReferenceTo
<1>6. UNCHANGED <<ticket, task, gone, clock, cron, spent, past, told>>
    BY DEF ProposeWrite, Continue
<1>. QED
    BY <1>3, <1>5, <1>6 DEF Inv, TypeOK, NoReferenceTo

-----------------------------------------------------------------------------
(* Tasks and other services *)

LEMMA MeanwhileSound ==
    ASSUME Inv, Meanwhile
    PROVE  /\ past' \subseteq {"overlap", "crash"}
           /\ spent' \in [ops : 0 .. MaxSteps, elsewhere : 0 .. MaxElsewhere]
           /\ UNCHANGED <<op, clock, cron, told>>
<1>1. past' \subseteq {"overlap", "crash"}
    BY DEF Meanwhile, Noticed, Inv, TypeOK
<1>2. spent.elsewhere + 1 <= MaxElsewhere
    BY TimesAssumption DEF Meanwhile, Inv, TypeOK
<1>3. spent' \in [ops : 0 .. MaxSteps, elsewhere : 0 .. MaxElsewhere]
    BY <1>2, TimesAssumption DEF Meanwhile, Inv, TypeOK
<1>. QED
    BY <1>1, <1>3 DEF Meanwhile

LEMMA TaskStepSound ==
    ASSUME Inv, NEW k \in Task, NEW row \in TaskRow, row.owner \notin gone,
           TaskStep(k, row)
    PROVE  Inv'
<1>1. task' \in [Task -> TaskRow] /\ \A j \in Task : task'[j].owner \notin gone
    BY DEF TaskStep, Inv, TypeOK, NoReferenceTo
<1>2. UNCHANGED <<ticket, visit, gone>>
    BY DEF TaskStep
<1>. QED
    BY <1>1, <1>2, MeanwhileSound DEF TaskStep, Inv, TypeOK, NoReferenceTo

LEMMA TasksSound ==
    ASSUME Inv, NEW k \in Task,
           \/ \E u, owner \in User, t \in Ticket \cup {Null}, w \in Window :
                   CreateTask(u, owner, k, t, w)
           \/ \E w \in Window : MoveTask(k, w)
           \/ \E done \in BOOLEAN : SetTaskDone(k, done)
           \/ RemoveTask(k)
    PROVE  Inv'
<1>. task[k] \in TaskRow /\ task[k].owner \notin gone
    BY DEF Inv, TypeOK, NoReferenceTo
<1>1. ASSUME NEW u \in User, NEW owner \in User, NEW t \in Ticket \cup {Null},
             NEW w \in Window, CreateTask(u, owner, k, t, w)
      PROVE  Inv'
  <2>. DEFINE row == [owner |-> owner, ticket |-> t, window |-> w, done |-> FALSE]
  <2>1. row \in TaskRow /\ row.owner \notin gone
    BY <1>1 DEF CreateTask, TaskRow
  <2>. QED
    BY <1>1, <2>1, TaskStepSound DEF CreateTask
<1>2. ASSUME NEW w \in Window, MoveTask(k, w) PROVE Inv'
  <2>. DEFINE row == [task[k] EXCEPT !.window = w]
  <2>1. row \in TaskRow /\ row.owner \notin gone
    BY DEF TaskRow
  <2>. QED
    BY <1>2, <2>1, TaskStepSound DEF MoveTask
<1>3. ASSUME NEW done \in BOOLEAN, SetTaskDone(k, done) PROVE Inv'
  <2>. DEFINE row == [task[k] EXCEPT !.done = done]
  <2>1. row \in TaskRow /\ row.owner \notin gone
    BY DEF TaskRow
  <2>. QED
    BY <1>3, <2>1, TaskStepSound DEF SetTaskDone
<1>4. ASSUME RemoveTask(k) PROVE Inv'
  <2>1. NoTask \in TaskRow /\ NoTask.owner \notin gone
    BY NullAssumption, NoTaskType DEF NoTask, Inv, TypeOK
  <2>. QED
    BY <1>4, <2>1, TaskStepSound DEF RemoveTask
<1>. QED
    BY <1>1, <1>2, <1>3, <1>4

LEMMA AssignTicketSound ==
    ASSUME Inv, NEW t \in Ticket, NEW u \in User, AssignTicket(t, u)
    PROVE  Inv'
<1>1. /\ ticket' \in [Ticket -> TicketRow]
      /\ \A j \in Ticket : /\ ticket'[j].createdBy \notin gone
                           /\ ticket'[j].assignedTo \notin gone
    BY DEF AssignTicket, Inv, TypeOK, TicketRow, NoReferenceTo
<1>2. Meanwhile /\ UNCHANGED <<visit, task, gone>>
    BY DEF AssignTicket
<1>. QED
    BY <1>1, <1>2, MeanwhileSound DEF Inv, TypeOK, NoReferenceTo

LEMMA DeleteTicketSound ==
    ASSUME Inv, NEW t \in Ticket, DeleteTicket(t)
    PROVE  Inv'
<1>1. /\ ticket' \in [Ticket -> TicketRow]
      /\ \A j \in Ticket : /\ ticket'[j].createdBy \notin gone
                           /\ ticket'[j].assignedTo \notin gone
    BY DEF DeleteTicket, Inv, TypeOK, TicketRow, NoReferenceTo
<1>2. /\ visit' \in [Visit -> VisitRow] /\ \A v \in Visit : RowSound(visit'[v])
      /\ \A v \in Visit : visit'[v].technician \notin gone
  <2>1. [NoVisit EXCEPT !.status = "DELETED"].technician \notin gone
    BY NullAssumption DEF NoVisit, Inv, TypeOK
  <2>. QED
    BY <2>1, NoVisitSound DEF DeleteTicket, Inv, TypeOK, NoReferenceTo
<1>3. /\ task' \in [Task -> TaskRow] /\ \A k \in Task : task'[k].owner \notin gone
  <2>1. NoTask.owner \notin gone
    BY NullAssumption DEF NoTask, Inv, TypeOK
  <2>. QED
    BY <2>1, NoTaskType DEF DeleteTicket, Inv, TypeOK, NoReferenceTo
<1>4. Meanwhile /\ UNCHANGED gone
    BY DEF DeleteTicket
<1>. QED
    BY <1>1, <1>2, <1>3, <1>4, MeanwhileSound DEF Inv, TypeOK, NoReferenceTo

\* What TicketHandedOver and VisitHandedOver return no longer names the user
\* and names nobody new but the sentinel.
LEMMA HandedOverSound ==
    ASSUME NEW u \in User
    PROVE  /\ \A row \in VisitRow : RowSound(row) =>
                 /\ VisitHandedOver(row, u) \in VisitRow
                 /\ RowSound(VisitHandedOver(row, u))
                 /\ VisitHandedOver(row, u).technician # u
                 /\ VisitHandedOver(row, u).technician \in {row.technician, Sentinel}
           /\ \A row \in TicketRow :
                 /\ TicketHandedOver(row, u) \in TicketRow
                 /\ TicketHandedOver(row, u).createdBy # u
                 /\ TicketHandedOver(row, u).createdBy \in {row.createdBy, Sentinel}
                 /\ TicketHandedOver(row, u).assignedTo # u
                 /\ TicketHandedOver(row, u).assignedTo \in {row.assignedTo, Null}
<1>1. Sentinel # u /\ Null # u
    BY VisitSentinelAssumption, NullAssumption
<1>2. ASSUME NEW row \in VisitRow, RowSound(row)
      PROVE  /\ VisitHandedOver(row, u) \in VisitRow
             /\ RowSound(VisitHandedOver(row, u))
             /\ VisitHandedOver(row, u).technician # u
             /\ VisitHandedOver(row, u).technician \in {row.technician, Sentinel}
  <2>1. CASE row.technician = u
    <3>. DEFINE new == [row EXCEPT !.technician = Sentinel]
    <3>1. new \in VisitRow /\ RowSound(new) /\ new.technician = Sentinel
      BY <1>2 DEF VisitRow, RowSound
    <3>. QED
      BY <1>1, <2>1, <3>1 DEF VisitHandedOver
  <2>2. CASE row.technician # u
    BY <1>2, <2>2 DEF VisitHandedOver
  <2>. QED
    BY <2>1, <2>2
<1>3. ASSUME NEW row \in TicketRow
      PROVE  /\ TicketHandedOver(row, u) \in TicketRow
             /\ TicketHandedOver(row, u).createdBy # u
             /\ TicketHandedOver(row, u).createdBy \in {row.createdBy, Sentinel}
             /\ TicketHandedOver(row, u).assignedTo # u
             /\ TicketHandedOver(row, u).assignedTo \in {row.assignedTo, Null}
    BY <1>1 DEF TicketHandedOver, TicketRow
<1>. QED
    BY <1>2, <1>3

LEMMA RemoveUserSound ==
    ASSUME Inv, NEW u \in User, RemoveUser(u)
    PROVE  Inv'
<1>1. gone' = gone \cup {u} /\ gone' \subseteq User
    BY DEF RemoveUser, Inv, TypeOK
<1>2. Null \notin gone /\ Sentinel \notin gone /\ u # Null
    BY NullAssumption, VisitSentinelAssumption DEF Inv, TypeOK
<1>3. /\ ticket' \in [Ticket -> TicketRow]
      /\ \A t \in Ticket : /\ ticket'[t].createdBy \notin gone \cup {u}
                           /\ ticket'[t].assignedTo \notin gone \cup {u}
    BY <1>2, HandedOverSound DEF RemoveUser, Inv, TypeOK, NoReferenceTo
<1>4. /\ visit' \in [Visit -> VisitRow] /\ \A v \in Visit : RowSound(visit'[v])
      /\ \A v \in Visit : visit'[v].technician \notin gone \cup {u}
    BY <1>2, HandedOverSound DEF RemoveUser, Inv, TypeOK, NoReferenceTo
<1>5. /\ task' \in [Task -> TaskRow]
      /\ \A k \in Task : task'[k].owner \notin gone \cup {u}
  <2>1. NoTask.owner = Null
    BY DEF NoTask
  <2>. QED
    BY <1>2, <2>1, NoTaskType DEF RemoveUser, Inv, TypeOK, NoReferenceTo
<1>6. Meanwhile
    BY DEF RemoveUser
<1>. QED
    BY <1>1, <1>3, <1>4, <1>5, <1>6, MeanwhileSound DEF Inv, TypeOK, NoReferenceTo

-----------------------------------------------------------------------------
(* The cron, the clock and a crash *)

\* The cron writes no row but the two flags, which RowSound does not read.
LEMMA CronSound ==
    ASSUME Inv, CronStep
    PROVE  Inv'
<1>1. CASE CheckVisitReminders \/ CheckPresenceReminders
  <2>1. cron' \in CronState
    <3>1. RemindersDue \subseteq Visit /\ PresenceDue \subseteq Visit
      BY DEF RemindersDue, PresenceDue
    <3>2. PICK kind \in {"reminder", "presence"}, list \in SUBSET Visit :
              cron' = [kind |-> kind, list |-> list, visit |-> Null]
      <4>1. CASE CheckVisitReminders
        BY <4>1, <3>1 DEF CheckVisitReminders
      <4>2. CASE CheckPresenceReminders
        BY <4>2, <3>1 DEF CheckPresenceReminders
      <4>. QED
        BY <1>1, <4>1, <4>2
    <3>. QED
      BY <3>2 DEF CronState
  <2>2. past' \subseteq {"overlap", "crash"}
    BY <1>1 DEF CheckVisitReminders, CheckPresenceReminders, Noticed, Inv, TypeOK
  <2>3. UNCHANGED <<ticket, visit, task, gone, op, clock, spent, told>>
    BY <1>1 DEF CheckVisitReminders, CheckPresenceReminders, rows
  <2>. QED
    BY <2>1, <2>2, <2>3 DEF Inv, TypeOK, NoReferenceTo
<1>2. ASSUME NEW v \in Visit, MarkReminded(v) PROVE Inv'
  <2>1. cron' \in CronState
    BY <1>2 DEF MarkReminded, CronOver, CronState, Inv, TypeOK
  <2>. DEFINE a == [visit[v] EXCEPT !.reminderSentAt = TRUE]
              b == [visit[v] EXCEPT !.presenceReminderSentAt = TRUE]
  <2>2. \A row \in {a, b} : /\ row \in VisitRow /\ RowSound(row)
                            /\ row.technician = visit[v].technician
    BY ZenonT(40) DEF Inv, TypeOK, VisitRow, RowSound
  <2>3. visit' = visit \/ \E row \in {a, b} : visit' = [visit EXCEPT ![v] = row]
    BY <1>2 DEF MarkReminded, Inv, TypeOK
  <2>. HIDE DEF a, b
  <2>4. /\ visit' \in [Visit -> VisitRow] /\ \A x \in Visit : RowSound(visit'[x])
        /\ \A x \in Visit : visit'[x].technician = visit[x].technician
    BY <2>2, <2>3 DEF Inv, TypeOK
  <2>5. UNCHANGED <<ticket, task, gone, op, clock, spent, told, past>>
    BY <1>2 DEF MarkReminded
  <2>. QED
    BY <2>1, <2>4, <2>5 DEF Inv, TypeOK, NoReferenceTo
<1>3. CASE NotifyReminded
  <2>1. cron' \in CronState
    BY <1>3 DEF NotifyReminded, CronState, Inv, TypeOK
  <2>2. told' \in [Visit -> ToldState]
    <3>1. \A n \in 0 .. MaxTold : AtMostTwice(n) \in 0 .. MaxTold
      BY DEF AtMostTwice, MaxTold
    <3>2. cron.visit \in Visit
      BY <1>3 DEF NotifyReminded, CronState, Inv, TypeOK
    <3>3. told[cron.visit] \in ToldState
      BY <3>2 DEF Inv, TypeOK
    <3>. DEFINE a == [told[cron.visit] EXCEPT !.reminder = AtMostTwice(@)]
                b == [told[cron.visit] EXCEPT !.presence = AtMostTwice(@)]
    <3>4. a \in ToldState /\ b \in ToldState
      BY <3>1, <3>3 DEF ToldState
    <3>5. \/ told' = [told EXCEPT ![cron.visit] = a]
          \/ told' = [told EXCEPT ![cron.visit] = b]
      BY <1>3, <3>2 DEF NotifyReminded, Inv, TypeOK
    <3>. HIDE DEF a, b
    <3>. QED
      BY <3>4, <3>5 DEF Inv, TypeOK
  <2>3. UNCHANGED <<ticket, visit, task, gone, op, clock, spent, past>>
    BY <1>3 DEF NotifyReminded, rows
  <2>. QED
    BY <2>1, <2>2, <2>3 DEF Inv, TypeOK, NoReferenceTo
<1>. QED
    BY <1>1, <1>2, <1>3 DEF CronStep

LEMMA TickSound ==
    ASSUME Inv, Tick
    PROVE  Inv'
<1>1. clock' \in 0 .. Horizon
    BY TimesAssumption DEF Tick, Inv, TypeOK
<1>2. cron' \in CronState
    BY DEF Tick, CronIdle, CronState
<1>3. UNCHANGED <<ticket, visit, task, gone, op, spent, told, past>>
    BY DEF Tick, rows
<1>. QED
    BY <1>1, <1>2, <1>3 DEF Inv, TypeOK, NoReferenceTo

LEMMA CrashSound ==
    ASSUME Inv, Crash
    PROVE  Inv'
<1>1. op' \in [Op -> OpState] /\ \A o \in Op : OpSound(op'[o])
    BY IdleSound DEF Crash
<1>2. cron' \in CronState /\ past' \subseteq {"overlap", "crash"}
    BY DEF Crash, CronOver, CronState, Inv, TypeOK
<1>3. UNCHANGED <<ticket, visit, task, gone, clock, spent, told>>
    BY DEF Crash, rows
<1>. QED
    BY <1>1, <1>2, <1>3 DEF Inv, TypeOK, NoReferenceTo

-----------------------------------------------------------------------------
(* Every step *)

LEMMA StepSound == Inv /\ [Next]_vars => Inv'
<1>. SUFFICES ASSUME Inv, [Next]_vars PROVE Inv'
    OBVIOUS
<1>1. ASSUME NEW o \in Op, OpStep(o) PROVE Inv'
    BY <1>1, BeginsSound, ContinuesSound, ProposeWriteSound, ConfirmWriteSound,
       CounterWriteSound, ShiftWriteSound, ReturnWriteSound, SetStatusWriteSound
       DEF OpStep
<1>2. CASE Elsewhere
    BY <1>2, TasksSound, AssignTicketSound, DeleteTicketSound, RemoveUserSound
       DEF Elsewhere
<1>3. CASE UNCHANGED vars
    BY <1>3 DEF vars, Inv, TypeOK, NoReferenceTo
<1>. QED
    BY <1>1, <1>2, <1>3, CronSound, TickSound, CrashSound DEF Next

LEMMA Sound == Spec => []Inv
    BY InitSound, StepSound, PTL DEF Spec

\* The rows keep their types, and no visit, ticket or task ever refers to an
\* account that UsersService.remove has removed.
THEOREM VisitsTypeCorrect == Spec => []TypeOK
<1>1. Inv => TypeOK
    BY DEF Inv
<1>. QED
    BY <1>1, Sound, PTL

\* confirm, counter and reschedule never leave a confirmed visit without a
\* time nor a proposed one without a window, however their awaits interleave.
THEOREM AlwaysAChoiceAndATime == Spec => []TimesMatchStatus
<1>1. Inv => TimesMatchStatus
    BY DEF Inv, RowSound, TimesMatchStatus
<1>. QED
    BY <1>1, Sound, PTL

\* Every minute of every time VisitsService ever books is within the working
\* hours, in any calendar of them.
THEOREM NeverOutsideHours == Spec => []VisitsInWorkingHours
<1>1. Inv => VisitsInWorkingHours
  <2>. SUFFICES ASSUME Inv, NEW v \in Visit, visit[v].scheduled # Null
                PROVE  \A t \in visit[v].scheduled.start .. visit[v].scheduled.end :
                           IsWithinWorkingHours(t)
    BY DEF VisitsInWorkingHours
  <2>1. visit[v].scheduled \in Window /\ Fits(visit[v].scheduled)
    BY DEF Inv, TypeOK, VisitRow, RowSound
  <2>2. visit[v].scheduled.start \in Nat /\ visit[v].scheduled.end \in Nat
    BY <2>1, WindowAssumption
  <2>. QED
    BY <2>1, <2>2, FitsAsAWhole DEF Fits
<1>. QED
    BY <1>1, Sound, PTL
=============================================================================
