----------------------------- MODULE TicketDesk -----------------------------
(***************************************************************************)
(* The ticket service together with what acts on tickets by itself: the    *)
(* passing of time, the SLA breach cron, the archive cron; and the queries *)
(* the lists and the home screen are built from.                           *)
(***************************************************************************)
EXTENDS Tickets

VARIABLES
    sweep,      \* the tick of the SLA cron in progress: its stage, what it found
    settledFor  \* how long each ticket has had its status (history variable)

watchVars == <<sweep, settledFor>>
vars == <<ticket, history, unrecorded, account, category, dropping, req,
          sweep, settledFor>>

DeskTypeOK ==
    /\ TypeOK
    /\ sweep \in [stage : {"idle", "markResponse", "resolution", "markResolution"},
                  found : SUBSET Ticket]
    /\ settledFor \in [Ticket -> {"recent", "old"}]

DeskInit ==
    /\ Init
    /\ sweep = [stage |-> "idle", found |-> {}]
    /\ settledFor = [t \in Ticket |-> "recent"]

-----------------------------------------------------------------------------
(* SlaBreachCron.checkBreaches: response deadlines, then resolution ones.  *)
(* Each half reads the overdue tickets, awaits, and marks them by id.      *)

OpenStatuses == {"NEW", "ASSIGNED", "IN_PROGRESS"}

\* Slip: rows are passed on where their ids are expected.
OverdueRows ==
    {ticket[t] : t \in {x \in Ticket : /\ ticket[x].status \in OpenStatuses
                                      /\ ~ticket[x].firstRespondedAt
                                      /\ ~ticket[x].isResponseBreached
                                      /\ ticket[x].responseDueAt = "past"}}

\* Slip: a ticket nobody was assigned to is not looked at.
OverdueAssigned ==
    {t \in Ticket : /\ ticket[t].status \in OpenStatuses
                    /\ ticket[t].assignedTo # Null
                    /\ ~ticket[t].firstRespondedAt
                    /\ ~ticket[t].isResponseBreached
                    /\ ticket[t].responseDueAt = "past"}

OverdueResponses ==
    {t \in Ticket : /\ ticket[t].status \in OpenStatuses
                    /\ ~ticket[t].firstRespondedAt
                    /\ ~ticket[t].isResponseBreached
                    /\ ticket[t].responseDueAt = "past"}

\* Slip: the flag of the other deadline is asked.
OverdueUnlessResponse ==
    {t \in Ticket : /\ ticket[t].status \in OpenStatuses
                    /\ ~ticket[t].resolvedAt
                    /\ ~ticket[t].isResponseBreached
                    /\ ticket[t].resolutionDueAt = "past"}

OverdueResolutions ==
    {t \in Ticket : /\ ticket[t].status \in OpenStatuses
                    /\ ~ticket[t].resolvedAt
                    /\ ~ticket[t].isResolutionBreached
                    /\ ticket[t].resolutionDueAt = "past"}

\* updateMany by id: rows that are gone are skipped, no condition is checked again.
MarkFound(Marked(_)) ==
    ticket' = [t \in Ticket |->
                IF t \in sweep.found /\ Exists(t) THEN Marked(ticket[t])
                ELSE ticket[t]]

SweepResponses ==
    /\ sweep.stage = "idle"
    /\ sweep' = IF OverdueResponses = {}
                THEN [stage |-> "resolution", found |-> {}]
                ELSE [stage |-> "markResponse", found |-> OverdueResponses]
    /\ UNCHANGED ticket

MarkResponses ==
    /\ sweep.stage = "markResponse"
    /\ MarkFound(LAMBDA row : [row EXCEPT !.isResponseBreached = TRUE,
                                          !.updatedAt = "recent"])
    /\ sweep' = [stage |-> "resolution", found |-> {}]

SweepResolutions ==
    /\ sweep.stage = "resolution"
    /\ sweep' = IF OverdueResolutions = {}
                THEN [stage |-> "idle", found |-> {}]
                ELSE [stage |-> "markResolution", found |-> OverdueResolutions]
    /\ UNCHANGED ticket

MarkResolutions ==
    /\ sweep.stage = "markResolution"
    /\ MarkFound(LAMBDA row : [row EXCEPT !.isResolutionBreached = TRUE,
                                          !.updatedAt = "recent"])
    /\ sweep' = [stage |-> "idle", found |-> {}]

SweepStep ==
    /\ \/ SweepResponses
       \/ MarkResponses
       \/ SweepResolutions
       \/ MarkResolutions
    /\ UNCHANGED <<history, unrecorded, account, category, dropping, req, settledFor>>

-----------------------------------------------------------------------------
(* TicketArchiveCron.archiveOld: one conditional statement, no await inside *)

DueForArchive(row) ==
    /\ ~row.archivedAt
    /\ row.status \in {"CLOSED", "REJECTED"}
    /\ \/ row.closedAt = "old"
       \/ row.closedAt = "none" /\ row.updatedAt = "old"

\* An administrator may have switched it off in the retention settings.
ArchiveOld ==
    /\ "ARCHIVE_CRON" \in Enabled
    /\ \/ ticket' = [t \in Ticket |->
            IF DueForArchive(ticket[t])
            THEN [ticket[t] EXCEPT !.archivedAt = TRUE, !.updatedAt = "recent"]
            ELSE ticket[t]]
       \/ UNCHANGED ticket
    /\ UNCHANGED <<history, unrecorded, account, category, dropping, req,
                   sweep, settledFor>>

-----------------------------------------------------------------------------
(* Time *)

DeadlinePasses(t) ==
    /\ \/ /\ ticket[t].responseDueAt = "ahead"
          /\ ticket' = [ticket EXCEPT ![t].responseDueAt = "past"]
       \/ /\ ticket[t].resolutionDueAt = "ahead"
          /\ ticket' = [ticket EXCEPT ![t].resolutionDueAt = "past"]
    /\ UNCHANGED <<history, unrecorded, account, category, dropping, req,
                   sweep, settledFor>>

Aged(moment) == IF moment = "recent" THEN "old" ELSE moment

\* The retention period passes with nobody touching anything.
RetentionPasses ==
    /\ "ARCHIVE_CRON" \in Enabled
    /\ ticket' = [t \in Ticket |->
            [ticket[t] EXCEPT !.closedAt = Aged(@), !.updatedAt = Aged(@)]]
    /\ settledFor' = [t \in Ticket |-> "old"]
    /\ UNCHANGED <<history, unrecorded, account, category, dropping, req, sweep>>

ServiceStep ==
    /\ Next
    /\ settledFor' = [t \in Ticket |->
            IF ticket'[t].status = ticket[t].status THEN settledFor[t]
            ELSE "recent"]
    /\ UNCHANGED sweep

DeskNext ==
    \/ ServiceStep
    \/ SweepStep
    \/ ArchiveOld
    \/ \E t \in Ticket : DeadlinePasses(t)
    \/ RetentionPasses

\* The scheduler fires the SLA cron every two minutes and the database answers
\* it: the sweep never stops.  Nothing is assumed of clients or of the clock.
DeskSpec == DeskInit /\ [][DeskNext]_vars /\ WF_vars(SweepStep)

-----------------------------------------------------------------------------
(* The lists *)

\* TicketPolicy.buildVisibilityWhere
VisibilityWhere(u, row) ==
    CASE Role[u] = "ADMIN"  -> TRUE
      [] Role[u] = "INTERN" -> row.assignedTo = u \/ u \in row.collaborators
      [] OTHER              -> row.createdBy = u

Breached(row) == row.isResponseBreached \/ row.isResolutionBreached

\* Slip: the filter's OR and the visibility's OR share a key of the where clause.
FindAllFlat(u, archived, overdue) ==
    {t \in Ticket : /\ Exists(t)
                    /\ ticket[t].archivedAt = archived
                    /\ IF overdue THEN Breached(ticket[t])
                                  ELSE VisibilityWhere(u, ticket[t])}

FindAll(u, archived, overdue) ==
    {t \in Ticket : /\ Exists(t)
                    /\ VisibilityWhere(u, ticket[t])
                    /\ ticket[t].archivedAt = archived
                    /\ overdue => Breached(ticket[t])}

\* The condition every query of the home screen starts from.
MineWhere(u, row) == IsTicketWorker(u, row)

HomeStatuses == {"NEW", "ASSIGNED", "IN_PROGRESS", "REOPENED"}

MyOpenTickets(u) ==
    {t \in Ticket : /\ MineWhere(u, ticket[t])
                    /\ ticket[t].status \in HomeStatuses
                    /\ ~ticket[t].archivedAt}

\* A deadline up to the end of today: one that has passed, or one ahead of a
\* ticket in today, the tickets with such a deadline later on this day.
DueToday(t, deadline, today) == deadline = "past" \/ (deadline = "ahead" /\ t \in today)

\* "Burning today".  The where clause spreads mine's { OR } and then gives an OR
\* of its own: a key written twice keeps the later value, so mine is gone.
\* respond and resolve: the tickets with that deadline later today.
SlaToday(u, respond, resolve) ==
    {t \in Ticket :
        LET row == ticket[t] IN
        /\ row.status \in HomeStatuses
        /\ \/ Breached(row)
           \/ ~row.firstRespondedAt /\ DueToday(t, row.responseDueAt, respond)
           \/ ~row.resolvedAt /\ DueToday(t, row.resolutionDueAt, resolve)}

-----------------------------------------------------------------------------
(* Properties *)

\* A list never shows a ticket its reader may not open, whatever the filter,
\* and hides none of the unarchived ones the reader may open.
ListsMatchAccess ==
    \A u \in User :
        /\ \A archived, overdue \in BOOLEAN :
              \A t \in FindAll(u, archived, overdue) : CanView(u, ticket[t])
        /\ \A t \in Ticket :
              Exists(t) /\ CanView(u, ticket[t]) =>
                  t \in FindAll(u, ticket[t].archivedAt, FALSE)

\* A ticket waiting for a first response past its deadline is flagged, unless
\* somebody responds, classifies it anew or ends it first.
AwaitsResponse(t) == /\ ticket[t].status \in {"NEW", "ASSIGNED"}
                     /\ ~ticket[t].firstRespondedAt
                     /\ ticket[t].responseDueAt = "past"

ResponseBreachDetected ==
    \A t \in Ticket :
        AwaitsResponse(t) ~> ticket[t].isResponseBreached \/ ~AwaitsResponse(t)

\* The same of a ticket in work past its resolution deadline.
AwaitsResolution(t) == /\ ticket[t].status = "IN_PROGRESS"
                       /\ ticket[t].resolutionDueAt = "past"

ResolutionBreachDetected ==
    \A t \in Ticket :
        AwaitsResolution(t) ~> ticket[t].isResolutionBreached \/ ~AwaitsResolution(t)

\* ... which holds of the tickets that were never resolved before.
FirstResolutionBreachDetected ==
    \A t \in Ticket :
        AwaitsResolution(t) /\ ~ticket[t].resolvedAt ~>
            ticket[t].isResolutionBreached \/ ~AwaitsResolution(t)

\* The archive cron takes only tickets whose last status change is old.
ArchivesOnlySettled ==
    [][ArchiveOld => \A t \in Ticket :
          ticket'[t].archivedAt => ticket[t].archivedAt \/ settledFor[t] = "old"]_vars

\* The home screen of a staff member lists that member's tickets.
HomeShowsOnlyMine ==
    \A u \in User :
        IsStaffRole(u) =>
            \A respond, resolve \in SUBSET Ticket :
                \A t \in MyOpenTickets(u) \cup SlaToday(u, respond, resolve) :
                    MineWhere(u, ticket[t])
=============================================================================
