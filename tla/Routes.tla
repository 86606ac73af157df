------------------------------- MODULE Routes -------------------------------
(***************************************************************************)
(* What the server answers: for every route of the HTTP interface, the     *)
(* scenes in which it lets the caller through, the tables its answer is    *)
(* made from, and the tables it writes.                                    *)
(*                                                                         *)
(* A scene is all that decides: who asks, and how the ticket, request or   *)
(* task on the screen is related to him.  A route refuses by a guard of    *)
(* its controller, by the ticket policy, or by a check of its service;     *)
(* all three are in the set "who".  Refusals for what the request          *)
(* says (a slot in the past, a name already taken) are not: any accepted   *)
(* request may still fail.  All feature flags are on.                      *)
(***************************************************************************)
EXTENDS Naturals, Sequences

CONSTANTS
    Account,       \* accounts that sit before a screen
    Role,          \* the role of each
    StaffAccount,  \* those the directory calls employees (isStaff)
    Other,         \* somebody else
    Null           \* an absent reference

\* A browser is always before somebody's eyes.
ASSUME AccountAssumption == Account # {}
ASSUME OtherAssumption == Other \notin Account /\ Null \notin Account /\ Other # Null

INSTANCE TicketPolicy WITH User <- Account

-----------------------------------------------------------------------------
(* Scenes *)

\* hand: how the one who asks is at work on the ticket.
Hand == {"none", "other", "assignee", "collaborator"}

\* The one visit of the ticket that is not over yet.
VisitState == {"none", "PROPOSED", "COUNTERED", "CONFIRMED"}

\* creator: the ticket or request is his own; mine: the task is his own.
\* Bound: a visit is under way only for a ticket in progress.
Scene ==
    {s \in [account : Account, creator : BOOLEAN, hand : Hand,
            status : Status, visit : VisitState, mine : BOOLEAN] :
        /\ s.hand \in {"assignee", "collaborator"} \/ s.mine => IsStaffRole(s.account)
        /\ s.status = "NEW" => s.hand \in {"none", "collaborator"}
        /\ s.hand = "none" => s.status \in {"NEW", "REJECTED"}
        /\ s.visit # "none" => s.status = "IN_PROGRESS"}

Ticket(s) ==
    [createdBy     |-> IF s.creator THEN s.account ELSE Other,
     assignedTo    |-> CASE s.hand = "none"     -> Null
                         [] s.hand = "assignee" -> s.account
                         [] OTHER               -> Other,
     collaborators |-> IF s.hand = "collaborator" THEN {s.account} ELSE {},
     status        |-> s.status]

\* The ticket as the visits and the calendar load it: without collaborators.
BareTicket(s) == [Ticket(s) EXCEPT !.collaborators = {}]

-----------------------------------------------------------------------------
(* Guards *)

JwtAuthGuard    == Scene
RolesGuard(roles) == {s \in Scene : Role[s.account] \in roles}
StaffOnlyGuard  == {s \in Scene : s.account \in StaffAccount}
Admins          == RolesGuard({"ADMIN"})
Maintainers     == RolesGuard({"ADMIN", "INTERN"})

Viewers         == {s \in Scene : CanView(s.account, Ticket(s))}
BareViewers     == {s \in Scene : CanView(s.account, BareTicket(s))}
Commenters      == {s \in Scene : CanComment(s.account, Ticket(s))}
Requesters      == {s \in Scene : s.creator}

\* The executor of a visit: its technician is the assignee of the ticket.
Technicians     == {s \in Scene : s.hand = "assignee" \/ Role[s.account] = "ADMIN"}
TaskEditors     == {s \in Maintainers : s.mine \/ Role[s.account] = "ADMIN"}

Get(who, reads)     == [who |-> who, reads |-> reads, writes |-> {}]
Change(who, writes) == [who |-> who, reads |-> {}, writes |-> writes]

-----------------------------------------------------------------------------
(* Tickets *)

\* What comes with every ticket.
TICKET_INCLUDE ==
    {"Ticket", "Location", "Category", "Tag", "User", "TicketCollaborator"}

\* The tables the home screen is put together from.
MyDay == {"Ticket", "TicketVisit", "CalendarTask", "TicketHistory"}

\* A report prints the discussion and the history under each ticket.
Report == TICKET_INCLUDE \cup {"TicketComment", "TicketHistory"}

TicketsController ==
    [create        |-> Change(StaffOnlyGuard, {"Ticket", "TicketHistory"}),
     findAll       |-> Get(JwtAuthGuard, TICKET_INCLUDE),
     assigneeStats |-> Get(Admins, {"Ticket", "User"}),
     exportStats   |-> Get(Admins, {"Ticket", "User"}),
     myDay         |-> Get(Maintainers, MyDay),
     bulk          |-> Change(Maintainers, {"Ticket", "TicketHistory", "Workload"}),
     reportMine    |-> Get(JwtAuthGuard, Report),
     findOne       |-> Get(Viewers, TICKET_INCLUDE)]

TicketChanges ==
    [assign     |-> Change({s \in Scene : CanAssignAnyone(s.account)},
                           {"Ticket", "TicketHistory", "Workload"}),
     assignSelf |-> Change({s \in Scene : CanSelfAssign(s.account, Ticket(s))},
                           {"Ticket", "TicketHistory", "Workload"}),
     classify   |-> Change({s \in Scene : CanClassify(s.account, Ticket(s))},
                           {"Ticket", "TicketHistory"}),
     rate       |-> Change({s \in Scene : CanRate(s.account, Ticket(s))},
                           {"Ticket", "TicketHistory"}),
     setTags    |-> Change(Maintainers, {"Ticket", "TicketHistory"}),
     archive    |-> Change(Admins, {"Ticket"}),
     remove     |-> Change(Admins, {"Ticket", "TicketHistory", "TicketComment", "Workload"})]

ChangeStatus(to) ==
    Change({s \in Scene : CanChangeStatus(s.account, Ticket(s), to)},
           {"Ticket", "TicketHistory"} \cup
           (IF to \in {"RESOLVED", "REJECTED", "REOPENED"} THEN {"Workload"} ELSE {}))

\* Only the executor names helpers; a helper may take himself off.
addCollaborator ==
    Change({s \in Maintainers : Role[s.account] = "ADMIN" \/ s.hand = "assignee"},
           {"TicketCollaborator", "TicketHistory"})
removeCollaborator ==
    Change({s \in Maintainers : Role[s.account] = "ADMIN" \/ s.hand = "assignee"},
           {"TicketCollaborator", "TicketHistory"})
removeOneself ==
    Change({s \in Maintainers : s.hand = "collaborator"},
           {"TicketCollaborator", "TicketHistory"})

\* A comment is its author's to edit, whoever may see the ticket.
Comments ==
    [history |-> Get(Viewers, {"TicketHistory", "User"}),
     report  |-> Get(Viewers, Report),
     read    |-> Get(Viewers, {"TicketComment", "CommentAttachment", "User"}),
     create  |-> Change(Commenters, {"TicketComment"}),
     staff   |-> Change(Commenters \cap Maintainers, {"TicketComment"}),
     \* with files, which are not listed among those of the ticket itself
     files   |-> Change(Commenters, {"TicketComment", "CommentAttachment"}),
     update  |-> Change(JwtAuthGuard, {"TicketComment"}),
     remove  |-> Change(JwtAuthGuard, {"TicketComment"})]

Attachments ==
    [read     |-> Get(Viewers, {"TicketAttachment"}),
     upload   |-> Change(Commenters, {"TicketAttachment", "TicketHistory"}),
     download |-> Get(Viewers, {"TicketAttachment"})]

-----------------------------------------------------------------------------
(* Visits and tasks *)

VisitsController ==
    [calendar   |-> Get(Maintainers, {"TicketVisit", "Ticket"}),
     conflicts  |-> Get(Maintainers, {"ConfirmedVisit", "CalendarTask"}),
     list       |-> Get(BareViewers, {"TicketVisit"}),
     propose    |-> Change(BareViewers \cap Maintainers, {"TicketVisit"}),
     reschedule |-> Change(Technicians, {"TicketVisit", "ConfirmedVisit", "TicketHistory"})]

\* A counter-offer is the executor's to confirm, an offer the requester's.
ConfirmVisit ==
    Change({s \in Scene : IF s.visit = "COUNTERED" THEN s \in Technicians ELSE s.creator},
           {"TicketVisit", "ConfirmedVisit", "TicketHistory"})
CounterVisit == Change(Requesters, {"TicketVisit"})
VisitDone ==
    Change(Technicians, {"TicketVisit", "ConfirmedVisit", "TicketHistory"})
VisitCancel ==
    Change(Technicians \cup Requesters, {"TicketVisit", "ConfirmedVisit"})

CalendarTasksController ==
    [list         |-> Get(Maintainers, {"CalendarTask"}),
     listByTicket |-> Get(Maintainers \cap BareViewers, {"CalendarTask"}),
     create       |-> Change(Maintainers, {"CalendarTask"}),
     createFor    |-> Change(Maintainers \cap BareViewers, {"CalendarTask"}),
     update       |-> Change(TaskEditors, {"CalendarTask"}),
     remove       |-> Change(TaskEditors, {"CalendarTask"})]

-----------------------------------------------------------------------------
(* Cartridges *)

CartridgesController ==
    [create      |-> Change(StaffOnlyGuard, {"CartridgeRequest"}),
     findAll     |-> Get(JwtAuthGuard, {"CartridgeRequest", "Location"}),
     collect     |-> Change(Maintainers, {"CartridgeRequest"}),
     cancel      |-> Change(Requesters \cup Admins, {"CartridgeRequest"}),
     scanArrival |-> Change(Maintainers, {"CartridgeRequest"}),
     labels      |-> Get(Maintainers, {"CartridgeRequest"})]

CartridgeReportsController ==
    [findAll  |-> Get(Admins, {"CartridgeReport", "CartridgeRequest"}),
     generate |-> Change(Admins, {"CartridgeReport", "CartridgeRequest"}),
     download |-> Get(Admins, {"CartridgeReport"}),
     close    |-> Change(Admins, {"CartridgeReport", "CartridgeRequest"})]

RefillEventsController ==
    [findAll |-> Get(JwtAuthGuard, {"RefillEvent"}),
     create  |-> Change(Admins, {"RefillEvent"}),
     update  |-> Change(Admins, {"RefillEvent"})]

-----------------------------------------------------------------------------
(* Directories: everybody reads them, administrators change them *)

Directory(table) ==
    [findAll |-> Get(JwtAuthGuard, {table}),
     create  |-> Change(Admins, {table}),
     update  |-> Change(Admins, {table}),
     remove  |-> Change(Admins, {table})]

CategoriesController   == Directory("Category")
LocationsController    == Directory("Location")
TextSnippetsController == Directory("TextSnippet")
TagsController ==
    [findAll    |-> Get(JwtAuthGuard, {"Tag", "TagRule"}),
     create     |-> Change(Admins, {"Tag"}),
     update     |-> Change(Admins, {"Tag"}),
     remove     |-> Change(Admins, {"Tag", "TagRule"}),
     addRule    |-> Change(Admins, {"TagRule"}),
     removeRule |-> Change(Admins, {"TagRule"})]
SlaController ==
    [findAll |-> Get(JwtAuthGuard, {"SlaConfig"}),
     update  |-> Change(Admins, {"SlaConfig"})]
LocalServicesController ==
    [findAll    |-> Get(Admins, {"LocalService"}),
     create     |-> Change(Admins, {"LocalService"}),
     update     |-> Change(Admins, {"LocalService"}),
     visibility |-> Change(Admins, {"LocalService"}),
     remove     |-> Change(Admins, {"LocalService"})]
AnnouncementsController ==
    [active  |-> Get(JwtAuthGuard, {"Announcement"}),
     publish |-> Change(Admins, {"Announcement"}),
     clear   |-> Change(Admins, {"Announcement"})]

KnowledgeController ==
    [findAll  |-> Get(JwtAuthGuard, {"KnowledgeArticle", "Category", "User"}),
     suggest  |-> Get(JwtAuthGuard, {"KnowledgeArticle"}),
     findOne  |-> Get(JwtAuthGuard, {"KnowledgeArticle", "Category", "User", "Ticket"}),
     create   |-> Change(Maintainers, {"KnowledgeArticle"}),
     update   |-> Change(Maintainers, {"KnowledgeArticle"}),
     remove   |-> Change(Admins, {"KnowledgeArticle", "KnowledgeArticleAttachment"}),
     files    |-> Get(JwtAuthGuard, {"KnowledgeArticleAttachment"}),
     upload   |-> Change(Maintainers, {"KnowledgeArticleAttachment"}),
     dropFile |-> Change(Maintainers, {"KnowledgeArticleAttachment"})]

-----------------------------------------------------------------------------
(* People, notifications, the system itself *)

\* The list of accounts counts the open tickets of each ("Workload").  Removing an account
\* hands its tickets, requests and visits to another.
UsersController ==
    [findAll   |-> Get(Admins, {"User", "Workload"}),
     local     |-> Change(Admins, {"User"}),
     remove    |-> Change(Admins, {"User", "Workload", "Ticket", "TicketVisit", "CalendarTask",
                                   "CartridgeRequest", "RefillEvent"}),
     directory |-> Get(Maintainers, {"User"}),
     syncLdap  |-> Change(Admins, {"User"}),
     loginLog  |-> Get(Admins, {"LoginEvent"}),
     role      |-> Change(Admins, {"User"})]

\* A broadcast goes to everybody, or to one: its sender may be among them.
NotificationsController ==
    [quietHours     |-> Get(Admins, {"NotificationSettings"}),
     setQuietHours  |-> Change(Admins, {"NotificationSettings"}),
     broadcast      |-> Change(Admins, {"Notification"}),
     preferences    |-> Get(JwtAuthGuard, {"NotificationPreference"}),
     setPreferences |-> Change(JwtAuthGuard, {"NotificationPreference"}),
     findMine       |-> Get(JwtAuthGuard, {"Notification"}),
     readAll        |-> Change(JwtAuthGuard, {"Notification"})]

SystemController ==
    [retention       |-> Get(Admins, {"TicketRetentionSettings"}),
     setRetention    |-> Change(Admins, {"TicketRetentionSettings"}),
     flags           |-> Get(JwtAuthGuard, {"SystemFlag"}),
     adminFlags      |-> Get(Admins, {"SystemFlag"}),
     setFlag         |-> Change(Admins, {"SystemFlag"}),
     maintenance     |-> Get(JwtAuthGuard, {"SystemFlag"}),
     workingHours    |-> Get(JwtAuthGuard, {"WorkingHoursSettings"}),
     setWorkingHours |-> Change(Admins, {"WorkingHoursSettings"}),
     health          |-> Get(Admins, {"WebPushSubscription"}),
     errors          |-> Get(Admins, {"ErrorLog"}),
     resolveError    |-> Change(Admins, {"ErrorLog"})]

WallboardController ==
    [list   |-> Get(Admins, {"KioskToken"}),
     create |-> Change(Admins, {"KioskToken"}),
     revoke |-> Change(Admins, {"KioskToken"})]

\* What one finds is limited to what one may see, never refused.
SearchController ==
    [find |-> Get(JwtAuthGuard, {"Ticket", "KnowledgeArticle", "User", "Location"})]

MaxLink ==
    [status |-> Get(JwtAuthGuard, {}),
     link   |-> Get(JwtAuthGuard, {"MaxLink"}),
     unlink |-> Change(JwtAuthGuard, {"MaxLink"})]
=============================================================================
