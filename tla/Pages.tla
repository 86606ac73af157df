-------------------------------- MODULE Pages --------------------------------
(***************************************************************************)
(* What the screens of the browser ask the server and offer the user: for  *)
(* every page its queries, each with the key it is cached under, and its   *)
(* buttons, each with the keys it declares stale when the server has       *)
(* answered.  Who asks and who is offered what is decided in the browser,  *)
(* by code that repeats the rules of the server.                           *)
(***************************************************************************)
EXTENDS Routes, FiniteSets

Query(id, route, where)  == [key |-> id, route |-> route, where |-> where, polled |-> FALSE]
Polled(id, route, where) == [key |-> id, route |-> route, where |-> where, polled |-> TRUE]

\* A button that leaves the page when it has succeeded declares nothing here:
\* what is fetched for the next page is the next page's.
Button(name, route, where, stale) ==
    [name |-> name, route |-> route, where |-> where, stale |-> stale, leaves |-> FALSE]
Leaving(name, route, where) ==
    [name |-> name, route |-> route, where |-> where, stale |-> {}, leaves |-> TRUE]
Page(queries, buttons) == [queries |-> queries, buttons |-> buttons]

\* What the browser takes for a member of the technical support.
IsStaff  == RolesGuard({"ADMIN", "INTERN"})
IsAdmin  == RolesGuard({"ADMIN"})
AnyUser  == Scene

-----------------------------------------------------------------------------
(* The frame around every page *)

FlagsKey == <<"system", "flags">>

FeatureFlagsProvider == {Polled(FlagsKey, SystemController.flags, AnyUser)}

LayoutQueries ==
    {Polled(<<"announcement">>, AnnouncementsController.active, AnyUser),
     Polled(<<"system", "maintenance">>, SystemController.maintenance, AnyUser)}

NotificationBell ==
    Page({Polled(<<"notifications">>, NotificationsController.findMine, AnyUser)},
         {Button("readAll", NotificationsController.readAll, AnyUser, {<<"notifications">>})})

CommandPalette ==
    Page({Query(<<"search", "text">>, SearchController.find, AnyUser)}, {})

-----------------------------------------------------------------------------
(* The page of one ticket *)

TicketKey     == <<"tickets", "id">>
CommentsKey   == <<"tickets", "id", "comments">>
HistoryKey    == <<"tickets", "id", "history">>

IsCreator == {s \in Scene : s.creator}
IsWorker  == {s \in Scene : s.hand \in {"assignee", "collaborator"}}
\* Slip (not the code; see MCScreens): the applicant is offered the work too.
CanActOnStatusSlip == IsAdmin \cup IsWorker \cup IsCreator
CanActOnStatus == IsAdmin \cup {s \in IsWorker : Role[s.account] = "INTERN"}
CanManageCollaborators == IsAdmin \cup {s \in Scene : s.hand = "assignee"}

\* The buttons the map of transitions allows from the status on the screen; a
\* button is called by the status it asks for.
NextStatus(to) == {s \in Scene : to \in AllowedStatusTransitions[s.status]}

TicketQueries ==
    {Query(TicketKey, TicketsController.findOne, AnyUser),
     Query(CommentsKey, Comments.read, AnyUser),
     Query(<<"tickets", "id", "attachments">>, Attachments.read, AnyUser),
     Query(HistoryKey, Comments.history, AnyUser),
     Query(<<"categories", "all">>, CategoriesController.findAll, AnyUser),
     Query(<<"users">>, UsersController.findAll, IsAdmin),
     Query(<<"knowledge-articles", "everything">>, KnowledgeController.findAll, IsStaff),
     Query(<<"users", "staff-directory">>, UsersController.directory, IsStaff),
     Query(<<"tags">>, TagsController.findAll, IsStaff),
     Query(<<"text-snippets", "CANNED_RESPONSE">>, TextSnippetsController.findAll, IsStaff)}

invalidateTicket == {TicketKey, HistoryKey, <<"tickets">>}

\* A message declares only the discussion stale, its files or not.
invalidateComments == {CommentsKey}

TicketHeader ==
    {Button("report", Comments.report, AnyUser, {}),
     Leaving("delete", TicketChanges.remove, IsAdmin)}

TagsPanel == {Button("setTags", TicketChanges.setTags, IsStaff, invalidateTicket)}

CollaboratorsPanel ==
    {Button("addCollaborator", addCollaborator,
            IsStaff \cap CanManageCollaborators, invalidateTicket),
     Button("removeCollaborator", removeCollaborator,
            IsStaff \cap CanManageCollaborators, invalidateTicket),
     Button("removeOneself", removeOneself,
            {s \in IsStaff : s.hand = "collaborator"}, invalidateTicket)}

ActionsPanel ==
    {Button("assignSelf", TicketChanges.assignSelf,
            {s \in IsAdmin : s.hand = "none"}, invalidateTicket),
     Button("assign", TicketChanges.assign, IsAdmin, invalidateTicket),
     Button("classify", TicketChanges.classify, CanActOnStatus, invalidateTicket)}
    \cup {Button(to, ChangeStatus(to), CanActOnStatus \cap NextStatus(to), invalidateTicket) :
              to \in Status \ {"REOPENED"}}

ReopenPanel ==
    {Button("reopen", ChangeStatus("REOPENED"),
            NextStatus("REOPENED") \cap (IsCreator \cup IsAdmin), invalidateTicket)}

RatePanel ==
    {Button("rate", TicketChanges.rate,
            {s \in IsCreator : s.status \in {"RESOLVED", "CLOSED"}}, invalidateTicket)}

\* Edit and delete stand under one's own messages, whoever one is.
Discussion ==
    {Button("editComment", Comments.update, AnyUser, invalidateComments),
     Button("deleteComment", Comments.remove, AnyUser, invalidateComments)}

\* Articles, mentions and internal notes are for the staff.
Composer ==
    LET canComment == IsAdmin \cup IsCreator \cup IsWorker
    IN  {Button("comment", Comments.create, canComment, invalidateComments),
         Button("commentFiles", Comments.files, canComment, invalidateComments),
         Button("commentStaff", Comments.staff, canComment \cap IsStaff, invalidateComments)}

-----------------------------------------------------------------------------
(* The block of visits and the block of tasks of that page *)

VisitsKey == <<"tickets", "id", "visits">>

VisitQueries ==
    {Query(VisitsKey, VisitsController.list, AnyUser),
     Query(<<"working-hours">>, SystemController.workingHours, AnyUser),
     Query(<<"visit-conflicts">>, VisitsController.conflicts, {s \in IsStaff : s.visit = "none"})}

invalidateVisit == {VisitsKey, HistoryKey, TicketKey, <<"my-day">>}

requesterPicks == {s \in IsCreator : s.visit = "PROPOSED"}
staffPicks     == {s \in IsStaff : s.visit = "COUNTERED"}
confirmed      == {s \in Scene : s.visit = "CONFIRMED"}

\* Once the visit is over the staff is asked whether the ticket is solved.
ResolveAfter(name, stale) ==
    Button(name, ChangeStatus("RESOLVED"),
           {s \in IsStaff : s.status = "IN_PROGRESS"}, stale)

ConfirmedVisit ==
    {Button("visitDone", VisitDone, confirmed \cap IsStaff, invalidateVisit),
     Button("visitCancel", VisitCancel, confirmed \cap (IsStaff \cup IsCreator), invalidateVisit),
     ResolveAfter("resolveAfterVisit", invalidateVisit)}

ProposedVisit ==
    {Button("visitConfirm", ConfirmVisit, requesterPicks \cup staffPicks, invalidateVisit),
     Button("visitCounter", CounterVisit, requesterPicks, invalidateVisit),
     Button("visitRefuse", VisitCancel, requesterPicks, invalidateVisit)}

NewVisit ==
    {Button("visitPropose", VisitsController.propose,
            {s \in IsStaff : s.visit = "none"}, invalidateVisit)}

TasksKey == <<"ticket-tasks", "id">>
invalidateTasks == {TasksKey, <<"calendar-tasks">>, <<"my-day">>}

TicketTasksBlock ==
    Page({Query(TasksKey, CalendarTasksController.listByTicket, IsStaff)},
         {Button("taskToggle", CalendarTasksController.update, IsStaff, invalidateTasks),
          Button("taskDelete", CalendarTasksController.remove, IsStaff, invalidateTasks),
          ResolveAfter("resolveAfterTask", {TicketKey, HistoryKey})})

\* The form opens over the page of a ticket, or over the calendar.
CalendarTaskModal(save) ==
    {Button("taskSave", save, IsStaff,
            {<<"calendar-tasks">>, <<"ticket-tasks">>, <<"my-day">>})}

VisitBlock == Page(VisitQueries, ConfirmedVisit \cup ProposedVisit \cup NewVisit)

TicketDetailPage ==
    Page(TicketQueries \cup VisitBlock.queries \cup TicketTasksBlock.queries,
         UNION {TicketHeader, TagsPanel, CollaboratorsPanel, ActionsPanel, ReopenPanel,
                RatePanel, Discussion, Composer, VisitBlock.buttons, TicketTasksBlock.buttons,
                CalendarTaskModal(CalendarTasksController.createFor)})

-----------------------------------------------------------------------------
(* Tickets and the calendar *)

TicketsListPage ==
    Page({Query(<<"tags">>, TagsController.findAll, AnyUser),
          Query(<<"staff-directory">>, UsersController.directory, IsStaff),
          Query(<<"tickets", "filters">>, TicketsController.findAll, AnyUser)},
         {Button("bulk", TicketsController.bulk, IsStaff, {<<"tickets">>}),
          Button("myReport", TicketsController.reportMine, AnyUser, {})})

CreateTicketPage ==
    Page({Query(<<"locations">>, LocationsController.findAll, AnyUser),
          Query(<<"knowledge-articles", "suggest">>, KnowledgeController.suggest, AnyUser),
          Query(<<"text-snippets", "TICKET_TEMPLATE">>, TextSnippetsController.findAll, AnyUser)},
         {Leaving("create", TicketsController.create, AnyUser)})

DashboardPage ==
    Page({Polled(<<"my-day">>, TicketsController.myDay, AnyUser)},
         {Button("taskToggle", CalendarTasksController.update, {s \in IsStaff : s.mine},
                 {<<"my-day">>, <<"calendar-tasks">>})})

CalendarPage ==
    Page({Query(<<"working-hours">>, SystemController.workingHours, AnyUser),
          Query(<<"visits-calendar", "range">>, VisitsController.calendar, AnyUser),
          Query(<<"calendar-tasks", "range">>, CalendarTasksController.list, AnyUser),
          Query(<<"users">>, UsersController.findAll, IsAdmin),
          Query(<<"tickets", "task-picker">>, TicketsController.findAll, AnyUser)},
         {Button("visitMove", VisitsController.reschedule,
                 {s \in Scene : s.hand = "assignee" \/ s \in IsAdmin},
                 {<<"visits-calendar">>, <<"my-day">>}),
          Button("taskMove", CalendarTasksController.update,
                 {s \in Scene : s.mine \/ s \in IsAdmin},
                 {<<"calendar-tasks">>, <<"my-day">>})}
         \cup CalendarTaskModal(CalendarTasksController.create))

-----------------------------------------------------------------------------
(* Cartridges *)

CartridgesPage ==
    Page({Query(<<"locations">>, LocationsController.findAll, AnyUser),
          Query(<<"cartridges", "filters">>, CartridgesController.findAll, AnyUser),
          Query(<<"refill-events">>, RefillEventsController.findAll, AnyUser)},
         {Button("create", CartridgesController.create, AnyUser, {<<"cartridges">>}),
          Button("collect", CartridgesController.collect, IsStaff, {<<"cartridges">>}),
          Button("cancel", CartridgesController.cancel, IsCreator \cup IsAdmin, {<<"cartridges">>}),
          Button("labels", CartridgesController.labels, IsStaff, {})})

CartridgeReportsPage ==
    LET both == {<<"cartridges">>, <<"cartridge-reports">>}
    IN  Page({Query(<<"cartridges", "COLLECTED">>, CartridgesController.findAll, AnyUser),
              Query(<<"cartridge-reports">>, CartridgeReportsController.findAll, AnyUser)},
             {Button("generate", CartridgeReportsController.generate, AnyUser, both),
              Button("close", CartridgeReportsController.close, AnyUser, both),
              Button("download", CartridgeReportsController.download, AnyUser, {})})

CartridgeArchivePage ==
    Page({Query(<<"cartridges", "FILLED">>, CartridgesController.findAll, AnyUser)}, {})

CartridgeArrivalScanPage ==
    Page({}, {Button("scan", CartridgesController.scanArrival, AnyUser, {})})

RefillEventsPage ==
    Page({Query(<<"refill-events">>, RefillEventsController.findAll, AnyUser)},
         {Button("create", RefillEventsController.create, AnyUser, {<<"refill-events">>}),
          Button("cancel", RefillEventsController.update, AnyUser, {<<"refill-events">>})})

-----------------------------------------------------------------------------
(* Knowledge *)

KnowledgeBasePage ==
    Page({Query(<<"knowledge-articles", "filters">>, KnowledgeController.findAll, AnyUser),
          Query(<<"categories", "all">>, CategoriesController.findAll, AnyUser)},
         {Button("create", KnowledgeController.create, AnyUser, {<<"knowledge-articles">>})})

ArticleKey      == <<"knowledge-articles", "id">>
ArticleFilesKey == <<"knowledge-articles", "id", "attachments">>

KnowledgeArticleDetailPage ==
    Page({Query(ArticleKey, KnowledgeController.findOne, AnyUser),
          Query(<<"categories", "all">>, CategoriesController.findAll, IsStaff),
          Query(ArticleFilesKey, KnowledgeController.files, AnyUser)},
         {Button("upload", KnowledgeController.upload, IsStaff, {ArticleFilesKey}),
          Button("dropFile", KnowledgeController.dropFile, IsStaff, {ArticleFilesKey}),
          Button("update", KnowledgeController.update, IsStaff, {<<"knowledge-articles">>}),
          Leaving("delete", KnowledgeController.remove, IsAdmin)})

-----------------------------------------------------------------------------
(* Pages of the administrator *)

\* A table of rows added, switched on and off, and removed.
Editor(root, controller) ==
    Page({Query(<<root, "all">>, controller.findAll, AnyUser)},
         {Button("create", controller.create, AnyUser, {<<root>>}),
          Button("toggle", controller.update, AnyUser, {<<root>>}),
          Button("delete", controller.remove, AnyUser, {<<root>>})})

CategoriesPage == Editor("categories", CategoriesController)
LocationsPage  == Editor("locations", LocationsController)

\* The rules of a tag are part of its row.
TagsPage ==
    LET rows == Editor("tags", TagsController)
    IN  [rows EXCEPT !.buttons = @ \cup
            {Button("addRule", TagsController.addRule, AnyUser, {<<"tags">>}),
             Button("removeRule", TagsController.removeRule, AnyUser, {<<"tags">>})}]

TextSnippetsPage ==
    LET kind == {<<"text-snippets", "kind">>}
    IN  Page({Query(<<"text-snippets", "kind", "all">>, TextSnippetsController.findAll, AnyUser)},
             {Button("create", TextSnippetsController.create, AnyUser, kind),
              Button("toggle", TextSnippetsController.update, AnyUser, kind),
              Button("reorder", TextSnippetsController.update, AnyUser, kind),
              Button("delete", TextSnippetsController.remove, AnyUser, kind)})

UsersPage ==
    Page({Query(<<"users">>, UsersController.findAll, AnyUser)},
         {Button("role", UsersController.role, AnyUser, {<<"users">>}),
          Button("sync", UsersController.syncLdap, AnyUser, {<<"users">>}),
          Button("create", UsersController.local, AnyUser, {<<"users">>}),
          Button("delete", UsersController.remove, AnyUser, {<<"users">>})})

\* One form over one row of settings.
Settings(id, read, write) ==
    Page({Query(id, read, AnyUser)}, {Button("save", write, AnyUser, {id})})

SlaConfigPage ==
    Settings(<<"sla-configs">>, SlaController.findAll, SlaController.update)
WorkingHoursPage ==
    Settings(<<"working-hours">>, SystemController.workingHours, SystemController.setWorkingHours)
QuietHoursPage ==
    Settings(<<"quiet-hours">>, NotificationsController.quietHours,
             NotificationsController.setQuietHours)
NotificationPreferencesPage ==
    Settings(<<"notification-preferences">>, NotificationsController.preferences,
             NotificationsController.setPreferences)

TicketArchivePage ==
    Page({Query(<<"ticket-retention">>, SystemController.retention, AnyUser),
          Query(<<"tickets", "archived">>, TicketsController.findAll, AnyUser)},
         {Button("save", SystemController.setRetention, AnyUser, {<<"ticket-retention">>}),
          Button("unarchive", TicketChanges.archive, AnyUser, {<<"tickets">>})})

\* The banner on this page is the one of the frame.
AnnouncementPage ==
    Page({}, {Button("publish", AnnouncementsController.publish, AnyUser, {<<"announcement">>}),
              Button("clear", AnnouncementsController.clear, AnyUser, {<<"announcement">>})})

BroadcastNotificationPage ==
    Page({Query(<<"users">>, UsersController.findAll, AnyUser)},
         {Button("send", NotificationsController.broadcast, AnyUser, {})})

\* Maintenance is switched on here too.
FeatureFlagsPage ==
    Page({Query(<<"system", "flags", "admin">>, SystemController.adminFlags, AnyUser)},
         {Button("setFlag", SystemController.setFlag, AnyUser, {FlagsKey})})

WallboardKioskPage ==
    Page({Query(<<"kiosk-tokens">>, WallboardController.list, AnyUser)},
         {Button("create", WallboardController.create, AnyUser, {<<"kiosk-tokens">>}),
          Button("revoke", WallboardController.revoke, AnyUser, {<<"kiosk-tokens">>})})

ServicesPage ==
    LET all == {<<"local-services">>}
    IN  Page({Query(<<"local-services", "showHidden">>, LocalServicesController.findAll, AnyUser)},
             {Button("create", LocalServicesController.create, IsAdmin, all),
              Button("save", LocalServicesController.update, IsAdmin, all),
              Button("visibility", LocalServicesController.visibility, IsAdmin, all),
              Button("delete", LocalServicesController.remove, IsAdmin, all)})

SystemHealthPage ==
    Page({Polled(<<"system", "health">>, SystemController.health, AnyUser)}, {})

ErrorLogPage ==
    Page({Query(<<"system", "errors", "all">>, SystemController.errors, AnyUser)},
         {Button("resolve", SystemController.resolveError, AnyUser, {<<"system", "errors">>})})

AssigneeStatsPage ==
    Page({Query(<<"assignee-stats", "period">>, TicketsController.assigneeStats, AnyUser)},
         {Button("download", TicketsController.exportStats, AnyUser, {})})

LoginLogPage ==
    Page({Query(<<"login-events">>, UsersController.loginLog, AnyUser)}, {})

MaxLinkPage ==
    Page({Query(<<"max", "status">>, MaxLink.status, AnyUser),
          Query(<<"max", "link">>, MaxLink.link, AnyUser)},
         {Button("unlink", MaxLink.unlink, AnyUser, {<<"max", "link">>})})

-----------------------------------------------------------------------------
(* The map of the site *)

Pages ==
    [tickets      |-> TicketsListPage,          ticket       |-> TicketDetailPage,
     newTicket    |-> CreateTicketPage,         dashboard    |-> DashboardPage,
     calendar     |-> CalendarPage,             cartridges   |-> CartridgesPage,
     reports      |-> CartridgeReportsPage,     filled       |-> CartridgeArchivePage,
     arrival      |-> CartridgeArrivalScanPage, refills      |-> RefillEventsPage,
     knowledge    |-> KnowledgeBasePage,        article      |-> KnowledgeArticleDetailPage,
     categories   |-> CategoriesPage,           locations    |-> LocationsPage,
     tags         |-> TagsPage,                 snippets     |-> TextSnippetsPage,
     users        |-> UsersPage,                sla          |-> SlaConfigPage,
     workingHours |-> WorkingHoursPage,         quietHours   |-> QuietHoursPage,
     preferences  |-> NotificationPreferencesPage,
     archive      |-> TicketArchivePage,        announcement |-> AnnouncementPage,
     broadcast    |-> BroadcastNotificationPage,
     flags        |-> FeatureFlagsPage,         kiosks       |-> WallboardKioskPage,
     services     |-> ServicesPage,             health       |-> SystemHealthPage,
     errors       |-> ErrorLogPage,             stats        |-> AssigneeStatsPage,
     logins       |-> LoginLogPage,             max          |-> MaxLinkPage,
     search       |-> CommandPalette]

\* Whom the browser lets onto a page.
OpenPages  == {"tickets", "newTicket", "ticket", "preferences", "max", "cartridges",
               "article", "search"}
StaffPages == {"dashboard", "calendar", "knowledge", "arrival"}
ProtectedRoute(p) ==
    IF p \in OpenPages THEN AnyUser
    ELSE IF p \in StaffPages THEN IsStaff
    ELSE IsAdmin

\* Entries of the menu, the frame's own included.
Entry(pages, where) == {[page |-> p, where |-> where] : p \in pages}
MenuItems ==
    Entry({"tickets", "newTicket", "cartridges", "preferences", "max", "search"}, AnyUser)
    \cup Entry({"dashboard", "calendar", "knowledge", "arrival"}, IsStaff)
    \cup Entry({"services", "reports", "filled", "refills", "users", "categories", "tags",
                "locations", "sla", "snippets", "archive", "broadcast", "announcement",
                "quietHours", "workingHours", "stats", "logins", "health", "errors",
                "flags", "kiosks"}, IsAdmin)
=============================================================================
