----------------------------- MODULE ScreensProofs -----------------------------
(***************************************************************************)
(* Proofs about Screens, for every set of accounts with any role each:     *)
(* nothing is offered to a user that the server refuses him, and what he   *)
(* changes is shown.  What a page offers and declares stale is constant,   *)
(* so that most of the work is done page by page; the invariants say that  *)
(* the scene fits the page, and what a press must not lose on its way.     *)
(***************************************************************************)
EXTENDS Screens, TLAPS

\* The queries and the buttons of a page a scene may stand before.
Answered(q, s) ==
    s \in q.where =>
        \/ s \in q.route.who
        \/ s.hand = "collaborator" /\ q.key \in {VisitsKey, TasksKey}
Accepted(b, s) == s \in b.where => s \in b.route.who \/ KnownRefusal(b, s)
Honest(view, s) ==
    /\ \A q \in view.queries : Answered(q, s)
    /\ \A b \in view.buttons : Accepted(b, s)

-----------------------------------------------------------------------------
(* Who sits before which page *)

LEMMA AdminScenes ==
    ASSUME NEW p \in PageName \ (OpenPages \cup StaffPages), NEW s \in Scenes(p)
    PROVE  s \in Scene /\ s \in Admins
BY DEF Scenes, ProtectedRoute, IsAdmin, Admins, RolesGuard, OpenPages

LEMMA StaffScenes ==
    ASSUME NEW p \in StaffPages, NEW s \in Scenes(p)
    PROVE  s \in Scene /\ s \in Maintainers
BY DEF Scenes, ProtectedRoute, IsStaff, Maintainers, RolesGuard, OpenPages, StaffPages

LEMMA OpenScenes ==
    ASSUME NEW p \in OpenPages, NEW s \in Scenes(p)
    PROVE  s \in Scene /\ (p = "ticket" => s \in Viewers)
BY DEF Scenes, ProtectedRoute, AnyUser, OpenPages, Viewers

LEMMA ScenesAreScenes == \A p \in PageName : Scenes(p) \subseteq Scene
BY AdminScenes, StaffScenes, OpenScenes

-----------------------------------------------------------------------------
(* Whom the routes let through that many pages use *)

LEMMA SharedRoutes ==
    /\ TicketsController.findAll.who = Scene
    /\ TicketsController.reportMine.who = Scene
    /\ TicketsController.bulk.who = Maintainers
    /\ UsersController.findAll.who = Admins
    /\ UsersController.directory.who = Maintainers
    /\ TagsController.findAll.who = Scene
    /\ LocationsController.findAll.who = Scene
    /\ CategoriesController.findAll.who = Scene
    /\ TextSnippetsController.findAll.who = Scene
    /\ SystemController.workingHours.who = Scene
    /\ VisitsController.calendar.who = Maintainers
    /\ VisitsController.reschedule.who = Technicians
    /\ CalendarTasksController.list.who = Maintainers
    /\ CalendarTasksController.create.who = Maintainers
    /\ CalendarTasksController.update.who = TaskEditors
    /\ CalendarTasksController.remove.who = TaskEditors
    /\ KnowledgeController.findAll.who = Scene
    /\ KnowledgeController.create.who = Maintainers
    /\ CartridgesController.findAll.who = Scene
    /\ CartridgesController.create.who = StaffOnlyGuard
    /\ CartridgesController.collect.who = Maintainers
    /\ CartridgesController.cancel.who = Requesters \cup Admins
    /\ CartridgesController.labels.who = Maintainers
    /\ RefillEventsController.findAll.who = Scene
<1>. USE DEF Get, Change, JwtAuthGuard, Directory
<1>1. /\ TicketsController.findAll.who = Scene
      /\ TicketsController.reportMine.who = Scene
      /\ TicketsController.bulk.who = Maintainers
  BY DEF TicketsController
<1>2. UsersController.findAll.who = Admins /\ UsersController.directory.who = Maintainers
  BY DEF UsersController
<1>3. TagsController.findAll.who = Scene
  BY DEF TagsController
<1>4. /\ LocationsController.findAll.who = Scene
      /\ CategoriesController.findAll.who = Scene
      /\ TextSnippetsController.findAll.who = Scene
  BY DEF LocationsController, CategoriesController, TextSnippetsController
<1>5. SystemController.workingHours.who = Scene
  BY DEF SystemController
<1>6. /\ VisitsController.calendar.who = Maintainers
      /\ VisitsController.reschedule.who = Technicians
  BY DEF VisitsController
<1>7. /\ CalendarTasksController.list.who = Maintainers
      /\ CalendarTasksController.create.who = Maintainers
      /\ CalendarTasksController.update.who = TaskEditors
      /\ CalendarTasksController.remove.who = TaskEditors
  BY DEF CalendarTasksController
<1>8. KnowledgeController.findAll.who = Scene /\ KnowledgeController.create.who = Maintainers
  BY DEF KnowledgeController
<1>9. /\ CartridgesController.findAll.who = Scene
      /\ CartridgesController.create.who = StaffOnlyGuard
      /\ CartridgesController.collect.who = Maintainers
      /\ CartridgesController.cancel.who = Requesters \cup Admins
      /\ CartridgesController.labels.who = Maintainers
  BY DEF CartridgesController
<1>10. RefillEventsController.findAll.who = Scene
  BY DEF RefillEventsController
<1>. QED
  BY ONLY <1>1, <1>2, <1>3, <1>4, <1>5, <1>6, <1>7, <1>8, <1>9, <1>10

-----------------------------------------------------------------------------
(* Pages of the administrator *)

LEMMA EditorHonest ==
    ASSUME NEW s \in Admins, NEW root, NEW controller,
           controller.findAll.who = Scene, controller.create.who = Admins,
           controller.update.who = Admins, controller.remove.who = Admins
    PROVE  Honest(Editor(root, controller), s)
BY DEF Honest, Answered, Accepted, Editor, Page, Query, Button, Admins, RolesGuard

LEMMA SettingsHonest ==
    ASSUME NEW s \in Scene, NEW id, NEW read, NEW write,
           s \in read.who, s \in write.who
    PROVE  Honest(Settings(id, read, write), s)
BY DEF Honest, Answered, Accepted, Settings, Page, Query, Button

LEMMA DirectoriesHonest ==
    ASSUME NEW s \in Admins
    PROVE  /\ Honest(CategoriesPage, s)
           /\ Honest(LocationsPage, s)
           /\ Honest(TagsPage, s)
           /\ Honest(TextSnippetsPage, s)
<1>1. Honest(CategoriesPage, s)
  BY EditorHonest DEF CategoriesPage, CategoriesController, Directory, Get, Change, JwtAuthGuard
<1>2. Honest(LocationsPage, s)
  BY EditorHonest DEF LocationsPage, LocationsController, Directory, Get, Change, JwtAuthGuard
<1>3. Honest(TagsPage, s)
  BY DEF TagsPage, Editor, TagsController, Get, Change, JwtAuthGuard, Honest, Answered, Accepted,
         Page, Query, Button, Admins, RolesGuard
<1>4. Honest(TextSnippetsPage, s)
  BY DEF TextSnippetsPage, TextSnippetsController, Directory, Get, Change, JwtAuthGuard, Honest,
         Answered, Accepted, Page, Query, Button, Admins, RolesGuard
<1>. QED  BY <1>1, <1>2, <1>3, <1>4

LEMMA SettingsPagesHonest ==
    ASSUME NEW s \in Admins
    PROVE  /\ Honest(SlaConfigPage, s)
           /\ Honest(WorkingHoursPage, s)
           /\ Honest(QuietHoursPage, s)
<1>1. s \in Scene
  BY DEF Admins, RolesGuard
<1>2. Honest(SlaConfigPage, s)
  BY <1>1, SettingsHonest DEF SlaConfigPage, SlaController, Get, Change, JwtAuthGuard
<1>3. Honest(WorkingHoursPage, s)
  BY <1>1, SettingsHonest DEF WorkingHoursPage, SystemController, Get, Change, JwtAuthGuard
<1>4. Honest(QuietHoursPage, s)
  BY <1>1, SettingsHonest DEF QuietHoursPage, NotificationsController, Get, Change
<1>. QED  BY <1>2, <1>3, <1>4

LEMMA AccountPagesHonest ==
    ASSUME NEW s \in Admins
    PROVE  /\ Honest(UsersPage, s)
           /\ Honest(BroadcastNotificationPage, s)
           /\ Honest(LoginLogPage, s)
           /\ Honest(AssigneeStatsPage, s)
<1>. USE DEF Honest, Answered, Accepted, Page, Query, Button, Get, Change
<1>1. Honest(UsersPage, s)
  BY DEF UsersPage, UsersController
<1>2. Honest(BroadcastNotificationPage, s)
  BY DEF BroadcastNotificationPage, UsersController, NotificationsController
<1>3. Honest(LoginLogPage, s)
  BY DEF LoginLogPage, UsersController
<1>4. Honest(AssigneeStatsPage, s)
  BY DEF AssigneeStatsPage, TicketsController
<1>. QED  BY ONLY <1>1, <1>2, <1>3, <1>4

LEMMA SystemPagesHonest ==
    ASSUME NEW s \in Admins
    PROVE  /\ Honest(FeatureFlagsPage, s)
           /\ Honest(WallboardKioskPage, s)
           /\ Honest(ServicesPage, s)
           /\ Honest(SystemHealthPage, s)
           /\ Honest(ErrorLogPage, s)
           /\ Honest(AnnouncementPage, s)
           /\ Honest(TicketArchivePage, s)
<1>. s \in Scene
  BY DEF Admins, RolesGuard
<1>. USE DEF Honest, Answered, Accepted, Page, Query, Button, Get, Change
<1>1. Honest(FeatureFlagsPage, s)
  BY DEF FeatureFlagsPage, SystemController
<1>2. Honest(WallboardKioskPage, s)
  BY DEF WallboardKioskPage, WallboardController
<1>3. Honest(ServicesPage, s)
  BY DEF ServicesPage, LocalServicesController
<1>4. Honest(SystemHealthPage, s)
  BY DEF SystemHealthPage, Polled, SystemController
<1>5. Honest(ErrorLogPage, s)
  BY DEF ErrorLogPage, SystemController
<1>6. Honest(AnnouncementPage, s)
  BY DEF AnnouncementPage, AnnouncementsController
<1>7. Honest(TicketArchivePage, s)
  BY DEF TicketArchivePage, SystemController, TicketsController, TicketChanges, JwtAuthGuard
<1>. QED  BY ONLY <1>1, <1>2, <1>3, <1>4, <1>5, <1>6, <1>7

LEMMA BatchPagesHonest ==
    ASSUME NEW s \in Admins
    PROVE  /\ Honest(CartridgeReportsPage, s)
           /\ Honest(CartridgeArchivePage, s)
           /\ Honest(RefillEventsPage, s)
<1>. s \in Scene
  BY DEF Admins, RolesGuard
<1>. USE DEF Honest, Answered, Accepted, Page, Query, Button, Get, Change, JwtAuthGuard
<1>1. Honest(CartridgeReportsPage, s)
  BY DEF CartridgeReportsPage, CartridgeReportsController, CartridgesController
<1>2. Honest(CartridgeArchivePage, s)
  BY DEF CartridgeArchivePage, CartridgesController
<1>3. Honest(RefillEventsPage, s)
  BY DEF RefillEventsPage, RefillEventsController
<1>. QED  BY ONLY <1>1, <1>2, <1>3

-----------------------------------------------------------------------------
(* Pages of the technical support *)

LEMMA SupportPagesHonest ==
    ASSUME NEW s \in Maintainers
    PROVE  /\ Honest(DashboardPage, s)
           /\ Honest(CalendarPage, s)
           /\ Honest(KnowledgeBasePage, s)
           /\ Honest(CartridgeArrivalScanPage, s)
<1>1. s \in Scene /\ (Role[s.account] = "ADMIN" <=> s \in IsAdmin)
  BY DEF Maintainers, RolesGuard, IsAdmin
<1>. USE <1>1 DEF Honest, Answered, Accepted, Page, Query, Polled, Button, Get, Change, JwtAuthGuard
<1>2. Honest(DashboardPage, s)
  BY DEF DashboardPage, TicketsController, CalendarTasksController, TaskEditors
<1>3. Honest(CalendarPage, s)
  BY SharedRoutes DEF CalendarPage, CalendarTaskModal, TaskEditors, Technicians, Admins, IsAdmin
<1>4. Honest(KnowledgeBasePage, s)
  BY SharedRoutes DEF KnowledgeBasePage
<1>5. Honest(CartridgeArrivalScanPage, s)
  BY DEF CartridgeArrivalScanPage, CartridgesController
<1>. QED  BY ONLY <1>2, <1>3, <1>4, <1>5

-----------------------------------------------------------------------------
(* Pages of everybody *)

LEMMA OpenPagesHonest ==
    ASSUME NEW s \in Scene
    PROVE  /\ Honest(TicketsListPage, s)
           /\ Honest(CreateTicketPage, s)
           /\ Honest(CartridgesPage, s)
           /\ Honest(KnowledgeArticleDetailPage, s)
           /\ Honest(NotificationPreferencesPage, s)
           /\ Honest(MaxLinkPage, s)
           /\ Honest(CommandPalette, s)
<1>1. IsStaff = Maintainers /\ IsAdmin = Admins
  BY DEF IsStaff, Maintainers, IsAdmin, Admins
<1>. USE <1>1 DEF Honest, Answered, Accepted, Page, Query, Button, Leaving, Get, Change, JwtAuthGuard
<1>2. Honest(TicketsListPage, s)
  BY SharedRoutes DEF TicketsListPage
<1>3. Honest(CreateTicketPage, s)
  BY DEF CreateTicketPage, LocationsController, TextSnippetsController, Directory,
         KnowledgeController, TicketsController, StaffOnlyGuard, KnownRefusal
<1>4. Honest(CartridgesPage, s)
  BY SharedRoutes DEF CartridgesPage, StaffOnlyGuard, KnownRefusal, IsCreator, Requesters
<1>5. Honest(KnowledgeArticleDetailPage, s)
  BY DEF KnowledgeArticleDetailPage, KnowledgeController, CategoriesController, Directory
<1>6. Honest(NotificationPreferencesPage, s)
  BY SettingsHonest DEF NotificationPreferencesPage, NotificationsController
<1>7. Honest(MaxLinkPage, s)
  BY DEF MaxLinkPage, MaxLink
<1>8. Honest(CommandPalette, s)
  BY DEF CommandPalette, SearchController
<1>. QED  BY ONLY <1>2, <1>3, <1>4, <1>5, <1>6, <1>7, <1>8

-----------------------------------------------------------------------------
(* The page of a ticket *)

LEMMA SceneFields ==
    ASSUME NEW s \in Scene
    PROVE  /\ s.account \in Account /\ s.status \in Status
           /\ s.creator \in BOOLEAN /\ s.mine \in BOOLEAN
           /\ Other \notin Account /\ Null \notin Account /\ Other # Null
BY OtherAssumption DEF Scene

\* What the policy reads off a ticket is what the scene says of it.
LEMMA TicketOfScene ==
    ASSUME NEW s \in Scene
    PROVE  /\ Ticket(s).status = s.status
           /\ Ticket(s).createdBy = s.account <=> s.creator
           /\ Ticket(s).assignedTo = s.account <=> s.hand = "assignee"
           /\ Ticket(s).assignedTo = Null <=> s.hand = "none"
           /\ s.account \in Ticket(s).collaborators <=> s.hand = "collaborator"
BY SceneFields DEF Ticket

LEMMA BareTicketOfScene ==
    ASSUME NEW s \in Scene
    PROVE  /\ BareTicket(s).createdBy = Ticket(s).createdBy
           /\ BareTicket(s).assignedTo = Ticket(s).assignedTo
           /\ BareTicket(s).collaborators = {}
BY DEF BareTicket, Ticket

LEMMA WhoSees ==
    ASSUME NEW s \in Viewers
    PROVE  /\ s \in Scene
           /\ \/ s \in Admins
              \/ Role[s.account] = "INTERN" /\ s.hand \in {"assignee", "collaborator"}
              \/ Role[s.account] = "USER" /\ s.creator
           /\ s \in BareViewers \/ s.hand = "collaborator"
<1>1. s \in Scene /\ CanView(s.account, Ticket(s))
  BY DEF Viewers
<1>. QED
  BY <1>1, TicketOfScene, BareTicketOfScene
  DEF CanView, IsTicketWorker, BareViewers, Admins, RolesGuard

LEMMA Staff == IsStaff = Maintainers /\ IsAdmin = Admins
BY DEF IsStaff, Maintainers, IsAdmin, Admins

LEMMA StaffWhoSee ==
    ASSUME NEW s \in Viewers, s \in IsStaff
    PROVE  \/ s \in Admins
           \/ Role[s.account] = "INTERN" /\ s.hand \in {"assignee", "collaborator"}
BY WhoSees DEF IsStaff, RolesGuard

LEMMA TicketQueriesHonest ==
    ASSUME NEW s \in Viewers
    PROVE  \A q \in TicketQueries : Answered(q, s)
<1>1. /\ TicketsController.findOne.who = Viewers
      /\ Comments.read.who = Viewers
      /\ Comments.history.who = Viewers
      /\ Attachments.read.who = Viewers
  BY DEF TicketsController, Comments, Attachments, Get
<1>. QED
  BY <1>1, SharedRoutes, WhoSees, Staff DEF TicketQueries, Query, Answered

\* A change of status the screen offers is one the policy allows.
LEMMA StatusOffered ==
    ASSUME NEW s \in Scene, NEW to \in Status, s \in NextStatus(to),
           \/ s \in CanActOnStatus /\ to # "REOPENED"
           \/ s \in IsAdmin
           \/ s \in IsCreator /\ to = "REOPENED"
    PROVE  s \in ChangeStatus(to).who
<1>1. IsValidStatusTransition(s.status, to)
  BY SceneFields DEF IsValidStatusTransition, NextStatus
<1>2. \/ Role[s.account] = "ADMIN"
      \/ to = "REOPENED" /\ s.creator
      \/ to # "REOPENED" /\ Role[s.account] = "INTERN" /\ s.hand \in {"assignee", "collaborator"}
  BY DEF CanActOnStatus, IsAdmin, IsWorker, IsCreator, RolesGuard
<1>3. CanChangeStatus(s.account, Ticket(s), to)
  BY <1>1, <1>2, TicketOfScene DEF CanChangeStatus, IsTicketWorker
<1>. QED
  BY <1>3 DEF ChangeStatus, Change

LEMMA ResolvingOffered ==
    ASSUME NEW s \in Viewers, NEW name, NEW stale
    PROVE  Accepted(ResolveAfter(name, stale), s)
<1>. SUFFICES ASSUME s \in IsStaff, s.status = "IN_PROGRESS"
              PROVE  s \in ChangeStatus("RESOLVED").who
  BY DEF Accepted, ResolveAfter, Button
<1>1. s \in Scene /\ s \in NextStatus("RESOLVED")
  BY WhoSees DEF NextStatus, AllowedStatusTransitions
<1>2. s \in CanActOnStatus
  BY <1>1, StaffWhoSee, Staff DEF CanActOnStatus, IsWorker
<1>. QED
  BY <1>1, <1>2, StatusOffered DEF Status

LEMMA ActionsHonest ==
    ASSUME NEW s \in Viewers
    PROVE  \A b \in UNION {TicketHeader, TagsPanel, CollaboratorsPanel, ActionsPanel} :
              Accepted(b, s)
<1>1. s \in Scene
  BY WhoSees
<1>2. \A b \in TicketHeader : Accepted(b, s)
  BY DEF TicketHeader, Accepted, Button, Leaving, Comments, TicketChanges, Get, Change, IsAdmin, Admins
<1>3. \A b \in TagsPanel : Accepted(b, s)
  BY Staff DEF TagsPanel, Accepted, Button, TicketChanges, Change
<1>4. \A b \in CollaboratorsPanel : Accepted(b, s)
  BY Staff DEF CollaboratorsPanel, Accepted, Button, addCollaborator, removeCollaborator,
               removeOneself, Change, CanManageCollaborators, Admins, RolesGuard
<1>5. \A b \in ActionsPanel : Accepted(b, s)
  <2>. SUFFICES ASSUME NEW b \in ActionsPanel, s \in b.where
                PROVE  s \in b.route.who
    BY DEF Accepted
  <2>1. CASE b = Button("assignSelf", TicketChanges.assignSelf,
                        {x \in IsAdmin : x.hand = "none"}, invalidateTicket)
    BY <1>1, <2>1, TicketOfScene
    DEF Button, TicketChanges, Change, CanSelfAssign, IsAdmin, RolesGuard
  <2>2. CASE b = Button("assign", TicketChanges.assign, IsAdmin, invalidateTicket)
    BY <1>1, <2>2 DEF Button, TicketChanges, Change, CanAssignAnyone, IsAdmin, RolesGuard
  <2>3. CASE b = Button("classify", TicketChanges.classify, CanActOnStatus, invalidateTicket)
    <3>1. s \in CanActOnStatus /\ b.route = TicketChanges.classify
      BY <2>3 DEF Button
    <3>2. CanClassify(s.account, Ticket(s))
      BY <1>1, <3>1, TicketOfScene
      DEF CanActOnStatus, IsAdmin, RolesGuard, IsWorker, CanClassify, IsTicketWorker
    <3>. QED
      BY <1>1, <3>1, <3>2 DEF TicketChanges, Change
  <2>4. ASSUME NEW to \in Status \ {"REOPENED"},
               b = Button(to, ChangeStatus(to), CanActOnStatus \cap NextStatus(to), invalidateTicket)
        PROVE  s \in b.route.who
    BY <1>1, <2>4, StatusOffered DEF Button
  <2>. QED
    BY <2>1, <2>2, <2>3, <2>4 DEF ActionsPanel
<1>. QED  BY ONLY <1>2, <1>3, <1>4, <1>5

LEMMA RequesterHonest ==
    ASSUME NEW s \in Viewers
    PROVE  \A b \in UNION {ReopenPanel, RatePanel} : Accepted(b, s)
<1>1. s \in Scene
  BY WhoSees
<1>2. \A b \in ReopenPanel : Accepted(b, s)
  BY <1>1, StatusOffered DEF ReopenPanel, Accepted, Button, Status
<1>3. \A b \in RatePanel : Accepted(b, s)
  BY <1>1, TicketOfScene
  DEF RatePanel, Accepted, Button, TicketChanges, Change, IsCreator, CanRate
<1>. QED  BY ONLY <1>2, <1>3

LEMMA DiscussionHonest ==
    ASSUME NEW s \in Viewers
    PROVE  \A b \in UNION {Discussion, Composer} : Accepted(b, s)
<1>1. s \in Scene
  BY WhoSees
<1>2. \A b \in Discussion : Accepted(b, s)
  BY <1>1 DEF Discussion, Accepted, Button, Comments, Change, JwtAuthGuard
<1>3. s \in IsAdmin \cup IsCreator \cup IsWorker => s \in Commenters
  BY <1>1, TicketOfScene
  DEF IsAdmin, RolesGuard, IsCreator, IsWorker, Commenters, CanComment, IsTicketWorker
<1>4. \A b \in Composer : Accepted(b, s)
  BY <1>3, Staff DEF Composer, Accepted, Button, Comments, Change
<1>. QED  BY ONLY <1>2, <1>4

LEMMA VisitsHonest ==
    ASSUME NEW s \in Viewers
    PROVE  Honest(VisitBlock, s)
<1>1. s \in Scene
  BY WhoSees
<1>2. VisitsController.list.who = BareViewers /\ VisitsController.conflicts.who = Maintainers
      /\ VisitsController.propose.who = BareViewers \cap Maintainers
  BY DEF VisitsController, Get, Change
<1>3. s \in IsStaff => s \in Technicians \/ s.hand = "collaborator"
  BY <1>1, StaffWhoSee DEF Technicians, Admins, RolesGuard
<1>4. \A q \in VisitQueries : Answered(q, s)
  BY <1>1, <1>2, SharedRoutes, WhoSees, Staff DEF VisitQueries, Query, Answered
<1>5. \A b \in ConfirmedVisit : Accepted(b, s)
  <2>1. Accepted(ResolveAfter("resolveAfterVisit", invalidateVisit), s)
    BY ResolvingOffered
  <2>2. Accepted(Button("visitDone", VisitDone, confirmed \cap IsStaff, invalidateVisit), s)
    BY <1>3 DEF Accepted, Button, VisitDone, Change, KnownRefusal, RefusedToHelpers
  <2>3. Accepted(Button("visitCancel", VisitCancel, confirmed \cap (IsStaff \cup IsCreator),
                        invalidateVisit), s)
    BY <1>3 DEF Accepted, Button, VisitCancel, Change, KnownRefusal, RefusedToHelpers,
                IsCreator, Requesters
  <2>. QED
    BY <2>1, <2>2, <2>3 DEF ConfirmedVisit
<1>6. \A b \in ProposedVisit : Accepted(b, s)
  BY <1>1, <1>3
  DEF ProposedVisit, Accepted, Button, ConfirmVisit, CounterVisit, VisitCancel, Change,
      requesterPicks, staffPicks, IsCreator, Requesters, KnownRefusal, RefusedToHelpers
<1>7. \A b \in NewVisit : Accepted(b, s)
  BY <1>2, WhoSees, Staff
  DEF NewVisit, Accepted, Button, KnownRefusal, RefusedToHelpers
<1>. QED
  BY <1>4, <1>5, <1>6, <1>7 DEF VisitBlock, Page, Honest

LEMMA TasksHonest ==
    ASSUME NEW s \in Viewers
    PROVE  /\ Honest(TicketTasksBlock, s)
           /\ \A b \in CalendarTaskModal(CalendarTasksController.createFor) : Accepted(b, s)
<1>1. s \in Scene
  BY WhoSees
<1>2. /\ CalendarTasksController.listByTicket.who = Maintainers \cap BareViewers
      /\ CalendarTasksController.createFor.who = Maintainers \cap BareViewers
  BY DEF CalendarTasksController, Get, Change
<1>3. \A q \in TicketTasksBlock.queries : Answered(q, s)
  BY <1>2, WhoSees, Staff DEF TicketTasksBlock, Page, Query, Answered
<1>4. s \in IsStaff /\ s.mine => s \in TaskEditors
  BY Staff DEF TaskEditors
<1>5. \A b \in TicketTasksBlock.buttons : Accepted(b, s)
  <2>1. Accepted(ResolveAfter("resolveAfterTask", {TicketKey, HistoryKey}), s)
    BY ResolvingOffered
  <2>2. /\ Accepted(Button("taskToggle", CalendarTasksController.update, IsStaff,
                           invalidateTasks), s)
        /\ Accepted(Button("taskDelete", CalendarTasksController.remove, IsStaff,
                           invalidateTasks), s)
    BY <1>4, SharedRoutes DEF Accepted, Button, KnownRefusal
  <2>. QED
    BY <2>1, <2>2 DEF TicketTasksBlock, Page
<1>6. \A b \in CalendarTaskModal(CalendarTasksController.createFor) : Accepted(b, s)
  BY <1>2, WhoSees, Staff
  DEF CalendarTaskModal, Accepted, Button, KnownRefusal, RefusedToHelpers
<1>. QED
  BY <1>3, <1>5, <1>6 DEF Honest

LEMMA TicketPageHonest ==
    ASSUME NEW s \in Viewers
    PROVE  Honest(TicketDetailPage, s)
<1>. DEFINE panels == UNION {TicketHeader, TagsPanel, CollaboratorsPanel, ActionsPanel, ReopenPanel,
                             RatePanel, Discussion, Composer, VisitBlock.buttons,
                             TicketTasksBlock.buttons,
                             CalendarTaskModal(CalendarTasksController.createFor)}
            asked == TicketQueries \cup VisitBlock.queries \cup TicketTasksBlock.queries
<1>1. TicketDetailPage.queries = asked /\ TicketDetailPage.buttons = panels
  BY DEF TicketDetailPage, Page
<1>2. \A q \in asked : Answered(q, s)
  BY TicketQueriesHonest, VisitsHonest, TasksHonest DEF Honest
<1>3. \A b \in panels : Accepted(b, s)
  BY ActionsHonest, RequesterHonest, DiscussionHonest, VisitsHonest, TasksHonest DEF Honest
<1>. QED
  BY <1>1, <1>2, <1>3 DEF Honest

-----------------------------------------------------------------------------
(* Every page, in its frame *)

AdminPages == PageName \ (OpenPages \cup StaffPages)

LEMMA PagesNamed ==
    PageName =
        {"tickets", "ticket", "newTicket", "dashboard", "calendar", "cartridges", "reports",
         "filled", "arrival", "refills", "knowledge", "article", "categories", "locations",
         "tags", "snippets", "users", "sla", "workingHours", "quietHours", "preferences",
         "archive", "announcement", "broadcast", "flags", "kiosks", "services", "health",
         "errors", "stats", "logins", "max", "search"}
BY DEF PageName, Pages

LEMMA AdminPagesHonest ==
    ASSUME NEW p \in AdminPages, NEW s \in Admins
    PROVE  Honest(Pages[p], s)
<1>1. p \in {"reports", "filled", "refills", "categories", "locations", "tags", "snippets",
             "users", "sla", "workingHours", "quietHours", "archive", "announcement",
             "broadcast", "flags", "kiosks", "services", "health", "errors", "stats", "logins"}
  BY PagesNamed DEF AdminPages, OpenPages, StaffPages
<1>2. CASE p \in {"categories", "locations", "tags", "snippets"}
  BY <1>2, DirectoriesHonest DEF Pages
<1>3. CASE p \in {"sla", "workingHours", "quietHours"}
  BY <1>3, SettingsPagesHonest DEF Pages
<1>4. CASE p \in {"users", "broadcast", "logins", "stats"}
  BY <1>4, AccountPagesHonest DEF Pages
<1>5. CASE p \in {"flags", "kiosks", "services", "health", "errors", "announcement", "archive"}
  BY <1>5, SystemPagesHonest DEF Pages
<1>6. CASE p \in {"reports", "filled", "refills"}
  BY <1>6, BatchPagesHonest DEF Pages
<1>. QED  BY <1>1, <1>2, <1>3, <1>4, <1>5, <1>6

LEMMA PagesHonest ==
    ASSUME NEW p \in PageName, NEW s \in Scenes(p)
    PROVE  Honest(Pages[p], s)
<1>1. CASE p \in AdminPages
  BY <1>1, AdminScenes, AdminPagesHonest DEF AdminPages
<1>2. CASE p \in StaffPages
  BY <1>2, StaffScenes, SupportPagesHonest DEF Pages, StaffPages
<1>3. CASE p \in OpenPages
  BY <1>3, OpenScenes, OpenPagesHonest, TicketPageHonest DEF Pages, OpenPages
<1>. QED  BY <1>1, <1>2, <1>3 DEF AdminPages

LEMMA FrameHonest ==
    ASSUME NEW s \in Scene
    PROVE  /\ \A q \in Frame : Answered(q, s)
           /\ \A b \in NotificationBell.buttons : Accepted(b, s)
BY DEF Frame, FeatureFlagsProvider, LayoutQueries, NotificationBell, Page, Polled, Button,
       Answered, Accepted, SystemController, AnnouncementsController, NotificationsController,
       Get, Change, JwtAuthGuard

\* Whoever is shown an entry of the menu gets onto its page.
LEMMA MenuHonest ==
    ASSUME NEW s \in Scene, NEW e \in MenuItems, s \in e.where
    PROVE  s \in ProtectedRoute(e.page)
BY DEF MenuItems, Entry, ProtectedRoute, OpenPages, StaffPages, AnyUser

LEMMA ScreenHonest ==
    ASSUME NEW p \in PageName, NEW s \in Scenes(p)
    PROVE  /\ \A q \in Queries[p] : Answered(q, s)
           /\ \A b \in Buttons[p] : Accepted(b, s)
<1>1. s \in Scene
  BY ScenesAreScenes
<1>2. Queries[p] = Pages[p].queries \cup Frame
  BY DEF Queries
<1>3. Buttons[p] = Pages[p].buttons \cup NotificationBell.buttons
  BY DEF Buttons
<1>. QED
  BY <1>1, <1>2, <1>3, PagesHonest, FrameHonest DEF Honest

-----------------------------------------------------------------------------
(* The invariant: the scene is one of the page that is open, and the key   *)
(* one of its queries that the user makes                                  *)

Fits == page # Home =>
    /\ page \in PageName
    /\ scene \in Scenes(page)
    /\ \E q \in Queries[page] : q.key = key /\ scene \in q.where

BrowserInv ==
    /\ Fits
    /\ scene \in Scene
    /\ data \in {"none", "current", "old"}
    /\ flight \in {"idle", "sent", "current", "old"}
    /\ DOMAIN press = {"name", "stage", "excused", "push"}
    /\ press.stage \in {"idle", "sent", "executed", "done", "failed"}
    /\ press.push \in BOOLEAN
    /\ press.push => press.stage \in {"executed", "done", "failed"}
    /\ cache \in {"empty", "current", "old"}
    /\ load \in {"idle", "current", "old"}

LEMMA SomebodyThere == AnyScene \in Scene
<1>1. PICK a \in Account : TRUE
  BY AccountAssumption
<1>2. [account |-> a, creator |-> FALSE, hand |-> "none", status |-> "NEW",
       visit |-> "none", mine |-> FALSE] \in Scene
  BY DEF Scene, Hand, Status, VisitState
<1>. QED
  BY <1>2 DEF AnyScene

LEMMA BrowserInit == Init => BrowserInv
BY SomebodyThere DEF Init, BrowserInv, Fits, NoPress

\* The steps that leave the browser where it is.
LEMMA Staying ==
    ASSUME BrowserInv, UNCHANGED browser
    PROVE  Fits' /\ scene' \in Scene
BY DEF BrowserInv, Fits, browser

LEMMA AgedValues ==
    /\ \A x \in {"none", "current", "old"} : Aged(x) \in {"none", "current", "old"}
    /\ \A x \in {"idle", "sent", "current", "old"} : Aged(x) \in {"idle", "sent", "current", "old"}
    /\ \A x \in {"idle", "current", "old"} : Aged(x) \in {"idle", "current", "old"}
BY DEF Aged

LEMMA BrowserStep == BrowserInv /\ [Next]_vars => BrowserInv'
<1>. SUFFICES ASSUME BrowserInv, [Next]_vars
              PROVE  BrowserInv'
  OBVIOUS
<1>1. CASE Open
  <2>. PICK p \in PageName :
          \E s \in ScenesOf[p] : \E q \in Queries[p] :
             /\ s \in q.where \cap q.route.who
             /\ page' = p /\ scene' = s /\ key' = q.key
             /\ data' \in {"none", "old"} /\ flight' \in {"sent", "idle"}
    BY <1>1 DEF Open
  <2>. PICK s \in ScenesOf[p] :
          \E q \in Queries[p] :
             /\ s \in q.where \cap q.route.who
             /\ page' = p /\ scene' = s /\ key' = q.key
             /\ data' \in {"none", "old"} /\ flight' \in {"sent", "idle"}
    OBVIOUS
  <2>1. PICK q \in Queries[p] :
             /\ s \in q.where \cap q.route.who
             /\ page' = p /\ scene' = s /\ key' = q.key
             /\ data' \in {"none", "old"} /\ flight' \in {"sent", "idle"}
    OBVIOUS
  <2>2. s \in Scenes(p) /\ s \in Scene
    BY <2>1, ScenesAreScenes DEF ScenesOf
  <2>. QED
    BY <1>1, <2>1, <2>2 DEF Open, server, BrowserInv, Fits
<1>2. CASE Leave
  BY <1>2, SomebodyThere DEF Leave, BrowserInv, Fits, NoPress
<1>3. CASE BeginLoad
  BY <1>3, Staying DEF BeginLoad, BrowserInv
<1>4. CASE StoreLoad
  BY <1>4, Staying DEF StoreLoad, BrowserInv
<1>5. CASE Expire
  BY <1>5, Staying DEF Expire, BrowserInv
<1>6. CASE Read
  BY <1>6, Staying DEF Read, getPublicFlags, BrowserInv
<1>7. CASE Answer
  BY <1>7, Staying DEF Answer, server, BrowserInv
<1>8. CASE Poll
  BY <1>8, Staying DEF Poll, server, BrowserInv
<1>9. CASE Press
  BY <1>9, Staying DEF Press, NoPress, server, BrowserInv
<1>10. CASE Execute
  <2>1. /\ press' = [press EXCEPT !.stage = "executed",
                                  !.excused = key = FlagsKey /\ load # "idle",
                                  !.push = PushesToSender]
        /\ data' = Aged(data) /\ flight' = Aged(flight)
        /\ UNCHANGED browser
        /\ SetFlag \/ UNCHANGED server
    BY <1>10 DEF Execute
  <2>2. PushesToSender \in BOOLEAN
    BY DEF PushesToSender
  <2>. QED
    BY <2>1, <2>2, Staying, AgedValues DEF SetFlag, server, BrowserInv
<1>11. CASE Refuse
  BY <1>11, Staying DEF Refuse, server, BrowserInv
<1>12. CASE Lose
  BY <1>12, Staying DEF Lose, server, BrowserInv
<1>13. CASE Succeed
  BY <1>13, Staying DEF Succeed, invalidateQueries, server, BrowserInv
<1>14. CASE ReceivePush \/ MissPush
  BY <1>14, Staying DEF ReceivePush, MissPush, invalidateQueries, server, BrowserInv
<1>15. CASE UNCHANGED vars
  BY <1>15, Staying DEF vars, browser, server, BrowserInv
<1>. QED
  BY <1>1, <1>2, <1>3, <1>4, <1>5, <1>6, <1>7, <1>8, <1>9, <1>10, <1>11, <1>12, <1>13, <1>14,
     <1>15
  DEF Next

LEMMA BrowserSafe == Spec => []BrowserInv
BY BrowserInit, BrowserStep, PTL DEF Spec

\* The state of the browser and of the server's cache of flags has its type;
\* the query watched is always one that the page asks for its user.
THEOREM ScreensTypeCorrect == Spec => []TypeOK
<1>1. BrowserInv => TypeOK
  BY DEF BrowserInv, Fits, TypeOK
<1>. QED
  BY <1>1, BrowserSafe, PTL

\* Whoever sits before whichever page, with whatever role and in whatever
\* relation to what it shows: apart from the refusals that are named, nothing
\* the code of the browser asks, draws or leads to is refused by the guards,
\* the policy or the services.
THEOREM NothingOfferedInVain == Spec => []OfferedIsAccepted
<1>1. BrowserInv => OfferedIsAccepted
  <2>. SUFFICES ASSUME BrowserInv, page # Home
                PROVE  /\ \A q \in Queries[page] : Answered(q, scene)
                       /\ \A b \in Buttons[page] : Accepted(b, scene)
                       /\ \A e \in MenuItems : scene \in e.where => scene \in ProtectedRoute(e.page)
    BY DEF OfferedIsAccepted, Answered, Accepted
  <2>1. page \in PageName /\ scene \in Scenes(page) /\ scene \in Scene
    BY DEF BrowserInv, Fits
  <2>. QED
    BY <2>1, ScreenHonest, MenuHonest
<1>. QED
  BY <1>1, BrowserSafe, PTL

-----------------------------------------------------------------------------
(* What a button declares stale, against what it changes *)

LEMMA KeyPrefixes ==
    /\ \A a : IsPrefix(<<a>>, <<a>>)
    /\ \A a, b : IsPrefix(<<a>>, <<a, b>>)
    /\ \A a, b, c : IsPrefix(<<a>>, <<a, b, c>>)
    /\ \A a, b : IsPrefix(<<a, b>>, <<a, b>>)
    /\ \A a, b, c : IsPrefix(<<a, b>>, <<a, b, c>>)
    /\ \A a, b, c : IsPrefix(<<a, b, c>>, <<a, b, c>>)
BY DEF IsPrefix

LEMMA NameFields ==
    /\ \A name, route, where, stale : Button(name, route, where, stale).name = name
    /\ \A name, route, where : Leaving(name, route, where).name = name
BY DEF Button, Leaving

LEMMA ButtonFields ==
    /\ \A name, route, where, stale :
          LET b == Button(name, route, where, stale)
          IN  /\ b.route = route /\ b.where = where
              /\ b.stale = stale /\ b.leaves = FALSE
    /\ \A name, route, where : Leaving(name, route, where).leaves = TRUE
BY DEF Button, Leaving

LEMMA QueryFields ==
    \A id, route, where :
       /\ Query(id, route, where).key = id
       /\ Query(id, route, where).route = route
       /\ Query(id, route, where).where = where
       /\ Polled(id, route, where).key = id
       /\ Polled(id, route, where).route = route
BY DEF Query, Polled

\* The keys declared stale cover a query, or are known to forget it; or it is
\* left to the push that a broadcast sends its sender.
Declared(b, id) == \E k \in b.stale : IsPrefix(k, id)
Lapse(p, b, id) ==
    \E f \in Forgotten : f.page = p /\ f.key = id /\ f.table \in b.route.writes
Pushed(p, b, id) == p = "broadcast" /\ b.name = "send" /\ id = <<"notifications">>
Covered(p, b, q) ==
    Touches(b, q) => Declared(b, q.key) \/ Lapse(p, b, q.key) \/ Pushed(p, b, q.key)

Unique(buttons) == \A a, b \in buttons : a.name = b.name => a = b

\* The tables the frame shows; a page may leave them alone, and the name of the
\* button of the bell.
FrameTables == {"SystemFlag", "Announcement", "Notification"}
Apart(view) ==
    /\ \A q \in view.queries : q.key # FlagsKey /\ "Notification" \notin q.route.reads
    /\ \A b \in view.buttons : b.leaves \/ b.route.writes \cap FrameTables = {}
NoBell(view) == \A b \in view.buttons : b.name # "readAll"
Covers(p, view) == \A q \in view.queries, b \in view.buttons : b.leaves \/ Covered(p, b, q)

\* A page without a slip: every query on the screen is covered by every button
\* of the page, and its buttons are told apart by their names.
Tidy(p, view) ==
    /\ \A q \in view.queries : q.key # FlagsKey /\ "Notification" \notin q.route.reads
    /\ \A q \in view.queries \cup Frame, b \in view.buttons : b.leaves \/ Covered(p, b, q)
    /\ Unique(view.buttons)
    /\ NoBell(view)

LEMMA FrameReads == \A q \in Frame : q.route.reads \subseteq FrameTables
BY QueryFields
DEF Frame, FeatureFlagsProvider, LayoutQueries, NotificationBell, Page, FrameTables,
    SystemController, AnnouncementsController, NotificationsController, Get

LEMMA BellReads ==
    \A q \in Frame : "Notification" \in q.route.reads => q.key = <<"notifications">>
BY QueryFields
DEF Frame, FeatureFlagsProvider, LayoutQueries, NotificationBell, Page,
    SystemController, AnnouncementsController, NotificationsController, Get

LEMMA ApartTidy ==
    ASSUME NEW p, NEW view, Apart(view), Covers(p, view), Unique(view.buttons), NoBell(view)
    PROVE  Tidy(p, view)
BY FrameReads DEF Tidy, Apart, Covers, Covered, Touches

LEMMA TicketsListPageTidy == Tidy("tickets", TicketsListPage)
<1>1. IsPrefix(<<"tickets">>, <<"tickets", "filters">>)
  BY KeyPrefixes
<1>2. Apart(TicketsListPage) /\ Covers("tickets", TicketsListPage)
  BY <1>1, ButtonFields, QueryFields DEF TicketsListPage, TagsController, UsersController,
         TicketsController, TICKET_INCLUDE, Report, Apart, Covers, Covered, Declared,
         Touches, FlagsKey, FrameTables, Page, Get, Change
<1>3. Unique(TicketsListPage.buttons)
  BY NameFields DEF Unique, TicketsListPage, Page
<1>4. NoBell(TicketsListPage)
  BY NameFields DEF NoBell, TicketsListPage, Page
<1>. QED  BY <1>2, <1>3, <1>4, ApartTidy

LEMMA CreateTicketPageTidy == Tidy("newTicket", CreateTicketPage)
<1>2. Apart(CreateTicketPage) /\ Covers("newTicket", CreateTicketPage)
  BY ButtonFields, QueryFields DEF CreateTicketPage, LocationsController, Directory,
         KnowledgeController, TextSnippetsController, TicketsController, TICKET_INCLUDE,
         Apart, Covers, Covered, Declared, Touches, FlagsKey, FrameTables, Page, Get, Change
<1>3. Unique(CreateTicketPage.buttons)
  BY NameFields DEF Unique, CreateTicketPage, Page
<1>4. NoBell(CreateTicketPage)
  BY NameFields DEF NoBell, CreateTicketPage, Page
<1>. QED  BY <1>2, <1>3, <1>4, ApartTidy

LEMMA DashboardPageTidy == Tidy("dashboard", DashboardPage)
<1>1. IsPrefix(<<"my-day">>, <<"my-day">>)
  BY KeyPrefixes
<1>2. Apart(DashboardPage) /\ Covers("dashboard", DashboardPage)
  BY <1>1, ButtonFields, QueryFields DEF DashboardPage, TicketsController,
         CalendarTasksController, MyDay, Apart, Covers, Covered, Declared, Touches,
         FlagsKey, FrameTables, Page, Get, Change
<1>3. Unique(DashboardPage.buttons)
  BY NameFields DEF Unique, DashboardPage, Page
<1>4. NoBell(DashboardPage)
  BY NameFields DEF NoBell, DashboardPage, Page
<1>. QED  BY <1>2, <1>3, <1>4, ApartTidy

LEMMA CalendarPageTidy == Tidy("calendar", CalendarPage)
<1>1. /\ IsPrefix(<<"calendar-tasks">>, <<"calendar-tasks", "range">>)
      /\ IsPrefix(<<"visits-calendar">>, <<"visits-calendar", "range">>)
  BY KeyPrefixes
<1>2. Apart(CalendarPage) /\ Covers("calendar", CalendarPage)
  BY SMTT(30), <1>1, ButtonFields, QueryFields DEF CalendarPage, CalendarTaskModal, SystemController,
         VisitsController, CalendarTasksController, UsersController, TicketsController,
         TICKET_INCLUDE, Apart, Covers, Covered, Declared, Touches, FlagsKey, FrameTables,
         Page, Get, Change
<1>3. Unique(CalendarPage.buttons)
  BY NameFields DEF Unique, CalendarPage, CalendarTaskModal, Page
<1>4. NoBell(CalendarPage)
  BY NameFields DEF NoBell, CalendarPage, CalendarTaskModal, Page
<1>. QED  BY <1>2, <1>3, <1>4, ApartTidy

LEMMA CartridgesPageTidy == Tidy("cartridges", CartridgesPage)
<1>1. IsPrefix(<<"cartridges">>, <<"cartridges", "filters">>)
  BY KeyPrefixes
<1>2. Apart(CartridgesPage) /\ Covers("cartridges", CartridgesPage)
  BY <1>1, ButtonFields, QueryFields DEF CartridgesPage, LocationsController, Directory,
         CartridgesController, RefillEventsController, Apart, Covers, Covered, Declared,
         Touches, FlagsKey, FrameTables, Page, Get, Change
<1>3. Unique(CartridgesPage.buttons)
  BY NameFields DEF Unique, CartridgesPage, Page
<1>4. NoBell(CartridgesPage)
  BY NameFields DEF NoBell, CartridgesPage, Page
<1>. QED  BY <1>2, <1>3, <1>4, ApartTidy

LEMMA CartridgeReportsPageTidy == Tidy("reports", CartridgeReportsPage)
<1>1. /\ IsPrefix(<<"cartridge-reports">>, <<"cartridge-reports">>)
      /\ IsPrefix(<<"cartridges">>, <<"cartridges", "COLLECTED">>)
  BY KeyPrefixes
<1>2. Apart(CartridgeReportsPage) /\ Covers("reports", CartridgeReportsPage)
  BY <1>1, ButtonFields, QueryFields DEF CartridgeReportsPage, CartridgesController,
         CartridgeReportsController, Apart, Covers, Covered, Declared, Touches, FlagsKey,
         FrameTables, Page, Get, Change
<1>3. Unique(CartridgeReportsPage.buttons)
  BY NameFields DEF Unique, CartridgeReportsPage, Page
<1>4. NoBell(CartridgeReportsPage)
  BY NameFields DEF NoBell, CartridgeReportsPage, Page
<1>. QED  BY <1>2, <1>3, <1>4, ApartTidy

LEMMA CartridgeArchivePageTidy == Tidy("filled", CartridgeArchivePage)
<1>2. Apart(CartridgeArchivePage) /\ Covers("filled", CartridgeArchivePage)
  BY ButtonFields, QueryFields DEF CartridgeArchivePage, CartridgesController, Apart,
         Covers, Covered, Declared, Touches, FlagsKey, FrameTables, Page, Get, Change
<1>3. Unique(CartridgeArchivePage.buttons)
  BY NameFields DEF Unique, CartridgeArchivePage, Page
<1>4. NoBell(CartridgeArchivePage)
  BY NameFields DEF NoBell, CartridgeArchivePage, Page
<1>. QED  BY <1>2, <1>3, <1>4, ApartTidy

LEMMA CartridgeArrivalScanPageTidy == Tidy("arrival", CartridgeArrivalScanPage)
<1>2. Apart(CartridgeArrivalScanPage) /\ Covers("arrival", CartridgeArrivalScanPage)
  BY ButtonFields, QueryFields DEF CartridgeArrivalScanPage, CartridgesController, Apart,
         Covers, Covered, Declared, Touches, FlagsKey, FrameTables, Page, Get, Change
<1>3. Unique(CartridgeArrivalScanPage.buttons)
  BY NameFields DEF Unique, CartridgeArrivalScanPage, Page
<1>4. NoBell(CartridgeArrivalScanPage)
  BY NameFields DEF NoBell, CartridgeArrivalScanPage, Page
<1>. QED  BY <1>2, <1>3, <1>4, ApartTidy

LEMMA RefillEventsPageTidy == Tidy("refills", RefillEventsPage)
<1>1. IsPrefix(<<"refill-events">>, <<"refill-events">>)
  BY KeyPrefixes
<1>2. Apart(RefillEventsPage) /\ Covers("refills", RefillEventsPage)
  BY <1>1, ButtonFields, QueryFields DEF RefillEventsPage, RefillEventsController, Apart,
         Covers, Covered, Declared, Touches, FlagsKey, FrameTables, Page, Get, Change
<1>3. Unique(RefillEventsPage.buttons)
  BY NameFields DEF Unique, RefillEventsPage, Page
<1>4. NoBell(RefillEventsPage)
  BY NameFields DEF NoBell, RefillEventsPage, Page
<1>. QED  BY <1>2, <1>3, <1>4, ApartTidy

LEMMA KnowledgeBasePageTidy == Tidy("knowledge", KnowledgeBasePage)
<1>1. IsPrefix(<<"knowledge-articles">>, <<"knowledge-articles", "filters">>)
  BY KeyPrefixes
<1>2. Apart(KnowledgeBasePage) /\ Covers("knowledge", KnowledgeBasePage)
  BY <1>1, ButtonFields, QueryFields DEF KnowledgeBasePage, KnowledgeController,
         CategoriesController, Directory, Apart, Covers, Covered, Declared, Touches,
         FlagsKey, FrameTables, Page, Get, Change
<1>3. Unique(KnowledgeBasePage.buttons)
  BY NameFields DEF Unique, KnowledgeBasePage, Page
<1>4. NoBell(KnowledgeBasePage)
  BY NameFields DEF NoBell, KnowledgeBasePage, Page
<1>. QED  BY <1>2, <1>3, <1>4, ApartTidy

LEMMA KnowledgeArticleDetailPageTidy == Tidy("article", KnowledgeArticleDetailPage)
<1>1. /\ IsPrefix(<<"knowledge-articles">>, <<"knowledge-articles", "id">>)
      /\ IsPrefix(<<"knowledge-articles">>, <<"knowledge-articles", "id", "attachments">>)
      /\ IsPrefix(<<"knowledge-articles", "id", "attachments">>, <<"knowledge-articles", "id", "attachments">>)
  BY KeyPrefixes
<1>2. Apart(KnowledgeArticleDetailPage) /\ Covers("article", KnowledgeArticleDetailPage)
  BY <1>1, ButtonFields, QueryFields DEF KnowledgeArticleDetailPage, ArticleFilesKey,
         ArticleKey, KnowledgeController, CategoriesController, Directory, Apart, Covers,
         Covered, Declared, Touches, FlagsKey, FrameTables, Page, Get, Change
<1>3. Unique(KnowledgeArticleDetailPage.buttons)
  BY NameFields DEF Unique, KnowledgeArticleDetailPage, Page
<1>4. NoBell(KnowledgeArticleDetailPage)
  BY NameFields DEF NoBell, KnowledgeArticleDetailPage, Page
<1>. QED  BY <1>2, <1>3, <1>4, ApartTidy

LEMMA CategoriesPageTidy == Tidy("categories", CategoriesPage)
<1>1. IsPrefix(<<"categories">>, <<"categories", "all">>)
  BY KeyPrefixes
<1>2. Apart(CategoriesPage) /\ Covers("categories", CategoriesPage)
  BY <1>1, ButtonFields, QueryFields DEF CategoriesPage, Editor, CategoriesController,
         Directory, Apart, Covers, Covered, Declared, Touches, FlagsKey, FrameTables, Page,
         Get, Change
<1>3. Unique(CategoriesPage.buttons)
  BY NameFields DEF Unique, CategoriesPage, Editor, Page
<1>4. NoBell(CategoriesPage)
  BY NameFields DEF NoBell, CategoriesPage, Editor, Page
<1>. QED  BY <1>2, <1>3, <1>4, ApartTidy

LEMMA LocationsPageTidy == Tidy("locations", LocationsPage)
<1>1. IsPrefix(<<"locations">>, <<"locations", "all">>)
  BY KeyPrefixes
<1>2. Apart(LocationsPage) /\ Covers("locations", LocationsPage)
  BY <1>1, ButtonFields, QueryFields DEF LocationsPage, Editor, LocationsController,
         Directory, Apart, Covers, Covered, Declared, Touches, FlagsKey, FrameTables, Page,
         Get, Change
<1>3. Unique(LocationsPage.buttons)
  BY NameFields DEF Unique, LocationsPage, Editor, Page
<1>4. NoBell(LocationsPage)
  BY NameFields DEF NoBell, LocationsPage, Editor, Page
<1>. QED  BY <1>2, <1>3, <1>4, ApartTidy

LEMMA TagsPageTidy == Tidy("tags", TagsPage)
<1>1. IsPrefix(<<"tags">>, <<"tags", "all">>)
  BY KeyPrefixes
<1>2. Apart(TagsPage) /\ Covers("tags", TagsPage)
  BY <1>1, ButtonFields, QueryFields DEF TagsPage, Editor, TagsController, Apart, Covers,
         Covered, Declared, Touches, FlagsKey, FrameTables, Page, Get, Change
<1>3. Unique(TagsPage.buttons)
  BY NameFields DEF Unique, TagsPage, Editor, Page
<1>4. NoBell(TagsPage)
  BY NameFields DEF NoBell, TagsPage, Editor, Page
<1>. QED  BY <1>2, <1>3, <1>4, ApartTidy

LEMMA TextSnippetsPageTidy == Tidy("snippets", TextSnippetsPage)
<1>1. IsPrefix(<<"text-snippets", "kind">>, <<"text-snippets", "kind", "all">>)
  BY KeyPrefixes
<1>2. Apart(TextSnippetsPage) /\ Covers("snippets", TextSnippetsPage)
  BY <1>1, ButtonFields, QueryFields DEF TextSnippetsPage, TextSnippetsController,
         Directory, Apart, Covers, Covered, Declared, Touches, FlagsKey, FrameTables, Page,
         Get, Change
<1>3. Unique(TextSnippetsPage.buttons)
  BY NameFields DEF Unique, TextSnippetsPage, Page
<1>4. NoBell(TextSnippetsPage)
  BY NameFields DEF NoBell, TextSnippetsPage, Page
<1>. QED  BY <1>2, <1>3, <1>4, ApartTidy

LEMMA UsersPageTidy == Tidy("users", UsersPage)
<1>1. IsPrefix(<<"users">>, <<"users">>)
  BY KeyPrefixes
<1>2. Apart(UsersPage) /\ Covers("users", UsersPage)
  BY <1>1, ButtonFields, QueryFields DEF UsersPage, UsersController, Apart, Covers, Covered,
         Declared, Touches, FlagsKey, FrameTables, Page, Get, Change
<1>3. Unique(UsersPage.buttons)
  BY NameFields DEF Unique, UsersPage, Page
<1>4. NoBell(UsersPage)
  BY NameFields DEF NoBell, UsersPage, Page
<1>. QED  BY <1>2, <1>3, <1>4, ApartTidy

LEMMA SlaConfigPageTidy == Tidy("sla", SlaConfigPage)
<1>1. IsPrefix(<<"sla-configs">>, <<"sla-configs">>)
  BY KeyPrefixes
<1>2. Apart(SlaConfigPage) /\ Covers("sla", SlaConfigPage)
  BY <1>1, ButtonFields, QueryFields DEF SlaConfigPage, Settings, SlaController, Apart,
         Covers, Covered, Declared, Touches, FlagsKey, FrameTables, Page, Get, Change
<1>3. Unique(SlaConfigPage.buttons)
  BY NameFields DEF Unique, SlaConfigPage, Settings, Page
<1>4. NoBell(SlaConfigPage)
  BY NameFields DEF NoBell, SlaConfigPage, Settings, Page
<1>. QED  BY <1>2, <1>3, <1>4, ApartTidy

LEMMA WorkingHoursPageTidy == Tidy("workingHours", WorkingHoursPage)
<1>1. IsPrefix(<<"working-hours">>, <<"working-hours">>)
  BY KeyPrefixes
<1>2. Apart(WorkingHoursPage) /\ Covers("workingHours", WorkingHoursPage)
  BY <1>1, ButtonFields, QueryFields DEF WorkingHoursPage, Settings, SystemController,
         Apart, Covers, Covered, Declared, Touches, FlagsKey, FrameTables, Page, Get, Change
<1>3. Unique(WorkingHoursPage.buttons)
  BY NameFields DEF Unique, WorkingHoursPage, Settings, Page
<1>4. NoBell(WorkingHoursPage)
  BY NameFields DEF NoBell, WorkingHoursPage, Settings, Page
<1>. QED  BY <1>2, <1>3, <1>4, ApartTidy

LEMMA QuietHoursPageTidy == Tidy("quietHours", QuietHoursPage)
<1>1. IsPrefix(<<"quiet-hours">>, <<"quiet-hours">>)
  BY KeyPrefixes
<1>2. Apart(QuietHoursPage) /\ Covers("quietHours", QuietHoursPage)
  BY <1>1, ButtonFields, QueryFields DEF QuietHoursPage, Settings, NotificationsController,
         Apart, Covers, Covered, Declared, Touches, FlagsKey, FrameTables, Page, Get, Change
<1>3. Unique(QuietHoursPage.buttons)
  BY NameFields DEF Unique, QuietHoursPage, Settings, Page
<1>4. NoBell(QuietHoursPage)
  BY NameFields DEF NoBell, QuietHoursPage, Settings, Page
<1>. QED  BY <1>2, <1>3, <1>4, ApartTidy

LEMMA NotificationPreferencesPageTidy == Tidy("preferences", NotificationPreferencesPage)
<1>1. IsPrefix(<<"notification-preferences">>, <<"notification-preferences">>)
  BY KeyPrefixes
<1>2. Apart(NotificationPreferencesPage) /\ Covers("preferences", NotificationPreferencesPage)
  BY <1>1, ButtonFields, QueryFields DEF NotificationPreferencesPage, Settings,
         NotificationsController, Apart, Covers, Covered, Declared, Touches, FlagsKey,
         FrameTables, Page, Get, Change
<1>3. Unique(NotificationPreferencesPage.buttons)
  BY NameFields DEF Unique, NotificationPreferencesPage, Settings, Page
<1>4. NoBell(NotificationPreferencesPage)
  BY NameFields DEF NoBell, NotificationPreferencesPage, Settings, Page
<1>. QED  BY <1>2, <1>3, <1>4, ApartTidy

LEMMA TicketArchivePageTidy == Tidy("archive", TicketArchivePage)
<1>1. /\ IsPrefix(<<"ticket-retention">>, <<"ticket-retention">>)
      /\ IsPrefix(<<"tickets">>, <<"tickets", "archived">>)
  BY KeyPrefixes
<1>2. Apart(TicketArchivePage) /\ Covers("archive", TicketArchivePage)
  BY <1>1, ButtonFields, QueryFields DEF TicketArchivePage, SystemController,
         TicketsController, TicketChanges, TICKET_INCLUDE, Apart, Covers, Covered, Declared,
         Touches, FlagsKey, FrameTables, Page, Get, Change
<1>3. Unique(TicketArchivePage.buttons)
  BY NameFields DEF Unique, TicketArchivePage, Page
<1>4. NoBell(TicketArchivePage)
  BY NameFields DEF NoBell, TicketArchivePage, Page
<1>. QED  BY <1>2, <1>3, <1>4, ApartTidy

\* The page declares nothing stale: the bell is left to the push.
LEMMA BroadcastNotificationPageTidy == Tidy("broadcast", BroadcastNotificationPage)
<1>1. \A q \in BroadcastNotificationPage.queries :
         q.key # FlagsKey /\ q.route.reads = {"User", "Workload"}
  BY QueryFields DEF BroadcastNotificationPage, UsersController, FlagsKey, Page, Get
<1>2. \A b \in BroadcastNotificationPage.buttons :
         b.name = "send" /\ b.route.writes = {"Notification"}
  BY NameFields, ButtonFields
  DEF BroadcastNotificationPage, NotificationsController, Page, Change
<1>3. \A q \in BroadcastNotificationPage.queries \cup Frame,
         b \in BroadcastNotificationPage.buttons : Covered("broadcast", b, q)
  BY <1>1, <1>2, BellReads DEF Covered, Pushed, Touches
<1>4. Unique(BroadcastNotificationPage.buttons)
  BY NameFields DEF Unique, BroadcastNotificationPage, Page
<1>5. NoBell(BroadcastNotificationPage)
  BY NameFields DEF NoBell, BroadcastNotificationPage, Page
<1>. QED  BY <1>1, <1>3, <1>4, <1>5 DEF Tidy

LEMMA WallboardKioskPageTidy == Tidy("kiosks", WallboardKioskPage)
<1>1. IsPrefix(<<"kiosk-tokens">>, <<"kiosk-tokens">>)
  BY KeyPrefixes
<1>2. Apart(WallboardKioskPage) /\ Covers("kiosks", WallboardKioskPage)
  BY <1>1, ButtonFields, QueryFields DEF WallboardKioskPage, WallboardController, Apart,
         Covers, Covered, Declared, Touches, FlagsKey, FrameTables, Page, Get, Change
<1>3. Unique(WallboardKioskPage.buttons)
  BY NameFields DEF Unique, WallboardKioskPage, Page
<1>4. NoBell(WallboardKioskPage)
  BY NameFields DEF NoBell, WallboardKioskPage, Page
<1>. QED  BY <1>2, <1>3, <1>4, ApartTidy

LEMMA ServicesPageTidy == Tidy("services", ServicesPage)
<1>1. IsPrefix(<<"local-services">>, <<"local-services", "showHidden">>)
  BY KeyPrefixes
<1>2. Apart(ServicesPage) /\ Covers("services", ServicesPage)
  BY <1>1, ButtonFields, QueryFields DEF ServicesPage, LocalServicesController, Apart,
         Covers, Covered, Declared, Touches, FlagsKey, FrameTables, Page, Get, Change
<1>3. Unique(ServicesPage.buttons)
  BY NameFields DEF Unique, ServicesPage, Page
<1>4. NoBell(ServicesPage)
  BY NameFields DEF NoBell, ServicesPage, Page
<1>. QED  BY <1>2, <1>3, <1>4, ApartTidy

LEMMA SystemHealthPageTidy == Tidy("health", SystemHealthPage)
<1>2. Apart(SystemHealthPage) /\ Covers("health", SystemHealthPage)
  BY ButtonFields, QueryFields DEF SystemHealthPage, SystemController, Apart, Covers,
         Covered, Declared, Touches, FlagsKey, FrameTables, Page, Get, Change
<1>3. Unique(SystemHealthPage.buttons)
  BY NameFields DEF Unique, SystemHealthPage, Page
<1>4. NoBell(SystemHealthPage)
  BY NameFields DEF NoBell, SystemHealthPage, Page
<1>. QED  BY <1>2, <1>3, <1>4, ApartTidy

LEMMA ErrorLogPageTidy == Tidy("errors", ErrorLogPage)
<1>1. IsPrefix(<<"system", "errors">>, <<"system", "errors", "all">>)
  BY KeyPrefixes
<1>2. Apart(ErrorLogPage) /\ Covers("errors", ErrorLogPage)
  BY <1>1, ButtonFields, QueryFields DEF ErrorLogPage, SystemController, Apart, Covers,
         Covered, Declared, Touches, FlagsKey, FrameTables, Page, Get, Change
<1>3. Unique(ErrorLogPage.buttons)
  BY NameFields DEF Unique, ErrorLogPage, Page
<1>4. NoBell(ErrorLogPage)
  BY NameFields DEF NoBell, ErrorLogPage, Page
<1>. QED  BY <1>2, <1>3, <1>4, ApartTidy

LEMMA AssigneeStatsPageTidy == Tidy("stats", AssigneeStatsPage)
<1>2. Apart(AssigneeStatsPage) /\ Covers("stats", AssigneeStatsPage)
  BY ButtonFields, QueryFields DEF AssigneeStatsPage, TicketsController, Apart, Covers,
         Covered, Declared, Touches, FlagsKey, FrameTables, Page, Get, Change
<1>3. Unique(AssigneeStatsPage.buttons)
  BY NameFields DEF Unique, AssigneeStatsPage, Page
<1>4. NoBell(AssigneeStatsPage)
  BY NameFields DEF NoBell, AssigneeStatsPage, Page
<1>. QED  BY <1>2, <1>3, <1>4, ApartTidy

LEMMA LoginLogPageTidy == Tidy("logins", LoginLogPage)
<1>2. Apart(LoginLogPage) /\ Covers("logins", LoginLogPage)
  BY ButtonFields, QueryFields DEF LoginLogPage, UsersController, Apart, Covers, Covered,
         Declared, Touches, FlagsKey, FrameTables, Page, Get, Change
<1>3. Unique(LoginLogPage.buttons)
  BY NameFields DEF Unique, LoginLogPage, Page
<1>4. NoBell(LoginLogPage)
  BY NameFields DEF NoBell, LoginLogPage, Page
<1>. QED  BY <1>2, <1>3, <1>4, ApartTidy

LEMMA MaxLinkPageTidy == Tidy("max", MaxLinkPage)
<1>1. IsPrefix(<<"max", "link">>, <<"max", "link">>)
  BY KeyPrefixes
<1>2. Apart(MaxLinkPage) /\ Covers("max", MaxLinkPage)
  BY <1>1, ButtonFields, QueryFields DEF MaxLinkPage, MaxLink, Apart, Covers, Covered,
         Declared, Touches, FlagsKey, FrameTables, Page, Get, Change
<1>3. Unique(MaxLinkPage.buttons)
  BY NameFields DEF Unique, MaxLinkPage, Page
<1>4. NoBell(MaxLinkPage)
  BY NameFields DEF NoBell, MaxLinkPage, Page
<1>. QED  BY <1>2, <1>3, <1>4, ApartTidy

LEMMA CommandPaletteTidy == Tidy("search", CommandPalette)
<1>2. Apart(CommandPalette) /\ Covers("search", CommandPalette)
  BY ButtonFields, QueryFields DEF CommandPalette, SearchController, Apart, Covers, Covered,
         Declared, Touches, FlagsKey, FrameTables, Page, Get, Change
<1>3. Unique(CommandPalette.buttons)
  BY NameFields DEF Unique, CommandPalette, Page
<1>4. NoBell(CommandPalette)
  BY NameFields DEF NoBell, CommandPalette, Page
<1>. QED  BY <1>2, <1>3, <1>4, ApartTidy

LEMMA AnnouncementPageTidy == Tidy("announcement", AnnouncementPage)
<1>1. IsPrefix(<<"announcement">>, <<"announcement">>)
  BY KeyPrefixes
<1>2. \A q \in Frame, b \in AnnouncementPage.buttons : Covered("announcement", b, q)
  BY <1>1, ButtonFields, QueryFields
  DEF AnnouncementPage, AnnouncementsController, Frame, FeatureFlagsProvider, LayoutQueries,
      NotificationBell, SystemController, NotificationsController, Covered, Declared, Touches,
      Page, Get, Change
<1>3. AnnouncementPage.queries = {}
  BY DEF AnnouncementPage, Page
<1>4. Unique(AnnouncementPage.buttons)
  BY NameFields DEF Unique, AnnouncementPage, Page
<1>5. NoBell(AnnouncementPage)
  BY NameFields DEF NoBell, AnnouncementPage, Page
<1>. QED  BY <1>2, <1>3, <1>4, <1>5 DEF Tidy

\* The banner of maintenance is the one the page of flags forgets.
LEMMA FeatureFlagsPageTidy == Tidy("flags", FeatureFlagsPage)
<1>1. /\ IsPrefix(FlagsKey, FlagsKey)
      /\ IsPrefix(FlagsKey, <<"system", "flags", "admin">>)
  BY KeyPrefixes DEF FlagsKey
<1>2. \A q \in FeatureFlagsPage.queries : q.key # FlagsKey /\ q.route.reads = {"SystemFlag"}
  BY QueryFields DEF FeatureFlagsPage, SystemController, FlagsKey, Page, Get
<1>3. \A q \in FeatureFlagsPage.queries \cup Frame, b \in FeatureFlagsPage.buttons :
         Covered("flags", b, q)
  <2>1. \A b \in FeatureFlagsPage.buttons : b.stale = {FlagsKey} /\ b.route.writes = {"SystemFlag"}
    BY ButtonFields DEF FeatureFlagsPage, SystemController, Page, Change
  <2>2. \A q \in FeatureFlagsPage.queries \cup Frame :
           "SystemFlag" \in q.route.reads =>
               q.key \in {FlagsKey, <<"system", "flags", "admin">>, <<"system", "maintenance">>}
    BY QueryFields
    DEF FeatureFlagsPage, Frame, FeatureFlagsProvider, LayoutQueries, NotificationBell,
        SystemController, AnnouncementsController, NotificationsController, Page, Get
  <2>3. [page |-> "flags", key |-> <<"system", "maintenance">>, table |-> "SystemFlag"] \in Forgotten
    BY DEF Forgotten
  <2>. QED
    BY <1>1, <2>1, <2>2, <2>3 DEF Covered, Declared, Lapse, Touches
<1>4. Unique(FeatureFlagsPage.buttons)
  BY NameFields DEF Unique, FeatureFlagsPage, Page
<1>5. NoBell(FeatureFlagsPage)
  BY NameFields DEF NoBell, FeatureFlagsPage, Page
<1>. QED  BY <1>2, <1>3, <1>4, <1>5 DEF Tidy

-----------------------------------------------------------------------------
(* The page of a ticket: which of its keys shows which table *)

ConflictsKey == <<"visit-conflicts">>

TicketTables ==
    {"Ticket", "TicketCollaborator", "TicketHistory", "TicketComment", "CommentAttachment",
     "Workload", "TicketVisit", "ConfirmedVisit", "CalendarTask"}

\* One query shows each of the tables its buttons change, or two.
ShownUnder(q) ==
    /\ q.key # FlagsKey /\ "Notification" \notin q.route.reads
    /\ q.route.reads \cap {"Ticket", "TicketCollaborator"} # {} => q.key = TicketKey
    /\ "TicketHistory" \in q.route.reads => q.key = HistoryKey
    /\ q.route.reads \cap {"TicketComment", "CommentAttachment"} # {} => q.key = CommentsKey
    /\ "Workload" \in q.route.reads => q.key = <<"users">>
    /\ "TicketVisit" \in q.route.reads => q.key = VisitsKey
    /\ "ConfirmedVisit" \in q.route.reads => q.key = ConflictsKey
    /\ "CalendarTask" \in q.route.reads => q.key \in {ConflictsKey, TasksKey}

\* A button changes these alone, and declares their keys.  Nobody warns of a
\* visit that is confirmed already.
DeclaredUnder(b, s) ==
    b.leaves \/
    /\ b.route.writes \subseteq TicketTables
    /\ b.route.writes \cap {"Ticket", "TicketCollaborator"} # {} => TicketKey \in b.stale
    /\ "TicketHistory" \in b.route.writes => HistoryKey \in b.stale
    /\ b.route.writes \cap {"TicketComment", "CommentAttachment"} # {} => CommentsKey \in b.stale
    /\ "TicketVisit" \in b.route.writes => VisitsKey \in b.stale
    /\ "CalendarTask" \in b.route.writes => TasksKey \in b.stale \/ <<"ticket-tasks">> \in b.stale
    /\ "ConfirmedVisit" \in b.route.writes /\ s \in b.where => s.visit # "none"

LEMMA TicketReads ==
    \A q \in TicketDetailPage.queries : ShownUnder(q)
<1>. USE QueryFields
     DEF ShownUnder, FlagsKey, TicketKey, HistoryKey, CommentsKey, VisitsKey, ConflictsKey,
         TasksKey, Get, Page
<1>1. \A q \in TicketQueries : ShownUnder(q)
  BY DEF TicketQueries, TicketsController, TICKET_INCLUDE, Comments, Attachments,
         CategoriesController, Directory, UsersController, KnowledgeController, TagsController,
         TextSnippetsController
<1>2. \A q \in VisitQueries : ShownUnder(q)
  BY DEF VisitQueries, VisitsController, SystemController
<1>3. \A q \in TicketTasksBlock.queries : ShownUnder(q)
  BY DEF TicketTasksBlock, CalendarTasksController
<1>4. TicketDetailPage.queries = TicketQueries \cup VisitQueries \cup TicketTasksBlock.queries
  BY DEF TicketDetailPage, VisitBlock
<1>. QED  BY ONLY <1>1, <1>2, <1>3, <1>4

\* The panels of the page, in the order in which it joins them.
TicketPanels ==
    UNION {TicketHeader, TagsPanel, CollaboratorsPanel, ActionsPanel, ReopenPanel, RatePanel,
           Discussion, Composer, ConfirmedVisit, ProposedVisit, NewVisit,
           TicketTasksBlock.buttons, CalendarTaskModal(CalendarTasksController.createFor)}

LEMMA TicketButtons == TicketDetailPage.buttons = TicketPanels
BY DEF TicketDetailPage, VisitBlock, TicketPanels, Page

LEMMA StatusWrites ==
    ASSUME NEW to
    PROVE  /\ ChangeStatus(to).writes \subseteq {"Ticket", "TicketHistory", "Workload"}
BY DEF ChangeStatus, Change

LEMMA VisitWrites ==
    ASSUME NEW s, NEW name, NEW route, NEW where,
           route.writes \subseteq {"TicketVisit", "ConfirmedVisit", "TicketHistory"},
           s \in where => s.visit # "none"
    PROVE  DeclaredUnder(Button(name, route, where, invalidateVisit), s)
BY ButtonFields DEF DeclaredUnder, TicketTables, invalidateVisit

LEMMA TicketWrites ==
    ASSUME NEW s
    PROVE  \A b \in TicketDetailPage.buttons : DeclaredUnder(b, s)
<1>. USE ButtonFields
     DEF DeclaredUnder, TicketTables, Get, Change, invalidateTicket, invalidateComments,
         invalidateVisit, invalidateTasks
<1>0. ASSUME NEW to, NEW name, NEW where, NEW stale, TicketKey \in stale, HistoryKey \in stale
      PROVE  DeclaredUnder(Button(name, ChangeStatus(to), where, stale), s)
  <2>. DEFINE b == Button(name, ChangeStatus(to), where, stale)
  <2>1. b.route = ChangeStatus(to) /\ b.stale = stale
    BY ONLY ButtonFields
  <2>2. b.route.writes \subseteq {"Ticket", "TicketHistory", "Workload"}
    BY ONLY <2>1, StatusWrites
  <2>. QED
    BY ONLY <1>0, <2>1, <2>2 DEF DeclaredUnder, TicketTables
<1>1. \A b \in TicketHeader \cup TagsPanel : DeclaredUnder(b, s)
  BY DEF TicketHeader, TagsPanel, TicketChanges, Comments
<1>2. \A b \in CollaboratorsPanel : DeclaredUnder(b, s)
  BY DEF CollaboratorsPanel, addCollaborator, removeCollaborator, removeOneself
<1>3. \A b \in ActionsPanel : DeclaredUnder(b, s)
  <2>1. ASSUME NEW to, NEW where
        PROVE  DeclaredUnder(Button(to, ChangeStatus(to), where, invalidateTicket), s)
    BY <1>0
  <2>. DEFINE self == Button("assignSelf", TicketChanges.assignSelf,
                             {x \in IsAdmin : x.hand = "none"}, invalidateTicket)
              other == Button("assign", TicketChanges.assign, IsAdmin, invalidateTicket)
              class == Button("classify", TicketChanges.classify, CanActOnStatus,
                              invalidateTicket)
  <2>2. \A b \in ActionsPanel :
           \/ b \in {self, other, class}
           \/ \E to, where : b = Button(to, ChangeStatus(to), where, invalidateTicket)
    BY ONLY DEF ActionsPanel
  <2>3. ASSUME NEW name, NEW where
        PROVE  DeclaredUnder(Button(name, TicketChanges.assignSelf, where, invalidateTicket), s)
    BY DEF TicketChanges
  <2>4. ASSUME NEW name, NEW where
        PROVE  DeclaredUnder(Button(name, TicketChanges.assign, where, invalidateTicket), s)
    BY DEF TicketChanges
  <2>5. ASSUME NEW name, NEW where
        PROVE  DeclaredUnder(Button(name, TicketChanges.classify, where, invalidateTicket), s)
    BY DEF TicketChanges
  <2>6. DeclaredUnder(self, s) /\ DeclaredUnder(other, s) /\ DeclaredUnder(class, s)
    BY ONLY <2>3, <2>4, <2>5
  <2>. HIDE DEF self, other, class
  <2>. SUFFICES ASSUME NEW b \in ActionsPanel
                PROVE  DeclaredUnder(b, s)
    OBVIOUS
  <2>7. CASE b \in {self, other, class}
    BY ONLY <2>6, <2>7
  <2>8. CASE \E to, where : b = Button(to, ChangeStatus(to), where, invalidateTicket)
    BY ONLY <2>1, <2>8
  <2>. QED
    BY ONLY <2>2, <2>7, <2>8, b \in ActionsPanel
<1>4. \A b \in ReopenPanel \cup RatePanel : DeclaredUnder(b, s)
  BY StatusWrites DEF ReopenPanel, RatePanel, TicketChanges
<1>5. \A b \in Discussion \cup Composer : DeclaredUnder(b, s)
  BY DEF Discussion, Composer, Comments
<1>6. \A name : /\ DeclaredUnder(ResolveAfter(name, invalidateVisit), s)
                /\ DeclaredUnder(ResolveAfter(name, {TicketKey, HistoryKey}), s)
  BY <1>0 DEF ResolveAfter
<1>7. \A b \in ConfirmedVisit : DeclaredUnder(b, s)
  <2>1. DeclaredUnder(Button("visitDone", VisitDone, confirmed \cap IsStaff, invalidateVisit), s)
    <3>1. VisitDone.writes \subseteq {"TicketVisit", "ConfirmedVisit", "TicketHistory"}
      BY ONLY DEF VisitDone, Change
    <3>2. s \in confirmed \cap IsStaff => s.visit # "none"
      BY ONLY DEF confirmed
    <3>. QED  BY ONLY <3>1, <3>2, VisitWrites
  <2>2. DeclaredUnder(Button("visitCancel", VisitCancel,
                             confirmed \cap (IsStaff \cup IsCreator), invalidateVisit), s)
    <3>1. VisitCancel.writes \subseteq {"TicketVisit", "ConfirmedVisit", "TicketHistory"}
      BY ONLY DEF VisitCancel, Change
    <3>2. s \in confirmed \cap (IsStaff \cup IsCreator) => s.visit # "none"
      BY ONLY DEF confirmed
    <3>. QED  BY ONLY <3>1, <3>2, VisitWrites
  <2>. QED
    BY ONLY <1>6, <2>1, <2>2 DEF ConfirmedVisit
<1>8. \A b \in ProposedVisit \cup NewVisit : DeclaredUnder(b, s)
  BY DEF ProposedVisit, NewVisit, ConfirmVisit, CounterVisit, VisitCancel, VisitsController,
         requesterPicks, staffPicks
<1>9. \A b \in TicketTasksBlock.buttons : DeclaredUnder(b, s)
  <2>1. /\ DeclaredUnder(Button("taskToggle", CalendarTasksController.update, IsStaff,
                               invalidateTasks), s)
        /\ DeclaredUnder(Button("taskDelete", CalendarTasksController.remove, IsStaff,
                               invalidateTasks), s)
    BY DEF CalendarTasksController
  <2>2. DeclaredUnder(ResolveAfter("resolveAfterTask", {TicketKey, HistoryKey}), s)
    BY ONLY <1>6
  <2>. QED
    BY ONLY <2>1, <2>2 DEF TicketTasksBlock, Page
<1>10. \A b \in CalendarTaskModal(CalendarTasksController.createFor) : DeclaredUnder(b, s)
  BY DEF CalendarTaskModal, CalendarTasksController
<1>. QED
  BY ONLY <1>1, <1>2, <1>3, <1>4, <1>5, <1>7, <1>8, <1>9, <1>10, TicketButtons DEF TicketPanels

LEMMA JoinUnique ==
    ASSUME NEW A, NEW B, Unique(A), Unique(B), \A a \in A, b \in B : a.name # b.name
    PROVE  Unique(A \cup B)
BY DEF Unique

LEMMA ActionNames ==
    /\ Unique(ActionsPanel)
    /\ \A b \in ActionsPanel : b.name \in {"assignSelf", "assign", "classify"} \cup Status
<1>. DEFINE self == Button("assignSelf", TicketChanges.assignSelf,
                           {s \in IsAdmin : s.hand = "none"}, invalidateTicket)
            other == Button("assign", TicketChanges.assign, IsAdmin, invalidateTicket)
            class == Button("classify", TicketChanges.classify, CanActOnStatus, invalidateTicket)
            status(to) == Button(to, ChangeStatus(to), CanActOnStatus \cap NextStatus(to),
                                 invalidateTicket)
<1>1. /\ self.name = "assignSelf" /\ other.name = "assign" /\ class.name = "classify"
      /\ \A to : status(to).name = to
  BY ONLY NameFields
<1>2. \A b \in ActionsPanel :
         b \in {self, other, class} \/ \E to \in Status : b = status(to)
  BY ONLY DEF ActionsPanel
<1>3. {"assignSelf", "assign", "classify"} \cap Status = {}
  BY DEF Status
<1>. HIDE DEF self, other, class, status
<1>. QED
  BY <1>1, <1>2, <1>3 DEF Unique

\* The names of the panels' buttons.
LEMMA TicketNames ==
    /\ Unique(TicketDetailPage.buttons)
    /\ NoBell(TicketDetailPage)
<1>. USE NameFields DEF Unique
<1>. DEFINE Plain == UNION {TicketHeader, TagsPanel, CollaboratorsPanel, ReopenPanel, RatePanel,
                            Discussion, Composer}
            Visits == UNION {ConfirmedVisit, ProposedVisit, NewVisit, TicketTasksBlock.buttons,
                             CalendarTaskModal(CalendarTasksController.createFor)}
            plain == {"report", "delete", "setTags", "addCollaborator", "removeCollaborator",
                      "removeOneself", "reopen", "rate", "editComment", "deleteComment",
                      "comment", "commentFiles", "commentStaff"}
            visits == {"visitDone", "visitCancel", "resolveAfterVisit", "visitConfirm",
                       "visitCounter", "visitRefuse", "visitPropose", "taskToggle",
                       "taskDelete", "resolveAfterTask", "taskSave"}
            actions == {"assignSelf", "assign", "classify"} \cup Status
<1>1. Unique(Plain)
  BY DEF TicketHeader, TagsPanel, CollaboratorsPanel, ReopenPanel, RatePanel, Discussion, Composer
<1>2. \A b \in Plain : b.name \in plain
  BY DEF TicketHeader, TagsPanel, CollaboratorsPanel, ReopenPanel, RatePanel, Discussion, Composer
<1>3. Unique(Visits)
  BY DEF ConfirmedVisit, ProposedVisit, NewVisit, TicketTasksBlock, CalendarTaskModal,
         ResolveAfter, Page
<1>4. \A b \in Visits : b.name \in visits
  BY DEF ConfirmedVisit, ProposedVisit, NewVisit, TicketTasksBlock, CalendarTaskModal,
         ResolveAfter, Page
<1>5. Unique(ActionsPanel) /\ \A b \in ActionsPanel : b.name \in actions
  BY ONLY ActionNames
<1>7. plain \cap visits = {} /\ plain \cap actions = {} /\ visits \cap actions = {}
  BY DEF Status
<1>8. TicketDetailPage.buttons = Plain \cup Visits \cup ActionsPanel
  BY TicketButtons DEF TicketPanels
<1>9. Unique(Plain \cup Visits \cup ActionsPanel)
  <2>. HIDE DEF Plain, Visits, plain, visits, actions, Unique
  <2>1. \A a \in Plain, b \in Visits : a.name # b.name
    BY <1>2, <1>4, <1>7
  <2>2. Unique(Plain \cup Visits)
    BY <1>1, <1>3, <2>1, JoinUnique
  <2>3. \A a \in Plain \cup Visits, b \in ActionsPanel : a.name # b.name
    BY <1>2, <1>4, <1>5, <1>7
  <2>. QED
    BY <1>5, <2>2, <2>3, JoinUnique
<1>10. \A b \in Plain \cup Visits \cup ActionsPanel : b.name # "readAll"
  <2>1. "readAll" \notin plain \cup visits \cup actions
    BY DEF Status
  <2>. HIDE DEF Plain, Visits, plain, visits, actions
  <2>. QED
    BY <1>2, <1>4, <1>5, <2>1
<1>. QED
  BY ONLY <1>8, <1>9, <1>10 DEF NoBell

LEMMA TicketCovers ==
    ASSUME NEW s, NEW q \in TicketDetailPage.queries, NEW b \in TicketDetailPage.buttons,
           ~b.leaves, s \in b.where, q.key = ConflictsKey => s.visit = "none"
    PROVE  Covered("ticket", b, q)
<1>. USE TicketReads, TicketWrites
<1>1. SUFFICES ASSUME NEW table \in b.route.writes \cap q.route.reads
               PROVE  Declared(b, q.key) \/ Lapse("ticket", b, q.key)
  BY DEF Covered, Touches
<1>2. ShownUnder(q) /\ DeclaredUnder(b, s)
  OBVIOUS
<1>3. table \in TicketTables
  BY <1>2 DEF DeclaredUnder
<1>4. /\ IsPrefix(TicketKey, TicketKey) /\ IsPrefix(HistoryKey, HistoryKey)
      /\ IsPrefix(CommentsKey, CommentsKey) /\ IsPrefix(VisitsKey, VisitsKey)
      /\ IsPrefix(TasksKey, TasksKey) /\ IsPrefix(<<"ticket-tasks">>, TasksKey)
  BY KeyPrefixes DEF TicketKey, HistoryKey, CommentsKey, VisitsKey, TasksKey
<1>5. CASE table \in {"Ticket", "TicketCollaborator"}
  BY <1>2, <1>4, <1>5 DEF ShownUnder, DeclaredUnder, Declared
<1>6. CASE table = "TicketHistory"
  BY <1>2, <1>4, <1>6 DEF ShownUnder, DeclaredUnder, Declared
<1>7. CASE table \in {"TicketComment", "CommentAttachment"}
  BY <1>2, <1>4, <1>7 DEF ShownUnder, DeclaredUnder, Declared
<1>8. CASE table = "TicketVisit"
  BY <1>2, <1>4, <1>8 DEF ShownUnder, DeclaredUnder, Declared
<1>9. CASE table = "ConfirmedVisit"
  BY <1>2, <1>9 DEF ShownUnder, DeclaredUnder
<1>10. CASE table = "Workload"
  <2>1. [page |-> "ticket", key |-> <<"users">>, table |-> "Workload"] \in Forgotten
    BY DEF Forgotten
  <2>. QED
    BY <1>2, <1>10, <2>1 DEF ShownUnder, Lapse
<1>11. CASE table = "CalendarTask"
  <2>1. [page |-> "ticket", key |-> ConflictsKey, table |-> "CalendarTask"] \in Forgotten
    BY DEF Forgotten, ConflictsKey
  <2>. QED
    BY <1>2, <1>4, <1>11, <2>1 DEF ShownUnder, DeclaredUnder, Declared, Lapse
<1>. QED
  BY <1>3, <1>5, <1>6, <1>7, <1>8, <1>9, <1>10, <1>11 DEF TicketTables

\* Of the page's queries one alone is asked in some scenes and not in others, of
\* those that matter here.
LEMMA ConflictsAsked ==
    \A s : \A q \in TicketDetailPage.queries \cup Frame :
        q.key = ConflictsKey /\ s \in q.where => s.visit = "none"
<1>1. ASSUME NEW s
      PROVE  \A q \in VisitQueries : q.key = ConflictsKey /\ s \in q.where => s.visit = "none"
  BY QueryFields DEF VisitQueries, ConflictsKey, VisitsKey
<1>2. \A q \in TicketQueries \cup TicketTasksBlock.queries \cup Frame : q.key # ConflictsKey
  BY QueryFields
  DEF TicketQueries, TicketTasksBlock, Frame, FeatureFlagsProvider, LayoutQueries,
      NotificationBell, ConflictsKey, TicketKey, HistoryKey, CommentsKey, TasksKey, FlagsKey, Page
<1>3. TicketDetailPage.queries = TicketQueries \cup VisitQueries \cup TicketTasksBlock.queries
  BY DEF TicketDetailPage, VisitBlock, Page
<1>. QED  BY ONLY <1>1, <1>2, <1>3

-----------------------------------------------------------------------------
(* A button and a query of one screen, wherever each is drawn *)

LEMMA PagesTidy ==
    ASSUME NEW p \in PageName \ {"ticket"}
    PROVE  Tidy(p, Pages[p])
<1>1. CASE p \in {"tickets", "newTicket", "dashboard", "calendar", "cartridges", "reports",
                "filled", "arrival"}
  BY <1>1, TicketsListPageTidy, CreateTicketPageTidy, DashboardPageTidy, CalendarPageTidy,
     CartridgesPageTidy, CartridgeReportsPageTidy, CartridgeArchivePageTidy,
     CartridgeArrivalScanPageTidy
  DEF Pages
<1>2. CASE p \in {"refills", "knowledge", "article", "categories", "locations", "tags",
                "snippets", "users"}
  BY <1>2, RefillEventsPageTidy, KnowledgeBasePageTidy, KnowledgeArticleDetailPageTidy,
     CategoriesPageTidy, LocationsPageTidy, TagsPageTidy, TextSnippetsPageTidy,
     UsersPageTidy
  DEF Pages
<1>3. CASE p \in {"sla", "workingHours", "quietHours", "preferences", "archive",
                "announcement", "broadcast", "flags"}
  BY <1>3, SlaConfigPageTidy, WorkingHoursPageTidy, QuietHoursPageTidy,
     NotificationPreferencesPageTidy, TicketArchivePageTidy, AnnouncementPageTidy,
     BroadcastNotificationPageTidy, FeatureFlagsPageTidy
  DEF Pages
<1>4. CASE p \in {"kiosks", "services", "health", "errors", "stats", "logins", "max",
                "search"}
  BY <1>4, WallboardKioskPageTidy, ServicesPageTidy, SystemHealthPageTidy, ErrorLogPageTidy,
     AssigneeStatsPageTidy, LoginLogPageTidy, MaxLinkPageTidy, CommandPaletteTidy
  DEF Pages
<1>. QED
  BY <1>1, <1>2, <1>3, <1>4, PagesNamed

LEMMA BellCovers ==
    ASSUME NEW p, NEW b \in NotificationBell.buttons, NEW q \in Frame
    PROVE  Covered(p, b, q)
<1>1. IsPrefix(<<"notifications">>, <<"notifications">>)
  BY KeyPrefixes
<1>. QED
  BY <1>1, ButtonFields, QueryFields
  DEF NotificationBell, Frame, FeatureFlagsProvider, LayoutQueries, NotificationsController,
      SystemController, AnnouncementsController, Covered, Declared, Touches, Page, Get, Change

LEMMA BellButton ==
    /\ Unique(NotificationBell.buttons)
    /\ \A b \in NotificationBell.buttons :
          b.name = "readAll" /\ b.route.writes = {"Notification"}
<1>1. Unique(NotificationBell.buttons)
  BY NameFields DEF NotificationBell, Unique, Page
<1>2. \A b \in NotificationBell.buttons : b.name = "readAll"
  BY NameFields DEF NotificationBell, Page
<1>3. \A b \in NotificationBell.buttons : b.route.writes = {"Notification"}
  BY ButtonFields DEF NotificationBell, Page, NotificationsController, Change
<1>. QED  BY <1>1, <1>2, <1>3

LEMMA QueriesOf ==
    ASSUME NEW p \in PageName
    PROVE  /\ Queries[p] = Pages[p].queries \cup Frame
           /\ Buttons[p] = Pages[p].buttons \cup NotificationBell.buttons
BY DEF Queries, Buttons

\* The page of a ticket alone needs to know the scene.
LEMMA ScreenCovered ==
    ASSUME NEW p \in PageName, NEW s, NEW q \in Queries[p], NEW b \in Buttons[p],
           ~b.leaves, s \in b.where,
           p = "ticket" /\ q.key = ConflictsKey => s.visit = "none"
    PROVE  Covered(p, b, q)
<1>1. Pages["ticket"] = TicketDetailPage
  BY DEF Pages
<1>2. CASE b \in NotificationBell.buttons
  <2>1. CASE q \in Frame
    BY <1>2, <2>1, BellCovers
  <2>2. CASE q \in Pages[p].queries
    <3>1. "Notification" \notin q.route.reads
      BY <1>1, <2>2, PagesTidy, TicketReads DEF Tidy, ShownUnder
    <3>. QED
      BY <1>2, <3>1, BellButton DEF Covered, Touches
  <2>. QED
    BY <2>1, <2>2, QueriesOf
<1>3. CASE b \in Pages[p].buttons /\ p # "ticket"
  BY <1>3, PagesTidy, QueriesOf DEF Tidy
<1>4. CASE b \in Pages[p].buttons /\ p = "ticket"
  <2>1. CASE q \in Pages[p].queries
    BY <1>1, <1>4, <2>1, TicketCovers
  <2>2. CASE q \in Frame
    <3>1. b.route.writes \subseteq TicketTables
      BY <1>1, <1>4, TicketWrites DEF DeclaredUnder
    <3>2. q.route.reads \subseteq FrameTables
      BY <2>2, FrameReads
    <3>3. TicketTables \cap FrameTables = {}
      BY DEF TicketTables, FrameTables
    <3>. QED
      BY <3>1, <3>2, <3>3 DEF Covered, Touches
  <2>. QED
    BY <2>1, <2>2, QueriesOf
<1>. QED
  BY <1>2, <1>3, <1>4, QueriesOf

LEMMA ButtonsUnique ==
    ASSUME NEW p \in PageName
    PROVE  Unique(Buttons[p])
<1>1. Pages["ticket"] = TicketDetailPage
  BY DEF Pages
<1>2. Unique(Pages[p].buttons) /\ NoBell(Pages[p])
  BY <1>1, PagesTidy, TicketNames DEF Tidy
<1>3. \A a \in Pages[p].buttons, b \in NotificationBell.buttons : a.name # b.name
  BY <1>2, BellButton DEF NoBell
<1>. QED
  BY <1>2, <1>3, BellButton, JoinUnique, QueriesOf

LEMMA FlagsRead ==
    ASSUME NEW p \in PageName, NEW q \in Queries[p], q.key = FlagsKey
    PROVE  q.route.reads = {"SystemFlag"}
<1>1. Pages["ticket"] = TicketDetailPage
  BY DEF Pages
<1>2. q \in Frame
  BY <1>1, PagesTidy, TicketReads, QueriesOf DEF Tidy, ShownUnder
<1>. QED
  BY <1>2, QueryFields
  DEF Frame, FeatureFlagsProvider, LayoutQueries, NotificationBell, SystemController, FlagsKey,
      Page, Get

\* A broadcast touches the list of notifications alone.
LEMMA SendTouches ==
    ASSUME NEW q \in Queries["broadcast"], NEW b \in Buttons["broadcast"],
           b.name = "send", Touches(b, q)
    PROVE  q.key = <<"notifications">>
<1>1. "broadcast" \in PageName /\ Pages["broadcast"] = BroadcastNotificationPage
  BY PagesNamed DEF Pages
<1>2. b \in BroadcastNotificationPage.buttons
  BY <1>1, BellButton, QueriesOf
<1>3. b.route.writes = {"Notification"}
  BY <1>2, ButtonFields DEF BroadcastNotificationPage, NotificationsController, Page, Change
<1>4. q \in BroadcastNotificationPage.queries => "Notification" \notin q.route.reads
  BY BroadcastNotificationPageTidy DEF Tidy
<1>. QED
  BY <1>1, <1>3, <1>4, BellReads, QueriesOf DEF Touches

-----------------------------------------------------------------------------
(* What the user changed is shown.  The steps of a press, from the button  *)
(* to the answer of the query, say what must not be lost on the way        *)

\* The button pressed touches the query watched.
Pressing == press.stage # "idle" =>
    /\ page # Home
    /\ \E q \in Queries[page], b \in Buttons[page] :
          /\ q.key = key /\ b.name = press.name
          /\ scene \in b.where /\ ~b.leaves /\ Touches(b, q)

\* Who is warned of other visits has none under way himself.
NoVisitYet == page = "ticket" /\ key = ConflictsKey => scene.visit = "none"

\* After a change of the flags that no load outlasts, the server holds none of
\* the old ones.
FlagsFresh ==
    key = FlagsKey /\ press.stage \in {"executed", "done"} /\ ~press.excused =>
        cache # "old" /\ load # "old"

\* The query is being asked again, and has the present when it is answered.
Asked ==
    \/ flight \in {"sent", "current"}
    \/ flight = "idle" /\ data = "current"

\* So it is once the push about a broadcast has come, and after the success of
\* any other change.
PushSeen ==
    press.stage \in {"executed", "done"} /\ PushesToSender /\ ~press.push /\ ~press.excused =>
        Asked
Lapsed == \E b \in Buttons[page] : b.name = press.name /\ Lapse(page, b, key)
AskedAgain ==
    press.stage = "done" /\ ~press.push /\ ~press.excused /\ ~Lapsed => Asked

ShownInv ==
    /\ BrowserInv
    /\ press.excused \in BOOLEAN
    /\ Pressing
    /\ NoVisitYet
    /\ FlagsFresh
    /\ press.push => PushesToSender
    /\ PushSeen
    /\ AskedAgain

LEMMA PressedIs ==
    ASSUME page \in PageName, NEW b \in Buttons[page], b.name = press.name
    PROVE  Pressed = b
BY ButtonsUnique DEF Pressed, Unique

LEMMA WatchedIs ==
    ASSUME BrowserInv, page # Home
    PROVE  Watched \in Queries[page] /\ Watched.key = key
BY DEF BrowserInv, Fits, Watched

LEMMA ShownInit == Init => ShownInv
BY BrowserInit
DEF Init, ShownInv, Pressing, NoVisitYet, FlagsFresh, PushSeen, AskedAgain, NoPress, Home

\* The steps that leave the browser and the button where they are.
LEMMA StillPressing ==
    ASSUME ShownInv, UNCHANGED browser, press'.name = press.name,
           press.stage = "idle" => press'.stage = "idle"
    PROVE  Pressing' /\ NoVisitYet' /\ (Lapsed' <=> Lapsed) /\ (PushesToSender' <=> PushesToSender)
<1>1. Pressing'
  BY DEF ShownInv, Pressing, browser
<1>2. NoVisitYet'
  BY DEF ShownInv, NoVisitYet, browser
<1>3. Lapsed' <=> Lapsed
  BY DEF Lapsed, browser
<1>4. PushesToSender' <=> PushesToSender
  BY DEF PushesToSender, browser
<1>. QED  BY <1>1, <1>2, <1>3, <1>4

\* The query watched, the button pressed, and what the one has to do with the
\* other.
LEMMA UnderPress ==
    ASSUME ShownInv, press.stage # "idle"
    PROVE  /\ page \in PageName
           /\ Pressed \in Buttons[page] /\ Pressed.name = press.name
           /\ \E q \in Queries[page] : q.key = key /\ Touches(Pressed, q) /\ Covered(page, Pressed, q)
<1>1. page # Home /\ page \in PageName
  BY DEF ShownInv, Pressing, BrowserInv, Fits
<1>2. PICK q \in Queries[page], b \in Buttons[page] :
          /\ q.key = key /\ b.name = press.name
          /\ scene \in b.where /\ ~b.leaves /\ Touches(b, q)
  BY DEF ShownInv, Pressing
<1>3. Pressed = b
  BY <1>1, <1>2, PressedIs
<1>4. page = "ticket" /\ q.key = ConflictsKey => scene.visit = "none"
  BY <1>2 DEF ShownInv, NoVisitYet
<1>5. Covered(page, b, q)
  BY <1>1, <1>2, <1>4, ScreenCovered
<1>. QED
  BY <1>1, <1>2, <1>3, <1>5

\* What a push declares stale is what its broadcast touches.
LEMMA PushedKey ==
    ASSUME ShownInv, press.stage # "idle", PushesToSender
    PROVE  key = <<"notifications">> /\ key # FlagsKey
BY UnderPress, SendTouches DEF PushesToSender, FlagsKey

\* A step of the query alone that does not lose what is asked.
LEMMA StillAsked ==
    ASSUME ShownInv, UNCHANGED <<browser, press>>, PushesToSender' <=> PushesToSender,
           press.stage # "idle" /\ PushesToSender => (Asked => Asked')
    PROVE  (press.push => PushesToSender)' /\ PushSeen'
BY DEF ShownInv, PushSeen

LEMMA OpenShown == ShownInv /\ Open => ShownInv'
<1>. SUFFICES ASSUME ShownInv, Open
              PROVE  ShownInv'
  OBVIOUS
<1>1. BrowserInv'
  BY BrowserStep DEF ShownInv, Next
<1>2. press.stage = "idle" /\ UNCHANGED press
  BY DEF ShownInv, Pressing, Open
<1>3. /\ Pressing' /\ FlagsFresh' /\ PushSeen' /\ AskedAgain'
      /\ press'.excused \in BOOLEAN /\ ~press'.push
  BY <1>2 DEF ShownInv, BrowserInv, Pressing, FlagsFresh, PushSeen, AskedAgain
<1>4. PICK p \in PageName :
          \E s \in ScenesOf[p] : \E q \in Queries[p] :
             s \in q.where /\ page' = p /\ scene' = s /\ key' = q.key
  BY DEF Open
<1>5. PICK s \in ScenesOf[p], q \in Queries[p] :
          s \in q.where /\ page' = p /\ scene' = s /\ key' = q.key
  BY <1>4
<1>6. NoVisitYet'
  <2>. SUFFICES ASSUME p = "ticket", q.key = ConflictsKey
                PROVE  s.visit = "none"
    BY <1>5 DEF NoVisitYet
  <2>1. Pages["ticket"] = TicketDetailPage
    BY DEF Pages
  <2>2. q \in TicketDetailPage.queries \cup Frame
    BY <1>5, <2>1, QueriesOf
  <2>. QED
    BY <1>5, <2>2, ConflictsAsked
<1>. QED
  BY <1>1, <1>3, <1>6 DEF ShownInv

LEMMA ReadShown == ShownInv /\ Read => ShownInv'
<1>. SUFFICES ASSUME ShownInv, Read
              PROVE  ShownInv'
  OBVIOUS
<1>1. BrowserInv'
  BY BrowserStep DEF ShownInv, Next
<1>2. Pressing' /\ NoVisitYet' /\ (Lapsed' <=> Lapsed)
  BY StillPressing DEF Read
<1>3. FlagsFresh'
  <2>1. load' \in {"current", load} /\ UNCHANGED <<key, press, cache>>
    BY DEF Read, getPublicFlags, browser
  <2>. QED
    BY <2>1 DEF ShownInv, FlagsFresh
<1>4. AskedAgain'
  <2>. SUFFICES ASSUME press.stage = "done", ~press.excused
                PROVE  flight' \in {"sent", "current"}
    BY <1>2 DEF AskedAgain, Asked, Read
  <2>1. CASE key = FlagsKey
    BY <2>1 DEF Read, getPublicFlags, ShownInv, FlagsFresh, BrowserInv
  <2>2. CASE key # FlagsKey
    BY <2>2 DEF Read
  <2>. QED  BY <2>1, <2>2
<1>5. (press.push => PushesToSender)' /\ PushSeen'
  <2>1. key # FlagsKey => Asked'
    BY DEF Read, Asked
  <2>2. UNCHANGED <<browser, press>> /\ (PushesToSender' <=> PushesToSender)
    BY <1>2, StillPressing DEF Read
  <2>. QED
    BY <2>1, <2>2, PushedKey, StillAsked
<1>. QED
  BY <1>1, <1>2, <1>3, <1>4, <1>5 DEF ShownInv, Read

LEMMA AnswerShown == ShownInv /\ Answer => ShownInv'
<1>. SUFFICES ASSUME ShownInv, Answer
              PROVE  ShownInv'
  OBVIOUS
<1>1. BrowserInv'
  BY BrowserStep DEF ShownInv, Next
<1>2. Pressing' /\ NoVisitYet' /\ (Lapsed' <=> Lapsed)
  BY StillPressing DEF Answer
<1>3. FlagsFresh'
  BY DEF Answer, browser, server, ShownInv, FlagsFresh
<1>4. AskedAgain'
  BY <1>2 DEF Answer, ShownInv, AskedAgain, Asked
<1>5. (press.push => PushesToSender)' /\ PushSeen'
  <2>1. Asked => Asked'
    BY DEF Answer, Asked
  <2>2. UNCHANGED <<browser, press>> /\ (PushesToSender' <=> PushesToSender)
    BY <1>2, StillPressing DEF Answer
  <2>. QED
    BY <2>1, <2>2, StillAsked
<1>. QED
  BY <1>1, <1>2, <1>3, <1>4, <1>5 DEF ShownInv, Answer

LEMMA PressShown == ShownInv /\ Press => ShownInv'
<1>. SUFFICES ASSUME ShownInv, Press
              PROVE  ShownInv'
  OBVIOUS
<1>1. BrowserInv'
  BY BrowserStep DEF ShownInv, Next
<1>2. Watched \in Queries[page] /\ Watched.key = key
  BY WatchedIs DEF ShownInv, Press
<1>3. PICK b \in Buttons[page] :
          /\ scene \in b.where /\ ~b.leaves
          /\ Touches(b, Watched)
          /\ press' = [NoPress EXCEPT !.name = b.name, !.stage = "sent"]
  BY DEF Press
<1>. /\ press'.name = b.name /\ press'.stage = "sent"
     /\ press'.excused = FALSE /\ press'.push = FALSE
  BY <1>3 DEF NoPress
<1>4. Pressing'
  BY <1>2, <1>3 DEF Press, browser, Pressing
<1>5. NoVisitYet'
  BY DEF Press, browser, ShownInv, NoVisitYet
<1>6. FlagsFresh' /\ PushSeen' /\ AskedAgain'
  BY DEF FlagsFresh, PushSeen, AskedAgain
<1>. QED
  BY <1>1, <1>4, <1>5, <1>6 DEF ShownInv

LEMMA ExecuteShown == ShownInv /\ Execute => ShownInv'
<1>. SUFFICES ASSUME ShownInv, Execute
              PROVE  ShownInv'
  OBVIOUS
<1>1. BrowserInv'
  BY BrowserStep DEF ShownInv, Next
<1>2. /\ press.stage = "sent"
      /\ press' = [press EXCEPT !.stage = "executed",
                                !.excused = key = FlagsKey /\ load # "idle",
                                !.push = PushesToSender]
      /\ UNCHANGED browser
  BY DEF Execute
<1>3. /\ press'.name = press.name /\ press'.stage = "executed"
      /\ press'.excused = (key = FlagsKey /\ load # "idle")
      /\ press'.push = PushesToSender
  BY <1>2 DEF ShownInv, BrowserInv
<1>4. Pressing' /\ NoVisitYet' /\ (PushesToSender' <=> PushesToSender)
  BY <1>2, <1>3, StillPressing
<1>5. FlagsFresh'
  <2>. SUFFICES ASSUME key = FlagsKey, load = "idle"
                PROVE  cache' # "old" /\ load' # "old"
    BY <1>2, <1>3 DEF FlagsFresh, browser
  <2>1. PICK q \in Queries[page] : q.key = key /\ Touches(Pressed, q)
    BY <1>2, UnderPress
  <2>2. page \in PageName
    BY <1>2, UnderPress
  <2>3. q.route.reads = {"SystemFlag"}
    BY <2>1, <2>2, FlagsRead
  <2>4. "SystemFlag" \in Pressed.route.writes
    BY <2>1, <2>3 DEF Touches
  <2>. QED
    BY <2>4 DEF Execute, SetFlag, Aged
<1>6. (press.push => PushesToSender)' /\ PushSeen' /\ AskedAgain'
  BY <1>3, <1>4 DEF PushSeen, AskedAgain
<1>. QED
  BY <1>1, <1>3, <1>4, <1>5, <1>6 DEF ShownInv

LEMMA SucceedShown == ShownInv /\ Succeed => ShownInv'
<1>. SUFFICES ASSUME ShownInv, Succeed
              PROVE  ShownInv'
  OBVIOUS
<1>1. BrowserInv'
  BY BrowserStep DEF ShownInv, Next
<1>2. press.stage = "executed" /\ UNCHANGED <<browser, data, server>>
  BY DEF Succeed
<1>3. /\ press'.name = press.name /\ press'.stage = "done"
      /\ press'.excused = (press.excused \/ data = "none") /\ press'.push = press.push
  BY DEF Succeed, ShownInv, BrowserInv
<1>4. Pressing' /\ NoVisitYet' /\ (Lapsed' <=> Lapsed) /\ (PushesToSender' <=> PushesToSender)
  BY <1>2, <1>3, StillPressing
<1>5. FlagsFresh'
  BY <1>2, <1>3 DEF browser, server, ShownInv, FlagsFresh
<1>6. (press.push => PushesToSender)' /\ PushSeen'
  <2>1. flight' = "sent" \/ UNCHANGED flight
    BY DEF Succeed, invalidateQueries
  <2>. QED
    BY <1>2, <1>3, <1>4, <2>1 DEF ShownInv, PushSeen, Asked
<1>7. AskedAgain'
  <2>. SUFFICES ASSUME data # "none", ~press.push, ~press.excused, ~Lapsed
                PROVE  Asked'
    BY <1>3, <1>4 DEF AskedAgain
  <2>1. PICK q \in Queries[page] : q.key = key /\ Touches(Pressed, q) /\ Covered(page, Pressed, q)
    BY <1>2, UnderPress
  <2>2. Declared(Pressed, key) \/ Lapse(page, Pressed, key) \/ Pushed(page, Pressed, key)
    BY <2>1 DEF Covered
  <2>3. ~Lapse(page, Pressed, key)
    BY <1>2, UnderPress DEF Lapsed
  <2>4. CASE Declared(Pressed, key)
    BY <2>4 DEF Declared, Succeed, invalidateQueries, Asked
  <2>5. CASE Pushed(page, Pressed, key)
    <3>1. PushesToSender
      BY <1>2, <2>5, UnderPress DEF Pushed, PushesToSender
    <3>. QED
      BY <1>3, <1>4, <1>6, <3>1 DEF PushSeen, BrowserInv
  <2>. QED
    BY <2>2, <2>3, <2>4, <2>5
<1>. QED
  BY <1>1, <1>3, <1>4, <1>5, <1>6, <1>7 DEF ShownInv

LEMMA ReceivePushShown == ShownInv /\ ReceivePush => ShownInv'
<1>. SUFFICES ASSUME ShownInv, ReceivePush
              PROVE  ShownInv'
  OBVIOUS
<1>1. BrowserInv'
  BY BrowserStep DEF ShownInv, Next
<1>2. press.push /\ press.stage # "idle" /\ UNCHANGED <<browser, data, server>>
  BY DEF ReceivePush, ShownInv, BrowserInv
<1>3. /\ press'.name = press.name /\ press'.stage = press.stage
      /\ press'.excused = (press.excused \/ data = "none") /\ press'.push = FALSE
  BY DEF ReceivePush, ShownInv, BrowserInv
<1>4. Pressing' /\ NoVisitYet'
  BY <1>2, <1>3, StillPressing
<1>5. FlagsFresh'
  BY <1>2, <1>3 DEF browser, server, ShownInv, FlagsFresh
<1>6. data # "none" => Asked'
  <2>1. key = <<"notifications">>
    BY <1>2, PushedKey DEF ShownInv
  <2>2. IsPrefix(<<"notifications">>, key)
    BY <2>1, KeyPrefixes
  <2>. QED
    BY <2>2 DEF ReceivePush, invalidateQueries, Asked
<1>7. PushSeen' /\ AskedAgain'
  BY <1>3, <1>6 DEF PushSeen, AskedAgain
<1>. QED
  BY <1>1, <1>3, <1>4, <1>5, <1>7 DEF ShownInv

LEMMA MissPushShown == ShownInv /\ MissPush => ShownInv'
<1>. SUFFICES ASSUME ShownInv, MissPush
              PROVE  ShownInv'
  OBVIOUS
<1>1. BrowserInv'
  BY BrowserStep DEF ShownInv, Next
<1>2. press.push /\ press.stage # "idle" /\ UNCHANGED <<browser, data, flight, server>>
  BY DEF MissPush, ShownInv, BrowserInv
<1>3. /\ press'.name = press.name /\ press'.stage = press.stage
      /\ press'.excused = TRUE /\ press'.push = FALSE
  BY DEF MissPush, ShownInv, BrowserInv
<1>4. Pressing' /\ NoVisitYet'
  BY <1>2, <1>3, StillPressing
<1>. QED
  BY <1>1, <1>3, <1>4 DEF ShownInv, FlagsFresh, PushSeen, AskedAgain

LEMMA ShownStep == ShownInv /\ [Next]_vars => ShownInv'
<1>. SUFFICES ASSUME ShownInv, [Next]_vars
              PROVE  ShownInv'
  OBVIOUS
<1>0. BrowserInv'
  BY BrowserStep DEF ShownInv
<1>1. CASE Open
  BY <1>1, OpenShown
<1>2. CASE Leave
  BY <1>0, <1>2
  DEF Leave, ShownInv, Pressing, NoVisitYet, FlagsFresh, PushSeen, AskedAgain, NoPress, Home
\* The cache of flags on its own: the server has none of the old ones to load.
<1>3. CASE BeginLoad \/ StoreLoad \/ Expire
  <2>1. UNCHANGED <<browser, data, flight, press>>
    BY <1>3 DEF BeginLoad, StoreLoad, Expire
  <2>2. Pressing' /\ NoVisitYet' /\ (Lapsed' <=> Lapsed) /\ (PushesToSender' <=> PushesToSender)
    BY <2>1, StillPressing
  <2>3. (press.push => PushesToSender)' /\ PushSeen' /\ AskedAgain'
    BY <2>1, <2>2 DEF ShownInv, PushSeen, AskedAgain, Asked
  <2>4. FlagsFresh'
    BY <1>3, <2>1 DEF BeginLoad, StoreLoad, Expire, browser, ShownInv, FlagsFresh
  <2>. QED
    BY <1>0, <2>1, <2>2, <2>3, <2>4 DEF ShownInv
<1>4. CASE Read
  BY <1>4, ReadShown
<1>5. CASE Answer
  BY <1>5, AnswerShown
<1>6. CASE Poll
  <2>1. UNCHANGED <<browser, data, press, server>> /\ flight' = "sent"
    BY <1>6 DEF Poll
  <2>2. Pressing' /\ NoVisitYet' /\ (PushesToSender' <=> PushesToSender)
    BY <2>1, StillPressing
  <2>3. /\ FlagsFresh' /\ (press.push => PushesToSender)'
        /\ PushSeen' /\ AskedAgain'
    BY <2>1, <2>2 DEF browser, server, ShownInv, FlagsFresh, PushSeen, AskedAgain, Asked
  <2>. QED
    BY <1>0, <2>1, <2>2, <2>3 DEF ShownInv
<1>7. CASE Press
  BY <1>7, PressShown
<1>8. CASE Execute
  BY <1>8, ExecuteShown
\* A change that failed, or whose answer is lost, promises nothing.
<1>9. CASE Refuse \/ Lose
  <2>1. /\ UNCHANGED <<browser, data, flight, server>>
        /\ press' = [press EXCEPT !.stage = "failed"]
        /\ press.stage \in {"sent", "executed"}
    BY <1>9 DEF Refuse, Lose
  <2>2. /\ press'.name = press.name /\ press'.stage = "failed"
        /\ press'.excused = press.excused /\ press'.push = press.push
    BY <2>1 DEF ShownInv, BrowserInv
  <2>3. Pressing' /\ NoVisitYet' /\ (PushesToSender' <=> PushesToSender)
    BY <2>1, <2>2, StillPressing
  <2>. QED
    BY <1>0, <2>2, <2>3 DEF ShownInv, FlagsFresh, PushSeen, AskedAgain
<1>10. CASE Succeed
  BY <1>10, SucceedShown
<1>11. CASE ReceivePush
  BY <1>11, ReceivePushShown
<1>12. CASE MissPush
  BY <1>12, MissPushShown
<1>13. CASE UNCHANGED vars
  <2>1. Pressing' /\ NoVisitYet' /\ (Lapsed' <=> Lapsed) /\ (PushesToSender' <=> PushesToSender)
    BY <1>13, StillPressing DEF vars, browser
  <2>. QED
    BY <1>0, <1>13, <2>1 DEF vars, ShownInv, FlagsFresh, PushSeen, AskedAgain, Asked
<1>. QED
  BY <1>1, <1>2, <1>3, <1>4, <1>5, <1>6, <1>7, <1>8, <1>9, <1>10, <1>11, <1>12, <1>13 DEF Next

\* On every page and for every button: once the button has succeeded and
\* nothing is under way, no query the user looks at misses what he changed,
\* unless its key is one of the three the code forgets, the first answer was
\* not there when he pressed, a load of the flags outlasted his change, or it
\* is his own copy of a broadcast and the push about it missed his socket.
THEOREM ChangesAreShown == Spec => []OwnChangeShown
<1>1. ShownInv => OwnChangeShown
  <2>. SUFFICES ASSUME ShownInv, press.stage = "done", flight = "idle", data = "old",
                       ~press.push, ~press.excused
                PROVE  Lapse(page, Pressed, key)
    BY DEF OwnChangeShown, Lapse
  <2>1. Lapsed
    BY DEF ShownInv, AskedAgain, Asked
  <2>2. page \in PageName
    BY UnderPress
  <2>. QED
    BY <2>1, <2>2, PressedIs DEF Lapsed
<1>. QED
  BY <1>1, ShownInit, ShownStep, PTL DEF Spec

=============================================================================
