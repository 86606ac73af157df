------------------------------- MODULE Screens -------------------------------
(***************************************************************************)
(* One browser before one page: its cached queries against the tables they *)
(* are answered from, while the user changes them.                         *)
(*                                                                         *)
(* Queries of a page share nothing but the tables, so that one of them,    *)
(* chosen when the page opens, is watched at a time: every query of every  *)
(* page is, in some behaviour.  A query is asked by its mounting, by its   *)
(* interval, and when a button's answer or a message of the notification   *)
(* socket declares its key stale; the answer is what the tables held when  *)
(* the server read them.  The list of feature flags is the one read        *)
(* through a cache of the server.                                          *)
(*                                                                         *)
(* What a query knows is "current", "old" (a change of the user on this    *)
(* page is not in it) or "none".  What other people do is not modelled.    *)
(* Bound: one button is pressed per visit to a page.                       *)
(***************************************************************************)
EXTENDS Pages, SequencesExt

VARIABLES
    page,       \* the page that is open, or Home
    scene,      \* who is before it, and what for
    key,        \* the key of the query that is watched
    data,       \* what the cache of the browser holds under the key
    flight,     \* the request under way: "idle", "sent", or what the server read
    press,      \* the button pressed, how far it is, what excuses it, and whether
                \* a push about it is on its way to the socket
    cache,      \* the flags the server keeps: "empty", "current" or "old"
    load        \* a load of that cache under way: "idle", or what it read

vars == <<page, scene, key, data, flight, press, cache, load>>
browser == <<page, scene, key>>
server == <<cache, load>>

Home == "home"
PageName == DOMAIN Pages
NoPress == [name |-> "none", stage |-> "idle", excused |-> FALSE, push |-> FALSE]

-----------------------------------------------------------------------------
(* What is on a page, its frame included *)

Frame == FeatureFlagsProvider \cup LayoutQueries \cup NotificationBell.queries
Queries == [p \in PageName |-> Pages[p].queries \cup Frame]
Buttons == [p \in PageName |-> Pages[p].buttons \cup NotificationBell.buttons]
Watched == CHOOSE q \in Queries[page] : q.key = key
Pressed == CHOOSE b \in Buttons[page] : b.name = press.name

\* The page of a ticket is open on a ticket the server shows; elsewhere the
\* status and the visit of a ticket make no difference.
Scenes(p) ==
    IF p = "ticket" THEN Viewers
    ELSE {s \in ProtectedRoute(p) :
            s.status = "IN_PROGRESS" /\ s.visit = "none" /\ s.hand # "collaborator"}
ScenesOf == [p \in PageName |-> Scenes(p)]
AnyScene == CHOOSE s \in Scene : TRUE

\* Until it has them these pages show a placeholder in place of everything.
PlaceholderFor == {TicketKey, ArticleKey, <<"my-day">>}

Touches(b, q) == b.route.writes \cap q.route.reads # {}
\* A change of the tables makes old what was read before it.
Aged(x) == IF x = "current" THEN "old" ELSE x

-----------------------------------------------------------------------------

Init ==
    /\ page = Home /\ scene = AnyScene /\ key = <<>>
    /\ data = "none" /\ flight = "idle" /\ press = NoPress
    /\ cache = "empty" /\ load = "idle"

\* A page opens: its queries are asked, whether or not an earlier visit left
\* something in the cache; those of the frame have been asked before, perhaps
\* long ago.  A query that is refused is not watched.
Open ==
    /\ page = Home
    /\ \E p \in PageName : \E s \in ScenesOf[p] : \E q \in Queries[p] :
        /\ s \in q.where \cap q.route.who
        /\ page' = p /\ scene' = s /\ key' = q.key
        /\ \/ data' \in {"none", "old"} /\ flight' = "sent"
           \/ q \in Frame /\ data' = "old" /\ flight' = "idle"
    /\ UNCHANGED <<press, server>>

Leave ==
    /\ page # Home
    /\ page' = Home /\ scene' = AnyScene /\ key' = <<>>
    /\ data' = "none" /\ flight' = "idle" /\ press' = NoPress
    /\ cache' = "empty" /\ load' = "idle"

-----------------------------------------------------------------------------
(* The flags on the server *)

\* Slip (not the code; see MCScreens): the answer does not wait for the load.
getPublicFlagsSlip == flight' = cache /\ UNCHANGED load
\* A request for the flags is answered from the cache; when that is empty, with
\* the rows, which it will put there.  Of two loads the last to end prevails.
getPublicFlags ==
    IF cache # "empty" THEN flight' = cache /\ UNCHANGED load
    ELSE flight' = "current" /\ load' \in {"current"} \cup ({load} \ {"idle"})

\* Somebody else's request loads the flags.  The cache matters only while they
\* are watched.
BeginLoad ==
    /\ page # Home /\ key = FlagsKey
    /\ cache = "empty" /\ load = "idle"
    /\ load' = "current"
    /\ UNCHANGED <<browser, data, flight, press, cache>>

StoreLoad ==
    /\ load # "idle"
    /\ cache' = load
    /\ load' = "idle"
    /\ UNCHANGED <<browser, data, flight, press>>

\* Slip (not the code; see MCScreens): what is in the cache stays there.
ExpireSlip == FALSE /\ UNCHANGED vars
\* Its 15 seconds are over.
Expire ==
    /\ cache # "empty"
    /\ cache' = "empty"
    /\ UNCHANGED <<browser, data, flight, press, load>>

\* Slip (not the code; see MCScreens): a flag is set and the cache kept.
SetFlagSlip == cache' = Aged(cache) /\ load' = Aged(load)
\* A flag is set: the row is written and the cache emptied, but a load that
\* has read the rows before is not called back.
SetFlag == cache' = "empty" /\ load' = Aged(load)

-----------------------------------------------------------------------------
(* A query *)

Read ==
    /\ flight = "sent"
    /\ IF key = FlagsKey THEN getPublicFlags ELSE flight' = "current" /\ UNCHANGED load
    /\ UNCHANGED <<browser, data, press, cache>>

Answer ==
    /\ flight \in {"current", "old"}
    /\ data' = flight
    /\ flight' = "idle"
    /\ UNCHANGED <<browser, press, server>>

Poll ==
    /\ page # Home /\ flight = "idle" /\ data # "none"
    /\ Watched.polled
    /\ flight' = "sent"
    /\ UNCHANGED <<browser, data, press, server>>

-----------------------------------------------------------------------------
(* A button *)

\* Only buttons that change what is watched make a difference to it.
Press ==
    /\ page # Home /\ press = NoPress
    /\ key \in PlaceholderFor => data # "none"
    /\ \E b \in Buttons[page] :
        /\ scene \in b.where /\ ~b.leaves
        /\ Touches(b, Watched)
        /\ press' = [NoPress EXCEPT !.name = b.name, !.stage = "sent"]
    /\ UNCHANGED <<browser, data, flight, server>>

\* A new notification is pushed to the sockets of its user.  A broadcast is the
\* one change that makes a notification for the user who asks for it.
PushesToSender == page = "broadcast" /\ press.name = "send"

\* The server does it, if it lets the user through and nothing is wrong with
\* what he asks; a load of the flags that began earlier may outlast it.
Execute ==
    /\ press.stage = "sent" /\ scene \in Pressed.route.who
    /\ data' = Aged(data) /\ flight' = Aged(flight)
    /\ IF "SystemFlag" \in Pressed.route.writes THEN SetFlag ELSE UNCHANGED server
    /\ press' = [press EXCEPT !.stage = "executed",
                              !.excused = key = FlagsKey /\ load # "idle",
                              !.push = PushesToSender]
    /\ UNCHANGED browser

Refuse ==
    /\ press.stage = "sent"
    /\ press' = [press EXCEPT !.stage = "failed"]
    /\ UNCHANGED <<browser, data, flight, server>>

\* The answer is lost on the way: the browser takes the change for failed.
Lose ==
    /\ press.stage = "executed"
    /\ press' = [press EXCEPT !.stage = "failed"]
    /\ UNCHANGED <<browser, data, flight, server>>

\* The keys declared stale are asked again, a request under way is dropped
\* for a new one; but a first request, with nothing in the cache yet, is left
\* to finish.
invalidateQueries(stale) ==
    IF data # "none" /\ \E k \in stale : IsPrefix(k, key)
    THEN flight' = "sent" ELSE UNCHANGED flight

Succeed ==
    /\ press.stage = "executed"
    /\ invalidateQueries(Pressed.stale)
    /\ press' = [press EXCEPT !.stage = "done", !.excused = @ \/ data = "none"]
    /\ UNCHANGED <<browser, data, server>>

\* The push arrives, before the answer of the button or after it.
ReceivePush ==
    /\ press.push
    /\ invalidateQueries({<<"notifications">>})
    /\ press' = [press EXCEPT !.push = FALSE, !.excused = @ \/ data = "none"]
    /\ UNCHANGED <<browser, data, server>>

\* The socket is not connected: nobody sends the push again.
MissPush ==
    /\ press.push
    /\ press' = [press EXCEPT !.push = FALSE, !.excused = TRUE]
    /\ UNCHANGED <<browser, data, flight, server>>

Next ==
    \/ Open \/ Leave
    \/ BeginLoad \/ StoreLoad \/ Expire
    \/ Read \/ Answer \/ Poll
    \/ Press \/ Execute \/ Refuse \/ Lose \/ Succeed
    \/ ReceivePush \/ MissPush

\* Requests are answered, intervals and the age of the cache run out.
Fairness ==
    /\ WF_vars(BeginLoad) /\ WF_vars(StoreLoad) /\ WF_vars(Expire)
    /\ WF_vars(Read) /\ WF_vars(Answer) /\ WF_vars(Poll)

Spec == Init /\ [][Next]_vars /\ Fairness

-----------------------------------------------------------------------------
(* Properties *)

TypeOK ==
    /\ page \in PageName \cup {Home}
    /\ scene \in Scene
    /\ page # Home => \E q \in Queries[page] : q.key = key /\ scene \in q.where
    /\ data \in {"none", "current", "old"}
    /\ flight \in {"idle", "sent", "current", "old"}
    /\ press.stage \in {"idle", "sent", "executed", "done", "failed"}
    /\ press.push => press.stage \in {"executed", "done", "failed"}
    /\ cache \in {"empty", "current", "old"}
    /\ load \in {"idle", "current", "old"}

\* What is offered all the same and refused: a collaborator is shown the visits
\* and the tasks of the ticket, which the server lets only its assignee see;
\* anybody's task can be ticked off or deleted on the screen; the two forms of
\* request are open to accounts the directory does not call employees.
RefusedToHelpers ==
    {"visitPropose", "visitConfirm", "visitDone", "visitCancel", "taskSave",
     "taskToggle", "taskDelete"}
KnownRefusal(b, s) ==
    \/ s.hand = "collaborator" /\ b.name \in RefusedToHelpers
    \/ ~s.mine /\ b.name \in {"taskToggle", "taskDelete"}
    \/ s.account \notin StaffAccount /\ b.name = "create"

\* What a screen shows its user he may do: apart from the refusals named above,
\* every query it makes and every button it draws is one the server accepts
\* from him, and every entry of the menu leads to a page that opens.  The
\* browser decides it with rules of its own (CanActOnStatus and the like).
OfferedIsAccepted ==
    page # Home =>
        /\ \A q \in Queries[page] :
              scene \in q.where =>
                  \/ scene \in q.route.who
                  \/ scene.hand = "collaborator" /\ q.key \in {VisitsKey, TasksKey}
        /\ \A b \in Buttons[page] :
              scene \in b.where => scene \in b.route.who \/ KnownRefusal(b, scene)
        /\ \A e \in MenuItems : scene \in e.where => scene \in ProtectedRoute(e.page)

\* The keys a page forgets to declare stale: the counts of open tickets in the
\* list of assignees, the warning that a visit being proposed meets a task, and
\* the banner of maintenance (until its next interval).
Forgotten ==
    {[page |-> "ticket", key |-> <<"users">>,                 table |-> "Workload"],
     [page |-> "ticket", key |-> <<"visit-conflicts">>,       table |-> "CalendarTask"],
     [page |-> "flags",  key |-> <<"system", "maintenance">>, table |-> "SystemFlag"]}

\* Once a button has succeeded and nothing more is under way, the screen shows
\* what it changed: the keys declared stale, by the button or by a push about
\* it, cover every query that reads what the route writes.  Excepted are the
\* keys above, a change made before the first answer to the query was there
\* (the browser does not ask again), a flag set while a load of the flags was
\* under way, and the sender's own copy of a broadcast when his socket was not
\* connected: the page declares nothing stale, so that only the push shows it.
OwnChangeShown ==
    press.stage = "done" /\ ~press.push /\ flight = "idle" /\ data = "old" =>
        \/ press.excused
        \/ \E f \in Forgotten :
              f.page = page /\ f.key = key /\ f.table \in Pressed.route.writes

\* Whatever made it stale (an answer lost, a load that outlasted the change of
\* a flag), a query that is asked at intervals shows the present in the end.
CatchesUp ==
    (page # Home /\ data = "old" /\ Watched.polled) ~> (page = Home \/ data = "current")
=============================================================================
