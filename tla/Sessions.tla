------------------------------ MODULE Sessions ------------------------------
(***************************************************************************)
(* Accounts, refresh tokens and the tabs of one browser: the authorisation *)
(* service and the user service on one side, the client's interceptor,     *)
(* AuthContext and the MAX launch on the other.  The tabs share one        *)
(* refresh cookie.  A request is answered after the service has gone       *)
(* through its awaits one by one; in between, anything else may happen.    *)
(***************************************************************************)
EXTENDS Naturals, Sequences, FiniteSets

CONSTANTS User,        \* accounts, by username
          Local,       \* those of source LOCAL; the others live in the directory
          Master,      \* the breakglass account
          Tab, Call,   \* tabs of the browser, calls a tab may have outstanding
          None,
          Role,        \* roles an administrator hands out
          FirstRole,   \* the role a user's row has at the start
          Entry,       \* what the directory may say of a person
          AccessTTL, RefreshTTL,
          MaxTime, MaxTokens, MaxEvents   \* bounds of the model

ASSUME SessionConstants ==
    /\ Master \subseteq Local /\ Local \subseteq User
    /\ None \notin User
    /\ FirstRole \in [User -> Role]
    /\ "USER" \in Role /\ Role \subseteq {"USER", "INTERN", "ADMIN"}
    /\ {"staff", "off"} \subseteq Entry /\ Entry \subseteq {"staff", "other", "off"}
    /\ {AccessTTL, RefreshTTL, MaxTime, MaxTokens, MaxEvents} \subseteq Nat
    /\ AccessTTL > 0 /\ RefreshTTL > 0

VARIABLES
    now,            \* the clock, in access-token lifetimes or parts of them
    users,          \* rows of the table of users
    refreshTokens,  \* rows of the table of refresh tokens, oldest first
    maxOwner,       \* whose account this device's MAX account is linked to
    maintenance,    \* the flag maintenance_mode, and when it last changed
    directory,      \* the directory's entry of every LDAP user
    sync,           \* the synchronisation in progress
    cookie,         \* the browser's refresh cookie: a token, or 0
    tabs,           \* what each tab holds
    flight,         \* the requests in flight, by tab and slot
    events,         \* bounds the model: what befell the system from outside
    changed,        \* history: when a user's rights last changed
    ended,          \* history: sessions somebody logged out of
    raced,          \* history: sessions whose requests overlapped, or logged
                    \* out of by a token no longer live
    stranded,       \* history: sessions hit by a lost answer or a crash
    shut            \* history: outside the staff group since before the last sync

store == <<users, refreshTokens, maxOwner, maintenance>>
outside == <<directory, sync, shut>>
client == <<cookie, tabs>>
history == <<events, changed, ended, raced, stranded>>
vars == <<now, store, outside, client, flight, history>>

Slot == {"session", "form"}
Kind == {"none", "restore", "refresh", "login", "link", "max", "logout"}
Stage == {"sent", "known", "checked", "granted", "linkable", "spent",
          "issued", "done", "refused"}

Row == [row : BOOLEAN, isActive : BOOLEAN, isStaff : BOOLEAN, role : Role]
NoRow == [row |-> FALSE, isActive |-> FALSE, isStaff |-> FALSE, role |-> "USER"]

StaffRow(role) == [row |-> TRUE, isActive |-> TRUE, isStaff |-> TRUE, role |-> role]

NoAccess == [user |-> None, role |-> "USER", isStaff |-> FALSE, exp |-> 0]

Idle == [kind |-> "none", stage |-> "done", token |-> 0, who |-> None,
         rights |-> NoRow, heard |-> TRUE]

Closed == [page |-> "closed", launch |-> "web", user |-> None, by |-> None,
           access |-> NoAccess, wait |-> {}, mixed |-> FALSE]

TypeOK ==
    /\ now \in 0..MaxTime
    /\ users \in [User -> Row]
    /\ \A i \in DOMAIN refreshTokens :
          refreshTokens[i] \in [user : User, session : 1..i, expiresAt : Nat,
                                state : {"live", "revoked", "gone"}]
    /\ maxOwner \in User \cup {None}
    /\ maintenance \in [on : BOOLEAN, since : 0..MaxTime]
    /\ directory \in [User \ Local -> Entry]
    /\ sync \in [stage : {"idle", "fetched", "upserted"},
                 members : SUBSET User, outside : SUBSET User]
    /\ cookie \in 0..Len(refreshTokens)
    /\ tabs \in [Tab -> [page : {"closed", "loading", "login", "in"},
                         launch : {"web", "max"},
                         user : User \cup {None}, by : User \cup {None},
                         access : [user : User \cup {None}, role : Role,
                                   isStaff : BOOLEAN, exp : Nat],
                         wait : SUBSET Call, mixed : BOOLEAN]]
    /\ flight \in [Tab \X Slot ->
                    [kind : Kind, stage : Stage, token : 0..Len(refreshTokens),
                     who : User \cup {None}, rights : Row, heard : BOOLEAN]]
    /\ events \in 0..MaxEvents
    /\ changed \in [User -> 0..MaxTime]
    /\ \A s \in {ended, raced, stranded} : s \subseteq DOMAIN refreshTokens
    /\ shut \subseteq User

Init ==
    /\ now = 0
    /\ \E new \in User \ Master :   \* one of them the system does not know yet
          users = [u \in User |-> IF u = new THEN NoRow ELSE StaffRow(FirstRole[u])]
    /\ refreshTokens = <<>>
    /\ maxOwner \in {None} \cup {u \in User : users[u].row}
    /\ maintenance = [on |-> FALSE, since |-> 0]
    /\ directory = [u \in User \ Local |->   \* a leaver known here, or a newcomer
                      IF users[u].row THEN "off" ELSE "staff"]
    /\ sync = [stage |-> "idle", members |-> {}, outside |-> {}]
    /\ cookie = 0
    /\ tabs = [t \in Tab |-> Closed]
    /\ flight = [f \in Tab \X Slot |-> Idle]
    /\ events = 0
    /\ changed = [u \in User |-> 0]
    /\ ended = {} /\ raced = {} /\ stranded = {} /\ shut = {}

-----------------------------------------------------------------------------
(* What the service asks before it lets anybody in. *)

Live(i) == i # 0 /\ refreshTokens[i].state = "live"

\* The cookie's JWT has not expired and its row is there, unrevoked.
Usable(i) == Live(i) /\ now < refreshTokens[i].expiresAt

Session(i) == refreshTokens[i].session

BlockedByMaintenance(u, row) ==
    maintenance.on /\ row.role # "ADMIN" /\ u \notin Master

CanEnterSlip(u, row) == row.row /\ ~BlockedByMaintenance(u, row)
CanEnter(u, row) == row.row /\ row.isActive /\ ~BlockedByMaintenance(u, row)

Access(u, row) == [user |-> u, role |-> row.role, isStaff |-> row.isStaff,
                   exp |-> now + AccessTTL]

Request(kind) == [kind |-> kind, stage |-> "sent", token |-> 0, who |-> None,
                  rights |-> NoRow, heard |-> TRUE]

\* A request that carries the browser's cookie as it is now.
WithCookie(kind) == [Request(kind) EXCEPT !.token = cookie]

Free(t, s) == flight[<<t, s>>].kind = "none"
\* Crashes, lost answers and what administrators and the directory do.
Event == events < MaxEvents /\ events' = events + 1

Pending(f) ==
    flight[f].kind # "none" /\ flight[f].stage \notin {"issued", "done", "refused"}

\* Bounds the model: no new request that may issue a token past MaxTokens.
Room == Len(refreshTokens) + Cardinality({f \in Tab \X Slot : Pending(f)}) < MaxTokens

-----------------------------------------------------------------------------
(* The client. *)

Relaunched(t, l) ==
    [Closed EXCEPT !.page = "loading", !.launch = l]

\* A page load starts with one request: a restore by the cookie, unless MAX
\* launched the page, in which case the launch data is presented instead.
FirstRequestSlip(t, l) ==
    IF l = "max" THEN [flight EXCEPT ![<<t, "form">>] = Request("max"),
                                     ![<<t, "session">>] = WithCookie("restore")]
                 ELSE [flight EXCEPT ![<<t, "session">>] = WithCookie("restore")]
FirstRequest(t, l) ==
    IF l = "max" THEN [flight EXCEPT ![<<t, "form">>] = Request("max")]
                 ELSE [flight EXCEPT ![<<t, "session">>] = WithCookie("restore")]

Load(t, l) ==
    /\ Free(t, "session") /\ Free(t, "form") /\ Room
    /\ tabs' = [tabs EXCEPT ![t] = Relaunched(t, l)]
    /\ flight' = FirstRequest(t, l)
    /\ UNCHANGED <<now, store, outside, cookie, history>>

\* LoginPage, or the form the MAX launch shows to an account not linked yet.
Submit(t, u) ==
    LET kind == IF tabs[t].launch = "max" THEN "link" ELSE "login" IN
    /\ \/ tabs[t].page = "login"
       \/ tabs[t].page = "loading" /\ tabs[t].launch = "web"
    /\ Room /\ \A x \in Tab : Free(x, "form")   \* bounds the model: one form at a time
    /\ flight' = [flight EXCEPT ![<<t, "form">>] = [Request(kind) EXCEPT !.who = u]]
    /\ UNCHANGED <<now, store, outside, client, history>>

\* A call of the tab is answered 401: it waits for the tab's one refresh.
CallRefused(t, c) ==
    /\ tabs[t].page = "in" /\ c \notin tabs[t].wait
    /\ now >= tabs[t].access.exp
    /\ flight[<<t, "session">>].kind \in {"none", "refresh"}
    /\ tabs' = [tabs EXCEPT ![t].wait = @ \cup {c}]
    /\ \/ /\ ~Free(t, "session")
          /\ UNCHANGED flight
       \/ /\ Free(t, "session") /\ Room
          /\ flight' = [flight EXCEPT ![<<t, "session">>] = WithCookie("refresh")]
    /\ UNCHANGED <<now, store, outside, cookie, history>>

Logout(t) ==
    /\ tabs[t].page = "in" /\ Free(t, "form")
    /\ flight' = [flight EXCEPT ![<<t, "form">>] = WithCookie("logout")]
    /\ UNCHANGED <<now, store, outside, client, history>>

-----------------------------------------------------------------------------
(* The service, one await at a time. *)

At(f, kinds, stage) == flight[f].kind \in kinds /\ flight[f].stage = stage
To(f, stage) == flight' = [flight EXCEPT ![f].stage = stage]
Refuse(f) == flight' = [flight EXCEPT ![f] =
                 [Idle EXCEPT !.kind = flight[f].kind, !.heard = flight[f].heard,
                              !.stage = "refused"]]

\* refresh(): another refresh of the same session is under way.
Overlapping(f) ==
    \E g \in (Tab \X Slot) \ {f} :
       /\ flight[g].kind \in {"restore", "refresh"}
       /\ flight[g].stage \in {"checked", "spent", "issued"}
       /\ flight[g].token # 0 /\ Session(flight[g].token) = Session(flight[f].token)

RefreshCheck(f) ==
    LET i == flight[f].token
        u == refreshTokens[i].user IN
    /\ At(f, {"restore", "refresh"}, "sent")
    /\ \/ /\ Usable(i) /\ CanEnter(u, users[u])
          /\ flight' = [flight EXCEPT ![f].stage = "checked", ![f].who = u,
                                      ![f].rights = users[u]]
          /\ raced' = IF Overlapping(f) THEN raced \cup {Session(i)} ELSE raced
       \/ /\ ~(Usable(i) /\ CanEnter(u, users[u]))
          /\ Refuse(f)
          /\ UNCHANGED raced
    /\ UNCHANGED <<now, store, outside, client, changed, ended, stranded, events>>

\* The old token is revoked, by its id alone; the update fails if the row is gone.
RefreshSpendSlip(f) ==
    /\ At(f, {"restore", "refresh"}, "checked")
    /\ To(f, "spent")
    /\ UNCHANGED <<now, store, outside, client, history>>
RefreshSpend(f) ==
    LET i == flight[f].token IN
    /\ At(f, {"restore", "refresh"}, "checked")
    /\ \/ /\ refreshTokens[i].state # "gone"
          /\ refreshTokens' = [refreshTokens EXCEPT ![i].state = "revoked"]
          /\ To(f, "spent")
       \/ /\ refreshTokens[i].state = "gone"
          /\ Refuse(f)
          /\ UNCHANGED refreshTokens
    /\ UNCHANGED <<now, users, maxOwner, maintenance, outside, client, history>>

\* What the directory answers: an entry that is neither missing nor disabled,
\* its membership in the staff group, and the group as a whole.
InDirectory(u) == directory[u] # "off"
IsStaffMember(u) == directory[u] = "staff"
StaffGroupMembers == {u \in User \ Local : IsStaffMember(u)}

\* login(), against the local hash or the directory.
VerifyCredentials(f) ==
    LET u == flight[f].who IN
    /\ At(f, {"login", "link"}, "sent")
    /\ \/ /\ u \in Local /\ CanEnter(u, users[u])
          /\ flight' = [flight EXCEPT ![f].stage = "granted", ![f].rights = users[u]]
       \/ /\ u \notin Local /\ InDirectory(u)
          /\ flight' = [flight EXCEPT ![f].stage = "known",
                                      ![f].rights.isStaff = IsStaffMember(u)]
       \/ Refuse(f)   \* a wrong password, no such entry, no directory
    /\ UNCHANGED <<now, store, outside, client, history>>

\* What upsertFromLdap leaves in the row.
Upserted(u, isStaff) ==
    IF users[u].row THEN [users[u] EXCEPT !.isStaff = isStaff]
    ELSE [row |-> TRUE, isActive |-> TRUE, isStaff |-> isStaff, role |-> "USER"]

TouchedAt(u, row) == [changed EXCEPT ![u] = IF row = users[u] THEN @ ELSE now]

UpsertFromLdap(f) ==
    LET u == flight[f].who
        row == Upserted(u, flight[f].rights.isStaff) IN
    /\ At(f, {"login", "link"}, "known")
    /\ users' = [users EXCEPT ![u] = row]
    /\ changed' = TouchedAt(u, row)
    /\ IF CanEnter(u, row)
       THEN flight' = [flight EXCEPT ![f].rights = row, ![f].stage = "granted"]
       ELSE Refuse(f)
    /\ UNCHANGED <<now, refreshTokens, maxOwner, maintenance, outside, client,
                   ended, raced, stranded, events>>

LoginViaMaxSlip(f) ==
    /\ At(f, {"max"}, "sent")
    /\ IF maxOwner # None
       THEN flight' = [flight EXCEPT ![f].stage = "granted", ![f].who = maxOwner,
                                     ![f].rights = users[maxOwner]]
       ELSE Refuse(f)
    /\ UNCHANGED <<now, store, outside, client, history>>
LoginViaMax(f) ==
    /\ At(f, {"max"}, "sent")
    /\ \/ /\ maxOwner # None /\ CanEnter(maxOwner, users[maxOwner])
          /\ flight' = [flight EXCEPT ![f].stage = "granted", ![f].who = maxOwner,
                                      ![f].rights = users[maxOwner]]
       \/ /\ ~(maxOwner # None /\ CanEnter(maxOwner, users[maxOwner]))
          /\ Refuse(f)
    /\ UNCHANGED <<now, store, outside, client, history>>

\* loginAndLinkMax(): the link is looked up first and written afterwards; the
\* write fails if somebody else took the MAX account in between.
LinkCheck(f) ==
    /\ At(f, {"link"}, "granted")
    /\ IF maxOwner \in {None, flight[f].who} THEN To(f, "linkable") ELSE Refuse(f)
    /\ UNCHANGED <<now, store, outside, client, history>>

LinkWrite(f) ==
    LET u == flight[f].who IN
    /\ At(f, {"link"}, "linkable")
    /\ \/ /\ maxOwner \in {None, u} /\ users[u].row
          /\ maxOwner' = u
          /\ To(f, "spent")
       \/ /\ maxOwner \notin {None, u} \/ ~users[u].row
          /\ Refuse(f)
          /\ UNCHANGED maxOwner
    /\ UNCHANGED <<now, users, refreshTokens, maintenance, outside, client, history>>

Unlink(t) ==
    /\ tabs[t].page = "in" /\ now < tabs[t].access.exp
    /\ maxOwner = tabs[t].access.user /\ maxOwner # None
    /\ maxOwner' = None
    /\ UNCHANGED <<now, users, refreshTokens, maintenance, outside, client,
                   flight, history>>

\* issueTokens(): the row of the new refresh token; the access token carries the
\* rights that were read at the check.
ReadyToIssue(f) ==
    \/ At(f, {"restore", "refresh", "link"}, "spent")
    \/ At(f, {"login", "max"}, "granted")

IssueTokensSlip(f) ==
    /\ ReadyToIssue(f)
    /\ flight' = [flight EXCEPT ![f].stage = "issued", ![f].token = Len(refreshTokens) + 1]
    /\ UNCHANGED <<now, store, outside, client, history>>
IssueTokens(f) ==
    LET u == flight[f].who
        new == Len(refreshTokens) + 1
        old == flight[f].token IN
    /\ ReadyToIssue(f)
    /\ \/ /\ users[u].row
          /\ refreshTokens' = Append(refreshTokens,
               [user |-> u, session |-> IF old = 0 THEN new ELSE Session(old),
                expiresAt |-> now + RefreshTTL, state |-> "live"])
          /\ flight' = [flight EXCEPT ![f].stage = "issued", ![f].token = new]
       \/ /\ ~users[u].row
          /\ Refuse(f)
          /\ UNCHANGED refreshTokens
    /\ UNCHANGED <<now, users, maxOwner, maintenance, outside, client, history>>

\* logout(): needs an unexpired cookie; the row is revoked if it still is live.
RevokeToken(f) ==
    LET i == flight[f].token IN
    /\ At(f, {"logout"}, "sent")
    /\ \/ /\ i # 0 /\ now < refreshTokens[i].expiresAt
          /\ refreshTokens' = [refreshTokens EXCEPT
                 ![i].state = IF @ = "live" THEN "revoked" ELSE @]
          /\ ended' = ended \cup {Session(i)}
          /\ raced' = IF Overlapping(f) \/ ~Live(i) THEN raced \cup {Session(i)} ELSE raced
          /\ To(f, "done")
       \/ /\ ~(i # 0 /\ now < refreshTokens[i].expiresAt)
          /\ Refuse(f)
          /\ UNCHANGED <<refreshTokens, ended, raced>>
    /\ UNCHANGED <<now, users, maxOwner, maintenance, outside, client,
                   changed, stranded, events>>

\* The process dies in the middle of a request: the client sees an error.
Crash(f) ==
    /\ Event
    /\ Pending(f)
    /\ Refuse(f)
    /\ stranded' = IF flight[f].stage = "spent" /\ flight[f].token # 0
                   THEN stranded \cup {Session(flight[f].token)} ELSE stranded
    /\ UNCHANGED <<now, store, outside, client, changed, ended, raced>>

-----------------------------------------------------------------------------
(* The answers, as the tab receives them. *)

Signs(t, f) == Access(flight[f].who, flight[f].rights)

\* The cookie is now a token of u: tabs that show another user go on doing so.
Mixed(u) ==
    [x \in Tab |-> [tabs[x] EXCEPT !.mixed = @ \/ tabs[x].user \notin {None, u}]]

\* The tab's own session request is still in flight, for whoever was there before.
Overtaken(t) ==
    flight[<<t, "session">>].kind \in
        IF tabs[t].launch = "web" THEN {"restore", "refresh"} ELSE {"refresh"}

LetIn(t) ==
    LET f == <<t, "form">>
        u == flight[f].who IN
    /\ flight[f].kind \in {"login", "link", "max"} /\ flight[f].stage = "issued"
    /\ cookie' = flight[f].token
    /\ tabs' = IF flight[f].heard
               THEN [Mixed(u) EXCEPT ![t] =
                       [tabs[t] EXCEPT !.page = "in", !.user = u, !.by = u,
                                       !.access = Signs(t, f),
                                       !.mixed = @ \/ Overtaken(t)]]
               ELSE Mixed(u)
    /\ flight' = [flight EXCEPT ![f] = Idle]
    /\ UNCHANGED <<now, store, outside, history>>

\* restore() puts in both the token and the user; the interceptor's refresh
\* puts in the token only, and lets the waiting calls go again.
Restored(t) ==
    LET f == <<t, "session">> IN
    /\ flight[f].kind = "restore" /\ flight[f].stage = "issued"
    /\ cookie' = flight[f].token
    /\ tabs' = [Mixed(flight[f].who) EXCEPT ![t] =
                  [tabs[t] EXCEPT !.page = "in", !.user = flight[f].who,
                                  !.access = Signs(t, f)]]
    /\ flight' = [flight EXCEPT ![f] = Idle]
    /\ UNCHANGED <<now, store, outside, history>>

RefreshedSlip(t) ==
    LET f == <<t, "session">> IN
    /\ flight[f].kind = "refresh" /\ flight[f].stage = "issued"
    /\ tabs' = [tabs EXCEPT ![t].access = Signs(t, f), ![t].wait = {}]
    /\ flight' = [flight EXCEPT ![f] = Idle]
    /\ UNCHANGED <<now, store, outside, cookie, history>>
Refreshed(t) ==
    LET f == <<t, "session">> IN
    /\ flight[f].kind = "refresh" /\ flight[f].stage = "issued"
    /\ cookie' = flight[f].token
    /\ tabs' = [Mixed(flight[f].who) EXCEPT ![t] =
                  [tabs[t] EXCEPT !.access = Signs(t, f), !.wait = {}]]
    /\ flight' = [flight EXCEPT ![f] = Idle]
    /\ UNCHANGED <<now, store, outside, history>>

LoggedOut(t) ==
    LET f == <<t, "form">> IN
    /\ flight[f].kind = "logout" /\ flight[f].stage = "done"
    /\ cookie' = 0
    /\ tabs' = IF flight[f].heard
               THEN [tabs EXCEPT ![t].page = "login", ![t].user = None,
                                 ![t].by = None, ![t].access = NoAccess]
               ELSE tabs
    /\ flight' = [flight EXCEPT ![f] = Idle]
    /\ UNCHANGED <<now, store, outside, history>>

\* What a tab does when a request of its fails.  A failed refresh throws the
\* page out to /login, which loads the application anew.
FailedSlip(t, s) ==
    /\ flight' = [flight EXCEPT ![<<t, s>>] = Idle]
    /\ UNCHANGED client
Failed(t, s) ==
    LET f == <<t, s>>
        k == flight[f].kind
        out == [tabs EXCEPT ![t].page = "login", ![t].user = None, ![t].by = None,
                            ![t].access = NoAccess]
        freed == [flight EXCEPT ![f] = Idle] IN
    /\ UNCHANGED cookie
    /\ \/ k \in {"restore", "logout"} /\ flight[f].heard
          /\ tabs' = out /\ flight' = freed
       \/ k = "max" /\ flight[f].heard
          /\ tabs' = [tabs EXCEPT ![t].page = "login"] /\ flight' = freed
       \/ /\ k \in {"login", "link"} \/ ~flight[f].heard
          /\ flight' = freed /\ UNCHANGED tabs
       \/ k = "refresh"
          /\ \E l \in {"web", tabs[t].launch} :
                LET form == IF flight[<<t, "form">>].kind = "none" THEN Idle
                            ELSE [flight[<<t, "form">>] EXCEPT !.heard = FALSE] IN
                /\ l = "max" => Free(t, "form")
                /\ tabs' = [tabs EXCEPT ![t] = Relaunched(t, l)]
                /\ flight' = IF l = "max"
                     THEN [flight EXCEPT ![f] = Idle, ![<<t, "form">>] = Request("max")]
                     ELSE [flight EXCEPT ![f] = WithCookie("restore"),
                                         ![<<t, "form">>] = form]

Refused(t, s) ==
    /\ flight[<<t, s>>].kind # "none" /\ flight[<<t, s>>].stage = "refused"
    /\ Failed(t, s)
    /\ UNCHANGED <<now, store, outside, history>>

\* The answer is lost on the way: no cookie, and the client sees an error.
Lost(t, s) ==
    LET f == flight[<<t, s>>] IN
    /\ Event
    /\ f.kind # "none" /\ f.stage \in {"issued", "done"}
    /\ Failed(t, s)
    /\ stranded' = IF f.token # 0 THEN stranded \cup {Session(f.token)} ELSE stranded
    /\ UNCHANGED <<now, store, outside, changed, ended, raced>>

-----------------------------------------------------------------------------
(* Administrators, the directory, and time. *)

SetRole(u, r) ==
    /\ Event
    /\ users[u].row /\ u \notin Master /\ users[u].role # r
    /\ users' = [users EXCEPT ![u].role = r]
    /\ changed' = [changed EXCEPT ![u] = now]
    /\ UNCHANGED <<now, refreshTokens, maxOwner, maintenance, outside, client,
                   flight, ended, raced, stranded>>

\* The user's tokens and MAX link go with the row.
RemoveUser(u) ==
    /\ Event
    /\ users[u].row /\ u \notin Master
    /\ users' = [users EXCEPT ![u] = NoRow]
    /\ refreshTokens' = [i \in DOMAIN refreshTokens |->
          [refreshTokens[i] EXCEPT !.state = IF refreshTokens[i].user = u
                                             THEN "gone" ELSE @]]
    /\ maxOwner' = IF maxOwner = u THEN None ELSE maxOwner
    /\ changed' = [changed EXCEPT ![u] = now]
    /\ UNCHANGED <<now, maintenance, outside, client, flight, ended, raced, stranded>>

CreateLocal(u) ==
    /\ Event
    /\ u \in Local /\ ~users[u].row
    /\ \E r \in Role :
          users' = [users EXCEPT ![u] = StaffRow(r)]
    /\ changed' = [changed EXCEPT ![u] = now]
    /\ UNCHANGED <<now, refreshTokens, maxOwner, maintenance, outside, client,
                   flight, ended, raced, stranded>>

SetMaintenance(b) ==
    /\ Event
    /\ maintenance.on # b
    /\ maintenance' = [on |-> b, since |-> now]
    /\ UNCHANGED <<now, users, refreshTokens, maxOwner, outside, client,
                   flight, changed, ended, raced, stranded>>

DirectoryChanges(u, e) ==
    /\ Event
    /\ directory[u] # e
    /\ directory' = [directory EXCEPT ![u] = e]
    /\ IF e = "staff"
       THEN /\ sync' = [sync EXCEPT !.outside = @ \ {u}]
            /\ shut' = shut \ {u}
       ELSE UNCHANGED <<sync, shut>>
    /\ UNCHANGED <<now, store, client, flight, changed, ended, raced, stranded>>

\* syncFromLdap(): the members are fetched, each is upserted, then every staff
\* row that is not among the members fetched is deactivated.
SyncFetch ==
    LET members == StaffGroupMembers
        arriving == {flight[f].who : f \in {g \in Tab \X Slot : flight[g].stage = "known"}} IN
    /\ Event
    /\ sync.stage = "idle"
    /\ sync' = [stage |-> "fetched", members |-> members,
                outside |-> (User \ Local) \ (members \cup arriving)]
    /\ UNCHANGED <<now, store, directory, shut, client,
                   flight, changed, ended, raced, stranded>>

SyncUpsert ==
    LET row(u) == IF u \in sync.members THEN Upserted(u, TRUE) ELSE users[u] IN
    /\ sync.stage = "fetched"
    /\ users' = [u \in User |-> row(u)]
    /\ changed' = [u \in User |-> TouchedAt(u, row(u))[u]]
    /\ sync' = [sync EXCEPT !.stage = "upserted"]
    /\ UNCHANGED <<now, refreshTokens, maxOwner, maintenance, directory, shut,
                   client, flight, ended, raced, stranded, events>>

\* The rows the synchronisation switches off.
StaleStaffSlip == {u \in User \ Local : /\ users[u].row /\ ~users[u].isStaff
                                        /\ u \notin sync.members}
StaleStaff == {u \in User \ Local : /\ users[u].row /\ users[u].isStaff /\ users[u].isActive
                                    /\ u \notin sync.members}

SyncDeactivate ==
    LET stale == StaleStaff IN
    /\ sync.stage = "upserted"
    /\ users' = [u \in User |-> IF u \in stale
                                THEN [users[u] EXCEPT !.isActive = FALSE, !.isStaff = FALSE]
                                ELSE users[u]]
    /\ changed' = [u \in User |-> IF u \in stale THEN now ELSE changed[u]]
    /\ sync' = [stage |-> "idle", members |-> {}, outside |-> {}]
    /\ shut' = shut \cup sync.outside
    /\ UNCHANGED <<now, refreshTokens, maxOwner, maintenance, directory, client,
                   flight, ended, raced, stranded, events>>

\* A request takes less than a tick.
Tick ==
    /\ Event
    /\ now < MaxTime /\ sync.stage = "idle"
    /\ \A f \in Tab \X Slot : flight[f].kind = "none"
    /\ now' = now + 1
    /\ UNCHANGED <<store, outside, client, flight, changed, ended, raced, stranded>>

Serve(f) ==
    \/ RefreshCheck(f) \/ RefreshSpend(f) \/ VerifyCredentials(f) \/ UpsertFromLdap(f)
    \/ LoginViaMax(f) \/ LinkCheck(f) \/ LinkWrite(f) \/ IssueTokens(f) \/ RevokeToken(f)

Answer(t) ==
    \/ LetIn(t) \/ Restored(t) \/ Refreshed(t) \/ LoggedOut(t)
    \/ \E s \in Slot : Refused(t, s)

Next ==
    \/ \E t \in Tab : \/ \E l \in {"web", "max"} : Load(t, l)
                      \/ \E u \in User : Submit(t, u)
                      \/ \E c \in Call : CallRefused(t, c)
                      \/ Logout(t) \/ Unlink(t) \/ Answer(t)
                      \/ \E s \in Slot : Lost(t, s)
    \/ \E f \in Tab \X Slot : Serve(f) \/ Crash(f)
    \/ \E u \in User : \/ \E r \in Role : SetRole(u, r)
                       \/ RemoveUser(u) \/ CreateLocal(u)
    \/ \E b \in BOOLEAN : SetMaintenance(b)
    \/ \E u \in User \ Local, e \in Entry : DirectoryChanges(u, e)
    \/ SyncFetch \/ SyncUpsert \/ SyncDeactivate
    \/ Tick

\* A request that was sent is worked on, and its answer arrives or is lost.
Fairness ==
    \A t \in Tab : /\ WF_vars(Answer(t))
                   /\ \A s \in Slot : WF_vars(Serve(<<t, s>>))

Spec == Init /\ [][Next]_vars /\ Fairness

-----------------------------------------------------------------------------
LiveTokens(s) == {i \in DOMAIN refreshTokens : Live(i) /\ Session(i) = s}

\* Rotation and logout: unless two requests of the session overlapped, or it was
\* logged out of by a token already replaced, a session has at most one live
\* refresh token, and none once its user has logged out of it, lost answers and
\* crashes notwithstanding (auth.service.ts: refresh, logout).
OneLiveToken ==
    \A s \in DOMAIN refreshTokens \ raced :
       Cardinality(LiveTokens(s)) <= IF s \in ended THEN 0 ELSE 1

AtRest == \A f \in Tab \X Slot : flight[f].kind = "none"

\* Whatever tabs do at the same time, when they are at rest the cookie they
\* share is a live token, unless its session was logged out, its user removed,
\* or an answer was lost: racing refreshes strand nobody (refresh, client.ts).
CookieIsLive ==
    AtRest /\ cookie # 0 =>
       \/ refreshTokens[cookie].state \in {"live", "gone"}
       \/ Session(cookie) \in ended \cup stranded

\* An access token never outlives a change of the rights it carries by more than
\* its own lifetime: not a role taken away, a row deactivated, or a user removed.
RightsFresh ==
    \A t \in Tab :
       LET c == tabs[t].access IN
       c.user # None =>
          \/ /\ users[c.user].row /\ users[c.user].isActive
             /\ users[c.user].role = c.role /\ users[c.user].isStaff = c.isStaff
          \/ c.exp <= changed[c.user] + AccessTTL

\* Maintenance: who is neither administrator nor master works at most one
\* access token past the moment it is switched on, by whatever way they come in
\* (assertNotBlockedByMaintenance and its comment).
MaintenanceHolds ==
    \A t \in Tab :
       LET c == tabs[t].access IN
       maintenance.on /\ c.user # None /\ c.role # "ADMIN" /\ c.user \notin Master =>
          c.exp <= maintenance.since + AccessTTL

\* A tab acts for the user it shows, and a page MAX launched shows who MAX let
\* in, unless another user's answer took the browser's cookie over under it, or
\* somebody logged in while its own session request was in flight (AuthContext:
\* no restore beside the MAX launch; client.ts: a refresh puts in the token only).
ActsAsShown ==
    \A t \in Tab :
       tabs[t].user # None /\ ~tabs[t].mixed =>
          /\ tabs[t].access.user \in {tabs[t].user, None}
          /\ tabs[t].by \in {tabs[t].user, None}

\* Whoever was outside the staff group all through a synchronisation and has
\* stayed outside has no active staff row, logins in between notwithstanding.
LeaverShutOut ==
    \A u \in shut : ~(users[u].isStaff /\ users[u].isActive)

\* A call that was answered 401 waits only as long as its tab has a refresh in
\* flight, whose answer lets it go again or fail (client.ts: refreshPromise).
WaitersHaveRefresh ==
    \A t \in Tab : tabs[t].wait # {} => flight[<<t, "session">>].kind = "refresh"

=============================================================================
