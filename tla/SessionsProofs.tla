--------------------------- MODULE SessionsProofs ---------------------------
(***************************************************************************)
(* Proofs about Sessions, for every set of users, tabs, calls and roles,   *)
(* every directory and every bound.                                        *)
(***************************************************************************)
EXTENDS Sessions, FiniteSetTheorems, TLAPS

-----------------------------------------------------------------------------
(* What a request carries, stage by stage.  None of the properties is       *)
(* inductive without it: the rights an access token is signed with, and the *)
(* token a refresh replaces, were read some awaits ago.                    *)

F == Tab \X Slot

Entering == {"checked", "granted", "linkable", "spent", "issued"}

Renewing(f) == flight[f].kind \in {"restore", "refresh"}

Sound(f, q) ==
    /\ q.kind \in IF f[2] = "session" THEN {"none", "restore", "refresh"}
                  ELSE {"none", "login", "link", "max", "logout"}
    /\ f[2] = "session" => q.heard
    /\ q.kind = "none" => q.stage = "done"
    /\ q.kind \in {"restore", "refresh"} =>
          q.stage \in {"sent", "checked", "spent", "issued", "refused"}
    /\ q.kind = "logout" => q.stage \in {"sent", "done", "refused"}
    /\ q.kind \in {"login", "link", "max"} =>
          q.stage \in {"sent", "known", "granted", "linkable", "spent", "issued", "refused"}
    /\ q.kind \in {"login", "link"} /\ q.stage = "sent" => q.who \in User
    /\ q.stage \in Entering \cup {"known"} => q.who \in User
    /\ q.kind \in {"login", "link", "max"} /\ q.stage # "issued" => q.token = 0
    /\ \/ q.stage = "issued"
       \/ q.kind \in {"restore", "refresh"} /\ q.stage \in {"checked", "spent"}
       => q.token # 0 /\ refreshTokens[q.token].user = q.who

TokenRow == [user : User, session : Nat, expiresAt : Nat,
             state : {"live", "revoked", "gone"}]

Typed ==
    /\ TypeOK
    /\ refreshTokens \in Seq(TokenRow)
    /\ \A f \in F : Sound(f, flight[f])

-----------------------------------------------------------------------------
(* The rights carried are the account's, or those it had until a moment ago. *)

Current(u, c) ==
    /\ users[u].row /\ users[u].isActive
    /\ users[u].role = c.role /\ users[u].isStaff = c.isStaff

Barred(u, c) == maintenance.on /\ c.role # "ADMIN" /\ u \notin Master

CarriesRights(f) ==
    flight[f].stage \in Entering =>
       /\ Current(flight[f].who, flight[f].rights) \/ changed[flight[f].who] = now
       /\ Barred(flight[f].who, flight[f].rights) => maintenance.since = now

HoldsRights(t) ==
    LET c == tabs[t].access IN
    c.user # None =>
       /\ c.exp <= now + AccessTTL
       /\ Current(c.user, c) \/ c.exp <= changed[c.user] + AccessTTL
       /\ Barred(c.user, c) => c.exp <= maintenance.since + AccessTTL

RightsInv == (\A f \in F : CarriesRights(f)) /\ (\A t \in Tab : HoldsRights(t))

-----------------------------------------------------------------------------
(* Who a tab shows, and whom its cookie and its requests are for.           *)

Shows(t) ==
    LET s == <<t, "session">> IN
    /\ flight[s].kind = "restore" =>
          tabs[t].launch = "web" /\ (tabs[t].mixed \/ tabs[t].by = None)
    /\ tabs[t].user # None /\ ~tabs[t].mixed =>
          /\ tabs[t].access.user \in {tabs[t].user, None}
          /\ tabs[t].by \in {tabs[t].user, None}
          /\ cookie # 0 => refreshTokens[cookie].user = tabs[t].user
          /\ flight[s].kind = "refresh" /\ flight[s].token # 0 =>
                refreshTokens[flight[s].token].user = tabs[t].user

-----------------------------------------------------------------------------
(* Leavers: those outside the group stay out of the list being written, and *)
(* no login in flight brings them in as staff.                              *)

Outside == shut \cup sync.outside

LeaversInv ==
    /\ \A u \in User : ~users[u].row => ~users[u].isStaff
    /\ Outside \subseteq User \ Local
    /\ Outside \cap sync.members = {}
    /\ \A u \in Outside : directory[u] # "staff"
    /\ \A f \in F : flight[f].stage = "known" /\ flight[f].who \in Outside =>
                       ~flight[f].rights.isStaff
    /\ LeaverShutOut

-----------------------------------------------------------------------------
(* Tokens: of one user along a session, gone with the row, and at most one  *)
(* of them live while no two requests of the session overlapped.            *)

Tokens == DOMAIN refreshTokens

OwnersInv ==
    /\ \A i, j \in Tokens : Session(i) = Session(j) =>
          refreshTokens[i].user = refreshTokens[j].user
    /\ \A i \in Tokens : ~users[refreshTokens[i].user].row =>
          refreshTokens[i].state = "gone"

Clean(s) == s \notin raced

Rotating(f) == Renewing(f) /\ flight[f].stage \in {"checked", "spent", "issued"}

FlightSession(f) == Session(flight[f].token)

RotationInv ==
    /\ \A i, j \in Tokens : Live(i) /\ Live(j) /\ Session(i) = Session(j) =>
          i = j \/ ~Clean(Session(i))
    /\ \A i \in Tokens : Live(i) /\ Clean(Session(i)) => Session(i) \notin ended
    /\ \A f, g \in F : Rotating(f) /\ Rotating(g) /\ FlightSession(f) = FlightSession(g) =>
          f = g \/ ~Clean(FlightSession(f))
    /\ \A f \in F : Rotating(f) /\ Clean(FlightSession(f)) =>
          /\ FlightSession(f) \notin ended
          /\ \A i \in Tokens : Live(i) /\ Session(i) = FlightSession(f) =>
                i = flight[f].token /\ flight[f].stage # "spent"

\* An answer with a token nobody else has yet; and a cookie that was spent has
\* somebody on the way with its successor.
Fresh(f) ==
    flight[f].stage = "issued" =>
       /\ refreshTokens[flight[f].token].state \in {"live", "gone"}
       /\ cookie # flight[f].token
       /\ \A g \in F \ {f} : flight[g].token # flight[f].token

Bringing(f) == Renewing(f) /\ flight[f].stage \in {"spent", "issued"}

CookieFollows ==
    cookie # 0 /\ refreshTokens[cookie].state = "revoked" =>
       \/ Session(cookie) \in ended \cup stranded
       \/ \E f \in F : Bringing(f) /\ FlightSession(f) = Session(cookie)

CookieInv == (\A f \in F : Fresh(f)) /\ CookieFollows

-----------------------------------------------------------------------------
(* Types.                                                                   *)

FlightState == [kind : Kind, stage : Stage, token : 0 .. Len(refreshTokens),
                who : User \cup {None}, rights : Row, heard : BOOLEAN]

AccessState == [user : User \cup {None}, role : Role, isStaff : BOOLEAN, exp : Nat]

TabState == [page : {"closed", "loading", "login", "in"}, launch : {"web", "max"},
             user : User \cup {None}, by : User \cup {None},
             access : AccessState, wait : SUBSET Call, mixed : BOOLEAN]

\* What is true of the rows of a state that is typed.
LEMMA Rows ==
    ASSUME Typed
    PROVE  /\ flight \in [F -> FlightState] /\ tabs \in [Tab -> TabState]
           /\ Len(refreshTokens) \in Nat
           /\ DOMAIN refreshTokens = 1 .. Len(refreshTokens)
           /\ \A i \in 1 .. Len(refreshTokens) :
                 refreshTokens[i] \in TokenRow /\ refreshTokens[i].session \in 1 .. i
BY DEF Typed, TypeOK, F, FlightState, TabState, AccessState, TokenRow

LEMMA NewRows ==
    ASSUME Typed
    PROVE
    /\ Idle \in FlightState
    /\ NoRow \in Row /\ NoAccess \in AccessState /\ Closed \in TabState
    /\ \A t \in Tab, l \in {"web", "max"} : Relaunched(t, l) \in TabState
    /\ \A r \in Role : StaffRow(r) \in Row
<1>. USE DEF Row
<1>1. Len(refreshTokens) \in Nat
    BY Rows
<1>2. NoRow \in Row /\ \A r \in Role : StaffRow(r) \in Row
    BY SessionConstants DEF NoRow, StaffRow
<1>3. NoAccess \in AccessState
    BY SessionConstants DEF NoAccess, AccessState
<1>4. Idle \in FlightState
    BY <1>1, <1>2 DEF Idle, FlightState, Kind, Stage
<1>5. Closed \in TabState
    BY <1>3 DEF Closed, TabState
<1>6. \A t \in Tab, l \in {"web", "max"} : Relaunched(t, l) \in TabState
    BY <1>5 DEF Relaunched, TabState
<1>. QED
    BY <1>2, <1>3, <1>4, <1>5, <1>6

LEMMA InitTyped == Init => Typed
<1>. SUFFICES ASSUME Init PROVE Typed
    OBVIOUS
<1>1. refreshTokens = <<>> /\ Len(refreshTokens) = 0
    BY DEF Init
<1>2. \A f \in F : flight[f] = Idle
    BY DEF Init, F
<1>3. flight \in [F -> FlightState]
  <2>. Idle \in FlightState
    BY <1>1, SessionConstants DEF Idle, FlightState, Kind, Stage, NoRow, Row
  <2>. QED
    BY DEF Init, F
<1>4. users \in [User -> Row]
  <2>1. NoRow \in Row /\ \A u \in User : StaffRow(FirstRole[u]) \in Row
    BY SessionConstants DEF NoRow, StaffRow, Row
  <2>. QED
    BY <2>1 DEF Init
<1>5. tabs \in [Tab -> TabState]
  <2>. Closed \in TabState
    BY SessionConstants DEF Closed, NoAccess, TabState, AccessState
  <2>. QED
    BY DEF Init
<1>6. /\ now \in 0 .. MaxTime /\ events \in 0 .. MaxEvents
      /\ maintenance \in [on : BOOLEAN, since : 0 .. MaxTime]
      /\ changed \in [User -> 0 .. MaxTime]
      /\ directory \in [User \ Local -> Entry]
    BY SessionConstants DEF Init
<1>7. \A f \in F : Sound(f, flight[f])
  <2>1. \A f \in F : f[2] \in Slot
    BY DEF F
  <2>. QED
    BY <2>1, <1>2 DEF Sound, Idle, Renewing, Entering, Slot
<1>8. TypeOK
    BY <1>1, <1>3, <1>4, <1>5, <1>6
    DEF Init, TypeOK, F, FlightState, TabState, AccessState
<1>. QED
    BY <1>1, <1>7, <1>8 DEF Typed

\* What a client's step, a crash or a refusal leaves of a request in flight.
Quiet(g) ==
    \/ flight'[g].stage \in {"sent", "done", "refused"}
    \/ \E h \in BOOLEAN : flight'[g] = [flight[g] EXCEPT !.heard = h]

LEMMA Slots ==
    /\ \A f \in F : f[1] \in Tab /\ f[2] \in Slot /\ f = <<f[1], f[2]>>
    /\ \A t \in Tab, s \in Slot : <<t, s>> \in F /\ <<t, s>>[1] = t /\ <<t, s>>[2] = s
    /\ "session" \in Slot /\ "form" \in Slot
BY DEF F, Slot

LEMMA NewFlights ==
    ASSUME Typed, NEW t \in Tab
    PROVE  /\ \A f \in F : Sound(f, Idle)
           /\ \A k \in {"restore", "refresh"} :
                 /\ WithCookie(k) \in FlightState
                 /\ Sound(<<t, "session">>, WithCookie(k))
                 /\ WithCookie(k).stage = "sent"
           /\ Request("max") \in FlightState /\ Sound(<<t, "form">>, Request("max"))
           /\ Request("max").stage = "sent"
           /\ WithCookie("logout") \in FlightState
           /\ Sound(<<t, "form">>, WithCookie("logout"))
           /\ WithCookie("logout").stage = "sent"
           /\ \A k \in {"login", "link"}, u \in User :
                 LET q == [Request(k) EXCEPT !.who = u] IN
                 q \in FlightState /\ Sound(<<t, "form">>, q) /\ q.stage = "sent"
<1>1. Len(refreshTokens) \in Nat /\ cookie \in 0 .. Len(refreshTokens) /\ NoRow \in Row
    BY Rows, NewRows DEF Typed, TypeOK
<1>2. ASSUME NEW k \in Kind
      PROVE  /\ Request(k) \in FlightState /\ WithCookie(k) \in FlightState
             /\ Request(k).kind = k /\ Request(k).stage = "sent" /\ Request(k).token = 0
             /\ WithCookie(k).kind = k /\ WithCookie(k).stage = "sent"
             /\ Request(k).heard /\ WithCookie(k).heard
  <2>1. /\ Request(k) \in FlightState
        /\ Request(k).kind = k /\ Request(k).stage = "sent" /\ Request(k).token = 0
        /\ Request(k).heard
    BY <1>1 DEF Request, FlightState, Stage
  <2>. QED
    BY <1>1, <2>1 DEF WithCookie, FlightState
<1>. DEFINE Form(k, u) == [Request(k) EXCEPT !.who = u]
<1>8. \A k \in Kind, u \in User :
         /\ Form(k, u) \in FlightState /\ Form(k, u).kind = k
         /\ Form(k, u).stage = "sent" /\ Form(k, u).token = 0 /\ Form(k, u).who = u
    BY <1>2 DEF FlightState
<1>. HIDE DEF Form
<1>3. {"restore", "refresh", "max", "logout", "login", "link"} \subseteq Kind
    BY DEF Kind
<1>4. \A f \in F : Sound(f, Idle)
    BY Slots DEF Sound, Idle, Entering, Slot
<1>5. \A k \in {"restore", "refresh"} : Sound(<<t, "session">>, WithCookie(k))
    BY <1>2, <1>3, Slots DEF Sound, Entering
<1>6. Sound(<<t, "form">>, Request("max")) /\ Sound(<<t, "form">>, WithCookie("logout"))
    BY <1>2, <1>3, Slots DEF Sound, Entering
<1>7. \A k \in {"login", "link"}, u \in User :
         Sound(<<t, "form">>, Form(k, u))
    BY <1>8, <1>3, Slots DEF Sound, Entering
<1>. QED
    BY <1>2, <1>3, <1>4, <1>5, <1>6, <1>7, <1>8 DEF Form

RefusedOf(q) == [Idle EXCEPT !.kind = q.kind, !.heard = q.heard, !.stage = "refused"]

LEMMA RefusedFlight ==
    ASSUME Typed, NEW f \in F, flight[f].kind # "none"
    PROVE  /\ RefusedOf(flight[f]) \in FlightState /\ Sound(f, RefusedOf(flight[f]))
           /\ RefusedOf(flight[f]).stage = "refused"
<1>1. flight[f] \in FlightState /\ Idle \in FlightState
    BY Rows, NewRows
<1>2. RefusedOf(flight[f]) \in FlightState /\ RefusedOf(flight[f]).stage = "refused"
      /\ RefusedOf(flight[f]).kind = flight[f].kind /\ RefusedOf(flight[f]).token = 0
      /\ RefusedOf(flight[f]).heard = flight[f].heard
    BY <1>1 DEF RefusedOf, FlightState, Stage, Idle
<1>. QED
    BY <1>2, Slots DEF Sound, Entering, Slot, Typed

\* A step of the client, or one of the service that only moves a request on.
LEMMA ClientTyped ==
    ASSUME Typed, UNCHANGED <<now, store, outside, changed, ended>>,
           events' \in 0 .. MaxEvents,
           raced' \subseteq DOMAIN refreshTokens, stranded' \subseteq DOMAIN refreshTokens,
           cookie' \in 0 .. Len(refreshTokens), tabs' \in [Tab -> TabState],
           flight' \in [F -> FlightState], \A f \in F : Sound(f, flight'[f])
    PROVE  Typed'
<1>1. TypeOK'
    BY DEF Typed, TypeOK, F, FlightState, TabState, AccessState, store, outside
<1>2. \A f \in F : Sound(f, flight[f])'
    BY DEF Sound, store
<1>. QED
    BY <1>1, <1>2 DEF Typed, store

\* One request replaced by another that is not under way in the service.
Still == {"sent", "done", "refused"}

LEMMA QuietSame == ASSUME Typed, NEW g \in F, flight'[g] = flight[g] PROVE Quiet(g)
<1>1. flight[g] \in FlightState
    BY Rows
<1>2. flight[g] = [flight[g] EXCEPT !.heard = flight[g].heard] /\ flight[g].heard \in BOOLEAN
    BY <1>1 DEF FlightState
<1>. QED
    BY <1>2 DEF Quiet

LEMMA OneFlight ==
    ASSUME Typed, NEW f \in F, NEW x \in FlightState, Sound(f, x),
           flight' = [flight EXCEPT ![f] = x]
    PROVE  /\ flight' \in [F -> FlightState] /\ \A g \in F : Sound(g, flight'[g])
           /\ flight'[f] = x /\ \A g \in F \ {f} : flight'[g] = flight[g]
           /\ x.stage \in Still => \A g \in F : Quiet(g)
<1>1. /\ flight' \in [F -> FlightState]
      /\ flight'[f] = x /\ \A g \in F \ {f} : flight'[g] = flight[g]
    BY Rows
<1>2. \A g \in F : Sound(g, flight'[g])
    BY <1>1 DEF Typed
<1>3. x.stage \in Still => \A g \in F : Quiet(g)
  <2>1. \A g \in F \ {f} : Quiet(g)
    BY <1>1, QuietSame
  <2>. QED
    BY <1>1, <2>1 DEF Quiet, Still
<1>. QED
    BY <1>1, <1>2, <1>3

LEMMA LoadStep ==
    ASSUME Typed, NEW t \in Tab, NEW l \in {"web", "max"}, Load(t, l)
    PROVE  Typed' /\ \A g \in F : Quiet(g)
<1>1. tabs' \in [Tab -> TabState]
    BY NewRows, Rows DEF Load
<1>2. PICK f \in F, x \in FlightState : /\ flight' = [flight EXCEPT ![f] = x]
                                       /\ Sound(f, x) /\ x.stage = "sent"
  <2>1. CASE l = "max"
    BY ZenonT(40), <2>1, NewFlights, Slots DEF Load, FirstRequest
  <2>2. CASE l # "max"
    BY <2>2, NewFlights, Slots DEF Load, FirstRequest
  <2>. QED
    BY <2>1, <2>2
<1>3. /\ flight' \in [F -> FlightState] /\ \A g \in F : Sound(g, flight'[g])
      /\ \A g \in F : Quiet(g)
    BY <1>2, OneFlight DEF Still
<1>. QED
    BY <1>1, <1>3, ClientTyped DEF Load, history, Typed, TypeOK

LEMMA SubmitStep ==
    ASSUME Typed, NEW t \in Tab, NEW u \in User, Submit(t, u)
    PROVE  Typed' /\ \A g \in F : Quiet(g)
<1>2. PICK f \in F, x \in FlightState : /\ flight' = [flight EXCEPT ![f] = x]
                                       /\ Sound(f, x) /\ x.stage = "sent"
  <2>1. PICK k \in {"login", "link"} :
            flight' = [flight EXCEPT ![<<t, "form">>] = [Request(k) EXCEPT !.who = u]]
    BY DEF Submit
  <2>2. <<t, "form">> \in F
    BY Slots
  <2>. QED
    BY <2>1, <2>2, NewFlights
<1>3. /\ flight' \in [F -> FlightState] /\ \A g \in F : Sound(g, flight'[g])
      /\ \A g \in F : Quiet(g)
    BY <1>2, OneFlight DEF Still
<1>. QED
    BY <1>3, ClientTyped, Rows DEF Submit, client, history, Typed, TypeOK

LEMMA LogoutStep ==
    ASSUME Typed, NEW t \in Tab, Logout(t)
    PROVE  Typed' /\ \A g \in F : Quiet(g)
<1>. DEFINE x == WithCookie("logout")
<1>2. x \in FlightState /\ Sound(<<t, "form">>, x) /\ x.stage = "sent"
    BY NewFlights
<1>3. <<t, "form">> \in F /\ flight' = [flight EXCEPT ![<<t, "form">>] = x]
    BY Slots DEF Logout
<1>. HIDE DEF x
<1>1. /\ flight' \in [F -> FlightState] /\ \A g \in F : Sound(g, flight'[g])
      /\ \A g \in F : Quiet(g)
    BY <1>2, <1>3, OneFlight DEF Still
<1>. QED
    BY <1>1, ClientTyped, Rows DEF Logout, client, history, Typed, TypeOK

LEMMA CallRefusedStep ==
    ASSUME Typed, NEW t \in Tab, NEW c \in Call, CallRefused(t, c)
    PROVE  Typed' /\ \A g \in F : Quiet(g)
<1>1. tabs' \in [Tab -> TabState]
  <2>1. tabs[t] \in TabState
    BY Rows
  <2>2. [tabs[t] EXCEPT !.wait = @ \cup {c}] \in TabState
    BY <2>1 DEF TabState
  <2>3. tabs' = [tabs EXCEPT ![t] = [tabs[t] EXCEPT !.wait = @ \cup {c}]]
    BY DEF CallRefused
  <2>. QED
    BY <2>2, <2>3, Rows
<1>2. CASE UNCHANGED flight
  <2>1. /\ flight' \in [F -> FlightState] /\ \A g \in F : Sound(g, flight'[g])
        /\ \A g \in F : Quiet(g)
    BY <1>2, QuietSame, Rows DEF Typed
  <2>. QED
    BY <1>1, <2>1, ClientTyped DEF CallRefused, history, Typed, TypeOK
<1>3. CASE flight' = [flight EXCEPT ![<<t, "session">>] = WithCookie("refresh")]
  <2>. DEFINE x == WithCookie("refresh")
  <2>2. x \in FlightState /\ Sound(<<t, "session">>, x) /\ x.stage = "sent"
    BY NewFlights
  <2>3. <<t, "session">> \in F /\ flight' = [flight EXCEPT ![<<t, "session">>] = x]
    BY <1>3, Slots
  <2>. HIDE DEF x
  <2>1. /\ flight' \in [F -> FlightState] /\ \A g \in F : Sound(g, flight'[g])
        /\ \A g \in F : Quiet(g)
    BY <2>2, <2>3, OneFlight DEF Still
  <2>. QED
    BY <1>1, <2>1, ClientTyped DEF CallRefused, history, Typed, TypeOK
<1>. QED
    BY <1>2, <1>3 DEF CallRefused

LEMMA MixedTyped ==
    ASSUME Typed, NEW u
    PROVE  Mixed(u) \in [Tab -> TabState]
BY Rows DEF Mixed, TabState

LEMMA SignsTyped ==
    ASSUME Typed, NEW t, NEW f \in F
    PROVE  Signs(t, f) \in AccessState
<1>1. flight[f].who \in User \cup {None} /\ flight[f].rights \in Row
    BY Rows DEF FlightState
<1>2. now \in Nat /\ AccessTTL \in Nat
    BY SessionConstants DEF Typed, TypeOK
<1>. QED
    BY <1>1, <1>2 DEF Signs, Access, AccessState, Row

\* An answered request leaves its slot.
LEMMA Leaves ==
    ASSUME Typed, NEW f \in F, flight' = [flight EXCEPT ![f] = Idle]
    PROVE  /\ flight' \in [F -> FlightState] /\ \A g \in F : Sound(g, flight'[g])
           /\ flight'[f] = Idle /\ \A g \in F \ {f} : flight'[g] = flight[g]
           /\ \A g \in F : Quiet(g)
<1>1. Idle \in FlightState /\ Sound(f, Idle)
    BY NewRows, Slots DEF Sound, Idle, Entering, Slot
<1>2. Idle.stage = "done"
    BY DEF Idle
<1>. QED
    BY <1>1, <1>2, OneFlight DEF Still

LEMMA LetInStep ==
    ASSUME Typed, NEW t \in Tab, LetIn(t)
    PROVE  Typed' /\ \A g \in F : Quiet(g)
<1>. DEFINE f == <<t, "form">>
            u == flight[f].who
            let == [tabs[t] EXCEPT !.page = "in", !.user = u, !.by = u,
                                   !.access = Signs(t, f), !.mixed = @ \/ Overtaken(t)]
<1>1. f \in F /\ flight[f] \in FlightState /\ tabs[t] \in TabState
    BY Slots, Rows
<1>2. cookie' \in 0 .. Len(refreshTokens)
    BY <1>1 DEF LetIn, FlightState
<1>3. tabs' \in [Tab -> TabState]
  <2>1. let \in TabState
    BY <1>1, SignsTyped DEF TabState, FlightState
  <2>2. tabs' = Mixed(u) \/ tabs' = [Mixed(u) EXCEPT ![t] = let]
    BY DEF LetIn
  <2>. HIDE DEF let
  <2>. QED
    BY <2>1, <2>2, MixedTyped
<1>4. /\ flight' \in [F -> FlightState] /\ \A g \in F : Sound(g, flight'[g])
      /\ \A g \in F : Quiet(g)
  <2>1. flight' = [flight EXCEPT ![f] = Idle]
    BY DEF LetIn
  <2>. QED
    BY <1>1, <2>1, Leaves
<1>. QED
    BY <1>2, <1>3, <1>4, ClientTyped DEF LetIn, history, Typed, TypeOK

LEMMA RestoredStep ==
    ASSUME Typed, NEW t \in Tab, Restored(t)
    PROVE  Typed' /\ \A g \in F : Quiet(g)
<1>. DEFINE f == <<t, "session">>
            let == [tabs[t] EXCEPT !.page = "in", !.user = flight[f].who,
                                   !.access = Signs(t, f)]
<1>1. f \in F /\ flight[f] \in FlightState /\ tabs[t] \in TabState
    BY Slots, Rows
<1>2. cookie' \in 0 .. Len(refreshTokens)
    BY <1>1 DEF Restored, FlightState
<1>3. tabs' \in [Tab -> TabState]
  <2>1. let \in TabState
    BY <1>1, SignsTyped DEF TabState, FlightState
  <2>2. tabs' = [Mixed(flight[f].who) EXCEPT ![t] = let]
    BY DEF Restored
  <2>. HIDE DEF let
  <2>. QED
    BY <2>1, <2>2, MixedTyped
<1>4. /\ flight' \in [F -> FlightState] /\ \A g \in F : Sound(g, flight'[g])
      /\ \A g \in F : Quiet(g)
  <2>1. flight' = [flight EXCEPT ![f] = Idle]
    BY DEF Restored
  <2>. QED
    BY <1>1, <2>1, Leaves
<1>. QED
    BY <1>2, <1>3, <1>4, ClientTyped DEF Restored, history, Typed, TypeOK

LEMMA RefreshedStep ==
    ASSUME Typed, NEW t \in Tab, Refreshed(t)
    PROVE  Typed' /\ \A g \in F : Quiet(g)
<1>. DEFINE f == <<t, "session">>
            let == [tabs[t] EXCEPT !.access = Signs(t, f), !.wait = {}]
<1>1. f \in F /\ flight[f] \in FlightState /\ tabs[t] \in TabState
    BY Slots, Rows
<1>2. cookie' \in 0 .. Len(refreshTokens)
    BY <1>1 DEF Refreshed, FlightState
<1>3. tabs' \in [Tab -> TabState]
  <2>1. let \in TabState
    BY <1>1, SignsTyped DEF TabState, FlightState
  <2>2. tabs' = [Mixed(flight[f].who) EXCEPT ![t] = let]
    BY DEF Refreshed
  <2>. HIDE DEF let
  <2>. QED
    BY <2>1, <2>2, MixedTyped
<1>4. /\ flight' \in [F -> FlightState] /\ \A g \in F : Sound(g, flight'[g])
      /\ \A g \in F : Quiet(g)
  <2>1. flight' = [flight EXCEPT ![f] = Idle]
    BY DEF Refreshed
  <2>. QED
    BY <1>1, <2>1, Leaves
<1>. QED
    BY <1>2, <1>3, <1>4, ClientTyped DEF Refreshed, history, Typed, TypeOK

\* The tab thrown out to the login page.
Out(t) == [tabs[t] EXCEPT !.page = "login", !.user = None, !.by = None,
                          !.access = NoAccess]

LEMMA OutTyped == ASSUME Typed, NEW t \in Tab PROVE Out(t) \in TabState
BY ZenonT(40), NewRows, Rows DEF Out, TabState

LEMMA LoggedOutStep ==
    ASSUME Typed, NEW t \in Tab, LoggedOut(t)
    PROVE  Typed' /\ \A g \in F : Quiet(g)
<1>. DEFINE f == <<t, "form">>
<1>1. f \in F
    BY Slots
<1>2. tabs' = tabs \/ tabs' = [tabs EXCEPT ![t] = Out(t)]
    BY Rows DEF LoggedOut, Out
<1>3. tabs' \in [Tab -> TabState] /\ cookie' \in 0 .. Len(refreshTokens)
    BY <1>2, OutTyped, Rows DEF LoggedOut
<1>4. /\ flight' \in [F -> FlightState] /\ \A g \in F : Sound(g, flight'[g])
      /\ \A g \in F : Quiet(g)
  <2>1. flight' = [flight EXCEPT ![f] = Idle]
    BY DEF LoggedOut
  <2>. QED
    BY <1>1, <2>1, Leaves
<1>. QED
    BY <1>3, <1>4, ClientTyped DEF LoggedOut, history, Typed, TypeOK

LEMMA EventTyped == ASSUME Typed, Event PROVE events' \in 0 .. MaxEvents
BY SessionConstants DEF Event, Typed, TypeOK

LEMMA CrashStep ==
    ASSUME Typed, NEW f \in F, Crash(f)
    PROVE  Typed' /\ \A g \in F : Quiet(g)
<1>. DEFINE x == RefusedOf(flight[f])
<1>1. x \in FlightState /\ Sound(f, x) /\ x.stage = "refused"
    BY RefusedFlight DEF Crash, Pending
<1>2. flight' = [flight EXCEPT ![f] = x]
    BY DEF Crash, Refuse, RefusedOf
<1>. HIDE DEF x
<1>3. /\ flight' \in [F -> FlightState] /\ \A g \in F : Sound(g, flight'[g])
      /\ \A g \in F : Quiet(g)
    BY <1>1, <1>2, OneFlight DEF Still
<1>4. stranded' \subseteq DOMAIN refreshTokens
  <2>1. flight[f].token # 0 =>
            Session(flight[f].token) \in DOMAIN refreshTokens
    BY Rows DEF Session, FlightState
  <2>. QED
    BY <2>1 DEF Crash, Typed, TypeOK
<1>. QED
    BY <1>3, <1>4, EventTyped, ClientTyped, Rows DEF Crash, client, Typed, TypeOK

Unheard(q) == [q EXCEPT !.heard = FALSE]

\* What a failed request leaves behind, case by case.
LEMMA FailedDoes ==
    ASSUME Typed, NEW t \in Tab, NEW s \in Slot, Failed(t, s),
           flight[<<t, s>>].kind # "none"
    PROVE  \/ /\ tabs' = [tabs EXCEPT ![t] = Out(t)]
              /\ flight' = [flight EXCEPT ![<<t, s>>] = Idle]
              /\ flight[<<t, s>>].kind # "refresh"
           \/ /\ tabs' = [tabs EXCEPT ![t] = [tabs[t] EXCEPT !.page = "login"]]
              /\ flight' = [flight EXCEPT ![<<t, s>>] = Idle]
              /\ s = "form"
           \/ /\ tabs' = tabs
              /\ flight' = [flight EXCEPT ![<<t, s>>] = Idle]
              /\ flight[<<t, s>>].kind # "refresh"
           \/ /\ s = "session" /\ flight[<<t, "form">>].kind = "none"
              /\ tabs' = [tabs EXCEPT ![t] = Relaunched(t, "max")]
              /\ flight' = [flight EXCEPT ![<<t, "session">>] = Idle,
                                         ![<<t, "form">>] = Request("max")]
           \/ /\ s = "session"
              /\ tabs' = [tabs EXCEPT ![t] = Relaunched(t, "web")]
              /\ \E form \in {Idle, Unheard(flight[<<t, "form">>])} :
                    flight' = [flight EXCEPT ![<<t, "session">>] = WithCookie("restore"),
                                             ![<<t, "form">>] = form]
<1>. DEFINE f == <<t, s>>
<1>1. f \in F /\ Sound(f, flight[f])
    BY Slots DEF Typed
<1>2. CASE flight[f].kind \in {"restore", "logout"} /\ flight[f].heard
    BY <1>2, Rows DEF Failed, Out
<1>3. CASE flight[f].kind = "max" /\ flight[f].heard
  <2>1. s = "form"
    BY <1>1, <1>3, Slots DEF Sound, Slot
  <2>. QED
    BY <1>3, <2>1, Rows DEF Failed
<1>4. CASE flight[f].kind = "refresh"
  <2>1. s = "session"
    BY <1>1, <1>4, Slots DEF Sound, Slot
  <2>2. tabs[t].launch \in {"web", "max"}
    BY Rows DEF TabState
  <2>. DEFINE form == IF flight[<<t, "form">>].kind = "none" THEN Idle
                      ELSE [flight[<<t, "form">>] EXCEPT !.heard = FALSE]
  <2>3. form \in {Idle, Unheard(flight[<<t, "form">>])}
    BY DEF Unheard
  <2>4. PICK l \in {"web", tabs[t].launch} :
              /\ l = "max" => Free(t, "form")
              /\ tabs' = [tabs EXCEPT ![t] = Relaunched(t, l)]
              /\ flight' = IF l = "max"
                     THEN [flight EXCEPT ![f] = Idle, ![<<t, "form">>] = Request("max")]
                     ELSE [flight EXCEPT ![f] = WithCookie("restore"),
                                         ![<<t, "form">>] = form]
    BY <1>1, <1>4, <2>1, Slots DEF Failed, Sound
  <2>. HIDE DEF form
  <2>. QED
    BY <2>1, <2>2, <2>3, <2>4 DEF Free
<1>5. CASE /\ tabs' = tabs /\ flight' = [flight EXCEPT ![f] = Idle]
           /\ flight[f].kind # "refresh"
    BY <1>5
<1>. QED
    BY <1>2, <1>3, <1>4, <1>5 DEF Failed

LEMMA FailedTyped ==
    ASSUME Typed, NEW t \in Tab, NEW s \in Slot, Failed(t, s),
           flight[<<t, s>>].kind # "none"
    PROVE  /\ cookie' = cookie /\ tabs' \in [Tab -> TabState]
           /\ flight' \in [F -> FlightState] /\ \A g \in F : Sound(g, flight'[g])
           /\ \A g \in F : Quiet(g)
<1>. DEFINE f == <<t, s>>
            a == <<t, "session">>
            b == <<t, "form">>
            max == Request("max")
            again == WithCookie("restore")
<1>1. f \in F /\ a \in F /\ b \in F /\ a # b /\ b[2] = "form"
    BY Slots
<1>2. cookie' = cookie
    BY DEF Failed
<1>3. tabs' \in [Tab -> TabState]
  <2>1. [tabs[t] EXCEPT !.page = "login"] \in TabState
    BY Rows DEF TabState
  <2>. QED
    BY <2>1, FailedDoes, OutTyped, NewRows, Rows
<1>4. CASE flight' = [flight EXCEPT ![f] = Idle]
    BY <1>1, <1>2, <1>3, <1>4, Leaves
<1>5. CASE s = "session" /\ flight' = [flight EXCEPT ![a] = Idle, ![b] = max]
  <2>1. /\ max \in FlightState /\ Sound(b, max) /\ max.stage = "sent"
        /\ Idle \in FlightState /\ Sound(a, Idle) /\ Idle.stage = "done"
    BY <1>1, NewFlights, NewRows DEF Idle
  <2>. HIDE DEF max
  <2>2. /\ flight' \in [F -> FlightState] /\ flight'[a] = Idle /\ flight'[b] = max
        /\ \A g \in F \ {a, b} : flight'[g] = flight[g]
    BY <1>1, <1>5, <2>1, Rows
  <2>. QED
    BY <1>1, <1>2, <1>3, <2>1, <2>2, QuietSame DEF Quiet, Typed
<1>6. CASE /\ s = "session"
           /\ \E form \in {Idle, Unheard(flight[b])} :
                 flight' = [flight EXCEPT ![a] = again, ![b] = form]
  <2>1. PICK form \in {Idle, Unheard(flight[b])} :
            flight' = [flight EXCEPT ![a] = again, ![b] = form]
    BY <1>6
  <2>2. /\ again \in FlightState /\ Sound(a, again) /\ again.stage = "sent"
        /\ Idle \in FlightState /\ Sound(b, Idle) /\ Idle.stage = "done"
    BY <1>1, NewFlights, NewRows DEF Idle
  <2>3. Unheard(flight[b]) \in FlightState /\ Sound(b, Unheard(flight[b]))
    <3>1. flight[b] \in FlightState /\ Sound(b, flight[b])
      BY <1>1, Rows DEF Typed
    <3>2. LET q == Unheard(flight[b]) IN
          /\ q \in FlightState /\ q.kind = flight[b].kind /\ q.stage = flight[b].stage
          /\ q.token = flight[b].token /\ q.who = flight[b].who
      BY <3>1 DEF Unheard, FlightState
    <3>. QED
      BY <1>1, <3>1, <3>2 DEF Sound
  <2>. HIDE DEF again
  <2>4. /\ flight' \in [F -> FlightState] /\ flight'[a] = again /\ flight'[b] = form
        /\ \A g \in F \ {a, b} : flight'[g] = flight[g]
    BY <1>1, <2>1, <2>2, <2>3, Rows
  <2>5. Quiet(b)
    BY <2>2, <2>4 DEF Quiet, Unheard
  <2>. QED
    BY <1>1, <1>2, <1>3, <2>2, <2>3, <2>4, <2>5, QuietSame DEF Quiet, Typed
<1>. QED
    BY <1>4, <1>5, <1>6, FailedDoes

LEMMA RefusedStep ==
    ASSUME Typed, NEW t \in Tab, NEW s \in Slot, Refused(t, s)
    PROVE  Typed' /\ \A g \in F : Quiet(g)
BY FailedTyped, ClientTyped, Rows DEF Refused, history, Typed, TypeOK

LEMMA LostStep ==
    ASSUME Typed, NEW t \in Tab, NEW s \in Slot, Lost(t, s)
    PROVE  Typed' /\ \A g \in F : Quiet(g)
<1>1. flight[<<t, s>>].token # 0 =>
            Session(flight[<<t, s>>].token) \in DOMAIN refreshTokens
    BY Rows, Slots DEF Session, FlightState
<1>2. stranded' \subseteq DOMAIN refreshTokens
    BY <1>1 DEF Lost, Typed, TypeOK
<1>3. /\ tabs' \in [Tab -> TabState] /\ cookie' = cookie
      /\ flight' \in [F -> FlightState] /\ \A g \in F : Sound(g, flight'[g])
      /\ \A g \in F : Quiet(g)
    BY FailedTyped DEF Lost
<1>. QED
    BY <1>2, <1>3, EventTyped, ClientTyped DEF Lost, Typed, TypeOK

-----------------------------------------------------------------------------
(* The service's steps: how each moves its request on.                      *)

Refuses(f) == flight' = [flight EXCEPT ![f] = RefusedOf(flight[f])]

LEMMA RefusesTyped ==
    ASSUME Typed, NEW f \in F, flight[f].kind # "none", Refuses(f)
    PROVE  /\ flight' \in [F -> FlightState] /\ \A g \in F : Sound(g, flight'[g])
           /\ \A g \in F \ {f} : flight'[g] = flight[g]
           /\ flight'[f].stage = "refused"
           /\ \A g \in F : Quiet(g)
<1>. DEFINE x == RefusedOf(flight[f])
<1>1. x \in FlightState /\ Sound(f, x) /\ x.stage = "refused"
    BY RefusedFlight
<1>2. flight' = [flight EXCEPT ![f] = x]
    BY DEF Refuses
<1>. HIDE DEF x
<1>. QED
    BY <1>1, <1>2, OneFlight DEF Still

\* The request goes on to another stage, with the same kind and token.
MovesOn(f, stage, u, rights) ==
    /\ flight' \in [F -> FlightState]
    /\ \A g \in F \ {f} : flight'[g] = flight[g]
    /\ flight'[f].kind = flight[f].kind /\ flight'[f].token = flight[f].token
    /\ flight'[f].stage = stage /\ flight'[f].who = u /\ flight'[f].rights = rights

LEMMA MovesSound ==
    ASSUME Typed, NEW f \in F, NEW stage \in {"checked", "known", "granted", "linkable", "spent"},
           NEW u \in User, NEW rights, MovesOn(f, stage, u, rights),
           flight'[f].heard = flight[f].heard,
           \/ /\ flight[f].kind \in {"restore", "refresh"} /\ stage \in {"checked", "spent"}
              /\ flight[f].token # 0 /\ refreshTokens[flight[f].token].user = u
           \/ flight[f].kind \in {"login", "link", "max"} /\ stage # "checked"
              /\ flight[f].stage # "issued"
    PROVE  \A g \in F : Sound(g, flight'[g])
<1>1. \A g \in F \ {f} : Sound(g, flight'[g])
    BY DEF MovesOn, Typed
<1>2. Sound(f, flight[f]) /\ f[2] \in Slot
    BY Slots DEF Typed
<1>3. Sound(f, flight'[f])
    BY <1>2 DEF Sound, MovesOn, Entering
<1>. QED
    BY <1>1, <1>3

LEMMA RefreshCheckStep ==
    ASSUME Typed, NEW f \in F, RefreshCheck(f)
    PROVE  /\ Typed'
           /\ \/ Refuses(f) /\ raced' = raced
              \/ LET i == flight[f].token
                     u == refreshTokens[i].user IN
                 /\ flight[f].stage = "sent" /\ flight[f].kind \in {"restore", "refresh"}
                 /\ Usable(i) /\ CanEnter(u, users[u]) /\ i \in Tokens
                 /\ MovesOn(f, "checked", u, users[u])
                 /\ raced' = IF Overlapping(f) THEN raced \cup {Session(i)} ELSE raced
<1>. DEFINE i == flight[f].token
            u == refreshTokens[i].user
            x == [flight[f] EXCEPT !.stage = "checked", !.who = u, !.rights = users[u]]
<1>1. flight[f] \in FlightState /\ flight[f].kind # "none"
    BY Rows DEF RefreshCheck, At
<1>2. CASE Refuses(f) /\ raced' = raced
  <2>. QED
    BY <1>1, <1>2, RefusesTyped, ClientTyped, Rows
    DEF RefreshCheck, client, Typed, TypeOK
<1>3. CASE /\ Usable(i) /\ CanEnter(u, users[u])
           /\ flight' = [flight EXCEPT ![f] = x]
           /\ raced' = IF Overlapping(f) THEN raced \cup {Session(i)} ELSE raced
  <2>1. i \in Tokens /\ i # 0
    BY <1>1, <1>3, Rows DEF Usable, Live, FlightState, Tokens
  <2>2. u \in User /\ Session(i) \in Tokens
    BY <2>1, Rows DEF Tokens, TokenRow, Session
  <2>3. users[u] \in Row
    BY <2>2 DEF Typed, TypeOK
  <2>4. /\ x \in FlightState /\ x.kind = flight[f].kind /\ x.token = flight[f].token
        /\ x.stage = "checked" /\ x.who = u /\ x.rights = users[u]
        /\ x.heard = flight[f].heard
    BY <1>1, <2>2, <2>3 DEF FlightState, Stage
  <2>. HIDE DEF x
  <2>5. MovesOn(f, "checked", u, users[u]) /\ flight'[f] = x
    BY <1>3, <2>4, Rows DEF MovesOn
  <2>6. flight[f].kind \in {"restore", "refresh"} /\ flight[f].stage = "sent"
    BY DEF RefreshCheck, At
  <2>7. flight' \in [F -> FlightState] /\ \A g \in F : Sound(g, flight'[g])
    BY <2>1, <2>2, <2>4, <2>5, <2>6, MovesSound DEF MovesOn
  <2>8. raced' \subseteq DOMAIN refreshTokens
    BY <1>3, <2>2 DEF Tokens, Typed, TypeOK
  <2>9. Typed'
    BY <2>7, <2>8, ClientTyped, Rows DEF RefreshCheck, client, Typed, TypeOK
  <2>. QED
    BY <1>3, <2>1, <2>5, <2>6, <2>9
<1>4. \/ Refuses(f) /\ raced' = raced
      \/ /\ Usable(i) /\ CanEnter(u, users[u])
         /\ flight' = [flight EXCEPT ![f] = x]
         /\ raced' = IF Overlapping(f) THEN raced \cup {Session(i)} ELSE raced
    BY <1>1, Rows DEF RefreshCheck, Refuse, Refuses, RefusedOf
<1>. QED
    BY <1>2, <1>3, <1>4

LEMMA VerifyCredentialsStep ==
    ASSUME Typed, NEW f \in F, VerifyCredentials(f)
    PROVE  /\ Typed'
           /\ LET u == flight[f].who IN
              /\ u \in User
              /\ \/ Refuses(f)
                 \/ /\ CanEnter(u, users[u])
                    /\ MovesOn(f, "granted", u, users[u])
                 \/ /\ u \notin Local
                    /\ \E r \in Row : /\ r.isStaff = IsStaffMember(u)
                                      /\ MovesOn(f, "known", u, r)
           /\ flight[f].kind \in {"login", "link"}
<1>. DEFINE q == flight[f]
            u == q.who
            grant == [q EXCEPT !.stage = "granted", !.rights = users[u]]
            know == [q EXCEPT !.stage = "known", !.rights.isStaff = IsStaffMember(u)]
<1>1. /\ q \in FlightState /\ q.kind \in {"login", "link"} /\ q.stage = "sent"
      /\ u \in User /\ users[u] \in Row
    BY Rows DEF VerifyCredentials, At, Sound, Typed, TypeOK
<1>2. CASE Refuses(f)
    BY <1>1, <1>2, RefusesTyped, ClientTyped, Rows
    DEF VerifyCredentials, client, history, Typed, TypeOK
<1>3. CASE CanEnter(u, users[u]) /\ flight' = [flight EXCEPT ![f] = grant]
  <2>1. /\ grant \in FlightState /\ grant.kind = q.kind /\ grant.token = q.token
        /\ grant.stage = "granted" /\ grant.who = u /\ grant.rights = users[u]
        /\ grant.heard = q.heard
    BY <1>1 DEF FlightState, Stage
  <2>. HIDE DEF grant
  <2>2. MovesOn(f, "granted", u, users[u]) /\ flight'[f] = grant
    BY <1>3, <2>1, Rows DEF MovesOn
  <2>3. flight' \in [F -> FlightState] /\ \A g \in F : Sound(g, flight'[g])
    BY <1>1, <2>1, <2>2, MovesSound DEF MovesOn
  <2>4. Typed'
    BY <2>3, ClientTyped, Rows DEF VerifyCredentials, client, history, Typed, TypeOK
  <2>. QED
    BY <1>1, <1>3, <2>2, <2>4
<1>4. CASE u \notin Local /\ flight' = [flight EXCEPT ![f] = know]
  <2>. DEFINE r == [q.rights EXCEPT !.isStaff = IsStaffMember(u)]
  <2>1. r \in Row /\ r.isStaff = IsStaffMember(u)
    BY <1>1 DEF FlightState, Row, IsStaffMember
  <2>2. /\ know \in FlightState /\ know.kind = q.kind /\ know.token = q.token
        /\ know.stage = "known" /\ know.who = u /\ know.rights = r
        /\ know.heard = q.heard
    BY <1>1, <2>1 DEF FlightState, Stage
  <2>. HIDE DEF know, r
  <2>3. MovesOn(f, "known", u, r) /\ flight'[f] = know
    BY <1>4, <2>2, Rows DEF MovesOn
  <2>4. flight' \in [F -> FlightState] /\ \A g \in F : Sound(g, flight'[g])
    BY <1>1, <2>2, <2>3, MovesSound DEF MovesOn
  <2>5. Typed'
    BY <2>4, ClientTyped, Rows DEF VerifyCredentials, client, history, Typed, TypeOK
  <2>. QED
    BY <1>1, <1>4, <2>1, <2>3, <2>5
<1>5. \/ Refuses(f)
      \/ CanEnter(u, users[u]) /\ flight' = [flight EXCEPT ![f] = grant]
      \/ u \notin Local /\ flight' = [flight EXCEPT ![f] = know]
    BY Rows DEF VerifyCredentials, Refuse, Refuses, RefusedOf
<1>. QED
    BY <1>2, <1>3, <1>4, <1>5

LEMMA LoginViaMaxStep ==
    ASSUME Typed, NEW f \in F, LoginViaMax(f)
    PROVE  /\ Typed'
           /\ \/ Refuses(f)
              \/ /\ maxOwner \in User /\ CanEnter(maxOwner, users[maxOwner])
                 /\ MovesOn(f, "granted", maxOwner, users[maxOwner])
           /\ flight[f].kind = "max"
<1>. DEFINE q == flight[f]
            grant == [q EXCEPT !.stage = "granted", !.who = maxOwner,
                               !.rights = users[maxOwner]]
<1>1. q \in FlightState /\ q.kind = "max" /\ q.stage = "sent"
    BY Rows DEF LoginViaMax, At
<1>2. CASE Refuses(f)
    BY <1>1, <1>2, RefusesTyped, ClientTyped, Rows
    DEF LoginViaMax, client, history, Typed, TypeOK
<1>3. CASE /\ maxOwner # None /\ CanEnter(maxOwner, users[maxOwner])
           /\ flight' = [flight EXCEPT ![f] = grant]
  <2>1. maxOwner \in User /\ users[maxOwner] \in Row
    BY <1>3 DEF Typed, TypeOK
  <2>2. /\ grant \in FlightState /\ grant.kind = q.kind /\ grant.token = q.token
        /\ grant.stage = "granted" /\ grant.who = maxOwner
        /\ grant.rights = users[maxOwner] /\ grant.heard = q.heard
    BY <1>1, <2>1 DEF FlightState, Stage
  <2>. HIDE DEF grant
  <2>3. MovesOn(f, "granted", maxOwner, users[maxOwner]) /\ flight'[f] = grant
    BY <1>3, <2>2, Rows DEF MovesOn
  <2>4. flight' \in [F -> FlightState] /\ \A g \in F : Sound(g, flight'[g])
    BY <1>1, <2>1, <2>2, <2>3, MovesSound DEF MovesOn
  <2>5. Typed'
    BY <2>4, ClientTyped, Rows DEF LoginViaMax, client, history, Typed, TypeOK
  <2>. QED
    BY <1>1, <1>3, <2>1, <2>3, <2>5
<1>4. \/ Refuses(f)
      \/ /\ maxOwner # None /\ CanEnter(maxOwner, users[maxOwner])
         /\ flight' = [flight EXCEPT ![f] = grant]
    BY Rows DEF LoginViaMax, Refuse, Refuses, RefusedOf
<1>. QED
    BY <1>2, <1>3, <1>4

\* The steps that only change the stage.
LEMMA ToStage ==
    ASSUME Typed, NEW f \in F, NEW stage \in {"linkable", "spent"}, To(f, stage),
           flight[f].who \in User,
           \/ /\ flight[f].kind \in {"restore", "refresh"} /\ flight[f].stage = "checked"
              /\ stage = "spent"
           \/ flight[f].kind = "link" /\ flight[f].stage \in {"granted", "linkable"}
    PROVE  /\ MovesOn(f, stage, flight[f].who, flight[f].rights)
           /\ \A g \in F : Sound(g, flight'[g])
<1>. DEFINE q == flight[f]
            x == [q EXCEPT !.stage = stage]
<1>1. q \in FlightState /\ Sound(f, q)
    BY Rows DEF Typed
<1>2. /\ x \in FlightState /\ x.kind = q.kind /\ x.token = q.token
      /\ x.stage = stage /\ x.who = q.who /\ x.rights = q.rights /\ x.heard = q.heard
    BY <1>1 DEF FlightState, Stage
<1>3. flight' = [flight EXCEPT ![f] = x]
    BY Rows DEF To
<1>. HIDE DEF x
<1>4. MovesOn(f, stage, q.who, q.rights) /\ flight'[f] = x
    BY <1>2, <1>3, Rows DEF MovesOn
<1>5. q.kind \in {"restore", "refresh"} =>
         q.token # 0 /\ refreshTokens[q.token].user = q.who
    BY <1>1 DEF Sound
<1>. QED
    BY <1>2, <1>4, <1>5, MovesSound

LEMMA LinkCheckStep ==
    ASSUME Typed, NEW f \in F, LinkCheck(f)
    PROVE  /\ Typed'
           /\ \/ Refuses(f)
              \/ MovesOn(f, "linkable", flight[f].who, flight[f].rights)
           /\ flight[f].kind = "link" /\ flight[f].stage = "granted"
<1>1. /\ flight[f].kind = "link" /\ flight[f].stage = "granted" /\ flight[f].who \in User
    BY DEF LinkCheck, At, Typed, Sound, Entering
<1>2. CASE Refuses(f)
    BY <1>1, <1>2, RefusesTyped, ClientTyped, Rows
    DEF LinkCheck, client, history, Typed, TypeOK
<1>3. CASE To(f, "linkable")
  <2>1. /\ MovesOn(f, "linkable", flight[f].who, flight[f].rights)
        /\ flight' \in [F -> FlightState] /\ \A g \in F : Sound(g, flight'[g])
    BY <1>1, <1>3, ToStage DEF MovesOn
  <2>. QED
    BY <1>1, <2>1, ClientTyped, Rows DEF LinkCheck, client, history, Typed, TypeOK
<1>. QED
    BY <1>2, <1>3 DEF LinkCheck, Refuse, Refuses, RefusedOf

\* The table of tokens keeps its rows; at most their states change.
SameRows ==
    /\ refreshTokens' \in Seq(TokenRow) /\ Len(refreshTokens') = Len(refreshTokens)
    /\ \A i \in Tokens : /\ refreshTokens'[i].user = refreshTokens[i].user
                         /\ refreshTokens'[i].session = refreshTokens[i].session

LEMMA SameRowsTyped ==
    ASSUME Typed, SameRows, UNCHANGED <<cookie, tabs>>,
           now' \in 0 .. MaxTime, users' \in [User -> Row], maxOwner' \in User \cup {None},
           maintenance' \in [on : BOOLEAN, since : 0 .. MaxTime],
           directory' \in [User \ Local -> Entry],
           sync' \in [stage : {"idle", "fetched", "upserted"},
                      members : SUBSET User, outside : SUBSET User],
           shut' \subseteq User, flight' \in [F -> FlightState],
           \A f \in F : Sound(f, flight'[f]),
           events' \in 0 .. MaxEvents, changed' \in [User -> 0 .. MaxTime],
           ended' \subseteq Tokens, raced' \subseteq Tokens, stranded' \subseteq Tokens
    PROVE  Typed'
<1>1. DOMAIN refreshTokens' = Tokens /\ Tokens = 1 .. Len(refreshTokens)
    BY Rows DEF SameRows, Tokens
<1>2. ASSUME NEW i \in DOMAIN refreshTokens'
      PROVE  refreshTokens'[i] \in [user : User, session : 1 .. i, expiresAt : Nat,
                                    state : {"live", "revoked", "gone"}]
  <2>2. i \in 1 .. Len(refreshTokens') /\ i \in 1 .. Len(refreshTokens) /\ i \in Tokens
    BY <1>1 DEF SameRows
  <2>3. refreshTokens'[i] \in TokenRow
    BY <2>2 DEF SameRows
  <2>1. refreshTokens'[i] \in TokenRow /\ refreshTokens'[i].session \in 1 .. i
    BY <2>2, <2>3, Rows DEF SameRows
  <2>. QED
    BY <2>1 DEF TokenRow
<1>3. TypeOK'
    BY <1>1, <1>2, Rows
    DEF SameRows, Typed, TypeOK, F, FlightState, TabState, AccessState
<1>4. ASSUME NEW f \in F PROVE Sound(f, flight[f])'
  <2>1. /\ flight'[f] \in FlightState /\ Sound(f, flight'[f])
        /\ flight'[f].token # 0 => flight'[f].token \in Tokens
    BY <1>1, Rows DEF FlightState
  <2>. QED
    BY <2>1 DEF Sound, SameRows
<1>. QED
    BY <1>3, <1>4 DEF Typed, SameRows

\* One row changes its state.
LEMMA StateChange ==
    ASSUME Typed, NEW i \in Tokens, NEW st \in {"live", "revoked", "gone"},
           refreshTokens' = [refreshTokens EXCEPT ![i].state = st]
    PROVE  /\ SameRows /\ refreshTokens'[i].state = st
           /\ \A j \in Tokens \ {i} : refreshTokens'[j] = refreshTokens[j]
<1>. DEFINE row == [refreshTokens[i] EXCEPT !.state = st]
<1>1. i \in 1 .. Len(refreshTokens) /\ refreshTokens[i] \in TokenRow
    BY Rows DEF Tokens
<1>2. /\ row \in TokenRow /\ row.user = refreshTokens[i].user
      /\ row.session = refreshTokens[i].session /\ row.state = st
    BY <1>1 DEF TokenRow
<1>3. refreshTokens' = [refreshTokens EXCEPT ![i] = row]
    BY <1>1, Rows
<1>. HIDE DEF row
<1>4. refreshTokens' \in Seq(TokenRow) /\ Len(refreshTokens') = Len(refreshTokens)
    BY <1>1, <1>2, <1>3 DEF Typed
<1>. QED
    BY <1>1, <1>2, <1>3, <1>4, Rows DEF SameRows, Tokens

LEMMA RefreshSpendStep ==
    ASSUME Typed, NEW f \in F, RefreshSpend(f)
    PROVE  /\ Typed' /\ SameRows
           /\ flight[f].kind \in {"restore", "refresh"} /\ flight[f].stage = "checked"
           /\ flight[f].token \in Tokens
           /\ \/ /\ refreshTokens[flight[f].token].state = "gone"
                 /\ Refuses(f) /\ UNCHANGED refreshTokens
              \/ /\ refreshTokens[flight[f].token].state # "gone"
                 /\ MovesOn(f, "spent", flight[f].who, flight[f].rights)
                 /\ refreshTokens'[flight[f].token].state = "revoked"
                 /\ \A j \in Tokens \ {flight[f].token} : refreshTokens'[j] = refreshTokens[j]
<1>. DEFINE i == flight[f].token
<1>1. /\ flight[f].kind \in {"restore", "refresh"} /\ flight[f].stage = "checked"
      /\ flight[f].who \in User /\ i # 0
    BY DEF RefreshSpend, At, Typed, Sound, Entering
<1>2. i \in Tokens
    BY <1>1, Rows DEF FlightState, Tokens
<1>3. CASE refreshTokens[i].state = "gone" /\ Refuses(f) /\ UNCHANGED refreshTokens
  <2>1. SameRows
    BY <1>3 DEF SameRows, Typed
  <2>. QED
    BY <1>1, <1>2, <1>3, <2>1, RefusesTyped, ClientTyped, Rows
    DEF RefreshSpend, client, store, history, Typed, TypeOK
<1>4. CASE /\ refreshTokens[i].state # "gone" /\ To(f, "spent")
           /\ refreshTokens' = [refreshTokens EXCEPT ![i].state = "revoked"]
  <2>1. /\ SameRows /\ refreshTokens'[i].state = "revoked"
        /\ \A j \in Tokens \ {i} : refreshTokens'[j] = refreshTokens[j]
    BY <1>2, <1>4, StateChange
  <2>2. /\ MovesOn(f, "spent", flight[f].who, flight[f].rights)
        /\ flight' \in [F -> FlightState] /\ \A g \in F : Sound(g, flight'[g])
    BY <1>1, <1>4, ToStage DEF MovesOn
  <2>3. Typed'
    BY <2>1, <2>2, SameRowsTyped
    DEF RefreshSpend, outside, client, history, Typed, TypeOK, Tokens
  <2>. QED
    BY <1>1, <1>2, <1>4, <2>1, <2>2, <2>3
<1>. QED
    BY <1>3, <1>4 DEF RefreshSpend, Refuse, Refuses, RefusedOf

LEMMA UpsertedRow ==
    ASSUME Typed, NEW u \in User, NEW b \in BOOLEAN
    PROVE  /\ Upserted(u, b) \in Row /\ Upserted(u, b).row /\ Upserted(u, b).isStaff = b
           /\ \A row : TouchedAt(u, row) \in [User -> 0 .. MaxTime]
<1>1. /\ users[u] \in Row /\ "USER" \in Role
      /\ changed \in [User -> 0 .. MaxTime] /\ now \in 0 .. MaxTime
    BY SessionConstants DEF Typed, TypeOK
<1>2. CASE users[u].row
    BY <1>1, <1>2 DEF Upserted, Row, TouchedAt
<1>3. CASE ~users[u].row
    BY <1>1, <1>3 DEF Upserted, Row, TouchedAt
<1>. QED
    BY <1>2, <1>3

LEMMA UpsertFromLdapStep ==
    ASSUME Typed, NEW f \in F, UpsertFromLdap(f)
    PROVE  LET u == flight[f].who
               row == Upserted(u, flight[f].rights.isStaff) IN
           /\ Typed' /\ SameRows /\ u \in User /\ flight[f].stage = "known"
           /\ flight[f].rights.isStaff \in BOOLEAN
           /\ flight[f].kind \in {"login", "link"}
           /\ users' = [users EXCEPT ![u] = row] /\ changed' = TouchedAt(u, row)
           /\ \/ CanEnter(u, row) /\ MovesOn(f, "granted", u, row)
              \/ Refuses(f)
<1>. DEFINE q == flight[f]
            u == q.who
            row == Upserted(u, q.rights.isStaff)
            grant == [q EXCEPT !.rights = row, !.stage = "granted"]
<1>1. /\ q \in FlightState /\ q.kind \in {"login", "link"} /\ q.stage = "known"
      /\ u \in User
    BY Rows DEF UpsertFromLdap, At, Sound, Typed
<1>2. q.rights.isStaff \in BOOLEAN
    BY <1>1 DEF FlightState, Row
<1>3. row \in Row /\ TouchedAt(u, row) \in [User -> 0 .. MaxTime]
    BY <1>1, <1>2, UpsertedRow
<1>4. SameRows /\ users' \in [User -> Row]
    BY <1>1, <1>3 DEF UpsertFromLdap, SameRows, Typed, TypeOK
<1>5. /\ grant \in FlightState /\ grant.kind = q.kind /\ grant.token = q.token
      /\ grant.stage = "granted" /\ grant.who = u /\ grant.rights = row
      /\ grant.heard = q.heard
    BY <1>1, <1>3 DEF FlightState, Stage
<1>6. /\ users' = [users EXCEPT ![u] = row] /\ changed' = TouchedAt(u, row)
      /\ \/ CanEnter(u, row) /\ flight' = [flight EXCEPT ![f] = grant]
         \/ Refuses(f)
    BY Rows DEF UpsertFromLdap, Refuse, Refuses, RefusedOf
<1>. HIDE DEF grant, row
<1>7. /\ flight' \in [F -> FlightState] /\ \A g \in F : Sound(g, flight'[g])
      /\ \/ CanEnter(u, row) /\ MovesOn(f, "granted", u, row)
         \/ Refuses(f)
  <2>1. CASE Refuses(f)
    BY <1>1, <2>1, RefusesTyped
  <2>2. CASE CanEnter(u, row) /\ flight' = [flight EXCEPT ![f] = grant]
    <3>1. MovesOn(f, "granted", u, row) /\ flight'[f] = grant
      BY <1>5, <2>2, Rows DEF MovesOn
    <3>. QED
      BY <1>1, <1>5, <2>2, <3>1, MovesSound DEF MovesOn
  <2>. QED
    BY <1>6, <2>1, <2>2
<1>8. Typed'
    BY <1>3, <1>4, <1>6, <1>7, SameRowsTyped
    DEF UpsertFromLdap, outside, client, Typed, TypeOK, Tokens
<1>. QED
    BY <1>1, <1>2, <1>4, <1>6, <1>7, <1>8 DEF row

LEMMA LinkWriteStep ==
    ASSUME Typed, NEW f \in F, LinkWrite(f)
    PROVE  /\ Typed'
           /\ \/ Refuses(f)
              \/ MovesOn(f, "spent", flight[f].who, flight[f].rights)
           /\ flight[f].kind = "link" /\ flight[f].stage = "linkable"
<1>1. /\ flight[f].kind = "link" /\ flight[f].stage = "linkable" /\ flight[f].who \in User
    BY DEF LinkWrite, At, Typed, Sound, Entering
<1>2. /\ flight' \in [F -> FlightState] /\ \A g \in F : Sound(g, flight'[g])
      /\ Refuses(f) \/ MovesOn(f, "spent", flight[f].who, flight[f].rights)
  <2>1. CASE Refuses(f)
    BY <1>1, <2>1, RefusesTyped
  <2>2. CASE To(f, "spent")
    BY <1>1, <2>2, ToStage DEF MovesOn
  <2>. QED
    BY <2>1, <2>2 DEF LinkWrite, Refuse, Refuses, RefusedOf
<1>3. maxOwner' \in User \cup {None} /\ SameRows
    BY <1>1 DEF LinkWrite, SameRows, Typed, TypeOK
<1>4. Typed'
    BY <1>2, <1>3, SameRowsTyped
    DEF LinkWrite, outside, client, history, Typed, TypeOK, Tokens
<1>. QED
    BY <1>1, <1>2, <1>4

LEMMA UnlinkStep ==
    ASSUME Typed, NEW t \in Tab, Unlink(t)
    PROVE  Typed'
<1>1. /\ flight' \in [F -> FlightState] /\ \A g \in F : Sound(g, flight'[g])
    BY Rows DEF Unlink, Typed
<1>2. SameRows
    BY DEF Unlink, SameRows, Typed
<1>. QED
    BY <1>1, <1>2, SameRowsTyped DEF Unlink, outside, client, history, Typed, TypeOK, Tokens

LEMMA RevokeTokenStep ==
    ASSUME Typed, NEW f \in F, RevokeToken(f)
    PROVE  /\ Typed' /\ SameRows /\ \A g \in F : Quiet(g)
           /\ flight' \in [F -> FlightState] /\ \A g \in F \ {f} : flight'[g] = flight[g]
           /\ flight'[f].stage \in Still
           /\ flight[f].kind = "logout"
           /\ \/ UNCHANGED <<refreshTokens, ended, raced>>
              \/ LET i == flight[f].token IN
                 /\ i \in Tokens
                 /\ \A j \in Tokens \ {i} : refreshTokens'[j] = refreshTokens[j]
                 /\ refreshTokens'[i].state =
                       IF Live(i) THEN "revoked" ELSE refreshTokens[i].state
                 /\ ended' = ended \cup {Session(i)}
                 /\ raced' = IF Overlapping(f) \/ ~Live(i) THEN raced \cup {Session(i)}
                             ELSE raced
<1>. DEFINE q == flight[f]
            i == q.token
<1>1. q \in FlightState /\ q.kind = "logout" /\ q.stage = "sent"
    BY Rows DEF RevokeToken, At
<1>2. CASE Refuses(f) /\ UNCHANGED <<refreshTokens, ended, raced>>
  <2>1. SameRows
    BY <1>2 DEF SameRows, Typed
  <2>. QED
    BY <1>1, <1>2, <2>1, RefusesTyped, SameRowsTyped
    DEF Still, RevokeToken, outside, client, Typed, TypeOK, Tokens
<1>3. CASE /\ i # 0 /\ To(f, "done")
           /\ refreshTokens' = [refreshTokens EXCEPT
                  ![i].state = IF @ = "live" THEN "revoked" ELSE @]
           /\ ended' = ended \cup {Session(i)}
           /\ raced' = IF Overlapping(f) \/ ~Live(i) THEN raced \cup {Session(i)} ELSE raced
  <2>. DEFINE x == [q EXCEPT !.stage = "done"]
              st == IF refreshTokens[i].state = "live" THEN "revoked"
                    ELSE refreshTokens[i].state
  <2>1. i \in Tokens /\ Session(i) \in Tokens
    BY <1>1, <1>3, Rows DEF FlightState, Tokens, Session
  <2>2. /\ st \in {"live", "revoked", "gone"}
        /\ refreshTokens' = [refreshTokens EXCEPT ![i].state = st]
    BY <1>3, <2>1, Rows DEF Tokens, TokenRow
  <2>3. /\ SameRows /\ refreshTokens'[i].state = st
        /\ \A j \in Tokens \ {i} : refreshTokens'[j] = refreshTokens[j]
    BY <2>1, <2>2, StateChange
  <2>4. /\ x \in FlightState /\ x.stage = "done" /\ x.kind = "logout" /\ x.heard = q.heard
    BY <1>1 DEF FlightState, Stage
  <2>5. Sound(f, x)
    BY <1>1, <2>4 DEF Sound, Typed, Entering
  <2>6. flight' = [flight EXCEPT ![f] = x]
    BY <1>3, Rows DEF To
  <2>. HIDE DEF x
  <2>7. /\ flight' \in [F -> FlightState] /\ \A g \in F : Sound(g, flight'[g])
        /\ flight'[f].stage \in Still /\ \A g \in F \ {f} : flight'[g] = flight[g]
        /\ \A g \in F : Quiet(g)
    BY <2>4, <2>5, <2>6, OneFlight DEF Still
  <2>8. Typed'
    BY <1>3, <2>1, <2>3, <2>7, SameRowsTyped
    DEF RevokeToken, outside, client, Typed, TypeOK, Tokens
  <2>. QED
    BY <1>1, <1>3, <2>1, <2>3, <2>7, <2>8 DEF Live
<1>. QED
    BY <1>2, <1>3 DEF RevokeToken, Refuse, Refuses, RefusedOf

\* A new row at the end of the table of tokens, and the request that brings it.
Issues(f) ==
    LET u == flight[f].who
        new == Len(refreshTokens) + 1
        old == flight[f].token IN
    /\ users[u].row
    /\ Len(refreshTokens') = new /\ refreshTokens' \in Seq(TokenRow)
    /\ \A j \in Tokens : refreshTokens'[j] = refreshTokens[j]
    /\ refreshTokens'[new].user = u /\ refreshTokens'[new].state = "live"
    /\ refreshTokens'[new].session = (IF old = 0 THEN new ELSE Session(old))
    /\ \A g \in F \ {f} : flight'[g] = flight[g]
    /\ flight'[f].kind = flight[f].kind /\ flight'[f].token = new
    /\ flight'[f].stage = "issued" /\ flight'[f].who = u
    /\ flight'[f].rights = flight[f].rights

LEMMA IssueTokensStep ==
    ASSUME Typed, NEW f \in F, IssueTokens(f)
    PROVE  /\ Typed' /\ flight[f].who \in User /\ ReadyToIssue(f)
           /\ flight[f].kind \in {"restore", "refresh", "login", "link", "max"}
           /\ \/ /\ ~users[flight[f].who].row
                 /\ Refuses(f) /\ UNCHANGED refreshTokens /\ SameRows
              \/ Issues(f)
<1>. DEFINE q == flight[f]
            u == q.who
            old == q.token
            new == Len(refreshTokens) + 1
            row == [user |-> u, session |-> IF old = 0 THEN new ELSE Session(old),
                    expiresAt |-> now + RefreshTTL, state |-> "live"]
            x == [q EXCEPT !.stage = "issued", !.token = new]
<1>1. /\ q \in FlightState /\ Sound(f, q) /\ u \in User
      /\ q.kind \in {"restore", "refresh", "login", "link", "max"}
    BY Rows DEF IssueTokens, ReadyToIssue, At, Typed, Sound, Entering
<1>2. new \in Nat /\ old \in 0 .. Len(refreshTokens) /\ Len(refreshTokens) \in Nat
    BY <1>1, Rows DEF FlightState
<1>3. CASE ~users[u].row /\ Refuses(f) /\ UNCHANGED refreshTokens
  <2>1. SameRows
    BY <1>3 DEF SameRows, Typed
  <2>2. q.kind # "none" /\ flight' \in [F -> FlightState]
        /\ \A g \in F : Sound(g, flight'[g])
    BY <1>1, <1>3, RefusesTyped
  <2>3. Typed'
    BY <2>1, <2>2, SameRowsTyped
    DEF IssueTokens, outside, client, history, Typed, TypeOK, Tokens
  <2>. QED
    BY <1>1, <1>3, <2>1, <2>3 DEF IssueTokens
<1>4. CASE /\ users[u].row /\ refreshTokens' = Append(refreshTokens, row)
           /\ flight' = [flight EXCEPT ![f] = x]
  <2>1. /\ row \in TokenRow /\ row.session \in 1 .. new
        /\ row.user = u /\ row.state = "live"
        /\ row.session = IF old = 0 THEN new ELSE Session(old)
    <3>1. (IF old = 0 THEN new ELSE Session(old)) \in 1 .. new
      BY <1>2, Rows DEF Session
    <3>2. now + RefreshTTL \in Nat
      BY SessionConstants DEF Typed, TypeOK
    <3>. QED
      BY <1>1, <1>2, <3>1, <3>2 DEF TokenRow
  <2>. HIDE DEF row
  <2>2. /\ refreshTokens' \in Seq(TokenRow) /\ Len(refreshTokens') = new
        /\ refreshTokens'[new] = row
        /\ \A j \in 1 .. Len(refreshTokens) : refreshTokens'[j] = refreshTokens[j]
    BY <1>2, <1>4, <2>1 DEF Typed
  <2>3. /\ DOMAIN refreshTokens' = 1 .. new /\ Tokens = 1 .. Len(refreshTokens)
        /\ Tokens \subseteq 1 .. new
        /\ \A i \in 1 .. new : i \in Tokens \/ i = new
    BY <1>2, <2>2, Rows DEF Tokens
  <2>4. ASSUME NEW i \in 1 .. new
        PROVE  refreshTokens'[i] \in [user : User, session : 1 .. i, expiresAt : Nat,
                                      state : {"live", "revoked", "gone"}]
    <3>1. refreshTokens'[i] \in TokenRow /\ refreshTokens'[i].session \in 1 .. i
      BY <2>1, <2>2, <2>3, Rows
    <3>. QED
      BY <3>1 DEF TokenRow
  <2>5. \A g \in F : flight[g] \in FlightState'
    BY <1>2, <2>2, Rows DEF FlightState
  <2>6. /\ x \in FlightState' /\ x.kind = q.kind /\ x.token = new
        /\ x.stage = "issued" /\ x.who = u /\ x.rights = q.rights /\ x.heard = q.heard
    <3>1. new \in 0 .. Len(refreshTokens')
      BY <1>2, <2>2
    <3>2. x \in [kind : Kind, stage : Stage, token : 0 .. Len(refreshTokens'),
                 who : User \cup {None}, rights : Row, heard : BOOLEAN]
      BY <1>1, <3>1 DEF FlightState, Stage
    <3>. QED
      BY <1>1, <3>2 DEF FlightState
  <2>. HIDE DEF x
  <2>7. /\ flight' \in [F -> FlightState'] /\ flight'[f] = x
        /\ \A g \in F \ {f} : flight'[g] = flight[g]
    BY <1>4, <2>5, <2>6, Rows
  <2>8. ASSUME NEW g \in F PROVE Sound(g, flight[g])'
    <3>1. CASE g = f
      BY <1>1, <2>1, <2>2, <2>6, <2>7, <1>2, <3>1 DEF Sound, Entering
    <3>2. CASE g # f
      <4>1. /\ flight'[g] = flight[g] /\ Sound(g, flight[g])
            /\ flight[g].token # 0 => flight[g].token \in 1 .. Len(refreshTokens)
        BY <2>7, <3>2, Rows DEF FlightState, Typed
      <4>. QED
        BY <2>2, <4>1 DEF Sound
    <3>. QED
      BY <3>1, <3>2
  <2>9. cookie \in 0 .. new
    BY <1>2 DEF Typed, TypeOK
  <2>10. TypeOK'
    BY <2>2, <2>3, <2>4, <2>7, <2>9
    DEF IssueTokens, outside, client, history, Typed, TypeOK, Tokens, F, FlightState
  <2>11. Issues(f)
    BY <1>4, <2>1, <2>2, <2>3, <2>6, <2>7 DEF Issues
  <2>. QED
    BY <1>1, <2>2, <2>8, <2>10, <2>11 DEF Typed, IssueTokens
<1>. QED
    BY <1>3, <1>4 DEF IssueTokens, Refuse, Refuses, RefusedOf

-----------------------------------------------------------------------------
(* Administrators, the directory, and time: no request moves.               *)

Elsewhere ==
    \/ \E u \in User : \/ \E r \in Role : SetRole(u, r)
                       \/ RemoveUser(u) \/ CreateLocal(u)
    \/ \E b \in BOOLEAN : SetMaintenance(b)
    \/ \E u \in User \ Local, e \in Entry : DirectoryChanges(u, e)
    \/ SyncFetch \/ SyncUpsert \/ SyncDeactivate
    \/ Tick

LEMMA UsersTyped ==
    ASSUME Typed, Elsewhere
    PROVE  users' \in [User -> Row] /\ changed' \in [User -> 0 .. MaxTime]
<1>. USE DEF Typed, TypeOK
<1>1. ASSUME NEW u \in User, NEW r \in Role, SetRole(u, r)
      PROVE  users' \in [User -> Row] /\ changed' \in [User -> 0 .. MaxTime]
  <2>1. users[u] \in Row
    OBVIOUS
  <2>2. [users[u] EXCEPT !.role = r] \in Row
    BY <2>1 DEF Row
  <2>. QED
    BY <1>1, <2>2 DEF SetRole
<1>2. ASSUME NEW u \in User, RemoveUser(u)
      PROVE  users' \in [User -> Row] /\ changed' \in [User -> 0 .. MaxTime]
    BY <1>2, NewRows DEF RemoveUser
<1>3. ASSUME NEW u \in User, CreateLocal(u)
      PROVE  users' \in [User -> Row] /\ changed' \in [User -> 0 .. MaxTime]
    BY <1>3, NewRows DEF CreateLocal
<1>4. ASSUME SyncUpsert
      PROVE  users' \in [User -> Row] /\ changed' \in [User -> 0 .. MaxTime]
  <2>. DEFINE row(u) == IF u \in sync.members THEN Upserted(u, TRUE) ELSE users[u]
  <2>1. \A u \in User : /\ row(u) \in Row
                        /\ TouchedAt(u, row(u)) \in [User -> 0 .. MaxTime]
    BY UpsertedRow
  <2>2. /\ users' = [u \in User |-> row(u)]
        /\ changed' = [u \in User |-> TouchedAt(u, row(u))[u]]
    BY <1>4 DEF SyncUpsert
  <2>. HIDE DEF row
  <2>. QED
    BY <2>1, <2>2
<1>5. ASSUME SyncDeactivate
      PROVE  users' \in [User -> Row] /\ changed' \in [User -> 0 .. MaxTime]
  <2>1. \A u \in User :
            [users[u] EXCEPT !.isActive = FALSE, !.isStaff = FALSE] \in Row
    <3>1. \A u \in User : users[u] \in Row
      OBVIOUS
    <3>. QED
      BY ZenonT(40), <3>1 DEF Row
  <2>. QED
    BY <1>5, <2>1 DEF SyncDeactivate
<1>6. CASE users' = users /\ changed' = changed
    BY <1>6
<1>. QED
    BY <1>1, <1>2, <1>3, <1>4, <1>5, <1>6
    DEF Elsewhere, SetMaintenance, DirectoryChanges, SyncFetch, Tick, store

LEMMA RemovedRows ==
    ASSUME Typed, NEW u \in User, RemoveUser(u)
    PROVE  /\ SameRows
           /\ \A i \in Tokens : refreshTokens'[i].state =
                 IF refreshTokens[i].user = u THEN "gone" ELSE refreshTokens[i].state
<1>. DEFINE row(i) == [refreshTokens[i] EXCEPT !.state =
                          IF refreshTokens[i].user = u THEN "gone" ELSE @]
<1>1. Tokens = 1 .. Len(refreshTokens) /\ Len(refreshTokens) \in Nat
    BY Rows DEF Tokens
<1>2. \A i \in Tokens : /\ row(i) \in TokenRow /\ row(i).user = refreshTokens[i].user
                        /\ row(i).session = refreshTokens[i].session
                        /\ row(i).state = IF refreshTokens[i].user = u THEN "gone"
                                          ELSE refreshTokens[i].state
    BY <1>1, Rows DEF TokenRow
<1>3. refreshTokens' = [i \in Tokens |-> row(i)]
    BY DEF RemoveUser, Tokens
<1>. HIDE DEF row
<1>4. \A i \in Tokens : refreshTokens'[i] = row(i)
    BY <1>3
<1>5. refreshTokens' \in Seq(TokenRow) /\ Len(refreshTokens') = Len(refreshTokens)
  <2>1. refreshTokens' \in [1 .. Len(refreshTokens) -> TokenRow]
    BY <1>1, <1>2, <1>3
  <2>. QED
    BY <1>1, <2>1
<1>. QED
    BY <1>2, <1>4, <1>5 DEF SameRows

LEMMA ElsewhereStep ==
    ASSUME Typed, Elsewhere
    PROVE  Typed' /\ SameRows
<1>1. SameRows
  <2>1. ASSUME UNCHANGED refreshTokens PROVE SameRows
    BY <2>1 DEF SameRows, Typed
  <2>. QED
    BY <2>1, RemovedRows
    DEF Elsewhere, SetRole, CreateLocal, SetMaintenance, DirectoryChanges, SyncFetch,
        SyncUpsert, SyncDeactivate, Tick, store
<1>2. flight' \in [F -> FlightState] /\ \A f \in F : Sound(f, flight'[f])
  <2>1. flight' = flight
    BY DEF Elsewhere, SetRole, RemoveUser, CreateLocal, SetMaintenance, DirectoryChanges,
           SyncFetch, SyncUpsert, SyncDeactivate, Tick
  <2>. QED
    BY <2>1, Rows DEF Typed
<1>3. now' \in 0 .. MaxTime /\ events' \in 0 .. MaxEvents
  <2>. USE SessionConstants DEF Typed, TypeOK
  <2>1. CASE Tick
    BY <2>1, EventTyped DEF Tick
  <2>2. CASE now' = now
    BY ZenonT(40), <2>2, EventTyped
    DEF Elsewhere, SetRole, RemoveUser, CreateLocal, SetMaintenance, DirectoryChanges,
        SyncFetch, SyncUpsert, SyncDeactivate, Tick
  <2>. QED
    BY <2>1, <2>2
    DEF Elsewhere, SetRole, RemoveUser, CreateLocal, SetMaintenance, DirectoryChanges,
        SyncFetch, SyncUpsert, SyncDeactivate
<1>4. /\ sync' \in [stage : {"idle", "fetched", "upserted"},
                    members : SUBSET User, outside : SUBSET User]
      /\ shut' \subseteq User /\ directory' \in [User \ Local -> Entry]
  <2>. USE DEF Typed, TypeOK
  <2>1. CASE SyncFetch
    BY <2>1 DEF SyncFetch, StaffGroupMembers
  <2>2. CASE \E u \in User \ Local, e \in Entry : DirectoryChanges(u, e)
    <3>1. PICK u \in User \ Local, e \in Entry : DirectoryChanges(u, e)
      BY <2>2
    <3>2. [sync EXCEPT !.outside = @ \ {u}] \in
             [stage : {"idle", "fetched", "upserted"},
              members : SUBSET User, outside : SUBSET User]
      OBVIOUS
    <3>. QED
      BY <3>1, <3>2 DEF DirectoryChanges
  <2>3. CASE SyncUpsert
    BY <2>3 DEF SyncUpsert
  <2>4. CASE SyncDeactivate
    BY <2>4 DEF SyncDeactivate
  <2>5. CASE UNCHANGED outside
    BY <2>5 DEF outside
  <2>. QED
    BY <2>1, <2>2, <2>3, <2>4, <2>5
    DEF Elsewhere, SetRole, RemoveUser, CreateLocal, SetMaintenance, Tick
<1>5. /\ maxOwner' \in User \cup {None}
      /\ maintenance' \in [on : BOOLEAN, since : 0 .. MaxTime]
      /\ UNCHANGED <<cookie, tabs, ended, raced, stranded>>
  <2>. USE DEF Typed, TypeOK
  <2>1. CASE \E u \in User : RemoveUser(u)
    BY <2>1 DEF RemoveUser, client
  <2>2. CASE \E b \in BOOLEAN : SetMaintenance(b)
    BY <2>2 DEF SetMaintenance, client
  <2>3. CASE UNCHANGED <<maxOwner, maintenance, cookie, tabs, ended, raced, stranded>>
    BY <2>3
  <2>. QED
    BY <2>1, <2>2, <2>3
    DEF Elsewhere, SetRole, CreateLocal, DirectoryChanges,
        SyncFetch, SyncUpsert, SyncDeactivate, Tick, store, client
<1>6. Typed'
    BY <1>1, <1>2, <1>3, <1>4, <1>5, UsersTyped, SameRowsTyped DEF Typed, TypeOK, Tokens
<1>. QED
    BY <1>1, <1>6

LEMMA NextTyped == Typed /\ [Next]_vars => Typed'
<1>. SUFFICES ASSUME Typed, [Next]_vars PROVE Typed'
    OBVIOUS
<1>1. CASE UNCHANGED vars
  <2>1. TypeOK'
    BY <1>1 DEF vars, store, outside, client, history, Typed, TypeOK
  <2>. QED
    BY <1>1, <2>1 DEF vars, store, Typed, Sound, client, history, outside
<1>2. ASSUME NEW t \in Tab,
             \/ \E l \in {"web", "max"} : Load(t, l)
             \/ \E u \in User : Submit(t, u)
             \/ \E c \in Call : CallRefused(t, c)
             \/ Logout(t) \/ Unlink(t) \/ Answer(t)
             \/ \E s \in Slot : Lost(t, s)
      PROVE  Typed'
    BY <1>2, LoadStep, SubmitStep, CallRefusedStep, LogoutStep, UnlinkStep, LostStep,
       LetInStep, RestoredStep, RefreshedStep, LoggedOutStep, RefusedStep DEF Answer
<1>3. ASSUME NEW f \in F, Serve(f) \/ Crash(f) PROVE Typed'
    BY <1>3, CrashStep, RefreshCheckStep, RefreshSpendStep, VerifyCredentialsStep,
       UpsertFromLdapStep, LoginViaMaxStep, LinkCheckStep, LinkWriteStep,
       IssueTokensStep, RevokeTokenStep DEF Serve
<1>4. CASE Elsewhere
    BY <1>4, ElsewhereStep
<1>. QED
    BY <1>1, <1>2, <1>3, <1>4 DEF Next, Elsewhere, F

\* Rows, tokens, requests and tabs keep their types, and a refresh cookie or a
\* request never names a token that was not issued (schema.prisma: User,
\* RefreshToken; auth.service.ts; AuthContext).
THEOREM SessionsTypeCorrect == Spec => []TypeOK
<1>1. Typed => TypeOK
    BY DEF Typed
<1>. QED
    BY <1>1, InitTyped, NextTyped, PTL DEF Spec

-----------------------------------------------------------------------------
(* Rights.  A step of the client moves no request on, and every access      *)
(* token it puts into a tab is the one an answer carried.                   *)

Clients ==
    \/ \E t \in Tab : \/ \E l \in {"web", "max"} : Load(t, l)
                      \/ \E u \in User : Submit(t, u)
                      \/ \E c \in Call : CallRefused(t, c)
                      \/ Logout(t) \/ Answer(t)
                      \/ \E s \in Slot : Lost(t, s)
    \/ \E f \in F : Crash(f)

AccessFrom(x) ==
    \/ tabs'[x].access = tabs[x].access
    \/ tabs'[x].access.user = None
    \/ \E f \in F : flight[f].stage = "issued" /\ tabs'[x].access = Signs(x, f)

LEMMA MixedFields ==
    ASSUME Typed, NEW u, NEW x \in Tab
    PROVE  /\ Mixed(u)[x].page = tabs[x].page /\ Mixed(u)[x].launch = tabs[x].launch
           /\ Mixed(u)[x].user = tabs[x].user /\ Mixed(u)[x].by = tabs[x].by
           /\ Mixed(u)[x].access = tabs[x].access /\ Mixed(u)[x].wait = tabs[x].wait
           /\ Mixed(u)[x].mixed <=> (tabs[x].mixed \/ tabs[x].user \notin {None, u})
           /\ DOMAIN Mixed(u) = Tab
BY Rows DEF Mixed, TabState

LEMMA RelaunchedFields ==
    ASSUME NEW t, NEW l
    PROVE  /\ Relaunched(t, l).launch = l /\ Relaunched(t, l).user = None
           /\ Relaunched(t, l).by = None /\ Relaunched(t, l).access = NoAccess
           /\ Relaunched(t, l).wait = {} /\ ~Relaunched(t, l).mixed
           /\ NoAccess.user = None
BY DEF Relaunched, Closed, NoAccess

LEMMA OutFields ==
    ASSUME Typed, NEW t \in Tab
    PROVE  /\ Out(t).launch = tabs[t].launch /\ Out(t).user = None /\ Out(t).by = None
           /\ Out(t).access = NoAccess /\ Out(t).wait = tabs[t].wait
           /\ Out(t).mixed <=> tabs[t].mixed
BY Rows DEF Out, TabState

LEMMA FailedAccess ==
    ASSUME Typed, NEW t \in Tab, NEW s \in Slot, Failed(t, s),
           flight[<<t, s>>].kind # "none"
    PROVE  \A x \in Tab : AccessFrom(x)
<1>1. \A x \in Tab \ {t} : tabs'[x] = tabs[x]
    BY FailedDoes, Rows
<1>2. AccessFrom(t)
  <2>1. /\ Out(t).access.user = None
        /\ Relaunched(t, "max").access.user = None /\ Relaunched(t, "web").access.user = None
    BY OutFields, RelaunchedFields
  <2>. DEFINE late == [tabs[t] EXCEPT !.page = "login"]
  <2>2. late.access = tabs[t].access
    BY Rows DEF TabState
  <2>3. \E y \in {Out(t), late, tabs[t], Relaunched(t, "max"), Relaunched(t, "web")} :
            tabs'[t] = y
    <3>. HIDE DEF late
    <3>. QED
      BY FailedDoes, Rows DEF late
  <2>. HIDE DEF late
  <2>. QED
    BY <2>1, <2>2, <2>3 DEF AccessFrom
<1>. QED
    BY <1>1, <1>2 DEF AccessFrom

LEMMA ClientsStep ==
    ASSUME Typed, Clients
    PROVE  /\ \A g \in F : Quiet(g)
           /\ UNCHANGED <<now, store, outside, changed, ended, raced>>
           /\ \A x \in Tab : AccessFrom(x)
<1>1. \A g \in F : Quiet(g)
    BY LoadStep, SubmitStep, CallRefusedStep, LogoutStep, LostStep, LetInStep, RestoredStep,
       RefreshedStep, LoggedOutStep, RefusedStep, CrashStep DEF Clients, Answer
<1>2. UNCHANGED <<now, store, outside, changed, ended, raced>>
    BY DEF Clients, Answer, Load, Submit, CallRefused, Logout, Lost, LetIn, Restored,
           Refreshed, LoggedOut, Refused, Crash, history
<1>3. ASSUME NEW t \in Tab, NEW x \in Tab, LetIn(t) PROVE AccessFrom(x)
  <2>. DEFINE f == <<t, "form">>
              u == flight[f].who
              let == [tabs[t] EXCEPT !.page = "in", !.user = u, !.by = u,
                                     !.access = Signs(t, f), !.mixed = @ \/ Overtaken(t)]
  <2>1. f \in F /\ flight[f].stage = "issued"
    BY <1>3, Slots DEF LetIn
  <2>2. tabs' = Mixed(u) \/ tabs' = [Mixed(u) EXCEPT ![t] = let]
    BY <1>3 DEF LetIn
  <2>3. let.access = Signs(t, f)
    BY Rows DEF TabState
  <2>. HIDE DEF let
  <2>4. /\ \A y \in Tab : Mixed(u)[y].access = tabs[y].access
        /\ DOMAIN Mixed(u) = Tab
    BY MixedFields
  <2>5. tabs'[x].access = tabs[x].access \/ (x = t /\ tabs'[x] = let)
    BY <2>2, <2>4
  <2>. QED
    BY <2>1, <2>3, <2>5 DEF AccessFrom
<1>4. ASSUME NEW t \in Tab, NEW x \in Tab, Restored(t) PROVE AccessFrom(x)
  <2>. DEFINE f == <<t, "session">>
              let == [tabs[t] EXCEPT !.page = "in", !.user = flight[f].who,
                                     !.access = Signs(t, f)]
  <2>1. f \in F /\ flight[f].stage = "issued"
    BY <1>4, Slots DEF Restored
  <2>2. tabs' = [Mixed(flight[f].who) EXCEPT ![t] = let]
    BY <1>4 DEF Restored
  <2>3. let.access = Signs(t, f)
    BY Rows DEF TabState
  <2>. HIDE DEF let
  <2>. QED
    BY <2>1, <2>2, <2>3, MixedFields DEF AccessFrom
<1>5. ASSUME NEW t \in Tab, NEW x \in Tab, Refreshed(t) PROVE AccessFrom(x)
  <2>. DEFINE f == <<t, "session">>
              let == [tabs[t] EXCEPT !.access = Signs(t, f), !.wait = {}]
  <2>1. f \in F /\ flight[f].stage = "issued"
    BY <1>5, Slots DEF Refreshed
  <2>2. tabs' = [Mixed(flight[f].who) EXCEPT ![t] = let]
    BY <1>5 DEF Refreshed
  <2>3. let.access = Signs(t, f)
    BY Rows DEF TabState
  <2>. HIDE DEF let
  <2>. QED
    BY <2>1, <2>2, <2>3, MixedFields DEF AccessFrom
<1>6. ASSUME NEW t \in Tab, NEW x \in Tab, LoggedOut(t) PROVE AccessFrom(x)
  <2>1. tabs' = tabs \/ tabs' = [tabs EXCEPT ![t] = Out(t)]
    BY <1>6, Rows DEF LoggedOut, Out
  <2>. QED
    BY <2>1, OutFields, Rows DEF AccessFrom, NoAccess
<1>7. ASSUME NEW t \in Tab, NEW x \in Tab, NEW l \in {"web", "max"}, Load(t, l)
      PROVE  AccessFrom(x)
  <2>1. tabs' = [tabs EXCEPT ![t] = Relaunched(t, l)] /\ Relaunched(t, l).access.user = None
    BY <1>7, RelaunchedFields DEF Load
  <2>. QED
    BY <2>1, Rows DEF AccessFrom
<1>8. ASSUME NEW t \in Tab, NEW x \in Tab, NEW c \in Call, CallRefused(t, c)
      PROVE  AccessFrom(x)
    BY <1>8, Rows DEF CallRefused, AccessFrom, TabState
<1>9. ASSUME NEW x \in Tab, tabs' = tabs PROVE AccessFrom(x)
    BY <1>9 DEF AccessFrom
<1>10. \A x \in Tab : AccessFrom(x)
    BY <1>3, <1>4, <1>5, <1>6, <1>7, <1>8, <1>9, FailedAccess
    DEF Clients, Answer, Submit, Logout, Lost, Refused, Crash, client
<1>. QED
    BY <1>1, <1>2, <1>10

LEMMA RightsClients ==
    ASSUME Typed, RightsInv, Clients
    PROVE  RightsInv'
<1>1. ASSUME NEW g \in F PROVE CarriesRights(g)'
  <2>1. UNCHANGED <<now, users, maintenance, changed>> /\ Quiet(g) /\ CarriesRights(g)
    BY ClientsStep DEF store, RightsInv
  <2>2. CASE flight'[g].stage \in Still
    BY <2>2 DEF CarriesRights, Still, Entering
  <2>3. CASE \E h \in BOOLEAN : flight'[g] = [flight[g] EXCEPT !.heard = h]
    <3>1. /\ flight'[g].stage = flight[g].stage /\ flight'[g].who = flight[g].who
          /\ flight'[g].rights = flight[g].rights
      BY <2>3, Rows DEF FlightState
    <3>. QED
      BY <2>1, <3>1 DEF CarriesRights, Current, Barred
  <2>. QED
    BY <2>1, <2>2, <2>3 DEF Quiet, Still
<1>2. ASSUME NEW x \in Tab PROVE HoldsRights(x)'
  <2>1. /\ UNCHANGED <<now, users, maintenance, changed>> /\ AccessFrom(x) /\ HoldsRights(x)
    BY ClientsStep DEF store, RightsInv
  <2>2. CASE tabs'[x].access = tabs[x].access
    BY <2>1, <2>2 DEF HoldsRights, Current, Barred
  <2>3. CASE tabs'[x].access.user = None
    BY <2>3 DEF HoldsRights
  <2>4. ASSUME NEW f \in F, flight[f].stage = "issued", tabs'[x].access = Signs(x, f)
        PROVE  HoldsRights(x)'
    <3>. DEFINE q == flight[f]
                c == tabs'[x].access
    <3>1. CarriesRights(f) /\ q.stage \in Entering /\ q.who \in User
      BY <2>4 DEF RightsInv, Entering, Typed, Sound
    <3>2. /\ c.user = q.who /\ c.role = q.rights.role /\ c.isStaff = q.rights.isStaff
          /\ c.exp = now + AccessTTL
      BY <2>4 DEF Signs, Access
    <3>3. now \in Nat /\ AccessTTL \in Nat
      BY SessionConstants DEF Typed, TypeOK
    <3>. HIDE DEF c
    <3>. QED
      BY <2>1, <3>1, <3>2, <3>3 DEF HoldsRights, CarriesRights, Current, Barred, c
  <2>. QED
    BY <2>1, <2>2, <2>3, <2>4 DEF AccessFrom
<1>. QED
    BY <1>1, <1>2 DEF RightsInv

SameAccounts == UNCHANGED <<now, users, maintenance, changed, tabs>>

LEMMA RightsSame ==
    ASSUME Typed, RightsInv, SameAccounts
    PROVE  /\ \A x \in Tab : HoldsRights(x)'
           /\ \A g \in F : (Quiet(g) => CarriesRights(g)')
<1>1. \A x \in Tab : HoldsRights(x)'
    BY DEF SameAccounts, RightsInv, HoldsRights, Current, Barred
<1>2. ASSUME NEW g \in F, Quiet(g) PROVE CarriesRights(g)'
  <2>1. CASE flight'[g].stage \in Still
    BY <2>1 DEF CarriesRights, Still, Entering
  <2>2. CASE \E h \in BOOLEAN : flight'[g] = [flight[g] EXCEPT !.heard = h]
    <3>1. /\ flight'[g].stage = flight[g].stage /\ flight'[g].who = flight[g].who
          /\ flight'[g].rights = flight[g].rights
      BY <2>2, Rows DEF FlightState
    <3>. QED
      BY <3>1 DEF SameAccounts, RightsInv, CarriesRights, Current, Barred
  <2>. QED
    BY <1>2, <2>1, <2>2 DEF Quiet, Still
<1>. QED
    BY <1>1, <1>2

\* Let in with the account's own rights, or with those already carried.
LEMMA RightsServed ==
    ASSUME Typed, RightsInv, SameAccounts, NEW f \in F,
           \A g \in F \ {f} : flight'[g] = flight[g],
           \/ Quiet(f)
           \/ flight'[f].stage = "known"
           \/ /\ CanEnter(flight'[f].who, users[flight'[f].who])
              /\ flight'[f].rights = users[flight'[f].who]
           \/ /\ flight[f].stage \in Entering
              /\ flight'[f].who = flight[f].who /\ flight'[f].rights = flight[f].rights
    PROVE  RightsInv'
<1>1. \A g \in F \ {f} : CarriesRights(g)'
    BY RightsSame, QuietSame
<1>2. CarriesRights(f)'
  <2>1. CASE Quiet(f)
    BY <2>1, RightsSame
  <2>2. CASE flight'[f].stage = "known"
    BY <2>2 DEF CarriesRights, Entering
  <2>3. CASE /\ CanEnter(flight'[f].who, users[flight'[f].who])
             /\ flight'[f].rights = users[flight'[f].who]
    BY <2>3 DEF CarriesRights, SameAccounts, CanEnter, BlockedByMaintenance, Current, Barred
  <2>4. CASE /\ flight[f].stage \in Entering
             /\ flight'[f].who = flight[f].who /\ flight'[f].rights = flight[f].rights
    BY <2>4 DEF RightsInv, CarriesRights, SameAccounts, Current, Barred
  <2>. QED
    BY <2>1, <2>2, <2>3, <2>4
<1>. QED
    BY <1>1, <1>2, RightsSame DEF RightsInv

LEMMA RightsUpsert ==
    ASSUME Typed, RightsInv, NEW f \in F, UpsertFromLdap(f)
    PROVE  RightsInv'
<1>. DEFINE u == flight[f].who
            row == Upserted(u, flight[f].rights.isStaff)
<1>1. /\ u \in User /\ users' = [users EXCEPT ![u] = row]
      /\ changed' = TouchedAt(u, row) /\ flight[f].kind \in {"login", "link"}
      /\ \/ CanEnter(u, row) /\ MovesOn(f, "granted", u, row)
         \/ Refuses(f)
    BY UpsertFromLdapStep
<1>2. UNCHANGED <<now, maintenance, tabs>>
    BY DEF UpsertFromLdap, client
<1>. HIDE DEF row
<1>3. /\ users'[u] = row /\ \A v \in User \ {u} : users'[v] = users[v]
      /\ \A v \in User \ {u} : changed'[v] = changed[v]
      /\ changed'[u] = (IF row = users[u] THEN changed[u] ELSE now)
    BY <1>1 DEF TouchedAt, Typed, TypeOK
<1>4. \A v \in User : \/ users'[v] = users[v] /\ changed'[v] = changed[v]
                      \/ changed'[v] = now
    BY <1>3
<1>5. now \in Nat /\ AccessTTL \in Nat
    BY SessionConstants DEF Typed, TypeOK
<1>6. ASSUME NEW x \in Tab PROVE HoldsRights(x)'
  <2>1. HoldsRights(x) /\ tabs'[x] = tabs[x] /\ tabs[x].access \in AccessState
    BY <1>2, Rows DEF RightsInv, TabState
  <2>. QED
    BY <1>2, <1>4, <1>5, <2>1 DEF HoldsRights, Current, Barred, AccessState
<1>7. ASSUME NEW g \in F, flight'[g] = flight[g] PROVE CarriesRights(g)'
  <2>1. CarriesRights(g) /\ (flight[g].stage \in Entering => flight[g].who \in User)
    BY DEF RightsInv, Typed, Sound
  <2>. QED
    BY <1>2, <1>4, <1>7, <2>1 DEF CarriesRights, Current, Barred
<1>8. CASE Refuses(f)
  <2>1. flight'[f].stage = "refused" /\ \A g \in F \ {f} : flight'[g] = flight[g]
    BY <1>1, <1>8, RefusesTyped
  <2>. QED
    BY <1>6, <1>7, <2>1 DEF RightsInv, CarriesRights, Entering
<1>9. CASE CanEnter(u, row) /\ MovesOn(f, "granted", u, row)
  <2>1. CarriesRights(f)'
    BY <1>2, <1>3, <1>9
    DEF MovesOn, CarriesRights, Current, Barred, CanEnter, BlockedByMaintenance
  <2>. QED
    BY <1>6, <1>7, <1>9, <2>1 DEF RightsInv, MovesOn
<1>. QED
    BY <1>1, <1>8, <1>9

LEMMA RightsServe ==
    ASSUME Typed, RightsInv, NEW f \in F, Serve(f)
    PROVE  RightsInv'
<1>1. CASE UpsertFromLdap(f)
    BY <1>1, RightsUpsert
<1>2. CASE ~UpsertFromLdap(f)
  <2>1. SameAccounts
    BY <1>2 DEF Serve, RefreshCheck, RefreshSpend, VerifyCredentials, LoginViaMax, LinkCheck,
       LinkWrite, IssueTokens, RevokeToken, SameAccounts, store, client, history
  <2>2. CASE RefreshCheck(f)
    BY ZenonT(40), <2>1, <2>2, RefreshCheckStep, RefusesTyped, RightsServed DEF MovesOn, RefreshCheck, At
  <2>3. CASE RefreshSpend(f)
    <3>1. flight[f].stage \in Entering /\ flight[f].kind # "none"
      BY <2>3, RefreshSpendStep DEF Entering
    <3>. QED
      BY <2>1, <2>3, <3>1, RefreshSpendStep, RefusesTyped, RightsServed DEF MovesOn
  <2>4. CASE VerifyCredentials(f)
    BY <2>1, <2>4, VerifyCredentialsStep, RefusesTyped, RightsServed DEF MovesOn
  <2>5. CASE LoginViaMax(f)
    BY <2>1, <2>5, LoginViaMaxStep, RefusesTyped, RightsServed DEF MovesOn
  <2>6. CASE LinkCheck(f)
    <3>1. flight[f].stage \in Entering /\ flight[f].kind # "none"
      BY <2>6, LinkCheckStep DEF Entering
    <3>. QED
      BY <2>1, <2>6, <3>1, LinkCheckStep, RefusesTyped, RightsServed DEF MovesOn
  <2>7. CASE LinkWrite(f)
    <3>1. flight[f].stage \in Entering /\ flight[f].kind # "none"
      BY <2>7, LinkWriteStep DEF Entering
    <3>. QED
      BY <2>1, <2>7, <3>1, LinkWriteStep, RefusesTyped, RightsServed DEF MovesOn
  <2>8. CASE IssueTokens(f)
    <3>1. flight[f].stage \in Entering /\ flight[f].kind # "none"
      BY <2>8, IssueTokensStep DEF ReadyToIssue, At, Entering
    <3>. QED
      BY <2>1, <2>8, <3>1, IssueTokensStep, RefusesTyped, RightsServed DEF Issues
  <2>9. CASE RevokeToken(f)
    BY <2>1, <2>9, RevokeTokenStep, RightsServed
  <2>. QED
    BY <1>2, <2>2, <2>3, <2>4, <2>5, <2>6, <2>7, <2>8, <2>9 DEF Serve
<1>. QED
    BY <1>1, <1>2

\* Whose rights change, or maintenance, changes now.
Stamped ==
    /\ \A u \in User : \/ users'[u] = users[u] /\ changed'[u] = changed[u]
                       \/ changed'[u] = now
    /\ maintenance' = maintenance \/ maintenance'.since = now

LEMMA ElsewhereStamped ==
    ASSUME Typed, Elsewhere
    PROVE  Stamped /\ UNCHANGED <<flight, tabs>>
<1>1. UNCHANGED <<flight, tabs>>
    BY DEF Elsewhere, SetRole, RemoveUser, CreateLocal, SetMaintenance, DirectoryChanges,
           SyncFetch, SyncUpsert, SyncDeactivate, Tick, client
<1>2. users \in [User -> Row] /\ changed \in [User -> 0 .. MaxTime]
    BY DEF Typed, TypeOK
<1>3. ASSUME NEW u \in User, \/ \E r \in Role : SetRole(u, r)
                             \/ RemoveUser(u) \/ CreateLocal(u)
      PROVE  Stamped
    BY <1>2, <1>3 DEF SetRole, RemoveUser, CreateLocal, Stamped
<1>4. CASE SyncUpsert
  <2>. DEFINE row(u) == IF u \in sync.members THEN Upserted(u, TRUE) ELSE users[u]
  <2>1. /\ users' = [u \in User |-> row(u)] /\ maintenance' = maintenance
        /\ changed' = [u \in User |-> TouchedAt(u, row(u))[u]]
    BY <1>4 DEF SyncUpsert
  <2>. HIDE DEF row
  <2>2. \A u \in User : TouchedAt(u, row(u))[u] = IF row(u) = users[u] THEN changed[u] ELSE now
    BY <1>2 DEF TouchedAt
  <2>. QED
    BY <1>1, <2>1, <2>2 DEF Stamped
<1>5. CASE SyncDeactivate
    BY <1>1, <1>2, <1>5 DEF SyncDeactivate, Stamped
<1>6. CASE \E b \in BOOLEAN : SetMaintenance(b)
    BY <1>1, <1>2, <1>6 DEF SetMaintenance, Stamped
<1>7. CASE UNCHANGED <<users, changed, maintenance>>
    BY <1>1, <1>7 DEF Stamped
<1>. QED
    BY <1>1, <1>3, <1>4, <1>5, <1>6, <1>7 DEF Elsewhere, DirectoryChanges, SyncFetch, Tick, store

LEMMA RightsElsewhere ==
    ASSUME Typed, RightsInv, Elsewhere
    PROVE  RightsInv'
<1>1. now \in Nat /\ AccessTTL \in Nat
    BY SessionConstants DEF Typed, TypeOK
<1>2. Stamped /\ flight' = flight /\ tabs' = tabs
    BY ElsewhereStamped
<1>3. CASE now' = now
  <2>1. ASSUME NEW g \in F PROVE CarriesRights(g)'
    <3>1. CarriesRights(g) /\ (flight[g].stage \in Entering => flight[g].who \in User)
      BY DEF RightsInv, Typed, Sound
    <3>. QED
      BY <1>2, <1>3, <3>1 DEF Stamped, CarriesRights, Current, Barred
  <2>2. ASSUME NEW x \in Tab PROVE HoldsRights(x)'
    <3>1. HoldsRights(x) /\ tabs[x].access \in AccessState
      BY Rows DEF RightsInv, TabState
    <3>. QED
      BY <1>1, <1>2, <1>3, <3>1 DEF Stamped, HoldsRights, Current, Barred, AccessState
  <2>. QED
    BY <2>1, <2>2 DEF RightsInv
<1>4. CASE Tick
  <2>1. /\ UNCHANGED <<users, changed, maintenance>> /\ now' = now + 1
        /\ \A f \in F : flight[f].kind = "none"
    BY <1>4 DEF Tick, store, F
  <2>2. ASSUME NEW g \in F PROVE CarriesRights(g)'
    BY <1>2, <2>1 DEF CarriesRights, Typed, Sound, Entering
  <2>3. ASSUME NEW x \in Tab PROVE HoldsRights(x)'
    <3>1. HoldsRights(x) /\ tabs[x].access \in AccessState
      BY Rows DEF RightsInv, TabState
    <3>. QED
      BY <1>1, <1>2, <2>1, <3>1 DEF HoldsRights, Current, Barred, AccessState
  <2>. QED
    BY <2>2, <2>3 DEF RightsInv
<1>. QED
    BY <1>3, <1>4 DEF Elsewhere, SetRole, RemoveUser, CreateLocal, SetMaintenance,
       DirectoryChanges, SyncFetch, SyncUpsert, SyncDeactivate

\* A step of Next is one of these.
LEMMA Cases ==
    ASSUME Next
    PROVE  Clients \/ (\E t \in Tab : Unlink(t)) \/ (\E f \in F : Serve(f)) \/ Elsewhere
BY DEF Next, Clients, Elsewhere, F

LEMMA NextRights == Typed /\ RightsInv /\ [Next]_vars => RightsInv'
<1>. SUFFICES ASSUME Typed, RightsInv, [Next]_vars PROVE RightsInv'
    OBVIOUS
<1>1. ASSUME UNCHANGED <<now, users, maintenance, changed, tabs, flight>> PROVE RightsInv'
    BY <1>1, RightsSame, QuietSame DEF RightsInv, SameAccounts
<1>2. CASE UNCHANGED vars
    BY <1>1, <1>2 DEF vars, store, client, history
<1>3. CASE \E t \in Tab : Unlink(t)
    BY <1>1, <1>3 DEF Unlink, client, history
<1>. QED
    BY <1>2, <1>3, Cases, RightsClients, RightsServe, RightsElsewhere

LEMMA InitRights == Init => RightsInv
<1>. SUFFICES ASSUME Init PROVE RightsInv
    OBVIOUS
<1>1. \A f \in F : flight[f].stage = "done"
    BY DEF Init, F, Idle
<1>2. \A t \in Tab : tabs[t].access.user = None
    BY DEF Init, Closed, NoAccess
<1>. QED
    BY <1>1, <1>2 DEF RightsInv, CarriesRights, HoldsRights, Entering

LEMMA RightsHold == Spec => [](Typed /\ RightsInv)
BY InitTyped, NextTyped, InitRights, NextRights, PTL DEF Spec

\* An access token outlives a change of the rights it carries by its own
\* lifetime at most: what a login, a refresh or the MAX launch read some awaits
\* before it signs is the account's, or has changed in this very moment
\* (auth.service.ts: refresh, login, loginViaMax, issueTokens).
THEOREM RightsStayFresh == Spec => []RightsFresh
<1>1. Typed /\ RightsInv => RightsFresh
    BY DEF RightsInv, HoldsRights, RightsFresh, Current
<1>. QED
    BY <1>1, RightsHold, PTL

\* Whoever maintenance shuts out works one access token longer at most, by
\* whatever way they came in (auth.service.ts: assertNotBlockedByMaintenance).
THEOREM MaintenanceShutsOut == Spec => []MaintenanceHolds
<1>1. Typed /\ RightsInv => MaintenanceHolds
    BY DEF RightsInv, HoldsRights, MaintenanceHolds, Barred
<1>. QED
    BY <1>1, RightsHold, PTL

-----------------------------------------------------------------------------
(* Leavers.                                                                 *)

SameDirectory == UNCHANGED <<directory, sync, shut>>

\* A login whose directory answer is still to be written.
Arriving(g) ==
    flight[g].stage = "known" /\ flight[g].who \in Outside => ~flight[g].rights.isStaff

LEMMA LeaversServed ==
    ASSUME Typed, LeaversInv, SameDirectory, NEW f \in F,
           \A g \in F \ {f} : flight'[g] = flight[g],
           Quiet(f) \/ flight'[f].stage # "known",
           \A u \in User : \/ users'[u] = users[u]
                          \/ /\ ~users'[u].row => ~users'[u].isStaff
                             /\ u \in Outside => ~users'[u].isStaff
    PROVE  LeaversInv'
<1>1. \A g \in F : Arriving(g)
    BY DEF LeaversInv, Arriving
<1>2. \A g \in F : Arriving(g)'
  <2>1. \A g \in F : \/ flight'[g].stage # "known"
                     \/ \E h \in BOOLEAN : flight'[g] = [flight[g] EXCEPT !.heard = h]
    BY QuietSame DEF Quiet
  <2>2. ASSUME NEW g \in F, NEW h \in BOOLEAN, flight'[g] = [flight[g] EXCEPT !.heard = h]
        PROVE  /\ flight'[g].stage = flight[g].stage /\ flight'[g].who = flight[g].who
               /\ flight'[g].rights = flight[g].rights
    BY <2>2, Rows DEF FlightState
  <2>. QED
    BY <1>1, <2>1, <2>2 DEF Arriving, Outside, SameDirectory
<1>3. LeaverShutOut'
    BY DEF LeaversInv, LeaverShutOut, SameDirectory, Outside, Typed, TypeOK
<1>. QED
    BY <1>2, <1>3 DEF LeaversInv, SameDirectory, Outside, Arriving

LEMMA LeaversServe ==
    ASSUME Typed, LeaversInv, NEW f \in F, Serve(f)
    PROVE  LeaversInv'
<1>1. SameDirectory
    BY DEF Serve, RefreshCheck, RefreshSpend, VerifyCredentials, UpsertFromLdap, LoginViaMax,
           LinkCheck, LinkWrite, IssueTokens, RevokeToken, SameDirectory, outside
<1>2. CASE UpsertFromLdap(f)
  <2>. DEFINE u == flight[f].who
              row == Upserted(u, flight[f].rights.isStaff)
  <2>1. /\ u \in User /\ users' = [users EXCEPT ![u] = row] /\ flight[f].stage = "known"
        /\ flight[f].rights.isStaff \in BOOLEAN
        /\ flight[f].kind \in {"login", "link"}
        /\ \/ MovesOn(f, "granted", u, row)
           \/ Refuses(f)
    BY <1>2, UpsertFromLdapStep
  <2>2. row.row /\ row.isStaff = flight[f].rights.isStaff
    BY <2>1, UpsertedRow
  <2>3. u \in Outside => ~row.isStaff
    BY <2>1, <2>2 DEF LeaversInv
  <2>. HIDE DEF row
  <2>4. \A v \in User : users'[v] = (IF v = u THEN row ELSE users[v])
    BY <2>1 DEF Typed, TypeOK
  <2>5. /\ \A g \in F \ {f} : flight'[g] = flight[g]
        /\ flight'[f].stage # "known"
    BY <2>1, RefusesTyped DEF MovesOn
  <2>. QED
    BY <1>1, <2>2, <2>3, <2>4, <2>5, LeaversServed
<1>3. ASSUME users' = users, \A g \in F \ {f} : flight'[g] = flight[g],
             Quiet(f) \/ flight'[f].stage # "known"
      PROVE  LeaversInv'
    BY <1>1, <1>3, LeaversServed
<1>4. CASE VerifyCredentials(f)
  <2>. DEFINE u == flight[f].who
  <2>1. /\ users' = users /\ u \in User /\ flight[f].kind \in {"login", "link"}
        /\ \/ Refuses(f)
           \/ MovesOn(f, "granted", u, users[u])
           \/ /\ u \notin Local
              /\ \E r \in Row : r.isStaff = IsStaffMember(u) /\ MovesOn(f, "known", u, r)
    BY <1>4, VerifyCredentialsStep DEF VerifyCredentials, store
  <2>2. CASE Refuses(f) \/ MovesOn(f, "granted", u, users[u])
    <3>1. (\A g \in F \ {f} : flight'[g] = flight[g]) /\ flight'[f].stage # "known"
      BY <2>1, <2>2, RefusesTyped DEF MovesOn
    <3>. QED
      BY <1>3, <2>1, <3>1
  <2>3. CASE u \notin Local /\ \E r \in Row : /\ r.isStaff = IsStaffMember(u)
                                             /\ MovesOn(f, "known", u, r)
    <3>1. /\ \A g \in F \ {f} : flight'[g] = flight[g]
          /\ flight'[f].who = u /\ flight'[f].rights.isStaff = IsStaffMember(u)
      BY <2>3 DEF MovesOn
    <3>0. Outside' = Outside
      BY <1>1 DEF SameDirectory, Outside
    <3>2. \A g \in F : Arriving(g)'
      <4>1. \A g \in F \ {f} : Arriving(g)'
        BY <3>0, <3>1 DEF LeaversInv, Arriving
      <4>2. u \in Outside => ~IsStaffMember(u)
        BY DEF LeaversInv, IsStaffMember
      <4>3. Arriving(f)'
        BY <3>0, <3>1, <4>2 DEF Arriving
      <4>. QED
        BY <4>1, <4>3
    <3>. QED
      BY <1>1, <2>1, <3>2 DEF LeaversInv, SameDirectory, Outside, Arriving, LeaverShutOut
  <2>. QED
    BY <2>1, <2>2, <2>3
<1>5. CASE RefreshCheck(f)
  <2>1. /\ users' = users /\ \A g \in F \ {f} : flight'[g] = flight[g]
        /\ flight'[f].stage # "known"
    BY <1>5, RefreshCheckStep, RefusesTyped DEF RefreshCheck, At, store, MovesOn
  <2>. QED
    BY <1>3, <2>1
<1>6. CASE RefreshSpend(f)
  <2>1. /\ users' = users /\ \A g \in F \ {f} : flight'[g] = flight[g]
        /\ flight'[f].stage # "known"
    BY <1>6, RefreshSpendStep, RefusesTyped DEF RefreshSpend, MovesOn
  <2>. QED
    BY <1>3, <2>1
<1>7. CASE LoginViaMax(f)
  <2>1. /\ users' = users /\ \A g \in F \ {f} : flight'[g] = flight[g]
        /\ flight'[f].stage # "known"
    BY <1>7, LoginViaMaxStep, RefusesTyped DEF LoginViaMax, store, MovesOn
  <2>. QED
    BY <1>3, <2>1
<1>8. CASE LinkCheck(f)
  <2>1. /\ users' = users /\ \A g \in F \ {f} : flight'[g] = flight[g]
        /\ flight'[f].stage # "known"
    BY <1>8, LinkCheckStep, RefusesTyped DEF LinkCheck, store, MovesOn
  <2>. QED
    BY <1>3, <2>1
<1>9. CASE LinkWrite(f)
  <2>1. /\ users' = users /\ \A g \in F \ {f} : flight'[g] = flight[g]
        /\ flight'[f].stage # "known"
    BY <1>9, LinkWriteStep, RefusesTyped DEF LinkWrite, MovesOn
  <2>. QED
    BY <1>3, <2>1
<1>10. CASE IssueTokens(f)
  <2>1. /\ users' = users /\ \A g \in F \ {f} : flight'[g] = flight[g]
        /\ flight'[f].stage # "known"
    BY <1>10, IssueTokensStep, RefusesTyped DEF IssueTokens, Issues
  <2>. QED
    BY <1>3, <2>1
<1>11. CASE RevokeToken(f)
  <2>1. users' = users /\ (\A g \in F \ {f} : flight'[g] = flight[g]) /\ Quiet(f)
    BY <1>11, RevokeTokenStep DEF RevokeToken
  <2>. QED
    BY <1>3, <2>1
<1>. QED
    BY <1>2, <1>4, <1>5, <1>6, <1>7, <1>8, <1>9, <1>10, <1>11 DEF Serve

LEMMA LeaversElsewhere ==
    ASSUME Typed, LeaversInv, Elsewhere
    PROVE  LeaversInv'
<1>1. flight' = flight
    BY ElsewhereStamped
<1>2. /\ users \in [User -> Row] /\ directory \in [User \ Local -> Entry]
      /\ sync.outside \subseteq User /\ sync.members \subseteq User
      /\ shut \subseteq User
    BY DEF Typed, TypeOK
<1>3. Local \subseteq User /\ \A g \in F : Arriving(g)
    BY SessionConstants DEF LeaversInv, Arriving
\* Only rows of the table of users change, and none of somebody outside.
<1>4. ASSUME SameDirectory,
             \A u \in User : \/ users'[u] = users[u]
                            \/ /\ ~users'[u].row => ~users'[u].isStaff
                               /\ u \in Outside => ~(users'[u].isStaff /\ users'[u].isActive)
      PROVE  LeaversInv'
  <2>1. LeaverShutOut'
    BY <1>2, <1>4 DEF LeaversInv, LeaverShutOut, SameDirectory, Outside
  <2>. QED
    BY <1>1, <1>2, <1>4, <2>1 DEF LeaversInv, SameDirectory, Outside
<1>5. ASSUME NEW u \in User, NEW r \in Role, SetRole(u, r) PROVE LeaversInv'
  <2>. DEFINE row == [users[u] EXCEPT !.role = r]
  <2>1. /\ row.row = users[u].row /\ row.isStaff = users[u].isStaff
        /\ row.isActive = users[u].isActive
    BY <1>2 DEF Row
  <2>2. SameDirectory /\ users' = [users EXCEPT ![u] = row]
    BY <1>5 DEF SetRole, SameDirectory, outside
  <2>. HIDE DEF row
  <2>3. \A v \in User : users'[v] = (IF v = u THEN row ELSE users[v])
    BY <1>2, <2>2
  <2>4. (~row.row => ~row.isStaff)
    BY <1>2, <2>1 DEF LeaversInv
  <2>5. UNCHANGED <<shut, directory, sync>>
    BY <2>2 DEF SameDirectory
  <2>6. LeaverShutOut'
    BY <1>2, <2>1, <2>3, <2>5 DEF LeaversInv, LeaverShutOut
  <2>. QED
    BY <1>1, <1>2, <2>3, <2>4, <2>5, <2>6 DEF LeaversInv, Outside
<1>6. ASSUME NEW u \in User, RemoveUser(u) PROVE LeaversInv'
  <2>1. SameDirectory /\ users' = [users EXCEPT ![u] = NoRow]
        /\ ~NoRow.isStaff
    BY <1>6 DEF RemoveUser, SameDirectory, outside, NoRow
  <2>. QED
    BY <1>2, <1>4, <2>1
<1>7. ASSUME NEW u \in User, CreateLocal(u) PROVE LeaversInv'
  <2>1. PICK r \in Role : users' = [users EXCEPT ![u] = StaffRow(r)]
    BY <1>7 DEF CreateLocal
  <2>2. SameDirectory /\ u \in Local /\ StaffRow(r).row
    BY <1>7 DEF CreateLocal, SameDirectory, outside, StaffRow
  <2>3. u \notin Outside
    BY <2>2 DEF LeaversInv
  <2>. QED
    BY <1>2, <1>4, <2>1, <2>2, <2>3
<1>8. CASE \E b \in BOOLEAN : SetMaintenance(b)
    BY <1>4, <1>8 DEF SetMaintenance, SameDirectory, outside
<1>9. ASSUME NEW u \in User \ Local, NEW e \in Entry, DirectoryChanges(u, e)
      PROVE  LeaversInv'
  <2>1. /\ users' = users /\ directory' = [directory EXCEPT ![u] = e]
        /\ sync'.members = sync.members
        /\ Outside' \subseteq Outside /\ shut' \subseteq shut
        /\ e = "staff" => u \notin Outside'
    BY <1>9 DEF DirectoryChanges, store, Outside, Typed, TypeOK
  <2>2. \A v \in Outside' : directory'[v] # "staff"
    BY <1>2, <2>1 DEF LeaversInv
  <2>3. \A g \in F : Arriving(g)'
    BY <1>1, <1>3, <2>1 DEF Arriving
  <2>. QED
    BY <1>1, <2>1, <2>2, <2>3 DEF LeaversInv, Arriving, LeaverShutOut
<1>10. CASE SyncFetch
  <2>. DEFINE members == StaffGroupMembers
              arriving == {flight[f].who : f \in {g \in F : flight[g].stage = "known"}}
  <2>1. /\ users' = users /\ directory' = directory /\ shut' = shut
        /\ sync'.members = members
        /\ sync'.outside = (User \ Local) \ (members \cup arriving)
    BY <1>10 DEF SyncFetch, store, F
  <2>2. \A g \in F : flight[g].stage = "known" => flight[g].who \in arriving
    OBVIOUS
  <2>. HIDE DEF arriving
  <2>3. members = {u \in User \ Local : directory[u] = "staff"}
    BY DEF StaffGroupMembers, IsStaffMember
  <2>. HIDE DEF members
  <2>4. /\ Outside' \subseteq User \ Local /\ Outside' \cap sync'.members = {}
        /\ \A u \in Outside' : directory'[u] # "staff"
    BY <2>1, <2>3 DEF LeaversInv, Outside
  <2>5. \A g \in F : Arriving(g)'
    BY <1>1, <1>3, <2>1, <2>2 DEF Arriving, Outside
  <2>. QED
    BY <1>1, <2>1, <2>4, <2>5 DEF LeaversInv, Arriving, LeaverShutOut
<1>11. CASE SyncUpsert
  <2>. DEFINE row(u) == IF u \in sync.members THEN Upserted(u, TRUE) ELSE users[u]
  <2>1. /\ users' = [u \in User |-> row(u)] /\ UNCHANGED <<directory, shut>>
        /\ sync'.members = sync.members /\ sync'.outside = sync.outside
    BY <1>11 DEF SyncUpsert, Typed, TypeOK
  <2>2. \A u \in User : (~row(u).row => ~row(u).isStaff)
    BY UpsertedRow DEF LeaversInv
  <2>3. \A u \in Outside : row(u) = users[u]
    BY DEF LeaversInv
  <2>. HIDE DEF row
  <2>4. LeaverShutOut'
    BY <1>2, <2>1, <2>3 DEF LeaversInv, LeaverShutOut, Outside
  <2>. QED
    BY <1>1, <2>1, <2>2, <2>4 DEF LeaversInv, Outside
<1>12. CASE SyncDeactivate
  <2>. DEFINE off(u) == [users[u] EXCEPT !.isActive = FALSE, !.isStaff = FALSE]
  <2>1. \A u \in User : ~off(u).isStaff
    BY <1>2 DEF Row
  <2>2. /\ users' = [u \in User |-> IF u \in StaleStaff THEN off(u) ELSE users[u]]
        /\ directory' = directory /\ sync'.members = {} /\ sync'.outside = {}
        /\ shut' = shut \cup sync.outside
    BY <1>12 DEF SyncDeactivate
  <2>. HIDE DEF off
  <2>3. \A u \in User : ~users'[u].row => ~users'[u].isStaff
    BY <2>1, <2>2 DEF LeaversInv
  <2>4. \A u \in Outside : u \in StaleStaff \/ ~(users[u].isStaff /\ users[u].isActive)
    BY <1>2 DEF LeaversInv, StaleStaff, Outside
  <2>5. LeaverShutOut'
    BY <1>2, <2>1, <2>2, <2>4 DEF LeaverShutOut, Outside
  <2>6. Outside' = Outside
    BY <2>2 DEF Outside
  <2>. QED
    BY <1>1, <2>2, <2>3, <2>5, <2>6 DEF LeaversInv
<1>13. CASE Tick
    BY <1>4, <1>13 DEF Tick, SameDirectory, outside, store
<1>. QED
    BY <1>5, <1>6, <1>7, <1>8, <1>9, <1>10, <1>11, <1>12, <1>13 DEF Elsewhere

LEMMA NextLeavers == Typed /\ LeaversInv /\ [Next]_vars => LeaversInv'
<1>. SUFFICES ASSUME Typed, LeaversInv, [Next]_vars PROVE LeaversInv'
    OBVIOUS
<1>1. ASSUME UNCHANGED <<users, directory, sync, shut, flight>> PROVE LeaversInv'
    BY <1>1 DEF LeaversInv, Outside, LeaverShutOut
<1>2. CASE UNCHANGED vars
    BY <1>1, <1>2 DEF vars, store, outside
<1>3. CASE \E t \in Tab : Unlink(t)
    BY <1>1, <1>3 DEF Unlink, outside
<1>4. CASE Clients
  <2>1. UNCHANGED <<users, directory, sync, shut>> /\ \A g \in F : Quiet(g)
    BY <1>4, ClientsStep DEF store, outside
  <2>2. ASSUME NEW g \in F, flight'[g].stage = "known"
        PROVE  /\ flight'[g].stage = flight[g].stage /\ flight'[g].who = flight[g].who
               /\ flight'[g].rights = flight[g].rights
    BY <2>1, <2>2, Rows DEF Quiet, FlightState
  <2>. QED
    BY <2>1, <2>2 DEF LeaversInv, Outside, LeaverShutOut
<1>. QED
    BY <1>2, <1>3, <1>4, Cases, LeaversServe, LeaversElsewhere

LEMMA InitLeavers == Init => LeaversInv
<1>. SUFFICES ASSUME Init PROVE LeaversInv
    OBVIOUS
<1>1. \A f \in F : flight[f].stage = "done"
    BY DEF Init, F, Idle
<1>2. \A u \in User : ~users[u].row => ~users[u].isStaff
    BY DEF Init, StaffRow, NoRow
<1>. QED
    BY <1>1, <1>2 DEF Init, LeaversInv, Outside, LeaverShutOut

\* Whoever was outside the staff group all through a synchronisation stays
\* without an active staff row: no login that was answered before, nor the list
\* of members fetched before, brings them back (ldap-sync.service.ts:
\* syncFromLdap; users.service.ts: upsertFromLdap).
THEOREM LeaversStayOut == Spec => []LeaverShutOut
<1>1. LeaversInv => LeaverShutOut
    BY DEF LeaversInv
<1>. QED
    BY <1>1, InitTyped, NextTyped, InitLeavers, NextLeavers, PTL DEF Spec

-----------------------------------------------------------------------------
(* What a tab shows, and what its calls wait for.                           *)

Waits(t) == tabs[t].wait # {} => flight[<<t, "session">>].kind = "refresh"

ShownInv == \A t \in Tab : Waits(t) /\ Shows(t)

\* The session request of a tab, before and after a step.
S(t) == flight[<<t, "session">>]

UserOf(i) == refreshTokens[i].user
UserAfter(i) == refreshTokens'[i].user

\* A tab that keeps what it shows, or becomes mixed, while its session request
\* stays, is refused, or leaves.
LEMMA ShownKept ==
    ASSUME Typed, ShownInv, NEW x \in Tab,
           \A i \in Tokens : UserAfter(i) = UserOf(i),
           /\ tabs'[x].launch = tabs[x].launch /\ tabs'[x].user = tabs[x].user
           /\ tabs'[x].by = tabs[x].by /\ tabs'[x].access = tabs[x].access
           /\ tabs'[x].wait = tabs[x].wait,
           tabs[x].mixed => tabs'[x].mixed,
           \/ S(x)'.kind = "none" /\ S(x).kind # "refresh"
           \/ /\ S(x)'.kind = S(x).kind
              /\ S(x)'.token # 0 /\ S(x).kind = "refresh" =>
                    S(x).token # 0 /\ UserAfter(S(x)'.token) = UserOf(S(x).token),
           \/ cookie' = cookie
           \/ cookie' = 0
           \/ UserAfter(cookie') = tabs[x].user \/ tabs[x].user = None \/ tabs'[x].mixed
    PROVE  (Waits(x) /\ Shows(x))'
<1>1. Waits(x) /\ Shows(x)
    BY DEF ShownInv
<1>2. Waits(x)'
    BY <1>1 DEF Waits, S
<1>3. cookie # 0 => cookie \in Tokens
    BY Rows DEF Typed, TypeOK, Tokens
<1>4. Shows(x)'
  <2>1. S(x)'.kind = "restore" => S(x).kind = "restore"
    OBVIOUS
  <2>2. S(x)'.kind = "refresh" => S(x).kind = "refresh"
    OBVIOUS
  <2>3. (S(x).kind = "restore" =>
            tabs[x].launch = "web" /\ (tabs[x].mixed \/ tabs[x].by = None))'
    BY <1>1, <2>1 DEF Shows, S
  <2>4. CASE tabs'[x].user # None /\ ~tabs'[x].mixed
    <3>1. /\ tabs[x].access.user \in {tabs[x].user, None}
          /\ tabs[x].by \in {tabs[x].user, None}
          /\ cookie # 0 => UserOf(cookie) = tabs[x].user
          /\ S(x).kind = "refresh" /\ S(x).token # 0 => UserOf(S(x).token) = tabs[x].user
      BY <1>1, <2>4 DEF Shows, S, UserOf, UserAfter
    <3>2. cookie' # 0 => UserAfter(cookie') = tabs[x].user
      BY <1>3, <2>4, <3>1
    <3>. QED
      BY <2>2, <2>3, <2>4, <3>1, <3>2 DEF Shows, S, UserOf, UserAfter
  <2>5. CASE ~(tabs'[x].user # None /\ ~tabs'[x].mixed)
    BY <2>3, <2>5 DEF Shows, S
  <2>. QED
    BY <2>4, <2>5
<1>. QED
    BY <1>2, <1>4

LEMMA ShownServe ==
    ASSUME Typed, ShownInv, NEW f \in F, Serve(f)
    PROVE  ShownInv'
<1>1. tabs' = tabs /\ cookie' = cookie
    BY DEF Serve, RefreshCheck, RefreshSpend, VerifyCredentials, UpsertFromLdap, LoginViaMax,
           LinkCheck, LinkWrite, IssueTokens, RevokeToken, client
<1>2. ASSUME \A i \in Tokens : UserAfter(i) = UserOf(i),
             \A g \in F \ {f} : flight'[g] = flight[g],
             flight'[f].kind = flight[f].kind,
             \/ flight'[f].token = 0
             \/ flight'[f].token = flight[f].token
             \/ flight[f].kind = "refresh" =>
                   flight[f].token # 0 /\ UserAfter(flight'[f].token) = UserOf(flight[f].token)
      PROVE  ShownInv'
  <2>1. ASSUME NEW x \in Tab PROVE (Waits(x) /\ Shows(x))'
    <3>1. <<x, "session">> \in F
      BY Slots
    <3>2. S(x)'.kind = S(x).kind
      BY <1>2, <3>1 DEF S
    <3>3. S(x)'.token # 0 /\ S(x).kind = "refresh" =>
             S(x).token # 0 /\ UserAfter(S(x)'.token) = UserOf(S(x).token)
      <4>1. S(x).token # 0 => S(x).token \in Tokens
        BY <3>1, Rows DEF S, FlightState, Tokens
      <4>. QED
        BY <1>2, <3>1, <4>1 DEF S
    <3>. QED
      BY <1>1, <1>2, <3>2, <3>3, ShownKept
  <2>. QED
    BY <2>1 DEF ShownInv
<1>3. SameRows => \A i \in Tokens : UserAfter(i) = UserOf(i)
    BY DEF SameRows, UserOf, UserAfter
<1>4. refreshTokens' = refreshTokens => \A i \in Tokens : UserAfter(i) = UserOf(i)
    BY DEF UserOf, UserAfter
<1>5. ASSUME flight[f].kind # "none", Refuses(f)
      PROVE  /\ \A g \in F \ {f} : flight'[g] = flight[g]
             /\ flight'[f].kind = flight[f].kind /\ flight'[f].token = 0
  <2>1. flight'[f] = RefusedOf(flight[f])
    BY <1>5, Rows DEF Refuses
  <2>. QED
    BY <1>5, <2>1, RefusesTyped DEF RefusedOf, Idle
<1>6. CASE RefreshCheck(f)
    BY <1>2, <1>4, <1>5, <1>6, RefreshCheckStep DEF RefreshCheck, At, store, MovesOn
<1>7. CASE RefreshSpend(f)
    BY <1>2, <1>3, <1>5, <1>7, RefreshSpendStep DEF MovesOn
<1>8. CASE VerifyCredentials(f)
    BY <1>2, <1>4, <1>5, <1>8, VerifyCredentialsStep DEF VerifyCredentials, store, MovesOn
<1>9. CASE UpsertFromLdap(f)
    BY <1>2, <1>3, <1>5, <1>9, UpsertFromLdapStep DEF MovesOn
<1>10. CASE LoginViaMax(f)
    BY <1>2, <1>4, <1>5, <1>10, LoginViaMaxStep DEF LoginViaMax, store, MovesOn
<1>11. CASE LinkCheck(f)
    BY <1>2, <1>4, <1>5, <1>11, LinkCheckStep DEF LinkCheck, store, MovesOn
<1>12. CASE LinkWrite(f)
    BY <1>2, <1>4, <1>5, <1>12, LinkWriteStep DEF LinkWrite, MovesOn
<1>13. CASE IssueTokens(f)
  <2>1. CASE Refuses(f) /\ UNCHANGED refreshTokens
    BY <1>2, <1>4, <1>5, <1>13, <2>1, IssueTokensStep
  <2>2. CASE Issues(f)
    <3>1. flight[f].kind = "refresh" =>
             flight[f].token # 0 /\ UserOf(flight[f].token) = flight[f].who
      BY <1>13, IssueTokensStep DEF ReadyToIssue, At, Typed, Sound, UserOf
    <3>2. \A i \in Tokens : UserAfter(i) = UserOf(i)
      BY <2>2 DEF Issues, UserOf, UserAfter
    <3>3. UserAfter(flight'[f].token) = flight[f].who
      BY <2>2 DEF Issues, UserOf, UserAfter
    <3>. QED
      BY <1>2, <2>2, <3>1, <3>2, <3>3 DEF Issues
  <2>. QED
    BY <1>13, <2>1, <2>2, IssueTokensStep
<1>14. CASE RevokeToken(f)
  <2>1. flight'[f].kind = flight[f].kind
    <3>1. CASE Refuses(f)
      BY <1>5, <1>14, <3>1, RevokeTokenStep
    <3>2. CASE To(f, "done")
      BY <3>2, Rows DEF To, FlightState
    <3>. QED
      BY <1>14, <3>1, <3>2 DEF RevokeToken, Refuse, Refuses, RefusedOf
  <2>. QED
    BY <1>2, <1>3, <1>14, <2>1, RevokeTokenStep
<1>. QED
    BY <1>6, <1>7, <1>8, <1>9, <1>10, <1>11, <1>12, <1>13, <1>14 DEF Serve

\* The same, for a tab no step touches.
LEMMA ShownSame ==
    ASSUME Typed, ShownInv, NEW x \in Tab, refreshTokens' = refreshTokens,
           tabs'[x] = tabs[x], cookie' = cookie \/ cookie' = 0,
           \/ S(x)' = S(x)
           \/ S(x)'.kind = "none" /\ S(x).kind # "refresh"
           \/ S(x)'.kind = S(x).kind /\ S(x)'.token = 0
    PROVE  (Waits(x) /\ Shows(x))'
<1>1. \A i \in Tokens : UserAfter(i) = UserOf(i)
    BY DEF UserAfter, UserOf
<1>2. S(x)'.token # 0 /\ S(x).kind = "refresh" /\ S(x)' = S(x) =>
         S(x).token # 0 /\ UserAfter(S(x)'.token) = UserOf(S(x).token)
    BY DEF UserAfter, UserOf
<1>. QED
    BY <1>1, <1>2, ShownKept

\* Another user's answer takes the cookie: who shows somebody else is mixed.
LEMMA ShownMixed ==
    ASSUME Typed, ShownInv, NEW x \in Tab, NEW f \in F, refreshTokens' = refreshTokens,
           flight[f].stage = "issued", cookie' = flight[f].token,
           tabs'[x] = Mixed(flight[f].who)[x], S(x)' = S(x)
    PROVE  (Waits(x) /\ Shows(x))'
<1>. DEFINE u == flight[f].who
<1>1. flight[f].token # 0 /\ UserOf(flight[f].token) = u
    BY DEF Typed, Sound, UserOf
<1>2. UserAfter(cookie') = u /\ \A i \in Tokens : UserAfter(i) = UserOf(i)
    BY <1>1 DEF UserAfter, UserOf
<1>3. S(x)'.token # 0 /\ S(x).kind = "refresh" =>
         S(x).token # 0 /\ UserAfter(S(x)'.token) = UserOf(S(x).token)
    BY DEF UserAfter, UserOf
<1>4. \/ UserAfter(cookie') = tabs[x].user \/ tabs[x].user = None \/ tabs'[x].mixed
    BY <1>2, MixedFields
<1>5. /\ tabs'[x].launch = tabs[x].launch /\ tabs'[x].user = tabs[x].user
      /\ tabs'[x].by = tabs[x].by /\ tabs'[x].access = tabs[x].access
      /\ tabs'[x].wait = tabs[x].wait
      /\ tabs[x].mixed => tabs'[x].mixed
    BY MixedFields
<1>. QED
    BY <1>2, <1>3, <1>4, <1>5, ShownKept

\* A tab that shows nobody: after a page load, or a logout.
LEMMA ShownEmpty ==
    ASSUME NEW x, tabs'[x].user = None, Waits(x)',
           S(x)'.kind = "restore" => tabs'[x].launch = "web" /\ tabs'[x].by = None
    PROVE  (Waits(x) /\ Shows(x))'
BY DEF Shows, S

LEMMA ShownLetIn ==
    ASSUME Typed, ShownInv, NEW t \in Tab, LetIn(t)
    PROVE  ShownInv'
<1>. DEFINE f == <<t, "form">>
            u == flight[f].who
            let == [tabs[t] EXCEPT !.page = "in", !.user = u, !.by = u,
                                   !.access = Signs(t, f), !.mixed = @ \/ Overtaken(t)]
<1>1. /\ f \in F /\ flight[f].stage = "issued" /\ cookie' = flight[f].token
      /\ refreshTokens' = refreshTokens /\ flight' = [flight EXCEPT ![f] = Idle]
    BY Slots DEF LetIn, store
<1>2. \A x \in Tab : <<x, "session">> \in F /\ <<x, "session">> # f
    BY Slots
<1>3. \A x \in Tab : S(x)' = S(x)
    BY <1>1, <1>2, Rows DEF S
<1>4. CASE tabs' = Mixed(u)
    BY <1>1, <1>3, <1>4, ShownMixed DEF ShownInv
<1>5. CASE tabs' = [Mixed(u) EXCEPT ![t] = let]
  <2>1. /\ let.user = u /\ let.by = u /\ let.access.user = u /\ let.wait = tabs[t].wait
        /\ let.launch = tabs[t].launch
        /\ let.mixed <=> tabs[t].mixed \/ Overtaken(t)
    BY ZenonT(40), Rows DEF TabState, Signs, Access
  <2>. HIDE DEF let
  <2>2. tabs'[t] = let /\ \A x \in Tab \ {t} : tabs'[x] = Mixed(u)[x]
    BY <1>5, MixedFields
  <2>3. \A x \in Tab \ {t} : (Waits(x) /\ Shows(x))'
    BY <1>1, <1>3, <2>2, ShownMixed
  <2>4. Waits(t) /\ Shows(t) /\ (S(t).kind \in {"restore", "refresh"} => S(t).kind = "restore" \/ Overtaken(t))
    BY DEF ShownInv, Overtaken, S
  <2>5. Waits(t)'
    BY <1>3, <2>1, <2>2, <2>4 DEF Waits, S
  <2>6. S(t).kind = "restore" => tabs[t].launch = "web" /\ Overtaken(t)
    BY <2>4 DEF Shows, S, Overtaken
  <2>7. flight[f].token # 0 /\ refreshTokens[flight[f].token].user = u
    BY <1>1 DEF Typed, Sound
  <2>8. Shows(t)'
    BY <1>1, <1>3, <2>1, <2>2, <2>4, <2>6, <2>7 DEF Shows, S
  <2>. QED
    BY <2>3, <2>5, <2>8 DEF ShownInv
<1>. QED
    BY <1>4, <1>5 DEF LetIn

LEMMA ShownRestored ==
    ASSUME Typed, ShownInv, NEW t \in Tab, Restored(t)
    PROVE  ShownInv'
<1>. DEFINE f == <<t, "session">>
            u == flight[f].who
            let == [tabs[t] EXCEPT !.page = "in", !.user = u, !.access = Signs(t, f)]
<1>1. /\ f \in F /\ flight[f].stage = "issued" /\ cookie' = flight[f].token
      /\ flight[f].kind = "restore"
      /\ refreshTokens' = refreshTokens /\ flight' = [flight EXCEPT ![f] = Idle]
      /\ tabs' = [Mixed(u) EXCEPT ![t] = let]
    BY Slots DEF Restored, store
<1>2. \A x \in Tab : <<x, "session">> \in F /\ (x # t => <<x, "session">> # f)
    BY Slots
<1>3. S(t)'.kind = "none" /\ \A x \in Tab \ {t} : S(x)' = S(x)
    BY <1>1, <1>2, Rows DEF S, Idle
<1>4. /\ let.user = u /\ let.by = tabs[t].by /\ let.access.user = u
      /\ let.wait = tabs[t].wait /\ let.launch = tabs[t].launch
      /\ let.mixed <=> tabs[t].mixed
    BY Rows DEF TabState, Signs, Access
<1>. HIDE DEF let
<1>5. tabs'[t] = let /\ \A x \in Tab \ {t} : tabs'[x] = Mixed(u)[x]
    BY <1>1, MixedFields
<1>6. \A x \in Tab \ {t} : (Waits(x) /\ Shows(x))'
    BY <1>1, <1>3, <1>5, ShownMixed
<1>7. tabs[t].wait = {} /\ (tabs[t].mixed \/ tabs[t].by = None)
    BY <1>1 DEF ShownInv, Waits, Shows
<1>8. Waits(t)'
    BY <1>4, <1>5, <1>7 DEF Waits
<1>9. flight[f].token # 0 /\ refreshTokens[flight[f].token].user = u
    BY <1>1 DEF Typed, Sound
<1>10. Shows(t)'
    BY <1>1, <1>3, <1>4, <1>5, <1>7, <1>9 DEF Shows, S
<1>. QED
    BY <1>6, <1>8, <1>10 DEF ShownInv

LEMMA ShownRefreshed ==
    ASSUME Typed, ShownInv, NEW t \in Tab, Refreshed(t)
    PROVE  ShownInv'
<1>. DEFINE f == <<t, "session">>
            u == flight[f].who
            let == [tabs[t] EXCEPT !.access = Signs(t, f), !.wait = {}]
<1>1. /\ f \in F /\ flight[f].stage = "issued" /\ cookie' = flight[f].token
      /\ flight[f].kind = "refresh"
      /\ refreshTokens' = refreshTokens /\ flight' = [flight EXCEPT ![f] = Idle]
      /\ tabs' = [Mixed(u) EXCEPT ![t] = let]
    BY Slots DEF Refreshed, store
<1>2. \A x \in Tab : <<x, "session">> \in F /\ (x # t => <<x, "session">> # f)
    BY Slots
<1>3. S(t)'.kind = "none" /\ \A x \in Tab \ {t} : S(x)' = S(x)
    BY <1>1, <1>2, Rows DEF S, Idle
<1>4. /\ let.user = tabs[t].user /\ let.by = tabs[t].by /\ let.access.user = u
      /\ let.wait = {} /\ let.launch = tabs[t].launch
      /\ let.mixed <=> tabs[t].mixed
    BY Rows DEF TabState, Signs, Access
<1>. HIDE DEF let
<1>5. tabs'[t] = let /\ \A x \in Tab \ {t} : tabs'[x] = Mixed(u)[x]
    BY <1>1, MixedFields
<1>6. \A x \in Tab \ {t} : (Waits(x) /\ Shows(x))'
    BY <1>1, <1>3, <1>5, ShownMixed
<1>7. Waits(t)'
    BY <1>4, <1>5 DEF Waits
<1>8. flight[f].token # 0 /\ refreshTokens[flight[f].token].user = u
    BY <1>1 DEF Typed, Sound
<1>9. tabs[t].user # None /\ ~tabs[t].mixed =>
         /\ tabs[t].by \in {tabs[t].user, None} /\ u = tabs[t].user
    BY <1>1, <1>8 DEF ShownInv, Shows
<1>10. Shows(t)'
    BY <1>1, <1>3, <1>4, <1>5, <1>8, <1>9 DEF Shows, S
<1>. QED
    BY <1>6, <1>7, <1>10 DEF ShownInv

LEMMA ShownFailed ==
    ASSUME Typed, ShownInv, NEW t \in Tab, NEW s \in Slot, Failed(t, s),
           flight[<<t, s>>].kind # "none", refreshTokens' = refreshTokens
    PROVE  ShownInv'
<1>. DEFINE f == <<t, s>>
            a == <<t, "session">>
            b == <<t, "form">>
<1>1. /\ f \in F /\ a \in F /\ b \in F /\ a # b /\ s \in {"session", "form"}
      /\ \A x \in Tab : <<x, "session">> \in F /\ <<x, "session">> # b
      /\ \A x \in Tab \ {t} : <<x, "session">> \notin {a, f}
    BY Slots DEF Slot
<1>2. cookie' = cookie /\ DOMAIN tabs = Tab /\ DOMAIN flight = F
    BY Rows DEF Failed
<1>3. ASSUME \A x \in Tab \ {t} : tabs'[x] = tabs[x] /\ S(x)' = S(x),
             (Waits(t) /\ Shows(t))'
      PROVE  ShownInv'
    BY <1>2, <1>3, ShownSame DEF ShownInv
<1>4. Waits(t) /\ Shows(t)
    BY DEF ShownInv
<1>5. CASE /\ tabs' = [tabs EXCEPT ![t] = Out(t)] /\ flight' = [flight EXCEPT ![f] = Idle]
           /\ flight[f].kind # "refresh"
  <2>1. /\ tabs'[t] = Out(t)
        /\ \A x \in Tab \ {t} : tabs'[x] = tabs[x] /\ S(x)' = S(x)
        /\ \/ s = "session" /\ S(t)' = Idle
           \/ S(t)' = S(t)
    BY <1>1, <1>2, <1>5 DEF S
  <2>2. Idle.kind = "none"
    BY DEF Idle
  <2>3. S(t).kind = "restore" => tabs[t].launch = "web"
    BY <1>4 DEF Shows, S
  <2>4. S(t)' = Idle => tabs[t].wait = {}
    BY <1>1, <1>4, <1>5, <2>1, <2>2 DEF Waits, S
  <2>5. Waits(t)'
    BY <1>4, <2>1, <2>4, OutFields DEF Waits, S
  <2>6. (Waits(t) /\ Shows(t))'
    BY <2>1, <2>2, <2>3, <2>5, OutFields, ShownEmpty
  <2>. QED
    BY <1>3, <2>1, <2>6
<1>6. CASE /\ tabs' = [tabs EXCEPT ![t] = [tabs[t] EXCEPT !.page = "login"]]
           /\ flight' = [flight EXCEPT ![f] = Idle] /\ s = "form"
  <2>. DEFINE late == [tabs[t] EXCEPT !.page = "login"]
  <2>1. /\ late.launch = tabs[t].launch /\ late.user = tabs[t].user
        /\ late.by = tabs[t].by /\ late.access = tabs[t].access
        /\ late.wait = tabs[t].wait /\ (tabs[t].mixed => late.mixed)
    BY Rows DEF TabState
  <2>2. tabs' = [tabs EXCEPT ![t] = late]
    BY <1>6
  <2>. HIDE DEF late
  <2>3. /\ \A x \in Tab \ {t} : tabs'[x] = tabs[x]
        /\ tabs'[t] = late
        /\ \A x \in Tab : S(x)' = S(x)
    BY <1>1, <1>2, <1>6, <2>2 DEF S
  <2>4. \A i \in Tokens : UserAfter(i) = UserOf(i)
    BY DEF UserAfter, UserOf
  <2>5. S(t)'.token # 0 /\ S(t).kind = "refresh" =>
           S(t).token # 0 /\ UserAfter(S(t)'.token) = UserOf(S(t).token)
    BY <2>3 DEF UserAfter, UserOf
  <2>6. (Waits(t) /\ Shows(t))'
    BY <1>2, <2>1, <2>3, <2>4, <2>5, ShownKept
  <2>. QED
    BY <1>3, <2>3, <2>6
<1>7. CASE /\ tabs' = tabs /\ flight' = [flight EXCEPT ![f] = Idle]
           /\ flight[f].kind # "refresh"
  <2>1. \A x \in Tab : S(x)' = S(x) \/ (S(x)' = Idle /\ S(x).kind # "refresh")
    BY <1>1, <1>2, <1>7 DEF S
  <2>2. \A x \in Tab : S(x)' = S(x) \/ (S(x)'.kind = "none" /\ S(x).kind # "refresh")
    BY <2>1 DEF Idle
  <2>. QED
    BY <1>2, <1>7, <2>2, ShownSame DEF ShownInv
<1>8. ASSUME NEW l \in {"web", "max"}, tabs' = [tabs EXCEPT ![t] = Relaunched(t, l)],
             S(t)'.kind \in {"none", IF l = "web" THEN "restore" ELSE "none"},
             \A g \in F \ {a, b} : flight'[g] = flight[g]
      PROVE  ShownInv'
  <2>1. /\ tabs'[t] = Relaunched(t, l)
        /\ \A x \in Tab \ {t} : tabs'[x] = tabs[x] /\ S(x)' = S(x)
    BY <1>1, <1>2, <1>8 DEF S
  <2>2. Waits(t)'
    BY <2>1, RelaunchedFields DEF Waits
  <2>3. (Waits(t) /\ Shows(t))'
    BY <1>8, <2>1, <2>2, RelaunchedFields, ShownEmpty
  <2>. QED
    BY <1>3, <2>1, <2>3
<1>9. CASE /\ tabs' = [tabs EXCEPT ![t] = Relaunched(t, "max")]
           /\ flight' = [flight EXCEPT ![a] = Idle, ![b] = Request("max")]
  <2>1. S(t)' = Idle /\ \A g \in F \ {a, b} : flight'[g] = flight[g]
    BY <1>1, <1>2, <1>9 DEF S
  <2>2. S(t)'.kind = "none" /\ "max" \in {"web", "max"}
    BY <2>1 DEF Idle
  <2>. QED
    BY <1>8, <1>9, <2>1, <2>2
<1>10. CASE /\ tabs' = [tabs EXCEPT ![t] = Relaunched(t, "web")]
            /\ \E form \in {Idle, Unheard(flight[b])} :
                  flight' = [flight EXCEPT ![a] = WithCookie("restore"), ![b] = form]
  <2>. DEFINE again == WithCookie("restore")
  <2>1. PICK form : flight' = [flight EXCEPT ![a] = again, ![b] = form]
    BY <1>10
  <2>2. again.kind = "restore"
    BY DEF WithCookie, Request
  <2>. HIDE DEF again
  <2>3. S(t)' = again /\ \A g \in F \ {a, b} : flight'[g] = flight[g]
    BY <1>1, <1>2, <2>1 DEF S
  <2>. QED
    BY <1>8, <1>10, <2>2, <2>3
<1>. QED
    BY <1>5, <1>6, <1>7, <1>9, <1>10, FailedDoes

LEMMA ShownLoggedOut ==
    ASSUME Typed, ShownInv, NEW t \in Tab, LoggedOut(t)
    PROVE  ShownInv'
<1>. DEFINE f == <<t, "form">>
<1>1. /\ cookie' = 0 /\ refreshTokens' = refreshTokens
      /\ flight' = [flight EXCEPT ![f] = Idle]
      /\ tabs' = tabs \/ tabs' = [tabs EXCEPT ![t] = Out(t)]
    BY Rows DEF LoggedOut, Out, store
<1>2. \A x \in Tab : S(x)' = S(x)
    BY <1>1, Slots, Rows DEF S
<1>3. \A x \in Tab : tabs'[x] = tabs[x] => (Waits(x) /\ Shows(x))'
    BY <1>1, <1>2, ShownSame
<1>4. ASSUME tabs'[t] = Out(t) PROVE (Waits(t) /\ Shows(t))'
  <2>1. Waits(t) /\ Shows(t)
    BY DEF ShownInv
  <2>2. Waits(t)'
    BY <1>2, <1>4, <2>1, OutFields DEF Waits, S
  <2>3. S(t).kind = "restore" => tabs[t].launch = "web"
    BY <2>1 DEF Shows, S
  <2>. QED
    BY <1>2, <1>4, <2>2, <2>3, OutFields, ShownEmpty
<1>5. \A x \in Tab : tabs'[x] = tabs[x] \/ (x = t /\ tabs'[x] = Out(t))
    BY <1>1, Rows
<1>. QED
    BY <1>3, <1>4, <1>5 DEF ShownInv

\* The other steps of a client: a request is sent, or broken off by a crash.
LEMMA ShownSent ==
    ASSUME Typed, ShownInv,
           \/ \E t \in Tab : \/ \E l \in {"web", "max"} : Load(t, l)
                             \/ \E u \in User : Submit(t, u)
                             \/ \E c \in Call : CallRefused(t, c)
                             \/ Logout(t)
           \/ \E f \in F : Crash(f)
    PROVE  ShownInv'
<1>1. /\ cookie' = cookie /\ refreshTokens' = refreshTokens
      /\ DOMAIN tabs = Tab /\ DOMAIN flight = F
    BY Rows DEF Load, Submit, CallRefused, Logout, Crash, client, store
<1>2. \A x \in Tab : <<x, "session">> \in F /\ \A t \in Tab : <<x, "session">> # <<t, "form">>
    BY Slots
<1>3. \A x, t \in Tab : <<x, "session">> = <<t, "session">> => x = t
    OBVIOUS
<1>4. ASSUME NEW t \in Tab, NEW l \in {"web", "max"}, Load(t, l) PROVE ShownInv'
  <2>. DEFINE q == WithCookie("restore")
              m == Request("max")
  <2>1. /\ tabs' = [tabs EXCEPT ![t] = Relaunched(t, l)] /\ S(t).kind = "none"
        /\ flight' = IF l = "max" THEN [flight EXCEPT ![<<t, "form">>] = m]
                     ELSE [flight EXCEPT ![<<t, "session">>] = q]
    BY <1>4 DEF Load, FirstRequest, Free, S
  <2>2. q.kind = "restore"
    BY DEF WithCookie, Request
  <2>. HIDE DEF q, m
  <2>3. /\ tabs'[t] = Relaunched(t, l)
        /\ \A x \in Tab \ {t} : tabs'[x] = tabs[x] /\ S(x)' = S(x)
        /\ S(t)' = S(t) \/ (l = "web" /\ S(t)' = q)
    BY <1>1, <1>2, <1>3, <2>1 DEF S
  <2>4. Waits(t)'
    BY <2>3, RelaunchedFields DEF Waits
  <2>5. (Waits(t) /\ Shows(t))'
    BY <2>1, <2>2, <2>3, <2>4, RelaunchedFields, ShownEmpty
  <2>. QED
    BY <1>1, <2>3, <2>5, ShownSame DEF ShownInv
<1>5. ASSUME NEW t \in Tab, NEW u \in User, Submit(t, u) PROVE ShownInv'
  <2>1. PICK q : flight' = [flight EXCEPT ![<<t, "form">>] = q]
    BY <1>5 DEF Submit
  <2>2. \A x \in Tab : tabs'[x] = tabs[x] /\ S(x)' = S(x)
    BY <1>1, <1>2, <1>5, <2>1 DEF Submit, client, S
  <2>. QED
    BY <1>1, <2>2, ShownSame DEF ShownInv
<1>6. ASSUME NEW t \in Tab, Logout(t) PROVE ShownInv'
  <2>1. PICK q : flight' = [flight EXCEPT ![<<t, "form">>] = q]
    BY <1>6 DEF Logout
  <2>2. \A x \in Tab : tabs'[x] = tabs[x] /\ S(x)' = S(x)
    BY <1>1, <1>2, <1>6, <2>1 DEF Logout, client, S
  <2>. QED
    BY <1>1, <2>2, ShownSame DEF ShownInv
<1>7. ASSUME NEW f \in F, Crash(f) PROVE ShownInv'
  <2>1. /\ tabs' = tabs /\ flight' = [flight EXCEPT ![f] = RefusedOf(flight[f])]
    BY <1>7 DEF Crash, Refuse, RefusedOf, client
  <2>2. /\ RefusedOf(flight[f]).kind = flight[f].kind /\ RefusedOf(flight[f]).token = 0
    BY DEF RefusedOf, Idle
  <2>3. \A x \in Tab : S(x)' = S(x) \/ (S(x)'.kind = S(x).kind /\ S(x)'.token = 0)
    BY <1>1, <1>2, <2>1, <2>2 DEF S
  <2>. QED
    BY <1>1, <2>1, <2>3, ShownSame DEF ShownInv
<1>8. ASSUME NEW t \in Tab, NEW c \in Call, CallRefused(t, c) PROVE ShownInv'
  <2>. DEFINE late == [tabs[t] EXCEPT !.wait = @ \cup {c}]
              q == WithCookie("refresh")
  <2>1. /\ late.launch = tabs[t].launch /\ late.user = tabs[t].user
        /\ late.by = tabs[t].by /\ late.access = tabs[t].access
        /\ late.mixed <=> tabs[t].mixed
    BY Rows DEF TabState
  <2>2. q.kind = "refresh" /\ q.token = cookie
    BY DEF WithCookie, Request
  <2>3. /\ tabs' = [tabs EXCEPT ![t] = late] /\ S(t).kind \in {"none", "refresh"}
        /\ \/ S(t).kind # "none" /\ flight' = flight
           \/ S(t).kind = "none" /\ flight' = [flight EXCEPT ![<<t, "session">>] = q]
    BY <1>8 DEF CallRefused, Free, S
  <2>. HIDE DEF late, q
  <2>4. /\ tabs'[t] = late
        /\ \A x \in Tab \ {t} : tabs'[x] = tabs[x] /\ S(x)' = S(x)
        /\ \/ S(t).kind = "refresh" /\ S(t)' = S(t)
           \/ S(t)' = q
    BY <1>1, <1>2, <1>3, <2>3 DEF S
  <2>5. Waits(t) /\ Shows(t)
    BY DEF ShownInv
  <2>6. Waits(t)'
    BY <2>2, <2>4 DEF Waits, S
  <2>7. Shows(t)'
    BY <1>1, <2>1, <2>2, <2>4, <2>5 DEF Shows, S
  <2>. QED
    BY <1>1, <2>4, <2>6, <2>7, ShownSame DEF ShownInv
<1>. QED
    BY <1>4, <1>5, <1>6, <1>7, <1>8

LEMMA NextShown == Typed /\ ShownInv /\ [Next]_vars => ShownInv'
<1>. SUFFICES ASSUME Typed, ShownInv, [Next]_vars PROVE ShownInv'
    OBVIOUS
<1>1. ASSUME UNCHANGED <<tabs, flight, cookie>>, \A i \in Tokens : UserAfter(i) = UserOf(i)
      PROVE  ShownInv'
  <2>1. ASSUME NEW x \in Tab PROVE (Waits(x) /\ Shows(x))'
    <3>1. S(x)' = S(x) /\ tabs'[x] = tabs[x] /\ cookie' = cookie
      BY <1>1 DEF S
    <3>2. S(x).token # 0 => S(x).token \in Tokens
      BY Slots, Rows DEF S, FlightState, Tokens
    <3>. QED
      BY <1>1, <3>1, <3>2, ShownKept
  <2>. QED
    BY <2>1 DEF ShownInv
<1>2. CASE UNCHANGED vars
    BY <1>1, <1>2 DEF vars, store, client, UserAfter, UserOf
<1>3. CASE \E t \in Tab : Unlink(t)
    BY <1>1, <1>3 DEF Unlink, client, UserAfter, UserOf
<1>4. CASE Elsewhere
  <2>1. UNCHANGED <<tabs, flight, cookie>>
    BY <1>4 DEF Elsewhere, SetRole, RemoveUser, CreateLocal, SetMaintenance,
       DirectoryChanges, SyncFetch, SyncUpsert, SyncDeactivate, Tick, client
  <2>. QED
    BY <1>1, <1>4, <2>1, ElsewhereStep DEF SameRows, UserAfter, UserOf
<1>5. ASSUME NEW t \in Tab, NEW s \in Slot, Refused(t, s) \/ Lost(t, s) PROVE ShownInv'
    BY <1>5, ShownFailed DEF Refused, Lost, store
<1>6. CASE Clients
    BY <1>5, <1>6, ShownSent, ShownLetIn, ShownRestored, ShownRefreshed, ShownLoggedOut
    DEF Clients, Answer
<1>. QED
    BY <1>2, <1>3, <1>4, <1>6, Cases, ShownServe

LEMMA InitShown == Init => ShownInv
BY Slots DEF Init, F, ShownInv, Waits, Shows, Closed, Idle

LEMMA ShownHolds == Spec => []ShownInv
BY InitTyped, NextTyped, InitShown, NextShown, PTL DEF Spec

\* A tab acts for the user it shows, and a page MAX launched shows who MAX let
\* in, unless it is marked mixed: a refresh's token, and the cookie it goes on,
\* are of the user shown (AuthContext.tsx; client.ts: refreshAccessToken).
THEOREM TabsActAsShown == Spec => []ActsAsShown
<1>1. ShownInv => ActsAsShown
    BY DEF ShownInv, Shows, ActsAsShown
<1>. QED
    BY <1>1, ShownHolds, PTL

\* No call is left waiting: a tab with waiting calls has its one refresh in
\* flight, through every answer, refusal, loss, crash and logout (client.ts:
\* refreshPromise).
THEOREM NobodyWaitsInVain == Spec => []WaitersHaveRefresh
<1>1. ShownInv => WaitersHaveRefresh
    BY DEF ShownInv, Waits, WaitersHaveRefresh
<1>. QED
    BY <1>1, ShownHolds, PTL

-----------------------------------------------------------------------------
(* Sessions and their tokens.                                               *)

\* A token a request carries is a row of the table, and so is its session.
LEMMA Carried ==
    ASSUME Typed
    PROVE  /\ \A i \in Tokens : Session(i) \in Tokens /\ refreshTokens[i] \in TokenRow
           /\ \A f \in F : flight[f].token = 0 \/ flight[f].token \in Tokens
           /\ \A f \in F : Rotating(f) => flight[f].token \in Tokens
           /\ \A f \in F : Rotating(f) => refreshTokens[flight[f].token].user = flight[f].who
           /\ cookie = 0 \/ cookie \in Tokens
           /\ \A f \in F : flight[f].stage = "issued" => flight[f].token \in Tokens
           /\ 0 \notin Tokens
<1>1. /\ \A f \in F : flight[f].token \in 0 .. Len(refreshTokens)
      /\ cookie \in 0 .. Len(refreshTokens)
    BY Rows DEF Typed, TypeOK, FlightState
<1>2. \A f \in F : Rotating(f) \/ flight[f].stage = "issued" =>
         flight[f].token # 0 /\ refreshTokens[flight[f].token].user = flight[f].who
    BY DEF Typed, Sound, Rotating, Renewing
<1>. QED
    BY <1>1, <1>2, Rows DEF Tokens, Session

LEMMA SameSessions ==
    ASSUME Typed, SameRows
    PROVE  /\ Tokens' = Tokens
           /\ \A i \in Tokens : Session(i)' = Session(i) /\ UserAfter(i) = UserOf(i)
BY Rows DEF SameRows, Tokens, Session, UserOf, UserAfter

\* A step that leaves the table its rows, brings no token to life again, lets no
\* request enter the rotation, and logs nobody out.
LEMMA RotationKept ==
    ASSUME Typed, RotationInv, SameRows, raced \subseteq raced', ended' = ended,
           \A i \in Tokens : Live(i)' => Live(i),
           \A g \in F : Rotating(g)' =>
              /\ Rotating(g) /\ flight'[g].token = flight[g].token
              /\ flight'[g].stage = "spent" => flight[g].stage = "spent"
    PROVE  RotationInv'
<1>1. Tokens' = Tokens /\ \A i \in Tokens : Session(i)' = Session(i)
    BY SameSessions
<1>2. \A g \in F : Rotating(g)' => /\ FlightSession(g)' = FlightSession(g)
                                  /\ FlightSession(g) \in Tokens
    BY <1>1, Carried DEF FlightSession, Session
<1>3. \A s : Clean(s)' => Clean(s)
    BY DEF Clean
<1>4. (\A i, j \in Tokens : Live(i) /\ Live(j) /\ Session(i) = Session(j) =>
          i = j \/ ~Clean(Session(i)))'
    BY <1>1, <1>3 DEF RotationInv
<1>5. (\A i \in Tokens : Live(i) /\ Clean(Session(i)) => Session(i) \notin ended)'
    BY <1>1, <1>3 DEF RotationInv
<1>6. (\A f, g \in F : Rotating(f) /\ Rotating(g) /\ FlightSession(f) = FlightSession(g) =>
          f = g \/ ~Clean(FlightSession(f)))'
    BY <1>2, <1>3 DEF RotationInv
<1>7. ASSUME NEW f \in F, Rotating(f)', Clean(FlightSession(f))'
      PROVE  /\ FlightSession(f)' \notin ended'
             /\ (\A i \in Tokens : Live(i) /\ Session(i) = FlightSession(f) =>
                    i = flight[f].token /\ flight[f].stage # "spent")'
  <2>1. /\ Rotating(f) /\ FlightSession(f)' = FlightSession(f) /\ Clean(FlightSession(f))
        /\ flight'[f].token = flight[f].token
        /\ flight'[f].stage = "spent" => flight[f].stage = "spent"
    BY <1>2, <1>3, <1>7
  <2>2. /\ FlightSession(f) \notin ended
        /\ \A i \in Tokens : Live(i) /\ Session(i) = FlightSession(f) =>
              i = flight[f].token /\ flight[f].stage # "spent"
    BY <2>1 DEF RotationInv
  <2>. QED
    BY <1>1, <2>1, <2>2
<1>. QED
    BY <1>4, <1>5, <1>6, <1>7 DEF RotationInv

LEMMA RotationCheck ==
    ASSUME Typed, RotationInv, NEW f \in F, RefreshCheck(f), ~Refuses(f)
    PROVE  RotationInv'
<1>. DEFINE i == flight[f].token
            s == Session(i)
<1>1. /\ Usable(i) /\ UNCHANGED <<refreshTokens, ended>>
      /\ raced' = (IF Overlapping(f) THEN raced \cup {s} ELSE raced)
    BY DEF RefreshCheck, Refuse, Refuses, RefusedOf, store
<1>2. /\ \A g \in F \ {f} : flight'[g] = flight[g]
      /\ flight'[f].stage = "checked" /\ flight'[f].token = i
      /\ flight'[f].kind = flight[f].kind /\ Renewing(f)
    BY RefreshCheckStep DEF MovesOn, Renewing, RefreshCheck, At
<1>3. Live(i) /\ i \in Tokens
    BY <1>1, Carried DEF Usable, Live
<1>4. Tokens' = Tokens /\ (\A j \in Tokens : Session(j)' = Session(j) /\ (Live(j)' <=> Live(j)))
    BY <1>1 DEF Tokens, Session, Live
<1>5. \A x : Clean(x)' => Clean(x)
    BY <1>1 DEF Clean
<1>6. FlightSession(f)' = s
    BY <1>1, <1>2 DEF FlightSession, Session
<1>7. \A g \in F \ {f} : /\ Rotating(g)' <=> Rotating(g)
                         /\ FlightSession(g)' = FlightSession(g)
    BY <1>1, <1>2 DEF Rotating, Renewing, FlightSession, Session
<1>8. \A g \in F \ {f} : Rotating(g) /\ FlightSession(g) = s => s \in raced'
  <2>1. \A g \in F \ {f} : Rotating(g) /\ FlightSession(g) = s => Overlapping(f)
    BY Carried DEF Rotating, Renewing, FlightSession, Overlapping, F
  <2>. QED
    BY <1>1, <2>1
<1>9. (\A j, k \in Tokens : Live(j) /\ Live(k) /\ Session(j) = Session(k) =>
          j = k \/ ~Clean(Session(j)))'
    BY <1>4, <1>5 DEF RotationInv
<1>10. (\A j \in Tokens : Live(j) /\ Clean(Session(j)) => Session(j) \notin ended)'
    BY <1>1, <1>4, <1>5 DEF RotationInv
<1>11. (\A g, h \in F : Rotating(g) /\ Rotating(h) /\ FlightSession(g) = FlightSession(h) =>
          g = h \/ ~Clean(FlightSession(g)))'
    BY <1>5, <1>6, <1>7, <1>8 DEF RotationInv, Clean
<1>12. ASSUME NEW g \in F, Rotating(g)', Clean(FlightSession(g))'
       PROVE  /\ FlightSession(g)' \notin ended'
              /\ (\A j \in Tokens : Live(j) /\ Session(j) = FlightSession(g) =>
                     j = flight[g].token /\ flight[g].stage # "spent")'
  <2>1. CASE g = f
    <3>1. Clean(s)
      BY <1>5, <1>6, <1>12, <2>1
    <3>2. s \notin ended /\ \A j \in Tokens : Live(j) /\ Session(j) = s => j = i
      BY <1>3, <3>1 DEF RotationInv
    <3>. QED
      BY <1>1, <1>2, <1>4, <1>6, <2>1, <3>2
  <2>2. CASE g # f
    <3>1. Rotating(g) /\ Clean(FlightSession(g)) /\ flight'[g] = flight[g]
      BY <1>2, <1>5, <1>7, <1>12, <2>2
    <3>. QED
      BY <1>1, <1>4, <1>7, <2>2, <3>1 DEF RotationInv
  <2>. QED
    BY <2>1, <2>2
<1>. QED
    BY <1>9, <1>10, <1>11, <1>12 DEF RotationInv

LEMMA RotationSpend ==
    ASSUME Typed, RotationInv, NEW f \in F, RefreshSpend(f), ~Refuses(f)
    PROVE  RotationInv'
<1>. DEFINE i == flight[f].token
<1>1. /\ SameRows /\ i \in Tokens /\ UNCHANGED <<raced, ended>>
      /\ refreshTokens'[i].state = "revoked"
      /\ \A j \in Tokens \ {i} : refreshTokens'[j] = refreshTokens[j]
      /\ MovesOn(f, "spent", flight[f].who, flight[f].rights)
      /\ Rotating(f)
    BY RefreshSpendStep DEF RefreshSpend, history, Rotating, Renewing
<1>2. Tokens' = Tokens /\ \A j \in Tokens : Session(j)' = Session(j)
    BY <1>1, SameSessions
<1>3. \A j \in Tokens : Live(j)' => Live(j) /\ j # i
    BY <1>1 DEF Live
<1>4. \A g \in F : /\ Rotating(g)' => Rotating(g)
                   /\ flight'[g].token = flight[g].token
                   /\ g # f => flight'[g] = flight[g]
    BY <1>1 DEF MovesOn, Rotating, Renewing
<1>5. \A g \in F : Rotating(g)' => FlightSession(g)' = FlightSession(g)
    BY <1>2, <1>4, Carried DEF FlightSession, Session
<1>6. \A x : Clean(x)' <=> Clean(x)
    BY <1>1 DEF Clean
<1>7. ASSUME NEW g \in F, Rotating(g)', Clean(FlightSession(g))'
      PROVE  /\ FlightSession(g)' \notin ended'
             /\ (\A j \in Tokens : Live(j) /\ Session(j) = FlightSession(g) =>
                    j = flight[g].token /\ flight[g].stage # "spent")'
  <2>1. Rotating(g) /\ Clean(FlightSession(g)) /\ FlightSession(g)' = FlightSession(g)
    BY <1>4, <1>5, <1>6, <1>7
  <2>2. /\ FlightSession(g) \notin ended
        /\ \A j \in Tokens : Live(j) /\ Session(j) = FlightSession(g) =>
              j = flight[g].token /\ flight[g].stage # "spent"
    BY <2>1 DEF RotationInv
  <2>. QED
    BY <1>1, <1>2, <1>3, <1>4, <2>1, <2>2
<1>8. (\A j, k \in Tokens : Live(j) /\ Live(k) /\ Session(j) = Session(k) =>
          j = k \/ ~Clean(Session(j)))'
    BY <1>2, <1>3, <1>6 DEF RotationInv
<1>9. (\A j \in Tokens : Live(j) /\ Clean(Session(j)) => Session(j) \notin ended)'
    BY <1>1, <1>2, <1>3, <1>6 DEF RotationInv
<1>10. (\A g, h \in F : Rotating(g) /\ Rotating(h) /\ FlightSession(g) = FlightSession(h) =>
          g = h \/ ~Clean(FlightSession(g)))'
    BY <1>4, <1>5, <1>6 DEF RotationInv
<1>. QED
    BY <1>7, <1>8, <1>9, <1>10 DEF RotationInv

LEMMA RotationIssue ==
    ASSUME Typed, RotationInv, NEW f \in F, IssueTokens(f), Issues(f)
    PROVE  RotationInv'
<1>. DEFINE new == Len(refreshTokens) + 1
            old == flight[f].token
            s == IF old = 0 THEN new ELSE Session(old)
<1>1. /\ new \notin Tokens /\ new # 0 /\ Tokens' = Tokens \cup {new}
      /\ \A j \in Tokens : refreshTokens'[j] = refreshTokens[j]
      /\ refreshTokens'[new].session = s
  <2>1. Len(refreshTokens) \in Nat /\ Tokens = 1 .. Len(refreshTokens)
    BY Rows DEF Tokens
  <2>2. DOMAIN refreshTokens' = 1 .. new
    BY <2>1 DEF Issues
  <2>. QED
    BY <2>1, <2>2 DEF Issues, Tokens
<1>2. /\ \A g \in F \ {f} : flight'[g] = flight[g]
      /\ flight'[f].kind = flight[f].kind /\ flight'[f].token = new
      /\ flight'[f].stage = "issued"
      /\ UNCHANGED <<raced, ended>>
    BY DEF Issues, IssueTokens, history
<1>. HIDE DEF new
<1>3. /\ \A j \in Tokens : Session(j)' = Session(j) /\ (Live(j)' <=> Live(j))
      /\ Session(new)' = refreshTokens'[new'].session
    BY <1>1 DEF Session, Live
<1>4. \A j \in Tokens' : Live(j)' => j = new \/ Live(j)
    BY <1>1, <1>3
<1>5. \A x : Clean(x)' <=> x \notin raced
    BY <1>2 DEF Clean
<1>6. raced \subseteq Tokens /\ ended \subseteq Tokens
    BY DEF Typed, TypeOK, Tokens
<1>7. \A g \in F \ {f} : Rotating(g)' => /\ Rotating(g) /\ FlightSession(g) \in Tokens
                                        /\ FlightSession(g)' = FlightSession(g)
    BY <1>1, <1>2, Carried DEF Rotating, Renewing, FlightSession, Session
<1>8. FlightSession(f)' = s
    BY <1>1, <1>2 DEF FlightSession, Session
\* The rows of the new table, by their numbers.
<1>. DEFINE sess(j) == refreshTokens'[j].session
<1>9. /\ sess(new) = s /\ \A j \in Tokens : sess(j) = Session(j) /\ Session(j) \in Tokens
      /\ \A j : Session(j)' = sess(j)
    BY <1>1, Carried DEF Session
<1>. HIDE DEF sess
\* The request was renewing its session, or it begins a new one.
<1>10. \/ /\ Renewing(f) /\ Rotating(f) /\ s = FlightSession(f) /\ s \in Tokens
          /\ s \notin raced => s \notin ended /\ \A j \in Tokens : Live(j) => Session(j) # s
          /\ \A g \in F \ {f} : Rotating(g) /\ FlightSession(g) = s => s \in raced
       \/ ~Renewing(f) /\ s = new
  <2>1. CASE Renewing(f)
    <3>1. Rotating(f) /\ flight[f].stage = "spent" /\ old # 0
      BY <2>1, IssueTokensStep, Carried DEF ReadyToIssue, At, Rotating, Renewing
    <3>2. s = FlightSession(f) /\ s \in Tokens
      BY <3>1, Carried DEF FlightSession
    <3>3. s \notin raced => s \notin ended /\ \A j \in Tokens : Live(j) => Session(j) # s
      BY <3>1, <3>2 DEF RotationInv, Clean
    <3>4. \A g \in F \ {f} : Rotating(g) /\ FlightSession(g) = s => s \in raced
      BY <3>1, <3>2 DEF RotationInv, Clean
    <3>. QED
      BY <2>1, <3>1, <3>2, <3>3, <3>4
  <2>2. CASE ~Renewing(f)
    <3>1. old = 0
      BY <2>2, IssueTokensStep DEF ReadyToIssue, At, Renewing, Typed, Sound
    <3>. QED
      BY <2>2, <3>1
  <2>. QED
    BY <2>1, <2>2
<1>. HIDE DEF s
<1>11. \A j \in Tokens : Live(j) /\ sess(j) = s => s \in raced
    BY <1>1, <1>9, <1>10
<1>12. (\A j, k \in Tokens : Live(j) /\ Live(k) /\ Session(j) = Session(k) =>
          j = k \/ ~Clean(Session(j)))'
  <2>. SUFFICES ASSUME NEW j \in Tokens', NEW k \in Tokens', Live(j)', Live(k)',
                       sess(j) = sess(k), j # k
                PROVE  sess(j) \in raced
    BY <1>5, <1>9
  <2>1. j = new \/ (j \in Tokens /\ Live(j))
    BY <1>1, <1>4
  <2>2. k = new \/ (k \in Tokens /\ Live(k))
    BY <1>1, <1>4
  <2>3. ASSUME j \in Tokens, k \in Tokens, Live(j), Live(k) PROVE sess(j) \in raced
    <3>1. Session(j) = Session(k)
      BY <1>9, <2>3
    <3>. QED
      BY <1>9, <2>3, <3>1 DEF RotationInv, Clean
  <2>. QED
    BY <1>9, <1>11, <2>1, <2>2, <2>3
<1>13. (\A j \in Tokens : Live(j) /\ Clean(Session(j)) => Session(j) \notin ended)'
  <2>. SUFFICES ASSUME NEW j \in Tokens', Live(j)', sess(j) \notin raced
                PROVE  sess(j) \notin ended
    BY <1>2, <1>5, <1>9
  <2>1. j = new \/ (j \in Tokens /\ Live(j))
    BY <1>1, <1>4
  <2>2. CASE j = new
    BY <1>1, <1>6, <1>9, <1>10, <2>2
  <2>3. CASE j \in Tokens /\ Live(j)
    BY <1>9, <2>3 DEF RotationInv, Clean
  <2>. QED
    BY <2>1, <2>2, <2>3
<1>14. (\A g, h \in F : Rotating(g) /\ Rotating(h) /\ FlightSession(g) = FlightSession(h) =>
          g = h \/ ~Clean(FlightSession(g)))'
  <2>1. Rotating(f)' => Renewing(f)
    BY <1>2 DEF Rotating, Renewing
  <2>2. \A g \in F \ {f} : Rotating(g)' /\ Rotating(f)' /\ FlightSession(g)' = s => s \in raced
    BY <1>1, <1>7, <1>10, <2>1
  <2>3. \A g, h \in F \ {f} : Rotating(g)' /\ Rotating(h)'
              /\ FlightSession(g)' = FlightSession(h)' => g = h \/ FlightSession(g)' \in raced
    BY <1>7 DEF RotationInv, Clean
  <2>. QED
    BY <1>5, <1>8, <2>2, <2>3
<1>15. ASSUME NEW g \in F, Rotating(g)', Clean(FlightSession(g))'
       PROVE  /\ FlightSession(g)' \notin ended'
              /\ (\A j \in Tokens : Live(j) /\ Session(j) = FlightSession(g) =>
                     j = flight[g].token /\ flight[g].stage # "spent")'
  <2>. SUFFICES ASSUME FlightSession(g)' \notin raced
                PROVE  /\ FlightSession(g)' \notin ended
                       /\ \A j \in Tokens' : Live(j)' /\ sess(j) = FlightSession(g)' =>
                             j = flight'[g].token /\ flight'[g].stage # "spent"
    BY <1>2, <1>5, <1>9, <1>15
  <2>1. CASE g = f
    <3>1. Renewing(f) /\ s \notin raced /\ FlightSession(g)' = s
      BY <1>2, <1>8, <1>15, <2>1 DEF Rotating, Renewing
    <3>. QED
      BY <1>1, <1>2, <1>4, <1>9, <1>10, <2>1, <3>1
  <2>2. CASE g # f
    <3>1. /\ Rotating(g) /\ FlightSession(g)' = FlightSession(g) /\ flight'[g] = flight[g]
          /\ FlightSession(g) \in Tokens /\ FlightSession(g) \notin raced
      BY <1>2, <1>7, <1>15, <2>2
    <3>2. /\ FlightSession(g) \notin ended
          /\ \A j \in Tokens : Live(j) /\ Session(j) = FlightSession(g) =>
                j = flight[g].token /\ flight[g].stage # "spent"
      BY <3>1 DEF RotationInv, Clean
    <3>3. s # FlightSession(g)
      BY <1>1, <1>10, <2>2, <3>1
    <3>. QED
      BY <1>1, <1>4, <1>9, <2>2, <3>1, <3>2, <3>3
  <2>. QED
    BY <2>1, <2>2
<1>. QED
    BY <1>12, <1>13, <1>14, <1>15 DEF RotationInv

LEMMA RotationRevoke ==
    ASSUME Typed, RotationInv, NEW f \in F, RevokeToken(f)
    PROVE  RotationInv'
<1>1. /\ SameRows /\ flight[f].kind = "logout" /\ flight'[f].stage \in Still
      /\ \A g \in F \ {f} : flight'[g] = flight[g]
    BY RevokeTokenStep
<1>2. \A g \in F : Rotating(g)' => Rotating(g) /\ flight'[g] = flight[g] /\ g # f
    BY <1>1 DEF Rotating, Renewing, Still
<1>3. CASE UNCHANGED <<refreshTokens, ended, raced>>
    BY <1>1, <1>2, <1>3, RotationKept DEF Live
<1>4. ASSUME NEW i \in Tokens, i = flight[f].token,
             \A j \in Tokens \ {i} : refreshTokens'[j] = refreshTokens[j],
             refreshTokens'[i].state = IF Live(i) THEN "revoked" ELSE refreshTokens[i].state,
             ended' = ended \cup {Session(i)},
             raced' = IF Overlapping(f) \/ ~Live(i) THEN raced \cup {Session(i)} ELSE raced
      PROVE  RotationInv'
  <2>1. Tokens' = Tokens /\ \A j \in Tokens : Session(j)' = Session(j)
    BY <1>1, SameSessions
  <2>2. \A j \in Tokens : Live(j)' => Live(j) /\ j # i
    BY <1>4, Carried DEF Live
  <2>3. \A x : Clean(x)' => Clean(x)
    BY <1>4 DEF Clean
  <2>4. \A g \in F : Rotating(g)' => FlightSession(g)' = FlightSession(g)
    BY <1>2, <2>1, Carried DEF FlightSession, Session
  <2>5. Session(i) \notin raced' => Live(i) /\ ~Overlapping(f)
    BY <1>4
  <2>6. ASSUME NEW j \in Tokens, Live(j)', Clean(Session(j))'
        PROVE  Session(j)' \notin ended'
    <3>1. Live(j) /\ j # i /\ Session(j)' = Session(j) /\ Clean(Session(j))
      BY <2>1, <2>2, <2>3, <2>6
    <3>2. Session(j) \notin raced'
      BY <2>6, <3>1 DEF Clean
    <3>3. Session(j) # Session(i)
      BY <2>5, <3>1, <3>2 DEF RotationInv
    <3>. QED
      BY <1>4, <3>1, <3>3 DEF RotationInv
  <2>7. ASSUME NEW g \in F, Rotating(g)', Clean(FlightSession(g))'
        PROVE  /\ FlightSession(g)' \notin ended'
               /\ (\A j \in Tokens : Live(j) /\ Session(j) = FlightSession(g) =>
                      j = flight[g].token /\ flight[g].stage # "spent")'
    <3>1. /\ Rotating(g) /\ g # f /\ flight'[g] = flight[g]
          /\ FlightSession(g)' = FlightSession(g) /\ Clean(FlightSession(g))
      BY <1>2, <2>3, <2>4, <2>7
    <3>2. FlightSession(g) \notin raced'
      BY <2>7, <3>1 DEF Clean
    <3>3. FlightSession(g) = Session(i) => Overlapping(f)
      BY <1>4, <3>1, Carried DEF Rotating, Renewing, FlightSession, Overlapping, F
    <3>4. /\ FlightSession(g) \notin ended
          /\ \A j \in Tokens : Live(j) /\ Session(j) = FlightSession(g) =>
                j = flight[g].token /\ flight[g].stage # "spent"
      BY <3>1 DEF RotationInv
    <3>. QED
      BY <1>4, <2>1, <2>2, <2>5, <3>1, <3>2, <3>3, <3>4
  <2>8. (\A j, k \in Tokens : Live(j) /\ Live(k) /\ Session(j) = Session(k) =>
          j = k \/ ~Clean(Session(j)))'
    BY <2>1, <2>2, <2>3 DEF RotationInv
  <2>9. (\A g, h \in F : Rotating(g) /\ Rotating(h) /\ FlightSession(g) = FlightSession(h) =>
          g = h \/ ~Clean(FlightSession(g)))'
    BY <1>2, <2>3, <2>4 DEF RotationInv
  <2>10. (\A j \in Tokens : Live(j) /\ Clean(Session(j)) => Session(j) \notin ended)'
    BY <2>1, <2>6
  <2>. QED
    BY <2>7, <2>8, <2>9, <2>10 DEF RotationInv
<1>. QED
    BY <1>3, <1>4, RevokeTokenStep

\* The service's steps: a request moves on or is refused without touching the
\* tokens, or it takes part in the rotation.
LEMMA ServeKinds ==
    ASSUME Typed, NEW f \in F, Serve(f)
    PROVE  /\ UNCHANGED <<cookie, stranded>>
           /\ \A g \in F \ {f} : flight'[g] = flight[g]
           /\ flight'[f].kind = flight[f].kind
           /\ \A u \in User : users[u].row => users'[u].row
           /\ \/ /\ UNCHANGED <<refreshTokens, ended, raced>>
                 /\ flight'[f].token \in {flight[f].token, 0}
                 /\ flight'[f].stage # "issued" /\ ~Rotating(f)'
                 /\ Bringing(f) => ~users[flight[f].who].row
              \/ RefreshCheck(f) /\ ~Refuses(f) /\ UNCHANGED <<refreshTokens, ended>>
                 /\ flight[f].stage = "sent" /\ MovesOn(f, "checked", flight'[f].who, flight'[f].rights)
              \/ RefreshSpend(f) /\ ~Refuses(f) /\ UNCHANGED ended
              \/ IssueTokens(f) /\ Issues(f) /\ UNCHANGED <<ended, raced>>
              \/ RevokeToken(f)
<1>. DEFINE Plain == /\ UNCHANGED <<refreshTokens, ended, raced>>
                     /\ flight'[f].token \in {flight[f].token, 0}
                     /\ flight'[f].stage # "issued" /\ ~Rotating(f)'
                     /\ Bringing(f) => ~users[flight[f].who].row
            Other == /\ \A g \in F \ {f} : flight'[g] = flight[g]
                     /\ flight'[f].kind = flight[f].kind
<1>1. UNCHANGED <<cookie, stranded>> /\ \A u \in User : users[u].row => users'[u].row
  <2>1. UNCHANGED <<cookie, stranded>>
    BY DEF Serve, RefreshCheck, RefreshSpend, VerifyCredentials, UpsertFromLdap,
           LoginViaMax, LinkCheck, LinkWrite, IssueTokens, RevokeToken, client, history
  <2>2. CASE UpsertFromLdap(f)
    <3>1. users \in [User -> Row]
      BY DEF Typed, TypeOK
    <3>. DEFINE u == flight[f].who
                row == Upserted(u, flight[f].rights.isStaff)
    <3>2. users' = [users EXCEPT ![u] = row] /\ u \in User
      BY <2>2, UpsertFromLdapStep
    <3>3. users[u].row => row.row
      BY <3>1, <3>2 DEF Upserted, Row
    <3>. HIDE DEF row
    <3>. QED
      BY <2>1, <3>1, <3>2, <3>3
  <2>3. CASE users' = users
    BY <2>1, <2>3
  <2>. QED
    BY <2>2, <2>3
    DEF Serve, RefreshCheck, RefreshSpend, VerifyCredentials,
        LoginViaMax, LinkCheck, LinkWrite, IssueTokens, RevokeToken, store
<1>2. ASSUME flight[f].kind # "none", Refuses(f)
      PROVE  Other /\ flight'[f].token = 0 /\ flight'[f].stage = "refused"
  <2>1. flight'[f] = RefusedOf(flight[f])
    BY <1>2, Rows DEF Refuses
  <2>. QED
    BY <1>2, <2>1, RefusesTyped DEF RefusedOf, Idle
<1>3. ASSUME UNCHANGED <<refreshTokens, ended, raced>>,
             flight[f].kind # "none", Refuses(f),
             Bringing(f) => ~users[flight[f].who].row
      PROVE  Other /\ Plain
    BY <1>2, <1>3 DEF Rotating
<1>4. ASSUME UNCHANGED <<refreshTokens, ended, raced>>, ~Renewing(f), flight[f].kind # "none",
             \/ Refuses(f)
             \/ \E stage \in {"known", "granted", "linkable", "spent"} : \E u, r :
                   MovesOn(f, stage, u, r)
      PROVE  Other /\ Plain
  <2>1. CASE Refuses(f)
    BY <1>3, <1>4, <2>1 DEF Bringing
  <2>2. CASE \E stage \in {"known", "granted", "linkable", "spent"} : \E u, r :
                MovesOn(f, stage, u, r)
    BY <1>4, <2>2 DEF MovesOn, Bringing, Rotating, Renewing
  <2>. QED
    BY <1>4, <2>1, <2>2
<1>5. CASE VerifyCredentials(f)
    BY <1>1, <1>4, <1>5, VerifyCredentialsStep DEF VerifyCredentials, store, history, Renewing
<1>6. CASE UpsertFromLdap(f)
    BY <1>1, <1>4, <1>6, UpsertFromLdapStep DEF UpsertFromLdap, Renewing
<1>7. CASE LoginViaMax(f)
    BY <1>1, <1>4, <1>7, LoginViaMaxStep DEF LoginViaMax, store, history, Renewing
<1>8. CASE LinkCheck(f)
    BY <1>1, <1>4, <1>8, LinkCheckStep DEF LinkCheck, store, history, Renewing
<1>9. CASE LinkWrite(f)
    BY <1>1, <1>4, <1>9, LinkWriteStep DEF LinkWrite, history, Renewing
<1>10. CASE RefreshCheck(f)
  <2>1. /\ flight[f].kind # "none" /\ flight[f].stage = "sent"
        /\ UNCHANGED <<refreshTokens, ended>>
    BY <1>10 DEF RefreshCheck, At, store
  <2>2. CASE Refuses(f)
    BY <1>1, <1>2, <1>10, <2>1, <2>2, RefreshCheckStep DEF Bringing, Rotating, MovesOn
  <2>3. CASE ~Refuses(f)
    BY <1>1, <1>10, <2>1, <2>3, RefreshCheckStep DEF MovesOn
  <2>. QED
    BY <2>2, <2>3
<1>11. CASE RefreshSpend(f)
  <2>1. UNCHANGED <<ended, raced>> /\ flight[f].kind # "none" /\ flight[f].stage = "checked"
    BY <1>11 DEF RefreshSpend, At, history
  <2>2. CASE Refuses(f)
    <3>1. UNCHANGED refreshTokens
      BY <1>2, <1>11, <2>1, <2>2, RefreshSpendStep DEF MovesOn
    <3>. QED
      BY <1>1, <1>3, <2>1, <2>2, <3>1 DEF Bringing
  <2>3. CASE ~Refuses(f)
    BY <1>1, <1>11, <2>1, <2>3, RefreshSpendStep DEF MovesOn
  <2>. QED
    BY <2>2, <2>3
<1>12. CASE IssueTokens(f)
  <2>1. UNCHANGED <<ended, raced>> /\ flight[f].kind # "none"
    BY <1>12, IssueTokensStep DEF IssueTokens, history
  <2>. QED
    BY <1>1, <1>3, <1>12, <2>1, IssueTokensStep DEF Issues
<1>13. CASE RevokeToken(f)
  <2>1. flight'[f].kind = flight[f].kind
    <3>1. CASE Refuses(f)
      BY <1>2, <1>13, <3>1, RevokeTokenStep
    <3>2. CASE To(f, "done")
      BY <3>2, Rows DEF To, FlightState
    <3>. QED
      BY <1>13, <3>1, <3>2 DEF RevokeToken, Refuse, Refuses, RefusedOf
  <2>. QED
    BY <1>1, <1>13, <2>1, RevokeTokenStep
<1>. QED
    BY <1>5, <1>6, <1>7, <1>8, <1>9, <1>10, <1>11, <1>12, <1>13 DEF Serve

LEMMA NextRotation == Typed /\ RotationInv /\ [Next]_vars => RotationInv'
<1>. SUFFICES ASSUME Typed, RotationInv, [Next]_vars PROVE RotationInv'
    OBVIOUS
<1>1. refreshTokens' = refreshTokens => SameRows /\ \A i \in Tokens : Live(i)' => Live(i)
    BY DEF SameRows, Typed, Live
<1>2. ASSUME UNCHANGED <<raced, ended, flight, refreshTokens>> PROVE RotationInv'
    BY <1>1, <1>2, RotationKept DEF Rotating, Renewing
<1>3. CASE UNCHANGED vars
    BY <1>2, <1>3 DEF vars, store, history
<1>4. CASE \E t \in Tab : Unlink(t)
    BY <1>2, <1>4 DEF Unlink, history
<1>5. CASE Clients
  <2>1. UNCHANGED <<refreshTokens, ended, raced>> /\ \A g \in F : Quiet(g)
    BY <1>5, ClientsStep DEF store
  <2>2. ASSUME NEW g \in F, Rotating(g)'
        PROVE  /\ Rotating(g) /\ flight'[g].token = flight[g].token
               /\ flight'[g].stage = flight[g].stage
    BY <2>1, <2>2, Rows DEF Quiet, Rotating, Renewing, FlightState
  <2>. QED
    BY <1>1, <2>1, <2>2, RotationKept
<1>6. CASE Elsewhere
  <2>1. UNCHANGED <<flight, ended, raced>> /\ SameRows
    BY <1>6, ElsewhereStep
    DEF Elsewhere, SetRole, RemoveUser, CreateLocal, SetMaintenance,
        DirectoryChanges, SyncFetch, SyncUpsert, SyncDeactivate, Tick
  <2>2. \A i \in Tokens : Live(i)' => Live(i)
    BY <1>1, <1>6, RemovedRows
    DEF Elsewhere, SetRole, CreateLocal, SetMaintenance,
        DirectoryChanges, SyncFetch, SyncUpsert, SyncDeactivate, Tick, store, Live
  <2>. QED
    BY <2>1, <2>2, RotationKept DEF Rotating, Renewing
<1>7. ASSUME NEW f \in F, Serve(f) PROVE RotationInv'
  <2>1. CASE UNCHANGED <<refreshTokens, ended, raced>> /\ ~Rotating(f)'
    <3>1. \A g \in F \ {f} : flight'[g] = flight[g]
      BY <1>7, ServeKinds
    <3>. QED
      BY <1>1, <2>1, <3>1, RotationKept DEF Rotating, Renewing
  <2>. QED
    BY <1>7, <2>1, ServeKinds, RotationCheck, RotationSpend, RotationIssue, RotationRevoke
<1>. QED
    BY <1>3, <1>4, <1>5, <1>6, <1>7, Cases

LEMMA InitRotation == Init => RotationInv
<1>. SUFFICES ASSUME Init PROVE RotationInv
    OBVIOUS
<1>1. Tokens = {} /\ \A f \in F : flight[f].kind = "none"
    BY DEF Init, F, Idle, Tokens
<1>. QED
    BY <1>1 DEF RotationInv, Rotating, Renewing

\* However requests interleave, answers are lost and the process dies, a session
\* nobody raced in has one live refresh token at most, and none after its logout
\* (auth.service.ts: refresh, logout).
THEOREM OneTokenPerSession == Spec => []OneLiveToken
<1>1. Typed /\ RotationInv => OneLiveToken
  <2>. SUFFICES ASSUME Typed, RotationInv, NEW s \in Tokens \ raced
                PROVE  Cardinality(LiveTokens(s)) <= IF s \in ended THEN 0 ELSE 1
    BY DEF OneLiveToken, Tokens
  <2>1. \A i, j \in LiveTokens(s) : i = j
    BY DEF RotationInv, LiveTokens, Tokens, Clean
  <2>2. s \in ended => LiveTokens(s) = {}
    BY DEF RotationInv, LiveTokens, Tokens, Clean
  <2>3. CASE LiveTokens(s) = {}
    BY <2>3, FS_EmptySet
  <2>4. CASE LiveTokens(s) # {}
    <3>1. PICK i : LiveTokens(s) = {i}
      BY <2>1, <2>4
    <3>2. Cardinality(LiveTokens(s)) = 1
      BY <3>1, FS_Singleton
    <3>. QED
      BY <2>2, <2>4, <3>2
  <2>. QED
    BY <2>3, <2>4
<1>. QED
    BY <1>1, InitTyped, NextTyped, InitRotation, NextRotation, PTL DEF Spec

-----------------------------------------------------------------------------
(* Whose tokens a session has, and what becomes of the cookie.              *)

LEMMA NextOwners == Typed /\ OwnersInv /\ [Next]_vars => OwnersInv'
<1>. SUFFICES ASSUME Typed, OwnersInv, [Next]_vars PROVE OwnersInv'
    OBVIOUS
<1>1. /\ \A i, j \in Tokens : Session(i) = Session(j) => UserOf(i) = UserOf(j)
      /\ \A i \in Tokens : ~users[UserOf(i)].row => refreshTokens[i].state = "gone"
      /\ \A i \in Tokens : UserOf(i) \in User
    BY Carried DEF OwnersInv, UserOf, TokenRow
<1>2. ASSUME SameRows,
             \A i \in Tokens : ~users'[UserOf(i)].row => refreshTokens'[i].state = "gone"
      PROVE  OwnersInv'
    BY <1>1, <1>2, SameSessions DEF OwnersInv, UserOf, UserAfter
<1>3. ASSUME refreshTokens' = refreshTokens, \A u \in User : users[u].row => users'[u].row
      PROVE  OwnersInv'
  <2>1. SameRows
    BY <1>3 DEF SameRows, Typed
  <2>. QED
    BY <1>1, <1>2, <1>3, <2>1
<1>4. CASE UNCHANGED vars
    BY <1>3, <1>4 DEF vars, store
<1>5. CASE \E t \in Tab : Unlink(t)
    BY <1>3, <1>5 DEF Unlink
<1>6. CASE Clients
    BY <1>3, <1>6, ClientsStep DEF store
<1>7. ASSUME NEW f \in F, Serve(f) PROVE OwnersInv'
  <2>1. \A u \in User : users[u].row => users'[u].row
    BY <1>7, ServeKinds
  <2>2. CASE refreshTokens' = refreshTokens
    BY <1>3, <2>1, <2>2
  <2>3. CASE RefreshSpend(f) \/ RevokeToken(f)
    <3>1. SameRows /\ \A i \in Tokens : refreshTokens[i].state = "gone" =>
                                           refreshTokens'[i].state = "gone"
      BY <2>3, RefreshSpendStep, RevokeTokenStep DEF Live
    <3>. QED
      BY <1>1, <1>2, <2>1, <3>1
  <2>4. CASE IssueTokens(f) /\ Issues(f)
    <3>. DEFINE new == Len(refreshTokens) + 1
                old == flight[f].token
                s == IF old = 0 THEN new ELSE Session(old)
    <3>1. /\ new \notin Tokens /\ Tokens' = Tokens \cup {new}
          /\ \A j \in Tokens : refreshTokens'[j] = refreshTokens[j]
          /\ refreshTokens'[new].session = s
          /\ refreshTokens'[new].user = flight[f].who
          /\ users[flight[f].who].row /\ flight[f].who \in User
      <4>1. Len(refreshTokens) \in Nat /\ Tokens = 1 .. Len(refreshTokens)
        BY Rows DEF Tokens
      <4>2. DOMAIN refreshTokens' = 1 .. new
        BY <2>4, <4>1 DEF Issues
      <4>. QED
        BY <2>4, <4>1, <4>2, IssueTokensStep DEF Issues, Tokens
    <3>2. old = 0 \/ (old \in Tokens /\ UserOf(old) = flight[f].who)
      BY <2>4, IssueTokensStep, Carried DEF ReadyToIssue, At, Typed, Sound, UserOf
    <3>. HIDE DEF new
    <3>3. \A j \in Tokens : /\ refreshTokens'[j].session = Session(j)
                            /\ Session(j) \in Tokens /\ refreshTokens'[j].user = UserOf(j)
      BY <3>1, Carried DEF Session, UserOf
    <3>4. \A j \in Tokens : Session(j) = s => UserOf(j) = flight[f].who
      BY <1>1, <3>1, <3>2, <3>3
    <3>. HIDE DEF s
    <3>5. \A i, j \in Tokens' :
             refreshTokens'[i].session = refreshTokens'[j].session =>
                refreshTokens'[i].user = refreshTokens'[j].user
      BY <1>1, <3>1, <3>3, <3>4
    <3>6. \A i \in Tokens' : ~users'[refreshTokens'[i].user].row =>
                                refreshTokens'[i].state = "gone"
      BY <1>1, <2>1, <3>1, <3>3
    <3>. QED
      BY <3>5, <3>6 DEF OwnersInv, Session
  <2>. QED
    BY <1>7, <2>2, <2>3, <2>4, ServeKinds
<1>8. CASE Elsewhere
  <2>1. users \in [User -> Row]
    BY DEF Typed, TypeOK
  <2>2. ASSUME NEW u \in User, RemoveUser(u) PROVE OwnersInv'
    <3>1. \A v \in User \ {u} : users'[v] = users[v]
      BY <2>1, <2>2 DEF RemoveUser
    <3>. QED
      BY <1>1, <1>2, <2>2, <3>1, RemovedRows DEF UserOf
  <2>3. ASSUME NEW u \in User, NEW r \in Role, SetRole(u, r) PROVE OwnersInv'
    <3>. DEFINE row == [users[u] EXCEPT !.role = r]
    <3>1. row.row <=> users[u].row
      BY <2>1 DEF Row
    <3>2. refreshTokens' = refreshTokens /\ users' = [users EXCEPT ![u] = row]
      BY <2>3 DEF SetRole
    <3>. HIDE DEF row
    <3>. QED
      BY <1>3, <2>1, <3>1, <3>2
  <2>4. ASSUME NEW u \in User, CreateLocal(u) PROVE OwnersInv'
    <3>1. /\ refreshTokens' = refreshTokens /\ ~users[u].row
          /\ \A v \in User \ {u} : users'[v] = users[v]
      BY <2>1, <2>4 DEF CreateLocal
    <3>. QED
      BY <1>3, <3>1
  <2>5. CASE SyncUpsert
    <3>. DEFINE row(u) == IF u \in sync.members THEN Upserted(u, TRUE) ELSE users[u]
    <3>1. \A u \in User : users[u].row => row(u).row
      BY <2>1 DEF Upserted, Row
    <3>2. refreshTokens' = refreshTokens /\ users' = [u \in User |-> row(u)]
      BY <2>5 DEF SyncUpsert
    <3>. HIDE DEF row
    <3>. QED
      BY <1>3, <3>1, <3>2
  <2>6. CASE SyncDeactivate
    <3>. DEFINE off(u) == [users[u] EXCEPT !.isActive = FALSE, !.isStaff = FALSE]
    <3>1. \A u \in User : users[u].row => off(u).row
      BY <2>1 DEF Row
    <3>2. /\ refreshTokens' = refreshTokens
          /\ users' = [u \in User |-> IF u \in StaleStaff THEN off(u) ELSE users[u]]
      BY <2>6 DEF SyncDeactivate
    <3>. HIDE DEF off
    <3>. QED
      BY <1>3, <3>1, <3>2
  <2>7. CASE UNCHANGED <<users, refreshTokens>>
    BY <1>3, <2>7
  <2>. QED
    BY <1>8, <2>2, <2>3, <2>4, <2>5, <2>6, <2>7
    DEF Elsewhere, SetMaintenance, DirectoryChanges, SyncFetch, Tick, store
<1>. QED
    BY <1>4, <1>5, <1>6, <1>7, <1>8, Cases

LEMMA InitOwners == Init => OwnersInv
BY DEF Init, OwnersInv, Tokens

\* A step that brings no answer, gives no token away twice, and revokes none
\* that an answer on its way carries.
LEMMA FreshKept ==
    ASSUME Typed, CookieInv,
           \A g \in F : flight'[g].stage = "issued" =>
              flight[g].stage = "issued" /\ flight'[g].token = flight[g].token,
           \A g \in F : flight'[g].token \in {flight[g].token, 0, cookie},
           \/ cookie' \in {cookie, 0}
           \/ \E f \in F : /\ flight[f].stage = "issued" /\ flight'[f].stage # "issued"
                           /\ cookie' = flight[f].token,
           \A g \in F : /\ flight[g].stage = "issued"
                        /\ refreshTokens[flight[g].token].state \in {"live", "gone"}
                        => refreshTokens'[flight[g].token].state \in {"live", "gone"}
    PROVE  \A g \in F : Fresh(g)'
<1>. SUFFICES ASSUME NEW g \in F, flight'[g].stage = "issued" PROVE Fresh(g)'
    BY DEF Fresh
<1>1. /\ flight[g].stage = "issued" /\ flight'[g].token = flight[g].token
      /\ flight[g].token # 0
    BY Carried
<1>2. /\ refreshTokens[flight[g].token].state \in {"live", "gone"}
      /\ cookie # flight[g].token
      /\ \A h \in F \ {g} : flight[h].token # flight[g].token
    BY <1>1 DEF CookieInv, Fresh
<1>3. cookie' # flight[g].token
    BY <1>1, <1>2
<1>4. \A h \in F \ {g} : flight'[h].token # flight[g].token
    BY <1>1, <1>2
<1>. QED
    BY <1>1, <1>2, <1>3, <1>4 DEF Fresh

\* A step that leaves the cookie, and revokes no token without need.
LEMMA FollowsKept ==
    ASSUME Typed, CookieInv, cookie' = cookie,
           \A i \in Tokens : Session(i)' = Session(i),
           ended \subseteq ended', stranded \subseteq stranded',
           cookie \in Tokens /\ refreshTokens'[cookie].state = "revoked" =>
              refreshTokens[cookie].state = "revoked",
           \A g \in F : Bringing(g) /\ cookie \in Tokens
                        /\ refreshTokens[cookie].state = "revoked"
                        /\ FlightSession(g) = Session(cookie) =>
              \/ Bringing(g)' /\ FlightSession(g)' = FlightSession(g)
              \/ FlightSession(g) \in stranded'
    PROVE  CookieFollows'
<1>. SUFFICES ASSUME cookie # 0, refreshTokens'[cookie].state = "revoked"
              PROVE  \/ Session(cookie) \in ended' \cup stranded'
                     \/ \E f \in F : Bringing(f)' /\ FlightSession(f)' = Session(cookie)
    BY Carried DEF CookieFollows
<1>1. cookie \in Tokens /\ refreshTokens[cookie].state = "revoked"
    BY Carried
<1>. QED
    BY <1>1 DEF CookieInv, CookieFollows

LEMMA CookieServe ==
    ASSUME Typed, OwnersInv, CookieInv, NEW f \in F, Serve(f)
    PROVE  CookieInv'
<1>1. /\ cookie' = cookie /\ stranded' = stranded
      /\ \A g \in F \ {f} : flight'[g] = flight[g]
      /\ flight'[f].kind = flight[f].kind
    BY ServeKinds
<1>2. \A g \in F \ {f} : Bringing(g)' <=> Bringing(g)
    BY <1>1 DEF Bringing, Renewing
<1>3. /\ 0 \notin Tokens
      /\ cookie = 0 \/ cookie \in Tokens
      /\ \A g \in F : flight[g].token = 0 \/ flight[g].token \in Tokens
    BY Carried
\* The request is refused, or it moves on without touching a token.
<1>4. CASE /\ UNCHANGED <<refreshTokens, ended, raced>>
           /\ flight'[f].token \in {flight[f].token, 0}
           /\ flight'[f].stage # "issued"
           /\ Bringing(f) => ~users[flight[f].who].row
  <2>1. \A g \in F : Fresh(g)'
    BY <1>1, <1>4, FreshKept
  <2>2. \A g \in F \ {f} : FlightSession(g)' = FlightSession(g)
    BY <1>1, <1>4 DEF FlightSession, Session
  <2>3. Bringing(f) /\ cookie \in Tokens /\ FlightSession(f) = Session(cookie) =>
           refreshTokens[cookie].state = "gone"
    <3>1. Bringing(f) => /\ flight[f].token \in Tokens
                         /\ refreshTokens[flight[f].token].user = flight[f].who
      BY Carried DEF Bringing, Rotating
    <3>. QED
      BY <1>4, <3>1 DEF OwnersInv, FlightSession
  <2>4. CookieFollows'
    BY <1>1, <1>2, <1>4, <2>2, <2>3, FollowsKept DEF Session
  <2>. QED
    BY <2>1, <2>4 DEF CookieInv
<1>5. CASE /\ UNCHANGED <<refreshTokens, ended>> /\ flight[f].stage = "sent"
           /\ MovesOn(f, "checked", flight'[f].who, flight'[f].rights)
  <2>1. flight'[f].token = flight[f].token /\ flight'[f].stage = "checked"
    BY <1>5 DEF MovesOn
  <2>2. \A g \in F : Fresh(g)'
    BY <1>1, <1>5, <2>1, FreshKept
  <2>3. \A g \in F : FlightSession(g)' = FlightSession(g)
    BY <1>1, <1>5, <2>1 DEF FlightSession, Session
  <2>4. ~Bringing(f)
    BY <1>5 DEF Bringing
  <2>5. CookieFollows'
    BY <1>1, <1>2, <1>5, <2>3, <2>4, FollowsKept DEF Session
  <2>. QED
    BY <2>2, <2>5 DEF CookieInv
<1>6. CASE RefreshSpend(f) /\ ~Refuses(f) /\ UNCHANGED ended
  <2>. DEFINE i == flight[f].token
  <2>1. /\ SameRows /\ i \in Tokens /\ flight[f].stage = "checked" /\ Renewing(f)
        /\ \A j \in Tokens \ {i} : refreshTokens'[j] = refreshTokens[j]
        /\ flight'[f].token = i /\ flight'[f].stage = "spent"
    BY <1>6, RefreshSpendStep DEF MovesOn, Renewing
  <2>2. \A j \in Tokens : Session(j)' = Session(j)
    BY <2>1, SameSessions
  <2>3. \A g \in F : flight[g].stage = "issued" =>
                        flight[g].token # i /\ flight[g].token \in Tokens
    BY <2>1, Carried DEF CookieInv, Fresh
  <2>4. \A g \in F : Fresh(g)'
    BY <1>1, <2>1, <2>3, FreshKept
  <2>5. Bringing(f)' /\ FlightSession(f)' = Session(i)
    BY <1>1, <2>1, <2>2 DEF Bringing, Renewing, FlightSession, Session
  <2>6. \A g \in F \ {f} : Bringing(g) => FlightSession(g)' = FlightSession(g)
    BY <1>1, <2>2, Carried DEF Bringing, Rotating, FlightSession, Session
  <2>7. CASE cookie = i
    <3>1. FlightSession(f)' = Session(cookie)'
      BY <1>1, <2>1, <2>2, <2>5, <2>7
    <3>. QED
      BY <2>4, <2>5, <3>1 DEF CookieInv, CookieFollows
  <2>8. CASE cookie # i
    <3>1. ~Bringing(f)
      BY <2>1 DEF Bringing
    <3>2. CookieFollows'
      BY <1>1, <1>2, <1>6, <2>1, <2>2, <2>6, <2>8, <3>1, FollowsKept
    <3>. QED
      BY <2>4, <3>2 DEF CookieInv
  <2>. QED
    BY <2>7, <2>8
<1>7. CASE IssueTokens(f) /\ Issues(f) /\ UNCHANGED <<ended, raced>>
  <2>. DEFINE new == Len(refreshTokens) + 1
              old == flight[f].token
  <2>1. /\ new \notin Tokens /\ new # 0 /\ Tokens' = Tokens \cup {new}
        /\ \A j \in Tokens : refreshTokens'[j] = refreshTokens[j]
        /\ refreshTokens'[new].session = (IF old = 0 THEN new ELSE Session(old))
        /\ refreshTokens'[new].state = "live"
        /\ flight'[f].token = new /\ flight'[f].stage = "issued"
    <3>1. Len(refreshTokens) \in Nat /\ Tokens = 1 .. Len(refreshTokens)
      BY Rows DEF Tokens
    <3>2. DOMAIN refreshTokens' = 1 .. new
      BY <1>7, <3>1 DEF Issues
    <3>. QED
      BY <1>7, <3>1, <3>2 DEF Issues, Tokens
  <2>. HIDE DEF new
  <2>2. \A j \in Tokens : Session(j)' = Session(j)
    BY <2>1 DEF Session
  <2>3. Fresh(f)'
    BY <1>1, <1>3, <2>1 DEF Fresh
  <2>4. ASSUME NEW g \in F \ {f}, flight'[g].stage = "issued" PROVE Fresh(g)'
    <3>1. /\ flight[g].stage = "issued" /\ flight'[g] = flight[g]
          /\ flight[g].token \in Tokens
      BY <1>1, <2>4, Carried
    <3>2. Fresh(g)
      BY DEF CookieInv
    <3>. QED
      BY <1>1, <2>1, <3>1, <3>2 DEF Fresh
  <2>5. Bringing(f) => Bringing(f)' /\ FlightSession(f)' = FlightSession(f)
    <3>1. Bringing(f) => old # 0 /\ old \in Tokens
      BY <1>3, Carried DEF Bringing, Rotating
    <3>2. Bringing(f) => Bringing(f)'
      BY <1>1, <2>1 DEF Bringing, Renewing
    <3>. QED
      BY <2>1, <3>1, <3>2 DEF FlightSession, Session
  <2>6. \A g \in F \ {f} : Bringing(g) => FlightSession(g)' = FlightSession(g)
    BY <1>1, <2>1, Carried DEF Bringing, Rotating, FlightSession, Session
  <2>7. CookieFollows'
    BY <1>1, <1>2, <1>7, <2>1, <2>2, <2>5, <2>6, FollowsKept
  <2>. QED
    BY <2>3, <2>4, <2>7 DEF CookieInv, Fresh
<1>8. CASE RevokeToken(f)
  <2>1. /\ SameRows /\ flight[f].kind = "logout" /\ flight'[f].stage \in Still
    BY <1>8, RevokeTokenStep
  <2>2. ~Bringing(f) /\ \A j \in Tokens : Session(j)' = Session(j)
    BY <2>1, SameSessions DEF Bringing, Renewing
  <2>3. \A g \in F \ {f} : Bringing(g) => FlightSession(g)' = FlightSession(g)
    BY <1>1, <2>2, Carried DEF Bringing, Rotating, FlightSession, Session
  <2>4. flight'[f].token \in {flight[f].token, 0}
    <3>1. CASE Refuses(f)
      <4>1. flight'[f] = RefusedOf(flight[f])
        BY <3>1, Rows DEF Refuses
      <4>. QED
        BY <4>1 DEF RefusedOf, Idle
    <3>2. CASE To(f, "done")
      BY <3>2, Rows DEF To, FlightState
    <3>. QED
      BY <1>8, <3>1, <3>2 DEF RevokeToken, Refuse, Refuses, RefusedOf
  <2>5. CASE UNCHANGED <<refreshTokens, ended, raced>>
    <3>1. \A g \in F : Fresh(g)'
      BY <1>1, <2>1, <2>4, <2>5, FreshKept DEF Still
    <3>2. CookieFollows'
      BY <1>1, <1>2, <2>2, <2>3, <2>5, FollowsKept
    <3>. QED
      BY <3>1, <3>2 DEF CookieInv
  <2>6. ASSUME NEW i \in Tokens, i = flight[f].token,
               \A j \in Tokens \ {i} : refreshTokens'[j] = refreshTokens[j],
               ended' = ended \cup {Session(i)}
        PROVE  CookieInv'
    <3>1. \A g \in F \ {f} : flight[g].stage = "issued" =>
                                flight[g].token # i /\ flight[g].token \in Tokens
      BY <2>6, Carried DEF CookieInv, Fresh
    <3>2. \A g \in F \ {f} : flight[g].stage = "issued" =>
             refreshTokens'[flight[g].token] = refreshTokens[flight[g].token]
      BY <2>6, <3>1
    <3>3. flight[f].stage # "issued"
      BY <2>1 DEF Typed, Sound
    <3>4. \A g \in F : Fresh(g)'
      BY <1>1, <2>1, <2>4, <3>2, <3>3, FreshKept DEF Still
    <3>5. CASE cookie = i
      BY <1>1, <2>2, <2>6, <3>4, <3>5 DEF CookieInv, CookieFollows
    <3>6. CASE cookie # i
      <4>1. CookieFollows'
        BY <1>1, <1>2, <2>2, <2>3, <2>6, <3>6, FollowsKept
      <4>. QED
        BY <3>4, <4>1 DEF CookieInv
    <3>. QED
      BY <3>5, <3>6
  <2>. QED
    BY <1>8, <2>5, <2>6, RevokeTokenStep
<1>. QED
    BY <1>4, <1>5, <1>6, <1>7, <1>8, ServeKinds

\* An answer brings the cookie its token, which is nobody else's.
LEMMA CookieAnswered ==
    ASSUME Typed, CookieInv, NEW f \in F, flight[f].stage = "issued",
           cookie' = flight[f].token, flight' = [flight EXCEPT ![f] = Idle],
           refreshTokens' = refreshTokens
    PROVE  CookieInv'
<1>1. flight'[f] = Idle /\ \A g \in F \ {f} : flight'[g] = flight[g]
    BY Leaves
<1>2. Idle.stage = "done" /\ Idle.token = 0
    BY DEF Idle
<1>3. \A g \in F : Fresh(g)'
    BY <1>1, <1>2, FreshKept
<1>4. refreshTokens'[cookie'].state # "revoked"
    BY DEF CookieInv, Fresh
<1>. QED
    BY <1>3, <1>4 DEF CookieInv, CookieFollows

\* A request is sent, breaks off, or leaves its slot: the cookie stays, and
\* whoever renews its session still does, or has left it stranded.
LEMMA CookieSent ==
    ASSUME Typed, CookieInv, cookie' \in {cookie, 0},
           UNCHANGED <<refreshTokens, ended>>, stranded \subseteq stranded',
           \A g \in F : \/ flight'[g] = flight[g]
                        \/ /\ flight'[g].stage \in Still
                           /\ flight'[g].token \in {flight[g].token, 0, cookie}
                           /\ Bringing(g) => FlightSession(g) \in stranded'
                        \/ flight'[g] = Unheard(flight[g]) /\ ~Renewing(g)
    PROVE  CookieInv'
<1>1. \A g \in F : flight'[g] = Unheard(flight[g]) =>
         flight'[g].stage = flight[g].stage /\ flight'[g].token = flight[g].token
    BY Rows DEF Unheard, FlightState
<1>2. \A g \in F : Fresh(g)'
    BY <1>1, FreshKept DEF Still
<1>3. \A g \in F : Bringing(g) => \/ Bringing(g)' /\ FlightSession(g)' = FlightSession(g)
                                 \/ FlightSession(g) \in stranded'
    BY DEF Bringing, Renewing, FlightSession, Session
<1>4. CASE cookie' = cookie
  <2>1. CookieFollows'
    BY <1>3, <1>4, FollowsKept DEF Session
  <2>. QED
    BY <1>2, <2>1 DEF CookieInv
<1>5. CASE cookie' = 0
    BY <1>2, <1>5 DEF CookieInv, CookieFollows
<1>. QED
    BY <1>4, <1>5

LEMMA CookieFailed ==
    ASSUME Typed, CookieInv, NEW t \in Tab, NEW s \in Slot, Failed(t, s),
           flight[<<t, s>>].kind # "none",
           UNCHANGED <<refreshTokens, ended>>, stranded \subseteq stranded',
           Bringing(<<t, s>>) => FlightSession(<<t, s>>) \in stranded'
    PROVE  CookieInv'
<1>. DEFINE f == <<t, s>>
            a == <<t, "session">>
            b == <<t, "form">>
            again == WithCookie("restore")
            max == Request("max")
<1>1. f \in F /\ a \in F /\ b \in F /\ a # b /\ DOMAIN flight = F /\ cookie' = cookie
    BY Slots, Rows DEF Failed
<1>2. /\ Idle.stage = "done" /\ Idle.token = 0 /\ max.stage = "sent" /\ max.token = 0
      /\ again.stage = "sent" /\ again.token = cookie
    BY DEF Idle, Request, WithCookie
<1>. HIDE DEF again, max
<1>3. ~Renewing(b)
    BY <1>1, Slots DEF Typed, Sound, Renewing
<1>4. CASE flight' = [flight EXCEPT ![f] = Idle]
    BY <1>1, <1>2, <1>4, CookieSent DEF Still
<1>5. CASE s = "session" /\ flight' = [flight EXCEPT ![a] = Idle, ![b] = max]
  <2>1. /\ flight'[a] = Idle /\ flight'[b] = max
        /\ \A g \in F \ {a, b} : flight'[g] = flight[g]
    BY <1>1, <1>5
  <2>. QED
    BY <1>1, <1>2, <1>3, <1>5, <2>1, CookieSent DEF Still, Bringing
<1>6. ASSUME s = "session", NEW form \in {Idle, Unheard(flight[b])},
             flight' = [flight EXCEPT ![a] = again, ![b] = form]
      PROVE  CookieInv'
  <2>1. /\ flight'[a] = again /\ flight'[b] = form
        /\ \A g \in F \ {a, b} : flight'[g] = flight[g]
    BY <1>1, <1>6
  <2>. QED
    BY <1>1, <1>2, <1>3, <1>6, <2>1, CookieSent DEF Still, Bringing
<1>. QED
    BY <1>4, <1>5, <1>6, FailedDoes DEF again, max

LEMMA CookieClients ==
    ASSUME Typed, CookieInv, Clients
    PROVE  CookieInv'
<1>1. DOMAIN flight = F /\ UNCHANGED <<refreshTokens, ended>>
    BY ClientsStep, Rows DEF store
<1>2. \A t \in Tab : <<t, "session">> \in F /\ <<t, "form">> \in F
    BY Slots
<1>3. ASSUME NEW f \in F, NEW q, flight' = [flight EXCEPT ![f] = q],
             q.stage \in Still, q.token \in {0, cookie},
             cookie' \in {cookie, 0}, stranded \subseteq stranded',
             Bringing(f) => FlightSession(f) \in stranded'
      PROVE  CookieInv'
    BY <1>1, <1>3, CookieSent
<1>4. ASSUME NEW k, NEW u
      PROVE  /\ Request(k).stage \in Still /\ Request(k).token = 0
             /\ WithCookie(k).stage \in Still /\ WithCookie(k).token = cookie
             /\ [Request(k) EXCEPT !.who = u].stage \in Still
             /\ [Request(k) EXCEPT !.who = u].token = 0
    BY DEF Request, WithCookie, Still
<1>5. ASSUME NEW t \in Tab, NEW l \in {"web", "max"}, Load(t, l) PROVE CookieInv'
  <2>1. /\ UNCHANGED <<cookie, stranded>>
        /\ ~Bringing(<<t, "session">>) /\ ~Bringing(<<t, "form">>)
    BY <1>5 DEF Load, Free, Bringing, Renewing, history
  <2>. DEFINE m == Request("max")
              q == WithCookie("restore")
  <2>2. /\ m.stage \in Still /\ m.token = 0 /\ q.stage \in Still /\ q.token = cookie
    BY <1>4
  <2>3. \/ flight' = [flight EXCEPT ![<<t, "form">>] = m]
        \/ flight' = [flight EXCEPT ![<<t, "session">>] = q]
    BY <1>5 DEF Load, FirstRequest
  <2>. HIDE DEF m, q
  <2>4. CASE flight' = [flight EXCEPT ![<<t, "form">>] = m]
    BY <1>2, <1>3, <2>1, <2>2, <2>4
  <2>5. CASE flight' = [flight EXCEPT ![<<t, "session">>] = q]
    BY <1>2, <1>3, <2>1, <2>2, <2>5
  <2>. QED
    BY <2>3, <2>4, <2>5
<1>6. ASSUME NEW t \in Tab, NEW u \in User, Submit(t, u) PROVE CookieInv'
  <2>1. /\ UNCHANGED <<cookie, stranded>> /\ ~Bringing(<<t, "form">>)
    BY <1>6 DEF Submit, Free, Bringing, Renewing, history, client
  <2>2. PICK q : /\ q.stage \in Still /\ q.token = 0
                 /\ flight' = [flight EXCEPT ![<<t, "form">>] = q]
    BY <1>4, <1>6 DEF Submit
  <2>. QED
    BY <1>2, <1>3, <2>1, <2>2
<1>7. ASSUME NEW t \in Tab, NEW c \in Call, CallRefused(t, c) PROVE CookieInv'
  <2>1. UNCHANGED <<cookie, stranded>>
    BY <1>7 DEF CallRefused, history
  <2>2. CASE UNCHANGED flight
    BY <1>1, <2>1, <2>2, CookieSent
  <2>. DEFINE q == WithCookie("refresh")
  <2>3. CASE Free(t, "session") /\ flight' = [flight EXCEPT ![<<t, "session">>] = q]
    <3>1. ~Bringing(<<t, "session">>) /\ q.stage \in Still /\ q.token = cookie
      BY <1>4, <2>3 DEF Free, Bringing, Renewing
    <3>. HIDE DEF q
    <3>. QED
      BY <1>2, <1>3, <2>1, <2>3, <3>1
  <2>. QED
    BY <1>7, <2>2, <2>3 DEF CallRefused
<1>8. ASSUME NEW t \in Tab, Logout(t) PROVE CookieInv'
  <2>. DEFINE q == WithCookie("logout")
  <2>1. /\ UNCHANGED <<cookie, stranded>> /\ ~Bringing(<<t, "form">>)
        /\ flight' = [flight EXCEPT ![<<t, "form">>] = q]
        /\ q.stage \in Still /\ q.token = cookie
    BY <1>4, <1>8 DEF Logout, Free, Bringing, Renewing, history, client
  <2>. HIDE DEF q
  <2>. QED
    BY <1>2, <1>3, <2>1
<1>9. ASSUME NEW t \in Tab, LoggedOut(t) PROVE CookieInv'
  <2>1. /\ cookie' = 0 /\ UNCHANGED stranded /\ ~Bringing(<<t, "form">>)
        /\ flight' = [flight EXCEPT ![<<t, "form">>] = Idle]
        /\ Idle.stage \in Still /\ Idle.token = 0
    BY <1>9 DEF LoggedOut, Bringing, Renewing, history, Idle, Still
  <2>. QED
    BY <1>2, <1>3, <2>1
<1>10. ASSUME NEW t \in Tab, LetIn(t) \/ Restored(t) \/ Refreshed(t) PROVE CookieInv'
    BY <1>1, <1>2, <1>10, CookieAnswered DEF LetIn, Restored, Refreshed
<1>11. ASSUME NEW t \in Tab, NEW s \in Slot, Refused(t, s) PROVE CookieInv'
  <2>1. /\ UNCHANGED stranded /\ ~Bringing(<<t, s>>)
        /\ flight[<<t, s>>].kind # "none" /\ Failed(t, s)
    BY <1>11 DEF Refused, Bringing, history
  <2>. QED
    BY <1>1, <2>1, CookieFailed
<1>12. ASSUME NEW t \in Tab, NEW s \in Slot, Lost(t, s) PROVE CookieInv'
  <2>1. /\ stranded \subseteq stranded'
        /\ flight[<<t, s>>].kind # "none" /\ Failed(t, s)
        /\ flight[<<t, s>>].token # 0 => FlightSession(<<t, s>>) \in stranded'
    BY <1>12 DEF Lost, FlightSession
  <2>2. Bringing(<<t, s>>) => flight[<<t, s>>].token # 0
    BY Slots, Carried DEF Bringing, Rotating
  <2>. QED
    BY <1>1, <2>1, <2>2, CookieFailed
<1>13. ASSUME NEW f \in F, Crash(f) PROVE CookieInv'
  <2>. DEFINE q == RefusedOf(flight[f])
  <2>1. /\ cookie' = cookie /\ stranded \subseteq stranded'
        /\ flight' = [flight EXCEPT ![f] = q]
        /\ flight[f].stage # "issued"
        /\ flight[f].stage = "spent" /\ flight[f].token # 0 => FlightSession(f) \in stranded'
    BY <1>13 DEF Crash, Pending, Refuse, RefusedOf, FlightSession, client
  <2>2. q.stage \in Still /\ q.token = 0
    BY DEF RefusedOf, Idle, Still
  <2>. HIDE DEF q
  <2>3. Bringing(f) => flight[f].token # 0 /\ flight[f].stage = "spent"
    BY <2>1, Carried DEF Bringing, Rotating
  <2>. QED
    BY <1>3, <2>1, <2>2, <2>3
<1>. QED
    BY <1>5, <1>6, <1>7, <1>8, <1>9, <1>10, <1>11, <1>12, <1>13 DEF Clients, Answer

LEMMA NextCookie == Typed /\ OwnersInv /\ CookieInv /\ [Next]_vars => CookieInv'
<1>. SUFFICES ASSUME Typed, OwnersInv, CookieInv, [Next]_vars PROVE CookieInv'
    OBVIOUS
<1>1. ASSUME UNCHANGED <<flight, cookie, ended, stranded>>, SameRows,
             \A i \in Tokens : refreshTokens'[i].state \in {refreshTokens[i].state, "gone"}
      PROVE  CookieInv'
  <2>1. \A g \in F : Fresh(g)'
    BY <1>1, FreshKept, Carried
  <2>2. \A g \in F : Bringing(g) => Bringing(g)' /\ FlightSession(g)' = FlightSession(g)
    BY <1>1, SameSessions, Carried DEF Bringing, Rotating, Renewing, FlightSession, Session
  <2>3. CookieFollows'
    BY <1>1, <2>2, SameSessions, FollowsKept
  <2>. QED
    BY <2>1, <2>3 DEF CookieInv
<1>2. refreshTokens' = refreshTokens => SameRows
    BY DEF SameRows, Typed
<1>3. CASE UNCHANGED vars
    BY <1>1, <1>2, <1>3 DEF vars, store, client, history
<1>4. CASE \E t \in Tab : Unlink(t)
    BY <1>1, <1>2, <1>4 DEF Unlink, client, history
<1>5. CASE Elsewhere
  <2>1. UNCHANGED <<flight, cookie, ended, stranded>> /\ SameRows
    BY <1>5, ElsewhereStep
    DEF Elsewhere, SetRole, RemoveUser, CreateLocal, SetMaintenance,
        DirectoryChanges, SyncFetch, SyncUpsert, SyncDeactivate, Tick, client
  <2>2. \A i \in Tokens : refreshTokens'[i].state \in {refreshTokens[i].state, "gone"}
    BY <1>5, RemovedRows
    DEF Elsewhere, SetRole, CreateLocal, SetMaintenance,
        DirectoryChanges, SyncFetch, SyncUpsert, SyncDeactivate, Tick, store
  <2>. QED
    BY <1>1, <2>1, <2>2
<1>. QED
    BY <1>3, <1>4, <1>5, Cases, CookieServe, CookieClients

LEMMA InitCookie == Init => CookieInv
<1>. SUFFICES ASSUME Init PROVE CookieInv
    OBVIOUS
<1>1. cookie = 0 /\ \A f \in F : flight[f].stage = "done"
    BY DEF Init, F, Idle
<1>. QED
    BY <1>1 DEF CookieInv, Fresh, CookieFollows

\* Tabs that refresh at the same time strand nobody: once no request is in
\* flight, the browser's cookie is a live token, unless its session was logged
\* out, its user removed, or an answer to one of its refreshes was lost
\* (auth.service.ts: refresh; client.ts: refreshAccessToken).
THEOREM RacingRefreshesStrandNobody == Spec => []CookieIsLive
<1>1. Typed /\ CookieInv => CookieIsLive
  <2>. SUFFICES ASSUME Typed, CookieInv, AtRest, cookie # 0,
                       refreshTokens[cookie].state \notin {"live", "gone"}
                PROVE  Session(cookie) \in ended \cup stranded
    BY DEF CookieIsLive
  <2>1. refreshTokens[cookie].state = "revoked"
    BY Carried DEF TokenRow
  <2>2. \A f \in F : ~Bringing(f)
    BY DEF AtRest, F, Bringing, Renewing
  <2>. QED
    BY <2>1, <2>2 DEF CookieInv, CookieFollows
<1>. QED
    BY <1>1, InitTyped, NextTyped, InitOwners, NextOwners, InitCookie, NextCookie,
       PTL DEF Spec

=============================================================================
