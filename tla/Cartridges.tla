----------------------------- MODULE Cartridges -----------------------------
(***************************************************************************)
(* Refilling printer cartridges: CartridgesService, the four digit codes   *)
(* teachers stick on cartridges, and CartridgeReportsService, which sends  *)
(* collected cartridges away in batches and closes a batch as a whole.     *)
(*                                                                         *)
(* As everywhere in the backend, an operation reads, awaits and writes by  *)
(* id, so it is a sequence of steps; the process may crash between two of  *)
(* them.  Who asks is left out: for every operation and every request      *)
(* there is always somebody allowed to (its author, or an administrator).  *)
(* Operators marked "Slip" are plausible mistakes, not the code.           *)
(***************************************************************************)
EXTENDS FiniteSets, Integers

CONSTANTS
    Cartridge,  \* ids of refill requests
    Report,     \* ids of batches
    Code,       \* the codes a label can carry
    Op,         \* how many operations may be in flight at once
    Null

ASSUME CartridgeNullAssumption == Null \notin Code \cup Report

VARIABLES
    cart,       \* the CartridgeRequest table
    report,     \* the CartridgeReport table: the status of each batch
    sheet,      \* the requests listed in each batch's Excel file
    announced,  \* how often the author was told the cartridge is filled
    op,         \* the operations in flight
    past        \* what has ever happened: "overlap", "crash" (history variable)

vars == <<cart, report, sheet, announced, op, past>>

-----------------------------------------------------------------------------
CartStatus == {"NEW", "COLLECTED", "SENT", "FILLED", "CANCELLED"}

ActiveWithoutSent == {"NEW", "COLLECTED"}   \* Slip: forgets the sent ones.

\* The statuses in which a code is still in use.
ActiveStatuses == {"NEW", "COLLECTED", "SENT"}

NoCart == [status |-> "ABSENT", code |-> Null, report |-> Null,
           collectedAt |-> FALSE, arrivedAt |-> FALSE,
           filledAt |-> FALSE, cancelledAt |-> FALSE]

Idle == [kind |-> "none", ids |-> {}, code |-> Null, report |-> Null]

\* An author is told at most twice: a bound of the model.
MaxAnnounced == 2

TypeOK ==
    /\ cart \in [Cartridge ->
            [status : CartStatus \cup {"ABSENT"}, code : Code \cup {Null},
             report : Report \cup {Null}, collectedAt : BOOLEAN,
             arrivedAt : BOOLEAN, filledAt : BOOLEAN, cancelledAt : BOOLEAN]]
    /\ \A c \in Cartridge : cart[c].code = Null <=> cart[c].status = "ABSENT"
    /\ report \in [Report -> {"ABSENT", "GENERATED", "CLOSED"}]
    /\ sheet \in [Report -> SUBSET Cartridge]
    /\ announced \in [Cartridge -> 0 .. MaxAnnounced]
    /\ op \in [Op -> [kind : {"none", "create", "collect", "cancel", "scan",
                              "generate", "attach", "close", "fill", "announce"},
                      ids : SUBSET Cartridge, code : Code \cup {Null},
                      report : Report \cup {Null}]]
    /\ past \subseteq {"overlap", "crash"}

Init ==
    /\ cart = [c \in Cartridge |-> NoCart]
    /\ report = [r \in Report |-> "ABSENT"]
    /\ sheet = [r \in Report |-> {}]
    /\ announced = [c \in Cartridge |-> 0]
    /\ op = [o \in Op |-> Idle]
    /\ past = {}

-----------------------------------------------------------------------------
(* The steps of an operation *)

\* A request arrives and its first read lets it go on.
Begin(o, kind, ids, code, batch) ==
    /\ op[o] = Idle
    /\ op' = [op EXCEPT ![o] =
                [kind |-> kind, ids |-> ids, code |-> code, report |-> batch]]
    /\ past' = IF \E other \in Op \ {o} : op[other] # Idle
               THEN past \cup {"overlap"} ELSE past
    /\ UNCHANGED <<cart, report, sheet, announced>>

Continue(o, next) == op' = [op EXCEPT ![o] = next] /\ UNCHANGED past

Finish(o) == Continue(o, Idle)

\* prisma.cartridgeRequest.updateMany({ where: { id: { in: ids } } })
Update(ids, New(_)) ==
    cart' = [c \in Cartridge |-> IF c \in ids THEN New(cart[c]) ELSE cart[c]]

-----------------------------------------------------------------------------
(* One request: create, collect, cancel, scan on return *)

CodeInUse(k) ==
    \E c \in Cartridge : cart[c].code = k /\ cart[c].status \in ActiveStatuses

\* Random codes are drawn until one is free, at most 20 times; when none was
\* found the request fails, which changes nothing.
CreateRead(o) ==
    \E k \in Code : ~CodeInUse(k) /\ Begin(o, "create", {}, k, Null)

CreateWrite(o) ==
    /\ op[o].kind = "create"
    /\ \E c \in Cartridge :
          /\ cart[c].status = "ABSENT"
          /\ cart' = [cart EXCEPT ![c] =
                        [NoCart EXCEPT !.status = "NEW", !.code = op[o].code]]
    /\ Finish(o)
    /\ UNCHANGED <<report, sheet, announced>>

CollectRead(o, c) ==
    cart[c].status = "NEW" /\ Begin(o, "collect", {c}, Null, Null)

CollectWrite(o) ==
    /\ op[o].kind = "collect"
    /\ Update(op[o].ids, LAMBDA row : [row EXCEPT !.status = "COLLECTED",
                                                  !.collectedAt = TRUE])
    /\ Finish(o)
    /\ UNCHANGED <<report, sheet, announced>>

\* Slip: whatever is not closed yet may be cancelled.
CancelReadUnfinished(o, c) ==
    cart[c].status \in ActiveStatuses /\ Begin(o, "cancel", {c}, Null, Null)

CancelRead(o, c) ==
    cart[c].status = "NEW" /\ Begin(o, "cancel", {c}, Null, Null)

\* Slip: the code is taken off with the cancellation.
CancelClearingCode(row) ==
    [row EXCEPT !.status = "CANCELLED", !.cancelledAt = TRUE, !.code = Null]

CancelledRow(row) == [row EXCEPT !.status = "CANCELLED", !.cancelledAt = TRUE]

CancelWrite(o) ==
    /\ op[o].kind = "cancel"
    /\ Update(op[o].ids, CancelledRow)
    /\ Finish(o)
    /\ UNCHANGED <<report, sheet, announced>>

\* findFirst by code, without an order: any of the matching requests.
ScanRead(o, c) ==
    /\ cart[c].status = "SENT"
    /\ ~cart[c].arrivedAt
    /\ Begin(o, "scan", {c}, Null, Null)

ScanWrite(o) ==
    /\ op[o].kind = "scan"
    /\ Update(op[o].ids, LAMBDA row : [row EXCEPT !.arrivedAt = TRUE])
    /\ Finish(o)
    /\ UNCHANGED <<report, sheet, announced>>

-----------------------------------------------------------------------------
(* Batches *)

GenerateRead(o, ids) ==
    /\ ids # {}
    /\ \A c \in ids : cart[c].status = "COLLECTED"
    /\ Begin(o, "generate", ids, Null, Null)

\* The Excel file is saved, then the batch's row is created: nobody sees the
\* file before the row is there.
GenerateReport(o) ==
    /\ op[o].kind = "generate"
    /\ \E r \in Report :
          /\ report[r] = "ABSENT"
          /\ report' = [report EXCEPT ![r] = "GENERATED"]
          /\ sheet' = [sheet EXCEPT ![r] = op[o].ids]
          /\ Continue(o, [op[o] EXCEPT !.kind = "attach", !.report = r])
    /\ UNCHANGED <<cart, announced>>

\* Slip: everything collected goes along.
AttachCollected(o) ==
    /\ op[o].kind = "attach"
    /\ Update({c \in Cartridge : cart[c].status = "COLLECTED"},
              LAMBDA row : [row EXCEPT !.status = "SENT", !.report = op[o].report])
    /\ Finish(o)
    /\ UNCHANGED <<report, sheet, announced>>

\* The requests are attached by id, whatever has become of them since the read.
GenerateAttach(o) ==
    /\ op[o].kind = "attach"
    /\ Update(op[o].ids, LAMBDA row : [row EXCEPT !.status = "SENT",
                                                  !.report = op[o].report])
    /\ Finish(o)
    /\ UNCHANGED <<report, sheet, announced>>

\* Slip: a closed batch may be closed again.
CloseAnyRead(o, r) ==
    report[r] # "ABSENT" /\ Begin(o, "close", {}, Null, r)

CloseRead(o, r) ==
    report[r] = "GENERATED" /\ Begin(o, "close", {}, Null, r)

InBatch(r) == {c \in Cartridge : cart[c].report = r}

\* The requests to announce are listed before the transaction.
CloseList(o) ==
    /\ op[o].kind = "close"
    /\ Continue(o, [op[o] EXCEPT !.kind = "fill", !.ids = InBatch(op[o].report)])
    /\ UNCHANGED <<cart, report, sheet, announced>>

\* Slip: whatever is out for a refill is filled.
EverythingSent(r) == {c \in Cartridge : cart[c].status = "SENT"}

ToFill(r) == InBatch(r)

\* One transaction: the batch is closed and its requests are filled.
CloseWrite(o) ==
    /\ op[o].kind = "fill"
    /\ report' = [report EXCEPT ![op[o].report] = "CLOSED"]
    /\ Update(ToFill(op[o].report),
              LAMBDA row : [row EXCEPT !.status = "FILLED", !.filledAt = TRUE])
    /\ Continue(o, [op[o] EXCEPT !.kind = "announce"])
    /\ UNCHANGED <<sheet, announced>>

CloseAnnounce(o) ==
    /\ op[o].kind = "announce"
    /\ announced' = [c \in Cartridge |->
            IF c \in op[o].ids /\ announced[c] < MaxAnnounced
            THEN announced[c] + 1 ELSE announced[c]]
    /\ Finish(o)
    /\ UNCHANGED <<cart, report, sheet>>

-----------------------------------------------------------------------------
\* The process dies: what was in flight is lost, the tables stay.
Crash ==
    /\ \E o \in Op : op[o] # Idle
    /\ op' = [o \in Op |-> Idle]
    /\ past' = past \cup {"crash"}
    /\ UNCHANGED <<cart, report, sheet, announced>>

OpStep(o) ==
    \/ CreateRead(o)
    \/ CreateWrite(o)
    \/ \E c \in Cartridge : CollectRead(o, c) \/ CancelRead(o, c) \/ ScanRead(o, c)
    \/ CollectWrite(o)
    \/ CancelWrite(o)
    \/ ScanWrite(o)
    \/ \E ids \in SUBSET Cartridge : GenerateRead(o, ids)
    \/ GenerateReport(o)
    \/ GenerateAttach(o)
    \/ \E r \in Report : CloseRead(o, r)
    \/ CloseList(o)
    \/ CloseWrite(o)
    \/ CloseAnnounce(o)

Next == (\E o \in Op : OpStep(o)) \/ Crash

Spec == Init /\ [][Next]_vars

-----------------------------------------------------------------------------
(* What holds however the operations overlap and whenever the process dies *)

\* A filled cartridge was collected and sent in a batch that is closed: a batch
\* never fills another batch's cartridges.
FilledByItsBatch ==
    \A c \in Cartridge :
        cart[c].status = "FILLED" =>
            /\ cart[c].collectedAt /\ cart[c].filledAt
            /\ cart[c].report # Null
            /\ report[cart[c].report] = "CLOSED"

\* Whatever belongs to a batch is on the list printed for it, also when two
\* batches were generated from the same requests.
SheetListsBatch ==
    \A r \in Report : InBatch(r) \subseteq sheet[r]

-----------------------------------------------------------------------------
(* What holds as long as no two operations have overlapped, crashes or not *)

Serial == "overlap" \notin past

\* A code names one request, from its creation until the cartridge is filled
\* or the request cancelled.
CodeNamesOneRequest ==
    Serial =>
        \A c, d \in Cartridge :
            /\ c # d
            /\ {cart[c].status, cart[d].status} \cap {"ABSENT", "FILLED", "CANCELLED"} = {}
            => cart[c].code # cart[d].code

\* Closing a batch leaves none of its cartridges behind: the author of each
\* request in it is told, once, that it is filled, and no other author is; only
\* a crash may swallow the news.
AuthorToldOnce ==
    Serial =>
        \A c \in Cartridge :
            /\ announced[c] > 0 => cart[c].status = "FILLED"
            /\ announced[c] <= 1
            /\ \/ (cart[c].report # Null /\ report[cart[c].report] = "CLOSED")
                     => announced[c] = 1
               \/ \E o \in Op : op[o].kind = "announce" /\ c \in op[o].ids
               \/ "crash" \in past

\* A request only moves on: it is collected, sent and filled, or cancelled
\* before anybody has collected it.
MovesOn ==
    {<<"ABSENT", "NEW">>, <<"NEW", "COLLECTED">>, <<"NEW", "CANCELLED">>,
     <<"COLLECTED", "SENT">>, <<"SENT", "FILLED">>}

RequestsMoveOn ==
    [][Serial' => \A c \in Cartridge :
          \/ cart'[c].status = cart[c].status
          \/ <<cart[c].status, cart'[c].status>> \in MovesOn]_vars
=============================================================================
