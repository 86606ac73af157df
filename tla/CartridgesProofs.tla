-------------------------- MODULE CartridgesProofs --------------------------
(***************************************************************************)
(* Proofs about Cartridges, for every set of requests, batches, codes and  *)
(* operations in flight, and however often the process dies.               *)
(***************************************************************************)
EXTENDS Cartridges, TLAPS

CartRow ==
    [status : CartStatus \cup {"ABSENT"}, code : Code \cup {Null},
     report : Report \cup {Null}, collectedAt : BOOLEAN,
     arrivedAt : BOOLEAN, filledAt : BOOLEAN, cancelledAt : BOOLEAN]

OpState ==
    [kind : {"none", "create", "collect", "cancel", "scan",
             "generate", "attach", "close", "fill", "announce"},
     ids : SUBSET Cartridge, code : Code \cup {Null}, report : Report \cup {Null}]

-----------------------------------------------------------------------------
(* What holds however operations overlap.  FilledByItsBatch and             *)
(* SheetListsBatch are not inductive: closing a batch fills whatever row    *)
(* names it, and attaching writes rows that were read two awaits ago.  So   *)
(* the invariant also says that a row in a batch has been collected, and    *)
(* that an operation carries only facts that no other operation undoes: a   *)
(* row that exists goes on existing, a row once collected stays so, and the *)
(* sheet of a batch is written once.                                        *)

InBatchCollected(row) ==
    /\ row.report # Null => row.collectedAt /\ report[row.report] # "ABSENT"
    /\ row.collectedAt => row.status # "ABSENT"
    /\ row.status = "COLLECTED" => row.collectedAt

Carries(q) ==
    /\ q.kind = "create" => q.code # Null
    /\ q.kind \in {"attach", "close", "fill", "announce"} => q.report # Null
    /\ q.kind \in {"collect", "cancel", "scan", "generate", "attach"} =>
          \A c \in q.ids : cart[c].status # "ABSENT"
    /\ q.kind \in {"generate", "attach"} => \A c \in q.ids : cart[c].collectedAt
    /\ q.kind = "attach" =>
          report[q.report] # "ABSENT" /\ q.ids \subseteq sheet[q.report]

Inv ==
    /\ TypeOK
    /\ \A c \in Cartridge : InBatchCollected(cart[c])
    /\ \A o \in Op : Carries(op[o])
    /\ FilledByItsBatch
    /\ SheetListsBatch

-----------------------------------------------------------------------------
(* What holds as long as no two operations have overlapped: one operation   *)
(* is in flight at most, what it has read is still so, and the status of a  *)
(* row agrees with that of its batch.                                       *)

Alone == \A o, p \in Op : op[o] # Idle /\ op[p] # Idle => o = p

AgreesWithBatch(row) ==
    /\ row.report # Null <=> row.status \in {"SENT", "FILLED"}
    /\ row.report # Null => (report[row.report] = "CLOSED" <=> row.status = "FILLED")

StillSo(q) ==
    /\ q.kind = "create" => ~CodeInUse(q.code)
    /\ q.kind \in {"collect", "cancel"} => \A c \in q.ids : cart[c].status = "NEW"
    /\ q.kind \in {"generate", "attach"} => \A c \in q.ids : cart[c].status = "COLLECTED"
    /\ q.kind \in {"attach", "close", "fill"} => report[q.report] = "GENERATED"
    /\ q.kind \in {"fill", "announce"} => q.ids = InBatch(q.report)
    /\ q.kind = "announce" => /\ report[q.report] = "CLOSED"
                              /\ \A c \in q.ids : announced[c] = 0

Told(c) ==
    /\ announced[c] > 0 => cart[c].status = "FILLED"
    /\ announced[c] <= 1
    /\ \/ (cart[c].report # Null /\ report[cart[c].report] = "CLOSED")
             => announced[c] = 1
       \/ \E o \in Op : op[o].kind = "announce" /\ c \in op[o].ids
       \/ "crash" \in past

CodesDiffer ==
    \A c, d \in Cartridge :
        c # d /\ cart[c].status \in ActiveStatuses /\ cart[d].status \in ActiveStatuses
        => cart[c].code # cart[d].code

SerialInv ==
    Serial => /\ Alone
              /\ \A c \in Cartridge : AgreesWithBatch(cart[c])
              /\ \A o \in Op : StillSo(op[o])
              /\ CodesDiffer
              /\ \A c \in Cartridge : Told(c)

-----------------------------------------------------------------------------
(* However operations overlap *)

\* What a step never takes away from a row or a batch.
Persists ==
    /\ \A c \in Cartridge :
          /\ cart[c].status # "ABSENT" => cart'[c].status # "ABSENT"
          /\ cart[c].collectedAt => cart'[c].collectedAt
    /\ \A r \in Report : report[r] # "ABSENT" =>
          report'[r] # "ABSENT" /\ sheet'[r] = sheet[r]

\* TypeOK with its records named.
LEMMA Types ==
    TypeOK <=>
        /\ cart \in [Cartridge -> CartRow]
        /\ \A c \in Cartridge : cart[c].code = Null <=> cart[c].status = "ABSENT"
        /\ report \in [Report -> {"ABSENT", "GENERATED", "CLOSED"}]
        /\ sheet \in [Report -> SUBSET Cartridge]
        /\ announced \in [Cartridge -> 0 .. MaxAnnounced]
        /\ op \in [Op -> OpState]
        /\ past \subseteq {"overlap", "crash"}
BY DEF TypeOK, CartRow, OpState

\* An operation that did not move carries what it carried.
LEMMA StillCarries ==
    ASSUME TypeOK, Persists, NEW o \in Op, op'[o] = op[o], Carries(op[o])
    PROVE  Carries(op[o])'
<1>1. op[o] \in OpState
    BY Types
<1>2. op[o].ids \subseteq Cartridge /\ op[o].report \in Report \cup {Null}
    BY <1>1 DEF OpState
<1>. QED
    BY <1>1, <1>2 DEF Carries, Persists

LEMMA IdleSound == Idle \in OpState /\ Carries(Idle)
BY DEF Idle, OpState, Carries

LEMMA InitSound == Init => Inv
<1>. SUFFICES ASSUME Init PROVE Inv
    OBVIOUS
<1>1. TypeOK
    BY IdleSound, Types DEF Init, NoCart, CartRow, CartStatus, MaxAnnounced
<1>2. \A c \in Cartridge : InBatchCollected(cart[c])
    BY DEF Init, NoCart, InBatchCollected
<1>3. \A o \in Op : Carries(op[o])
    BY IdleSound DEF Init
<1>4. FilledByItsBatch
    BY DEF Init, NoCart, FilledByItsBatch
<1>5. SheetListsBatch
    BY CartridgeNullAssumption DEF Init, NoCart, SheetListsBatch, InBatch
<1>. QED
    BY <1>1, <1>2, <1>3, <1>4, <1>5 DEF Inv

\* Beginning an operation writes nothing: it is sound when what it has read is.
LEMMA BeginSound ==
    ASSUME Inv, NEW o \in Op, NEW kind, NEW ids, NEW k, NEW b,
           [kind |-> kind, ids |-> ids, code |-> k, report |-> b] \in OpState,
           Carries([kind |-> kind, ids |-> ids, code |-> k, report |-> b]),
           Begin(o, kind, ids, k, b)
    PROVE  Inv'
<1>. DEFINE q == [kind |-> kind, ids |-> ids, code |-> k, report |-> b]
<1>1. UNCHANGED <<cart, report, sheet, announced>> /\ op' = [op EXCEPT ![o] = q]
    BY DEF Begin
<1>2. TypeOK'
  <2>1. past' \subseteq {"overlap", "crash"}
    BY DEF Begin, Inv, TypeOK
  <2>. HIDE DEF q
  <2>2. op' \in [Op -> OpState]
    BY <1>1, Types DEF Inv, q
  <2>. QED
    BY <1>1, <2>1, <2>2, Types DEF Inv, TypeOK, OpState
<1>3. Persists
    BY <1>1 DEF Persists
<1>4. \A p \in Op : Carries(op[p])'
  <2>. SUFFICES ASSUME NEW p \in Op PROVE Carries(op[p])'
    OBVIOUS
  <2>1. CASE p = o
    <3>1. op'[p] = q
        BY <1>1, <2>1, Types DEF Inv
    <3>. QED
        BY <1>1, <3>1 DEF Carries
  <2>2. CASE p # o
    BY <1>1, <1>3, <2>2, StillCarries, Types DEF Inv
  <2>. QED
    BY <2>1, <2>2
<1>. QED
    BY <1>1, <1>2, <1>4
    DEF Inv, InBatchCollected, FilledByItsBatch, SheetListsBatch, InBatch

LEMMA ReadsSound ==
    ASSUME Inv, NEW o \in Op,
           \/ CreateRead(o)
           \/ \E c \in Cartridge : CollectRead(o, c) \/ CancelRead(o, c) \/ ScanRead(o, c)
           \/ \E ids \in SUBSET Cartridge : GenerateRead(o, ids)
           \/ \E r \in Report : CloseRead(o, r)
    PROVE  Inv'
<1>1. CASE CreateRead(o)
    BY <1>1, BeginSound, CartridgeNullAssumption DEF CreateRead, OpState, Carries
<1>2. ASSUME NEW c \in Cartridge, CollectRead(o, c) PROVE Inv'
    BY <1>2, BeginSound DEF CollectRead, OpState, Carries
<1>3. ASSUME NEW c \in Cartridge, CancelRead(o, c) PROVE Inv'
    BY <1>3, BeginSound DEF CancelRead, OpState, Carries
<1>4. ASSUME NEW c \in Cartridge, ScanRead(o, c) PROVE Inv'
    BY <1>4, BeginSound DEF ScanRead, OpState, Carries
<1>5. ASSUME NEW ids \in SUBSET Cartridge, GenerateRead(o, ids) PROVE Inv'
  <2>1. \A c \in ids : cart[c].collectedAt
    BY <1>5 DEF GenerateRead, Inv, InBatchCollected
  <2>. QED
    BY <1>5, <2>1, BeginSound DEF GenerateRead, OpState, Carries
<1>6. ASSUME NEW r \in Report, CloseRead(o, r) PROVE Inv'
    BY <1>6, BeginSound, CartridgeNullAssumption DEF CloseRead, OpState, Carries
<1>. QED
    BY <1>1, <1>2, <1>3, <1>4, <1>5, <1>6

\* What Inv asks of one row.
RowSound(c, row) ==
    /\ row \in CartRow
    /\ row.code = Null <=> row.status = "ABSENT"
    /\ InBatchCollected(row)
    /\ row.status = "FILLED" =>
          /\ row.collectedAt /\ row.filledAt
          /\ row.report # Null /\ report[row.report] = "CLOSED"
    /\ row.report # Null => c \in sheet[row.report]

LEMMA RowsSound == Inv => \A c \in Cartridge : RowSound(c, cart[c])
BY Types DEF Inv, RowSound, FilledByItsBatch, SheetListsBatch, InBatch, CartRow

\* The rows that collecting, cancelling, scanning and attaching write.
LEMMA RowWritten ==
    ASSUME NEW c \in Cartridge, NEW row \in CartRow,
           RowSound(c, row), row.status # "ABSENT"
    PROVE  /\ RowSound(c, [row EXCEPT !.status = "COLLECTED", !.collectedAt = TRUE])
           /\ RowSound(c, [row EXCEPT !.status = "CANCELLED", !.cancelledAt = TRUE])
           /\ RowSound(c, [row EXCEPT !.arrivedAt = TRUE])
           /\ \A b \in Report :
                 row.collectedAt /\ report[b] # "ABSENT" /\ c \in sheet[b]
                 => RowSound(c, [row EXCEPT !.status = "SENT", !.report = b])
<1>1. ASSUME NEW b \in Report, row.collectedAt, report[b] # "ABSENT", c \in sheet[b]
      PROVE  RowSound(c, [row EXCEPT !.status = "SENT", !.report = b])
    BY <1>1 DEF RowSound, InBatchCollected, CartRow, CartStatus
<1>2. RowSound(c, [row EXCEPT !.status = "COLLECTED", !.collectedAt = TRUE])
    BY DEF RowSound, InBatchCollected, CartRow, CartStatus
<1>3. RowSound(c, [row EXCEPT !.status = "CANCELLED", !.cancelledAt = TRUE])
    BY DEF RowSound, InBatchCollected, CartRow, CartStatus
<1>4. RowSound(c, [row EXCEPT !.arrivedAt = TRUE])
    BY DEF RowSound, InBatchCollected, CartRow, CartStatus
<1>. QED
    BY <1>1, <1>2, <1>3, <1>4

\* An operation that ends by writing rows, and nothing else, is sound when each
\* row it writes is, and takes nothing away.
LEMMA WriteSound ==
    ASSUME Inv, NEW o \in Op, Finish(o), UNCHANGED <<report, sheet, announced>>,
           cart' \in [Cartridge -> CartRow], Persists,
           \A c \in Cartridge : RowSound(c, cart'[c])
    PROVE  Inv'
<1>1. op' = [op EXCEPT ![o] = Idle] /\ past' = past
    BY DEF Finish, Continue
<1>2. TypeOK'
    BY <1>1, IdleSound, Types DEF Inv, TypeOK, CartRow, OpState, RowSound
<1>3. \A p \in Op : Carries(op[p])'
  <2>. SUFFICES ASSUME NEW p \in Op PROVE Carries(op[p])'
    OBVIOUS
  <2>1. CASE p = o
    BY <1>1, <2>1, Types DEF Inv, Idle, Carries
  <2>2. CASE p # o
    BY <1>1, <2>2, StillCarries, Types DEF Inv
  <2>. QED
    BY <2>1, <2>2
<1>4. \A c \in Cartridge : InBatchCollected(cart[c])'
    BY DEF RowSound, InBatchCollected
<1>5. FilledByItsBatch'
    BY DEF RowSound, FilledByItsBatch
<1>6. SheetListsBatch'
    BY CartridgeNullAssumption DEF RowSound, SheetListsBatch, InBatch
<1>. QED
    BY <1>2, <1>3, <1>4, <1>5, <1>6 DEF Inv

LEMMA CreateSound == ASSUME Inv, NEW o \in Op, CreateWrite(o) PROVE Inv'
<1>1. PICK c \in Cartridge :
          /\ cart[c].status = "ABSENT"
          /\ cart' = [cart EXCEPT ![c] =
                        [NoCart EXCEPT !.status = "NEW", !.code = op[o].code]]
    BY DEF CreateWrite
<1>2. op[o].code \in Code
    BY Types DEF CreateWrite, Inv, Carries, OpState
<1>3. [NoCart EXCEPT !.status = "NEW", !.code = op[o].code] \in CartRow
    BY <1>2 DEF NoCart, CartRow, CartStatus
<1>4. cart' \in [Cartridge -> CartRow]
    BY <1>1, <1>3, Types DEF Inv
<1>5. \A d \in Cartridge : RowSound(d, cart'[d])
    BY <1>1, <1>2, <1>3, RowsSound, CartridgeNullAssumption, Types
    DEF RowSound, InBatchCollected, NoCart, Inv
<1>6. Persists
    BY <1>1, Types DEF CreateWrite, Persists, NoCart, Inv, InBatchCollected
<1>. QED
    BY <1>4, <1>5, <1>6, WriteSound DEF CreateWrite

LEMMA CollectSound == ASSUME Inv, NEW o \in Op, CollectWrite(o) PROVE Inv'
<1>1. cart' = [c \in Cartridge |-> IF c \in op[o].ids
               THEN [cart[c] EXCEPT !.status = "COLLECTED", !.collectedAt = TRUE]
               ELSE cart[c]]
    BY DEF CollectWrite, Update
<1>2. \A c \in op[o].ids : cart[c].status # "ABSENT"
    BY DEF CollectWrite, Inv, Carries
<1>3. \A c \in Cartridge : RowSound(c, cart'[c])
    BY ZenonT(40), <1>1, <1>2, RowsSound, RowWritten DEF RowSound
<1>4. Persists
    BY <1>1, RowsSound DEF CollectWrite, Persists, RowSound, CartRow
<1>. QED
    BY <1>1, <1>3, <1>4, WriteSound DEF CollectWrite, RowSound

LEMMA CancelSound == ASSUME Inv, NEW o \in Op, CancelWrite(o) PROVE Inv'
<1>1. cart' = [c \in Cartridge |-> IF c \in op[o].ids
               THEN [cart[c] EXCEPT !.status = "CANCELLED", !.cancelledAt = TRUE]
               ELSE cart[c]]
    BY DEF CancelWrite, Update, CancelledRow
<1>2. \A c \in op[o].ids : cart[c].status # "ABSENT"
    BY DEF CancelWrite, Inv, Carries
<1>3. \A c \in Cartridge : RowSound(c, cart'[c])
    BY ZenonT(40), <1>1, <1>2, RowsSound, RowWritten DEF RowSound
<1>4. Persists
    BY <1>1, RowsSound DEF CancelWrite, Persists, RowSound, CartRow
<1>. QED
    BY <1>1, <1>3, <1>4, WriteSound DEF CancelWrite, RowSound

LEMMA ScanSound == ASSUME Inv, NEW o \in Op, ScanWrite(o) PROVE Inv'
<1>1. cart' = [c \in Cartridge |-> IF c \in op[o].ids
               THEN [cart[c] EXCEPT !.arrivedAt = TRUE] ELSE cart[c]]
    BY DEF ScanWrite, Update
<1>2. \A c \in op[o].ids : cart[c].status # "ABSENT"
    BY DEF ScanWrite, Inv, Carries
<1>3. \A c \in Cartridge : RowSound(c, cart'[c])
    BY ZenonT(40), <1>1, <1>2, RowsSound, RowWritten DEF RowSound
<1>4. Persists
    BY <1>1, RowsSound DEF ScanWrite, Persists, RowSound, CartRow
<1>. QED
    BY <1>1, <1>3, <1>4, WriteSound DEF ScanWrite, RowSound

\* Attaching: the rows carried were collected, and are on the sheet.
LEMMA AttachSound == ASSUME Inv, NEW o \in Op, GenerateAttach(o) PROVE Inv'
<1>1. cart' = [c \in Cartridge |-> IF c \in op[o].ids
               THEN [cart[c] EXCEPT !.status = "SENT", !.report = op[o].report] ELSE cart[c]]
    BY DEF GenerateAttach, Update, CancelledRow
<1>2. /\ op[o].report \in Report
      /\ report[op[o].report] # "ABSENT" /\ op[o].ids \subseteq sheet[op[o].report]
      /\ \A c \in op[o].ids : cart[c].status # "ABSENT" /\ cart[c].collectedAt
    BY Types DEF GenerateAttach, Inv, Carries, OpState
<1>3. \A c \in Cartridge : RowSound(c, cart'[c])
  <2>. SUFFICES ASSUME NEW c \in Cartridge PROVE RowSound(c, cart'[c])
    OBVIOUS
  <2>1. RowSound(c, cart[c]) /\ cart[c] \in CartRow
    BY RowsSound DEF RowSound
  <2>2. CASE c \in op[o].ids
    BY <1>1, <1>2, <2>1, <2>2, RowWritten
  <2>3. CASE c \notin op[o].ids
    BY <1>1, <2>1, <2>3
  <2>. QED
    BY <2>2, <2>3
<1>4. Persists
    BY <1>1, RowsSound DEF GenerateAttach, Persists, RowSound, CartRow
<1>. QED
    BY <1>1, <1>3, <1>4, WriteSound DEF GenerateAttach, RowSound

-----------------------------------------------------------------------------
(* Batches, however operations overlap *)

\* A new batch: its sheet is written before a row names it.
LEMMA ReportSound == ASSUME Inv, NEW o \in Op, GenerateReport(o) PROVE Inv'
<1>1. PICK r \in Report :
          /\ report[r] = "ABSENT"
          /\ report' = [report EXCEPT ![r] = "GENERATED"]
          /\ sheet' = [sheet EXCEPT ![r] = op[o].ids]
          /\ op' = [op EXCEPT ![o] = [op[o] EXCEPT !.kind = "attach", !.report = r]]
          /\ UNCHANGED <<cart, announced, past>>
    BY DEF GenerateReport, Continue
<1>2. /\ op[o] \in OpState /\ op[o].kind = "generate"
      /\ op'[o] = [op[o] EXCEPT !.kind = "attach", !.report = r]
    BY <1>1, Types DEF GenerateReport, Inv
<1>3. op'[o] \in OpState
    BY <1>2 DEF OpState
<1>4. TypeOK'
    BY <1>1, <1>2, <1>3, Types DEF Inv, TypeOK, CartRow, OpState
<1>5. Persists
    BY <1>1, Types DEF Persists, Inv
<1>6. \A p \in Op : Carries(op[p])'
  <2>. SUFFICES ASSUME NEW p \in Op PROVE Carries(op[p])'
    OBVIOUS
  <2>1. CASE p = o
    <3>1. \A c \in op[o].ids : cart[c].status # "ABSENT" /\ cart[c].collectedAt
        BY <1>2 DEF Inv, Carries
    <3>2. report'[r] # "ABSENT" /\ sheet'[r] = op[o].ids
        BY <1>1, Types DEF Inv
    <3>. QED
        BY <1>1, <1>2, <2>1, <3>1, <3>2, CartridgeNullAssumption DEF Carries, OpState
  <2>2. CASE p # o
    BY <1>1, <1>5, <2>2, StillCarries, Types DEF Inv
  <2>. QED
    BY <2>1, <2>2
<1>7. \A c \in Cartridge : RowSound(c, cart[c])'
  <2>. SUFFICES ASSUME NEW c \in Cartridge PROVE RowSound(c, cart[c])'
    OBVIOUS
  <2>1. RowSound(c, cart[c])
    BY RowsSound
  <2>2. cart[c].report # Null => cart[c].report \in Report /\ cart[c].report # r
    BY <1>1, <2>1 DEF RowSound, InBatchCollected, CartRow
  <2>. QED
    BY <1>1, <2>1, <2>2, Types DEF Inv, RowSound, InBatchCollected
<1>. QED
    BY <1>4, <1>6, <1>7, CartridgeNullAssumption
    DEF Inv, RowSound, FilledByItsBatch, SheetListsBatch, InBatch

\* Listing what to announce, and announcing it, leave rows and batches alone.
LEMMA ListSound == ASSUME Inv, NEW o \in Op, CloseList(o) PROVE Inv'
<1>1. /\ op' = [op EXCEPT ![o] =
                  [op[o] EXCEPT !.kind = "fill", !.ids = InBatch(op[o].report)]]
      /\ UNCHANGED <<cart, report, sheet, announced, past>>
      /\ op[o].kind = "close"
    BY DEF CloseList, Continue
<1>2. /\ op[o] \in OpState
      /\ op'[o] = [op[o] EXCEPT !.kind = "fill", !.ids = InBatch(op[o].report)]
    BY <1>1, Types DEF Inv
<1>3. op'[o] \in OpState
    BY <1>2 DEF OpState, InBatch
<1>4. TypeOK'
    BY <1>1, <1>2, <1>3, Types DEF Inv, TypeOK, CartRow, OpState
<1>5. \A p \in Op : Carries(op[p])'
  <2>. SUFFICES ASSUME NEW p \in Op PROVE Carries(op[p])'
    OBVIOUS
  <2>1. CASE p = o
    BY <1>1, <1>2, <2>1 DEF Inv, Carries, OpState
  <2>2. CASE p # o
    BY <1>1, <2>2, StillCarries, Types DEF Inv, Persists
  <2>. QED
    BY <2>1, <2>2
<1>. QED
    BY <1>1, <1>4, <1>5
    DEF Inv, InBatchCollected, FilledByItsBatch, SheetListsBatch, InBatch

LEMMA AnnounceSound == ASSUME Inv, NEW o \in Op, CloseAnnounce(o) PROVE Inv'
<1>1. /\ op' = [op EXCEPT ![o] = Idle]
      /\ UNCHANGED <<cart, report, sheet, past>>
    BY DEF CloseAnnounce, Finish, Continue
<1>2. announced' \in [Cartridge -> 0 .. MaxAnnounced]
    BY Types DEF CloseAnnounce, Inv, MaxAnnounced
<1>3. TypeOK'
    BY <1>1, <1>2, IdleSound, Types DEF Inv, TypeOK, CartRow, OpState
<1>4. \A p \in Op : Carries(op[p])'
  <2>. SUFFICES ASSUME NEW p \in Op PROVE Carries(op[p])'
    OBVIOUS
  <2>1. CASE p = o
    BY <1>1, <2>1, Types DEF Inv, Idle, Carries
  <2>2. CASE p # o
    BY <1>1, <2>2, StillCarries, Types DEF Inv, Persists
  <2>. QED
    BY <2>1, <2>2
<1>. QED
    BY <1>1, <1>3, <1>4
    DEF Inv, InBatchCollected, FilledByItsBatch, SheetListsBatch, InBatch

\* Closing fills every row that names the batch, and no row of another.
LEMMA CloseSound == ASSUME Inv, NEW o \in Op, CloseWrite(o) PROVE Inv'
<1>. DEFINE b == op[o].report
<1>1. /\ report' = [report EXCEPT ![b] = "CLOSED"]
      /\ cart' = [c \in Cartridge |-> IF cart[c].report = b
                  THEN [cart[c] EXCEPT !.status = "FILLED", !.filledAt = TRUE]
                  ELSE cart[c]]
      /\ op' = [op EXCEPT ![o] = [op[o] EXCEPT !.kind = "announce"]]
      /\ UNCHANGED <<sheet, announced, past>>
      /\ op[o].kind = "fill"
    BY DEF CloseWrite, Update, ToFill, InBatch, Continue
<1>2. op[o] \in OpState /\ b \in Report
    BY <1>1, Types DEF Inv, Carries, OpState
<1>3. op'[o] = [op[o] EXCEPT !.kind = "announce"] /\ op'[o] \in OpState
    BY <1>1, <1>2, Types DEF Inv, OpState
<1>4. report' \in [Report -> {"ABSENT", "GENERATED", "CLOSED"}] /\ report'[b] = "CLOSED"
    BY <1>1, <1>2, Types DEF Inv
<1>5. \A c \in Cartridge : RowSound(c, cart[c])'
  <2>. SUFFICES ASSUME NEW c \in Cartridge PROVE RowSound(c, cart[c])'
    OBVIOUS
  <2>1. RowSound(c, cart[c])
    BY RowsSound
  <2>. HIDE DEF b
  <2>2. CASE cart[c].report = b
    <3>1. cart'[c] = [cart[c] EXCEPT !.status = "FILLED", !.filledAt = TRUE]
        BY <1>1, <2>2
    <3>. QED
        BY <1>1, <1>2, <1>4, <2>1, <2>2, <3>1, CartridgeNullAssumption
        DEF RowSound, InBatchCollected, CartRow, CartStatus
  <2>3. CASE cart[c].report # b
    <3>1. cart'[c] = cart[c]
        BY <1>1, <2>3
    <3>2. cart[c].report # Null =>
              cart[c].report \in Report /\ report'[cart[c].report] = report[cart[c].report]
        BY <1>1, <2>1, <2>3, Types DEF Inv, RowSound, CartRow
    <3>. QED
        BY <1>1, <2>1, <3>1, <3>2 DEF RowSound, InBatchCollected
  <2>. QED
    BY <2>2, <2>3
<1>6. TypeOK'
    BY <1>1, <1>3, <1>4, <1>5, Types DEF Inv, TypeOK, RowSound, CartRow, OpState
<1>7. Persists
    BY <1>1, <1>2, RowsSound, Types DEF Inv, Persists, RowSound, CartRow
<1>8. \A p \in Op : Carries(op[p])'
  <2>. SUFFICES ASSUME NEW p \in Op PROVE Carries(op[p])'
    OBVIOUS
  <2>1. CASE p = o
    BY <1>2, <1>3, <2>1, CartridgeNullAssumption DEF Carries, OpState
  <2>2. CASE p # o
    BY <1>1, <1>7, <2>2, StillCarries, Types DEF Inv
  <2>. QED
    BY <2>1, <2>2
<1>. QED
    BY <1>5, <1>6, <1>8, CartridgeNullAssumption
    DEF Inv, RowSound, FilledByItsBatch, SheetListsBatch, InBatch

LEMMA CrashSound == Inv /\ Crash => Inv'
<1>. SUFFICES ASSUME Inv, Crash PROVE Inv'
    OBVIOUS
<1>1. TypeOK'
    BY IdleSound, Types DEF Inv, Crash, TypeOK, CartRow, OpState
<1>2. \A p \in Op : Carries(op[p])'
    BY DEF Crash, Idle, Carries
<1>. QED
    BY <1>1, <1>2
    DEF Crash, Inv, InBatchCollected, FilledByItsBatch, SheetListsBatch, InBatch

LEMMA InvInductive == Inv /\ [Next]_vars => Inv'
<1>. SUFFICES ASSUME Inv, [Next]_vars PROVE Inv'
    OBVIOUS
<1>1. ASSUME NEW o \in Op, OpStep(o) PROVE Inv'
    BY <1>1, ReadsSound, CreateSound, CollectSound, CancelSound, ScanSound,
       ReportSound, AttachSound, ListSound, CloseSound, AnnounceSound
    DEF OpStep
<1>2. CASE Crash
    BY <1>2, CrashSound
<1>3. CASE UNCHANGED vars
  <2>1. TypeOK'
    BY <1>3 DEF Inv, TypeOK, vars
  <2>2. \A p \in Op : Carries(op[p])'
    BY <1>3, StillCarries, Types DEF Inv, Persists, vars
  <2>. QED
    BY <1>3, <2>1, <2>2
    DEF vars, Inv, InBatchCollected, FilledByItsBatch, SheetListsBatch, InBatch
<1>. QED
    BY <1>1, <1>2, <1>3 DEF Next

LEMMA InvHolds == Spec => []Inv
<1>. QED
    BY InitSound, InvInductive, PTL DEF Spec

\* However operations overlap and whenever the process dies, the tables keep
\* their types: a request that exists has a code, one that does not has none.
THEOREM CartridgesTypeCorrect == Spec => []TypeOK
<1>1. Inv => TypeOK
    BY DEF Inv
<1>. QED
    BY <1>1, InvHolds, PTL

\* However operations overlap, a filled cartridge was collected and belongs to
\* a batch that is closed.
THEOREM FilledOnlyByItsBatch == Spec => []FilledByItsBatch
<1>1. Inv => FilledByItsBatch
    BY DEF Inv
<1>. QED
    BY <1>1, InvHolds, PTL

\* However operations overlap, the Excel sheet of a batch lists every request
\* that belongs to it.
THEOREM SheetListsItsBatch == Spec => []SheetListsBatch
<1>1. Inv => SheetListsBatch
    BY DEF Inv
<1>. QED
    BY <1>1, InvHolds, PTL

-----------------------------------------------------------------------------
(* As long as no two operations overlap *)

LEMMA InitSerial == Init => SerialInv
BY DEF Init, SerialInv, Alone, AgreesWithBatch, StillSo, CodesDiffer, Told,
       NoCart, Idle, ActiveStatuses

LEMMA SerialStays == [Next]_vars /\ Serial' => Serial
<1>. SUFFICES ASSUME [Next]_vars, past # past' PROVE past \subseteq past'
    BY DEF Serial
<1>1. CASE Crash
    BY <1>1 DEF Crash
<1>2. ASSUME NEW o \in Op, NEW kind, NEW ids, NEW k, NEW b, Begin(o, kind, ids, k, b)
      PROVE  past \subseteq past'
    BY <1>2 DEF Begin
<1>3. ASSUME NEW o \in Op, OpStep(o) PROVE past \subseteq past'
    BY <1>2, <1>3
    DEF OpStep, CreateRead, CreateWrite, CollectRead, CollectWrite, CancelRead,
        CancelWrite, ScanRead, ScanWrite, GenerateRead, GenerateReport,
        GenerateAttach, CloseRead, CloseList, CloseWrite, CloseAnnounce,
        Finish, Continue
<1>. QED
    BY <1>1, <1>3 DEF Next, vars

\* Who begins while nothing overlaps is alone, and finds what it has read.
LEMMA BeginSerial ==
    ASSUME Inv, SerialInv, Serial, NEW o \in Op, NEW kind, NEW ids, NEW k, NEW b,
           Begin(o, kind, ids, k, b), Serial',
           [kind |-> kind, ids |-> ids, code |-> k, report |-> b] \in OpState,
           StillSo([kind |-> kind, ids |-> ids, code |-> k, report |-> b])
    PROVE  SerialInv'
<1>. DEFINE q == [kind |-> kind, ids |-> ids, code |-> k, report |-> b]
<1>1. /\ UNCHANGED <<cart, report, sheet, announced>>
      /\ op' = [op EXCEPT ![o] = q] /\ op[o] = Idle
      /\ \A p \in Op \ {o} : op[p] = Idle
      /\ past' = past
    BY DEF Begin, Serial
<1>2. op'[o] = q /\ \A p \in Op \ {o} : op'[p] = Idle
    BY <1>1, Types DEF Inv
<1>. HIDE DEF q
<1>3. Alone'
    BY <1>2 DEF Alone
<1>4. \A p \in Op : StillSo(op[p])'
  <2>1. StillSo(q)'
    BY <1>1 DEF StillSo, q, CodeInUse, InBatch
  <2>2. StillSo(Idle)'
    BY DEF StillSo, Idle
  <2>. QED
    BY <1>2, <2>1, <2>2 DEF StillSo
<1>5. \A c \in Cartridge : Told(c)'
    BY <1>1 DEF SerialInv, Told, Idle
<1>. QED
    BY <1>1, <1>3, <1>4, <1>5 DEF SerialInv, AgreesWithBatch, CodesDiffer

LEMMA ReadsSerial ==
    ASSUME Inv, SerialInv, Serial, Serial', NEW o \in Op,
           \/ CreateRead(o)
           \/ \E c \in Cartridge : CollectRead(o, c) \/ CancelRead(o, c) \/ ScanRead(o, c)
           \/ \E ids \in SUBSET Cartridge : GenerateRead(o, ids)
           \/ \E r \in Report : CloseRead(o, r)
    PROVE  SerialInv'
<1>1. CASE CreateRead(o)
    BY <1>1, BeginSerial DEF CreateRead, OpState, StillSo
<1>2. ASSUME NEW c \in Cartridge, CollectRead(o, c) PROVE SerialInv'
    BY <1>2, BeginSerial DEF CollectRead, OpState, StillSo
<1>3. ASSUME NEW c \in Cartridge, CancelRead(o, c) PROVE SerialInv'
    BY <1>3, BeginSerial DEF CancelRead, OpState, StillSo
<1>4. ASSUME NEW c \in Cartridge, ScanRead(o, c) PROVE SerialInv'
    BY <1>4, BeginSerial DEF ScanRead, OpState, StillSo
<1>5. ASSUME NEW ids \in SUBSET Cartridge, GenerateRead(o, ids) PROVE SerialInv'
    BY <1>5, BeginSerial DEF GenerateRead, OpState, StillSo
<1>6. ASSUME NEW r \in Report, CloseRead(o, r) PROVE SerialInv'
    BY <1>6, BeginSerial DEF CloseRead, OpState, StillSo
<1>. QED
    BY <1>1, <1>2, <1>3, <1>4, <1>5, <1>6

\* An operation that goes on is alone, before and after.
LEMMA GoesOnAlone ==
    ASSUME Inv, SerialInv, Serial, NEW o \in Op, NEW next, op[o] # Idle,
           op' = [op EXCEPT ![o] = next]
    PROVE  Alone' /\ op'[o] = next /\ \A p \in Op \ {o} : op[p] = Idle /\ op'[p] = Idle
BY Types DEF Inv, SerialInv, Alone

\* An operation that ends alone leaves nothing to check but the rows.
LEMMA FinishSerial ==
    ASSUME Inv, SerialInv, Serial, NEW o \in Op, op[o] # Idle, Finish(o),
           \A c \in Cartridge : AgreesWithBatch(cart[c])' /\ Told(c)',
           CodesDiffer'
    PROVE  SerialInv'
<1>1. op' = [op EXCEPT ![o] = Idle] /\ Serial'
    BY DEF Finish, Continue, Serial
<1>2. Alone' /\ \A p \in Op : op'[p] = Idle
    BY <1>1, GoesOnAlone
<1>3. \A p \in Op : StillSo(op[p])'
    BY <1>2 DEF StillSo, Idle
<1>. QED
    BY <1>2, <1>3 DEF SerialInv

\* The code was free when it was drawn, and nobody has taken it since.
LEMMA CreateSerial ==
    ASSUME Inv, SerialInv, Serial, NEW o \in Op, CreateWrite(o) PROVE SerialInv'
<1>1. PICK c \in Cartridge :
          /\ cart[c].status = "ABSENT"
          /\ cart' = [cart EXCEPT ![c] =
                        [NoCart EXCEPT !.status = "NEW", !.code = op[o].code]]
    BY DEF CreateWrite
<1>2. /\ op[o] # Idle /\ Finish(o) /\ UNCHANGED <<report, announced, past>>
      /\ op[o].kind = "create"
    BY DEF CreateWrite, Idle, Finish, Continue
<1>3. /\ cart'[c].status = "NEW" /\ cart'[c].report = Null
      /\ cart'[c].code = op[o].code
      /\ \A d \in Cartridge \ {c} : cart'[d] = cart[d]
    BY <1>1, Types DEF Inv, NoCart
<1>4. \A d \in Cartridge : cart[d].status \in ActiveStatuses => cart[d].code # op[o].code
    BY <1>2 DEF SerialInv, StillSo, CodeInUse
<1>5. CodesDiffer'
    BY <1>3, <1>4 DEF SerialInv, CodesDiffer, ActiveStatuses
<1>6. \A d \in Cartridge : AgreesWithBatch(cart[d])'
    BY <1>2, <1>3 DEF SerialInv, AgreesWithBatch
<1>7. \A p \in Op : op[p].kind = "announce" => p = o
    BY <1>2 DEF SerialInv, Alone, Idle
<1>8. \A d \in Cartridge : Told(d)'
    BY <1>1, <1>2, <1>3, <1>7 DEF SerialInv, Told
<1>. QED
    BY <1>2, <1>5, <1>6, <1>8, FinishSerial

LEMMA CollectSerial ==
    ASSUME Inv, SerialInv, Serial, NEW o \in Op, CollectWrite(o) PROVE SerialInv'
<1>1. cart' = [c \in Cartridge |-> IF c \in op[o].ids
               THEN [cart[c] EXCEPT !.status = "COLLECTED", !.collectedAt = TRUE]
               ELSE cart[c]]
    BY DEF CollectWrite, Update
<1>2. /\ op[o].kind = "collect" /\ op[o] # Idle
      /\ Finish(o) /\ UNCHANGED <<report, announced, past>>
    BY DEF CollectWrite, Idle, Finish, Continue
<1>3. \A c \in op[o].ids : cart[c].status = "NEW"
    BY <1>2 DEF SerialInv, StillSo
<1>4. \A p \in Op : op[p].kind = "announce" => p = o
    BY <1>2 DEF SerialInv, Alone, Idle
<1>5. CodesDiffer'
  <2>1. \A c \in Cartridge : cart'[c].status \in ActiveStatuses =>
            cart[c].status \in ActiveStatuses /\ cart'[c].code = cart[c].code
    BY <1>1, <1>3, RowsSound DEF RowSound, CartRow, ActiveStatuses
  <2>. QED
    BY <2>1 DEF SerialInv, CodesDiffer
<1>6. \A c \in Cartridge : AgreesWithBatch(cart[c])'
    BY <1>1, <1>2, <1>3, RowsSound DEF SerialInv, AgreesWithBatch, RowSound, CartRow
<1>7. \A c \in Cartridge : Told(c)'
    BY ZenonT(40), <1>1, <1>2, <1>3, <1>4, RowsSound DEF SerialInv, Told, RowSound, CartRow
<1>. QED
    BY <1>2, <1>5, <1>6, <1>7, FinishSerial

LEMMA CancelSerial ==
    ASSUME Inv, SerialInv, Serial, NEW o \in Op, CancelWrite(o) PROVE SerialInv'
<1>1. cart' = [c \in Cartridge |-> IF c \in op[o].ids
               THEN [cart[c] EXCEPT !.status = "CANCELLED", !.cancelledAt = TRUE]
               ELSE cart[c]]
    BY DEF CancelWrite, Update, CancelledRow
<1>2. /\ op[o].kind = "cancel" /\ op[o] # Idle
      /\ Finish(o) /\ UNCHANGED <<report, announced, past>>
    BY DEF CancelWrite, Idle, Finish, Continue
<1>3. \A c \in op[o].ids : cart[c].status = "NEW"
    BY <1>2 DEF SerialInv, StillSo
<1>4. \A p \in Op : op[p].kind = "announce" => p = o
    BY <1>2 DEF SerialInv, Alone, Idle
<1>5. CodesDiffer'
  <2>1. \A c \in Cartridge : cart'[c].status \in ActiveStatuses =>
            cart[c].status \in ActiveStatuses /\ cart'[c].code = cart[c].code
    BY <1>1, <1>3, RowsSound DEF RowSound, CartRow, ActiveStatuses
  <2>. QED
    BY <2>1 DEF SerialInv, CodesDiffer
<1>6. \A c \in Cartridge : AgreesWithBatch(cart[c])'
    BY <1>1, <1>2, <1>3, RowsSound DEF SerialInv, AgreesWithBatch, RowSound, CartRow
<1>7. \A c \in Cartridge : Told(c)'
    BY ZenonT(40), <1>1, <1>2, <1>3, <1>4, RowsSound DEF SerialInv, Told, RowSound, CartRow
<1>. QED
    BY <1>2, <1>5, <1>6, <1>7, FinishSerial

LEMMA ScanSerial ==
    ASSUME Inv, SerialInv, Serial, NEW o \in Op, ScanWrite(o) PROVE SerialInv'
<1>1. /\ cart' = [c \in Cartridge |-> IF c \in op[o].ids
                  THEN [cart[c] EXCEPT !.arrivedAt = TRUE] ELSE cart[c]]
      /\ op[o].kind = "scan" /\ op[o] # Idle
      /\ Finish(o) /\ UNCHANGED <<report, announced, past>>
    BY DEF ScanWrite, Update, Idle, Finish, Continue
<1>2. \A c \in Cartridge : /\ cart'[c].status = cart[c].status
                           /\ cart'[c].code = cart[c].code
                           /\ cart'[c].report = cart[c].report
    BY <1>1, RowsSound DEF RowSound, CartRow
<1>3. \A p \in Op : op[p].kind = "announce" => p = o
    BY <1>1 DEF SerialInv, Alone, Idle
<1>4. CodesDiffer' /\ \A c \in Cartridge : AgreesWithBatch(cart[c])' /\ Told(c)'
    BY <1>1, <1>2, <1>3 DEF SerialInv, CodesDiffer, AgreesWithBatch, Told
<1>. QED
    BY <1>1, <1>4, FinishSerial

LEMMA AttachSerial ==
    ASSUME Inv, SerialInv, Serial, NEW o \in Op, GenerateAttach(o) PROVE SerialInv'
<1>1. cart' = [c \in Cartridge |-> IF c \in op[o].ids
               THEN [cart[c] EXCEPT !.status = "SENT", !.report = op[o].report]
               ELSE cart[c]]
    BY DEF GenerateAttach, Update
<1>2. /\ op[o].kind = "attach" /\ op[o] # Idle
      /\ Finish(o) /\ UNCHANGED <<report, announced, past>>
    BY DEF GenerateAttach, Idle, Finish, Continue
<1>3. /\ op[o].report # Null /\ report[op[o].report] = "GENERATED"
      /\ \A c \in op[o].ids : cart[c].status = "COLLECTED"
    BY <1>2 DEF Inv, Carries, SerialInv, StillSo
<1>4. \A p \in Op : op[p].kind = "announce" => p = o
    BY <1>2 DEF SerialInv, Alone, Idle
<1>5. CodesDiffer'
  <2>1. \A c \in Cartridge : cart'[c].status \in ActiveStatuses =>
            cart[c].status \in ActiveStatuses /\ cart'[c].code = cart[c].code
    BY <1>1, <1>3, RowsSound DEF RowSound, CartRow, ActiveStatuses
  <2>. QED
    BY <2>1 DEF SerialInv, CodesDiffer
<1>6. \A c \in Cartridge : AgreesWithBatch(cart[c])' /\ Told(c)'
  <2>. SUFFICES ASSUME NEW c \in Cartridge PROVE AgreesWithBatch(cart[c])' /\ Told(c)'
    OBVIOUS
  <2>1. AgreesWithBatch(cart[c]) /\ Told(c)
    BY DEF SerialInv
  <2>2. CASE c \in op[o].ids
    <3>1. cart'[c].status = "SENT" /\ cart'[c].report = op[o].report
        BY <1>1, <2>2, RowsSound DEF RowSound, CartRow
    <3>2. announced[c] <= 1 /\ ~(announced[c] > 0)
        BY <1>3, <2>1, <2>2 DEF Told
    <3>. QED
        BY <1>2, <1>3, <3>1, <3>2 DEF AgreesWithBatch, Told
  <2>3. CASE c \notin op[o].ids
    BY <1>1, <1>2, <1>4, <2>1, <2>3 DEF AgreesWithBatch, Told
  <2>. QED
    BY <2>2, <2>3
<1>. QED
    BY <1>2, <1>5, <1>6, FinishSerial

\* No row names a batch before it exists.
LEMMA ReportSerial ==
    ASSUME Inv, SerialInv, Serial, NEW o \in Op, GenerateReport(o) PROVE SerialInv'
<1>1. PICK r \in Report :
          /\ report[r] = "ABSENT"
          /\ report' = [report EXCEPT ![r] = "GENERATED"]
          /\ op' = [op EXCEPT ![o] = [op[o] EXCEPT !.kind = "attach", !.report = r]]
          /\ UNCHANGED <<cart, announced, past>>
    BY DEF GenerateReport, Continue
<1>2. /\ op[o] \in OpState /\ op[o].kind = "generate" /\ op[o] # Idle
      /\ report' \in [Report -> {"ABSENT", "GENERATED", "CLOSED"}]
      /\ report'[r] = "GENERATED"
    BY <1>1, Types DEF GenerateReport, Inv, Idle
<1>3. /\ Alone' /\ Serial'
      /\ op'[o] = [op[o] EXCEPT !.kind = "attach", !.report = r]
      /\ \A p \in Op \ {o} : op[p] = Idle /\ op'[p] = Idle
    BY <1>1, <1>2, GoesOnAlone DEF Serial
<1>4. \A p \in Op : StillSo(op[p])'
  <2>1. StillSo(op[o])'
    <3>1. \A c \in op[o].ids : cart[c].status = "COLLECTED"
        BY <1>2 DEF SerialInv, StillSo
    <3>. QED
        BY <1>1, <1>2, <1>3, <3>1 DEF StillSo, OpState
  <2>2. \A p \in Op \ {o} : StillSo(op[p])'
    BY <1>3 DEF StillSo, Idle
  <2>. QED
    BY <2>1, <2>2
<1>5. \A c \in Cartridge : cart[c].report # Null =>
          cart[c].report \in Report /\ report'[cart[c].report] = report[cart[c].report]
    BY <1>1, RowsSound, Types DEF Inv, RowSound, InBatchCollected, CartRow
<1>6. \A c \in Cartridge : AgreesWithBatch(cart[c])'
    BY <1>1, <1>5 DEF SerialInv, AgreesWithBatch
<1>7. \A p \in Op : op[p].kind # "announce"
    BY <1>2, <1>3 DEF Idle
<1>8. \A c \in Cartridge : Told(c)'
    BY <1>1, <1>5, <1>7 DEF SerialInv, Told
<1>. QED
    BY <1>1, <1>3, <1>4, <1>6, <1>8 DEF SerialInv, CodesDiffer

LEMMA ListSerial ==
    ASSUME Inv, SerialInv, Serial, NEW o \in Op, CloseList(o) PROVE SerialInv'
<1>1. /\ op[o].kind = "close" /\ op[o] # Idle /\ op[o] \in OpState
      /\ op' = [op EXCEPT ![o] =
                  [op[o] EXCEPT !.kind = "fill", !.ids = InBatch(op[o].report)]]
      /\ UNCHANGED <<cart, report, announced, past>>
    BY Types DEF CloseList, Continue, Idle, Inv
<1>2. /\ Alone' /\ Serial'
      /\ op'[o] = [op[o] EXCEPT !.kind = "fill", !.ids = InBatch(op[o].report)]
      /\ \A p \in Op \ {o} : op[p] = Idle /\ op'[p] = Idle
    BY <1>1, GoesOnAlone DEF Serial
<1>3. \A p \in Op : StillSo(op[p])'
  <2>1. StillSo(op[o])'
    BY <1>1, <1>2 DEF SerialInv, StillSo, OpState, InBatch
  <2>2. \A p \in Op \ {o} : StillSo(op[p])'
    BY <1>2 DEF StillSo, Idle
  <2>. QED
    BY <2>1, <2>2
<1>4. \A p \in Op : op[p].kind # "announce"
    BY <1>1, <1>2 DEF Idle
<1>5. \A c \in Cartridge : Told(c)'
    BY <1>1, <1>4 DEF SerialInv, Told
<1>. QED
    BY <1>1, <1>2, <1>3, <1>5 DEF SerialInv, CodesDiffer, AgreesWithBatch

\* Every row of the batch is out for a refill: the transaction fills them all,
\* and they are the ones listed for the announcement.
LEMMA CloseSerial ==
    ASSUME Inv, SerialInv, Serial, NEW o \in Op, CloseWrite(o) PROVE SerialInv'
<1>. DEFINE b == op[o].report
<1>1. /\ cart' = [c \in Cartridge |-> IF cart[c].report = b
                  THEN [cart[c] EXCEPT !.status = "FILLED", !.filledAt = TRUE]
                  ELSE cart[c]]
      /\ report' = [report EXCEPT ![b] = "CLOSED"]
      /\ op' = [op EXCEPT ![o] = [op[o] EXCEPT !.kind = "announce"]]
      /\ UNCHANGED <<announced, past>>
    BY DEF CloseWrite, Update, ToFill, InBatch, Continue
<1>2. op[o].kind = "fill" /\ op[o] # Idle /\ op[o] \in OpState
    BY Types DEF CloseWrite, Idle, Inv
<1>3. /\ b \in Report /\ report[b] = "GENERATED"
      /\ op[o].ids = InBatch(b)
    BY <1>2 DEF Inv, Carries, SerialInv, StillSo, OpState
<1>4. /\ Alone' /\ Serial'
      /\ op'[o] = [op[o] EXCEPT !.kind = "announce"]
      /\ \A p \in Op \ {o} : op[p] = Idle /\ op'[p] = Idle
    BY <1>1, <1>2, GoesOnAlone DEF Serial
<1>. HIDE DEF b
<1>5. /\ \A c \in Cartridge : cart'[c].report = cart[c].report /\ cart'[c].code = cart[c].code
      /\ \A c \in InBatch(b) : cart[c].status = "SENT" /\ cart'[c].status = "FILLED"
      /\ \A c \in Cartridge \ InBatch(b) : cart'[c] = cart[c]
  <2>1. \A c \in InBatch(b) : cart[c].status = "SENT"
    BY <1>3, CartridgeNullAssumption DEF InBatch, SerialInv, AgreesWithBatch
  <2>. QED
    BY <1>1, <2>1, RowsSound DEF InBatch, RowSound, CartRow
<1>6. report'[b] = "CLOSED" /\ \A r \in Report \ {b} : report'[r] = report[r]
    BY <1>1, <1>3, Types DEF Inv
<1>7. \A c \in InBatch(b) : announced[c] = 0
    BY <1>5, Types DEF SerialInv, Told, Inv, InBatch, MaxAnnounced
<1>8. \A p \in Op : StillSo(op[p])'
  <2>1. op'[o].ids = op[o].ids /\ op'[o].report = b /\ op'[o].kind = "announce"
    BY <1>2, <1>4 DEF OpState, b
  <2>2. {c \in Cartridge : cart'[c].report = b} = InBatch(b)
    BY <1>5 DEF InBatch
  <2>3. StillSo(op[o])'
    BY <1>1, <1>3, <1>6, <1>7, <2>1, <2>2 DEF StillSo, InBatch
  <2>4. \A p \in Op \ {o} : StillSo(op[p])'
    BY <1>4 DEF StillSo, Idle
  <2>. QED
    BY <2>3, <2>4
<1>9. \A c \in Cartridge : AgreesWithBatch(cart[c])' /\ Told(c)'
  <2>. SUFFICES ASSUME NEW c \in Cartridge PROVE AgreesWithBatch(cart[c])' /\ Told(c)'
    OBVIOUS
  <2>1. AgreesWithBatch(cart[c]) /\ Told(c)
    BY DEF SerialInv
  <2>2. CASE c \in InBatch(b)
    <3>1. op'[o].kind = "announce" /\ c \in op'[o].ids
        BY <1>2, <1>3, <1>4, <2>2 DEF OpState
    <3>2. cart'[c].report = b /\ b # Null /\ cart'[c].status = "FILLED"
        BY <1>3, <1>5, <2>2, CartridgeNullAssumption DEF InBatch
    <3>3. AgreesWithBatch(cart[c])'
        BY <1>6, <3>2 DEF AgreesWithBatch
    <3>4. announced'[c] = 0
        BY <1>1, <1>7, <2>2
    <3>. QED
        BY <3>1, <3>3, <3>4 DEF Told
  <2>3. CASE c \notin InBatch(b)
    <3>1. cart'[c] = cart[c] /\ cart[c].report # b
        BY <1>5, <2>3 DEF InBatch
    <3>2. cart[c].report # Null => report'[cart[c].report] = report[cart[c].report]
        BY <1>6, <3>1, RowsSound DEF RowSound, CartRow
    <3>3. \A p \in Op : op[p].kind # "announce"
        BY <1>2, <1>4 DEF Idle
    <3>. QED
        BY <1>1, <2>1, <3>1, <3>2, <3>3 DEF AgreesWithBatch, Told
  <2>. QED
    BY <2>2, <2>3
<1>10. CodesDiffer'
  <2>1. \A c \in Cartridge : cart'[c].status \in ActiveStatuses =>
            cart[c].status \in ActiveStatuses /\ cart'[c].code = cart[c].code
    BY <1>5 DEF ActiveStatuses
  <2>. QED
    BY <2>1 DEF SerialInv, CodesDiffer
<1>. QED
    BY <1>4, <1>8, <1>9, <1>10 DEF SerialInv

\* Nobody of the batch has been told yet, and now everybody is.
LEMMA AnnounceSerial ==
    ASSUME Inv, SerialInv, Serial, NEW o \in Op, CloseAnnounce(o) PROVE SerialInv'
<1>1. /\ op[o].kind = "announce" /\ op[o] # Idle /\ op[o] \in OpState
      /\ Finish(o) /\ op' = [op EXCEPT ![o] = Idle]
      /\ UNCHANGED <<cart, report, past>>
    BY Types DEF CloseAnnounce, Finish, Continue, Idle, Inv
<1>2. /\ op[o].report # Null /\ op[o].ids = InBatch(op[o].report)
      /\ report[op[o].report] = "CLOSED"
      /\ \A c \in op[o].ids : announced[c] = 0
    BY <1>1 DEF Inv, Carries, SerialInv, StillSo
<1>3. \A p \in Op : op[p].kind = "announce" => p = o
    BY <1>1 DEF SerialInv, Alone, Idle
<1>4. \A c \in Cartridge : announced'[c] = IF c \in op[o].ids THEN 1 ELSE announced[c]
    BY <1>2 DEF CloseAnnounce, MaxAnnounced
<1>5. \A c \in Cartridge : Told(c)'
  <2>. SUFFICES ASSUME NEW c \in Cartridge PROVE Told(c)'
    OBVIOUS
  <2>1. AgreesWithBatch(cart[c]) /\ Told(c)
    BY DEF SerialInv
  <2>2. CASE c \in op[o].ids
    <3>1. cart[c].status = "FILLED"
        BY <1>2, <2>1, <2>2 DEF InBatch, AgreesWithBatch
    <3>. QED
        BY <1>1, <1>4, <2>2, <3>1 DEF Told
  <2>3. CASE c \notin op[o].ids
    BY <1>1, <1>3, <1>4, <2>1, <2>3 DEF Told
  <2>. QED
    BY <2>2, <2>3
<1>6. CodesDiffer' /\ \A c \in Cartridge : AgreesWithBatch(cart[c])'
    BY <1>1 DEF SerialInv, CodesDiffer, AgreesWithBatch
<1>. QED
    BY <1>1, <1>5, <1>6, FinishSerial

LEMMA CrashSerial == ASSUME SerialInv, Crash PROVE SerialInv'
<1>1. /\ UNCHANGED <<cart, report, announced>> /\ "crash" \in past'
      /\ Serial' => Serial
      /\ \A p \in Op : op'[p] = Idle
    BY DEF Crash, Serial
<1>2. Alone' /\ \A p \in Op : StillSo(op[p])'
    BY <1>1 DEF Alone, StillSo, Idle
<1>. QED
    BY <1>1, <1>2 DEF SerialInv, CodesDiffer, AgreesWithBatch, Told

LEMMA SerialInductive == Inv /\ SerialInv /\ [Next]_vars => SerialInv'
<1>. SUFFICES ASSUME Inv, SerialInv, [Next]_vars, Serial' PROVE SerialInv'
    BY DEF SerialInv
<1>1. Serial
    BY SerialStays
<1>2. ASSUME NEW o \in Op, OpStep(o) PROVE SerialInv'
    BY <1>1, <1>2, ReadsSerial, CreateSerial, CollectSerial, CancelSerial, ScanSerial,
       ReportSerial, AttachSerial, ListSerial, CloseSerial, AnnounceSerial
    DEF OpStep
<1>3. CASE Crash
    BY <1>3, CrashSerial
<1>4. CASE UNCHANGED vars
  <2>1. \A p \in Op : StillSo(op[p])'
    BY <1>1, <1>4 DEF vars, SerialInv, StillSo, CodeInUse, InBatch
  <2>. QED
    BY <1>4, <2>1 DEF vars, SerialInv, Serial, Alone, AgreesWithBatch, CodesDiffer, Told
<1>. QED
    BY <1>2, <1>3, <1>4 DEF Next

LEMMA SerialHolds == Spec => []SerialInv
BY InitSerial, SerialInductive, InvHolds, PTL DEF Spec

\* As long as no two operations overlap, and whenever the process dies, the code
\* a new request draws is nobody else's until its cartridge is filled or the
\* request cancelled.
THEOREM CodeIsUnique == Spec => []CodeNamesOneRequest
<1>1. Inv /\ SerialInv => CodeNamesOneRequest
  <2>1. Inv => \A c \in Cartridge : cart[c].status \in CartStatus \cup {"ABSENT"}
    BY RowsSound DEF RowSound, CartRow
  <2>. QED
    BY <2>1 DEF SerialInv, CodesDiffer, CodeNamesOneRequest, CartStatus, ActiveStatuses
<1>. QED
    BY <1>1, InvHolds, SerialHolds, PTL

\* As long as no two operations overlap, closing a batch tells the author of
\* each of its requests once, and no other author; only a crash between the
\* transaction and the announcement loses the news.
THEOREM AuthorsToldOnce == Spec => []AuthorToldOnce
<1>1. SerialInv => AuthorToldOnce
    BY DEF SerialInv, Told, AuthorToldOnce
<1>. QED
    BY <1>1, SerialHolds, PTL

\* What RequestsMoveOn allows a row.
MayMove(c) ==
    \/ cart'[c].status = cart[c].status
    \/ <<cart[c].status, cart'[c].status>> \in MovesOn

LEMMA StepMovesOn ==
    ASSUME Inv, SerialInv, Serial, NEW o \in Op, OpStep(o), NEW c \in Cartridge
    PROVE  MayMove(c)
<1>1. cart[c] \in CartRow
    BY RowsSound DEF RowSound
<1>2. CASE CreateWrite(o)
  <2>1. PICK d \in Cartridge : /\ cart[d].status = "ABSENT"
                              /\ cart' = [cart EXCEPT ![d] =
                                   [NoCart EXCEPT !.status = "NEW", !.code = op[o].code]]
    BY <1>2 DEF CreateWrite
  <2>2. CASE c = d
    <3>1. cart'[c].status = "NEW"
        BY <2>1, <2>2, Types DEF Inv, NoCart
    <3>. QED
        BY <2>1, <2>2, <3>1 DEF MayMove, MovesOn
  <2>3. CASE c # d
    BY <2>1, <2>3, Types DEF Inv, MayMove
  <2>. QED
    BY <2>2, <2>3
<1>3. CASE CollectWrite(o)
  <2>1. c \in op[o].ids => cart[c].status = "NEW"
    BY <1>3 DEF CollectWrite, SerialInv, StillSo
  <2>2. cart'[c].status = IF c \in op[o].ids THEN "COLLECTED" ELSE cart[c].status
    BY <1>1, <1>3 DEF CollectWrite, Update, CartRow
  <2>. QED
    BY <2>1, <2>2 DEF MayMove, MovesOn
<1>4. CASE CancelWrite(o)
  <2>1. c \in op[o].ids => cart[c].status = "NEW"
    BY <1>4 DEF CancelWrite, SerialInv, StillSo
  <2>2. cart'[c].status = IF c \in op[o].ids THEN "CANCELLED" ELSE cart[c].status
    BY <1>1, <1>4 DEF CancelWrite, CancelledRow, Update, CartRow
  <2>. QED
    BY <2>1, <2>2 DEF MayMove, MovesOn
<1>5. CASE ScanWrite(o)
    BY <1>1, <1>5 DEF ScanWrite, Update, CartRow, MayMove
<1>6. CASE GenerateAttach(o)
  <2>1. c \in op[o].ids => cart[c].status = "COLLECTED"
    BY <1>6 DEF GenerateAttach, SerialInv, StillSo
  <2>2. cart'[c].status = IF c \in op[o].ids THEN "SENT" ELSE cart[c].status
    BY <1>1, <1>6 DEF GenerateAttach, Update, CartRow
  <2>. QED
    BY <2>1, <2>2 DEF MayMove, MovesOn
<1>7. CASE CloseWrite(o)
  <2>1. c \in InBatch(op[o].report) => cart[c].status = "SENT"
    BY <1>7 DEF CloseWrite, Inv, Carries, SerialInv, StillSo, InBatch, AgreesWithBatch
  <2>2. cart'[c].status = IF c \in InBatch(op[o].report) THEN "FILLED" ELSE cart[c].status
    BY <1>1, <1>7 DEF CloseWrite, ToFill, Update, CartRow
  <2>. QED
    BY <2>1, <2>2 DEF MayMove, MovesOn
<1>8. ASSUME UNCHANGED cart PROVE MayMove(c)
    BY <1>8 DEF MayMove
<1>. QED
    BY <1>2, <1>3, <1>4, <1>5, <1>6, <1>7, <1>8
    DEF OpStep, Begin, CreateRead, CollectRead, CancelRead, ScanRead, GenerateRead,
        GenerateReport, CloseRead, CloseList, CloseAnnounce

\* As long as no two operations overlap, a request only moves on: new, then
\* collected or cancelled, then sent, then filled.
THEOREM RequestsOnlyMoveOn == Spec => RequestsMoveOn
<1>1. Inv /\ SerialInv /\ [Next]_vars =>
          [Serial' => \A c \in Cartridge :
              \/ cart'[c].status = cart[c].status
              \/ <<cart[c].status, cart'[c].status>> \in MovesOn]_vars
  <2>. SUFFICES ASSUME Inv, SerialInv, [Next]_vars, Serial', NEW c \in Cartridge
                PROVE  MayMove(c)
    BY DEF MayMove
  <2>1. ASSUME NEW o \in Op, OpStep(o) PROVE MayMove(c)
    BY <2>1, SerialStays, StepMovesOn
  <2>2. CASE Crash \/ UNCHANGED vars
    BY <2>2 DEF Crash, vars, MayMove
  <2>. QED
    BY <2>1, <2>2 DEF Next
<1>. QED
    BY <1>1, InvHolds, SerialHolds, PTL DEF Spec, RequestsMoveOn
=============================================================================
