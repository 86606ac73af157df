\* Two requests, two codes, two batches, two operations in flight.
CONSTANTS
    Cartridge = {c1, c2}
    Report = {b1, b2}
    Code = {k1, k2}
    Op = {o1, o2}
    Null = Null
SPECIFICATION Spec
SYMMETRY Symmetry
INVARIANTS
    TypeOK
    FilledByItsBatch
    SheetListsBatch
    CodeNamesOneRequest
    AuthorToldOnce
PROPERTY RequestsMoveOn
CHECK_DEADLOCK FALSE
