\* An honest batch whose last consumed cell is input 256: the codec writes its
\* statement, the Rust reader refuses it.
SPECIFICATION Spec
CONSTANTS
    MaxMoney = 200
    Profiles <- ZeroFee
    Paddings <- WidePadding
    MaxHostFaults = 0
    MaxLapses = 0
INVARIANTS
    CodecStatementIsRead
CHECK_DEADLOCK FALSE
