\* Edits of stored fields, as in TestReceiptChainDetectsModification.
SPECIFICATION Spec
CONSTANTS
    EventTypes = {"cdi_decision", "stop_event"}
    EventDatas = {"d1", "d2"}
    MaxAppends = 3
    MaxClock = 1
    MaxTampers = 2
\* A ledger nobody calls any more is idle, not stuck.
CHECK_DEADLOCK FALSE
INVARIANTS
    TypeOK
    ChainEvident
    ChainAccepts
