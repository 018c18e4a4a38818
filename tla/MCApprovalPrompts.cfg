CONSTANTS
    Asks = {a1, a2, a3}
    NoAsk = NoAsk
SPECIFICATION AttentiveSpec
INVARIANTS ApprovalInv
PROPERTIES GrantsPrecedeAborts DrawnPromptsDecide EveryRequestDecided
