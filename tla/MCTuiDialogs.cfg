CONSTANTS
    Asks = {a1, a2, a3}
    Answers = {yes, no}
    NoAsk = NoAsk
SPECIFICATION AttentiveSpec
INVARIANTS DialogInv
PROPERTIES ImplementsAskOnce EveryDialogSettles
