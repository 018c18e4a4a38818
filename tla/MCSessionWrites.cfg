CONSTANT MaxEvents = 4
SPECIFICATION FairSpec
CHECK_DEADLOCK FALSE
INVARIANT WriteInv
PROPERTIES ImplementsDurableLog EventsAreStored
