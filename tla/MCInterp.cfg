\* A thread that has returned and whose pipeline is empty stops.
SPECIFICATION Spec
CHECK_DEADLOCK FALSE
CONSTANT Programs <- AllPrograms
INVARIANTS InterpTypeOK RefsCounted
PROPERTIES ImplementsSSA Returns
