CONSTANT MaxPriorities = 5
SPECIFICATION Spec
INVARIANT NotifiedTaskExists
