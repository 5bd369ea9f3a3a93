SPECIFICATION Spec
CONSTANTS Vr = {a, b}
          NULL = NULL
          USEC = 2
          WORD = 16
          MaxDelay = 1
INVARIANTS TypeOK
PROPERTIES LinksAtTheHead
           ImplementsUntimed
CHECK_DEADLOCK FALSE
