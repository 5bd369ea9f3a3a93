SPECIFICATION Spec
CONSTANTS a = a
          b = b
          Vr = {a, b}
          NULL = NULL
          EMPTY = EMPTY
          Vrid = {1}
          VridOf <- SameVrid
          CreatePri = {255}
          ModPri = {256}
          ModDelay = {1}
          AdvPri = {100, 255}
          HandlerThreads = {"main"}
          MaxPid = 1
INVARIANTS TypeOK LockDiscipline SoloMasterServed
PROPERTIES ImplementsHost ShutdownSticks
SYMMETRY Objects
CHECK_DEADLOCK FALSE
