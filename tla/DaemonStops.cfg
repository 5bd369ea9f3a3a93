SPECIFICATION Spec
CONSTANTS a = a
          b = b
          Vr = {a}
          NULL = NULL
          EMPTY = EMPTY
          Vrid = {1}
          VridOf <- SoloVrid
          CreatePri = {100}
          ModPri = {}
          ModDelay = {1}
          AdvPri = {200}
          HandlerThreads = {"main"}
          MaxPid = 2
INVARIANTS SparesItself
CHECK_DEADLOCK FALSE
