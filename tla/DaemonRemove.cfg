SPECIFICATION Spec
CONSTANTS a = a
          b = b
          Vr = {a}
          NULL = NULL
          EMPTY = EMPTY
          Vrid = {1}
          VridOf <- SoloVrid
          CreatePri = {255}
          ModPri = {}
          ModDelay = {1}
          AdvPri = {200}
          HandlerThreads = {"main"}
          MaxPid = 2
INVARIANTS RemovedIsNoMaster
CHECK_DEADLOCK FALSE
