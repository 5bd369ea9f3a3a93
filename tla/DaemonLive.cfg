SPECIFICATION FairSpec
CONSTANTS a = a
          b = b
          Vr = {a}
          NULL = NULL
          EMPTY = EMPTY
          Vrid = {1}
          VridOf <- SoloVrid
          CreatePri = {100, 255}
          ModPri = {}
          ModDelay = {1}
          AdvPri = {200}
          HandlerThreads = {"main", "timer"}
          MaxPid = 1
PROPERTIES OnlySelfDeadlocks MasterAdvertises
CHECK_DEADLOCK FALSE
