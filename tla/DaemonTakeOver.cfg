SPECIFICATION FairSpec
CONSTANTS a = a
          b = b
          Vr = {a}
          NULL = NULL
          EMPTY = EMPTY
          Vrid = {1}
          VridOf <- SoloVrid
          CreatePri = {100}
          ModPri = {}
          ModDelay = {1}
          AdvPri = {200}
          HandlerThreads = {"timer"}
          MaxPid = 1
PROPERTIES BackupTakesOver
CHECK_DEADLOCK FALSE
