SPECIFICATION Spec
CONSTANTS a = a
          b = b
          Vr = {a, b}
          NULL = NULL
          EMPTY = EMPTY
          Vrid = {1, 2}
          VridOf <- PairVrid
          CreatePri = {255}
          ModPri = {}
          ModDelay = {1}
          AdvPri = {200}
          HandlerThreads = {"main"}
          MaxPid = 2
INVARIANTS QueueHoldsRunning
CHECK_DEADLOCK FALSE
