SPECIFICATION Spec
CONSTANTS Vr = {a}
          NULL = NULL
          USEC = 3
          WORD = 64
          MaxDelay = 4
PROPERTIES SoloSafe
CHECK_DEADLOCK FALSE
