SPECIFICATION Spec
CONSTANTS Given <- TypedOptions
          MaxOpts = 3
          UNDEF = UNDEF
INVARIANTS NamesInstanceAlways
CHECK_DEADLOCK FALSE
