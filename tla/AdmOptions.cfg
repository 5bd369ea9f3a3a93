SPECIFICATION Spec
CONSTANTS Given <- TypedOptions
          MaxOpts = 3
          UNDEF = UNDEF
INVARIANTS TypeOK NamesInstance ModifyAsTyped CreateAsTyped
CHECK_DEADLOCK FALSE
