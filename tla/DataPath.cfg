SPECIFICATION Spec
CONSTANTS m1 = m1
          m2 = m2
          m3 = m3
          Machine = {m1, m2, m3}
          Routing = {m1, m2}
          IP_MAC <- Table
          OtherIp = {"10.0.0.1"}
          EVERY = EVERY
          ZERO = ZERO
          UNSET = UNSET
          MaxQ = 2
          MaxMsg = 2
          MaxAdv = 1
INVARIANTS TypeOK GoesToFreshRouter ShownByOwner NoLoop
CHECK_DEADLOCK FALSE
