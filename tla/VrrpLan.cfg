SPECIFICATION FairSpec
CONSTANTS Host = {h1, h2}
          IdOf <- OneId
          Id = {1}
          CreatePri = {100, 255}
          ModPri = {}
          MaxQ = 2
          MaxCmd = 4
INVARIANTS TypeOK FlagIsTrue NoOrphan
PROPERTIES HandsOver LowerYields
CHECK_DEADLOCK FALSE
