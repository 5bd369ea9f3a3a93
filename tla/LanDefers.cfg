SPECIFICATION Spec
CONSTANTS Host = {h1, h2}
          IdOf <- OneId
          Id = {1}
          CreatePri = {100, 255}
          ModPri = {356}
          MaxQ = 2
          MaxCmd = 4
PROPERTIES BackupDefers
CHECK_DEADLOCK FALSE
