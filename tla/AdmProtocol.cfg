SPECIFICATION FairSpec
CONSTANTS Client = {c1, c2}
          Typed = {"create", "remove", "getx", "show"}
          MaxReq = 3
          MaxQ = 1
          NONE = NONE
INVARIANTS TypeOK OwnReply
PROPERTIES Answered
CHECK_DEADLOCK FALSE
