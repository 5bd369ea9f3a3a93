SPECIFICATION Spec
CONSTANTS Inst = {i1, i2, i3, i4}
          ROOT = ROOT
          NULL = NULL
          Ids = {0, 1, 2}
          Ifname = {"eth0", "eth1"}
INVARIANTS TypeOK ChainIsLive FoundByOwnKey ShowsAll LinksMatch Sorted
PROPERTIES KeepsPromise
SYMMETRY Objects
CHECK_DEADLOCK FALSE
