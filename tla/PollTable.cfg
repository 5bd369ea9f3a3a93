SPECIFICATION Spec
CONSTANTS Ifname = {"eth0", "eth1", "eth2"}
          NETFDS = 2
          CHUNK = 4
          MaxCreate = 6
INVARIANTS TypeOK NamesMatchSockets InstanceHears SendsOnOwnInterface EnoughRoom
CHECK_DEADLOCK FALSE
