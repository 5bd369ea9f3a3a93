---------------------------- MODULE MCDataPath ----------------------------
(* Three machines, two of which may run a router; one message address for  *)
(* each of two machines, and the broadcast address between them.           *)
EXTENDS DataPath

CONSTANTS m1, m2, m3

Table == << [ip |-> "172.16.101.5", mac |-> m3],
            [ip |-> "255.255.255.255", mac |-> EVERY],
            [ip |-> "192.168.1.6", mac |-> m2] >>
=============================================================================
