# A TLA+ model of vrrpd

This directory models and verifies this repository's VRRP daemon (the
advertisement queue, the VRRP state machine, the SIGALRM handler that runs
beside the command loop, the list of instances, the socket tables), several such
daemons on one LAN, the client `vrrpadm` with its command line and its protocol,
and the programs around the daemon: the router it starts, a sender and a
receiver. TLC checks small instances; TLAPS proves
every safety property of the passing runs for all values of the constants (three of
them for a handler on the main thread, as section 4 says).

## 1. The system

`vrrpd` keeps a list of *instances*, each with one *virtual router* (VR), an
interface, an id (VRID), a priority and an advertisement interval (`delay`).
An instance is in INIT, MASTER or BACKUP. `vrrpadm` sends it commands over a
Unix datagram socket through `libvrrp.c`; other daemons send it advertisements
over raw sockets.

| component | state | operations | source |
|---|---|---|---|
| advertisement queue | `adv_q`, per VR `qnext`, `qprev`, `timeout`; the process' one alarm clock | `vrrp_enqueue(_impl)`, `vrrp_rmqueue(_impl)`, `vrrp_dequeue` | `vrrpd_impl.c` 389-520 |
| state machine | per instance `state`, `pid` of its router process | `vrrp_state_i2m/i2b/m2i/b2i/b2m/m2b`, `vrrp_state_execution`, `any_master_up` | `state.c` |
| timer | locals of the handler | `timer_thread`, `signal_alarm` | `timer.c` |
| commands | attributes of every instance | create, remove, startup, shutdown, modify, show | `vrrpd_impl.c`, `vrrpd.c` 237-412 |
| instance list | `inst_runtime_list`, sorted, doubly linked | insert, unlink, two searches, cursor | `vrrpd_impl.c` 23-342 |
| reception | `flag[]` (a master of this id was heard) | `process_vrrpd_sock`, `vrrp_adv_check`, `vrrp_process_incoming_adv` | `vrrpd.c` 475-716 |
| sockets | `netfds[]`, `pollfds`, `poll_intfs[]`, `poll_afs[]` | `setup_adm_socket`, `poll_add`, `init_netfd`, ... | `vrrpd.c`, `vrrpd_adv.c` |
| sending | - | `vrrp_send_adv`, packet headers, checksum | `vrrpd.c` 845-920, `vrrpd_adv.c` |
| command line | the words of a line; what `getopt` keeps between calls | `parse_opt_ids`, `cmd_modify`, `cmd_create`, ... | `vrrpadm.c` |
| command protocol | the two names in the file system, requests and replies in sockets | `create_vrrpd_socket`, `issue_vrrp_cmd`, `process_adm_sock`, `cmd_show_all` | `libvrrp.c`, `vrrpd.c` 197-425 |
| router | `phy_dst`, its table `IP_MAC` | broadcast, lookup, forward | `router.c` |
| sender, receiver | `dst_eth` and its lock | type, wait, send; listen; show | `sender.c`, `receiver.c` |
| LAN | packets on their way to each daemon | multicast, loss | from how `vrrpd.c` uses its sockets |

How they interact. The main thread polls the sockets and runs one command or one
advertisement to its end; both end in transitions of `state.c`, which change the
queue. The alarm, once it expires, runs `signal_alarm` on the main thread
(which then stands still) or on the timer thread (beside it); the handler takes
VRs from the queue, advertises for masters, promotes backups, puts them back and
sets the next alarm. `adv_q_lock` protects the queue, except in
`vrrp_state_b2m`, which the main thread calls without it; nothing protects
`state`, `pid` and the alarm clock.

Between daemons there are only advertisements: one with a priority sets `flag[]`
for its id and makes a lower master yield; one with priority 0 says that a master
stops, clears the flag and promotes a backup. Every master has a router process,
which announces itself by a broadcast every second; the sender gives its messages
to the router it has heard. `vrrpadm` and the daemon exchange one datagram each
way per command.

What is hard: the alarm meeting a command at any instruction; SIGALRM not being
blocked in critical sections; VRs enqueued twice or removed when absent; the
arithmetic of timeouts in `useconds_t` with the error value of `ualarm()`; stale
VRs in the queue after shutdown or removal; wildcard ids; the fixed sizes of the
socket tables; a stop advertisement that is lost or never sent; alarms left over
from an earlier time as master; clients that share one socket name; a line parsed
twice by a `getopt` that reorders it. `PROJECT.json` lists these hazards with their lines and the
properties that would catch them.

## 2. The modules

| module | models | built on |
|---|---|---|
| `AdvQueueOps` | the queue as a value: one operator per pointer assignment | - |
| `AdvQueue` | queue calls in any order, the clock reduced to "an alarm is pending" | `AdvQueueOps` |
| `AdvQueueTimed` | the same with timeouts modulo `WORD` and the interval timer | `AdvQueueOps`; implements `AdvQueue` |
| `InstLinks` | the promise of the instance list: where an instance goes, described by its neighbours | - |
| `InstList` | the list as the code works on it: walks, searches, conflict check, cursor | extends and implements `InstLinks` |
| `PollTable` | `netfds[]`, `pollfds` and the parallel arrays | - |
| `VrrpDaemon` | main thread, handler, state machine, commands, advertisements | `AdvQueueOps` |
| `VrrpHost` | a daemon with one instance as the LAN sees it, each operation a set of outcomes | - |
| `DaemonHost` | the refinement mapping from `VrrpDaemon` to `VrrpHost` | both |
| `VrrpLan` | several hosts, their receive sockets, loss, crash and restart | `VrrpHost` |
| `AdmProtocol` | clients and daemon with their sockets and names | - |
| `AdmOptions` | lines typed at the prompt, `getopt`, the commands made of them | - |
| `DataPath` | sender, listener thread, routers, receivers | - |
| `MCDaemon`, `MCInstList`, `MCLan`, `MCAdmOptions`, `MCDataPath` | constants and symmetry for TLC | |
| `AdvQueueTimedProofs`, `InstListProofs`, `PollTableProofs`, `VrrpLanProofs`, `AdmProtocolProofs`, `AdmOptionsProofs`, `DataPathProofs` | theorems and proofs about the module named | that module |
| `VrrpDaemonProofs` | the same for `VrrpDaemon`: types, mutex, what was tested still holds; then a daemon with one VR: its master stays in the queue, and it implements `VrrpHost` | `DaemonHost` |

Definitions whose comment starts with "mutant" are faulty variants of the
definition that follows. No specification uses them; putting one in the place
of its original shows that a property can fail.

### AdvQueueOps, AdvQueue, AdvQueueTimed

A queue is a record of the head and the links of all VRs. `vrrp_rmqueue_impl` and
`vrrp_enqueue_impl` are compositions of the pointer assignments of the code, in
its order, the read of `curr->qprev` after it was overwritten included
(`vrrpd_impl.c` 457-458). A write through NULL is a crash and ends the process.
In `AdvQueueTimed`, `search` is the search loop and `ualarm` what the C library
does: a second or more is rejected and the return value, -1, reads as the
largest `useconds_t`. That is why the delta list of the code never comes about: the
delays that `vrrp_enqueue` assigns (`Timeouts`) are whole numbers of seconds, so `sum`
starts at the maximum, the loop ends at once and the entry goes to the head
(`LinksAtTheHead`, whatever timeouts the queue holds by then).

In INIT `vrrp_enqueue` assigns no timeout (`vrrpd_impl.c` 410-416). A modify of an instance
that is in INIT and still queued reuses what is left in the entry: 0, a difference
stored at 453, a sum of 512, and after an interval of 0 also less than a second, which
`ualarm` accepts. `Requeue` is that call. The loop then does run: it stops at an entry,
before which the new one is linked, runs off the end of the queue, where the code writes
through NULL, or goes round an entry linked to itself for ever. After `Rounds` rounds the
loop is back where it was, so `walk` is all of it. `ImplementsUntimed` states that the queue
without timeouts allows all of this: `AdvQueue` requeues a leftover (`EnqueueLeftover`) before
any entry or crashes. That justifies that `VrrpDaemon` leaves the timeouts out.

### VrrpDaemon

Each C function of `state.c`, `timer.c` and each command with a critical section
is a sequence of instructions in `Code`; a thread is a function and a place in
it. An instruction is as much as the other thread cannot tell from one step: a
whole queue call under the mutex on the main thread, single assignments in
`vrrp_state_b2m` and in the handler it can meet. Commands and advertisements are
actions of the idle main thread that check the code's conditions and start a
function. `Deliver` is the expiry of the alarm. `up` records what ended the
process.

Correspondence: `live`/`used` are `inst_runtime_list` and the objects allocated,
`q` the queue, `lock` the mutex, `flag` the array of the same name, `routers` the
router processes that run, `wire` what was last advertised for an id.

Assumptions and abstractions:

- one interface, so the ids of the instances in the list differ (InstList has
  two, and id 0);
- objects are never freed (the code's calls of `free` are commented out);
- pointer-sized reads and writes are atomic and sequentially consistent;
- an alarm that expires while the handler runs waits for it, although the handler blocks
  SIGALRM on its own thread only;
- intervals are below 715 seconds, so no product with 3 000 000 overflows;
- `vrrp_set_inst_prop` stores priority and interval in one step: an alarm between the two
  stores differs only by the interval it sets the clock to, which is told apart from
  another only if one of them is 0; negative intervals are left out;
- after a requeue in INIT the entry may be anywhere in the queue, or the daemon may end
  (`DoRequeue`, justified by `ImplementsUntimed`); a search that never ends is an end;
- a command that fails changes nothing and is no action; `kill` succeeds; process
  ids are not reused; routers do not exit by themselves;
- `fork` may fail at any time; `MaxPid` bounds the successes;
- whether `entry->timeout == 0` in the handler is a free choice (`DoMore`);
- advertisements are those that pass the header checks, with an id of `Vrid`; one
  with id 0 would only set `flag[0]`, which nobody reads;
- `sleep` may end early, as a signal makes it;
- the preempt mode is stored with the other attributes; accept mode is never read.

### InstLinks, InstList

`InstLinks` lets an instance be linked at any place that keeps the order; `InstList`
finds the place by the walk of `vrrp_create_inst`, and is checked to implement
its specification `LinksSpec` (`KeepsPromise`). An empty name, id 0 and AF_UNSPEC are the wildcards of
`vrrp_search_inst_part`, which counts two matches as none.

### PollTable

`NETFDS` and `CHUNK` are 16 and 32 in the code. A write past the end of an array is
undefined and ends the behaviour. `init_netfd` has no return statement: with the
compilers at hand its value is that of its last call, `JoinMulticast`, which is 0
because the option does not apply to a packet socket and the test there is
inverted; so the create goes on, which is what the module models.

### VrrpHost, DaemonHost, VrrpLan

`VrrpHost` is the abstraction of a daemon with one instance. `todo` is what the
main thread still has to do before it polls again: a startup is BACKUP, then a
`sleep`, a yield is BACKUP, stop advertisement, `kill`, `sleep`. Queue, mutex and the
handler's instructions are gone; an alarm may come between any two of these steps.
`ImplementsHost` states that every step of `VrrpDaemon` is one of these
operations, with the same advertisement, or changes nothing the LAN sees. The
mapping reads `todo` off the main thread's place: `Rest` lists, for every place of every
function of `Code`, the operations the LAN can see among the instructions that
remain (lemma `RestPlaces` proves that the list follows `Code`: an instruction the LAN can
see is the first of the rest, and any other leaves the rest as it is). It counts an alarm
as pending (`ArmedSoon`) from the change to MASTER that will set it until the
handler has acted on it. It speaks of a daemon that has allocated one VR, because
with two the queue loses one, and of intervals other than 0. A host creates one instance
in its life: a daemon that creates another after a removal has a second receive socket
and reads every packet twice, which `VrrpLan` does not show.

`VrrpLan` composes hosts: an advertisement goes into the socket of every other host
that has created an instance; a full socket drops it, the network may lose the
first packet of a socket, a crash loses all of them. Packets to one socket are not
reordered or duplicated: the code assumes one Ethernet segment. The variable
`hung` is the set of daemons that have caught themselves in their own mutex (`Hangs`, what run
`DaemonSelfDeadlock` shows): they take no further step until they are ended and
restarted, and a master among them is silent. `fault` remembers that a stop advertisement
was lost or never sent: a daemon that owed it ended, or an alarm promoted a backup in the middle of its shutdown, which
then ends a master without a word. `HandsOver`, `FlagIsTrue` and `NoOrphan` hold only
without a fault, and `HandsOver` and `LowerYields` except a daemon that hangs; that is what this protocol gives, since a backup's master down
timer is never armed (run `DaemonTakeOver`).

### AdmProtocol

Both sides have a name in the file system. A client removes the client name,
binds it to its own socket, sends, waits, closes and removes the name again, one
action each, so that two clients meet at every point. `name` is who the name belongs
to. The daemon takes a request, executes it and replies to the name. Clients may be
killed at any point; the daemon may end and be restarted, and while it executes a command
it may hang (`Hang`: the alarm catches it in its own critical section). `show` asks again for ever
or ends, as `getx` does, because the instance that is to be displayed is never
taken out of the reply. `alone` is the history that makes the promise precise: when
the client bound the name, no request of another was under way, and since then nobody
removed the name and the daemon ran. Without it both properties fail, as the hazards
say. What the daemon does with a command is reduced to one instance that exists and
runs or not; the rest is `VrrpDaemon`.

### AdmOptions

A line is a sequence of words: a letter, a letter with its value, a value. `getopt`
is modelled as glibc works: it moves what is not an option to the end, takes
whatever follows a letter as its value, and leaves its pointer in a word with an
unknown letter. `scan` is that pointer, in terms of the buffers of `subcmd[]`, which
the next line is typed into; `left` is where the text there ends, which a line that never
calls `getopt` (another command, a mistyped one) may have made longer: getopt then reads
from the pointer on and past the first word (`Skips`), or, when the line has no such word,
overruns the text of an earlier one (`Overruns`). `parse_opt_ids`, `cmd_modify` (two passes over the line)
and `cmd_create` are the functions of the same name; `build_vrrp_cmd` and
`parse_vrrp_cmd` are the fields of a modify command in the order they are written and
read. The texts are such that no option letter follows the second character of a
word (a name like `enp3s0` would be read as options where the pointer is left over).
Lines have up to 30 words in the code; the bound is below that.

### DataPath

`Enter`, `Wake` and `Send` are the sender's main thread, `Hear` and `Store` its listener,
split where the lock is taken. A router's `Forward` looks its destination up; the loop
over 20 rows of a table of 10 leaves `phy_dst` as it was for an address that is not
there. Sender and router build their packet in 4 bytes of heap, so either may end
there. A packet is its destination and how often it was forwarded; `fresh` is the
history of which routers could still be heard.

## 3. Runs

Passing runs (bounds in brackets; all turn the deadlock check off, because the
process can crash, the bounds can be used up or, in `InstList`, instances with id 0
cannot be removed any more):

| run | shows |
|---|---|
| `AdvQueueTimedPair` [2 VRs, second = 2 units, word 16] | `TypeOK`, `LinksAtTheHead`, `ImplementsUntimed`. Two VRs give every shape of head, successor and stale link; the word leaves little above `TimeAssumption`, so sums wrap and leftover timeouts take every value |
| `InstList` [4 objects, ids 0..2, 2 interfaces, objects symmetric] | `ChainIsLive`, `FoundByOwnKey`, `ShowsAll`, `LinksMatch`, `Sorted`, `KeepsPromise`. Four objects give a first, two inner and a last place and equal ids |
| `PollTable` [3 interfaces, 2 entries, 4 descriptors, 6 creates] | `NamesMatchSockets`, `InstanceHears`, `SendsOnOwnInterface`, `EnoughRoom`; both limits are crossed |
| `Daemon` [2 objects with one id, created with priority 255, modified to 256, which is stored as 0; objects symmetric; handler on the main thread] | `LockDiscipline`, `SoloMasterServed`, `ImplementsHost`, `ShutdownSticks`. The second object is the instance created again after the removal of the first, whose VR may still be queued; a master of priority 0 advertises what means stop |
| `DaemonLive` [1 instance, priorities 100 and 255, handler on either thread] | `OnlySelfDeadlocks`, `MasterAdvertises` under fairness |
| `VrrpLan` [2 daemons, one id, created with 100 or 255, no modified priority, 4 commands, sockets of 2 packets] | `FlagIsTrue`, `NoOrphan`, `HandsOver`, `LowerYields` under fairness. Four commands are two creates and a startup and shutdown; a socket of 2 keeps an advertisement and the stop behind it, and fills up while its daemon sleeps; priorities may be equal. A modified priority is in run `Daemon` (`SetProp` of `ImplementsHost`) and in the proofs |
| `AdmProtocol` [2 clients, 3 requests, daemon socket of 1, four of the commands, a daemon that may hang] | `OwnReply`, `Answered` under fairness. Two clients meet at every step; the third request is the one after a client was killed or a reply went astray |
| `AdmOptions` [lines of up to 3 options out of 6, in one word, two, or torn apart; any number of lines, other commands in between; no `-o`, which the proof covers] | `NamesInstance`, `ModifyAsTyped`, `CreateAsTyped`. Three options are an id, an option that the first pass does not know, and one that it moves in between; ids and priorities exceed a byte; texts of several lengths are left in the buffers |
| `DataPath` [3 machines, 2 of them with routers, 3 table rows and an unknown address, 2 messages, 1 advertisement, sockets of 2] | `GoesToFreshRouter`, `ShownByOwner`, `NoLoop`. Two messages make what the first one left behind matter for the second, two routers hear each other |

`SoloMasterServed`, `MasterAdvertises` and `ImplementsHost` speak of a
daemon with one VR on purpose: with two, the queue loses VRs (configuration
`DaemonQueue`).
One successful fork (`MaxPid = 1`) is enough for a router that runs, for one that
could not be started and for one whose pid is kept too long; the configurations
that show disagreements have up to three.

Fairness (`Fairness`): a thread that can go on again and again does. Both threads
have strong fairness because the other one can take the mutex, and the handler
can freeze the main thread, again and again; but alarms are a second apart and a
command takes a fraction of that, so each gets its turn in between. A pending
alarm is delivered (weak fairness). Commands and advertisements have none.
In `VrrpLan` a daemon that has something to do does it and a pending alarm expires
(weak fairness: nothing else can take these steps away for ever); reading a packet
has strong fairness, because the network may lose the packets of a socket again and
again but not all of them. Commands, crashes, restarts and losses have none. In
`AdmProtocol` a client or daemon that can go on does (weak fairness); nobody has to
type, kill or start. A daemon that has caught itself in its own mutex (`hung` in both) can
not go on and has no fairness; no daemon has to hang, and none has to be spared.
The liveness properties except that case by name, as `OnlySelfDeadlocks` and
`MasterAdvertises` do with `SelfDeadlock`.

Runs that show a disagreement between a comment and the code:

| run | the comment | what happens |
|---|---|---|
| `DaemonSelfDeadlock` | `vrrpd.c:83` "infinitely accept commands" | the handler waits for the mutex of the thread it interrupted |
| `DaemonTakeOver` | `timer.c:2` "master down timer that fires" | the master down timer is never armed |
| `AdmLeftover` | `vrrpadm.c:82` "accepts arguments parses it and sends data" | `optind = 1` does not reset `getopt`: after `modify -p200 -v 1`, `delete -v 100` is sent with id 0 |

Configurations beside these runs, each with the one property it violates (or, for
`AdvQueueTimedSolo`, checks; it is also proved):

| configuration | module | property | the comment | what happens |
|---|---|---|---|---|
| `DaemonUnlocked.cfg` | `MCDaemon` | `B2mExcludesHandler` | `state.c:126` "Called in queue mutex, no need to lock" | three callers hold no mutex: the main thread is in `vrrp_state_b2m` while the handler on the timer thread works on the queue |
| `DaemonLateAdv.cfg` | `MCDaemon` | `AdvertisesAsMaster` | `timer.c:2` "sending of adv in master state" | the handler on the timer thread advertises for an instance that is a backup by then and has sent its stop advertisement |
| `DaemonRouter.cfg` | `MCDaemon` | `RouterIsHeld` | `libvrrp.h:218` "hold pid of routing process" | an alarm between BACKUP and `kill`: the old router runs on, remembered by no instance |
| `DaemonQueue.cfg` | `MCDaemon` | `QueueHoldsRunning` | `libvrrp.h:203` "a queue of VR ... running" | with two masters, a modify of one takes the other out of the queue |
| `DaemonRemove.cfg` | `MCDaemon` | `RemovedIsNoMaster` | `vrrpd_impl.c:221` "send SHUTDOWN signal" | the shutdown fails for id 0, the removal goes on |
| `DaemonStops.cfg` | `MCDaemon` | `SparesItself` | `vrrpd.c:83` | removing an instance that never was master sends SIGINT to process 0, the daemon's own group |
| `LanDefers.cfg` | `MCLan` | `BackupDefers` | `timer.c:2` | a left-over alarm promotes a backup beside the higher master it has just yielded to; `LowerYields` says that it gives way again |
| `AdvQueueTimedSolo.cfg` [1 VR, second = 3 units, word 64, intervals up to 4 s] | `AdvQueueTimed` | `SoloSafe` | - | holds |

`DaemonUnlocked` and `DaemonLateAdv` need the handler on the timer thread. Linux delivers a
process-directed SIGALRM to the main thread when it does not block it; POSIX allows any
thread. `HandlerThreads` chooses.

Further disagreements the models contain without a configuration of their own:

- removing an instance that does not exist follows a NULL pointer (`destroy_missing`);
- the `ualarm()` of `vrrpd_impl.c:468` sets no alarm; `vrrp_rmqueue_impl` can leave
  `adv_q` pointing to the removed entry;
- `init_netfd` runs for entries already initialised although `vrrpd.c:760` says
  otherwise; with id 0 two matches count as none for `vrrp_check_conflict`;
- `vrrpadm` prints "SUCCESSFULL EXECUTION OF COMMAND" for any reply, although
  `vrrpd.c:414` says the reply "contains status of execution of a command"
  (`libvrrp.c:73`);
- `modify -d 5 -p 200` sets the interval to 0: the first pass moves the 5 away and
  the second takes `-p` for the interval's value; `-o` ends `vrrpadm` in create
  (`process_opt_flags` frees a pointer it has moved) and is unknown to modify;
- a packet for an address that is not in the router's table goes to the machine of
  the packet before it, although `router.c:414` says "send to proper destination";
- the sender waits one second for a broadcast that comes every second, so it can
  report "ROUTER DOWN" for one that runs; it can use a router that has ended while
  its broadcast was queued.

## 4. Proofs

`tlapm` checks all of these from the named assumptions (`NullAssumption`,
`TimeAssumption`, `VrAssumption`, `NodeAssumption`, `IdAssumption`,
`DaemonAssumption`, `TableAssumption`, `HostAssumption`, `LanAssumption`,
`AdmAssumption`, `OptionsAssumption`, `DataPathAssumption`), for every value of the constants. They say
of what set a constant is and which special values differ from the ordinary ones;
the only one about contents is that two rows of `IP_MAC` with one address have one
machine (`router.c` 279-288).

- `AdvQueueTimedProofs`: `TypeCorrect`; `DelaysLinkAtTheHead` (a rejected timeout puts `sum` at the
  maximum and a zero timeout never enters the loop, whatever the queue holds);
  `TimedImplementsUntimed` (the refinement: every timed step is an untimed step or
  leaves the untimed state alone; for a leftover timeout the search is followed round by
  round, and `curr` is always an entry that `qnext` reaches from the head, or NULL);
  `SoloQueueIsSafe` (`SoloShape` is inductive
  for the untimed queue: with one VR both links agree, so a successor without
  a predecessor cannot occur, and only a requeue of a leftover crashes).
- `InstListProofs`: `LinksAlwaysMatch` and `AlwaysSorted` of what `InstLinks` promises. Neither
  is inductive by itself: that an insertion keeps the order needs the links to run both
  ways, and both need the types; `IInv` is their conjunction. The neighbours named by
  `StopsAt` are then the only links a step changes. That says nothing yet of walks: links
  that match could also run in a circle beside the list. `Listed` adds that the live
  instances can be numbered so that `next` goes from each to the following one; an
  insertion and a removal renumber (`InsertListed`, `RemoveListed`). `Named` adds what
  `vrrp_check_conflict` keeps apart: two instances with ids other than 0 differ in id or
  interface. From `ListInv`, their conjunction: `ChainIs` and `WalkStops` say what a loop along
  `next` computes, which gives `ChainAlwaysLive` (it meets every instance once and ends) and
  `WalksKeepPromise` (the walk of `vrrp_create_inst` ends at a place where `InstLinks` allows
  the insertion); `FullFinds` and `PartFinds` say what the two searches return, which gives
  `AlwaysFoundByOwnKey` and, by following the cursor from one instance to the next,
  `CursorShowsAll`; and `TypeCorrect`. The two theorems about `LinksSpec` hold of `InstList` by
  `WalksKeepPromise`.
- `VrrpDaemonProofs`: `TypeCorrect` and `MutexIsDisciplined` for any
  `HandlerThreads`; `ShutdownAlwaysSticks` under `HandlerThreads \subseteq {"main"}`, which it needs:
  on the timer thread the handler's test and its action are separated by steps
  of the main thread. The inductive invariants are `Data` (types), `Control` (places:
  which functions each thread can be in, that it has a VR while it is in one,
  that `curr` is set where it is used), `Locking` (the holder of the mutex against
  the places of both threads) and `Tested` (what the handler and the main thread
  have tested still holds, because the main thread is frozen while the handler runs).
  The second part is about a daemon that has allocated one VR and rests on these invariants.
  `MasterIsServed`, that is `SoloMasterServed` with the handler on the main thread. The property speaks of a daemon at rest; the invariant `SoloInv`
  says for each place of either thread who has the VR and who is to set the alarm.
  A master is the head of the queue (`InQueue`) unless the main thread has taken it out
  (`Out`) or the handler has (`Taken`), and an alarm is pending (`AlarmSet`) unless the main
  thread has yet to set it (`Unset`) or the handler will (`Acting`). The hard part is
  `vrrp_state_b2m`, which runs without the mutex: an alarm that promotes the backup
  before `vrrp_state_b2m` removes it puts it into the queue first, and only because it was
  enqueued twice and is linked to itself (`Twice`) does the removal leave the head in
  place. TLC had found this invariant inductive on the instance of run `Daemon` with one
  VR before it was proved.
  `DaemonImplementsHost`, that is `ImplementsHost` with the handler on the main thread. It
  rests on `SoloInv` and a second invariant, `AlarmInv`, which fixes what the host's `armed`
  stands for: no alarm is pending while the handler is between taking the entry and setting
  the next alarm (`SpentOk`), one is in the rest of the handler (`RearmedOk`), an empty queue with
  an alarm pending means that the instance is in INIT or that the main thread has taken it
  out (`EmptyOk`), and a thread about to set an alarm has a master (`SettingOk`); and on `Present`: while a modify is
  under way its instance is in the list, so that a requeue in INIT concerns the VR that
  the host stands for. The proof of
  a step then has two halves. `MainGoes`, `HandlerGoes` and the `...Shows` lemmas say what an
  instruction changes that the LAN can see; `HostDoes`, `HostAlarms`, `HostObeys` and `HostHears` say
  what a host can do, in terms of its fields. `StepIsHost` joins them, one lemma per kind of
  step: instructions of the main thread (`MainIsHost`) and those that end it
  (`MainEndsHost`), commands, advertisements, the handler, the signal, a torn queue
  (`CrashIsCrash`) and a daemon that is down (`DeadIsStill`).
- `PollTableProofs`: `TypeCorrect`, `NamesAlwaysMatch`, `InstanceAlwaysHears`,
  `AlwaysSendsOnOwnInterface`, `AlwaysEnoughRoom`. `IInv` adds that the poll table
  is filled from the front in the order of the creates (`FilledInOrder`) and that every
  interface has one entry in `netfds[]`, none without an instance (`OneEntryEach`); a create
  that rewrites an entry can then change only the sockets of its own interface.
  The room is counted by the pigeonhole argument that a free entry exists as long
  as some index is not taken.
- `VrrpLanProofs`: `TypeCorrect`, `FlagsTellTheTruth`, `NoBackupIsOrphan`.
  `FlagIsTrue` speaks of a daemon that has read everything; the inductive
  `FlagsWillBeTrue` says the same of the value `flag[i]` will have after the last packet
  for `i` in its socket. `HostsOk` lists what a daemon can still have to do (`Plans`) and
  what its state is then. The stop
  advertisement that a daemon owes (`Owes`) reaches every socket, because anything else
  sets `fault`, and there it ends what the packets before it claim.
- `AdmProtocolProofs`: `TypeCorrect`, `ReplyIsOwn`. `OwnReply` is about the end of a
  request; `AloneOwns` says that as long as a client is alone, the requests, the answer
  the daemon is working on and the replies in its socket are all its own.
- `AdmOptionsProofs`: `TypeCorrect`, `InstanceAlwaysNamed`, `ModifyAlwaysAsTyped`,
  `CreateAlwaysAsTyped`, for lines of any length. The inductive part is small (`IInv`: words of the
  kinds that can be typed, at most two to an option); what is hard is what one line means.
  `ReadAllSteps` and `ReadsSteps` turn the two folds, `getopt` over the words and `cmd_create` over the
  options found, into runs whose states can be compared one by one. `ReadsWhat` relates
  each state of `getopt` to the words before it: a word completes at most one option
  (`Grows`), so on a well-formed line the last argument found is the one typed last (`ArgIsSaid`).
  For modify, `FirstPassKeeps` shows that the first pass leaves the line as it is if no value can be
  moved away from its option: an unknown letter written apart is the last option (`UnknownIsLast`),
  so its value, which is all that is moved, is at the end already (`StaysInPlace`).
  For create, `Made` says what the instance is after each option, in
  particular that no option that needs the VR came before `-v` and that a valid address
  list follows the last `-j`, whose own value is read as an address list, too. The assumption that
  the indeterminate value `UNDEF` is no word keeps "never set" apart from what was typed.
- `DataPathProofs`: `TypeCorrect`, `MessageGoesToFreshRouter`, `OnlyOwnerShows`,
  `NoMessageLoops`. `OnlyFresh` follows a router's address from the broadcast through
  the listener's locals to `dst_eth`; `AtOwner` says that a packet that was forwarded
  once is at the owner of its address, so it is not forwarded again. Both use
  `LookupFinds`: the loop over the table finds the owner of every address in it.

Induction over data. The induction theorems of the library take the property as a
parameter, which the provers cannot instantiate. `InstListProofs` and `AdmOptionsProofs`
use that the order of the natural numbers is well-founded: a set of numbers that is not
empty has a least element (lemma `Least`, from `NatLessThanWellFounded` and `WFMin`). A
property of all numbers is then proved by looking at its least counterexample. A
recursive function or a fold is by definition a function that satisfies its equation,
if there is one; that there is one, and only one, is proved the same way.

Only model-checked, and why:

- every liveness property: `OnlySelfDeadlocks`, `MasterAdvertises`, `HandsOver`, `LowerYields`,
  `Answered` (fairness and ENABLED are out of the prover's reach).

With the handler on the timer thread, `ShutdownSticks`, `SoloMasterServed` and `ImplementsHost` are not claimed: their proofs
rest on `Tested`, and there a test of the handler and its action are separated by steps of
the main thread.

## 5. Not modelled

Byte layout of packets and command buffers (of a command, the order of its fields is
modelled); the checksum, which the sender and the router's broadcast
compute, the rest leaves at 0 and nobody verifies; usage, `print_args`, logging, `display_vrrp_instx` and the `dump_`
functions with their `timeval` helpers, which only print; errors of `socket`, `bind` and `ioctl` that end a process at once; the status
in a reply, which no client reads; reordering and duplication of advertisements,
which one Ethernet segment does not produce; several instances per daemon in
`VrrpLan`, where what the LAN sees would depend on the torn queue of `DaemonQueue`.

## 6. Plan

1. Done: queue, list, socket tables, daemon, their first proofs.
2. Done: the daemon's abstraction and its refinement, the LAN, the command protocol,
   the command line, the data path.
3. Done: proofs for the LAN, the command protocol, the data path, the socket tables and
   the daemon with one VR, and that this daemon implements the host of the LAN.
4. Done: proofs for the instance list, its walks included, and the command line.
5. Left: several instances per daemon on a LAN, which needs an abstraction of the torn
   queue of `DaemonQueue`.
