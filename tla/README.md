# A TLA+ verification of LifeNet

LifeNet is a mesh network for ad-hoc use. A Linux kernel module below the IP layer turns
every packet into a MAC broadcast and lets the nodes that overhear it relay it. Daemons
measure how well nodes hear each other and write *effective distances* into the kernel
module. Programs on top exchange text messages and files. This directory models the parts
of it that keep state and make decisions, checks them with TLC on small instances, and
proves the most important results with TLAPS for every instance.

Paths below are relative to `src/`.

## 1. Inventory

### The parts and their state

| Part | Code | State | Operations |
|---|---|---|---|
| Kernel packet path | `src/main_module.c` | distance, timestamp, statistics and path lists; `global_fwd_disable`, `global_manifold_disable`, `bcast_fwd_threshold` | transmit hook `wdl_hard_start_xmit`; receive handler `wdl_handle_recieve` with the relay path `wdl_modify_and_transmit` and `routing_decision` |
| Kernel lists | `src/*_list_functions.c` | linked lists, three of them with a capacity of 50 | search, add, update, remove expired, free all |
| Session timer | `src/timer_functions.c` | `g_session_id` | every 30 s: collect one expired peer, next session |
| /proc | `src/proc_functions.c` | a static cursor and `read_flag` for paged reads | commands `distance`, `set_fwd_threshold`, `toggle_fwding`, `start`, `stop`; reports of counters, distances and paths |
| Module load and unload | `hello_init`, `hello_exit` in `src/main_module.c` | what is registered: packet handler, transmit hook, four /proc files; the lists | insmod with its error paths, rmmod |
| Inject | `applications/Inject` | `g_is_gw_flag`; the gateway file, the firewall | every `HB_INTERVAL` seconds ping the Internet, set the firewall, read the counters from /proc and broadcast them with its name servers |
| Sniff | `applications/Sniff` | host list, own counters, counters others report, smoothed distances; route, `/etc/resolv.conf`, hosts and statistics files | one heartbeat: admit the host, extract, compute distances, write those that changed to /proc, follow a gateway, rewrite the files |
| File transfer | `applications/LifeNetFTP` | `FTP_TX_LOCK`; the locals of a sending and a receiving thread | list, lock, request a block, answer, end of file |
| Messages | `applications/LifeNetSMS` | `SEQ_CNT`; last number of every sender; lists of unread and read messages with a counter and a flag | send with attempts, receive and answer, move read messages, open the window |
| Older chat | `applications/MyMANET-chat` | last number of every host | send with attempts, receive and answer |
| Programs beside the module | `PathTraceLogger`, `CommandListener` | | until the module is unloaded: read /proc/wdl or /proc/distance, write a file |
| Readers of Sniff's files | `ArpUpdater`, `DisplayGnst` | fixed ARP entries; names seen | periodic loops |
| Other displays | `NetVisualize`, the `GnsmManager` classes | | read the statistics file and draw |
| Start and stop | `scripts/lifenet_start`, `scripts/lifenet_stop` | which programs run | rmmod, insmod, start or kill programs |
| Build | other scripts, `firewall`, `openwrt` | | `openwrt/*/src` are near-identical copies of the module and the daemons |

### How they interact

    application --UDP/IP--> transmit hook --MAC broadcasts--> receive handlers of neighbours
                                                                |deliver      |relay
    Inject --reads /proc/{tx,rx}stats--> heartbeat (a broadcast packet like any other)
    Sniff  --hears heartbeats, writes "distance" and "set_fwd_threshold"--> /proc/wdl
    session timer --ages the counters, forgets peers and their distances, new session
    PathTraceLogger --pages of /proc/wdl, which frees the path list at the end--> a log
    Inject --gateway file--> Sniff --hosts file--> ArpUpdater
                             Sniff --statistics file--> DisplayGnst
                             Sniff --resolv.conf--> Inject of the same machine, whose
                                     beats carry it to the Sniff of the next machine

The kernel parts share their lists without locks between softirqs, the timer and user
context. The Java threads of LifeNetSMS share plain static fields without locks. All
other communication is datagrams over the mesh.

### What is hard, and what correctness means

* **Kernel packet path** — no route is ever set up: every node decides alone, from a header
  that each relay rewrites, whether to relay. Floods must end; the hop budget must not wrap
  around; stored timestamps must belong to real packets and not fall back; recorded paths
  must be paths; nothing may be delivered that was not sent to this address; lists must stay
  within their capacity.
* **Distance measurement** — counters of two nodes, carried by lossy and overtaken
  heartbeats and separated by 30 s sessions, are divided. They must be counts of the same
  packets; the kernel must hold what the sniffer computed; a silent host must become far.
* **Path report** — one read frees what several reads print, packets are counted meanwhile,
  on one CPU even between two turns of the loop that frees. No packet may be reported twice
  and the list must stay within its count.
* **Load and unload** — handlers, timers and files are removed one by one while packets
  arrive and programs read. Nothing may reach freed lists or unloaded code, and the programs
  must notice that the module is gone.
* **Addresses, gateways and files** — five programs per machine share nothing but files that
  are emptied before they are written, machines of both byte orders exchange addresses that
  each swaps as it sees fit, and any program may be killed anywhere. ARP entries must be
  right, an address conflict must be noticed, name servers must be those of one gateway, the
  firewall must follow the gateway file, and a display must not show numbers that are stale.
* **File transfer** — stop-and-wait over datagrams that are lost, repeated and overtaken,
  with one lock and answers recognised by number only, between threads that wait for message
  boxes and read a buddy selection that another thread clears. Blocks must be written in
  order and all of them; downloads must end where the code lets them and senders come to
  their end; a transfer must not be taken over.
* **Messages** — numbers start over with every program start, lost answers are not repeated,
  and a name that is not found is the node itself. A confirmed message must have been taken,
  and it must be clear by whom; a fresh message must not be refused; numbers must grow at
  the receiver.
* **Message lists** — three threads, two fields each, no lock: no message twice, none hidden,
  and the moving thread must survive.

`PROJECT.json` lists every hazard with the line where it bites and the properties on it.

## 2. Modules

| Module | What it is |
|---|---|
| `KernelList` | a kernel list as a function from keys to entries; put, drop, room |
| `DistanceList` | effective distances: search (255 when absent), add and update |
| `StatList` | transmit, receive and relay counters with the session change, the wrap and expiry |
| `PathList` | packets counted per recorded path |
| `Routing` | `difftime`, `routing_decision`, the number of repeated transmissions |
| `Forwarding` | a mesh of nodes running the kernel module, composed of the five above |
| `Mesh` | the abstract specification of that mesh: what reaches the programs above it |
| `PathReport` | the paged read of /proc/wdl and the loop that frees the path list, packet by packet |
| `PathLedger` | the abstract specification of that report: a packet waits, is reported once or is lost |
| `Machine` | one machine: `PathReport`, the module from insmod to rmmod, the scripts and the programs |
| `Heartbeats` | session counters, Inject, Sniff and the kernel's distances |
| `Services` | Inject, Sniff, ArpUpdater and DisplayGnst of several machines: addresses, gateways, name servers, firewall, files |
| `FileTransfer` | LifeNetFTP: a sharing node and its clients |
| `FileCopy` | the abstract specification of a download: an output file that grows in order |
| `Inbox` | the message lists of LifeNetSMS; also the abstract specification of them for `Messaging` |
| `Conversation` | the abstract specification of numbered messages: taken in order, confirmed if taken, by the node itself only after a failed lookup |
| `Messaging` | LifeNetSMS between nodes, built on `Inbox`; implements it and `Conversation` |
| `MC*` | instances for TLC |
| `*Proofs` | theorems; `ListProofs` holds the lemmas about the kernel lists |

### Forwarding (with Routing, StatList, PathList, DistanceList, KernelList)

State: per node the four lists, three switches and the session id; `air`, the frames that
will reach a receiver; histories `sent`, `delivered`, and in each frame its `route`.

| Action | Code |
|---|---|
| `Send` | `wdl_hard_start_xmit`: header, counting, repeated transmissions |
| `ReceiveHere` | `wdl_handle_recieve` for PACKET_HOST and multicast |
| `Relay`, `DontRelay` | the same for other hosts' packets and broadcasts, either way of the relay decision, including the timestamp update and the counters |
| `SessionTimer` | `timer_func` |
| `WriteCommand`, `ReadPaths` | `wdl_write`, `wdl_read` |

Abstractions. A handler is one step: the kernel runs a receive softirq to its end on a CPU,
but two CPUs may interleave in the lists, which have no locks; that is not modelled here
(see the plan). A transmission is heard by any subset of the neighbours in any order, which
over-approximates the radio; a device that is down, a failed allocation or missing header
room look like a transmission nobody heard. The order of a list is left open: it only
decides which expired entry the timer collects first. The `rand`-like relay draw is free.
For a unicast the code computes `(unsigned int)(2*(float)INT_MAX)`, whose conversion
overflows (`main_module.c:446-449`), so every draw may go either way whatever the threshold
is; broadcasts are always relayed when the threshold is at most 1. Fractions of a second are
compared in network byte order (no `ntohl`), as the constant `NetFrac` says. The age of a
counter is the number of 30 s timer firings since it last moved. A freed list entry that
`remove_distance_entry` reads once more is taken to be intact still.

### Heartbeats

State: the kernel's counters, distances and threshold; heartbeats in the air and in the
sniffer's socket; the sniffer's hosts, own row, reported rows and distance table. Actions:
`SendBeat` (Inject), `Hear` (the kernel counts and delivers one copy), `Sniff`
(`parse_ethernet_packet` with everything it calls), `SessionTimer`. Which nodes relay
heartbeats is `Forwarding`'s business, so a heartbeat reaches `Reach[n]`, the sender itself
included when others relay. `create_gnsm_packet` reads each of /proc/txstats and
/proc/rxstats twice before it sends; the reads and the send are one step. Gateway and name
server fields and the files Sniff writes are in `Services`; IP addresses do not change; the session id does not come round
(`MaxTimer <= 254`); sessions of two nodes are at most one apart. `sentIn` and `heardIn` are
histories: what was sent, and which copies were heard, by session. `late[r][s]` marks a
receiver that heard a session of `s` after a later one, or whose entry of `s` expired within
a session: only then may what `r` reports of `s` be wrong, and `CountsMatch` says that it is
right, up to the width of a counter, in every other case.

### PathReport and Machine

`PathReport` is the path list of one node in the detail that `Forwarding` leaves out.
`list` are the entries reached from `path_head`, those of `freed` already given to `kfree`;
`resumed` and `printed` are `read_flag` and the static cursor `tmp`; `count` is
`g_path_list_count`. `ReadPage` is `wdl_read` (any entries may come first, as many as fit);
`FreeNext` and `FreeDone` are the turns and the end of `free_entire_path_list`;
`CountPacket` and `CountWhileFreeing` are `add_or_update_path_entry` on a list that is whole
and on one that is being freed, where the walk may fault, may still find the path, or may
append behind an entry that is gone (`leaked`). There is one CPU: a packet may come between
any two turns, another process may not. `noted` and `reported` are histories.

`Machine` puts it into a machine. `Insmod`, `CreateEntry`, `TakeDevice` are `hello_init`
with each way it can fail; the `Exit*` actions are the steps of `hello_exit`, called by
rmmod or by `hello_init` itself; `RunScript`, `ScriptInsmod`, `ScriptLaunch`, `ScriptKill`
are `lifenet_start` and `lifenet_stop`; `CheckLsmod` and `Work` (`LogPaths`,
`CopyDistances`, `PackStats`, `WriteDistance`) are the loops of the four programs;
`Receive` and `Transmit` are the handlers, as far as they walk or fill a list. `faults` is
a history of what went wrong in the kernel. `running` counts the copies of each program,
because a second start does not look for the first one's. Of the other lists only "not
empty" and "entries freed" are kept. A program is killed between its rounds or in them; a
process never runs while a read is inside the kernel. A user's own rmmod or insmod is a
script cut short and leads to no other state of the module.

### Services

State per machine: where Inject and Sniff stand, and every file they share: the gateway
file, the hosts file, the statistics file, `resolv.conf`; routes, firewall rules, ARP
entries, and the display. `Probe`, `EmptyStatus`, `WriteStatus`, `SendBeat` are a round of
Inject; `Hear`, `ReadStatus`, `WriteServers`, `WriteTable` are `parse_ethernet_packet` of
Sniff, cut where a file is empty for others to see; `UpdateArp` is a round of ArpUpdater,
`CollectNames`, `PrintCell`, `PrintDistance` are the display's; around them `ChangeWan`,
`Restart` and `Tick`. An address is four octets and is swapped as the code swaps it:
`Wire` and `Received` reverse it on a machine of `LittleEndian`. `Embedded` machines run
the OpenWRT build: no display and no ARP fixing, no statistics file, a hosts file that
survives restarts, no sudo for the route command, and firewall rules that are never flushed
(the code tests `IS_EMB_GW`). What a beat says of the links is `Heartbeats`' business and is
left out here; so are host names and the columns of the files that are only printed. A
beat is heard by any set of machines, at any later time, in any order, and once: a repeated
one changes nothing but the time of its host. `heard` is a history.

### FileTransfer

`client[c]` is the dialogue of a downloading user (list, lock, receive) with the attempts of
`UDPTxAck` and the round count of `RxFTPThread`; `lock`, `serving` and `tx` are
`FTP_TX_LOCK` and the `TxFTPThread`. Actions follow the threads: select, download, transmit
a request, hear an answer, time out, serve a control message, serve a block, time out,
finish. `log` is the history of transfers and gives every block its origin. Each copy of a
datagram that the mesh delivers may be heard once, in any order.

`addr` is what `getBuddyIP` gave. BuddiesUpdateThread clears and refills the list of buddies
all the time, so every read of it may give the address, nothing or `""`:

* `Call` is a round of `RxFTPThread` that finds a buddy. It reads twice
  (`RxFTPThread.java:77-79`), and a null the second time ends the thread by an exception.
* `NoBuddy` is a round that finds none: the `if` at line 78 has no `else`, so the loop goes
  round at once, without a request, a count or a pause. It changes nothing.
* The address `""` is the loopback, so a request reaches the downloading node's own
  programs. It shares nothing, so only its `ControlThread` answers, and only lock requests
  (`OwnAnswers`): such a download is approved and then finds nobody to send it a block.

Message boxes hold a thread up until the user closes them. The phase `notice` is the one of
a client that gave up or got no answer (`RxFTPThread.java:84`), closed by `Dismiss`;
`notice` is the one of the sending thread after its last timeout (`TxFTPThread.java:108`,
`:124`), closed by `CloseNotice`, and only that releases the lock.

`PastEnd` is what a lost end-of-file answer leads to. The request is repeated, is no longer
in sequence, and is answered with the last block under its number (`TxFTPThread.java:81-92`);
the client writes that block once more, goes on to the next number and forgets its failures.
If that answer is lost too it happens again, and for ever if the network will have it so.

Left out: the START and STOP of a running server (one sharing server, always on), selecting
another buddy during a download, two downloads of one user, and a node that downloads and
shares at the same time.

### Inbox and Messaging

`Inbox` takes one access to a shared field as one step: `Arrive`, `Add`, `Load`, `Store` are
`MessageThread` (the last two are `unreadCount++`); the mover's steps are `LifeNet.run`;
`OpenView` and the viewer's steps are `InboxView`. `readCount` is the length of
`readMessageVector`. `Messaging` adds `MessageWindow` and `UdpTx` (`Click`, `Transmit`,
`HearAck`, `NoAck`, `Fail`), the receiving side (`ReceiveHandshake`, `ReceiveMessage`,
`ReceiveOld`) and `Restart`. Datagrams stay deliverable and nobody need hear them, so loss,
repetition, delay and reordering are all covered; the kernel really does send a unicast
three times or more and only the timestamps of relays suppress copies. A restart takes
longer than a datagram lives. `life`, `accepted`, `confirmed` and `astray` are histories.

Names and addresses are looked up in the hosts file (`LifeNetApi`), which Sniff empties and
rewrites with every heartbeat. A lookup that finds nothing returns `""`; as an address that
is the loopback (`UdpTx.java:43`). `Addresses` and `OwnNames` are what a lookup may give on
the nodes of `Missing`: a datagram (`StartSend`: one lookup for all attempts of a number) or
an answer (`Reply`) may go to the node that sends it, and a message may be signed with the
name `""` (`NoName`), under which the receiver keeps its number and to which it can only
answer itself. A node that answers itself does so with the right number, and the send counts
as confirmed. `astray` remembers the lives of a node in which that happened.

## 3. Model checking

Deadlock is not checked where the bounds let a system stop (the mesh falls silent, the
users have nothing left to do, the module stays unloaded); `messaging_sends` checks it.

| Run | Question | Properties |
|---|---|---|
| `forwarding_flood` | Does flooding end on a line longer than the hop budget, with timestamps that stay real and recent over seconds of byte-swapped stamps, and what do the programs above the mesh see? | `StampsAreReal`, `PathTrace`, `FloodsEnd`, `StampsStayRecent`, `FloodsShrink`, `ImplementsMesh` |
| `forwarding_control` | Do lists stay bounded and paths stay walks of the radio graph, on a diamond with two routes, under all kinds of traffic, commands and timers? | `TypeOK`, `ListsBounded`, `PathsAreWalks` |
| `forwarding_decision` | Is the last line of `routing_decision` unreachable, as it says? **No.** | `DecisionIsTotal` |
| `heartbeats` | Are compared counts of the same packets, and does the kernel hold the sniffer's distances? | `TypeOK`, `KernelAgrees`, `CountsMatch`, `ZeroOnlyAtStart` |
| `heartbeats_silent` | Does a host that fell silent become far, as a comment says? **No.** | `SilentHostsFar` |
| `machine` | Is a path report right, is unloading safe, do the programs end, however the module is loaded and whatever arrives meanwhile? | `TypeOK`, `ListWithinCount`, `UnloadIsSafe`, `ImplementsLedger`, `DaemonsEnd` |
| `services` | Are addresses, name servers, firewall and display right across byte orders, failing WANs, restarts and half-written files? | `TypeOK`, `ArpRight`, `ConflictsApart`, `ServersOfOneGateway`, `ShownIsFresh`, `FirewallFollows` |
| `ftp_download` | Does a download end when its buddy is found again and again, and a sender that answered the end of file come to its notice, unless a client runs past the end? Does the file grow in order? | `TypeOK`, `DownloadEnds`, `EofNoticed`, `ImplementsFileCopy`, `RequestsAdvance` |
| `ftp_shared` | Do two clients of one server get their blocks in order, and can one take over a transfer? | `DownloadInOrder`, `NoTakeover` |
| `ftp_denied` | Does a denied lock request keep a client out? **No.** | `DeniedStaysOut` |
| `messaging` | Do confirmations, refusals and orders survive loss, repetition, failed lookups and restarts? | `NotShutOut`, `ImplementsConversation` |
| `messaging_sends` | Does the event thread always return, and do the lists stay right under every interleaving of their threads? | `SendReturns`, `SendAdvances`, `ImplementsInbox`, `TypeOK`, `MovedOnce`, `NoneHidden`, `DiesOnlyOfRace` |

### Bounds

* `forwarding_*`: six nodes in a line, so that its ends are further apart than `MAX_HOPS`
  (`forwarding_flood`), three in a line (`forwarding_decision`), or four in a diamond whose
  two relays hear each other (`forwarding_control`). `MAX_HOPS` is 4 and is *not*
  scaled: three relays suffice for every forwarder field and for the last hop, and the line
  relays back and forth until the budget is used up. `MaxAir` frames are in flight at once
  (1 or 2: two frames are needed for one to overtake another, and they are enough for
  every pair of packets). List capacities of 50 are scaled down (to 1 or 2 in
  `forwarding_control`) so that they are reached.
  Expiry after more than 90 s (four firings) is scaled to 2. A second has ten units and a
  fraction two base-4 digits, so that byte order matters. `forwarding_flood` sends
  two packets (`MaxPackets`) at any two of three times: in one second and the next, or two
  or three seconds apart. Stamps are compared in pairs, so that a third packet adds nothing.
* `heartbeats`: the sniffer of one node, three beats of it and one of the other, three
  sessions, one copy each, with two in flight and one in the socket; both with different and
  with equal IP addresses. One full cycle needs a session of sending, one of reporting and
  one of comparing, and expiry of the peer after two firings falls within it. Counters wrap
  at 4 in place of 2^32 (`Counts`), and cannot reach that within three beats.
* `machine`: three scenarios (`MCPlans`), so that what is independent is not multiplied: three
  runs of the scripts with one packet and two of the programs, then with the other two; and
  one start with four packets, for a path list of two entries, three paths and pages of one
  entry. Three scripts let a module be loaded, unloaded or reloaded and loaded again with the
  remains of the first. A full list, a page that resumes and a packet at every turn of the
  free loop all occur with four packets. Counters wrap at `Byte = 2` in place of 256, and
  sessions 1 and 5 make every branch of the session change happen.
* `services`: two laptops and a router, three scenarios. Addresses: three beats, two
  machines with one address (of the same byte order or of different ones), an address that
  ends in 192, heard by a laptop or by the router. Gateways: two beats, one WAN
  change, one restart, so that one machine learns servers from a gateway and passes them on
  when it becomes one. Display: three beats, two seconds, one restart, with `Shown = 1` in
  place of 30. `MaxHosts = 2` in place of 40 is reached by three machines.
* `ftp_*`: files of one, two and three bytes in blocks of two: a last block that is full, one
  that is not, and the single byte that divides by zero. One or two attempts each, two
  datagrams in flight, two transfers so that answers of the first one meet the second. In
  `ftp_download` a read that finds a buddy gives the address or `""` (`Addresses`); in the
  other two, which ask about two clients (interchangeable in `ftp_shared`, where the two are
  declared symmetric), always the address. `MaxDownloads = 1`: a user rests after one
  download. Numbers beyond `MaxSeq` are not heard. It is 7 in `ftp_download`: data starts at
  number 2 and two transfers of a two-block file have four different blocks, so a client
  that gets to number 7 has written one of them twice. The bound therefore never cuts a
  download that `DownloadEnds` has to bring to its end: whoever reaches it is `PastEnd`.
* `messaging`: a writer and a buddy, the writer writing to itself as well, with one restart
  each, numbers 0 and 1 of each life (`MaxSeq = 2` is the next one), one attempt each, three
  datagrams taken by each (`MaxTaken`), and every lookup of either node free to fail
  (`Missing`). One attempt suffices, since what was sent stays deliverable.
* `messaging_sends`: the same two without restarts and failed lookups, two attempts each,
  numbers 0 to 2, and the inbox window: one message can be copied while another
  arrives during the copy or the resets.

### Fairness

`FloodsEnd` assumes that the kernel processes received frames; `DownloadEnds` and
`EofNoticed` that each thread of the server and of a client is scheduled, where waiting for
a datagram ends with a timeout (`setSoTimeout` on every socket); `SendReturns` the same of
the sender. Nothing is assumed of users: `Dismiss` and `CloseNotice` may never happen, and a
lock may stay taken for want of them. Nothing is assumed of `Call` either, since nothing in
the code makes a buddy selected when the loop looks; `DownloadEnds` has it as a premise (the
client finds its buddy again and again) and is false without it. `DaemonsEnd` assumes that a program that can run is run (`CheckLsmod`, `Work`)
and that a read inside the kernel returns (`Free`); the scripts and hello_init, hello_exit
get no fairness, since the property is conditional on the module staying absent. Nothing
is assumed of the network: it may lose everything. The other properties
are safety properties and need none.

## 4. Findings

1. `forwarding_decision`: `routing_decision` ends with "This shouldn't be ever printed."
   (`src/main_module.c:252`) for every packet that makes progress and is OUT_OF_ORDER, an
   outcome with no branch of its own. In the run two packets of one second arrive in the
   order they were sent; their fractions are compared without `ntohl`, and byte-swapped they
   compare the other way round, so that the second one gets there and is dropped.
2. `ftp_denied`: the answer to a lock request is accepted by its number
   (`MainForm.java:552`), and a denial is sent with the text of an approval
   (`ControlThread.java:117`). In the run a client that was denied, while the sending thread
   serves the other one, asks for a block, gets the first one of the other's transfer and
   writes it to its file.
3. `heartbeats_silent`: the age test subtracts the wrong way round
   (`Sniff/supporting_functions.c:262`, again at `:435`), so the branch for hosts that were
   silent for more than 30 s (`:273`) is dead code and a host that is gone keeps its distance.

### Behaviour worth knowing that contradicts no document

* `num_bcast_rx` keeps the -1 it is initialised with, so a host that never reported hearing
  us gets the distance 255 + 155/s modulo 256 for s packets sent: 154 for s = 1
  (`Sniff/supporting_functions.c:229`).
* All sessions start at 0 and so do the counters of both sides: the first comparison yields
  distance 0, after which the kernel refuses to relay to that host. Later sessions yield it
  only from disturbed counts: a heartbeat that arrives after one of a later session is counted
  in the later one (`stat_list_functions.c:363`), so enough of them make a host seem to have
  heard more than was sent, and above a hundred times as much the quotient is 0.
  `ZeroOnlyAtStart` states both cases; its proof is what brought the second to light.
* The kernel forgets the distance of an expired peer; the sniffer writes it again only when
  it changed by the tolerance.
* The forwarding threshold is the number of hosts whose current session matches and whose
  unsmoothed distance is small; `src/main_module.c:284` calls it a count of all such nodes.
* A peer whose session wrapped while no packet of session 0 or 1 was heard keeps its
  counters at the old session (`stat_list_functions.c:326-339`).
* A message that comes in between the mover's last copy and its resets is cleared without
  having been moved, although it was answered; one that is counted between the two resets
  makes the mover or the window run past the end of the vector, and the mover is then dead
  for good (`LifeNet.java:107-109`). `DiesOnlyOfRace` says that nothing else kills it.
* A message is answered before it is listed; a lost answer is never repeated, so the sender
  repeats in vain; an old answer ends the attempts for a newer number; number 0 goes to the
  first buddy only, so every other buddy of a restarted sender drops its messages.
* A message to a name that is not found at that moment goes to the sending node itself, whose
  own `MessageThread` takes and answers it: the send counts as confirmed though the buddy
  took nothing (`LifeNetApi.java:197`, `UdpTx.java:43`). `ImplementsConversation` allows a
  confirmation of one's own after a failed lookup, and no other.
* A network that loses every end-of-file answer keeps a download alive and its sender locked
  for ever, the last block being written again and again (`TxFTPThread.java:81-92`,
  `RxFTPThread.java:102-116`).
* A download whose buddy selection is gone spins without a pause or a count
  (`RxFTPThread.java:78`), or ends by an exception on the next line.
* The transmit lock is released only after the user of the sharing node has closed a message
  (`TxFTPThread.java:108` before `:119`).
* A file sender stays locked when its client vanishes right after a new block, or when the
  file cannot be opened. Answers carry nothing but a number, so an answer of an earlier
  transfer can put a block of one file into another (`DownloadInOrder` and
  `CompleteIsWhole` speak of downloads from one transfer for this reason).
* `hello_exit` leaves /proc/distance and the path list behind, although the comment before it
  promises to delete the entries and free the memory (`src/main_module.c:678-680`). The next
  reader of the file, CommandListener with its ten seconds, calls code that was unloaded.
* insmod without a device name runs `hello_exit` and reports success: the module stays
  loaded and bare. A device that does not exist is dereferenced after `hello_exit`. A /proc
  file that cannot be created makes `hello_exit` delete a timer that was never set up.
* `lifenet_start` starts the programs again without looking for those that still run.
* A packet that is counted while the path list is freed may fault, or its entry may be lost
  while the counter keeps it: the list is then smaller for ever (`ListWithinCount` says that
  it is never larger).
* The bytes of an address are swapped by machines of one byte order only, so a laptop sees a
  router's address reversed. ArpUpdater undoes it for addresses that begin with 192 and do
  not end with it (`ArpRight`); hosts files, routes and name servers stay reversed, and a
  conflict between a laptop and a router goes unnoticed (`ConflictsApart`).
  `openwrt/openwrt-config` has such a hosts file, with 188.0.168.192.
* A router never flushes its firewall (`FirewallFollows` promises it for laptops only).
* Sniff overwrites `resolv.conf` with the servers of a gateway and leaves them there; a
  machine that becomes a gateway later, or a router rebooted, advertises them as its own.
  Default routes of earlier gateways are never removed.
* The display's distance column may find an empty cell, which ends the program.

Some hazards have no property. In the programs with windows: a message that comes in
between `InboxView` listing its messages and raising its flag is moved unseen
(`InboxView.java:56`); a conversation window sends to the user clicked last, not to the one
it was opened for (`MessageWindow.java:81`); a buddy selected during a download redirects
it (`RxFTPThread.java:77`); a second download of one user cannot bind the port
(`UDPSocketRx.java:124`). `Messaging` and `FileTransfer` have one window and one download.
That a sender whose client vanishes after a new block stays locked (`TxFTPThread.java:102`)
is how the code is written; `EofNoticed` states what is true of it.

## 5. Proofs

All theorems are for arbitrary constants that satisfy the modules' named assumptions.

| Module | Theorems | Inductive invariant |
|---|---|---|
| `ForwardingProofs` | `TypeCorrect`, `TraceExact`, `PathsReal`, `NothingInvented`, `StampsGenuine`, `StampsRecent`, `ListsNeverOverflow`, `FloodsDecrease`, `MeshImplemented` | `TypeOK`, `FrameOK` of every frame (hops left and relays made add up; forwarder fields are the route; the route is a walk to the receiver; the packet was sent), `PathsAreWalks`, `DeliveredWasSent`, `StampsAreReal`. The frame part carries everything: a path, a delivery or a stamp is made from a frame. Capacity has an invariant of its own that also keeps the lists finite. |
| `HeartbeatsProofs` | `MeasurementTyped`, `KernelFollows`, `NoDistanceRefused`, `CountsOfSamePackets`, `ZeroNeedsDefaults` | `TypeOK`, `KernelAgrees`, `HostsFit` (at most `MAX_NUM_OF_HOSTS` hosts), `DistancesOfHosts` (the kernel knows distances of hosts only). The last two show that the kernel's distance list (50) has room for whatever the sniffer (40 hosts) writes, which is why a write never fails and the tables agree. `CountInv` is for `CountsOfSamePackets`: a number of a session that is over equals the history's count of that session, in the kernel's counters, in every heartbeat in the air or in a socket and in the sniffer's rows, and of the session still being counted nothing newer was sent or heard. No later step can make such a number wrong, so each place only has to receive right ones. Both count theorems assume `Roomy`: fewer nodes than the kernel's list of statistics has entries (with more, a node may never be counted). `CopiesInv` is for `ZeroNeedsDefaults`: the copies of a session's heartbeats a node has heard and those still on their way to it are together at most `MaxCopies` times what was sent, also when they are heard late. `FewCopies` bounds that by a hundred and says that no counter of sent broadcasts wraps within the run; the kernel repeats a transmission a few times only, so both hold by a wide margin. |
| `MachineProofs` | `MachineTypeCorrect`, `ListCounted`, `UnloadSafe`, `LedgerImplemented`, `NoPacketTwice` | `PathInv`: types, the counter equals live entries plus lost ones, the list is within its bound, what is printed or freed is in the list, and nothing is freed while no loop runs. `UnloadInv`: the order of `hello_exit` (once a list may be dangling nothing listens, hooks or serves it). `UnloadSafe` speaks of packets, transmits and readers of the entries that `hello_exit` removes; a read of /proc/distance, which it leaves behind, does reach freed memory or unloaded code and is excepted as a fault of its own (`StaleEntry`), as are those of failed loads. `LedgerImplemented` maps `waiting` to what the next pages will show; `NoPacketTwice` is then proved of the ledger alone. |
| `ServicesProofs` | `ServicesTypeCorrect`, `ArpAlwaysRight`, `ConflictsKeptApart`, `FirewallAlwaysFollows`, `NeverMixed`, `ShownAlwaysFresh` | `AddrInv`: an address in a beat, a table or a file is the sender's as the holder's byte order shows it. `FireInv`: `g_is_gw_flag` implies forwarding rules, and between its write and its beat the gateway file says what the ping said. `ListInv`: every list of servers in a file or a beat is one machine's, swapped as a whole, and a list is written into an emptied file only. `TimeInv`: no time in the table or in the statistics file is later than the moment its host was last heard. |
| `FileTransferProofs` | `TransferTyped`, `BlocksInOrder`, `WholeFiles`, `OneTransferAtATime`, `RequestsEnd`, `FileCopyImplemented` | `TypeOK`, what the sending thread's locals say about the file read so far, where each transfer's requests are still without a gap, what every datagram in flight implies about the transfer that sent it, per client order and completeness, and that the sending thread is gone while its notice is shown. `TriesOK` (attempts and rounds within their limits) is for `RequestsEnd`, `Real` (every block written is one its transfer read from its file) for the refinement. |
| `InboxProofs` | `InboxTyped`, `ReadOnce`, `AllCounted`, `RaceNeeded` | for every reader, how far count and vector may differ at each pair of program points, in both directions, and the order of arrival over read and unread messages. |
| `MessagingProofs` | `MessagingTyped`, `AnswersMeanTaken`, `FirstBuddyListens`, `NumbersInOrder`, `UsesInbox`, `WholeProgram`, `SendsAdvance`, `HoldsConversation` | numbers in flight never exceed `SEQ_CNT` of their life, an answer in flight implies that its number was taken by who sent it, under the name it is addressed to or, astray, by the addressee itself, the stored number is the last one taken under that name; `Allotted` (no send has more attempts left than its kind is given) for `SendsAdvance`. |

`UsesInbox` proves that `Messaging` implements `Inbox` (the same variables, so the refinement
mapping is the identity): every step of the protocol is a step of the lists or leaves them
alone, restarts included. `WholeProgram` then carries the theorems of `Inbox` over without
proving them again.

`LedgerImplemented` proves that `Machine` implements `PathLedger`: each read is a `Report` of
the entries it prints, each packet a `Note` (one that waits for nothing when it comes inside
the loop that frees), insmod is `Forget`, and everything else, hello_exit included, stutters.
One lemma (`PathSteps`) says which operations of the path list a step of the machine can be,
so that no proof about the report looks at the other steps.

Three more refinements say what each protocol promises to its user, in terms that know
nothing of datagrams:

* `MeshImplemented`: `Forwarding` implements `Mesh`. A packet passed up was sent, is
  addressed to the node, and came over a walk of at most `MAX_HOPS` hops. The walk is the
  `route` of its frame, a history that `FrameOK` ties to the hop count of the header.
* `FileCopyImplemented`: `FileTransfer` implements `FileCopy`. The abstract files are the
  `log` without what the sending thread remembers, the abstract copy is what the receiving
  thread wrote and who closed it. An answer taken for the right one appends the block that is
  due, or the one block of another transfer that shows the file is mixed.
* `HoldsConversation`: `Messaging` implements `Conversation`. Its datagrams, attempts and
  answers disappear: `Confirm` is hearing an answer to the current number, which lemma
  `RightAnswer` shows to mean that the buddy took it, unless a lookup of the sender failed in
  this life and its own program took that number; the handshake's `Take` may bring
  the number down, any other raises it.

`DeliveredWasSent`, `CompleteIsWhole`, `ConfirmedWasTaken` and `TakenInOrder` say parts of
this as invariants of the detailed modules. They are proved too, and the refinements rest on
the same inductive invariants; the runs check the refinement only, which implies them.

Three liveness properties have a safety part that is proved for all constants:
`FloodsDecrease`, `RequestsEnd` and `SendsAdvance` give for each step of a flood, of a file
request and of a send the measure it decreases (hops left; rounds, attempts, a buddy found
and the wait after a transmission, in this order and below their limits; attempts left).
`RequestsEnd` says this of the steps that change the exchange. The turns of the receiving
loop that find no buddy (`NoBuddy`) change nothing and are not limited by anything. That the
steps are taken at all is a matter of fairness, and TLC's.

Only model-checked: the liveness properties (`FloodsEnd`, `DownloadEnds`, `EofNoticed`,
`SendReturns`, `DaemonsEnd`), because liveness under fairness is beyond the prover. Every
invariant and every action property of a passing run is stated by a theorem. The three
refuted properties of section 4 are refuted on instances.

## 6. Not modelled

* Two CPUs inside the kernel's lists. They have no locks, so every pair of a search, an
  insertion and a removal is a race with its own outcome in freed memory; `PathReport` has
  the one that a single CPU can show (a packet within the loop that frees).
* MyMANET-chat: the older program of the same protocol as LifeNetSMS, with the clock as the
  number of a message.
* The statistics reader of the Java programs (`GnsmManager`) and NetVisualize: a computation
  with floating point distances and a drawing of it.
* A line of the hosts file that is read while it is being written: its columns are indexed
  without a check (`LifeNetApi.java:137`), so a truncated one ends the thread of LifeNetSMS
  or LifeNetFTP that reads it. Lookups find a whole line or nothing here.
* LifeNetSMS's list of buddies, file contents and debug output of LifeNetFTP, Sniff's logs
  and screen: input and output without decisions.
* Build, install and configure scripts. Of `openwrt/` the module and the daemons are copies;
  what differs in the daemons and matters to other machines is in `Services`
  (`Embedded`, `LittleEndian`).
* Sessions that wrap around, and missed ones, over more than the bounds of `Heartbeats`.

`PROJECT.json` gives the reason for each part.

## 7. Plan

Done, in this order: `KernelList` … `Forwarding`; `Inbox` and `Messaging`; `FileTransfer`;
`Heartbeats`; `PathReport`, `PathLedger` and `Machine`; `Services`; the theorems of each.

What remains, most important first:

1. The session wrap of `StatList` over many sessions with missed ones, against a reference
   that counts by absolute session number.
2. The end of a session in the kernel's counters proved against that reference.
3. Two CPUs in one kernel list: insertion against removal, on `KernelList` as a chain of
   pointers instead of a function.
4. MyMANET-chat beside `Messaging`.
5. `GnsmManager.getVD` against the sniffer's distance as pure functions over bounded inputs.
