----------------------------- MODULE Heartbeats ------------------------------
(***************************************************************************)
(* How LifeNet measures effective distances: the kernel module counts what *)
(* it sends and hears per session (StatList), applications/Inject puts the *)
(* counters of /proc/txstats and /proc/rxstats in a broadcast heartbeat    *)
(* every HB_INTERVAL seconds, and applications/Sniff compares what its own *)
(* node sent with what the others say they heard, and writes the distances *)
(* and the forwarding threshold to /proc/wdl.                              *)
(*                                                                         *)
(* Which nodes relay a heartbeat is the business of Forwarding: here a     *)
(* heartbeat gets to the nodes of Reach up to MaxCopies times, in any      *)
(* order or not at all.  Gateway fields and node names are left out.       *)
(***************************************************************************)
EXTENDS DistanceList, StatList, Sequences

CONSTANTS
  Node,
  Addresses,    \* the ways the nodes' IP addresses may be chosen
  Reach,        \* Reach[n]: the nodes that may hear n, itself when others relay
  Sniffers,     \* the nodes whose sniffer is modelled
  Tolerance,    \* g_tolerance, an argument of sniff
  Near,         \* bcast_fwd_threshold of sniff, an argument
  MaxHosts,     \* MAX_NUM_OF_HOSTS
  \* bounds
  MaxTimer,     \* firings of a session timer
  MaxBeats,     \* MaxBeats[n]: heartbeats of n
  MaxCopies,    \* copies of a heartbeat one node hears
  MaxAir,       \* copies in flight
  MaxQueue      \* heartbeats in a sniffer's socket

ASSUME HeartbeatsAssumption ==
  /\ Bcast \notin Node
  /\ Node \cap Ignored = {}
  /\ Reach \in [Node -> SUBSET Node]
  /\ Sniffers \subseteq Node
  /\ Tolerance \in Nat
  /\ Near \in Nat
  /\ MaxHosts \in Nat \ {0}
  /\ MaxHosts <= DistanceCapacity
  /\ MaxTimer \in 0 .. 254    \* the session id does not come round
  /\ MaxBeats \in [Node -> Nat]
  /\ MaxCopies \in Nat

VARIABLES
  address,    \* address[n]: the IP_ADDRESS argument of n's inject
  fired,      \* firings of the session timer
  stat,       \* the kernel's counters
  dist,       \* the kernel's distance list
  threshold,  \* the kernel's bcast_fwd_threshold
  beats,      \* heartbeats sent so far
  air,        \* copies that will be heard
  queue,      \* the sniffer's raw socket
  sniffing,   \* the sniffer has not exited
  hosts,      \* hosts[n][m]: timer firings of n since a heartbeat of m
  own,        \* g_bcast_stats of the sniffer's own row
  heard,      \* g_stats[me]: what each host says it heard of me
  table,      \* g_distance_table, the smoothed distance and two earlier ones
  sentIn,     \* history: broadcasts sent, by session
  heardIn,    \* history: heardIn[r][s][k], copies of s's session k that another r heard
  late        \* history: late[r][s], r's counters of s have missed a copy

kernel == <<fired, stat, dist, threshold>>
sniffer == <<sniffing, hosts, own, heard, table>>
history == <<sentIn, heardIn, late>>
vars == <<address, kernel, beats, air, queue, sniffer, history>>

(* A line of /proc/txstats or /proc/rxstats in a heartbeat.  num_bcast_rx   *)
(* of a host starts at -1: the memset of sniff, which                       *)
(* initialize_stats_tables does not undo.                                   *)
Session == 0 .. 254
Line == [session : Nat, num : Count]
NoLine == [session |-> 0, num |-> 0]
Heard == [session : Nat, num : Count \cup {-1}]
NeverHeard == [session |-> 0, num |-> -1]

Row == [mac : Node, session : Nat, num : Count]

Beat == [src : Node, number : Nat, session : Session, tx : SUBSET Line, rx : SUBSET Row]
Frame == [beat : Beat, to : Node, copy : Nat]

NoHosts == [m \in {} |-> 0]
NoDistance == <<Unknown, Unknown, Unknown>>

Init ==
  /\ address \in Addresses
  /\ fired = [n \in Node |-> 0]
  /\ stat = [n \in Node |-> EmptyList]
  /\ dist = [n \in Node |-> NoDistances]
  /\ threshold = [n \in Node |-> 2]
  /\ beats = [n \in Node |-> 0]
  /\ air = {}
  /\ queue = [n \in Node |-> <<>>]
  /\ sniffing = [n \in Node |-> n \in Sniffers]
  /\ hosts = [n \in Node |-> NoHosts]
  /\ own = [n \in Node |-> NoLine]
  /\ heard = [n \in Node |-> [m \in Node |-> NeverHeard]]
  /\ table = [n \in Node |-> [m \in Node |-> NoDistance]]
  /\ sentIn = [n \in Node |-> [k \in 0 .. MaxTimer |-> 0]]
  /\ heardIn = [n \in Node |-> [m \in Node |-> [k \in 0 .. MaxTimer |-> 0]]]
  /\ late = [n \in Node |-> [m \in Node |-> FALSE]]

SessionOf(n) == fired[n] % 255

------------------------------------------------------------------------------
(* Inject: the kernel reports the last completed session of each counter.   *)

\* Mutant: the column of the relayed broadcasts is read
TxLineForwards(e) == [session |-> e.tx.lastSession, num |-> e.fwd.lastNum]

\* Mutant: the column of the unicasts is read
RxRowUnicasts(m, e) ==
  [mac |-> m, session |-> e.rx.lastSession, num |-> e.rx.lastNum]

TxLine(e) == [session |-> e.tx.lastSession, num |-> e.tx.lastNum]
RxRow(m, e) == [mac |-> m, session |-> e.rx.lastSession, num |-> e.rx.lastBcast]

(* create_gnsm_packet, and SendRawPacket through wdl_hard_start_xmit.  The    *)
(* two files of /proc are read one after the other and then sent; nothing    *)
(* compares a line of one with a line of the other, and the three steps are  *)
(* taken as one.  Of the lines of /proc/txstats the distances only use the   *)
(* broadcasts'.                                                              *)
NewBeat(n) ==
  [src |-> n, number |-> beats[n], session |-> SessionOf(n),
   tx |-> {TxLine(stat[n][m]) : m \in {Bcast} \cap DOMAIN stat[n]},
   rx |-> {RxRow(m, stat[n][m]) : m \in DOMAIN stat[n] \ {n, Bcast}}]

SendBeat(n) ==
  /\ beats[n] < MaxBeats[n]
  /\ \E copies \in SUBSET ((1 .. MaxCopies) \X Reach[n]) :
       /\ air' = air \cup {[beat |-> NewBeat(n), to |-> c[2], copy |-> c[1]] : c \in copies}
       /\ Cardinality(air') <= MaxAir
  /\ stat' = [stat EXCEPT ![n] = StatTx(@, Bcast, SessionOf(n))]
  /\ beats' = [beats EXCEPT ![n] = @ + 1]
  /\ sentIn' = [sentIn EXCEPT ![n][SessionOf(n)] = @ + 1]
  /\ UNCHANGED <<fired, dist, threshold, queue, sniffer, heardIn, late>>

------------------------------------------------------------------------------
(* The kernel counts a heartbeat and hands it to the sniffer's socket.      *)

\* A copy of s's session k comes after one of a later session, or after the
\* entry that counted that session was forgotten.
Overtaken(r, s, k) ==
  \/ \E j \in 0 .. MaxTimer : j > k /\ heardIn[r][s][j] > 0
  \/ s \notin DOMAIN stat[r] /\ heardIn[r][s][k] > 0

Hear(f) ==
  LET r == f.to
      s == f.beat.src
      k == f.beat.session
  IN
  /\ Len(queue[r]) < MaxQueue
  /\ air' = air \ {f}
  /\ stat' = [stat EXCEPT ![r] = StatRx(@, s, k, Bcast)]
  /\ queue' = [queue EXCEPT ![r] = IF sniffing[r] THEN Append(@, f.beat) ELSE @]
  /\ heardIn' = IF r = s THEN heardIn ELSE [heardIn EXCEPT ![r][s][k] = @ + 1]
  /\ late' = IF r = s THEN late ELSE [late EXCEPT ![r][s] = @ \/ Overtaken(r, s, k)]
  /\ UNCHANGED <<fired, dist, threshold, beats, sniffer, sentIn>>

------------------------------------------------------------------------------
(* Sniff *)

\* check_and_add_new_host
Conflict(n, m) == \E h \in DOMAIN hosts[n] : address[h] = address[m]
Accepts(n, m) ==
  \/ m \in DOMAIN hosts[n]
  \/ HasRoom(hosts[n], MaxHosts) /\ ~Conflict(n, m)

\* Its own address is taken: the sniffer exits.
GivesUp(n, m) ==
  /\ m = n
  /\ m \notin DOMAIN hosts[n]
  /\ HasRoom(hosts[n], MaxHosts)
  /\ Conflict(n, m)

\* extract_host_tx_info, extract_host_rx_info: the rows that concern n itself
OwnAfter(n, b) ==
  IF b.src = n /\ b.tx # {} THEN CHOOSE line \in b.tx : TRUE ELSE own[n]

RowsAbout(n, b) == {row \in b.rx : row.mac = n}

HeardAfter(n, b, known) ==
  IF n \in known /\ RowsAbout(n, b) # {}
    THEN LET row == CHOOSE row \in RowsAbout(n, b) : TRUE
         IN  [heard[n] EXCEPT ![b.src] = [session |-> row.session, num |-> row.num]]
    ELSE heard[n]

(* manifold_routing: the distance for s packets sent and r received, cast   *)
(* to uint8_t.  A C quotient rounds towards zero.                           *)
Quotient(x, y) == IF x >= 0 THEN x \div y ELSE -((-x) \div y)

\* Mutant: the distance is an int
MeasureWide(s, r) ==
  CASE r >= s /\ r # 0 -> Quotient(s * 100, r)
    [] r < s /\ s # 0  -> 255 - Quotient(155 * r, s)
    [] OTHER           -> 255

Measure(s, r) ==
  CASE r >= s /\ r # 0 -> Quotient(s * 100, r) % 256
    [] r < s /\ s # 0  -> (255 - Quotient(155 * r, s)) % 256
    [] OTHER           -> 255

Changed(t, d) == d - t[1] >= Tolerance \/ t[1] - d >= Tolerance \/ t[1] = 0

Smooth(t, d) ==
  IF {t[1], t[2]} \cap {0, Unknown} # {} THEN d ELSE (t[1] + t[2] + d) \div 3

\* What the sniffer keeps of a host, and writes to the kernel
Updated(t, d) == IF Changed(t, d) THEN <<Smooth(t, d), t[1], t[2]>> ELSE t

\* Mutant: the command is printed before the table is updated
CommandTooEarly(t, d) == t[1]

Command(t, d) == Smooth(t, d)

(* calculate_distances, once the sniffer knows its own host: the hosts whose *)
(* counts are of the session its own broadcasts are reported for.  The test  *)
(* for a host that has been silent reads (timestamp - now) < 30 and lets     *)
(* every host through.                                                       *)
Comparable(n, known, mine, theirs) ==
  IF n \in known THEN {j \in known \ {n} : theirs[j].session = mine.session} ELSE {}

CalculateDistances(n, known, mine, theirs) ==
  LET d == [j \in Comparable(n, known, mine, theirs) |-> Measure(mine.num, theirs[j].num)]
      pushed == {j \in DOMAIN d : Changed(table[n][j], d[j])}
  IN
  /\ table' = [table EXCEPT ![n] =
       [j \in Node |-> IF j \in DOMAIN d THEN Updated(@[j], d[j]) ELSE @[j]]]
  /\ dist' = [dist EXCEPT ![n] =
       [j \in DOMAIN @ \cup pushed |->
          IF j \in pushed THEN Command(table[n][j], d[j]) ELSE @[j]]]
  /\ threshold' = [threshold EXCEPT ![n] = Cardinality({j \in DOMAIN d : d[j] < Near})]

(* parse_ethernet_packet *)
Sniff(n) ==
  /\ sniffing[n]
  /\ queue[n] # <<>>
  /\ LET b == Head(queue[n])
         known == DOMAIN hosts[n] \cup {b.src}
     IN
     \/ /\ Accepts(n, b.src)
        /\ hosts' = [hosts EXCEPT ![n] = Put(@, b.src, 0)]
        /\ own' = [own EXCEPT ![n] = OwnAfter(n, b)]
        /\ heard' = [heard EXCEPT ![n] = HeardAfter(n, b, known)]
        /\ CalculateDistances(n, known, OwnAfter(n, b), HeardAfter(n, b, known))
        /\ queue' = [queue EXCEPT ![n] = Tail(@)]
        /\ UNCHANGED sniffing
     \/ /\ ~Accepts(n, b.src)
        /\ sniffing' = [sniffing EXCEPT ![n] = ~GivesUp(n, b.src)]
        /\ queue' = [queue EXCEPT ![n] = IF GivesUp(n, b.src) THEN <<>> ELSE Tail(@)]
        /\ UNCHANGED <<hosts, own, heard, table, dist, threshold>>
  /\ UNCHANGED <<fired, stat, beats, air, history>>

------------------------------------------------------------------------------
(* timer_func, which every kernel runs once in 30 s: no timer fires twice   *)
(* while another has yet to fire once.                                      *)
SessionTimer(n) ==
  /\ fired[n] < MaxTimer
  /\ \A m \in Node : fired[n] <= fired[m]
  /\ \/ /\ Expired(stat[n]) = {}
        /\ stat' = [stat EXCEPT ![n] = Aged(@)]
        /\ UNCHANGED dist
     \/ \E m \in Expired(stat[n]) :
          /\ stat' = [stat EXCEPT ![n] = Drop(Aged(@), m)]
          /\ dist' = [dist EXCEPT ![n] = Drop(@, m)]
  /\ fired' = [fired EXCEPT ![n] = @ + 1]
  /\ hosts' = [hosts EXCEPT ![n] = [m \in DOMAIN @ |-> @[m] + 1]]
  /\ UNCHANGED <<threshold, beats, air, queue, sniffing, own, heard, table, history>>

Next ==
  /\ \/ \E n \in Node : SendBeat(n) \/ Sniff(n) \/ SessionTimer(n)
     \/ \E f \in air : Hear(f)
  /\ UNCHANGED address

Spec == Init /\ [][Next]_vars

------------------------------------------------------------------------------
(* Properties *)

(* Type correctness of the kernel's counters, the heartbeats and what the   *)
(* sniffer keeps.                                                           *)
TypeOK ==
  /\ fired \in [Node -> 0 .. MaxTimer]
  /\ DOMAIN stat = Node /\ DOMAIN dist = Node /\ DOMAIN hosts = Node
  /\ \A n \in Node : IsListOf(stat[n], Node \cup {Bcast}, StatEntry)
  /\ \A n \in Node : IsListOf(dist[n], Node, Distance)
  /\ threshold \in [Node -> Nat]
  /\ beats \in [Node -> Nat]
  /\ air \subseteq Frame
  /\ queue \in [Node -> Seq(Beat)]
  /\ sniffing \in [Node -> BOOLEAN]
  /\ \A n \in Node : IsListOf(hosts[n], Node, Nat)
  /\ own \in [Node -> Line]
  /\ heard \in [Node -> [Node -> Heard]]
  /\ table \in [Node -> [Node -> Distance \X Distance \X Distance]]

(* A distance in the kernel is the one the sniffer keeps: the two tables    *)
(* change together, except that the kernel forgets (calculate_distances,    *)
(* manifold_routing, remove_distance_entry).                                *)
KernelAgrees ==
  \A n \in Node : \A j \in DOMAIN dist[n] : dist[n][j] = table[n][j][1]

(* Whenever the sniffer compares two counts, they count the same packets:   *)
(* what it sent in that session, and the copies of them the other node      *)
(* heard, up to the width of a counter, as long as that node heard the      *)
(* sessions in order and did not forget this one within the session.  The   *)
(* first session is left out: its id is also what every counter starts with.*)
CountsMatch ==
  \A n \in Node : \A j \in Comparable(n, DOMAIN hosts[n], own[n], heard[n]) :
    LET k == own[n].session IN
    k # 0 /\ ~late[j][n] =>
      /\ own[n].num = sentIn[n][k] % Counts
      /\ heard[n][j].num = heardIn[j][n][k] % Counts

(* Distance 0 tells the kernel never to relay to a node.  Only counts of    *)
(* the first session, where the default counters look like real ones, make  *)
(* the sniffer store it: a node that hears our packets is at least at 1.    *)
(* A node that hears the sessions out of order is left out: search_and_     *)
(* update_stat counts a late copy in the session it is in, and a hundred of *)
(* them to one packet sent make the quotient 0.                             *)
ZeroOnlyAtStart ==
  [][\A n, j \in Node :
       table'[n][j][1] = 0 /\ table[n][j][1] # 0 =>
         own'[n].session = 0 \/ late[j][n]]_vars

(* calculate_distances says that a host not heard from for more than 30     *)
(* seconds is measured with no packet received, which is the distance 255;  *)
(* two firings of the timer are more than 30 seconds.  Broken: the          *)
(* comparison of the times lets every host through.                         *)
SilentHostsFar ==
  [][\A n \in Node : \A j \in DOMAIN hosts[n] \ {n} :
       Sniff(n) /\ n \in DOMAIN hosts'[n] /\ hosts'[n][j] >= 2
         => table'[n][j] = Updated(table[n][j], Unknown)]_vars
==============================================================================
