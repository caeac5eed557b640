----------------------------- MODULE Forwarding ------------------------------
(***************************************************************************)
(* A mesh of nodes running the LifeNet kernel module: the transmit hook    *)
(* wdl_hard_start_xmit, the receive handler wdl_handle_recieve with its    *)
(* relay path wdl_modify_and_transmit, the session timer and the commands  *)
(* a user writes to /proc/wdl (src/src/main_module.c, timer_functions.c,   *)
(* proc_functions.c and the list files).                                   *)
(*                                                                         *)
(* Every transmission is a MAC broadcast.  The medium is unreliable: any   *)
(* subset of the neighbours hears a transmission, in any order and after   *)
(* any delay.  A device that is down (IFF_UP clear) leaves the same state  *)
(* behind as a transmission that nobody hears.                             *)
(***************************************************************************)
EXTENDS Routing, StatList, PathList, Sequences

CONSTANTS
  Node,          \* the nodes, named by the address of their wireless device
  Group,         \* multicast addresses
  Neighbour,     \* Neighbour[n]: the nodes in radio range of n
  InitialTables, \* distance tables the sniffers may have pushed at the start
  Times,         \* the <<seconds, microseconds>> at which packets are sent
  Traffic,       \* bound: which <<source, destination>> pairs exchange packets
  Commands,      \* the commands users write to /proc/wdl
  MaxPackets,    \* bound: packets handed to a transmit hook
  MaxCopies,     \* bound: copies of one packet beyond it are not heard
  MaxAir,        \* bound: frames in flight; others are not heard
  MaxCommands,   \* bound: writes to /proc/wdl
  MaxSession     \* bound: firings of the session timer of each node

Dest == Node \cup {Bcast} \cup Group
HopTrace == [1 .. 3 -> Node \cup {Bcast}]

DistanceListOK(list) == IsListOf(list, Dest, Distance)
StatListOK(list) == IsListOf(list, Dest, StatEntry)
PathListOK(list) == IsListOf(list, Node \X HopTrace, PathEntry)

Command ==
  [name : {"distance"}, to : Dest, value : Distance]
    \cup [name : {"set_fwd_threshold"}, value : Distance]
    \cup [name : {"toggle_fwding", "start", "stop"}]

ASSUME ForwardingAssumption ==
  /\ Bcast \notin Node
  /\ Group \cap (Node \cup {Bcast}) = {}
  /\ Ignored \subseteq Group
  /\ Neighbour \in [Node -> SUBSET Node]
  /\ \A n \in Node : n \notin Neighbour[n]
  /\ \A tab \in InitialTables :
       /\ DOMAIN tab = Node
       /\ \A n \in Node :
            /\ DistanceListOK(tab[n])
            /\ IsFiniteSet(DOMAIN tab[n])
            /\ Cardinality(DOMAIN tab[n]) <= DistanceCapacity
  /\ Times \subseteq (Nat \ {0}) \X Micros
  /\ Traffic \subseteq Node \X Dest
  /\ \A w \in Traffic : w[1] # w[2]
  /\ Commands \subseteq Command
  /\ {MaxPackets, MaxCopies, MaxAir, MaxCommands, MaxSession} \subseteq Nat

VARIABLES
  dist,       \* the distance list
  ts,         \* ts[n][s]: stamp of the last packet of s considered for relaying
  fwdOff,     \* global_fwd_disable
  manifoldOff,\* global_manifold_disable
  threshold,  \* bcast_fwd_threshold
  session,    \* g_session_id
  stat,       \* the stat list
  path,       \* the path list
  air,        \* frames that will reach their receiver
  sent,       \* history: the packets handed to the transmit hooks
  delivered,  \* history: delivered[n], what n passed to its upper layers
  commands    \* writes to /proc/wdl so far

tables == <<dist, ts>>
switches == <<fwdOff, manifoldOff, threshold>>
counters == <<stat, path>>
vars == <<tables, switches, session, counters, air, sent, delivered, commands>>

(***************************************************************************)
(* A frame is a mymanet_header on its way to one receiver.  copy tells the *)
(* repeated transmissions of one packet apart; route is a history of the   *)
(* nodes that relayed it, which the header only keeps in part.             *)
(***************************************************************************)
Frame ==
  [src : Node, dst : Dest, stamp : Stamp, session : Nat,
   hops : Distance, dist : Distance, odist : Distance, hop : HopTrace,
   copy : Nat \ {0}, route : Seq(Node), to : Node]

Packet == [src : Node, dst : Dest, at : (Nat \ {0}) \X Micros]

Init ==
  /\ dist \in InitialTables
  /\ ts = [n \in Node |-> [s \in Node |-> NoStamp]]
  /\ fwdOff = [n \in Node |-> FALSE]
  /\ manifoldOff = [n \in Node |-> FALSE]
  /\ threshold = [n \in Node |-> 2]
  /\ session = [n \in Node |-> 0]
  /\ stat = [n \in Node |-> EmptyList]
  /\ path = [n \in Node |-> NoPaths]
  /\ air = {}
  /\ sent = {}
  /\ delivered = [n \in Node |-> {}]
  /\ commands = 0

------------------------------------------------------------------------------
(* wdl_hard_start_xmit: a packet of the upper layers goes on the air *)

\* n's effective distance to d
Far(n, d) == DistanceTo(dist[n], d)

Earlier(t, u) == t[1] < u[1] \/ (t[1] = u[1] /\ t[2] < u[2])

NewFrame(n, d, t, copy, to) ==
  [src |-> n, dst |-> d, stamp |-> OnTheWire(t), session |-> session[n],
   hops |-> MaxHops, dist |-> Far(n, d), odist |-> Far(n, d),
   hop |-> [i \in 1 .. 3 |-> Bcast], copy |-> copy, route |-> <<>>, to |-> to]

Send(n, d, t) ==
  /\ Cardinality(sent) < MaxPackets
  /\ \A p \in sent : p.src = n => Earlier(p.at, t)
  /\ \E heard \in SUBSET {h \in (1 .. MaxCopies) \X Neighbour[n] :
                              h[1] <= Copies(Far(n, d), d = Bcast)} :
       /\ air' = air \cup {NewFrame(n, d, t, h[1], h[2]) : h \in heard}
       /\ Cardinality(air') <= MaxAir
  /\ sent' = sent \cup {[src |-> n, dst |-> d, at |-> t]}
  /\ stat' = [stat EXCEPT ![n] = StatTx(@, d, session[n])]
  /\ UNCHANGED <<tables, switches, session, path, delivered, commands>>

------------------------------------------------------------------------------
(* wdl_handle_recieve *)

Deliver(n, f) ==
  delivered' = [delivered EXCEPT ![n] = @ \cup {<<f.src, f.dst, f.stamp>>}]

(* PACKET_HOST, and the last branch for multicast addresses: count, note    *)
(* the path the packet came along, and hand it to the upper layers.         *)
ReceiveHere(f) ==
  LET n == f.to IN
  /\ f.dst \in {n} \cup Group
  /\ stat' = [stat EXCEPT ![n] = StatRx(@, f.src, f.session, f.dst)]
  /\ path' = [path EXCEPT ![n] = PathRx(@, <<f.src, f.hop>>, f.session)]
  /\ Deliver(n, f)
  /\ air' = air \ {f}
  /\ UNCHANGED <<tables, switches, session, sent, commands>>

(* Whether node n may relay frame f to the destination it is meant for.     *)
HopsLeft(f) == (f.hops - 1) % 256

\* Mutant: no check for hops_remaining != 0
WantsToRelayPastBudget(n, f) ==
  /\ ~fwdOff[n]
  /\ ~manifoldOff[n]
  /\ Far(n, f.dst) # 0
  /\ f.dst # n
  /\ \/ RoutingDecision(Far(n, f.dst), f.odist, f.dist,
                        Difftime(ts[n][f.src], f.stamp))
     \/ Far(n, f.dst) = Unknown

WantsToRelay(n, f) ==
  /\ ~fwdOff[n]
  /\ ~manifoldOff[n]
  /\ Far(n, f.dst) # 0
  /\ HopsLeft(f) # 0
  /\ f.dst # n
  /\ \/ RoutingDecision(Far(n, f.dst), f.odist, f.dist,
                        Difftime(ts[n][f.src], f.stamp))
     \/ Far(n, f.dst) = Unknown

(* Broadcasts are relayed with probability 1/threshold.  For a unicast the  *)
(* cast of 2 * INT_MAX to unsigned int overflows, so that every draw may go *)
(* either way whatever the threshold is.                                    *)
AlwaysRelays(n, f) == f.dst = Bcast /\ threshold[n] <= 1

\* Mutant: the hop is recorded by the count before the decrement
RecordHopTooLate(hop, hopsLeft, n) ==
  IF hopsLeft + 1 \in 1 .. 3 THEN [hop EXCEPT ![3 - hopsLeft] = n] ELSE hop

\* Mutant: hop3 and hop1 are swapped
RecordHopBackwards(hop, hopsLeft, n) ==
  IF hopsLeft \in 1 .. 3 THEN [hop EXCEPT ![hopsLeft] = n] ELSE hop

\* The forwarder fields of the header: MAX_HOPS is 4 and three are recorded.
RecordHop(hop, hopsLeft, n) ==
  IF hopsLeft \in 1 .. 3 THEN [hop EXCEPT ![4 - hopsLeft] = n] ELSE hop

\* Mutant: the relay passes the header on as it came
RelayedFrameAsIs(n, f, to) == [f EXCEPT !.to = to]

RelayedFrame(n, f, to) ==
  [f EXCEPT !.hops = HopsLeft(f),
            !.dist = Far(n, f.dst),
            !.hop = RecordHop(f.hop, HopsLeft(f), n),
            !.route = Append(f.route, n),
            !.to = to]

(* PACKET_BROADCAST is counted and delivered as well, PACKET_OTHERHOST is   *)
(* freed.                                                                   *)
CountRelayed(list, f) ==
  IF f.dst = Bcast THEN StatRx(list, f.src, f.session, f.dst) ELSE list

DeliverBroadcast(n, f) ==
  IF f.dst = Bcast THEN Deliver(n, f) ELSE UNCHANGED delivered

NoteStamp(n, f) ==
  ts' = [ts EXCEPT ![n][f.src] = StampAfter(@, f.stamp)]

Relay(f) ==
  LET n == f.to IN
  /\ f.dst \notin {n} \cup Group
  /\ WantsToRelay(n, f)
  /\ NoteStamp(n, f)
  /\ \E heard \in SUBSET Neighbour[n] :
       /\ air' = (air \ {f}) \cup {RelayedFrame(n, f, to) : to \in heard}
       /\ Cardinality(air') <= MaxAir
  /\ stat' = [stat EXCEPT ![n] = CountRelayed(StatFwd(@, f.dst, f.session), f)]
  /\ DeliverBroadcast(n, f)
  /\ UNCHANGED <<dist, switches, session, path, sent, commands>>

DontRelay(f) ==
  LET n == f.to IN
  /\ f.dst \notin {n} \cup Group
  /\ ~(WantsToRelay(n, f) /\ AlwaysRelays(n, f))
  /\ NoteStamp(n, f)
  /\ air' = air \ {f}
  /\ stat' = [stat EXCEPT ![n] = CountRelayed(@, f)]
  /\ DeliverBroadcast(n, f)
  /\ UNCHANGED <<dist, switches, session, path, sent, commands>>

Receive(f) == ReceiveHere(f) \/ Relay(f) \/ DontRelay(f)

------------------------------------------------------------------------------
(* timer_func: collect one expired stat entry with its distance, then start *)
(* the next session.                                                        *)
SessionTimer(n) ==
  /\ session[n] < MaxSession
  /\ \/ /\ Expired(stat[n]) = {}
        /\ stat' = [stat EXCEPT ![n] = Aged(@)]
        /\ UNCHANGED dist
     \/ \E m \in Expired(stat[n]) :
          /\ stat' = [stat EXCEPT ![n] = Drop(Aged(@), m)]
          /\ dist' = [dist EXCEPT ![n] = Drop(@, m)]
  /\ session' = [session EXCEPT ![n] = (@ + 1) % 255]
  /\ UNCHANGED <<ts, switches, path, air, sent, delivered, commands>>

------------------------------------------------------------------------------
(* wdl_write: one command written to /proc/wdl *)
WriteCommand(n, c) ==
  /\ commands < MaxCommands
  /\ commands' = commands + 1
  /\ \/ /\ c.name = "distance"
        /\ dist' = [dist EXCEPT ![n] = SetDistance(@, c.to, c.value)]
        /\ UNCHANGED switches
     \/ /\ c.name = "set_fwd_threshold"
        /\ threshold' = [threshold EXCEPT ![n] = c.value]
        /\ UNCHANGED <<dist, fwdOff, manifoldOff>>
     \/ /\ c.name = "toggle_fwding"
        /\ fwdOff' = [fwdOff EXCEPT ![n] = ~@]
        /\ UNCHANGED <<dist, manifoldOff, threshold>>
     \/ /\ c.name \in {"start", "stop"}
        /\ manifoldOff' = [manifoldOff EXCEPT ![n] = (c.name = "stop")]
        /\ UNCHANGED <<dist, fwdOff, threshold>>
  /\ UNCHANGED <<ts, session, counters, air, sent, delivered>>

(* wdl_read reaching the end of the path list: what it reported is freed.   *)
ReadPaths(n) ==
  /\ path[n] # NoPaths
  /\ path' = [path EXCEPT ![n] = NoPaths]
  /\ UNCHANGED <<tables, switches, session, stat, air, sent, delivered, commands>>

------------------------------------------------------------------------------
Next ==
  \/ \E w \in Traffic, t \in Times : Send(w[1], w[2], t)
  \/ \E f \in air : Receive(f)
  \/ \E n \in Node : SessionTimer(n)
  \/ \E n \in Node, c \in Commands : WriteCommand(n, c)
  \/ \E n \in Node : ReadPaths(n)

Spec == Init /\ [][Next]_vars

(* The kernel runs the receive softirq until no received frame is left.     *)
FairSpec == Spec /\ WF_vars(\E f \in air : Receive(f))

------------------------------------------------------------------------------
(* Properties *)

(* Type correctness of every kernel variable and of the frames in flight.   *)
TypeOK ==
  /\ ts \in [Node -> [Node -> Stamp]]
  /\ fwdOff \in [Node -> BOOLEAN]
  /\ manifoldOff \in [Node -> BOOLEAN]
  /\ threshold \in [Node -> Distance]
  /\ session \in [Node -> 0 .. 254]
  /\ air \subseteq Frame
  /\ sent \subseteq Packet
  /\ delivered \in [Node -> SUBSET (Node \X Dest \X Stamp)]
  /\ commands \in 0 .. MaxCommands
  /\ DOMAIN dist = Node /\ DOMAIN stat = Node /\ DOMAIN path = Node
  /\ \A n \in Node :
       /\ DistanceListOK(dist[n])
       /\ StatListOK(stat[n])
       /\ PathListOK(path[n])

(* No list of a node grows past its fixed capacity, and none holds an       *)
(* address the code skips.                                                  *)
ListsBounded ==
  \A n \in Node :
    /\ Cardinality(DOMAIN stat[n]) <= StatCapacity
    /\ Cardinality(DOMAIN path[n]) <= PathCapacity
    /\ Cardinality(DOMAIN dist[n]) <= DistanceCapacity
    /\ DOMAIN stat[n] \cap Ignored = {}

(* What a header says of the way of its frame.  hops_remaining "bounds the  *)
(* maximum path length": with the relays behind it, it always makes up      *)
(* MAX_HOPS, and no frame has none left, so that the unsigned decrement     *)
(* never wraps.  The forwarder fields "work for TTL = 4": they are these    *)
(* relays in order, and the broadcast address where there was none.         *)
TraceOf(route) ==
  [i \in 1 .. 3 |-> IF i <= Len(route) THEN route[i] ELSE Bcast]

PathTrace ==
  \A f \in air :
    /\ f.hops \in 1 .. MaxHops
    /\ Len(f.route) = MaxHops - f.hops
    /\ f.hop = TraceOf(f.route)

(* A walk of the radio graph from src over the first k of mid to last.      *)
Stop(src, mid, k, last, i) ==
  IF i = 0 THEN src ELSE IF i <= k THEN mid[i] ELSE last

IsWalk(src, mid, k, last) ==
  \A i \in 0 .. k :
    Stop(src, mid, k, last, i + 1) \in Neighbour[Stop(src, mid, k, last, i)]

(* A path /proc/wdl reports is one a packet can have taken: the forwarders  *)
(* recorded come first and in order, and from the source over each of them  *)
(* to the reading node every hop is in radio range of the one before.       *)
PathsAreWalks ==
  \A n \in Node : \A p \in DOMAIN path[n] : \E k \in 0 .. 3 :
    /\ \A i \in 1 .. 3 : p[2][i] = Bcast <=> i > k
    /\ IsWalk(p[1], p[2], k, n)

(* Nothing but a packet that was sent, to an address that includes this     *)
(* node, reaches the upper layers, however many relays rewrote its header.  *)
DeliveredWasSent ==
  \A n \in Node : \A x \in delivered[n] :
    /\ x[2] \in {n, Bcast} \cup Group
    /\ \E p \in sent : <<p.src, p.dst, OnTheWire(p.at)>> = x

(* The two halves of a stored stamp are always of one and the same packet   *)
(* of that source, although they are stored and looked up one by one.       *)
StampsAreReal ==
  \A n, s \in Node :
    \/ ts[n][s] = NoStamp
    \/ \E p \in sent : p.src = s /\ OnTheWire(p.at) = ts[n][s]

(* A reordered packet may set a stored stamp back, but one that is more     *)
(* than one second behind it, hence OLD, never does.                        *)
StampsStayRecent ==
  [][\A n, s \in Node : ts'[n][s][1] >= ts[n][s][1] - 1]_ts

(* Why the flooding of a packet ends: but for a new packet, a frame only    *)
(* comes in the place of one with more hops left, so that every step makes  *)
(* the frames in flight fewer, or their hops (wdl_modify_and_transmit).     *)
FloodsShrink ==
  [][sent' = sent /\ air' # air =>
       /\ air \ air' # {}
       /\ \A g \in air' \ air : \E f \in air \ air' : g.hops < f.hops]_vars

(* The flooding of every packet ends: relays stop by themselves.            *)
FloodsEnd == <>[](air = {})

(* What the upper layers see is a Mesh: packets are passed up as they were  *)
(* sent, where they are addressed to, and at most MAX_HOPS radio hops away. *)
Upper == INSTANCE Mesh WITH
  sent <- {<<p.src, p.dst, OnTheWire(p.at)>> : p \in sent}
ImplementsMesh == Upper!Spec

(* "This shouldn't be ever printed": routing_decision is never left through *)
(* its last lines.  They are reached by a packet that seems older than the  *)
(* last one of its second, be it overtaken or, received in order, by the    *)
(* comparison of fractions in network byte order.                           *)
ReachesDecision(n, f) ==
  /\ f.dst \notin {n} \cup Group
  /\ ~fwdOff[n] /\ ~manifoldOff[n] /\ Far(n, f.dst) # 0 /\ HopsLeft(f) # 0

DecisionIsTotal ==
  \A f \in air :
    ~ /\ ReachesDecision(f.to, f)
      /\ FallsThrough(Far(f.to, f.dst), f.dist, Difftime(ts[f.to][f.src], f.stamp))
==============================================================================
