-------------------------- MODULE ForwardingProofs ---------------------------
(***************************************************************************)
(* Theorems about Forwarding, for every set of nodes, radio graph, distance *)
(* table, traffic and bound.  First the types, then the facts about frames *)
(* in flight that every other safety property follows from; the capacities *)
(* of the lists; what makes floods end; and that all of it is a Mesh.      *)
(***************************************************************************)
EXTENDS Forwarding, ListProofs

USE DEF DistanceListOK, StatListOK, PathListOK

------------------------------------------------------------------------------
(* Stamps *)

LEMMA OnTheWireType ==
  ASSUME NEW t \in Times
  PROVE  OnTheWire(t) \in Stamp
BY RoutingAssumption, ForwardingAssumption DEF OnTheWire, Stamp

(* The stored stamp is either kept or replaced by the packet's.            *)
LEMMA StampAfterChoice ==
  ASSUME NEW old, NEW new
  PROVE  StampAfter(old, new) \in {old, new}
BY DEF StampAfter

(* Difftime never calls a packet NEW or OUT_OF_ORDER that is more than one *)
(* second behind the stored stamp.                                         *)
LEMMA DifftimeLag ==
  ASSUME NEW old \in Stamp, NEW new \in Stamp,
         Difftime(old, new) \in {"NEW", "OUT_OF_ORDER"}
  PROVE  new[1] >= old[1] - 1
<1>1. old[1] \in Nat /\ new[1] \in Nat
  BY DEF Stamp
<1>2. CASE new[1] < old[1] - 1
  <2>1. /\ ~(new[1] > old[1])
        /\ new[1] # old[1]
        /\ new # old
    BY <1>1, <1>2
  <2>2. Difftime(old, new) = "OLD"
    BY <1>2, <2>1 DEF Difftime
  <2>3. QED
    BY <2>2
<1>3. QED
  BY <1>1, <1>2

LEMMA StampAfterLag ==
  ASSUME NEW old \in Stamp, NEW new \in Stamp
  PROVE  StampAfter(old, new)[1] >= old[1] - 1
<1>1. old[1] \in Nat /\ new[1] \in Nat
  BY DEF Stamp
<1>2. QED
  BY <1>1, DifftimeLag DEF StampAfter

------------------------------------------------------------------------------
(* Frames *)

LEMMA HopsLeftType ==
  ASSUME NEW f \in Frame
  PROVE  HopsLeft(f) \in Distance
<1>1. f.hops \in 0 .. 255
  BY DEF Frame, Distance
<1>2. ASSUME NEW i \in 0 .. 255
      PROVE  (i - 1) % 256 \in 0 .. 255
  OBVIOUS
<1>3. QED
  BY <1>1, <1>2 DEF HopsLeft, Distance

LEMMA RecordHopType ==
  ASSUME NEW hop \in HopTrace, NEW k \in Distance, NEW n \in Node
  PROVE  RecordHop(hop, k, n) \in HopTrace
BY DEF RecordHop, HopTrace, Distance

LEMMA FarType ==
  ASSUME TypeOK, NEW n \in Node, NEW d
  PROVE  Far(n, d) \in Distance
<1>1. IsListOf(dist[n], Dest, Distance)
  BY DEF TypeOK
<1>2. QED
  BY <1>1, DistanceType DEF Far

LEMMA SessionType ==
  ASSUME TypeOK, NEW n \in Node
  PROVE  session[n] \in Nat
<1>1. session[n] \in 0 .. 254
  BY DEF TypeOK
<1>2. QED
  BY <1>1

(* A path list keeps its type, and gains no path but the packet's.         *)
LEMMA PathRxOK ==
  ASSUME NEW list, PathListOK(list), NEW src \in Node, NEW hop \in HopTrace,
         NEW s \in Nat
  PROVE  /\ PathListOK(PathRx(list, <<src, hop>>, s))
         /\ DOMAIN PathRx(list, <<src, hop>>, s) \subseteq DOMAIN list \cup {<<src, hop>>}
<1>1. PICK paths : paths = Node \X HopTrace
  OBVIOUS
<1>2. PICK p \in paths : p = <<src, hop>>
  BY <1>1
<1>3. IsListOf(list, paths, PathEntry)
  BY <1>1
<1>4. /\ IsListOf(PathRx(list, p, s), paths, PathEntry)
      /\ DOMAIN PathRx(list, p, s) \subseteq DOMAIN list \cup {p}
  BY <1>3, PathRxType
<1>5. QED
  BY <1>1, <1>2, <1>4

LEMMA NewFrameType ==
  ASSUME TypeOK, NEW n \in Node, NEW d \in Dest, NEW t \in Times,
         NEW copy \in Nat \ {0}, NEW to \in Node
  PROVE  NewFrame(n, d, t, copy, to) \in Frame
<1> DEFINE R(st, se, h, e, p, r) ==
      [src |-> n, dst |-> d, stamp |-> st, session |-> se, hops |-> h,
       dist |-> e, odist |-> e, hop |-> p, copy |-> copy, route |-> r, to |-> to]
<1>1. OnTheWire(t) \in Stamp
  BY OnTheWireType
<1>2. Far(n, d) \in Distance /\ session[n] \in Nat
  BY FarType, SessionType
<1>3. MaxHops \in Distance
  BY DEF MaxHops, Distance
<1>4. [i \in 1 .. 3 |-> Bcast] \in HopTrace
  BY DEF HopTrace
<1>5. << >> \in Seq(Node)
  OBVIOUS
<1>6. ASSUME NEW st \in Stamp, NEW se \in Nat, NEW h \in Distance, NEW e \in Distance,
             NEW p \in HopTrace, NEW r \in Seq(Node)
      PROVE  R(st, se, h, e, p, r) \in Frame
  BY DEF Frame
<1>7. NewFrame(n, d, t, copy, to)
        = R(OnTheWire(t), session[n], MaxHops, Far(n, d), [i \in 1 .. 3 |-> Bcast], << >>)
  BY DEF NewFrame
<1> HIDE DEF R
<1>8. QED
  BY <1>1, <1>2, <1>3, <1>4, <1>5, <1>6, <1>7

(* What a relay changes of a frame, and that the result is a frame again.  *)
LEMMA RelayedFrameIs ==
  ASSUME TypeOK, NEW f \in Frame, NEW n \in Node, NEW to \in Node
  PROVE  LET g == RelayedFrame(n, f, to)
         IN  /\ g \in Frame
             /\ g.src = f.src /\ g.dst = f.dst /\ g.stamp = f.stamp
             /\ g.hops = HopsLeft(f)
             /\ g.hop = RecordHop(f.hop, HopsLeft(f), n)
             /\ g.route = Append(f.route, n)
             /\ g.to = to
<1> DEFINE G(h, d, p, r) ==
      [f EXCEPT !.hops = h, !.dist = d, !.hop = p, !.route = r, !.to = to]
<1>1. HopsLeft(f) \in Distance
  BY HopsLeftType
<1>2. f.hop \in HopTrace /\ f.dst \in Dest /\ f.route \in Seq(Node)
  BY DEF Frame
<1>3. RecordHop(f.hop, HopsLeft(f), n) \in HopTrace
  BY <1>1, <1>2, RecordHopType
<1>4. Far(n, f.dst) \in Distance
  BY FarType
<1>5. Append(f.route, n) \in Seq(Node)
  BY <1>2
<1>6. ASSUME NEW h \in Distance, NEW d \in Distance, NEW p \in HopTrace,
             NEW r \in Seq(Node)
      PROVE  LET g == G(h, d, p, r)
             IN  /\ g \in Frame
                 /\ g.src = f.src /\ g.dst = f.dst /\ g.stamp = f.stamp
                 /\ g.hops = h /\ g.hop = p /\ g.route = r /\ g.to = to
  BY DEF Frame
<1>7. RelayedFrame(n, f, to)
        = G(HopsLeft(f), Far(n, f.dst), RecordHop(f.hop, HopsLeft(f), n),
            Append(f.route, n))
  BY DEF RelayedFrame
<1> HIDE DEF G
<1> DEFINE g == RelayedFrame(n, f, to)
<1>8. g = G(HopsLeft(f), Far(n, f.dst), RecordHop(f.hop, HopsLeft(f), n),
            Append(f.route, n))
  BY <1>7
<1>9. PICK h \in Distance, d \in Distance, p \in HopTrace, r \in Seq(Node) :
          /\ h = HopsLeft(f)
          /\ d = Far(n, f.dst)
          /\ p = RecordHop(f.hop, HopsLeft(f), n)
          /\ r = Append(f.route, n)
  BY <1>1, <1>3, <1>4, <1>5
<1>10. g = G(h, d, p, r)
  BY <1>8, <1>9
<1>11. /\ g \in Frame
       /\ g.src = f.src /\ g.dst = f.dst /\ g.stamp = f.stamp
       /\ g.hops = h /\ g.hop = p /\ g.route = r /\ g.to = to
  BY <1>6, <1>10
<1> HIDE DEF g
<1>12. QED
  BY <1>9, <1>11 DEF g

------------------------------------------------------------------------------
(* Type correctness *)

LEMMA InitTypeOK == Init => TypeOK
<1> SUFFICES ASSUME Init
             PROVE  TypeOK
  OBVIOUS
<1>1. NoStamp \in Stamp
  BY RoutingAssumption DEF NoStamp, Stamp
<1>2. StatListOK(EmptyList)
  BY DEF IsListOf, EmptyList
<1>3. PathListOK(NoPaths)
  BY DEF IsListOf, NoPaths
<1>4. DOMAIN dist = Node /\ \A n \in Node : DistanceListOK(dist[n])
  BY ForwardingAssumption DEF Init
<1>5. QED
  BY <1>1, <1>2, <1>3, <1>4, ForwardingAssumption DEF Init, TypeOK, Distance

LEMMA SendTypeOK ==
  ASSUME TypeOK, NEW n \in Node, NEW d \in Dest, NEW t \in Times, Send(n, d, t)
  PROVE  TypeOK'
<1>1. air' \subseteq Frame
  <2>1. PICK heard \in SUBSET {h \in (1 .. MaxCopies) \X Neighbour[n] :
                                 h[1] <= Copies(Far(n, d), d = Bcast)} :
          air' = air \cup {NewFrame(n, d, t, h[1], h[2]) : h \in heard}
    BY DEF Send
  <2>2. ASSUME NEW h \in heard
        PROVE  NewFrame(n, d, t, h[1], h[2]) \in Frame
    <3>1. h[1] \in Nat \ {0} /\ h[2] \in Node
      BY ForwardingAssumption
    <3>2. QED
      BY <3>1, NewFrameType
  <2>3. QED
    BY <2>1, <2>2 DEF TypeOK
<1>2. sent' \subseteq Packet
  BY ForwardingAssumption DEF Send, TypeOK, Packet
<1>3. DOMAIN stat' = Node /\ \A m \in Node : StatListOK(stat'[m])
  <2>1. session[n] \in Nat /\ StatListOK(stat[n])
    BY SessionType DEF TypeOK
  <2>2. StatListOK(StatTx(stat[n], d, session[n]))
    BY <2>1, StatTxType
  <2>3. stat' = [stat EXCEPT ![n] = StatTx(@, d, session[n])]
    BY DEF Send
  <2>4. QED
    BY <2>2, <2>3 DEF TypeOK
<1>4. UNCHANGED <<dist, ts, fwdOff, manifoldOff, threshold, session, path, delivered, commands>>
  BY DEF Send, tables, switches
<1>5. QED
  BY <1>1, <1>2, <1>3, <1>4 DEF TypeOK

(* What is used of a frame in flight.                                      *)
LEMMA FrameFields ==
  ASSUME TypeOK, NEW f \in air
  PROVE  /\ f \in Frame
         /\ f.src \in Node /\ f.to \in Node /\ f.dst \in Dest
         /\ f.stamp \in Stamp /\ f.session \in Nat /\ f.hop \in HopTrace
         /\ f.route \in Seq(Node)
         /\ Neighbour[f.to] \subseteq Node
         /\ StatListOK(stat[f.to])
         /\ PathListOK(path[f.to])
<1>1. f \in Frame
  BY DEF TypeOK
<1>2. f.to \in Node
  BY <1>1 DEF Frame
<1>3. QED
  BY <1>1, <1>2, ForwardingAssumption DEF Frame, TypeOK

LEMMA DeliverType ==
  ASSUME TypeOK, NEW f \in air, Deliver(f.to, f)
  PROVE  delivered' \in [Node -> SUBSET (Node \X Dest \X Stamp)]
<1>1. <<f.src, f.dst, f.stamp>> \in Node \X Dest \X Stamp
  BY FrameFields
<1>2. QED
  BY <1>1 DEF TypeOK, Deliver

LEMMA ReceiveHereTypeOK ==
  ASSUME TypeOK, NEW f \in air, ReceiveHere(f)
  PROVE  TypeOK'
<1>1. DOMAIN stat' = Node /\ \A m \in Node : StatListOK(stat'[m])
  <2>1. f.src \in Dest
    BY FrameFields DEF Dest
  <2>2. StatListOK(StatRx(stat[f.to], f.src, f.session, f.dst))
    BY <2>1, FrameFields, StatRxType
  <2>3. stat' = [stat EXCEPT ![f.to] = StatRx(@, f.src, f.session, f.dst)]
    BY DEF ReceiveHere
  <2>4. QED
    BY <2>2, <2>3 DEF TypeOK
<1>2. DOMAIN path' = Node /\ \A m \in Node : PathListOK(path'[m])
  <2>1. PathListOK(PathRx(path[f.to], <<f.src, f.hop>>, f.session))
    BY FrameFields, PathRxOK
  <2>2. path' = [path EXCEPT ![f.to] = PathRx(@, <<f.src, f.hop>>, f.session)]
    BY DEF ReceiveHere
  <2>3. QED
    BY <2>1, <2>2 DEF TypeOK
<1>3. delivered' \in [Node -> SUBSET (Node \X Dest \X Stamp)]
  BY DeliverType DEF ReceiveHere
<1>4. air' \subseteq Frame
  BY DEF ReceiveHere, TypeOK
<1>5. UNCHANGED <<dist, ts, fwdOff, manifoldOff, threshold, session, sent, commands>>
  BY DEF ReceiveHere, tables, switches
<1>6. QED
  BY <1>1, <1>2, <1>3, <1>4, <1>5 DEF TypeOK

(* What Relay and DontRelay do alike.                                      *)
LEMMA RelayPartsType ==
  ASSUME TypeOK, NEW f \in air, NoteStamp(f.to, f), DeliverBroadcast(f.to, f)
  PROVE  /\ ts' \in [Node -> [Node -> Stamp]]
         /\ delivered' \in [Node -> SUBSET (Node \X Dest \X Stamp)]
         /\ \A list : StatListOK(list) => StatListOK(CountRelayed(list, f))
<1>1. ts' \in [Node -> [Node -> Stamp]]
  <2>1. ts[f.to][f.src] \in Stamp
    BY FrameFields DEF TypeOK
  <2>2. StampAfter(ts[f.to][f.src], f.stamp) \in Stamp
    BY <2>1, FrameFields, StampAfterChoice
  <2>3. ts' = [ts EXCEPT ![f.to][f.src] = StampAfter(@, f.stamp)]
    BY DEF NoteStamp
  <2>4. QED
    BY <2>2, <2>3, FrameFields DEF TypeOK
<1>2. delivered' \in [Node -> SUBSET (Node \X Dest \X Stamp)]
  BY DeliverType DEF DeliverBroadcast, TypeOK
<1>3. ASSUME NEW list, StatListOK(list)
      PROVE  StatListOK(CountRelayed(list, f))
  <2>1. f.src \in Dest
    BY FrameFields DEF Dest
  <2>2. StatListOK(StatRx(list, f.src, f.session, f.dst))
    BY <1>3, <2>1, FrameFields, StatRxType
  <2>3. QED
    BY <1>3, <2>2 DEF CountRelayed
<1>4. QED
  BY <1>1, <1>2, <1>3

LEMMA RelayTypeOK ==
  ASSUME TypeOK, NEW f \in air, Relay(f)
  PROVE  TypeOK'
<1>1. /\ ts' \in [Node -> [Node -> Stamp]]
      /\ delivered' \in [Node -> SUBSET (Node \X Dest \X Stamp)]
  BY RelayPartsType DEF Relay
<1>2. air' \subseteq Frame
  <2>1. PICK heard \in SUBSET Neighbour[f.to] :
          air' = (air \ {f}) \cup {RelayedFrame(f.to, f, to) : to \in heard}
    BY DEF Relay
  <2>2. ASSUME NEW to \in heard
        PROVE  RelayedFrame(f.to, f, to) \in Frame
    BY FrameFields, RelayedFrameIs
  <2>3. QED
    BY <2>1, <2>2 DEF TypeOK
<1>3. DOMAIN stat' = Node /\ \A m \in Node : StatListOK(stat'[m])
  <2>1. StatListOK(StatFwd(stat[f.to], f.dst, f.session))
    BY FrameFields, StatFwdType
  <2>2. StatListOK(CountRelayed(StatFwd(stat[f.to], f.dst, f.session), f))
    BY <2>1, RelayPartsType DEF Relay
  <2>3. stat' = [stat EXCEPT ![f.to] = CountRelayed(StatFwd(@, f.dst, f.session), f)]
    BY DEF Relay
  <2>4. QED
    BY <2>2, <2>3 DEF TypeOK
<1>4. UNCHANGED <<dist, fwdOff, manifoldOff, threshold, session, path, sent, commands>>
  BY DEF Relay, switches
<1>5. QED
  BY <1>1, <1>2, <1>3, <1>4 DEF TypeOK

LEMMA DontRelayTypeOK ==
  ASSUME TypeOK, NEW f \in air, DontRelay(f)
  PROVE  TypeOK'
<1>1. /\ ts' \in [Node -> [Node -> Stamp]]
      /\ delivered' \in [Node -> SUBSET (Node \X Dest \X Stamp)]
  BY RelayPartsType DEF DontRelay
<1>2. air' \subseteq Frame
  BY DEF DontRelay, TypeOK
<1>3. DOMAIN stat' = Node /\ \A m \in Node : StatListOK(stat'[m])
  <2>1. StatListOK(CountRelayed(stat[f.to], f))
    BY FrameFields, RelayPartsType DEF DontRelay
  <2>2. stat' = [stat EXCEPT ![f.to] = CountRelayed(@, f)]
    BY DEF DontRelay
  <2>3. QED
    BY <2>1, <2>2 DEF TypeOK
<1>4. UNCHANGED <<dist, fwdOff, manifoldOff, threshold, session, path, sent, commands>>
  BY DEF DontRelay, switches
<1>5. QED
  BY <1>1, <1>2, <1>3, <1>4 DEF TypeOK

LEMMA SessionTimerTypeOK ==
  ASSUME TypeOK, NEW n \in Node, SessionTimer(n)
  PROVE  TypeOK'
<1>1. StatListOK(stat[n])
  BY DEF TypeOK
<1>2. StatListOK(Aged(stat[n])) /\ DOMAIN Aged(stat[n]) = DOMAIN stat[n]
  BY <1>1, AgedType
<1>3. DOMAIN stat' = Node /\ \A m \in Node : StatListOK(stat'[m])
  <2>1. \A m : StatListOK(Drop(Aged(stat[n]), m))
    BY <1>2, DropType
  <2>2. \/ stat' = [stat EXCEPT ![n] = Aged(@)]
        \/ \E m \in Expired(stat[n]) : stat' = [stat EXCEPT ![n] = Drop(Aged(@), m)]
    BY DEF SessionTimer
  <2>3. CASE stat' = [stat EXCEPT ![n] = Aged(@)]
    BY <1>2, <2>3 DEF TypeOK
  <2>4. ASSUME NEW m, stat' = [stat EXCEPT ![n] = Drop(Aged(@), m)]
        PROVE  DOMAIN stat' = Node /\ \A i \in Node : StatListOK(stat'[i])
    BY <2>1, <2>4 DEF TypeOK
  <2>5. QED
    BY <2>2, <2>3, <2>4
<1>4. DOMAIN dist' = Node /\ \A m \in Node : DistanceListOK(dist'[m])
  <2>1. CASE UNCHANGED dist
    BY <2>1 DEF TypeOK
  <2>2. ASSUME NEW m, dist' = [dist EXCEPT ![n] = Drop(@, m)]
        PROVE  DOMAIN dist' = Node /\ \A i \in Node : DistanceListOK(dist'[i])
    <3>1. DistanceListOK(Drop(dist[n], m))
      BY DropType DEF TypeOK
    <3>2. QED
      BY <2>2, <3>1 DEF TypeOK
  <2>3. QED
    BY <2>1, <2>2 DEF SessionTimer
<1>5. session' \in [Node -> 0 .. 254]
  <2>1. \A i \in 0 .. 254 : (i + 1) % 255 \in 0 .. 254
    OBVIOUS
  <2>2. session' = [session EXCEPT ![n] = (@ + 1) % 255]
    BY DEF SessionTimer
  <2>3. QED
    BY <2>1, <2>2 DEF TypeOK
<1>6. UNCHANGED <<ts, fwdOff, manifoldOff, threshold, path, air, sent, delivered, commands>>
  BY DEF SessionTimer, switches
<1>7. QED
  BY <1>3, <1>4, <1>5, <1>6 DEF TypeOK

LEMMA WriteCommandTypeOK ==
  ASSUME TypeOK, NEW n \in Node, NEW c \in Commands, WriteCommand(n, c)
  PROVE  TypeOK'
<1>1. UNCHANGED <<ts, session, stat, path, air, sent, delivered>>
  BY DEF WriteCommand, counters
<1>2. commands' \in 0 .. MaxCommands
  BY ForwardingAssumption DEF WriteCommand, TypeOK
<1>3. c \in Command
  BY ForwardingAssumption
<1>4. /\ DOMAIN dist' = Node /\ \A m \in Node : DistanceListOK(dist'[m])
      /\ threshold' \in [Node -> Distance]
      /\ fwdOff' \in [Node -> BOOLEAN] /\ manifoldOff' \in [Node -> BOOLEAN]
  <2>1. CASE /\ c.name = "distance"
             /\ dist' = [dist EXCEPT ![n] = SetDistance(@, c.to, c.value)]
             /\ UNCHANGED switches
    <3>1. c.to \in Dest /\ c.value \in Distance
      BY <1>3, <2>1 DEF Command
    <3>2. DistanceListOK(SetDistance(dist[n], c.to, c.value))
      BY <3>1, DistanceType DEF TypeOK
    <3>3. QED
      BY <2>1, <3>2 DEF TypeOK, switches
  <2>2. CASE /\ c.name = "set_fwd_threshold"
             /\ threshold' = [threshold EXCEPT ![n] = c.value]
             /\ UNCHANGED <<dist, fwdOff, manifoldOff>>
    <3>1. c.value \in Distance
      BY <1>3, <2>2 DEF Command
    <3>2. QED
      BY <2>2, <3>1 DEF TypeOK
  <2>3. CASE /\ c.name = "toggle_fwding"
             /\ fwdOff' = [fwdOff EXCEPT ![n] = ~@]
             /\ UNCHANGED <<dist, manifoldOff, threshold>>
    BY <2>3 DEF TypeOK
  <2>4. CASE /\ c.name \in {"start", "stop"}
             /\ manifoldOff' = [manifoldOff EXCEPT ![n] = (c.name = "stop")]
             /\ UNCHANGED <<dist, fwdOff, threshold>>
    BY <2>4 DEF TypeOK
  <2>5. QED
    BY <2>1, <2>2, <2>3, <2>4 DEF WriteCommand
<1>5. QED
  BY <1>1, <1>2, <1>4 DEF TypeOK

LEMMA ReadPathsTypeOK ==
  ASSUME TypeOK, NEW n \in Node, ReadPaths(n)
  PROVE  TypeOK'
<1>1. PathListOK(NoPaths)
  BY DEF IsListOf, NoPaths
<1>2. DOMAIN path' = Node /\ \A m \in Node : PathListOK(path'[m])
  BY <1>1 DEF ReadPaths, TypeOK
<1>3. UNCHANGED <<dist, ts, fwdOff, manifoldOff, threshold, session, stat, air, sent,
                  delivered, commands>>
  BY DEF ReadPaths, tables, switches
<1>4. QED
  BY <1>2, <1>3 DEF TypeOK

LEMMA NextTypeOK == TypeOK /\ [Next]_vars => TypeOK'
<1> SUFFICES ASSUME TypeOK, [Next]_vars
             PROVE  TypeOK'
  OBVIOUS
<1>1. CASE \E w \in Traffic, t \in Times : Send(w[1], w[2], t)
  <2>1. PICK w \in Traffic, t \in Times : Send(w[1], w[2], t)
    BY <1>1
  <2>2. w[1] \in Node /\ w[2] \in Dest
    BY ForwardingAssumption
  <2>3. QED
    BY <2>1, <2>2, SendTypeOK
<1>2. CASE \E f \in air : Receive(f)
  BY <1>2, ReceiveHereTypeOK, RelayTypeOK, DontRelayTypeOK DEF Receive
<1>3. CASE \E n \in Node : SessionTimer(n)
  BY <1>3, SessionTimerTypeOK
<1>4. CASE \E n \in Node, c \in Commands : WriteCommand(n, c)
  BY <1>4, WriteCommandTypeOK
<1>5. CASE \E n \in Node : ReadPaths(n)
  BY <1>5, ReadPathsTypeOK
<1>6. CASE UNCHANGED vars
  BY <1>6 DEF vars, tables, switches, counters, TypeOK
<1>7. QED
  BY <1>1, <1>2, <1>3, <1>4, <1>5, <1>6 DEF Next

(* Every kernel variable and every frame in flight keeps its type.         *)
THEOREM TypeCorrect == Spec => []TypeOK
<1>1. Init => TypeOK
  BY InitTypeOK
<1>2. TypeOK /\ [Next]_vars => TypeOK'
  BY NextTypeOK
<1>3. QED
  BY <1>1, <1>2, PTL DEF Spec

------------------------------------------------------------------------------
(***************************************************************************)
(* The safety properties.  None of them is inductive alone: what a node    *)
(* stores comes out of frames, and a frame is only as good as the relays   *)
(* that rewrote it.  FrameOK says what every relay keeps: the budget and   *)
(* the number of relays add up (so that exactly the first 4 - hops         *)
(* forwarder fields are filled), the fields are the relays in order, they  *)
(* are a walk to the receiver, and source, destination and stamp are those *)
(* of a packet that was sent.                                              *)
(***************************************************************************)
SentAs(src, dst, stamp) ==
  \E p \in sent : p.src = src /\ p.dst = dst /\ OnTheWire(p.at) = stamp

FrameOK(f) ==
  /\ f.hops \in 1 .. MaxHops /\ Len(f.route) = MaxHops - f.hops
  /\ f.hop = TraceOf(f.route)
  /\ IsWalk(f.src, f.hop, Len(f.route), f.to)
  /\ SentAs(f.src, f.dst, f.stamp)

IInv ==
  /\ TypeOK
  /\ \A f \in air : FrameOK(f)
  /\ PathsAreWalks
  /\ DeliveredWasSent
  /\ StampsAreReal

LEMMA IInvImplies == IInv => PathTrace
BY DEF IInv, FrameOK, PathTrace

LEMMA InitIInv == Init => IInv
<1> SUFFICES ASSUME Init
             PROVE  IInv
  OBVIOUS
<1>1. TypeOK
  BY InitTypeOK
<1>2. \A f \in air : FrameOK(f)
  BY DEF Init
<1>3. PathsAreWalks
  BY DEF Init, PathsAreWalks, NoPaths
<1>4. DeliveredWasSent
  BY DEF Init, DeliveredWasSent
<1>5. StampsAreReal
  BY DEF Init, StampsAreReal
<1>6. QED
  BY <1>1, <1>2, <1>3, <1>4, <1>5 DEF IInv

(* Packets that were sent stay sent.                                       *)
LEMMA SentGrows ==
  ASSUME sent \subseteq sent', NEW s, NEW d, NEW st, SentAs(s, d, st)
  PROVE  SentAs(s, d, st)'
BY DEF SentAs

(* A packet starts as a walk of one hop, recording nobody.                 *)
LEMMA NewFrameOK ==
  ASSUME TypeOK, NEW n \in Node, NEW d \in Dest, NEW t \in Times, Send(n, d, t),
         NEW copy \in Nat \ {0}, NEW to \in Neighbour[n]
  PROVE  FrameOK(NewFrame(n, d, t, copy, to))'
<1> DEFINE f == NewFrame(n, d, t, copy, to)
<1>1. /\ f.src = n /\ f.dst = d /\ f.stamp = OnTheWire(t) /\ f.hops = MaxHops
      /\ f.hop = [i \in 1 .. 3 |-> Bcast] /\ f.route = << >> /\ f.to = to
  BY DEF NewFrame
<1>2. f' = f
  <2>1. UNCHANGED <<dist, session>>
    BY DEF Send, tables
  <2>2. QED
    BY <2>1 DEF NewFrame, Far
<1> HIDE DEF f
<1>3. f.hops \in 1 .. MaxHops /\ Len(f.route) = MaxHops - f.hops
  BY <1>1 DEF MaxHops
<1>4. f.hop = TraceOf(f.route)
  BY <1>1 DEF TraceOf
<1>5. IsWalk(f.src, f.hop, Len(f.route), f.to)
  <2>1. Len(f.route) = 0
    BY <1>1
  <2>2. /\ Stop(f.src, f.hop, 0, f.to, 0) = n
        /\ Stop(f.src, f.hop, 0, f.to, 1) = to
    BY <1>1 DEF Stop
  <2>3. QED
    BY <2>1, <2>2 DEF IsWalk
<1>6. SentAs(f.src, f.dst, f.stamp)'
  <2>1. [src |-> n, dst |-> d, at |-> t] \in sent'
    BY DEF Send
  <2>2. f'.src = n /\ f'.dst = d /\ f'.stamp = OnTheWire(t)
    BY <1>1, <1>2
  <2>3. \E p \in sent' : p.src = n /\ p.dst = d /\ OnTheWire(p.at) = OnTheWire(t)
    BY <2>1, Zenon
  <2>4. QED
    BY <2>2, <2>3 DEF SentAs
<1>7. FrameOK(f)'
  BY <1>2, <1>3, <1>4, <1>5, <1>6 DEF FrameOK
<1>8. QED
  BY <1>7 DEF f

(* A relay appends itself to the walk and keeps everything else.           *)
LEMMA RelayedFrameOK ==
  ASSUME TypeOK, NEW f \in air, FrameOK(f), HopsLeft(f) # 0,
         NEW to \in Neighbour[f.to]
  PROVE  FrameOK(RelayedFrame(f.to, f, to))
<1> DEFINE n == f.to
           g == RelayedFrame(n, f, to)
           k == Len(f.route)
<1>1. /\ f \in Frame /\ f.src \in Node /\ n \in Node /\ to \in Node
      /\ f.hop \in HopTrace /\ f.route \in Seq(Node)
  BY FrameFields
<1>2. /\ g.src = f.src /\ g.dst = f.dst /\ g.stamp = f.stamp
      /\ g.hops = HopsLeft(f)
      /\ g.hop = RecordHop(f.hop, HopsLeft(f), n)
      /\ g.route = Append(f.route, n)
      /\ g.to = to
  <2>1. RelayedFrame(n, f, to).src = f.src
    BY <1>1, RelayedFrameIs
  <2>2. RelayedFrame(n, f, to).dst = f.dst
    BY <1>1, RelayedFrameIs
  <2>3. RelayedFrame(n, f, to).hops = HopsLeft(f)
    BY <1>1, RelayedFrameIs
  <2>4. RelayedFrame(n, f, to).hop = RecordHop(f.hop, HopsLeft(f), n)
    BY <1>1, RelayedFrameIs
  <2>5. RelayedFrame(n, f, to).route = Append(f.route, n)
    BY <1>1, RelayedFrameIs
  <2>6. RelayedFrame(n, f, to).to = to
    BY <1>1, RelayedFrameIs
  <2>7. RelayedFrame(n, f, to).stamp = f.stamp
    BY <1>1, RelayedFrameIs
  <2>8. QED
    BY <2>1, <2>2, <2>3, <2>4, <2>5, <2>6, <2>7
<1>3. f.hops \in 2 .. 4 /\ HopsLeft(f) = f.hops - 1
  BY DEF FrameOK, HopsLeft, MaxHops
<1>4. k \in 0 .. 2 /\ k = 4 - f.hops
  BY <1>3 DEF FrameOK, MaxHops
<1> HIDE DEF g
<1>5. g.hops \in 1 .. MaxHops /\ Len(g.route) = MaxHops - g.hops
  <2>1. Len(g.route) = k + 1
    BY <1>1, <1>2
  <2>2. QED
    BY <1>2, <1>3, <1>4, <2>1 DEF MaxHops
<1>6. g.hop = [TraceOf(f.route) EXCEPT ![k + 1] = n]
  BY <1>2, <1>3, <1>4 DEF FrameOK, RecordHop
<1>7. g.hop = TraceOf(g.route)
  <2>1. \A i \in 1 .. 3 : TraceOf(g.route)[i] = IF i = k + 1 THEN n ELSE TraceOf(f.route)[i]
    BY <1>1, <1>2, <1>4 DEF TraceOf
  <2>2. QED
    BY <1>4, <1>6, <2>1 DEF TraceOf
<1>8. IsWalk(g.src, g.hop, Len(g.route), g.to)
  <2>1. IsWalk(f.src, f.hop, k, n) /\ f.hop = TraceOf(f.route)
    BY DEF FrameOK
  <2>2. Len(g.route) = k + 1
    BY <1>1, <1>2
  <2>3. \A i \in 0 .. k + 1 :
          Stop(g.src, g.hop, k + 1, g.to, i) = Stop(f.src, f.hop, k, n, i)
    BY <1>1, <1>2, <1>4, <1>6, <2>1 DEF Stop, TraceOf
  <2>4. ASSUME NEW i \in 0 .. k
        PROVE  Stop(g.src, g.hop, k + 1, g.to, i + 1)
                 \in Neighbour[Stop(g.src, g.hop, k + 1, g.to, i)]
    BY <1>4, <2>1, <2>3 DEF IsWalk
  <2>5. Stop(f.src, f.hop, k, n, k + 1) = n
    BY <1>4 DEF Stop
  <2>6. Stop(g.src, g.hop, k + 1, g.to, k + 2) = to
    BY <1>2, <1>4 DEF Stop
  <2>7. Stop(g.src, g.hop, k + 1, g.to, k + 1) = n
    BY <1>4, <2>3, <2>5
  <2>8. QED
    BY <1>4, <2>2, <2>4, <2>6, <2>7 DEF IsWalk
<1>9. SentAs(g.src, g.dst, g.stamp)
  BY <1>2 DEF FrameOK
<1>10. FrameOK(g)
  BY <1>5, <1>7, <1>8, <1>9 DEF FrameOK
<1>11. QED
  BY <1>10 DEF g

(* What a node stores about a packet it received.                          *)
LEMMA DeliverKeeps ==
  ASSUME TypeOK, DeliveredWasSent, NEW f \in air, FrameOK(f), Deliver(f.to, f),
         sent' = sent, f.dst \in {f.to, Bcast} \cup Group
  PROVE  DeliveredWasSent'
<1>1. \E p \in sent : <<p.src, p.dst, OnTheWire(p.at)>> = <<f.src, f.dst, f.stamp>>
  BY DEF FrameOK, SentAs
<1>2. ASSUME NEW n \in Node, NEW x \in delivered'[n]
      PROVE  /\ x[2] \in {n, Bcast} \cup Group
             /\ \E p \in sent : <<p.src, p.dst, OnTheWire(p.at)>> = x
  <2>1. CASE x \in delivered[n]
    BY <2>1 DEF DeliveredWasSent
  <2>2. CASE x \notin delivered[n]
    <3>1. n = f.to /\ x = <<f.src, f.dst, f.stamp>>
      BY <2>2 DEF Deliver, TypeOK
    <3>2. QED
      BY <1>1, <3>1
  <2>3. QED
    BY <2>1, <2>2
<1>3. QED
  BY <1>2 DEF DeliveredWasSent

LEMMA NoteStampKeeps ==
  ASSUME TypeOK, StampsAreReal, NEW f \in air, FrameOK(f), NoteStamp(f.to, f),
         sent' = sent
  PROVE  StampsAreReal'
<1>1. \E p \in sent : p.src = f.src /\ OnTheWire(p.at) = f.stamp
  BY DEF FrameOK, SentAs
<1>2. \A n, s \in Node :
        ts'[n][s] = ts[n][s] \/ (s = f.src /\ ts'[n][s] = f.stamp)
  <2>1. StampAfter(ts[f.to][f.src], f.stamp) \in {ts[f.to][f.src], f.stamp}
    BY StampAfterChoice
  <2>2. ts' = [ts EXCEPT ![f.to][f.src] = StampAfter(@, f.stamp)]
    BY DEF NoteStamp
  <2>3. QED
    BY <2>1, <2>2 DEF TypeOK
<1>3. QED
  BY <1>1, <1>2 DEF StampsAreReal

LEMMA PathRxKeeps ==
  ASSUME TypeOK, PathsAreWalks, NEW f \in air, FrameOK(f), ReceiveHere(f)
  PROVE  PathsAreWalks'
<1> DEFINE IsPathTo(n, p) ==
      \E k \in 0 .. 3 :
        /\ \A i \in 1 .. 3 : p[2][i] = Bcast <=> i > k
        /\ IsWalk(p[1], p[2], k, n)
<1>1. IsPathTo(f.to, <<f.src, f.hop>>)
  <2>1. Len(f.route) \in 0 .. 3
    BY DEF FrameOK, MaxHops
  <2>2. f.route \in Seq(Node)
    BY FrameFields
  <2>3. \A i \in 1 .. 3 : f.hop[i] = Bcast <=> i > Len(f.route)
    BY <2>1, <2>2, ForwardingAssumption DEF FrameOK, TraceOf
  <2>4. IsWalk(f.src, f.hop, Len(f.route), f.to)
    BY DEF FrameOK
  <2>5. QED
    BY <2>1, <2>3, <2>4
<1>2. ASSUME NEW n \in Node, NEW p \in DOMAIN path'[n]
      PROVE  IsPathTo(n, p)
  <2>1. path' = [path EXCEPT ![f.to] = PathRx(@, <<f.src, f.hop>>, f.session)]
    BY DEF ReceiveHere
  <2>2. /\ f.session \in Nat /\ f.src \in Node /\ f.hop \in HopTrace
        /\ PathListOK(path[f.to])
    BY FrameFields
  <2>3. DOMAIN PathRx(path[f.to], <<f.src, f.hop>>, f.session)
          \subseteq DOMAIN path[f.to] \cup {<<f.src, f.hop>>}
    BY <2>2, PathRxOK
  <2>4. p \in DOMAIN path[n] \/ (n = f.to /\ p = <<f.src, f.hop>>)
    BY <2>1, <2>3 DEF TypeOK
  <2>5. CASE p \in DOMAIN path[n]
    BY <2>5 DEF PathsAreWalks
  <2>6. QED
    BY <1>1, <2>4, <2>5
<1>3. QED
  BY <1>2 DEF PathsAreWalks

LEMMA SendIInv ==
  ASSUME IInv, NEW n \in Node, NEW d \in Dest, NEW t \in Times, Send(n, d, t)
  PROVE  IInv'
<1>1. TypeOK /\ TypeOK'
  BY SendTypeOK DEF IInv
<1>2. sent \subseteq sent' /\ UNCHANGED <<ts, path, delivered>>
  BY DEF Send, tables
<1>3. ASSUME NEW f \in air'
      PROVE  FrameOK(f)'
  <2>1. PICK heard \in SUBSET {h \in (1 .. MaxCopies) \X Neighbour[n] :
                                 h[1] <= Copies(Far(n, d), d = Bcast)} :
          air' = air \cup {NewFrame(n, d, t, h[1], h[2]) : h \in heard}
    BY DEF Send
  <2>2. CASE f \in air
    <3>1. FrameOK(f)
      BY <2>2 DEF IInv
    <3>2. SentAs(f.src, f.dst, f.stamp)'
      BY <1>2, <3>1, SentGrows DEF FrameOK
    <3>3. QED
      BY <3>1, <3>2 DEF FrameOK
  <2>3. CASE f \notin air
    <3>1. PICK h \in heard : f = NewFrame(n, d, t, h[1], h[2])
      BY <2>1, <2>3
    <3>2. h[1] \in Nat \ {0} /\ h[2] \in Neighbour[n] /\ h[2] \in Node
      BY ForwardingAssumption
    <3>3. FrameOK(NewFrame(n, d, t, h[1], h[2]))'
      BY <1>1, <3>2, NewFrameOK
    <3>4. UNCHANGED <<dist, session>>
      BY DEF Send, tables
    <3>5. QED
      BY <3>1, <3>3, <3>4 DEF NewFrame, Far
  <2>4. QED
    BY <2>2, <2>3
<1>4. PathsAreWalks'
  BY <1>2 DEF IInv, PathsAreWalks
<1>5. DeliveredWasSent'
  BY <1>2 DEF IInv, DeliveredWasSent
<1>6. StampsAreReal'
  BY <1>2 DEF IInv, StampsAreReal
<1>7. QED
  BY <1>1, <1>3, <1>4, <1>5, <1>6 DEF IInv

LEMMA ReceiveHereIInv ==
  ASSUME IInv, NEW f \in air, ReceiveHere(f)
  PROVE  IInv'
<1>1. TypeOK /\ TypeOK' /\ FrameOK(f)
  BY ReceiveHereTypeOK DEF IInv
<1>2. UNCHANGED <<ts, sent>> /\ air' \subseteq air
  BY DEF ReceiveHere, tables
<1>3. \A g \in air' : FrameOK(g)'
  BY <1>2 DEF IInv, FrameOK, SentAs
<1>4. PathsAreWalks'
  BY <1>1, PathRxKeeps DEF IInv
<1>5. DeliveredWasSent'
  BY <1>1, <1>2, DeliverKeeps DEF IInv, ReceiveHere
<1>6. StampsAreReal'
  BY <1>2 DEF IInv, StampsAreReal
<1>7. QED
  BY <1>1, <1>3, <1>4, <1>5, <1>6 DEF IInv

LEMMA RelayIInv ==
  ASSUME IInv, NEW f \in air, Relay(f)
  PROVE  IInv'
<1>1. TypeOK /\ TypeOK' /\ FrameOK(f)
  BY RelayTypeOK DEF IInv
<1>2. UNCHANGED <<path, sent>>
  BY DEF Relay
<1>3. ASSUME NEW g \in air'
      PROVE  FrameOK(g)
  <2>1. PICK heard \in SUBSET Neighbour[f.to] :
          air' = (air \ {f}) \cup {RelayedFrame(f.to, f, to) : to \in heard}
    BY DEF Relay
  <2>2. HopsLeft(f) # 0
    BY DEF Relay, WantsToRelay
  <2>3. ASSUME NEW to \in heard
        PROVE  FrameOK(RelayedFrame(f.to, f, to))
    BY <1>1, <2>2, RelayedFrameOK
  <2>4. QED
    BY <2>1, <2>3 DEF IInv
<1>4. \A g \in air' : FrameOK(g)'
  BY <1>2, <1>3 DEF FrameOK, SentAs
<1>5. DeliveredWasSent'
  BY <1>1, <1>2, DeliverKeeps DEF IInv, Relay, DeliverBroadcast, DeliveredWasSent
<1>6. StampsAreReal'
  BY <1>1, <1>2, NoteStampKeeps DEF IInv, Relay
<1>7. PathsAreWalks'
  BY <1>2 DEF IInv, PathsAreWalks
<1>8. QED
  BY <1>1, <1>4, <1>5, <1>6, <1>7 DEF IInv

LEMMA DontRelayIInv ==
  ASSUME IInv, NEW f \in air, DontRelay(f)
  PROVE  IInv'
<1>1. TypeOK /\ TypeOK' /\ FrameOK(f)
  BY DontRelayTypeOK DEF IInv
<1>2. UNCHANGED <<path, sent>> /\ air' \subseteq air
  BY DEF DontRelay
<1>3. \A g \in air' : FrameOK(g)'
  BY <1>2 DEF IInv, FrameOK, SentAs
<1>4. DeliveredWasSent'
  BY <1>1, <1>2, DeliverKeeps DEF IInv, DontRelay, DeliverBroadcast, DeliveredWasSent
<1>5. StampsAreReal'
  BY <1>1, <1>2, NoteStampKeeps DEF IInv, DontRelay
<1>6. PathsAreWalks'
  BY <1>2 DEF IInv, PathsAreWalks
<1>7. QED
  BY <1>1, <1>3, <1>4, <1>5, <1>6 DEF IInv

LEMMA QuietIInv ==
  ASSUME IInv, TypeOK', UNCHANGED <<ts, path, air, sent, delivered>>
  PROVE  IInv'
<1>1. \A f \in air' : FrameOK(f)'
  BY DEF IInv, FrameOK, SentAs
<1>2. PathsAreWalks' /\ DeliveredWasSent' /\ StampsAreReal'
  BY DEF IInv, PathsAreWalks, DeliveredWasSent, StampsAreReal
<1>3. QED
  BY <1>1, <1>2 DEF IInv

LEMMA NextIInv == IInv /\ [Next]_vars => IInv'
<1> SUFFICES ASSUME IInv, [Next]_vars
             PROVE  IInv'
  OBVIOUS
<1>1. TypeOK'
  BY NextTypeOK DEF IInv
<1>2. CASE \E w \in Traffic, t \in Times : Send(w[1], w[2], t)
  <2>1. PICK w \in Traffic, t \in Times : Send(w[1], w[2], t)
    BY <1>2
  <2>2. w[1] \in Node /\ w[2] \in Dest
    BY ForwardingAssumption
  <2>3. QED
    BY <2>1, <2>2, SendIInv
<1>3. CASE \E f \in air : Receive(f)
  BY <1>3, ReceiveHereIInv, RelayIInv, DontRelayIInv DEF Receive
<1>4. CASE \E n \in Node : SessionTimer(n)
  BY <1>1, <1>4, QuietIInv DEF SessionTimer
<1>5. CASE \E n \in Node, c \in Commands : WriteCommand(n, c)
  BY <1>1, <1>5, QuietIInv DEF WriteCommand, counters
<1>6. CASE \E n \in Node : ReadPaths(n)
  <2>1. PICK n \in Node : ReadPaths(n)
    BY <1>6
  <2>2. UNCHANGED <<ts, air, sent, delivered>>
    BY <2>1 DEF ReadPaths, tables
  <2>3. \A f \in air' : FrameOK(f)'
    BY <2>2 DEF IInv, FrameOK, SentAs
  <2>4. \A m \in Node : DOMAIN path'[m] \subseteq DOMAIN path[m]
    BY <2>1 DEF ReadPaths, NoPaths, IInv, TypeOK
  <2>5. PathsAreWalks'
    BY <2>4 DEF IInv, PathsAreWalks
  <2>6. DeliveredWasSent' /\ StampsAreReal'
    BY <2>2 DEF IInv, DeliveredWasSent, StampsAreReal
  <2>7. QED
    BY <1>1, <2>3, <2>5, <2>6 DEF IInv
<1>7. CASE UNCHANGED vars
  BY <1>1, <1>7, QuietIInv DEF vars, tables, counters
<1>8. QED
  BY <1>2, <1>3, <1>4, <1>5, <1>6, <1>7 DEF Next

LEMMA Inductive == Spec => []IInv
<1>1. Init => IInv
  BY InitIInv
<1>2. IInv /\ [Next]_vars => IInv'
  BY NextIInv
<1>3. QED
  BY <1>1, <1>2, PTL DEF Spec

(* hops_remaining never wraps: no frame is in flight with none left, and   *)
(* what is left plus the relays behind it is MAX_HOPS.  The forwarder      *)
(* fields of every frame are these relays, in order.                       *)
THEOREM TraceExact == Spec => []PathTrace
<1>1. IInv => PathTrace
  BY IInvImplies
<1>2. QED
  BY <1>1, Inductive, PTL

(* Every path of every path list is one that a packet can have taken.      *)
THEOREM PathsReal == Spec => []PathsAreWalks
<1>1. IInv => PathsAreWalks
  BY DEF IInv
<1>2. QED
  BY <1>1, Inductive, PTL

(* Upper layers only get packets that were sent, and to them.              *)
THEOREM NothingInvented == Spec => []DeliveredWasSent
<1>1. IInv => DeliveredWasSent
  BY DEF IInv
<1>2. QED
  BY <1>1, Inductive, PTL

(* Every stored stamp is that of one packet of its source.                 *)
THEOREM StampsGenuine == Spec => []StampsAreReal
<1>1. IInv => StampsAreReal
  BY DEF IInv
<1>2. QED
  BY <1>1, Inductive, PTL

LEMMA NoteStampLag ==
  ASSUME TypeOK, NEW f \in air, NoteStamp(f.to, f)
  PROVE  \A n, s \in Node : ts'[n][s][1] >= ts[n][s][1] - 1
<1>1. \A n, s \in Node : ts[n][s] \in Stamp
  BY DEF TypeOK
<1>2. StampAfter(ts[f.to][f.src], f.stamp)[1] >= ts[f.to][f.src][1] - 1
  BY <1>1, FrameFields, StampAfterLag
<1>3. PICK v : v = StampAfter(ts[f.to][f.src], f.stamp)
  OBVIOUS
<1>4. ts' = [ts EXCEPT ![f.to][f.src] = v]
  BY <1>3 DEF NoteStamp
<1>5. ASSUME NEW n \in Node, NEW s \in Node
      PROVE  ts'[n][s][1] >= ts[n][s][1] - 1
  <2>1. ts[n][s][1] \in Nat
    BY <1>1 DEF Stamp
  <2>2. ts'[n][s] = IF n = f.to /\ s = f.src THEN v ELSE ts[n][s]
    BY <1>4 DEF TypeOK
  <2>3. QED
    BY <1>2, <1>3, <2>1, <2>2
<1>6. QED
  BY <1>5

(* No step sets the seconds of a stored stamp back by more than one.       *)
THEOREM StampsRecent == Spec => StampsStayRecent
<1>1. ASSUME TypeOK, [Next]_vars
      PROVE  [\A n, s \in Node : ts'[n][s][1] >= ts[n][s][1] - 1]_ts
  <2>1. CASE UNCHANGED ts
    BY <2>1
  <2>2. ASSUME NEW f \in air, NoteStamp(f.to, f)
        PROVE  \A n, s \in Node : ts'[n][s][1] >= ts[n][s][1] - 1
    BY <1>1, <2>2, NoteStampLag
  <2>3. UNCHANGED ts \/ \E f \in air : NoteStamp(f.to, f)
    BY <1>1 DEF Next, Receive, ReceiveHere, Relay, DontRelay, Send, SessionTimer,
               WriteCommand, ReadPaths, vars, tables
  <2>4. QED
    BY <2>1, <2>2, <2>3
<1>2. QED
  BY <1>1, TypeCorrect, PTL DEF Spec, StampsStayRecent

------------------------------------------------------------------------------
(* Capacities.  Cardinality means nothing for an infinite domain, so the   *)
(* inductive form also says that every list is finite.                     *)
ListsFit ==
  \A n \in Node :
    /\ StatFits(stat[n])
    /\ Fits(path[n], PathCapacity)
    /\ Fits(dist[n], DistanceCapacity)

LEMMA StatStepFits ==
  ASSUME TypeOK, ListsFit, NEW n \in Node, NEW v, StatFits(v),
         stat' = [stat EXCEPT ![n] = v]
  PROVE  \A i \in Node : StatFits(stat'[i])
BY DEF ListsFit, TypeOK

LEMMA NextListsFit == TypeOK /\ ListsFit /\ [Next]_vars => ListsFit'
<1> SUFFICES ASSUME TypeOK, ListsFit, [Next]_vars
             PROVE  ListsFit'
  OBVIOUS
<1> USE DEF ListsFit
<1>1. DOMAIN dist = Node /\ DOMAIN stat = Node /\ DOMAIN path = Node
  BY DEF TypeOK
<1>2. CASE \E w \in Traffic, t \in Times : Send(w[1], w[2], t)
  <2>1. PICK w \in Traffic, t \in Times : Send(w[1], w[2], t)
    BY <1>2
  <2>2. w[1] \in Node
    BY ForwardingAssumption
  <2>3. StatFits(StatTx(stat[w[1]], w[2], session[w[1]]))
    BY <2>2, StatOpsFit
  <2>4. QED
    BY <2>1, <2>2, <2>3, StatStepFits DEF Send, tables
<1>3. ASSUME NEW f \in air, ReceiveHere(f)
      PROVE  ListsFit'
  <2>1. f.to \in Node
    BY FrameFields
  <2>2. StatFits(StatRx(stat[f.to], f.src, f.session, f.dst))
    BY <2>1, StatOpsFit
  <2>3. Fits(PathRx(path[f.to], <<f.src, f.hop>>, f.session), PathCapacity)
    BY <2>1, PathRxFits
  <2>4. path' = [path EXCEPT ![f.to] = PathRx(path[f.to], <<f.src, f.hop>>, f.session)]
    BY <1>3 DEF ReceiveHere
  <2>5. \A i \in Node : Fits(path'[i], PathCapacity)
    BY <1>1, <2>3, <2>4
  <2>6. \A i \in Node : StatFits(stat'[i])
    BY <1>3, <2>1, <2>2, StatStepFits DEF ReceiveHere
  <2>7. UNCHANGED dist
    BY <1>3 DEF ReceiveHere, tables
  <2>8. QED
    BY <2>5, <2>6, <2>7
<1>4. ASSUME NEW f \in air, Relay(f) \/ DontRelay(f)
      PROVE  ListsFit'
  <2>1. f.to \in Node
    BY FrameFields
  <2>2. \A list : StatFits(list) => StatFits(CountRelayed(list, f))
    BY StatOpsFit DEF CountRelayed
  <2>3. StatFits(StatFwd(stat[f.to], f.dst, f.session))
    BY <2>1, StatOpsFit
  <2>4. QED
    BY <1>4, <2>1, <2>2, <2>3, StatStepFits DEF Relay, DontRelay
<1>5. ASSUME NEW n \in Node, SessionTimer(n)
      PROVE  ListsFit'
  <2>1. \A m : StatFits(Aged(stat[n])) /\ StatFits(Drop(Aged(stat[n]), m))
    BY CollectFits
  <2>2. \A i \in Node : StatFits(stat'[i])
    BY <1>5, <2>1, StatStepFits DEF SessionTimer
  <2>3. \A m : Fits(Drop(dist[n], m), DistanceCapacity)
    BY DropFits, DistanceListAssumption
  <2>4. \A i \in Node : Fits(dist'[i], DistanceCapacity)
    BY <1>1, <1>5, <2>3 DEF SessionTimer
  <2>5. UNCHANGED path
    BY <1>5 DEF SessionTimer
  <2>6. QED
    BY <2>2, <2>4, <2>5
<1>6. ASSUME NEW n \in Node, NEW c \in Commands, WriteCommand(n, c)
      PROVE  ListsFit'
  <2>1. Fits(SetDistance(dist[n], c.to, c.value), DistanceCapacity)
    BY SetDistanceFits
  <2>2. \A i \in Node : Fits(dist'[i], DistanceCapacity)
    BY <1>1, <1>6, <2>1 DEF WriteCommand
  <2>3. QED
    BY <1>6, <2>2 DEF WriteCommand, counters
<1>7. ASSUME NEW n \in Node, ReadPaths(n)
      PROVE  ListsFit'
  <2>1. \A i \in Node : Fits(path'[i], PathCapacity)
    BY <1>1, <1>7, EmptyFits DEF ReadPaths
  <2>2. QED
    BY <1>7, <2>1 DEF ReadPaths, tables
<1>8. CASE UNCHANGED vars
  BY <1>8 DEF vars, counters, tables
<1>9. QED
  BY <1>2, <1>3, <1>4, <1>5, <1>6, <1>7, <1>8 DEF Next, Receive

(* No list of a node exceeds its capacity or holds an ignored address, if  *)
(* the distance tables the run starts from do not.                         *)
THEOREM ListsNeverOverflow == Spec => []ListsBounded
<1>1. Init => ListsFit
  BY EmptyFits, ForwardingAssumption DEF Init, ListsFit, Fits
<1>2. TypeOK /\ ListsFit /\ [Next]_vars => ListsFit'
  BY NextListsFit
<1>3. ListsFit => ListsBounded
  BY DEF ListsFit, StatFits, Fits, ListsBounded
<1>4. QED
  BY <1>1, <1>2, <1>3, TypeCorrect, PTL DEF Spec
------------------------------------------------------------------------------
(* Floods end.                                                             *)

LEMMA FewerHops ==
  ASSUME NEW h \in 1 .. MaxHops
  PROVE  (h - 1) % 256 = h - 1
BY DEF MaxHops

LEMMA TimeParts ==
  ASSUME NEW t \in Times
  PROVE  t[1] \in Int /\ t[2] \in Int
<1>1. Times \subseteq (Nat \ {0}) \X Micros
  BY ForwardingAssumption
<1>2. \A m \in Micros : m \in Int
  BY RoutingAssumption
<1>3. t \in (Nat \ {0}) \X Micros
  BY <1>1
<1>4. t[1] \in Nat \ {0} /\ t[2] \in Micros
  BY <1>3
<1>5. t[1] \in Int
  BY <1>4
<1>6. t[2] \in Int
  BY <1>2, <1>4
<1>7. QED
  BY <1>5, <1>6

(* Every relayed frame takes the place of the one that was relayed, which  *)
(* had one more hop left: no step keeps a flood going for ever.            *)
THEOREM FloodsDecrease == Spec => FloodsShrink
<1> DEFINE Smaller == /\ air \ air' # {}
                      /\ \A g \in air' \ air : \E f \in air \ air' : g.hops < f.hops
<1>1. ASSUME IInv, [Next]_vars, sent' = sent, air' # air
      PROVE  Smaller
  <2>1. ASSUME NEW f \in air, ReceiveHere(f) \/ DontRelay(f)
        PROVE  Smaller
    <3>1. air' = air \ {f}
      BY <2>1 DEF ReceiveHere, DontRelay
    <3>2. QED
      BY <3>1
  <2>2. ASSUME NEW f \in air, Relay(f)
        PROVE  Smaller
    <3>1. TypeOK /\ f.hops \in 1 .. MaxHops /\ f \in Frame /\ f.to \in Node
      BY <1>1, FrameFields DEF IInv, FrameOK
    <3>2. HopsLeft(f) = f.hops - 1 /\ f.hops \in Int
      BY <3>1, FewerHops DEF HopsLeft
    <3>3. PICK heard \in SUBSET Neighbour[f.to] :
            air' = (air \ {f}) \cup {RelayedFrame(f.to, f, to) : to \in heard}
      BY <2>2 DEF Relay
    <3>4. ASSUME NEW g \in air', g \notin air \ {f}
          PROVE  g.hops < f.hops
      <4>1. PICK to \in heard : g = RelayedFrame(f.to, f, to)
        BY <3>3, <3>4
      <4>2. to \in Node
        BY <3>1, FrameFields
      <4>3. g.hops = HopsLeft(f)
        BY <3>1, <4>1, <4>2, RelayedFrameIs
      <4>4. QED
        BY <3>2, <4>3
    <3>5. f \notin air'
      BY <3>2, <3>4
    <3>6. QED
      BY <3>4, <3>5
  <2>3. ASSUME NEW n \in Node, NEW d \in Dest, NEW t \in Times, Send(n, d, t)
        PROVE  FALSE
    <3>1. [src |-> n, dst |-> d, at |-> t] \in sent
      BY <1>1, <2>3 DEF Send
    <3>2. Earlier(t, t)
      BY <2>3, <3>1 DEF Send
    <3>3. t[1] \in Int /\ t[2] \in Int
      BY TimeParts
    <3>4. QED
      BY <3>2, <3>3 DEF Earlier
  <2>4. CASE UNCHANGED air
    BY <1>1, <2>4
  <2>5. \A w \in Traffic : w[1] \in Node /\ w[2] \in Dest
    BY ForwardingAssumption
  <2>6. QED
    BY <1>1, <2>1, <2>2, <2>3, <2>4, <2>5
       DEF Next, Receive, SessionTimer, WriteCommand, ReadPaths, vars
<1>2. IInv /\ [Next]_vars => (sent' = sent /\ air' # air => Smaller)
  BY <1>1
<1>3. QED
  BY <1>2, Inductive, PTL DEF Spec, FloodsShrink

------------------------------------------------------------------------------
(* The mesh the upper layers see                                           *)

(* A frame has come to its receiver by a path of at most MAX_HOPS hops.    *)
LEMMA FrameInReach ==
  ASSUME TypeOK, NEW f \in air, FrameOK(f)
  PROVE  Upper!InReach(f.src, f.to)
<1> DEFINE k == Len(f.route)
           walk == [i \in 0 .. k + 1 |-> Stop(f.src, f.hop, k, f.to, i)]
<1>1. /\ f.src \in Node /\ f.to \in Node /\ f.route \in Seq(Node)
      /\ f.hop = TraceOf(f.route) /\ IsWalk(f.src, f.hop, k, f.to)
  BY FrameFields DEF FrameOK
<1>2. k \in 0 .. 3 /\ MaxHops = 4
  BY DEF FrameOK, MaxHops
<1>3. \A i \in 1 .. k : f.hop[i] \in Node
  <2>1. \A i \in 1 .. k : i \in 1 .. 3 /\ i <= Len(f.route) /\ f.route[i] \in Node
    <3>1. k \in Nat /\ f.route \in Seq(Node)
      BY <1>1
    <3>2. \A i \in 1 .. Len(f.route) : f.route[i] \in Node
      BY <3>1
    <3>3. QED
      BY <1>2, <3>1, <3>2
  <2>2. \A i \in 1 .. 3 : i <= Len(f.route) => TraceOf(f.route)[i] = f.route[i]
    BY DEF TraceOf
  <2>3. QED
    BY <1>1, <2>1, <2>2
<1>4. walk \in [0 .. k + 1 -> Node]
  BY <1>1, <1>3 DEF Stop
<1>5. \A i \in 0 .. k : walk[i + 1] \in Neighbour[walk[i]]
  BY <1>1, <1>2 DEF IsWalk
<1>6. walk[0] = f.src /\ walk[k + 1] = f.to
  BY <1>2 DEF Stop
<1> HIDE DEF walk, k
<1>7. k + 1 \in 1 .. MaxHops /\ 0 .. (k + 1) - 1 = 0 .. k
  BY <1>2
<1>8. Upper!IsPath(walk, k + 1, f.src, f.to)
  <2>1. \A i \in 0 .. (k + 1) - 1 : walk[i + 1] \in Neighbour[walk[i]]
    BY <1>5, <1>7
  <2>2. QED
    BY <1>6, <2>1 DEF Upper!IsPath
<1>9. QED
  BY <1>4, <1>7, <1>8 DEF Upper!InReach

Packets == {<<p.src, p.dst, OnTheWire(p.at)>> : p \in sent}

(* What is passed up was sent, is addressed to the node, and came to it    *)
(* over at most MAX_HOPS hops.                                             *)
LEMMA DeliverPassesUp ==
  ASSUME TypeOK, NEW f \in air, FrameOK(f), UNCHANGED sent,
         f.dst \in {f.to, Bcast} \cup Group, Deliver(f.to, f)
  PROVE  Upper!Next
<1> DEFINE x == <<f.src, f.dst, f.stamp>>
<1>1. x \in Packets
  BY DEF FrameOK, SentAs, Packets
<1>2. x[1] = f.src /\ x[2] = f.dst /\ f.to \in Node
  BY FrameFields
<1>3. Upper!InReach(x[1], f.to)
  BY <1>2, FrameInReach
<1>4. Upper!Addressed(f.to, x[2])
  BY <1>2 DEF Upper!Addressed
<1>5. delivered' = [delivered EXCEPT ![f.to] = @ \cup {x}]
  BY DEF Deliver
<1> HIDE DEF x
<1>6. Upper!PassUp(f.to, x)
  BY <1>1, <1>3, <1>4, <1>5 DEF Upper!PassUp, Packets
<1>7. QED
  BY <1>1, <1>2, <1>6 DEF Upper!Next, Packets

(* The mesh of kernel modules implements the Mesh: every packet passed up  *)
(* was sent as it is, to an address of the node, from at most MAX_HOPS     *)
(* radio hops away.                                                        *)
THEOREM MeshImplemented == Spec => ImplementsMesh
<1>1. Init => Upper!Init
  BY DEF Init, Upper!Init
<1>2. ASSUME IInv, IInv', [Next]_vars
      PROVE  Upper!Next \/ UNCHANGED <<Packets, delivered>>
  <2>1. ASSUME NEW n \in Node, NEW d \in Dest, NEW t \in Times, Send(n, d, t)
        PROVE  Upper!Next
    <3> DEFINE p == [src |-> n, dst |-> d, at |-> t]
               x == <<n, d, OnTheWire(t)>>
    <3>1. sent' = sent \cup {p} /\ UNCHANGED delivered
      BY <2>1 DEF Send
    <3>2. Packets' = Packets \cup {x}
      <4> DEFINE P(q) == <<q.src, q.dst, OnTheWire(q.at)>>
      <4>1. P(p) = x
        OBVIOUS
      <4> HIDE DEF P, p, x
      <4>2. {P(q) : q \in sent \cup {p}} = {P(q) : q \in sent} \cup {x}
        BY <4>1
      <4>3. {P(q) : q \in sent'} = {P(q) : q \in sent} \cup {x}
        BY <3>1, <4>2
      <4>4. QED
        BY <4>3 DEF Packets, P
    <3>3. x \in Upper!Packet
      <4>1. OnTheWire(t) \in Stamp
        BY ForwardingAssumption, OnTheWireType
      <4>2. QED
        BY <4>1 DEF Upper!Packet, Dest
    <3> HIDE DEF x
    <3>4. x \in Packets'
      BY <3>2
    <3>5. QED
      BY <3>1, <3>2, <3>3, <3>4 DEF Upper!Next, Upper!Send, Packets
  <2>2. ASSUME NEW f \in air, ReceiveHere(f)
        PROVE  Upper!Next \/ UNCHANGED <<Packets, delivered>>
    <3>1. /\ TypeOK /\ FrameOK(f) /\ UNCHANGED sent
          /\ Deliver(f.to, f) /\ f.dst \in {f.to, Bcast} \cup Group
      BY <1>2, <2>2 DEF IInv, ReceiveHere
    <3>2. QED
      BY <3>1, DeliverPassesUp
  <2>3. ASSUME NEW f \in air, Relay(f) \/ DontRelay(f)
        PROVE  Upper!Next \/ UNCHANGED <<Packets, delivered>>
    <3>1. TypeOK /\ FrameOK(f) /\ UNCHANGED sent /\ DeliverBroadcast(f.to, f)
      BY <1>2, <2>3 DEF IInv, Relay, DontRelay
    <3>2. CASE f.dst = Bcast
      BY <3>1, <3>2, DeliverPassesUp DEF DeliverBroadcast
    <3>3. CASE f.dst # Bcast
      BY <3>1, <3>3 DEF DeliverBroadcast, Packets
    <3>4. QED
      BY <3>2, <3>3
  <2>4. CASE UNCHANGED <<sent, delivered>>
    BY <2>4 DEF Packets
  <2>5. \A w \in Traffic : w[1] \in Node /\ w[2] \in Dest
    BY ForwardingAssumption
  <2>6. QED
    BY <1>2, <2>1, <2>2, <2>3, <2>4, <2>5
       DEF Next, Receive, SessionTimer, WriteCommand, ReadPaths, vars
<1>3. QED
  BY <1>1, <1>2, Inductive, PTL DEF Spec, ImplementsMesh, Upper!Spec, Packets
==============================================================================
