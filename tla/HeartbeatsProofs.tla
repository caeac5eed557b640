-------------------------- MODULE HeartbeatsProofs ---------------------------
(***************************************************************************)
(* Theorems about Heartbeats, for every number of nodes, heartbeats and    *)
(* sessions and any tolerance: the types, and that the kernel's distances  *)
(* are the sniffer's.  The kernel drops a distance when its list is full;  *)
(* the invariant shows that it never is, because distances are only        *)
(* written for hosts and there are at most MaxHosts of them.               *)
(* Then, for a mesh that fits the kernel's list of statistics, that the    *)
(* numbers the sniffer compares count the same packets; and, where no node *)
(* hears more than a hundred copies of one, that distance 0 comes from the *)
(* first session or from sessions that were heard out of order.            *)
(***************************************************************************)
EXTENDS Heartbeats, ListProofs

------------------------------------------------------------------------------
(* The arithmetic of manifold_routing stays within a byte.                  *)

LEMMA ByteType ==
  ASSUME NEW x \in Int
  PROVE  x % 256 \in Distance
BY DEF Distance

LEMMA QuotientType ==
  ASSUME NEW x \in Int, NEW y \in Nat \ {0}
  PROVE  Quotient(x, y) \in Int
BY DEF Quotient

LEMMA MeasureType ==
  ASSUME NEW s \in Count, NEW r \in Count \cup {-1}
  PROVE  Measure(s, r) \in Distance
<1>1. s \in Nat /\ r \in Int /\ (r \in Nat \/ r = -1)
  BY StatListAssumption DEF Count
<1>2. CASE r >= s /\ r # 0
  <2>1. r \in Nat \ {0} /\ s * 100 \in Int
    BY <1>1, <1>2
  <2>2. Quotient(s * 100, r) \in Int
    BY <2>1, QuotientType
  <2>3. QED
    BY <1>1, <1>2, <2>2, ByteType DEF Measure
<1>3. CASE r < s /\ s # 0
  <2>1. s \in Nat \ {0} /\ 155 * r \in Int
    BY <1>1, <1>3
  <2>2. Quotient(155 * r, s) \in Int
    BY <2>1, QuotientType
  <2>3. 255 - Quotient(155 * r, s) \in Int
    BY <2>2
  <2>4. ~(r >= s /\ r # 0)
    BY <1>1, <1>3
  <2>5. QED
    BY <1>3, <2>3, <2>4, ByteType DEF Measure
<1>4. CASE ~(r >= s /\ r # 0) /\ ~(r < s /\ s # 0)
  BY <1>4 DEF Measure, Distance
<1>5. QED
  BY <1>2, <1>3, <1>4

Row3 == Distance \X Distance \X Distance

LEMMA SmoothType ==
  ASSUME NEW t \in Row3, NEW d \in Distance
  PROVE  Smooth(t, d) \in Distance /\ Updated(t, d) \in Row3
<1>1. t[1] \in 0 .. 255 /\ t[2] \in 0 .. 255 /\ d \in 0 .. 255
  BY DEF Row3, Distance
<1>2. ASSUME NEW x \in 0 .. 255, NEW y \in 0 .. 255, NEW z \in 0 .. 255
      PROVE  (x + y + z) \div 3 \in 0 .. 255
  BY SMTT(30)
<1>3. Smooth(t, d) \in Distance
  BY <1>1, <1>2 DEF Smooth, Distance
<1>4. QED
  BY <1>3 DEF Updated, Row3

------------------------------------------------------------------------------
HostsFit == \A n \in Node : Fits(hosts[n], MaxHosts)

DistancesOfHosts == \A n \in Node : DOMAIN dist[n] \subseteq DOMAIN hosts[n]

IInv == TypeOK /\ HostsFit /\ DistancesOfHosts /\ KernelAgrees

LEMMA InitOK ==
  Init => IInv
<1> SUFFICES ASSUME Init PROVE IInv
  OBVIOUS
<1>1. /\ 0 \in Nat /\ 2 \in Nat /\ 0 \in 0 .. MaxTimer /\ 0 \in Count /\ -1 \in Count \cup {-1}
  BY HeartbeatsAssumption, CountWraps
<1>2. NoLine \in Line /\ NeverHeard \in Heard
  BY <1>1 DEF NoLine, Line, NeverHeard, Heard
<1>3. NoDistance \in Distance \X Distance \X Distance
  BY DEF NoDistance, Unknown, Distance
<1>4. /\ IsListOf(EmptyList, Node \cup {Bcast}, StatEntry)
      /\ IsListOf(NoDistances, Node, Distance)
      /\ IsListOf(NoHosts, Node, Nat)
  BY DEF IsListOf, EmptyList, NoDistances, NoHosts
<1>5. DOMAIN NoHosts = {} /\ DOMAIN NoDistances = {}
  BY DEF NoHosts, NoDistances
<1>6. Fits(NoHosts, MaxHosts)
  BY <1>5, FS_EmptySet, HeartbeatsAssumption DEF Fits
<1>7. <<>> \in Seq(Beat)
  OBVIOUS
<1>8. TypeOK
  BY <1>1, <1>2, <1>3, <1>4, <1>7 DEF Init, TypeOK
<1>9. QED
  BY <1>5, <1>6, <1>8 DEF Init, IInv, HostsFit, DistancesOfHosts, KernelAgrees

(* What the kernel reports makes a well-formed heartbeat.                   *)
LEMMA NewBeatType ==
  ASSUME TypeOK, NEW n \in Node
  PROVE  NewBeat(n) \in Beat /\ SessionOf(n) \in Nat
<1>1. fired[n] \in Nat /\ SessionOf(n) \in Session
  <2>1. fired \in [Node -> 0 .. MaxTimer]
    BY DEF TypeOK
  <2>2. MaxTimer \in Nat
    BY HeartbeatsAssumption
  <2>3. fired[n] \in Nat
    BY <2>1, <2>2
  <2>4. \A x \in Nat : x % 255 \in 0 .. 254
    OBVIOUS
  <2>5. QED
    BY <2>3, <2>4 DEF SessionOf, Session
<1>2. ASSUME NEW m \in DOMAIN stat[n]
      PROVE  /\ TxLine(stat[n][m]) \in Line
             /\ m # Bcast => RxRow(m, stat[n][m]) \in Row
  <2>1. IsListOf(stat[n], Node \cup {Bcast}, StatEntry)
    BY DEF TypeOK
  <2>2. stat[n][m] \in StatEntry /\ m \in Node \cup {Bcast}
    BY <2>1 DEF IsListOf
  <2>3. stat[n][m].tx \in Tally /\ stat[n][m].rx \in RxTally
    BY <2>2 DEF StatEntry
  <2>4. QED
    BY <2>2, <2>3 DEF TxLine, RxRow, Line, Row, Tally, RxTally
<1>3. {TxLine(stat[n][m]) : m \in {Bcast} \cap DOMAIN stat[n]} \in SUBSET Line
  BY <1>2
<1>4. {RxRow(m, stat[n][m]) : m \in DOMAIN stat[n] \ {n, Bcast}} \in SUBSET Row
  BY <1>2
<1>5. beats[n] \in Nat
  BY DEF TypeOK
<1>6. QED
  BY <1>1, <1>3, <1>4, <1>5 DEF NewBeat, Beat, Session

LEMMA SendBeatOK ==
  ASSUME IInv, NEW n \in Node, SendBeat(n)
  PROVE  IInv'
<1>1. TypeOK /\ NewBeat(n) \in Beat /\ SessionOf(n) \in Nat
  BY NewBeatType DEF IInv
<1>2. PICK copies \in SUBSET ((1 .. MaxCopies) \X Reach[n]) :
        air' = air \cup {[beat |-> NewBeat(n), to |-> c[2], copy |-> c[1]] : c \in copies}
  BY DEF SendBeat
<1>3. ASSUME NEW c \in copies
      PROVE  [beat |-> NewBeat(n), to |-> c[2], copy |-> c[1]] \in Frame
  <2>1. c[1] \in 1 .. MaxCopies /\ c[2] \in Reach[n]
    BY <1>2
  <2>2. c[1] \in Nat /\ c[2] \in Node
    BY <2>1, HeartbeatsAssumption
  <2>3. QED
    BY <1>1, <2>2 DEF Frame
<1>4. air' \subseteq Frame
  BY <1>1, <1>2, <1>3 DEF TypeOK
<1>5. IsListOf(StatTx(stat[n], Bcast, SessionOf(n)), Node \cup {Bcast}, StatEntry)
  BY <1>1, StatTxType DEF TypeOK
<1>6. /\ DOMAIN stat' = Node
      /\ \A m \in Node : IsListOf(stat'[m], Node \cup {Bcast}, StatEntry)
  BY <1>1, <1>5 DEF SendBeat, TypeOK
<1>7. beats' \in [Node -> Nat]
  BY <1>1 DEF SendBeat, TypeOK
<1>8. UNCHANGED <<fired, dist, threshold, queue, sniffing, hosts, own, heard, table>>
  BY DEF SendBeat, sniffer
<1>9. TypeOK'
  BY <1>1, <1>4, <1>6, <1>7, <1>8 DEF TypeOK
<1>10. QED
  BY <1>8, <1>9 DEF IInv, HostsFit, DistancesOfHosts, KernelAgrees, Fits

LEMMA HearOK ==
  ASSUME IInv, NEW f \in air, Hear(f)
  PROVE  IInv'
<1>1. TypeOK /\ f \in Frame
  BY DEF IInv, TypeOK
<1>2. /\ f.to \in Node /\ f.beat \in Beat /\ f.beat.src \in Node
      /\ f.beat.session \in Nat
  BY <1>1 DEF Frame, Beat, Session
<1>3. air' \subseteq Frame
  BY <1>1 DEF Hear, TypeOK
<1>4. IsListOf(StatRx(stat[f.to], f.beat.src, f.beat.session, Bcast),
               Node \cup {Bcast}, StatEntry)
  BY <1>1, <1>2, StatRxType DEF TypeOK
<1>5. /\ DOMAIN stat' = Node
      /\ \A m \in Node : IsListOf(stat'[m], Node \cup {Bcast}, StatEntry)
  BY <1>1, <1>2, <1>4 DEF Hear, TypeOK
<1>6. queue' \in [Node -> Seq(Beat)]
  <2>1. queue[f.to] \in Seq(Beat) /\ queue \in [Node -> Seq(Beat)]
    BY <1>1, <1>2 DEF TypeOK
  <2>2. Append(queue[f.to], f.beat) \in Seq(Beat)
    BY <1>2, <2>1
  <2>3. QED
    BY <2>1, <2>2 DEF Hear
<1>7. UNCHANGED <<fired, dist, threshold, beats, sniffing, hosts, own, heard, table>>
  BY DEF Hear, sniffer
<1>8. TypeOK'
  BY <1>1, <1>3, <1>5, <1>6, <1>7 DEF TypeOK
<1>9. QED
  BY <1>7, <1>8 DEF IInv, HostsFit, DistancesOfHosts, KernelAgrees, Fits

LEMMA SessionTimerOK ==
  ASSUME IInv, NEW n \in Node, SessionTimer(n)
  PROVE  IInv'
<1>1. TypeOK
  BY DEF IInv
<1>2. /\ IsListOf(Aged(stat[n]), Node \cup {Bcast}, StatEntry)
      /\ \A m : IsListOf(Drop(Aged(stat[n]), m), Node \cup {Bcast}, StatEntry)
  <2>1. IsListOf(Aged(stat[n]), Node \cup {Bcast}, StatEntry)
    BY <1>1, AgedType DEF TypeOK
  <2>2. QED
    BY <2>1, DropType
<1>3. /\ DOMAIN stat' = Node
      /\ \A m \in Node : IsListOf(stat'[m], Node \cup {Bcast}, StatEntry)
  <2>1. /\ DOMAIN stat' = Node
        /\ \A m \in Node : m # n => stat'[m] = stat[m]
        /\ \/ stat'[n] = Aged(stat[n])
           \/ \E m : stat'[n] = Drop(Aged(stat[n]), m)
    BY <1>1 DEF SessionTimer, TypeOK
  <2>2. IsListOf(stat'[n], Node \cup {Bcast}, StatEntry)
    BY <1>2, <2>1
  <2>3. QED
    BY <1>1, <2>1, <2>2 DEF TypeOK
<1>4. /\ DOMAIN dist' = Node
      /\ \A m \in Node : m # n => dist'[m] = dist[m]
      /\ dist'[n] = dist[n] \/ \E m : dist'[n] = Drop(dist[n], m)
  BY <1>1 DEF SessionTimer, TypeOK
<1>5. \A m \in Node : IsListOf(dist'[m], Node, Distance)
  <2>1. \A m : IsListOf(Drop(dist[n], m), Node, Distance)
    BY <1>1, DropType DEF TypeOK
  <2>2. QED
    BY <1>1, <1>4, <2>1 DEF TypeOK
<1>6. \A m \in Node : /\ DOMAIN dist'[m] \subseteq DOMAIN dist[m]
                      /\ \A j \in DOMAIN dist'[m] : dist'[m][j] = dist[m][j]
  <2>1. ASSUME NEW k
        PROVE  /\ DOMAIN Drop(dist[n], k) \subseteq DOMAIN dist[n]
               /\ \A j \in DOMAIN Drop(dist[n], k) : Drop(dist[n], k)[j] = dist[n][j]
    BY DEF Drop
  <2>2. QED
    BY <1>4, <2>1
<1>7. fired' \in [Node -> 0 .. MaxTimer]
  <2>1. fired[n] + 1 \in 0 .. MaxTimer
    <3>1. fired[n] \in 0 .. MaxTimer /\ fired[n] < MaxTimer
      BY <1>1 DEF TypeOK, SessionTimer
    <3>2. MaxTimer \in 0 .. 254
      BY HeartbeatsAssumption
    <3>3. QED
      BY <3>1, <3>2
  <2>2. QED
    BY <1>1, <2>1 DEF TypeOK, SessionTimer
<1>8. /\ DOMAIN hosts' = Node
      /\ \A m \in Node : DOMAIN hosts'[m] = DOMAIN hosts[m]
      /\ \A m \in Node : IsListOf(hosts'[m], Node, Nat)
  <2>1. IsListOf(hosts[n], Node, Nat)
    BY <1>1 DEF TypeOK
  <2>2. IsListOf([m \in DOMAIN hosts[n] |-> hosts[n][m] + 1], Node, Nat)
    BY <2>1 DEF IsListOf
  <2>3. QED
    BY <1>1, <2>2 DEF SessionTimer, TypeOK
<1>9. UNCHANGED <<threshold, beats, air, queue, sniffing, own, heard, table>>
  BY DEF SessionTimer
<1>10. TypeOK'
  BY <1>1, <1>3, <1>4, <1>5, <1>7, <1>8, <1>9 DEF TypeOK
<1>11. HostsFit'
  BY <1>8 DEF IInv, HostsFit, Fits
<1>12. DistancesOfHosts' /\ KernelAgrees'
  BY <1>6, <1>8, <1>9 DEF IInv, DistancesOfHosts, KernelAgrees
<1>13. QED
  BY <1>10, <1>11, <1>12 DEF IInv

------------------------------------------------------------------------------
(* calculate_distances: what is written to the kernel is what the table     *)
(* holds afterwards, and a distance is only written for a known host.       *)
LEMMA CalculateOK ==
  ASSUME TypeOK, NEW n \in Node, NEW known \in SUBSET Node, IsFiniteSet(known),
         NEW mine \in Line, NEW theirs \in [Node -> Heard],
         CalculateDistances(n, known, mine, theirs)
  PROVE  /\ table' \in [Node -> [Node -> Row3]]
         /\ threshold' \in [Node -> Nat]
         /\ DOMAIN dist' = Node
         /\ \A m \in Node : m # n => dist'[m] = dist[m] /\ table'[m] = table[m]
         /\ IsListOf(dist'[n], Node, Distance)
         /\ DOMAIN dist'[n] \subseteq DOMAIN dist[n] \cup known
         /\ (\A j \in DOMAIN dist[n] : dist[n][j] = table[n][j][1])
              => \A j \in DOMAIN dist'[n] : dist'[n][j] = table'[n][j][1]
<1> DEFINE C == Comparable(n, known, mine, theirs)
           d == [j \in C |-> Measure(mine.num, theirs[j].num)]
           pushed == {j \in DOMAIN d : Changed(table[n][j], d[j])}
<1>1. /\ table' = [table EXCEPT ![n] =
           [j \in Node |-> IF j \in DOMAIN d THEN Updated(table[n][j], d[j]) ELSE table[n][j]]]
      /\ dist' = [dist EXCEPT ![n] =
           [j \in DOMAIN dist[n] \cup pushed |->
              IF j \in pushed THEN Command(table[n][j], d[j]) ELSE dist[n][j]]]
      /\ threshold' = [threshold EXCEPT ![n] = Cardinality({j \in DOMAIN d : d[j] < Near})]
  BY DEF CalculateDistances, TypeOK
<1>2. C \subseteq known /\ C \subseteq Node /\ DOMAIN d = C
  BY DEF Comparable
<1>3. ASSUME NEW j \in C
      PROVE  d[j] \in Distance
  <2>1. mine.num \in Count /\ theirs[j].num \in Count \cup {-1}
    BY <1>2 DEF Line, Heard
  <2>2. QED
    BY <2>1, MeasureType
<1>4. pushed \subseteq C
  BY <1>2
<1>5. table[n] \in [Node -> Row3] /\ table \in [Node -> [Node -> Row3]]
  BY DEF TypeOK, Row3
<1>6. ASSUME NEW j \in C
      PROVE  /\ Updated(table[n][j], d[j]) \in Row3
             /\ Command(table[n][j], d[j]) \in Distance
  <2>1. table[n][j] \in Row3
    BY <1>2, <1>5
  <2>2. QED
    BY <1>3, <2>1, SmoothType DEF Command
<1>7. table' \in [Node -> [Node -> Row3]]
  <2>1. [j \in Node |-> IF j \in DOMAIN d THEN Updated(table[n][j], d[j]) ELSE table[n][j]]
          \in [Node -> Row3]
    BY <1>2, <1>5, <1>6
  <2>2. QED
    BY <1>1, <1>5, <2>1
<1>8. threshold' \in [Node -> Nat]
  <2>1. IsFiniteSet({j \in DOMAIN d : d[j] < Near})
    BY <1>2, FS_Subset
  <2>2. Cardinality({j \in DOMAIN d : d[j] < Near}) \in Nat
    BY <2>1, FS_CardinalityType
  <2>3. threshold \in [Node -> Nat]
    BY DEF TypeOK
  <2>4. QED
    BY <1>1, <2>2, <2>3
<1>9. /\ DOMAIN dist' = Node
      /\ \A m \in Node : m # n => dist'[m] = dist[m] /\ table'[m] = table[m]
      /\ dist'[n] = [j \in DOMAIN dist[n] \cup pushed |->
                       IF j \in pushed THEN Command(table[n][j], d[j]) ELSE dist[n][j]]
      /\ table'[n] = [j \in Node |-> IF j \in DOMAIN d THEN Updated(table[n][j], d[j])
                                     ELSE table[n][j]]
  BY <1>1, <1>5 DEF TypeOK
<1>10. IsListOf(dist[n], Node, Distance)
  BY DEF TypeOK
<1> HIDE DEF C, d, pushed
<1>11. IsListOf(dist'[n], Node, Distance)
  BY <1>2, <1>4, <1>6, <1>9, <1>10 DEF IsListOf
<1>12. DOMAIN dist'[n] \subseteq DOMAIN dist[n] \cup known
  BY <1>2, <1>4, <1>9
<1>13. ASSUME \A j \in DOMAIN dist[n] : dist[n][j] = table[n][j][1],
              NEW j \in DOMAIN dist'[n]
       PROVE  dist'[n][j] = table'[n][j][1]
  <2>1. j \in Node
    BY <1>11 DEF IsListOf
  <2>2. CASE j \in pushed
    <3>1. Changed(table[n][j], d[j])
      BY <2>2 DEF pushed
    <3>2. table'[n][j] = Updated(table[n][j], d[j])
      BY <1>2, <1>4, <1>9, <2>1, <2>2
    <3>3. Updated(table[n][j], d[j])[1] = Smooth(table[n][j], d[j])
      BY <3>1 DEF Updated
    <3>4. QED
      BY <1>9, <2>2, <3>2, <3>3 DEF Command
  <2>3. CASE j \notin pushed
    <3>1. j \in DOMAIN dist[n] /\ dist'[n][j] = dist[n][j]
      BY <1>9, <2>3
    <3>2. j \in DOMAIN d => ~Changed(table[n][j], d[j])
      BY <2>3 DEF pushed
    <3>3. table'[n][j] = table[n][j]
      BY <1>9, <2>1, <3>2 DEF Updated
    <3>4. QED
      BY <1>13, <3>1, <3>3
  <2>4. QED
    BY <2>2, <2>3
<1>14. QED
  BY <1>7, <1>8, <1>9, <1>11, <1>12, <1>13

LEMMA HostListFits ==
  ASSUME NEW list, Fits(list, MaxHosts), NEW m, NEW e,
         m \in DOMAIN list \/ HasRoom(list, MaxHosts)
  PROVE  /\ Fits(Put(list, m, e), MaxHosts)
         /\ DOMAIN Put(list, m, e) = DOMAIN list \cup {m}
<1>1. MaxHosts \in Nat
  BY HeartbeatsAssumption
<1>2. QED
  BY <1>1, PutFits

(* A host is only added while there is room for it.                         *)
LEMMA AcceptFits ==
  ASSUME TypeOK, HostsFit, NEW n \in Node, NEW m \in Node, Accepts(n, m)
  PROVE  /\ Fits(Put(hosts[n], m, 0), MaxHosts)
         /\ DOMAIN Put(hosts[n], m, 0) = DOMAIN hosts[n] \cup {m}
         /\ IsListOf(Put(hosts[n], m, 0), Node, Nat)
<1>1. Fits(hosts[n], MaxHosts) /\ MaxHosts \in Nat
  BY HeartbeatsAssumption DEF HostsFit
<1>2. m \in DOMAIN hosts[n] \/ HasRoom(hosts[n], MaxHosts)
  BY DEF Accepts
<1>3. IsListOf(hosts[n], Node, Nat) /\ 0 \in Nat
  BY DEF TypeOK
<1>4. IsListOf(Put(hosts[n], m, 0), Node, Nat)
  BY <1>3, PutType
<1>5. ASSUME NEW e
      PROVE  /\ Fits(Put(hosts[n], m, e), MaxHosts)
             /\ DOMAIN Put(hosts[n], m, e) = DOMAIN hosts[n] \cup {m}
  BY <1>1, <1>2, HostListFits
<1>6. QED
  BY <1>4, <1>5

LEMMA SniffOK ==
  ASSUME IInv, NEW n \in Node, Sniff(n)
  PROVE  IInv'
<1> DEFINE b == Head(queue[n])
           known == DOMAIN hosts[n] \cup {b.src}
<1>1. TypeOK /\ HostsFit /\ DistancesOfHosts /\ KernelAgrees
  BY DEF IInv
<1>2. queue[n] \in Seq(Beat) /\ queue[n] # <<>> /\ queue \in [Node -> Seq(Beat)]
  BY <1>1 DEF TypeOK, Sniff
<1>3. b \in Beat /\ Tail(queue[n]) \in Seq(Beat) /\ <<>> \in Seq(Beat)
  BY <1>2
<1>4. b.src \in Node /\ b.tx \in SUBSET Line /\ b.rx \in SUBSET Row
  BY <1>3 DEF Beat
<1>5. UNCHANGED <<fired, stat, beats, air>>
  BY DEF Sniff
<1>6. queue' \in [Node -> Seq(Beat)]
  BY <1>2, <1>3 DEF Sniff
<1>7. CASE ~Accepts(n, b.src)
  <2>1. /\ UNCHANGED <<hosts, own, heard, table, dist, threshold>>
        /\ sniffing' = [sniffing EXCEPT ![n] = ~GivesUp(n, b.src)]
    BY <1>7 DEF Sniff
  <2>2. sniffing' \in [Node -> BOOLEAN]
    BY <1>1, <2>1 DEF TypeOK, GivesUp
  <2>3. TypeOK'
    BY <1>1, <1>5, <1>6, <2>1, <2>2 DEF TypeOK
  <2>4. QED
    BY <1>1, <2>1, <2>3 DEF IInv, HostsFit, DistancesOfHosts, KernelAgrees, Fits
<1>8. CASE Accepts(n, b.src)
  <2>1. /\ hosts' = [hosts EXCEPT ![n] = Put(hosts[n], b.src, 0)]
        /\ own' = [own EXCEPT ![n] = OwnAfter(n, b)]
        /\ heard' = [heard EXCEPT ![n] = HeardAfter(n, b, known)]
        /\ CalculateDistances(n, known, OwnAfter(n, b), HeardAfter(n, b, known))
        /\ UNCHANGED sniffing
    BY <1>1, <1>8 DEF Sniff, TypeOK
  <2>2. /\ Fits(Put(hosts[n], b.src, 0), MaxHosts)
        /\ DOMAIN Put(hosts[n], b.src, 0) = known
        /\ IsListOf(Put(hosts[n], b.src, 0), Node, Nat)
    BY <1>1, <1>4, <1>8, AcceptFits
  <2>3. known \in SUBSET Node /\ IsFiniteSet(known)
    BY <2>2 DEF IsListOf, Fits
  <2>4. own[n] \in Line /\ own \in [Node -> Line]
    BY <1>1 DEF TypeOK
  <2>5. OwnAfter(n, b) \in Line
    BY <1>4, <2>4 DEF OwnAfter
  <2>6. heard[n] \in [Node -> Heard] /\ heard \in [Node -> [Node -> Heard]]
    BY <1>1 DEF TypeOK
  <2>7. HeardAfter(n, b, known) \in [Node -> Heard]
    <3>1. ASSUME NEW row \in Row
          PROVE  [session |-> row.session, num |-> row.num] \in Heard
      BY DEF Row, Heard
    <3>2. RowsAbout(n, b) # {} => (CHOOSE row \in RowsAbout(n, b) : TRUE) \in Row
      BY <1>4 DEF RowsAbout
    <3>3. QED
      BY <1>4, <2>6, <3>1, <3>2 DEF HeardAfter
  <2> HIDE DEF b, known
  <2>8. /\ own' \in [Node -> Line]
        /\ heard' \in [Node -> [Node -> Heard]]
    BY <2>1, <2>4, <2>5, <2>6, <2>7
  <2>9. /\ table' \in [Node -> [Node -> Row3]]
        /\ threshold' \in [Node -> Nat]
        /\ DOMAIN dist' = Node
        /\ \A m \in Node : m # n => dist'[m] = dist[m] /\ table'[m] = table[m]
        /\ IsListOf(dist'[n], Node, Distance)
        /\ DOMAIN dist'[n] \subseteq DOMAIN dist[n] \cup known
        /\ (\A j \in DOMAIN dist[n] : dist[n][j] = table[n][j][1])
             => \A j \in DOMAIN dist'[n] : dist'[n][j] = table'[n][j][1]
    BY <1>1, <2>1, <2>3, <2>5, <2>7, CalculateOK
  <2>10. /\ DOMAIN hosts' = Node
         /\ hosts'[n] = Put(hosts[n], b.src, 0)
         /\ \A m \in Node : m # n => hosts'[m] = hosts[m]
    BY <1>1, <2>1 DEF TypeOK
  <2>11. \A m \in Node : IsListOf(hosts'[m], Node, Nat)
    BY <1>1, <2>2, <2>10 DEF TypeOK
  <2>12. \A m \in Node : IsListOf(dist'[m], Node, Distance)
    BY <1>1, <2>9 DEF TypeOK
  <2>13. sniffing' \in [Node -> BOOLEAN]
    BY <1>1, <2>1 DEF TypeOK
  <2>14. TypeOK'
    BY <1>1, <1>5, <1>6, <2>8, <2>9, <2>10, <2>11, <2>12, <2>13 DEF TypeOK, Row3
  <2>15. HostsFit'
    BY <1>1, <2>2, <2>10 DEF HostsFit, Fits
  <2>16. DistancesOfHosts'
    <3>1. DOMAIN dist[n] \subseteq DOMAIN hosts[n] /\ DOMAIN hosts[n] \subseteq known
      BY <1>1 DEF DistancesOfHosts, known
    <3>2. QED
      BY <1>1, <2>2, <2>9, <2>10, <3>1 DEF DistancesOfHosts
  <2>17. KernelAgrees'
    BY <1>1, <2>9 DEF KernelAgrees
  <2>18. QED
    BY <2>14, <2>15, <2>16, <2>17 DEF IInv
<1>9. QED
  BY <1>7, <1>8

------------------------------------------------------------------------------
LEMMA NextOK ==
  IInv /\ [Next]_vars => IInv'
<1> SUFFICES ASSUME IInv, [Next]_vars PROVE IInv'
  OBVIOUS
<1>1. CASE UNCHANGED vars
  BY <1>1 DEF vars, kernel, sniffer, IInv, TypeOK, HostsFit, DistancesOfHosts, KernelAgrees, Fits
<1>2. CASE \E n \in Node : SendBeat(n) \/ Sniff(n) \/ SessionTimer(n)
  BY <1>2, SendBeatOK, SniffOK, SessionTimerOK
<1>3. CASE \E f \in air : Hear(f)
  BY <1>3, HearOK
<1>4. QED
  BY <1>1, <1>2, <1>3 DEF Next

LEMMA Invariance ==
  Spec => []IInv
BY InitOK, NextOK, PTL DEF Spec

(* Every variable keeps its type: a distance is a byte whatever the counts  *)
(* are, the -1 of a host that never reported us included.                   *)
THEOREM MeasurementTyped ==
  Spec => []TypeOK
<1>1. IInv => TypeOK
  BY DEF IInv
<1>2. QED
  BY <1>1, Invariance, PTL

(* The kernel's distances are the sniffer's, except those it has forgotten. *)
THEOREM KernelFollows ==
  Spec => []KernelAgrees
<1>1. IInv => KernelAgrees
  BY DEF IInv
<1>2. QED
  BY <1>1, Invariance, PTL

(* The kernel never refuses a distance for lack of room: the sniffer writes *)
(* distances of known hosts only, and knows at most MaxHosts of them.       *)
KernelHasRoom == \A n \in Node : Fits(dist[n], DistanceCapacity)

THEOREM NoDistanceRefused ==
  Spec => []KernelHasRoom
<1>1. ASSUME IInv, NEW n \in Node
      PROVE  Fits(dist[n], DistanceCapacity)
  <2>1. /\ IsFiniteSet(DOMAIN hosts[n]) /\ Cardinality(DOMAIN hosts[n]) <= MaxHosts
        /\ DOMAIN dist[n] \subseteq DOMAIN hosts[n]
    BY <1>1 DEF IInv, HostsFit, Fits, DistancesOfHosts
  <2>2. /\ IsFiniteSet(DOMAIN dist[n])
        /\ Cardinality(DOMAIN dist[n]) <= Cardinality(DOMAIN hosts[n])
    BY <2>1, FS_Subset
  <2>3. /\ Cardinality(DOMAIN dist[n]) \in Nat /\ Cardinality(DOMAIN hosts[n]) \in Nat
        /\ MaxHosts \in Nat /\ DistanceCapacity \in Nat /\ MaxHosts <= DistanceCapacity
    BY <2>1, <2>2, FS_CardinalityType, HeartbeatsAssumption, DistanceListAssumption
  <2>4. QED
    BY <2>1, <2>2, <2>3 DEF Fits
<1>2. IInv => KernelHasRoom
  BY <1>1 DEF KernelHasRoom
<1>3. QED
  BY <1>2, Invariance, PTL

------------------------------------------------------------------------------
(***************************************************************************)
(* The counts that are compared.  CountedOut and CountedIn say of a number *)
(* that it is the history's count of a session that is over: no later step *)
(* can make that wrong, wherever the number is carried.  TxInv and RxInv   *)
(* say it of the kernel's counters, and of the session still being counted *)
(* that nothing of a later one was.  The kernel has room for every node.   *)
(***************************************************************************)
Roomy == IsFiniteSet(Node) /\ Cardinality(Node) < StatCapacity

HistoryOK ==
  /\ sentIn \in [Node -> [0 .. MaxTimer -> Nat]]
  /\ heardIn \in [Node -> [Node -> [0 .. MaxTimer -> Nat]]]
  /\ late \in [Node -> [Node -> BOOLEAN]]

CountedOut(n, k, num) ==
  k # 0 => /\ k \in 0 .. MaxTimer /\ k < fired[n]
           /\ num = sentIn[n][k] % Counts

CountedIn(r, s, k, num) ==
  k # 0 /\ ~late[r][s] =>
    /\ k \in 0 .. MaxTimer
    /\ num = heardIn[r][s][k] % Counts
    /\ \E j \in 0 .. MaxTimer : j > k /\ heardIn[r][s][j] > 0

\* The same of a number that a step has just put there
CountedOutNext(n, k, num) ==
  k # 0 => /\ k \in 0 .. MaxTimer /\ k < fired'[n]
           /\ num = sentIn'[n][k] % Counts

CountedInNext(r, s, k, num) ==
  k # 0 /\ ~late'[r][s] =>
    /\ k \in 0 .. MaxTimer
    /\ num = heardIn'[r][s][k] % Counts
    /\ \E j \in 0 .. MaxTimer : j > k /\ heardIn'[r][s][j] > 0

TxInv(n) ==
  /\ Bcast \notin DOMAIN stat[n] => \A k \in 0 .. MaxTimer : sentIn[n][k] = 0
  /\ Bcast \in DOMAIN stat[n] =>
       LET t == stat[n][Bcast].tx IN
       /\ t.session \in 0 .. fired[n]
       /\ t.num = sentIn[n][t.session] % Counts
       /\ \A k \in 0 .. MaxTimer : k > t.session => sentIn[n][k] = 0
       /\ CountedOut(n, t.lastSession, t.lastNum)

RxInv(r, s) ==
  r # s /\ ~late[r][s] /\ s \in DOMAIN stat[r] =>
    LET x == stat[r][s].rx IN
    /\ x.session \in 0 .. MaxTimer
    /\ x.bcast = heardIn[r][s][x.session] % Counts
    /\ heardIn[r][s][x.session] > 0
    /\ \A k \in 0 .. MaxTimer : k > x.session => heardIn[r][s][k] = 0
    /\ CountedIn(r, s, x.lastSession, x.lastBcast)

BeatInv(b) ==
  /\ b.session \in 0 .. MaxTimer
  /\ \A line \in b.tx : CountedOut(b.src, line.session, line.num)
  /\ \A row \in b.rx : CountedIn(b.src, row.mac, row.session, row.num)

BeatInvNext(b) ==
  /\ b.session \in 0 .. MaxTimer
  /\ \A line \in b.tx : CountedOutNext(b.src, line.session, line.num)
  /\ \A row \in b.rx : CountedInNext(b.src, row.mac, row.session, row.num)

SniffInv(n) ==
  /\ CountedOut(n, own[n].session, own[n].num)
  /\ \A j \in Node \ {n} : CountedIn(j, n, heard[n][j].session, heard[n][j].num)

CountInv ==
  /\ HistoryOK
  /\ \A n \in Node : TxInv(n) /\ SniffInv(n)
  /\ \A r, s \in Node : RxInv(r, s)
  /\ \A f \in air : BeatInv(f.beat)
  /\ \A n \in Node : \A i \in 1 .. Len(queue[n]) : BeatInv(queue[n][i])

LEMMA TimerBound == MaxTimer \in Nat
BY HeartbeatsAssumption

LEMMA SessionIs ==
  ASSUME TypeOK, NEW n \in Node
  PROVE  SessionOf(n) = fired[n] /\ fired[n] \in 0 .. MaxTimer
<1>1. fired[n] \in 0 .. MaxTimer /\ MaxTimer \in 0 .. 254
  BY HeartbeatsAssumption DEF TypeOK
<1>2. \A x \in 0 .. 254 : x % 255 = x
  OBVIOUS
<1>3. QED
  BY <1>1, <1>2 DEF SessionOf

LEMMA RoomFor ==
  ASSUME TypeOK, Roomy, NEW n \in Node, NEW m \in Node \cup {Bcast}, m \notin DOMAIN stat[n]
  PROVE  HasRoom(stat[n], StatCapacity)
<1>1. DOMAIN stat[n] \subseteq (Node \cup {Bcast}) \ {m}
  BY DEF TypeOK, IsListOf
<1>2. IsFiniteSet(Node) /\ Bcast \notin Node /\ Cardinality(Node) \in Nat
  BY HeartbeatsAssumption, FS_CardinalityType DEF Roomy
<1>3. /\ IsFiniteSet(Node \cup {Bcast})
      /\ Cardinality(Node \cup {Bcast}) = Cardinality(Node) + 1
  BY <1>2, FS_AddElement
<1>4. /\ IsFiniteSet((Node \cup {Bcast}) \ {m})
      /\ Cardinality((Node \cup {Bcast}) \ {m}) = Cardinality(Node)
  <2>1. /\ IsFiniteSet((Node \cup {Bcast}) \ {m})
        /\ Cardinality((Node \cup {Bcast}) \ {m}) = Cardinality(Node \cup {Bcast}) - 1
    BY <1>3, FS_RemoveElement
  <2>2. QED
    BY <1>2, <1>3, <2>1
<1>5. IsFiniteSet(DOMAIN stat[n]) /\ Cardinality(DOMAIN stat[n]) <= Cardinality(Node)
  BY <1>1, <1>4, FS_Subset
<1>6. Cardinality(DOMAIN stat[n]) \in Nat /\ StatCapacity \in Nat
  BY <1>5, FS_CardinalityType, StatListAssumption
<1>7. QED
  BY <1>2, <1>5, <1>6 DEF Roomy, HasRoom

(* One more packet in session k *)
LEMMA OneMore ==
  ASSUME NEW c \in [0 .. MaxTimer -> Nat], NEW k \in 0 .. MaxTimer
  PROVE  LET more == [c EXCEPT ![k] = @ + 1] IN
         /\ more \in [0 .. MaxTimer -> Nat]
         /\ more[k] = c[k] + 1
         /\ \A j \in 0 .. MaxTimer : j # k => more[j] = c[j]
<1>1. c[k] \in Nat
  OBVIOUS
<1>2. c[k] + 1 \in Nat
  BY <1>1
<1>3. QED
  BY <1>2

(* What SendBeat and Hear do to the histories *)
LEMMA SendHistory ==
  ASSUME TypeOK, HistoryOK, NEW m \in Node, SendBeat(m)
  PROVE  /\ HistoryOK' /\ UNCHANGED <<fired, heardIn, late, own, heard, queue>>
         /\ sentIn'[m][fired[m]] = sentIn[m][fired[m]] + 1
         /\ \A n \in Node, k \in 0 .. MaxTimer :
              n # m \/ k # fired[m] => sentIn'[n][k] = sentIn[n][k]
<1>1. SessionOf(m) = fired[m] /\ fired[m] \in 0 .. MaxTimer
  BY SessionIs
<1>2. /\ sentIn' = [sentIn EXCEPT ![m][fired[m]] = @ + 1]
      /\ UNCHANGED <<fired, heardIn, late, own, heard, queue>>
  BY <1>1 DEF SendBeat, sniffer
<1>3. /\ sentIn' = [sentIn EXCEPT ![m] = sentIn'[m]]
      /\ sentIn'[m] = [sentIn[m] EXCEPT ![fired[m]] = @ + 1]
      /\ sentIn[m] \in [0 .. MaxTimer -> Nat]
  BY <1>1, <1>2 DEF HistoryOK
<1>4. /\ sentIn'[m] \in [0 .. MaxTimer -> Nat]
      /\ sentIn'[m][fired[m]] = sentIn[m][fired[m]] + 1
      /\ \A k \in 0 .. MaxTimer : k # fired[m] => sentIn'[m][k] = sentIn[m][k]
  BY <1>1, <1>3, OneMore
<1>5. /\ sentIn' \in [Node -> [0 .. MaxTimer -> Nat]]
      /\ \A n \in Node : n # m => sentIn'[n] = sentIn[n]
  BY <1>3, <1>4 DEF HistoryOK
<1>6. HistoryOK'
  BY <1>2, <1>5 DEF HistoryOK
<1>7. QED
  BY <1>2, <1>4, <1>5, <1>6

LEMMA HearHistory ==
  ASSUME TypeOK, HistoryOK, NEW f \in air, BeatInv(f.beat), Hear(f)
  PROVE  /\ HistoryOK' /\ UNCHANGED <<fired, sentIn, own, heard>>
         /\ f.to \in Node /\ f.beat.src \in Node
         /\ \A r, s \in Node : r # f.to \/ s # f.beat.src \/ r = s =>
              heardIn'[r][s] = heardIn[r][s] /\ late'[r][s] = late[r][s]
         /\ f.to # f.beat.src =>
              /\ heardIn'[f.to][f.beat.src] =
                   [heardIn[f.to][f.beat.src] EXCEPT ![f.beat.session] = @ + 1]
              /\ late'[f.to][f.beat.src] =
                   (late[f.to][f.beat.src] \/ Overtaken(f.to, f.beat.src, f.beat.session))
<1>1. f.to \in Node /\ f.beat.src \in Node /\ f.beat.session \in 0 .. MaxTimer
  BY DEF TypeOK, Frame, Beat, BeatInv
<1>2. UNCHANGED <<fired, sentIn, own, heard>>
  BY DEF Hear, sniffer
<1>3. CASE f.to = f.beat.src
  <2>1. UNCHANGED <<heardIn, late>>
    BY <1>3 DEF Hear
  <2>2. QED
    BY <1>1, <1>2, <1>3, <2>1 DEF HistoryOK
<1>4. CASE f.to # f.beat.src
  <2> DEFINE r == f.to  s == f.beat.src  k == f.beat.session
  <2>1. /\ heardIn' = [heardIn EXCEPT ![r][s][k] = @ + 1]
        /\ late' = [late EXCEPT ![r][s] = @ \/ Overtaken(r, s, k)]
    BY <1>4 DEF Hear
  <2>2. Overtaken(r, s, k) \in BOOLEAN
    BY DEF Overtaken
  <2> HIDE DEF r, s, k
  <2>3. r \in Node /\ s \in Node /\ k \in 0 .. MaxTimer
    BY <1>1 DEF r, s, k
  <2>4. heardIn' \in [Node -> [Node -> [0 .. MaxTimer -> Nat]]]
    <3>1. /\ heardIn' = [heardIn EXCEPT ![r] = [heardIn[r] EXCEPT ![s] =
                            [heardIn[r][s] EXCEPT ![k] = heardIn[r][s][k] + 1]]]
          /\ heardIn[r] \in [Node -> [0 .. MaxTimer -> Nat]]
          /\ heardIn[r][s] \in [0 .. MaxTimer -> Nat]
      BY <2>1, <2>3 DEF HistoryOK
    <3>2. [heardIn[r][s] EXCEPT ![k] = heardIn[r][s][k] + 1] \in [0 .. MaxTimer -> Nat]
      BY <2>3, <3>1, OneMore
    <3>3. [heardIn[r] EXCEPT ![s] = [heardIn[r][s] EXCEPT ![k] = heardIn[r][s][k] + 1]]
            \in [Node -> [0 .. MaxTimer -> Nat]]
      BY <2>3, <3>1, <3>2
    <3>4. QED
      BY <2>3, <3>1, <3>3 DEF HistoryOK
  <2>5. late' \in [Node -> [Node -> BOOLEAN]]
    <3>1. (late[r][s] \/ Overtaken(r, s, k)) \in BOOLEAN
      BY <2>2, <2>3 DEF HistoryOK
    <3>2. QED
      BY <2>1, <2>3, <3>1, Zenon DEF HistoryOK
  <2>6. /\ heardIn'[r][s] = [heardIn[r][s] EXCEPT ![k] = @ + 1]
        /\ late'[r][s] = (late[r][s] \/ Overtaken(r, s, k))
        /\ \A a, b \in Node : a # r \/ b # s => heardIn'[a][b] = heardIn[a][b]
    BY <2>1, <2>3 DEF HistoryOK
  <2>7. \A a, b \in Node : a # r \/ b # s => late'[a][b] = late[a][b]
    BY <2>1, <2>3 DEF HistoryOK
  <2>8. HistoryOK'
    BY <1>2, <2>4, <2>5 DEF HistoryOK
  <2>9. QED
    BY <1>1, <1>2, <1>4, <2>6, <2>7, <2>8 DEF r, s, k
<1>5. QED
  BY <1>3, <1>4

(* A number that counts a session that is over stays right.                 *)
LEMMA OutStable ==
  ASSUME TypeOK, HistoryOK, NEW n \in Node, NEW k, NEW num, CountedOut(n, k, num),
         \/ \E m \in Node : SendBeat(m)
         \/ \E m \in Node : SessionTimer(m)
         \/ UNCHANGED <<fired, sentIn>>
  PROVE  CountedOut(n, k, num)'
<1>1. CASE UNCHANGED <<fired, sentIn>>
  BY <1>1 DEF CountedOut
<1>2. ASSUME NEW m \in Node, SendBeat(m)
      PROVE  CountedOut(n, k, num)'
  <2>1. /\ UNCHANGED fired
        /\ \A j \in 0 .. MaxTimer : n # m \/ j # fired[m] => sentIn'[n][j] = sentIn[n][j]
    BY <1>2, SendHistory
  <2>2. fired[n] \in 0 .. MaxTimer /\ MaxTimer \in 0 .. 254
    BY SessionIs, HeartbeatsAssumption
  <2>3. QED
    BY <2>1, <2>2 DEF CountedOut
<1>3. ASSUME NEW m \in Node, SessionTimer(m)
      PROVE  CountedOut(n, k, num)'
  <2>1. UNCHANGED sentIn /\ fired' = [fired EXCEPT ![m] = @ + 1]
    BY <1>3 DEF SessionTimer, history
  <2>2. fired \in [Node -> 0 .. MaxTimer] /\ MaxTimer \in Nat
    BY TimerBound DEF TypeOK
  <2>3. fired[n] \in Nat /\ fired'[n] \in Nat /\ fired'[n] >= fired[n]
    BY <2>1, <2>2
  <2>4. QED
    BY <2>1, <2>2, <2>3 DEF CountedOut
<1>4. QED
  BY <1>1, <1>2, <1>3

LEMMA InStable ==
  ASSUME TypeOK, HistoryOK, NEW r \in Node, NEW s \in Node, NEW k, NEW num,
         CountedIn(r, s, k, num),
         \/ \E f \in air : BeatInv(f.beat) /\ Hear(f)
         \/ UNCHANGED <<heardIn, late>>
  PROVE  CountedIn(r, s, k, num)'
<1>1. CASE UNCHANGED <<heardIn, late>>
  BY <1>1 DEF CountedIn
<1>2. ASSUME NEW f \in air, BeatInv(f.beat), Hear(f)
      PROVE  CountedIn(r, s, k, num)'
  <2>1. CASE r # f.to \/ s # f.beat.src \/ r = s
    <3>1. heardIn'[r][s] = heardIn[r][s] /\ late'[r][s] = late[r][s]
      BY <1>2, <2>1, HearHistory
    <3>2. QED
      BY <3>1 DEF CountedIn
  <2>2. CASE r = f.to /\ s = f.beat.src /\ r # s
    <3> DEFINE new == f.beat.session
    <3>1. /\ heardIn'[r][s] = [heardIn[r][s] EXCEPT ![new] = @ + 1]
          /\ late'[r][s] = (late[r][s] \/ Overtaken(r, s, new))
      BY <1>2, <2>2, HearHistory
    <3>2. new \in 0 .. MaxTimer /\ heardIn[r][s] \in [0 .. MaxTimer -> Nat]
      BY <1>2 DEF BeatInv, HistoryOK
    <3> HIDE DEF new
    <3> SUFFICES ASSUME k # 0, ~late'[r][s]
                 PROVE  /\ k \in 0 .. MaxTimer
                        /\ num = heardIn'[r][s][k] % Counts
                        /\ \E j \in 0 .. MaxTimer : j > k /\ heardIn'[r][s][j] > 0
      BY DEF CountedIn
    <3>3. ~late[r][s] /\ ~Overtaken(r, s, new)
      BY <3>1
    <3>4. /\ k \in 0 .. MaxTimer /\ num = heardIn[r][s][k] % Counts
          /\ \E j \in 0 .. MaxTimer : j > k /\ heardIn[r][s][j] > 0
      BY <3>3 DEF CountedIn
    <3>5. PICK j \in 0 .. MaxTimer : j > k /\ heardIn[r][s][j] > 0
      BY <3>4
    <3>6. new # k
      BY <3>3, <3>5 DEF Overtaken
    <3>7. heardIn'[r][s][k] = heardIn[r][s][k] /\ heardIn'[r][s][j] > 0
      <4>1. heardIn[r][s][j] \in Nat
        BY <3>2, <3>5
      <4>2. QED
        BY <3>1, <3>2, <3>4, <3>5, <3>6, <4>1
    <3>8. QED
      BY <3>4, <3>5, <3>7
  <2>3. QED
    BY <2>1, <2>2
<1>3. QED
  BY <1>1, <1>2

(* A counter that wraps counts modulo its width.                            *)
LEMMA Divides ==
  ASSUME NEW x \in Nat
  PROVE  /\ x \div Counts \in Nat /\ x % Counts \in 0 .. Counts - 1
         /\ x = Counts * (x \div Counts) + (x % Counts)
BY StatListAssumption

LEMMA Remainder ==
  ASSUME NEW q \in Nat, NEW r \in 0 .. Counts - 1
  PROVE  (Counts * q + r) % Counts = r
BY StatListAssumption

LEMMA BumpCounts ==
  ASSUME NEW x \in Nat
  PROVE  Bump(x % Counts, 1) = (x + 1) % Counts
<1> DEFINE q == x \div Counts  r == x % Counts
<1>1. q \in Nat /\ r \in 0 .. Counts - 1 /\ x = Counts * q + r /\ Counts \in Nat \ {0, 1}
  BY Divides, StatListAssumption
<1> HIDE DEF q, r
<1>2. CASE r + 1 \in 0 .. Counts - 1
  <2>1. x + 1 = Counts * q + (r + 1) /\ r + 1 = Counts * 0 + (r + 1)
    BY <1>1
  <2>2. (x + 1) % Counts = r + 1 /\ (r + 1) % Counts = r + 1
    BY <1>2, <1>1, <2>1, Remainder
  <2>3. QED
    BY <2>2 DEF Bump, r
<1>3. CASE r + 1 = Counts
  <2>1. x + 1 = Counts * (q + 1) + 0 /\ r + 1 = Counts * 1 + 0
    BY <1>1, <1>3
  <2>2. 0 \in 0 .. Counts - 1 /\ q + 1 \in Nat /\ 1 \in Nat
    BY <1>1
  <2>3. (x + 1) % Counts = 0 /\ (r + 1) % Counts = 0
    BY <2>1, <2>2, Remainder
  <2>4. QED
    BY <2>3 DEF Bump, r
<1>4. QED
  BY <1>1, <1>2, <1>3

LEMMA OneCounts == 1 % Counts = 1 /\ 0 % Counts = 0
<1>1. 1 = Counts * 0 + 1 /\ 0 = Counts * 0 + 0 /\ 0 \in 0 .. Counts - 1 /\ 1 \in 0 .. Counts - 1
  BY StatListAssumption
<1>2. QED
  BY <1>1, Remainder

------------------------------------------------------------------------------
(* The kernel's counters after one more packet                              *)

LEMMA TxAfter ==
  ASSUME TypeOK, Roomy, NEW n \in Node, NEW k
  PROVE  LET L == StatTx(stat[n], Bcast, k) IN
         /\ DOMAIN L = DOMAIN stat[n] \cup {Bcast}
         /\ \A m \in DOMAIN stat[n] \ {Bcast} : L[m] = stat[n][m]
         /\ L[Bcast].tx = CountOut(IF Bcast \in DOMAIN stat[n] THEN stat[n][Bcast].tx
                                   ELSE [NoTally EXCEPT !.session = k], k)
<1>1. Bcast \notin Ignored
  BY StatListAssumption
<1>2. CASE Bcast \in DOMAIN stat[n]
  <2>1. StatTx(stat[n], Bcast, k) = Put(stat[n], Bcast, Transmitted(stat[n][Bcast], k))
    BY <1>1, <1>2 DEF StatTx
  <2>2. stat[n][Bcast] \in StatEntry
    BY <1>2 DEF TypeOK, IsListOf
  <2>3. Transmitted(stat[n][Bcast], k).tx = CountOut(stat[n][Bcast].tx, k)
    BY <2>2 DEF Transmitted, StatEntry
  <2>4. QED
    BY <1>2, <2>1, <2>3 DEF Put
<1>3. CASE Bcast \notin DOMAIN stat[n]
  <2>1. HasRoom(stat[n], StatCapacity)
    BY <1>3, RoomFor
  <2>2. StatTx(stat[n], Bcast, k) = Put(stat[n], Bcast, Transmitted(NewTx(k), k))
    BY <1>1, <1>3, <2>1 DEF StatTx
  <2>3. Transmitted(NewTx(k), k).tx = CountOut([NoTally EXCEPT !.session = k], k)
    BY DEF Transmitted, NewTx, BlankEntry
  <2>4. QED
    BY <1>3, <2>2, <2>3 DEF Put
<1>4. QED
  BY <1>2, <1>3

\* The counters a packet of session k of s is added to
RxOld(r, s, k) ==
  IF s \in DOMAIN stat[r] THEN stat[r][s].rx ELSE [NoRx EXCEPT !.session = k]

LEMMA RxAfter ==
  ASSUME TypeOK, Roomy, NEW n \in Node, NEW m \in Node, NEW k \in Nat
  PROVE  LET L == StatRx(stat[n], m, k, Bcast) IN
         /\ DOMAIN L = DOMAIN stat[n] \cup {m}
         /\ \A j \in DOMAIN stat[n] \ {m} : L[j] = stat[n][j]
         /\ L[m].rx = CountRx(RxOld(n, m, k), k, TRUE)
<1>1. {m, Bcast} \cap Ignored = {}
  BY StatListAssumption, HeartbeatsAssumption
<1>2. CASE m \in DOMAIN stat[n]
  <2>1. StatRx(stat[n], m, k, Bcast) = Put(stat[n], m, Received(stat[n][m], k, TRUE))
    BY <1>1, <1>2 DEF StatRx
  <2>2. stat[n][m] \in StatEntry
    BY <1>2 DEF TypeOK, IsListOf
  <2>3. Received(stat[n][m], k, TRUE).rx = CountRx(stat[n][m].rx, k, TRUE)
    BY <2>2 DEF Received, StatEntry
  <2>4. QED
    BY <1>2, <2>1, <2>3 DEF Put, RxOld
<1>3. CASE m \notin DOMAIN stat[n]
  <2>1. HasRoom(stat[n], StatCapacity)
    BY <1>3, RoomFor
  <2>2. StatRx(stat[n], m, k, Bcast) = Put(stat[n], m, Received(NewRx(k), k, TRUE))
    BY <1>1, <1>3, <2>1 DEF StatRx
  <2>3. Received(NewRx(k), k, TRUE).rx = CountRx([NoRx EXCEPT !.session = k], k, TRUE)
    BY DEF Received, NewRx, BlankEntry
  <2>4. QED
    BY <1>3, <2>2, <2>3 DEF Put, RxOld
<1>4. QED
  BY <1>2, <1>3

LEMMA CountOutIs ==
  ASSUME NEW t \in Tally, NEW k \in Nat, t.session <= k
  PROVE  /\ k > t.session => CountOut(t, k) =
              [session |-> k, num |-> 1, lastSession |-> t.session, lastNum |-> t.num]
         /\ k = t.session => CountOut(t, k) = [t EXCEPT !.num = Bump(t.num, 1)]
<1>1. t.session \in Nat /\ ~SessionWrapped(t.session, k)
  BY DEF Tally, SessionWrapped
<1>2. CASE k > t.session
  BY <1>1, <1>2 DEF CountOut
<1>3. CASE k = t.session
  BY <1>1, <1>3 DEF CountOut
<1>4. QED
  BY <1>1, <1>2, <1>3

LEMMA CountRxIs ==
  ASSUME NEW x \in RxTally, NEW k \in Nat, x.session <= k
  PROVE  LET y == CountRx(x, k, TRUE) IN
         /\ k > x.session => y.session = k /\ y.bcast = 1
                             /\ y.lastSession = x.session /\ y.lastBcast = x.bcast
         /\ k = x.session => y = [x EXCEPT !.num = Bump(x.num, 0), !.bcast = Bump(x.bcast, 1)]
<1>1. x.session \in Nat /\ ~SessionWrapped(x.session, k)
  BY DEF RxTally, SessionWrapped
<1>2. CASE k > x.session
  BY <1>1, <1>2 DEF CountRx
<1>3. CASE k = x.session
  BY <1>1, <1>3 DEF CountRx
<1>4. QED
  BY <1>1, <1>2, <1>3

------------------------------------------------------------------------------
(* The invariant of the counts, conjunct by conjunct                        *)

LEMMA CountInit ==
  Init => CountInv
<1> SUFFICES ASSUME Init PROVE CountInv
  OBVIOUS
<1>1. HistoryOK
  BY DEF Init, HistoryOK
<1>2. ASSUME NEW n \in Node
      PROVE  TxInv(n)
  <2>1. stat[n] = EmptyList /\ DOMAIN EmptyList = {}
    BY DEF Init, EmptyList
  <2>2. QED
    BY <2>1 DEF TxInv, Init
<1>3. ASSUME NEW n \in Node
      PROVE  SniffInv(n)
  <2>1. own[n].session = 0 /\ \A j \in Node : heard[n][j].session = 0
    BY DEF Init, NoLine, NeverHeard
  <2>2. QED
    BY <2>1 DEF SniffInv, CountedOut, CountedIn
<1>4. ASSUME NEW r \in Node, NEW s \in Node
      PROVE  RxInv(r, s)
  <2>1. DOMAIN stat[r] = {}
    BY DEF Init, EmptyList
  <2>2. QED
    BY <2>1 DEF RxInv
<1>5. \A n \in Node : Len(queue[n]) = 0
  BY DEF Init
<1>6. QED
  BY <1>1, <1>2, <1>3, <1>4, <1>5 DEF CountInv, Init

(* Whatever the step, a number that was right stays right.                  *)
LEMMA NumbersStable ==
  ASSUME TypeOK, CountInv, [Next]_vars
  PROVE  /\ \A n \in Node : \A k, num : CountedOut(n, k, num) => CountedOutNext(n, k, num)
         /\ \A r, s \in Node : \A k, num :
              CountedIn(r, s, k, num) => CountedInNext(r, s, k, num)
<1>1. HistoryOK /\ \A f \in air : BeatInv(f.beat)
  BY SMTT(30) DEF CountInv
<1>2. \/ \E m \in Node : SendBeat(m)
      \/ \E m \in Node : SessionTimer(m)
      \/ UNCHANGED <<fired, sentIn>>
  BY DEF Next, vars, Sniff, Hear, history, kernel
<1>3. \/ \E f \in air : BeatInv(f.beat) /\ Hear(f)
      \/ UNCHANGED <<heardIn, late>>
  BY <1>1 DEF Next, vars, Sniff, SendBeat, SessionTimer, history
<1>4. ASSUME NEW n \in Node, NEW k, NEW num, CountedOut(n, k, num)
      PROVE  CountedOutNext(n, k, num)
  <2>1. CountedOut(n, k, num)'
    BY <1>1, <1>2, <1>4, OutStable
  <2>2. QED
    BY <2>1 DEF CountedOut, CountedOutNext
<1>5. ASSUME NEW r \in Node, NEW s \in Node, NEW k, NEW num, CountedIn(r, s, k, num)
      PROVE  CountedInNext(r, s, k, num)
  <2>1. CountedIn(r, s, k, num)'
    BY <1>1, <1>3, <1>5, InStable
  <2>2. QED
    BY <2>1 DEF CountedIn, CountedInNext
<1>6. QED
  BY <1>4, <1>5

LEMMA BeatStable ==
  ASSUME TypeOK, CountInv, [Next]_vars, NEW b \in Beat, BeatInv(b)
  PROVE  BeatInvNext(b)
<1>1. b.src \in Node /\ b.tx \in SUBSET Line /\ b.rx \in SUBSET Row
  BY DEF Beat
<1>2. ASSUME NEW line \in b.tx
      PROVE  CountedOutNext(b.src, line.session, line.num)
  BY <1>1, NumbersStable DEF BeatInv
<1>3. ASSUME NEW row \in b.rx
      PROVE  CountedInNext(b.src, row.mac, row.session, row.num)
  <2>1. row.mac \in Node
    BY <1>1 DEF Row
  <2>2. QED
    BY <1>1, <2>1, NumbersStable DEF BeatInv
<1>4. QED
  BY <1>2, <1>3 DEF BeatInv, BeatInvNext

LEMMA HistoryStep ==
  ASSUME TypeOK, CountInv, [Next]_vars
  PROVE  HistoryOK'
<1>1. HistoryOK /\ \A f \in air : BeatInv(f.beat)
  BY DEF CountInv
<1>2. CASE \E n \in Node : SendBeat(n)
  BY <1>1, <1>2, SendHistory
<1>3. CASE \E f \in air : Hear(f)
  BY <1>1, <1>3, HearHistory
<1>4. CASE UNCHANGED history
  BY <1>1, <1>4 DEF HistoryOK, history
<1>5. QED
  BY <1>2, <1>3, <1>4 DEF Next, vars, Sniff, SessionTimer

(* The transmit counter of the broadcast entry                              *)
LEMMA TxSend ==
  ASSUME TypeOK, Roomy, CountInv, NEW n \in Node, SendBeat(n), TxInv(n),
         \A k, num : CountedOut(n, k, num) => CountedOutNext(n, k, num)
  PROVE  TxInv(n)'
<1> DEFINE k == fired[n]  t == stat[n][Bcast].tx
<1>1. SessionOf(n) = k /\ k \in 0 .. MaxTimer /\ k \in Nat /\ MaxTimer \in Nat
  BY SessionIs, TimerBound
<1>2. /\ HistoryOK /\ HistoryOK' /\ fired' = fired
      /\ sentIn'[n][k] = sentIn[n][k] + 1
      /\ \A j \in 0 .. MaxTimer : j # k => sentIn'[n][j] = sentIn[n][j]
  BY SendHistory DEF CountInv
<1>3. sentIn[n] \in [0 .. MaxTimer -> Nat]
  BY <1>2 DEF HistoryOK
<1>4. stat'[n] = StatTx(stat[n], Bcast, k)
  BY <1>1 DEF SendBeat, TypeOK
<1>5. CASE Bcast \notin DOMAIN stat[n]
  <2>1. \A j \in 0 .. MaxTimer : sentIn[n][j] = 0
    BY <1>5 DEF TxInv
  <2>2. [NoTally EXCEPT !.session = k] \in Tally /\ [NoTally EXCEPT !.session = k].session = k
    BY <1>1, CountWraps DEF NoTally, Tally
  <2>3. CountOut([NoTally EXCEPT !.session = k], k) =
          [session |-> k, num |-> Bump(0, 1), lastSession |-> 0, lastNum |-> 0]
    BY <1>1, <2>2, CountOutIs DEF NoTally
  <2>4. /\ Bcast \in DOMAIN stat'[n]
        /\ stat'[n][Bcast].tx = [session |-> k, num |-> Bump(0, 1), lastSession |-> 0, lastNum |-> 0]
    <3>1. LET L == StatTx(stat[n], Bcast, k) IN
          /\ DOMAIN L = DOMAIN stat[n] \cup {Bcast}
          /\ L[Bcast].tx = CountOut(IF Bcast \in DOMAIN stat[n] THEN stat[n][Bcast].tx
                                    ELSE [NoTally EXCEPT !.session = k], k)
      BY TxAfter
    <3>2. QED
      BY <1>4, <1>5, <2>3, <3>1
  <2>5. Bump(0, 1) = sentIn'[n][k] % Counts
    <3>1. sentIn'[n][k] = 1 /\ Bump(0, 1) = 1 % Counts
      BY <1>1, <1>2, <2>1 DEF Bump
    <3>2. QED
      BY <3>1
  <2>6. \A j \in 0 .. MaxTimer : j > k => sentIn'[n][j] = 0
    BY <1>1, <1>2, <2>1
  <2>7. CountedOut(n, 0, 0)'
    BY DEF CountedOut
  <2>8. QED
    BY <1>1, <1>2, <2>4, <2>5, <2>6, <2>7 DEF TxInv
<1>6. CASE Bcast \in DOMAIN stat[n]
  <2>1. /\ t.session \in 0 .. k /\ t.num = sentIn[n][t.session] % Counts
        /\ \A j \in 0 .. MaxTimer : j > t.session => sentIn[n][j] = 0
        /\ CountedOut(n, t.lastSession, t.lastNum)
    BY <1>6 DEF TxInv
  <2>2. t \in Tally
    BY <1>6 DEF TypeOK, IsListOf, StatEntry
  <2>3. Bcast \in DOMAIN stat'[n] /\ stat'[n][Bcast].tx = CountOut(t, k)
    <3>1. LET L == StatTx(stat[n], Bcast, k) IN
          /\ DOMAIN L = DOMAIN stat[n] \cup {Bcast}
          /\ L[Bcast].tx = CountOut(IF Bcast \in DOMAIN stat[n] THEN stat[n][Bcast].tx
                                    ELSE [NoTally EXCEPT !.session = k], k)
      BY TxAfter
    <3>2. QED
      BY <1>4, <1>6, <3>1
  <2> HIDE DEF t, k
  <2>4. \A j \in 0 .. MaxTimer : j > k => sentIn'[n][j] = 0
    <3>1. ASSUME NEW j \in 0 .. MaxTimer, j > k
          PROVE  j > t.session /\ j # k
      BY <1>1, <2>1, <3>1
    <3>2. QED
      BY <1>2, <2>1, <3>1
  <2>5. CASE k > t.session
    <3>1. CountOut(t, k) =
            [session |-> k, num |-> 1, lastSession |-> t.session, lastNum |-> t.num]
      BY <1>1, <2>1, <2>2, <2>5, CountOutIs
    <3>2. sentIn[n][k] = 0 /\ sentIn'[n][k] = 1
      BY <1>1, <1>2, <2>1, <2>5
    <3>3. CountedOut(n, t.session, t.num)
      BY <1>1, <2>1, <2>5 DEF CountedOut, k
    <3>4. CountedOutNext(n, t.session, t.num)
      BY <3>3
    <3>5. 1 = sentIn'[n][k] % Counts
      BY <3>2, OneCounts
    <3>6. k \in 0 .. fired'[n]
      BY <1>1, <1>2 DEF k
    <3>7. QED
      BY <2>3, <2>4, <3>1, <3>4, <3>5, <3>6 DEF TxInv, CountedOut, CountedOutNext
  <2>6. CASE k = t.session
    <3>1. CountOut(t, k) = [t EXCEPT !.num = Bump(t.num, 1)]
      BY <1>1, <2>1, <2>2, <2>6, CountOutIs
    <3>2. sentIn[n][k] \in Nat
      BY <1>1, <1>3
    <3>3. Bump(t.num, 1) = sentIn'[n][k] % Counts
      BY <1>2, <2>1, <2>6, <3>2, BumpCounts
    <3>4. CountedOutNext(n, t.lastSession, t.lastNum)
      BY <2>1
    <3>5. k \in 0 .. fired'[n]
      BY <1>1, <1>2 DEF k
    <3>6. /\ CountOut(t, k).session = k /\ CountOut(t, k).num = Bump(t.num, 1)
          /\ CountOut(t, k).lastSession = t.lastSession /\ CountOut(t, k).lastNum = t.lastNum
      BY <2>2, <2>6, <3>1 DEF Tally
    <3>7. QED
      BY <2>3, <2>4, <3>3, <3>4, <3>5, <3>6 DEF TxInv, CountedOut, CountedOutNext
  <2>7. QED
    BY <1>1, <2>1, <2>5, <2>6
<1>7. QED
  BY <1>5, <1>6

(* The timer ages entries and forgets one, but never the broadcasts' own.   *)
LEMMA TimerKeeps ==
  ASSUME TypeOK, NEW n \in Node, SessionTimer(n)
  PROVE  /\ (Bcast \in DOMAIN stat'[n]) <=> (Bcast \in DOMAIN stat[n])
         /\ DOMAIN stat'[n] \subseteq DOMAIN stat[n]
         /\ \A m \in DOMAIN stat'[n] :
              stat'[n][m].tx = stat[n][m].tx /\ stat'[n][m].rx = stat[n][m].rx
<1>1. \A m \in DOMAIN stat[n] : stat[n][m] \in StatEntry
  BY DEF TypeOK, IsListOf
<1>2. /\ DOMAIN Aged(stat[n]) = DOMAIN stat[n]
      /\ \A m \in DOMAIN stat[n] :
           Aged(stat[n])[m].tx = stat[n][m].tx /\ Aged(stat[n])[m].rx = stat[n][m].rx
  BY <1>1 DEF Aged, StatEntry
<1>3. \/ stat'[n] = Aged(stat[n])
      \/ \E m \in Expired(stat[n]) : stat'[n] = Drop(Aged(stat[n]), m)
  BY DEF SessionTimer, TypeOK
<1>4. CASE stat'[n] = Aged(stat[n])
  BY <1>2, <1>4
<1>5. ASSUME NEW m \in Expired(stat[n]), stat'[n] = Drop(Aged(stat[n]), m)
      PROVE  /\ (Bcast \in DOMAIN stat'[n]) <=> (Bcast \in DOMAIN stat[n])
             /\ DOMAIN stat'[n] \subseteq DOMAIN stat[n]
             /\ \A j \in DOMAIN stat'[n] :
                  stat'[n][j].tx = stat[n][j].tx /\ stat'[n][j].rx = stat[n][j].rx
  <2>1. m # Bcast
    BY <1>5 DEF Expired
  <2>2. /\ DOMAIN stat'[n] = DOMAIN stat[n] \ {m}
        /\ \A j \in DOMAIN stat'[n] : stat'[n][j] = Aged(stat[n])[j]
    BY <1>2, <1>5 DEF Drop
  <2>3. QED
    BY <1>2, <2>1, <2>2
<1>6. QED
  BY <1>3, <1>4, <1>5

(* A step that keeps what was sent and what the list holds for an address   *)
LEMMA TxKept ==
  ASSUME TypeOK, CountInv, [Next]_vars, NEW n \in Node,
         \A k \in 0 .. MaxTimer : sentIn'[n][k] = sentIn[n][k],
         fired'[n] \in Nat, fired'[n] >= fired[n],
         (Bcast \in DOMAIN stat'[n]) <=> (Bcast \in DOMAIN stat[n]),
         Bcast \in DOMAIN stat[n] => stat'[n][Bcast].tx = stat[n][Bcast].tx
  PROVE  TxInv(n)'
<1>1. TxInv(n) /\ fired[n] \in Nat /\ fired[n] <= MaxTimer /\ MaxTimer \in Nat
  <2>1. fired[n] \in 0 .. MaxTimer
    BY SessionIs
  <2>2. QED
    BY <2>1, TimerBound DEF CountInv
<1>2. CASE Bcast \notin DOMAIN stat[n]
  BY <1>1, <1>2 DEF TxInv
<1>3. CASE Bcast \in DOMAIN stat[n]
  <2> DEFINE t == stat[n][Bcast].tx
  <2>1. /\ t.session \in 0 .. fired[n] /\ t.num = sentIn[n][t.session] % Counts
        /\ \A k \in 0 .. MaxTimer : k > t.session => sentIn[n][k] = 0
        /\ CountedOut(n, t.lastSession, t.lastNum)
    BY <1>1, <1>3 DEF TxInv
  <2>2. CountedOutNext(n, t.lastSession, t.lastNum)
    BY <2>1, NumbersStable
  <2>3. stat'[n][Bcast].tx = t /\ Bcast \in DOMAIN stat'[n]
    BY <1>3
  <2> HIDE DEF t
  <2>4. t.session \in 0 .. fired'[n] /\ t.session \in 0 .. MaxTimer
    BY <1>1, <2>1
  <2>5. QED
    BY <2>1, <2>2, <2>3, <2>4 DEF TxInv, CountedOut, CountedOutNext
<1>4. QED
  BY <1>2, <1>3

LEMMA TxStep ==
  ASSUME TypeOK, Roomy, CountInv, [Next]_vars, NEW n \in Node
  PROVE  TxInv(n)'
<1>1. /\ HistoryOK /\ TxInv(n) /\ \A f \in air : BeatInv(f.beat)
      /\ fired[n] \in Nat
  <2>1. fired[n] \in 0 .. MaxTimer
    BY SessionIs
  <2>2. QED
    BY <2>1, TimerBound DEF CountInv
<1>2. ASSUME SendBeat(n)
      PROVE  TxInv(n)'
  BY <1>1, <1>2, TxSend, NumbersStable
<1>3. ASSUME NEW m \in Node, m # n, SendBeat(m)
      PROVE  TxInv(n)'
  <2>1. stat'[n] = stat[n]
    BY <1>3 DEF SendBeat, TypeOK
  <2>2. UNCHANGED fired /\ HistoryOK' /\ \A k \in 0 .. MaxTimer : sentIn'[n][k] = sentIn[n][k]
    BY <1>1, <1>3, SendHistory
  <2>3. QED
    BY <1>1, <2>1, <2>2, TxKept
<1>4. ASSUME NEW f \in air, Hear(f)
      PROVE  TxInv(n)'
  <2>1. UNCHANGED <<fired, sentIn>> /\ f.to \in Node /\ f.beat.src \in Node
    BY <1>1, <1>4, HearHistory
  <2>2. f.beat.src # Bcast
    BY <2>1, HeartbeatsAssumption
  <2>3. stat' = [stat EXCEPT ![f.to] = StatRx(stat[f.to], f.beat.src, f.beat.session, Bcast)]
    BY <1>4, <2>1 DEF Hear, TypeOK
  <2>4. /\ (Bcast \in DOMAIN stat'[n]) <=> (Bcast \in DOMAIN stat[n])
        /\ Bcast \in DOMAIN stat[n] => stat'[n][Bcast] = stat[n][Bcast]
    <3>1. CASE n # f.to
      BY <2>1, <2>3, <3>1 DEF TypeOK
    <3>2. CASE n = f.to
      <4>1. LET L == StatRx(stat[n], f.beat.src, f.beat.session, Bcast) IN
            /\ DOMAIN L = DOMAIN stat[n] \cup {f.beat.src}
            /\ \A j \in DOMAIN stat[n] \ {f.beat.src} : L[j] = stat[n][j]
        <5> DEFINE src == f.beat.src  k == f.beat.session
        <5>1. src \in Node /\ k \in Nat
          BY <2>1, <1>1, TimerBound DEF BeatInv
        <5> HIDE DEF src, k
        <5>2. LET L == StatRx(stat[n], src, k, Bcast) IN
              /\ DOMAIN L = DOMAIN stat[n] \cup {src}
              /\ \A j \in DOMAIN stat[n] \ {src} : L[j] = stat[n][j]
          BY <5>1, RxAfter
        <5>3. QED
          BY <5>2 DEF src, k
      <4>2. stat'[n] = StatRx(stat[n], f.beat.src, f.beat.session, Bcast)
        BY <2>1, <2>3, <3>2 DEF TypeOK
      <4>3. QED
        BY <2>2, <4>1, <4>2
    <3>3. QED
      BY <3>1, <3>2
  <2>5. QED
    BY <1>1, <2>1, <2>4, TxKept
<1>5. ASSUME NEW m \in Node, SessionTimer(m)
      PROVE  TxInv(n)'
  <2>1. UNCHANGED sentIn /\ fired' = [fired EXCEPT ![m] = @ + 1]
    BY <1>5 DEF SessionTimer, history
  <2>2. fired \in [Node -> 0 .. MaxTimer]
    BY DEF TypeOK
  <2>3. fired'[n] \in Nat /\ fired'[n] >= fired[n]
    BY <1>1, <2>1, <2>2, TimerBound
  <2>4. /\ (Bcast \in DOMAIN stat'[n]) <=> (Bcast \in DOMAIN stat[n])
        /\ Bcast \in DOMAIN stat[n] => stat'[n][Bcast].tx = stat[n][Bcast].tx
    <3>1. CASE n # m
      BY <1>5, <3>1 DEF SessionTimer, TypeOK
    <3>2. CASE n = m
      BY <1>5, <3>2, TimerKeeps, HeartbeatsAssumption
    <3>3. QED
      BY <3>1, <3>2
  <2>5. QED
    BY <2>1, <2>3, <2>4, TxKept
<1>6. ASSUME UNCHANGED <<fired, stat, sentIn>>
      PROVE  TxInv(n)'
  BY <1>1, <1>6, TxKept
<1>7. QED
  BY <1>2, <1>3, <1>4, <1>5, <1>6 DEF Next, vars, kernel, Sniff, history

(* The reception counters of another node                                   *)
LEMMA RxKept ==
  ASSUME TypeOK, CountInv, [Next]_vars, NEW r \in Node, NEW s \in Node,
         heardIn'[r][s] = heardIn[r][s], late'[r][s] = late[r][s],
         s \in DOMAIN stat'[r] => s \in DOMAIN stat[r] /\ stat'[r][s].rx = stat[r][s].rx
  PROVE  RxInv(r, s)'
<1> SUFFICES ASSUME r # s, ~late[r][s], s \in DOMAIN stat'[r]
             PROVE  RxInv(r, s)'
  BY DEF RxInv
<1> DEFINE x == stat[r][s].rx
<1>1. /\ x.session \in 0 .. MaxTimer
      /\ x.bcast = heardIn[r][s][x.session] % Counts
      /\ heardIn[r][s][x.session] > 0
      /\ \A k \in 0 .. MaxTimer : k > x.session => heardIn[r][s][k] = 0
      /\ CountedIn(r, s, x.lastSession, x.lastBcast)
  BY DEF CountInv, RxInv
<1>2. CountedInNext(r, s, x.lastSession, x.lastBcast)
  BY <1>1, NumbersStable
<1>3. stat'[r][s].rx = x
  OBVIOUS
<1> HIDE DEF x
<1>4. QED
  BY <1>1, <1>2, <1>3 DEF RxInv, CountedIn, CountedInNext

LEMMA RxHear ==
  ASSUME TypeOK, Roomy, CountInv, [Next]_vars, NEW f \in air, Hear(f),
         NEW r \in Node, NEW s \in Node, r = f.to, s = f.beat.src, r # s
  PROVE  RxInv(r, s)'
<1> DEFINE k == f.beat.session
           old == RxOld(r, s, k)
<1>1. BeatInv(f.beat) /\ HistoryOK
  BY DEF CountInv
<1>2. k \in 0 .. MaxTimer /\ k \in Nat /\ MaxTimer \in Nat
  BY <1>1, TimerBound DEF BeatInv
<1>3. heardIn[r][s] \in [0 .. MaxTimer -> Nat]
  BY <1>1 DEF HistoryOK
<1>4. /\ heardIn'[r][s] = [heardIn[r][s] EXCEPT ![k] = @ + 1]
      /\ late'[r][s] = (late[r][s] \/ Overtaken(r, s, k))
  BY <1>1, HearHistory
<1>5. s \in DOMAIN stat'[r] /\ stat'[r][s].rx = CountRx(old, k, TRUE)
  <2>1. stat' = [stat EXCEPT ![r] = StatRx(stat[r], s, k, Bcast)]
    BY DEF Hear
  <2>2. stat'[r] = StatRx(stat[r], s, k, Bcast)
    BY <2>1 DEF TypeOK
  <2> HIDE DEF k
  <2>3. LET L == StatRx(stat[r], s, k, Bcast) IN
        /\ DOMAIN L = DOMAIN stat[r] \cup {s}
        /\ \A j \in DOMAIN stat[r] \ {s} : L[j] = stat[r][j]
        /\ L[s].rx = CountRx(RxOld(r, s, k), k, TRUE)
    <3>1. k \in Nat
      BY <1>2
    <3>2. QED
      BY <3>1, RxAfter, ZenonT(60)
  <2>4. QED
    BY <2>2, <2>3
<1>6. old \in RxTally
  <2>1. s \in DOMAIN stat[r] => stat[r][s].rx \in RxTally
    BY DEF TypeOK, IsListOf, StatEntry
  <2>2. [NoRx EXCEPT !.session = k] \in RxTally
    BY <1>2, CountWraps DEF NoRx, RxTally
  <2>3. QED
    BY <2>1, <2>2 DEF RxOld
<1> SUFFICES ASSUME ~late'[r][s]
             PROVE  RxInv(r, s)'
  BY DEF RxInv
<1>7. ~late[r][s] /\ ~Overtaken(r, s, k)
  BY <1>4
<1>8. /\ heardIn'[r][s] \in [0 .. MaxTimer -> Nat]
      /\ heardIn'[r][s][k] = heardIn[r][s][k] + 1
      /\ \A j \in 0 .. MaxTimer : j # k => heardIn'[r][s][j] = heardIn[r][s][j]
      /\ heardIn[r][s][k] \in Nat
  <2> HIDE DEF k
  <2>1. heardIn'[r][s] = [heardIn[r][s] EXCEPT ![k] = @ + 1] /\ k \in 0 .. MaxTimer
    BY <1>2, <1>4
  <2>2. heardIn[r][s][k] \in Nat
    BY <1>2, <1>3
  <2>3. LET more == [heardIn[r][s] EXCEPT ![k] = @ + 1] IN
        /\ more \in [0 .. MaxTimer -> Nat]
        /\ more[k] = heardIn[r][s][k] + 1
        /\ \A j \in 0 .. MaxTimer : j # k => more[j] = heardIn[r][s][j]
    BY <1>3, <2>1, OneMore
  <2>4. QED
    BY <2>1, <2>2, <2>3
<1>9. \A j \in 0 .. MaxTimer : j > k => heardIn'[r][s][j] = 0
  <2>1. ASSUME NEW j \in 0 .. MaxTimer, j > k
        PROVE  heardIn'[r][s][j] = 0
    <3>1. ~(heardIn[r][s][j] > 0) /\ heardIn[r][s][j] \in Nat
      BY <1>3, <1>7, <2>1 DEF Overtaken
    <3>2. j # k
      BY <1>2, <2>1
    <3>3. QED
      BY <1>8, <2>1, <3>1, <3>2
  <2>2. QED
    BY <2>1
<1>10. old.session <= k
       /\ (s \in DOMAIN stat[r] =>
             /\ old.session \in 0 .. MaxTimer
             /\ old.bcast = heardIn[r][s][old.session] % Counts
             /\ heardIn[r][s][old.session] > 0
             /\ \A j \in 0 .. MaxTimer : j > old.session => heardIn[r][s][j] = 0
             /\ CountedIn(r, s, old.lastSession, old.lastBcast))
       /\ (s \notin DOMAIN stat[r] =>
             old.session = k /\ old.bcast = 0 /\ old.lastSession = 0 /\ heardIn[r][s][k] = 0)
  <2>1. CASE s \in DOMAIN stat[r]
    <3>1. /\ old.session \in 0 .. MaxTimer
          /\ old.bcast = heardIn[r][s][old.session] % Counts
          /\ heardIn[r][s][old.session] > 0
          /\ \A j \in 0 .. MaxTimer : j > old.session => heardIn[r][s][j] = 0
          /\ CountedIn(r, s, old.lastSession, old.lastBcast)
      BY <1>7, <2>1 DEF CountInv, RxInv, RxOld
    <3> HIDE DEF old, k
    <3>2. ~(old.session > k)
      BY <1>7, <3>1 DEF Overtaken
    <3>3. QED
      BY <1>2, <2>1, <3>1, <3>2, SMTT(30)
  <2>2. CASE s \notin DOMAIN stat[r]
    <3>1. ~(heardIn[r][s][k] > 0)
      BY <1>7, <2>2 DEF Overtaken
    <3>2. old.session = k /\ old.bcast = 0 /\ old.lastSession = 0
      BY <2>2 DEF NoRx, RxOld
    <3> HIDE DEF old, k
    <3>3. QED
      BY <1>2, <1>8, <2>2, <3>1, <3>2
  <2>3. QED
    BY <2>1, <2>2
<1> DEFINE y == CountRx(old, k, TRUE)
<1>11. stat'[r][s].rx = y
  BY <1>5, SMTT(30)
<1>12. LET z == CountRx(old, k, TRUE) IN
       /\ k > old.session => z.session = k /\ z.bcast = 1
                             /\ z.lastSession = old.session /\ z.lastBcast = old.bcast
       /\ k = old.session => z = [old EXCEPT !.num = Bump(old.num, 0),
                                             !.bcast = Bump(old.bcast, 1)]
  <2> HIDE DEF old, k
  <2>1. QED
    BY <1>2, <1>6, <1>10, CountRxIs
<1> HIDE DEF old, k
<1>13. CASE k > old.session
  <2>1. s \in DOMAIN stat[r]
    BY <1>2, <1>10, <1>13
  <2>0. /\ old.session \in 0 .. MaxTimer
        /\ heardIn[r][s][old.session] > 0
        /\ \A j \in 0 .. MaxTimer : j > old.session => heardIn[r][s][j] = 0
    BY <1>10, <2>1
  <2>2. heardIn[r][s][k] = 0 /\ heardIn'[r][s][k] = 1
    BY <1>2, <1>8, <1>13, <2>0
  <2>3. y.session = k /\ y.bcast = 1 /\ y.lastSession = old.session /\ y.lastBcast = old.bcast
    BY <1>12, <1>13
  <2>4. heardIn'[r][s][old.session] = heardIn[r][s][old.session]
    <3>1. old.session # k
      BY <1>2, <1>13, <2>0
    <3>2. QED
      BY <1>8, <2>0, <3>1
  <2>5. CountedInNext(r, s, old.session, old.bcast)
    <3>1. old.bcast = heardIn'[r][s][old.session] % Counts
      BY <1>10, <2>1, <2>4
    <3>2. heardIn'[r][s][k] > 0
      BY <2>2
    <3>3. old.session \in 0 .. MaxTimer /\ k \in 0 .. MaxTimer /\ k > old.session
      BY <1>2, <1>13, <2>0
    <3>4. QED
      BY <3>1, <3>2, <3>3 DEF CountedInNext
  <2>6. y.bcast = heardIn'[r][s][k] % Counts
    BY <2>2, <2>3, OneCounts
  <2> HIDE DEF y
  <2>7. QED
    BY <1>2, <1>9, <1>11, <2>2, <2>3, <2>5, <2>6 DEF RxInv, CountedIn, CountedInNext
<1>14. CASE k = old.session
  <2>1. y = [old EXCEPT !.num = Bump(old.num, 0), !.bcast = Bump(old.bcast, 1)]
    BY <1>12, <1>14
  <2>2. /\ y.session = k /\ y.bcast = Bump(old.bcast, 1)
        /\ y.lastSession = old.lastSession /\ y.lastBcast = old.lastBcast
    BY <1>6, <1>14, <2>1 DEF RxTally
  <2>3. old.bcast = heardIn[r][s][k] % Counts
    <3>1. CASE s \in DOMAIN stat[r]
      BY <1>10, <1>14, <3>1
    <3>2. CASE s \notin DOMAIN stat[r]
      BY <1>10, <3>2, OneCounts, SMTT(30)
    <3>3. QED
      BY <3>1, <3>2
  <2>4. y.bcast = heardIn'[r][s][k] % Counts
    BY <1>8, <2>2, <2>3, BumpCounts
  <2>5. heardIn'[r][s][k] > 0
    BY <1>8
  <2>6. CountedInNext(r, s, old.lastSession, old.lastBcast)
    <3>1. CountedIn(r, s, old.lastSession, old.lastBcast)
      BY <1>10 DEF CountedIn
    <3>2. QED
      BY <3>1, NumbersStable
  <2> HIDE DEF y
  <2>7. QED
    BY <1>2, <1>9, <1>11, <2>2, <2>4, <2>5, <2>6 DEF RxInv, CountedIn, CountedInNext
<1>15. QED
  BY <1>2, <1>6, <1>10, <1>13, <1>14 DEF RxTally

LEMMA RxStep ==
  ASSUME TypeOK, Roomy, CountInv, [Next]_vars, NEW r \in Node, NEW s \in Node
  PROVE  RxInv(r, s)'
<1> SUFFICES ASSUME r # s PROVE RxInv(r, s)'
  BY DEF RxInv
<1>1. HistoryOK /\ s # Bcast /\ \A f \in air : BeatInv(f.beat)
  BY HeartbeatsAssumption DEF CountInv
<1>2. ASSUME NEW m \in Node, SendBeat(m)
      PROVE  RxInv(r, s)'
  <2>1. UNCHANGED <<heardIn, late>>
    BY <1>1, <1>2, SendHistory
  <2>2. stat' = [stat EXCEPT ![m] = StatTx(stat[m], Bcast, SessionOf(m))]
    BY <1>2 DEF SendBeat, TypeOK
  <2>3. CASE m # r
    <3>1. stat'[r] = stat[r]
      BY <2>2, <2>3 DEF TypeOK
    <3>2. QED
      BY <2>1, <3>1, RxKept
  <2>4. CASE m = r
    <3>1. stat'[r] = StatTx(stat[r], Bcast, SessionOf(r))
      BY <2>2, <2>4 DEF TypeOK
    <3>2. LET L == StatTx(stat[r], Bcast, SessionOf(r)) IN
          /\ DOMAIN L = DOMAIN stat[r] \cup {Bcast}
          /\ \A j \in DOMAIN stat[r] \ {Bcast} : L[j] = stat[r][j]
      BY TxAfter
    <3>3. s \in DOMAIN stat'[r] => s \in DOMAIN stat[r] /\ stat'[r][s] = stat[r][s]
      BY <1>1, <3>1, <3>2
    <3>4. QED
      BY <2>1, <3>3, RxKept
  <2>5. QED
    BY <2>3, <2>4
<1>3. ASSUME NEW f \in air, Hear(f)
      PROVE  RxInv(r, s)'
  <2>1. CASE r = f.to /\ s = f.beat.src
    BY <1>3, <2>1, RxHear
  <2>2. CASE r # f.to \/ s # f.beat.src
    <3>1. /\ heardIn'[r][s] = heardIn[r][s] /\ late'[r][s] = late[r][s]
          /\ f.to \in Node /\ f.beat.src \in Node
      BY <1>1, <1>3, <2>2, HearHistory, ZenonT(60)
    <3>2. stat' = [stat EXCEPT ![f.to] = StatRx(stat[f.to], f.beat.src, f.beat.session, Bcast)]
      BY <1>3 DEF Hear
    <3>3. s \in DOMAIN stat'[r] => s \in DOMAIN stat[r] /\ stat'[r][s] = stat[r][s]
      <4>1. CASE r # f.to
        BY <3>1, <3>2, <4>1 DEF TypeOK
      <4>2. CASE r = f.to
        <5> DEFINE src == f.beat.src  k == f.beat.session
        <5>1. stat'[r] = StatRx(stat[r], src, k, Bcast) /\ src # s
          BY <2>2, <3>1, <3>2, <4>2 DEF TypeOK
        <5>2. src \in Node /\ k \in Nat
          BY <1>1, <3>1, TimerBound DEF BeatInv
        <5> HIDE DEF src, k
        <5>3. LET L == StatRx(stat[r], src, k, Bcast) IN
              /\ DOMAIN L = DOMAIN stat[r] \cup {src}
              /\ \A j \in DOMAIN stat[r] \ {src} : L[j] = stat[r][j]
          BY <5>2, RxAfter
        <5>4. QED
          BY <5>1, <5>3
      <4>3. QED
        BY <4>1, <4>2
    <3>4. QED
      BY <3>1, <3>3, RxKept
  <2>3. QED
    BY <2>1, <2>2
<1>4. ASSUME NEW m \in Node, SessionTimer(m)
      PROVE  RxInv(r, s)'
  <2>1. UNCHANGED <<heardIn, late>>
    BY <1>4 DEF SessionTimer, history
  <2>2. s \in DOMAIN stat'[r] => s \in DOMAIN stat[r] /\ stat'[r][s].rx = stat[r][s].rx
    <3>1. CASE m # r
      BY <1>4, <3>1 DEF SessionTimer, TypeOK
    <3>2. CASE m = r
      BY <1>4, <3>2, TimerKeeps
    <3>3. QED
      BY <3>1, <3>2
  <2>3. QED
    BY <2>1, <2>2, RxKept
<1>5. ASSUME UNCHANGED <<stat, heardIn, late>>
      PROVE  RxInv(r, s)'
  BY <1>5, RxKept
<1>6. QED
  BY <1>2, <1>3, <1>4, <1>5 DEF Next, vars, kernel, Sniff, history

------------------------------------------------------------------------------
(* Heartbeats carry the kernel's counters to the sniffers.                  *)

LEMMA NewBeatOK ==
  ASSUME TypeOK, CountInv, NEW n \in Node
  PROVE  BeatInv(NewBeat(n))
<1>1. SessionOf(n) \in 0 .. MaxTimer
  BY SessionIs
<1>2. ASSUME Bcast \in DOMAIN stat[n]
      PROVE  CountedOut(n, stat[n][Bcast].tx.lastSession, stat[n][Bcast].tx.lastNum)
  BY <1>2 DEF CountInv, TxInv
<1>3. ASSUME NEW m \in DOMAIN stat[n] \ {n, Bcast}
      PROVE  CountedIn(n, m, stat[n][m].rx.lastSession, stat[n][m].rx.lastBcast)
  <2>1. m \in Node /\ m # n
    BY <1>3 DEF TypeOK, IsListOf
  <2>2. RxInv(n, m)
    BY <2>1 DEF CountInv
  <2>3. QED
    BY <1>3, <2>1, <2>2 DEF RxInv, CountedIn
<1>4. \A line \in NewBeat(n).tx : CountedOut(n, line.session, line.num)
  BY <1>2 DEF NewBeat, TxLine
<1>5. \A row \in NewBeat(n).rx : CountedIn(n, row.mac, row.session, row.num)
  BY <1>3 DEF NewBeat, RxRow
<1>6. NewBeat(n).src = n /\ NewBeat(n).session = SessionOf(n)
  BY SMTT(30) DEF NewBeat
<1>7. QED
  BY <1>1, <1>4, <1>5, <1>6 DEF BeatInv

LEMMA AirStep ==
  ASSUME TypeOK, CountInv, [Next]_vars, NEW f \in air'
  PROVE  BeatInvNext(f.beat)
<1>1. ASSUME f \in air
      PROVE  BeatInvNext(f.beat)
  <2>1. f.beat \in Beat /\ BeatInv(f.beat)
    BY <1>1 DEF TypeOK, Frame, CountInv
  <2>2. QED
    BY <2>1, BeatStable
<1>2. ASSUME NEW n \in Node, SendBeat(n), f \notin air
      PROVE  BeatInvNext(f.beat)
  <2>1. f.beat = NewBeat(n)
    BY <1>2 DEF SendBeat
  <2>2. f.beat \in Beat /\ BeatInv(f.beat)
    BY <2>1, NewBeatOK, NewBeatType
  <2>3. QED
    BY <2>2, BeatStable
<1>3. QED
  BY <1>1, <1>2 DEF Next, vars, Hear, Sniff, SessionTimer

LEMMA QueueStep ==
  ASSUME TypeOK, CountInv, [Next]_vars, NEW n \in Node, NEW i \in 1 .. Len(queue'[n])
  PROVE  BeatInvNext(queue'[n][i])
<1>1. queue[n] \in Seq(Beat) /\ queue \in [Node -> Seq(Beat)]
  BY DEF TypeOK
<1>2. ASSUME NEW j \in 1 .. Len(queue[n]), queue'[n][i] = queue[n][j]
      PROVE  BeatInvNext(queue'[n][i])
  <2>1. queue[n][j] \in Beat /\ BeatInv(queue[n][j])
    BY <1>1, <1>2 DEF CountInv
  <2>2. QED
    BY <1>2, <2>1, BeatStable
<1>3. ASSUME NEW f \in air, Hear(f)
      PROVE  BeatInvNext(queue'[n][i])
  <2>1. f.beat \in Beat /\ BeatInv(f.beat) /\ f.to \in Node
    BY <1>3 DEF TypeOK, Frame, CountInv
  <2>2. queue'[n] = queue[n] \/ queue'[n] = Append(queue[n], f.beat)
    BY <1>1, <1>3, <2>1 DEF Hear
  <2>3. CASE queue'[n][i] = f.beat
    BY <2>1, <2>3, BeatStable
  <2>4. CASE i \in 1 .. Len(queue[n]) /\ queue'[n][i] = queue[n][i]
    BY <1>2, <2>4
  <2> DEFINE q == queue[n]
             q1 == queue'[n]
             b == f.beat
  <2>5. q \in Seq(Beat) /\ b \in Beat /\ i \in 1 .. Len(q1)
    BY <1>1, <2>1
  <2>6. q1 = q \/ q1 = Append(q, b)
    BY <2>2
  <2> HIDE DEF q, q1, b
  <2>7. q1[i] = b \/ (i \in 1 .. Len(q) /\ q1[i] = q[i])
    <3>1. CASE q1 = q
      BY <2>5, <3>1
    <3>2. CASE q1 = Append(q, b)
      <4>1. Len(q1) = Len(q) + 1 /\ Len(q) \in Nat
        BY <2>5, <3>2
      <4>2. i \in 1 .. Len(q) \/ i = Len(q) + 1
        BY <2>5, <4>1
      <4>3. QED
        BY <2>5, <3>2, <4>2
    <3>3. QED
      BY <2>6, <3>1, <3>2
  <2>8. QED
    BY <2>3, <2>4, <2>7 DEF q, q1, b
<1>4. ASSUME NEW m \in Node, Sniff(m)
      PROVE  BeatInvNext(queue'[n][i])
  <2>1. \/ queue'[n] = queue[n]
        \/ queue[n] # <<>> /\ queue'[n] = Tail(queue[n])
        \/ queue'[n] = <<>>
    BY <1>1, <1>4 DEF Sniff
  <2>2. CASE queue'[n] = queue[n]
    BY <1>2, <2>2
  <2>3. CASE queue[n] # <<>> /\ queue'[n] = Tail(queue[n])
    <3>1. i + 1 \in 1 .. Len(queue[n]) /\ queue'[n][i] = queue[n][i + 1]
      BY <1>1, <2>3
    <3>2. QED
      BY <1>2, <3>1
  <2>4. CASE queue'[n] = <<>>
    BY <2>4
  <2>5. QED
    BY <2>1, <2>2, <2>3, <2>4
<1>5. ASSUME UNCHANGED queue
      PROVE  BeatInvNext(queue'[n][i])
  BY <1>2, <1>5, SMTT(30)
<1>6. QED
  BY <1>3, <1>4, <1>5 DEF Next, vars, SendBeat, SessionTimer

(* The sniffer keeps its own number, or takes one from a heartbeat.         *)
LEMMA OwnStep ==
  ASSUME TypeOK, CountInv, [Next]_vars, NEW n \in Node
  PROVE  CountedOutNext(n, own'[n].session, own'[n].num)
<1>1. CASE own'[n] = own[n]
  <2>1. CountedOut(n, own[n].session, own[n].num)
    BY DEF CountInv, SniffInv
  <2>2. CountedOutNext(n, own[n].session, own[n].num)
    BY <2>1, NumbersStable
  <2>3. QED
    BY <1>1, <2>2
<1>2. ASSUME NEW m \in Node, Sniff(m), own'[n] # own[n]
      PROVE  CountedOutNext(n, own'[n].session, own'[n].num)
  <2> DEFINE b == Head(queue[m])
  <2>1. own' = [own EXCEPT ![m] = OwnAfter(m, b)] /\ queue[m] # <<>>
    BY <1>2 DEF Sniff
  <2>2. b \in Beat /\ BeatInv(b)
    <3>1. queue[m] \in Seq(Beat)
      BY DEF TypeOK
    <3>2. 1 \in 1 .. Len(queue[m]) /\ b = queue[m][1] /\ b \in Beat
      BY <2>1, <3>1
    <3>3. QED
      BY <3>2 DEF CountInv
  <2>3. own \in [Node -> Line]
    BY DEF TypeOK
  <2> HIDE DEF b
  <2>4. m = n /\ own'[n] = OwnAfter(n, b)
    BY <1>2, <2>1, <2>3
  <2>5. b.src = n /\ own'[n] \in b.tx
    BY <1>2, <2>4 DEF OwnAfter
  <2>6. BeatInvNext(b)
    BY <2>2, BeatStable, SMTT(30)
  <2>7. QED
    BY <2>5, <2>6 DEF BeatInvNext
<1>3. QED
  BY <1>1, <1>2 DEF Next, vars, sniffer, SendBeat, Hear, SessionTimer

LEMMA HeardStep ==
  ASSUME TypeOK, CountInv, [Next]_vars, NEW n \in Node, NEW j \in Node \ {n}
  PROVE  CountedInNext(j, n, heard'[n][j].session, heard'[n][j].num)
<1>1. CASE heard'[n][j] = heard[n][j]
  <2>1. CountedIn(j, n, heard[n][j].session, heard[n][j].num)
    BY DEF CountInv, SniffInv
  <2>2. CountedInNext(j, n, heard[n][j].session, heard[n][j].num)
    BY <2>1, NumbersStable
  <2>3. QED
    BY <1>1, <2>2
<1>2. ASSUME NEW m \in Node, Sniff(m), heard'[n][j] # heard[n][j]
      PROVE  CountedInNext(j, n, heard'[n][j].session, heard'[n][j].num)
  <2> DEFINE b == Head(queue[m])
             known == DOMAIN hosts[m] \cup {b.src}
  <2>1. heard' = [heard EXCEPT ![m] = HeardAfter(m, b, known)] /\ queue[m] # <<>>
    BY <1>2 DEF Sniff
  <2>2. b \in Beat /\ BeatInv(b)
    <3>1. queue[m] \in Seq(Beat)
      BY DEF TypeOK
    <3>2. 1 \in 1 .. Len(queue[m]) /\ b = queue[m][1] /\ b \in Beat
      BY <2>1, <3>1
    <3>3. QED
      BY <3>2 DEF CountInv
  <2>3. heard \in [Node -> [Node -> Heard]]
    BY DEF TypeOK
  <2> HIDE DEF b, known
  <2>4. m = n /\ heard'[n] = HeardAfter(n, b, known)
    BY <1>2, <2>1, <2>3
  <2>5. PICK row \in RowsAbout(n, b) :
          /\ j = b.src
          /\ heard'[n][j] = [session |-> row.session, num |-> row.num]
    <3>1. n \in known /\ RowsAbout(n, b) # {}
      BY <1>2, <2>4 DEF HeardAfter
    <3>2. PICK row \in RowsAbout(n, b) :
            heard'[n] = [heard[n] EXCEPT ![b.src] =
                           [session |-> row.session, num |-> row.num]]
      BY <2>4, <3>1 DEF HeardAfter
    <3>3. heard[n] \in [Node -> Heard]
      BY <2>3
    <3>4. QED
      BY <1>2, <3>2, <3>3
  <2>6. row \in b.rx /\ row.mac = n
    BY DEF RowsAbout
  <2>7. BeatInvNext(b)
    BY <2>2, BeatStable
  <2>8. CountedInNext(j, n, row.session, row.num)
    BY <2>5, <2>6, <2>7 DEF BeatInvNext
  <2>9. QED
    BY <2>5, <2>8
<1>3. QED
  BY <1>1, <1>2 DEF Next, vars, sniffer, SendBeat, Hear, SessionTimer

LEMMA CountStep ==
  ASSUME TypeOK, Roomy, CountInv, [Next]_vars
  PROVE  CountInv'
<1>1. HistoryOK'
  BY HistoryStep
<1>2. ASSUME NEW n \in Node
      PROVE  TxInv(n)'
  BY TxStep
<1>3. ASSUME NEW n \in Node
      PROVE  SniffInv(n)'
  <2>1. CountedOutNext(n, own'[n].session, own'[n].num)
    BY OwnStep
  <2>2. \A j \in Node \ {n} : CountedInNext(j, n, heard'[n][j].session, heard'[n][j].num)
    BY HeardStep
  <2>3. QED
    BY <2>1, <2>2 DEF SniffInv, CountedOut, CountedIn, CountedOutNext, CountedInNext
<1>4. ASSUME NEW r \in Node, NEW s \in Node
      PROVE  RxInv(r, s)'
  BY RxStep
<1>5. ASSUME NEW f \in air'
      PROVE  BeatInvNext(f.beat)
  BY <1>5, AirStep
<1>6. ASSUME NEW n \in Node, NEW i \in 1 .. Len(queue'[n])
      PROVE  BeatInvNext(queue'[n][i])
  BY <1>6, QueueStep
<1>7. \A f \in air' : BeatInv(f.beat)'
  BY <1>5 DEF BeatInv, BeatInvNext, CountedOut, CountedIn, CountedOutNext, CountedInNext
<1>8. \A n \in Node : \A i \in 1 .. Len(queue'[n]) : BeatInv(queue[n][i])'
  BY <1>6 DEF BeatInv, BeatInvNext, CountedOut, CountedIn, CountedOutNext, CountedInNext
<1>9. QED
  BY <1>1, <1>2, <1>3, <1>4, <1>7, <1>8 DEF CountInv

(* Two counts the sniffer compares count the same packets: the broadcasts   *)
(* it sent in a session, and the copies of them the other node heard, as    *)
(* long as that node heard the sessions in order.  For every mesh smaller   *)
(* than the kernel's list of statistics, which then refuses nobody.         *)
THEOREM CountsOfSamePackets ==
  ASSUME Roomy
  PROVE  Spec => []CountsMatch
<1>1. IInv /\ CountInv => CountsMatch
  <2> SUFFICES ASSUME IInv, CountInv, NEW n \in Node,
                      NEW j \in Comparable(n, DOMAIN hosts[n], own[n], heard[n]),
                      own[n].session # 0, ~late[j][n]
               PROVE  /\ own[n].num = sentIn[n][own[n].session] % Counts
                      /\ heard[n][j].num = heardIn[j][n][own[n].session] % Counts
    BY DEF CountsMatch
  <2>1. DOMAIN hosts[n] \subseteq Node
    BY DEF IInv, TypeOK, IsListOf
  <2>2. j \in Node \ {n} /\ heard[n][j].session = own[n].session
    BY <2>1 DEF Comparable
  <2>3. SniffInv(n)
    BY DEF CountInv
  <2>4. QED
    BY <2>2, <2>3 DEF SniffInv, CountedOut, CountedIn
<1>2. CountInv /\ IInv /\ [Next]_vars => CountInv'
  BY CountStep DEF IInv
<1>3. Spec => []CountInv
  BY <1>2, CountInit, Invariance, PTL DEF Spec
<1>4. QED
  BY <1>1, <1>3, Invariance, PTL
------------------------------------------------------------------------------
(***************************************************************************)
(* Distance 0.  A node hears at most MaxCopies of a packet, so that of the *)
(* packets of one session it counts at most MaxCopies times those sent:    *)
(* what it heard and what is on its way to it together.  The quotient then *)
(* is at least 1 as long as MaxCopies is at most 100, and no counter of    *)
(* transmissions wraps within a session.                                   *)
(***************************************************************************)
FewCopies == MaxCopies <= 100 /\ \A n \in Node : MaxBeats[n] < Counts

AirOf(r, s, k) == {f \in air : f.to = r /\ f.beat.src = s /\ f.beat.session = k}

CopyInv(r, s, k) ==
  /\ IsFiniteSet(AirOf(r, s, k))
  /\ r # s => heardIn[r][s][k] + Cardinality(AirOf(r, s, k)) <= MaxCopies * sentIn[s][k]

SentInv(n) ==
  /\ beats[n] <= MaxBeats[n]
  /\ \A k \in 0 .. MaxTimer : sentIn[n][k] <= beats[n]

CopiesInv ==
  /\ \A n \in Node : SentInv(n)
  /\ \A r, s \in Node : \A k \in 0 .. MaxTimer : CopyInv(r, s, k)

LEMMA CopyBounds == MaxCopies \in Nat /\ \A n \in Node : MaxBeats[n] \in Nat
BY HeartbeatsAssumption

LEMMA Product ==
  ASSUME NEW c \in Nat, NEW x \in Nat
  PROVE  c * x \in Nat /\ c * (x + 1) = c * x + c
OBVIOUS

LEMMA HistoryValues ==
  ASSUME HistoryOK, NEW r \in Node, NEW s \in Node, NEW k \in 0 .. MaxTimer
  PROVE  sentIn[s][k] \in Nat /\ heardIn[r][s][k] \in Nat
<1>1. sentIn[s] \in [0 .. MaxTimer -> Nat] /\ heardIn[r][s] \in [0 .. MaxTimer -> Nat]
  BY DEF HistoryOK
<1>2. QED
  BY <1>1

LEMMA CopiesInit ==
  Init => CopiesInv
<1> SUFFICES ASSUME Init PROVE CopiesInv
  OBVIOUS
<1>1. MaxCopies \in Nat /\ \A n \in Node : MaxBeats[n] \in Nat
  BY HeartbeatsAssumption
<1>2. ASSUME NEW n \in Node
      PROVE  SentInv(n)
  BY <1>1 DEF Init, SentInv
<1>3. ASSUME NEW r \in Node, NEW s \in Node, NEW k \in 0 .. MaxTimer
      PROVE  CopyInv(r, s, k)
  <2>1. AirOf(r, s, k) = {} /\ heardIn[r][s][k] = 0 /\ sentIn[s][k] = 0
    BY DEF Init, AirOf
  <2>2. IsFiniteSet(AirOf(r, s, k)) /\ Cardinality(AirOf(r, s, k)) = 0
    BY <2>1, FS_EmptySet
  <2>3. QED
    BY <1>1, <2>1, <2>2 DEF CopyInv
<1>4. QED
  BY <1>2, <1>3 DEF CopiesInv

(* No copy is heard and none is added: nothing changes but, at most, that a *)
(* packet was sent.                                                         *)
LEMMA CopyKept ==
  ASSUME HistoryOK, HistoryOK', CopiesInv,
         NEW r \in Node, NEW s \in Node, NEW k \in 0 .. MaxTimer,
         AirOf(r, s, k)' = AirOf(r, s, k), heardIn'[r][s][k] = heardIn[r][s][k],
         sentIn'[s][k] >= sentIn[s][k]
  PROVE  CopyInv(r, s, k)'
<1> DEFINE a == Cardinality(AirOf(r, s, k))
<1>1. CopyInv(r, s, k) /\ IsFiniteSet(AirOf(r, s, k))
  BY DEF CopiesInv, CopyInv
<1>2. /\ MaxCopies \in Nat /\ sentIn[s][k] \in Nat /\ sentIn'[s][k] \in Nat
      /\ heardIn[r][s][k] \in Nat /\ a \in Nat
  <2>1. a \in Nat
    BY <1>1, FS_CardinalityType
  <2>2. sentIn'[s] \in [0 .. MaxTimer -> Nat]
    BY DEF HistoryOK
  <2> HIDE DEF a
  <2>3. QED
    BY <2>1, <2>2, CopyBounds, HistoryValues
<1>3. ASSUME NEW c \in Nat, NEW x \in Nat, NEW y \in Nat, y >= x
      PROVE  c * x \in Nat /\ c * y \in Nat /\ c * x <= c * y
  <2>1. c * y = c * x + c * (y - x) /\ c * x \in Nat /\ c * (y - x) \in Nat
    BY <1>3
  <2>2. QED
    BY <2>1
<1>4. MaxCopies * sentIn[s][k] \in Nat /\ MaxCopies * sentIn'[s][k] \in Nat
      /\ MaxCopies * sentIn[s][k] <= MaxCopies * sentIn'[s][k]
  BY <1>2, <1>3
<1>5. r # s => heardIn[r][s][k] + a <= MaxCopies * sentIn[s][k]
  BY <1>1 DEF CopyInv
<1>6. Cardinality(AirOf(r, s, k))' = a
  OBVIOUS
<1> HIDE DEF a
<1>7. r # s => heardIn'[r][s][k] + a <= MaxCopies * sentIn'[s][k]
  BY <1>2, <1>4, <1>5
<1>8. QED
  BY <1>1, <1>6, <1>7 DEF CopyInv

(* A heartbeat puts at most MaxCopies copies on the way to a node.          *)
LEMMA FewNew ==
  ASSUME NEW r \in Node, NEW b, NEW copies \in SUBSET ((1 .. MaxCopies) \X Node)
  PROVE  LET new == {f \in {[beat |-> b, to |-> c[2], copy |-> c[1]] : c \in copies} : f.to = r}
         IN  IsFiniteSet(new) /\ Cardinality(new) <= MaxCopies
<1> DEFINE new == {f \in {[beat |-> b, to |-> c[2], copy |-> c[1]] : c \in copies} : f.to = r}
           number == [f \in new |-> f.copy]
<1>1. MaxCopies \in Nat
  BY HeartbeatsAssumption
<1>2. /\ IsFiniteSet(1 .. MaxCopies)
      /\ Cardinality(1 .. MaxCopies) = MaxCopies
  <2>1. 1 \in Int /\ MaxCopies \in Int
    BY <1>1
  <2>2. /\ IsFiniteSet(1 .. MaxCopies)
        /\ Cardinality(1 .. MaxCopies) = IF 1 > MaxCopies THEN 0 ELSE MaxCopies - 1 + 1
    BY <2>1, FS_Interval
  <2>3. QED
    BY <1>1, <2>2
<1>3. ASSUME NEW f \in new
      PROVE  f = [beat |-> b, to |-> r, copy |-> f.copy] /\ f.copy \in 1 .. MaxCopies
  OBVIOUS
<1>4. number \in [new -> 1 .. MaxCopies]
  BY <1>3
<1>5. \A f, g \in new : number[f] = number[g] => f = g
  BY <1>3
<1> HIDE DEF new, number
<1>6. number \in Injection(new, 1 .. MaxCopies)
  BY <1>4, <1>5 DEF Injection, IsInjective
<1>7. IsFiniteSet(new) /\ Cardinality(new) <= Cardinality(1 .. MaxCopies)
  BY <1>2, <1>6, FS_Injection
<1>8. QED
  BY <1>2, <1>7 DEF new

LEMMA CopySend ==
  ASSUME TypeOK, HistoryOK, CopiesInv, NEW m \in Node, SendBeat(m),
         NEW r \in Node, NEW s \in Node, NEW k \in 0 .. MaxTimer
  PROVE  CopyInv(r, s, k)'
<1>1. SessionOf(m) = fired[m]
  BY SessionIs
<1>2. /\ HistoryOK' /\ UNCHANGED heardIn
      /\ sentIn'[m][fired[m]] = sentIn[m][fired[m]] + 1
      /\ \A n \in Node, j \in 0 .. MaxTimer :
           n # m \/ j # fired[m] => sentIn'[n][j] = sentIn[n][j]
  BY SendHistory
<1>3. NewBeat(m).src = m /\ NewBeat(m).session = fired[m]
  BY <1>1, SMTT(30) DEF NewBeat
<1>4. PICK copies \in SUBSET ((1 .. MaxCopies) \X Reach[m]) :
        air' = air \cup {[beat |-> NewBeat(m), to |-> c[2], copy |-> c[1]] : c \in copies}
  BY DEF SendBeat
<1>5. CASE s = m /\ k = fired[m]
  <2> DEFINE b == NewBeat(m)
             new == {f \in {[beat |-> b, to |-> c[2], copy |-> c[1]] : c \in copies} : f.to = r}
  <2>1. copies \in SUBSET ((1 .. MaxCopies) \X Node)
    <3>1. Reach[m] \subseteq Node
      BY HeartbeatsAssumption
    <3>2. QED
      BY <1>4, <3>1
  <2>2. IsFiniteSet(new) /\ Cardinality(new) <= MaxCopies
    <3> HIDE DEF b
    <3>1. QED
      BY <2>1, FewNew
  <2>3. AirOf(r, s, k)' = AirOf(r, s, k) \cup new
    <3>1. b.src = s /\ b.session = k
      BY <1>3, <1>5
    <3> HIDE DEF b
    <3>2. \A f \in new : f.beat = b
      OBVIOUS
    <3>3. air' = air \cup {[beat |-> b, to |-> c[2], copy |-> c[1]] : c \in copies}
      BY <1>4 DEF b
    <3>4. QED
      BY <3>1, <3>2, <3>3 DEF AirOf
  <2>4. CopyInv(r, s, k) /\ IsFiniteSet(AirOf(r, s, k))
    BY DEF CopiesInv, CopyInv
  <2> HIDE DEF new, b
  <2> DEFINE old == AirOf(r, s, k)
  <2>5. /\ IsFiniteSet(old \cup new)
        /\ Cardinality(old \cup new) = Cardinality(old) + Cardinality(new) - Cardinality(old \cap new)
    BY <2>2, <2>4, FS_Union
  <2>6. /\ Cardinality(old) \in Nat /\ Cardinality(new) \in Nat
        /\ Cardinality(old \cap new) \in Nat /\ Cardinality(old \cup new) \in Nat
    <3>1. IsFiniteSet(old \cap new)
      BY <2>4, FS_Intersection
    <3>2. QED
      BY <2>2, <2>4, <2>5, <3>1, FS_CardinalityType
  <2>7. r # s => heardIn[r][s][k] + Cardinality(old) <= MaxCopies * sentIn[s][k]
    BY <2>4 DEF CopyInv
  <2>8. /\ sentIn'[s][k] = sentIn[s][k] + 1 /\ heardIn'[r][s][k] = heardIn[r][s][k]
        /\ sentIn[s][k] \in Nat /\ heardIn[r][s][k] \in Nat /\ MaxCopies \in Nat
    <3>1. sentIn[s][k] \in Nat /\ heardIn[r][s][k] \in Nat /\ MaxCopies \in Nat
      BY CopyBounds, HistoryValues
    <3>2. sentIn'[s][k] = sentIn[s][k] + 1 /\ heardIn'[r][s][k] = heardIn[r][s][k]
      BY <1>2, <1>5
    <3>3. QED
      BY <3>1, <3>2
  <2>9. AirOf(r, s, k)' = old \cup new
    BY <2>3
  <2> HIDE DEF old
  <2>10. MaxCopies * (sentIn[s][k] + 1) = MaxCopies * sentIn[s][k] + MaxCopies
         /\ MaxCopies * sentIn[s][k] \in Nat
    BY <2>8, Product
  <2>11. r # s => heardIn'[r][s][k] + Cardinality(old \cup new) <= MaxCopies * sentIn'[s][k]
    BY <2>2, <2>5, <2>6, <2>7, <2>8, <2>10
  <2>12. QED
    BY <2>5, <2>9, <2>11 DEF CopyInv
<1>6. CASE s # m \/ k # fired[m]
  <2>1. sentIn'[s][k] = sentIn[s][k] /\ sentIn[s][k] \in Nat
    BY <1>2, <1>6 DEF HistoryOK
  <2>2. ASSUME NEW f \in air', f \notin air
        PROVE  ~(f.beat.src = s /\ f.beat.session = k)
    <3>1. f.beat = NewBeat(m)
      BY <1>4, <2>2
    <3>2. QED
      BY <1>3, <1>6, <3>1
  <2>3. AirOf(r, s, k)' = AirOf(r, s, k)
    BY <1>4, <2>2 DEF AirOf
  <2>4. QED
    BY <1>2, <2>1, <2>3, CopyKept
<1>7. QED
  BY <1>5, <1>6

LEMMA CopyHear ==
  ASSUME TypeOK, CountInv, CopiesInv, NEW f \in air, Hear(f),
         NEW r \in Node, NEW s \in Node, NEW k \in 0 .. MaxTimer
  PROVE  CopyInv(r, s, k)'
<1>1. HistoryOK /\ BeatInv(f.beat)
  BY DEF CountInv
<1>2. /\ HistoryOK' /\ UNCHANGED sentIn
      /\ f.to \in Node /\ f.beat.src \in Node
      /\ \A q, p \in Node : q # f.to \/ p # f.beat.src \/ q = p =>
           heardIn'[q][p] = heardIn[q][p]
      /\ f.to # f.beat.src =>
           heardIn'[f.to][f.beat.src] = [heardIn[f.to][f.beat.src] EXCEPT ![f.beat.session] = @ + 1]
  BY <1>1, HearHistory, ZenonT(60)
<1>3. air' = air \ {f}
  BY DEF Hear
<1>4. CopyInv(r, s, k) /\ IsFiniteSet(AirOf(r, s, k))
  BY DEF CopiesInv, CopyInv
<1>5. heardIn[r][s] \in [0 .. MaxTimer -> Nat] /\ sentIn[s][k] \in Nat /\ MaxCopies \in Nat
  BY <1>1, HeartbeatsAssumption DEF HistoryOK
<1> DEFINE old == AirOf(r, s, k)
<1>6. Cardinality(old) \in Nat
  BY <1>4, FS_CardinalityType
<1>7. CASE f \in old
  <2>1. r = f.to /\ s = f.beat.src /\ k = f.beat.session
    BY <1>7 DEF AirOf
  <2>2. AirOf(r, s, k)' = old \ {f}
    BY <1>3 DEF AirOf
  <2>3. r # s => heardIn'[r][s][k] = heardIn[r][s][k] + 1
    <3>1. ASSUME r # s
          PROVE  heardIn'[r][s] = [heardIn[r][s] EXCEPT ![k] = @ + 1]
      BY <1>2, <2>1, <3>1
    <3>2. QED
      BY <1>5, <3>1
  <2>4. r # s => heardIn[r][s][k] + Cardinality(old) <= MaxCopies * sentIn[s][k]
    BY <1>4 DEF CopyInv
  <2>5. sentIn'[s][k] = sentIn[s][k] /\ heardIn[r][s][k] \in Nat
        /\ MaxCopies * sentIn[s][k] \in Nat
    BY <1>2, <1>5, Product
  <2> HIDE DEF old
  <2>6. IsFiniteSet(old \ {f}) /\ Cardinality(old \ {f}) = Cardinality(old) - 1
    BY <1>4, <1>7, FS_RemoveElement DEF old
  <2>7. r # s => heardIn'[r][s][k] + Cardinality(old \ {f}) <= MaxCopies * sentIn'[s][k]
    BY <1>6, <2>3, <2>4, <2>5, <2>6
  <2>8. QED
    BY <2>2, <2>6, <2>7 DEF CopyInv
<1>8. CASE f \notin old
  <2>1. AirOf(r, s, k)' = AirOf(r, s, k)
    BY <1>3, <1>8 DEF AirOf
  <2>2. heardIn'[r][s][k] = heardIn[r][s][k]
    <3>1. r # f.to \/ s # f.beat.src \/ k # f.beat.session
      BY <1>8 DEF AirOf
    <3>2. CASE r # f.to \/ s # f.beat.src \/ r = s
      BY <1>2, <3>2
    <3>3. CASE r = f.to /\ s = f.beat.src /\ r # s /\ k # f.beat.session
      <4>1. heardIn'[r][s] = [heardIn[r][s] EXCEPT ![f.beat.session] = @ + 1]
        BY <1>2, <3>3
      <4>2. QED
        BY <1>5, <3>3, <4>1
    <3>4. QED
      BY <3>1, <3>2, <3>3
  <2>3. sentIn'[s][k] >= sentIn[s][k]
    BY <1>2, <1>5
  <2>4. QED
    BY <1>1, <1>2, <2>1, <2>2, <2>3, CopyKept
<1>9. QED
  BY <1>7, <1>8

LEMMA SentStep ==
  ASSUME TypeOK, HistoryOK, CopiesInv, [Next]_vars, NEW n \in Node
  PROVE  SentInv(n)'
<1>1. SentInv(n) /\ sentIn[n] \in [0 .. MaxTimer -> Nat] /\ beats[n] \in Nat
      /\ MaxBeats[n] \in Nat
  BY HeartbeatsAssumption DEF CopiesInv, HistoryOK, TypeOK
<1>2. ASSUME NEW m \in Node, SendBeat(m)
      PROVE  SentInv(n)'
  <2>1. /\ sentIn'[m][fired[m]] = sentIn[m][fired[m]] + 1
        /\ \A p \in Node, k \in 0 .. MaxTimer :
             p # m \/ k # fired[m] => sentIn'[p][k] = sentIn[p][k]
    BY <1>2, SendHistory
  <2>2. beats[m] < MaxBeats[m] /\ beats' = [beats EXCEPT ![m] = @ + 1]
        /\ beats \in [Node -> Nat]
    BY <1>2 DEF SendBeat, TypeOK
  <2>3. CASE m = n
    <3>1. beats'[n] = beats[n] + 1 /\ beats[n] < MaxBeats[n]
      BY <2>2, <2>3
    <3>2. \A k \in 0 .. MaxTimer : sentIn'[n][k] \in {sentIn[n][k], sentIn[n][k] + 1}
      BY <2>1, <2>3
    <3>3. ASSUME NEW k \in 0 .. MaxTimer
          PROVE  sentIn'[n][k] <= beats'[n]
      <4>1. sentIn[n][k] <= beats[n] /\ sentIn[n][k] \in Nat
        BY <1>1 DEF SentInv
      <4>2. sentIn'[n][k] = sentIn[n][k] \/ sentIn'[n][k] = sentIn[n][k] + 1
        BY <3>2
      <4>3. QED
        BY <1>1, <3>1, <4>1, <4>2
    <3>4. QED
      BY <1>1, <3>1, <3>3 DEF SentInv
  <2>4. CASE m # n
    <3>1. beats'[n] = beats[n]
      BY <2>2, <2>4
    <3>2. \A k \in 0 .. MaxTimer : sentIn'[n][k] = sentIn[n][k]
      BY <2>1, <2>4
    <3>3. QED
      BY <1>1, <3>1, <3>2 DEF SentInv
  <2>5. QED
    BY <2>3, <2>4
<1>3. CASE UNCHANGED <<beats, sentIn>>
  BY <1>1, <1>3 DEF SentInv
<1>4. QED
  BY <1>2, <1>3 DEF Next, vars, history, Hear, Sniff, SessionTimer

LEMMA CopiesStep ==
  ASSUME TypeOK, CountInv, CopiesInv, [Next]_vars
  PROVE  CopiesInv'
<1>1. HistoryOK
  BY DEF CountInv
<1>2. ASSUME NEW n \in Node
      PROVE  SentInv(n)'
  BY <1>1, SentStep
<1>3. ASSUME NEW r \in Node, NEW s \in Node, NEW k \in 0 .. MaxTimer
      PROVE  CopyInv(r, s, k)'
  <2>1. CASE \E m \in Node : SendBeat(m)
    BY <1>1, <2>1, CopySend
  <2>2. CASE \E f \in air : Hear(f)
    BY <2>2, CopyHear
  <2>3. CASE UNCHANGED <<air, heardIn, sentIn>>
    BY <2>3 DEF CopyInv, AirOf, CopiesInv
  <2>4. QED
    BY <2>1, <2>2, <2>3 DEF Next, vars, history, Sniff, SessionTimer
<1>4. QED
  BY <1>2, <1>3 DEF CopiesInv

(* The distance of counts in the proportion of a packet's copies            *)
LEMMA MeasureNotZero ==
  ASSUME NEW s \in Nat, NEW r \in Nat, r <= 100 * s
  PROVE  Measure(s, r) # 0
<1>1. CASE r >= s /\ r # 0
  <2>1. s # 0 /\ s * 100 >= r /\ s * 100 <= 100 * r
    BY <1>1
  <2>2. ASSUME NEW x \in Nat, NEW y \in Nat \ {0}, x >= y, x <= 100 * y
        PROVE  x \div y \in 1 .. 100
    BY <2>2, SMTT(30)
  <2>3. (s * 100) \div r \in 1 .. 100
    BY <1>1, <2>1, <2>2
  <2>4. Quotient(s * 100, r) = (s * 100) \div r
    BY DEF Quotient
  <2>5. \A x \in 1 .. 100 : x % 256 # 0
    BY SMTT(30)
  <2>6. QED
    BY <1>1, <2>3, <2>4, <2>5 DEF Measure
<1>2. CASE r < s /\ s # 0
  <2>1. ~(r >= s /\ r # 0) /\ 155 * r >= 0 /\ 155 * r < 155 * s
    BY <1>2
  <2>2. ASSUME NEW x \in Nat, NEW y \in Nat \ {0}, x < 155 * y
        PROVE  x \div y \in 0 .. 154
    BY <2>2, SMTT(30)
  <2>3. (155 * r) \div s \in 0 .. 154
    BY <1>2, <2>1, <2>2
  <2>4. Quotient(155 * r, s) = (155 * r) \div s
    BY <2>1 DEF Quotient
  <2>5. \A x \in 0 .. 154 : (255 - x) % 256 # 0
    BY SMTT(30)
  <2>6. QED
    BY <1>2, <2>1, <2>3, <2>4, <2>5 DEF Measure
<1>3. CASE ~(r >= s /\ r # 0) /\ ~(r < s /\ s # 0)
  BY <1>3 DEF Measure
<1>4. QED
  BY <1>1, <1>2, <1>3

(* Smoothing distances that are not 0 does not give 0.                      *)
LEMMA UpdatedNotZero ==
  ASSUME NEW t \in Row3, NEW d \in Distance, t[1] # 0, d # 0
  PROVE  Updated(t, d)[1] # 0
<1>1. t[1] \in 0 .. 255 /\ t[2] \in 0 .. 255 /\ d \in 0 .. 255
  BY DEF Row3, Distance
<1>2. ASSUME NEW x \in 1 .. 255, NEW y \in 1 .. 255, NEW z \in 1 .. 255
      PROVE  (x + y + z) \div 3 # 0
  BY SMTT(30)
<1>3. Smooth(t, d) # 0
  <2>1. CASE {t[1], t[2]} \cap {0, Unknown} # {}
    BY <2>1 DEF Smooth
  <2>2. CASE {t[1], t[2]} \cap {0, Unknown} = {}
    <3>1. t[1] # 0 /\ t[2] # 0
      BY <2>2
    <3>2. t[1] \in 1 .. 255 /\ t[2] \in 1 .. 255 /\ d \in 1 .. 255
      BY <1>1, <3>1
    <3>3. QED
      BY <1>2, <2>2, <3>2 DEF Smooth
  <2>3. QED
    BY <2>1, <2>2
<1>4. QED
  BY <1>3 DEF Updated

(* A host's distance becomes 0 from counts of the first session only, or    *)
(* from those of a node that heard the sessions out of order: for every     *)
(* mesh in which a node hears at most a hundred copies of a packet.         *)
THEOREM ZeroNeedsDefaults ==
  ASSUME Roomy, FewCopies
  PROVE  Spec => ZeroOnlyAtStart
<1> DEFINE Step ==
      \A n, j \in Node :
        table'[n][j][1] = 0 /\ table[n][j][1] # 0 => own'[n].session = 0 \/ late[j][n]
<1>1. ASSUME IInv, CountInv, CountInv', CopiesInv, CopiesInv', Next
      PROVE  Step
  <2> SUFFICES ASSUME NEW n \in Node, NEW j \in Node,
                      table'[n][j][1] = 0, table[n][j][1] # 0,
                      own'[n].session # 0, ~late[j][n]
               PROVE  FALSE
    OBVIOUS
  <2>1. TypeOK /\ table \in [Node -> [Node -> Row3]] /\ HistoryOK
    BY <1>1 DEF IInv, TypeOK, Row3, CountInv
  <2>2. PICK m \in Node : Sniff(m)
    BY <1>1 DEF Next, sniffer, SendBeat, Hear, SessionTimer
  <2> DEFINE b == Head(queue[m])
             known == DOMAIN hosts[m] \cup {b.src}
             mine == OwnAfter(m, b)
             theirs == HeardAfter(m, b, known)
  <2>3. /\ own' = [own EXCEPT ![m] = mine] /\ heard' = [heard EXCEPT ![m] = theirs]
        /\ CalculateDistances(m, known, mine, theirs)
    BY <2>2 DEF Sniff
  <2>4. table' = [table EXCEPT ![m] =
          [i \in Node |-> IF i \in Comparable(m, known, mine, theirs)
                            THEN Updated(table[m][i], Measure(mine.num, theirs[i].num))
                            ELSE table[m][i]]]
    BY <2>1, <2>3 DEF CalculateDistances
  <2>5. own'[m] = mine /\ heard'[m] = theirs
    BY <2>1, <2>3 DEF TypeOK
  <2> HIDE DEF b, known, mine, theirs
  <2>6. /\ m = n /\ j \in Comparable(n, known, mine, theirs)
        /\ table'[n][j] = Updated(table[n][j], Measure(mine.num, theirs[j].num))
    BY <2>1, <2>4
  <2> DEFINE k == mine.session
             s == mine.num
             r == theirs[j].num
  <2>7. j # n /\ theirs[j].session = k /\ k # 0
    BY <2>5, <2>6 DEF Comparable
  <2>8. late' = late /\ heardIn' = heardIn /\ sentIn' = sentIn
    BY <2>2 DEF Sniff, history
  <2>9. /\ k \in 0 .. MaxTimer /\ s = sentIn[n][k] % Counts
        /\ r = heardIn[j][n][k] % Counts
    <3>1. SniffInv(n)'
      BY <1>1 DEF CountInv
    <3>2. CountedOut(n, own[n].session, own[n].num)'
          /\ CountedIn(j, n, heard[n][j].session, heard[n][j].num)'
      BY <2>7, <3>1 DEF SniffInv
    <3>3. own'[n].session = k /\ own'[n].num = s
          /\ heard'[n][j].session = k /\ heard'[n][j].num = r
      BY <2>5, <2>6, <2>7
    <3> HIDE DEF k, s, r
    <3>4. QED
      BY <2>7, <2>8, <3>2, <3>3 DEF CountedOut, CountedIn
  <2> HIDE DEF k, s, r
  <2>10. /\ sentIn[n][k] \in Nat /\ heardIn[j][n][k] \in Nat /\ MaxCopies \in Nat
         /\ Counts \in Nat \ {0} /\ MaxBeats[n] \in Nat /\ beats[n] \in Nat
    <3>1. sentIn[n][k] \in Nat /\ heardIn[j][n][k] \in Nat
      BY <2>1, <2>9, HistoryValues
    <3>2. beats[n] \in Nat
      BY <2>1 DEF TypeOK
    <3>3. QED
      BY <3>1, <3>2, CopyBounds, StatListAssumption
  <2>11. s = sentIn[n][k]
    <3>1. sentIn[n][k] < Counts
      BY <1>1, <2>9, <2>10 DEF CopiesInv, SentInv, FewCopies
    <3>2. QED
      BY <2>9, <2>10, <3>1
  <2>12. heardIn[j][n][k] <= MaxCopies * sentIn[n][k]
    <3>1. CopyInv(j, n, k)
      BY <1>1, <2>9 DEF CopiesInv
    <3>2. Cardinality(AirOf(j, n, k)) \in Nat
      BY <3>1, FS_CardinalityType DEF CopyInv
    <3>3. heardIn[j][n][k] + Cardinality(AirOf(j, n, k)) <= MaxCopies * sentIn[n][k]
      BY <2>7, <3>1 DEF CopyInv
    <3>4. MaxCopies * sentIn[n][k] \in Nat
      BY <2>10, Product
    <3>5. QED
      BY <2>10, <3>2, <3>3, <3>4
  <2>13. r \in Nat /\ r <= heardIn[j][n][k]
    <3>1. \A x \in Nat, c \in Nat \ {0} : x % c \in Nat /\ x % c <= x
      BY SMTT(30)
    <3>2. QED
      BY <2>9, <2>10, <3>1
  <2>14. r <= 100 * s
    <3>1. ASSUME NEW c \in Nat, NEW x \in Nat, c <= 100
          PROVE  c * x <= 100 * x
      <4>1. 100 * x = c * x + (100 - c) * x /\ c * x \in Nat /\ (100 - c) * x \in Nat
        BY <3>1
      <4>2. QED
        BY <4>1
    <3>2. MaxCopies * sentIn[n][k] <= 100 * sentIn[n][k]
          /\ MaxCopies * sentIn[n][k] \in Nat
      BY <2>10, <3>1 DEF FewCopies
    <3>3. QED
      BY <2>10, <2>11, <2>12, <2>13, <3>2
  <2>15. Measure(s, r) # 0 /\ Measure(s, r) \in Distance
    <3>1. s \in Count /\ r \in Count
      BY <2>9, <2>10 DEF Count
    <3>2. QED
      BY <2>10, <2>11, <2>13, <2>14, <3>1, MeasureNotZero, MeasureType
  <2>16. Updated(table[n][j], Measure(s, r))[1] # 0
    BY <2>1, <2>15, UpdatedNotZero
  <2>17. QED
    BY <2>6, <2>16 DEF s, r
<1>2. ASSUME UNCHANGED vars
      PROVE  Step
  BY <1>2 DEF vars, sniffer
<1>3. CountInv /\ IInv /\ [Next]_vars => CountInv'
  BY CountStep DEF IInv
<1>4. CountInv /\ CopiesInv /\ IInv /\ [Next]_vars => CopiesInv'
  BY CopiesStep DEF IInv
<1>5. IInv /\ CountInv /\ CopiesInv /\ [Next]_vars => [Step]_vars
  BY <1>1, <1>3, <1>4
<1>6. Spec => [][Step]_vars
  BY <1>3, <1>4, <1>5, CountInit, CopiesInit, Invariance, PTL DEF Spec
<1>7. QED
  BY <1>6 DEF ZeroOnlyAtStart
==============================================================================
