----------------------------- MODULE ListProofs ------------------------------
(***************************************************************************)
(* Facts about the stat list and the path list that hold for every         *)
(* capacity, address and session: an operation keeps the shape of a list,  *)
(* adds at most the address it was called with, and never exceeds the      *)
(* capacity.                                                               *)
(***************************************************************************)
EXTENDS DistanceList, StatList, PathList, FiniteSetTheorems, TLAPS

LEMMA BlankEntryType ==
  /\ NoRx \in RxTally
  /\ NoTally \in Tally
  /\ BlankEntry \in StatEntry
<1>1. 0 \in Count /\ ExpiryTicks \in 0 .. ExpiryTicks
  BY StatListAssumption DEF Count
<1>2. QED
  BY <1>1 DEF BlankEntry, NoRx, NoTally, StatEntry, RxTally, Tally

LEMMA PutType ==
  ASSUME NEW keys, NEW entries, NEW list, IsListOf(list, keys, entries),
         NEW k \in keys, NEW e \in entries
  PROVE  /\ IsListOf(Put(list, k, e), keys, entries)
         /\ DOMAIN Put(list, k, e) = DOMAIN list \cup {k}
BY DEF IsListOf, Put

LEMMA DropType ==
  ASSUME NEW keys, NEW entries, NEW list, IsListOf(list, keys, entries), NEW k
  PROVE  IsListOf(Drop(list, k), keys, entries)
BY DEF IsListOf, Drop

LEMMA DistanceType ==
  ASSUME NEW keys, NEW list, IsListOf(list, keys, Distance)
  PROVE  /\ \A d : DistanceTo(list, d) \in Distance
         /\ \A d \in keys, v \in Distance :
              IsListOf(SetDistance(list, d, v), keys, Distance)
<1>1. \A d : DistanceTo(list, d) \in Distance
  BY DEF IsListOf, DistanceTo, Unknown, Distance
<1>2. QED
  BY <1>1, PutType DEF SetDistance

(* Counting wraps at the width of the counters.                            *)
LEMMA CountWraps ==
  /\ 0 \in Count /\ 1 \in Count
  /\ \A n \in Count : Bump(n, 0) \in Count /\ Bump(n, 1) \in Count
BY StatListAssumption DEF Count, Bump

LEMMA CountRxType ==
  ASSUME NEW r \in RxTally, NEW s \in Nat, NEW isBroadcast \in BOOLEAN
  PROVE  CountRx(r, s, isBroadcast) \in RxTally
<1>1. CASE SessionWrapped(r.session, s)
  BY <1>1, CountWraps DEF CountRx, RxTally
<1>2. CASE ~SessionWrapped(r.session, s) /\ s > r.session
  BY <1>2, CountWraps DEF CountRx, RxTally
<1>3. CASE ~SessionWrapped(r.session, s) /\ ~(s > r.session)
  <2>1. /\ Bump(r.num, 1) \in Count /\ Bump(r.num, 0) \in Count
        /\ Bump(r.bcast, 1) \in Count /\ Bump(r.bcast, 0) \in Count
    BY CountWraps DEF RxTally
  <2>2. \A x, y \in Count : [r EXCEPT !.num = x, !.bcast = y] \in RxTally
    BY DEF RxTally
  <2>3. QED
    BY <1>3, <2>1, <2>2 DEF CountRx
<1>4. QED
  BY <1>1, <1>2, <1>3

LEMMA CountOutType ==
  ASSUME NEW t \in Tally, NEW s \in Nat
  PROVE  CountOut(t, s) \in Tally
<1>1. t.num \in Count /\ Bump(t.num, 1) \in Count
  BY CountWraps DEF Tally
<1>2. QED
  BY <1>1, CountWraps DEF CountOut, Tally

(* Counting a packet in an entry leaves an entry.                          *)
LEMMA CountedType ==
  ASSUME NEW e \in StatEntry, NEW s \in Nat, NEW isBroadcast \in BOOLEAN
  PROVE  /\ Received(e, s, isBroadcast) \in StatEntry
         /\ Transmitted(e, s) \in StatEntry
         /\ Forwarded(e, s) \in StatEntry
<1>1. e.rx \in RxTally /\ e.tx \in Tally /\ e.fwd \in Tally
  BY DEF StatEntry
<1>2. /\ CountRx(e.rx, s, isBroadcast) \in RxTally
      /\ CountOut(e.tx, s) \in Tally
      /\ CountOut(e.fwd, s) \in Tally
  BY <1>1, CountRxType, CountOutType
<1>3. 0 \in 0 .. ExpiryTicks
  BY StatListAssumption
<1>4. QED
  BY <1>2, <1>3 DEF Received, Transmitted, Forwarded, StatEntry

LEMMA NewEntryType ==
  ASSUME NEW s \in Nat
  PROVE  NewRx(s) \in StatEntry /\ NewTx(s) \in StatEntry /\ NewFwd(s) \in StatEntry
<1>1. [NoRx EXCEPT !.session = s] \in RxTally /\ [NoTally EXCEPT !.session = s] \in Tally
  BY BlankEntryType DEF RxTally, Tally
<1>2. QED
  BY <1>1, BlankEntryType DEF NewRx, NewTx, NewFwd, StatEntry

(* The three forms of add_or_update_stat_entry.                            *)
LEMMA StatRxType ==
  ASSUME NEW macs, NEW list, IsListOf(list, macs, StatEntry),
         NEW m \in macs, NEW s \in Nat, NEW d
  PROVE  IsListOf(StatRx(list, m, s, d), macs, StatEntry)
<1>1. Received(NewRx(s), s, d = Bcast) \in StatEntry
  BY NewEntryType, CountedType
<1>2. ASSUME m \in DOMAIN list
      PROVE  Received(list[m], s, d = Bcast) \in StatEntry
  <2>1. list[m] \in StatEntry
    BY <1>2 DEF IsListOf
  <2>2. QED
    BY <2>1, CountedType
<1>3. QED
  BY <1>1, <1>2, PutType DEF StatRx

LEMMA StatTxType ==
  ASSUME NEW macs, NEW list, IsListOf(list, macs, StatEntry), NEW m \in macs, NEW s \in Nat
  PROVE  IsListOf(StatTx(list, m, s), macs, StatEntry)
<1>1. Transmitted(NewTx(s), s) \in StatEntry
  BY NewEntryType, CountedType
<1>2. ASSUME m \in DOMAIN list
      PROVE  Transmitted(list[m], s) \in StatEntry
  <2>1. list[m] \in StatEntry
    BY <1>2 DEF IsListOf
  <2>2. QED
    BY <2>1, CountedType
<1>3. QED
  BY <1>1, <1>2, PutType DEF StatTx

LEMMA StatFwdType ==
  ASSUME NEW macs, NEW list, IsListOf(list, macs, StatEntry), NEW m \in macs, NEW s \in Nat
  PROVE  IsListOf(StatFwd(list, m, s), macs, StatEntry)
<1>1. Forwarded(NewFwd(s), s) \in StatEntry
  BY NewEntryType, CountedType
<1>2. ASSUME m \in DOMAIN list
      PROVE  Forwarded(list[m], s) \in StatEntry
  <2>1. list[m] \in StatEntry
    BY <1>2 DEF IsListOf
  <2>2. QED
    BY <2>1, CountedType
<1>3. QED
  BY <1>1, <1>2, PutType DEF StatFwd

(* What the session timer makes of a list.                                 *)
LEMMA AgedType ==
  ASSUME NEW macs, NEW list, IsListOf(list, macs, StatEntry)
  PROVE  /\ IsListOf(Aged(list), macs, StatEntry)
         /\ DOMAIN Aged(list) = DOMAIN list
<1>1. ASSUME NEW e \in StatEntry
      PROVE  [e EXCEPT !.age = IF @ < ExpiryTicks THEN @ + 1 ELSE @] \in StatEntry
  BY StatListAssumption DEF StatEntry
<1>2. QED
  BY <1>1 DEF IsListOf, Aged

LEMMA PathRxType ==
  ASSUME NEW paths, NEW list, IsListOf(list, paths, PathEntry), NEW p \in paths, NEW s \in Nat
  PROVE  /\ IsListOf(PathRx(list, p, s), paths, PathEntry)
         /\ DOMAIN PathRx(list, p, s) \subseteq DOMAIN list \cup {p}
<1>1. NewPath(s) \in PathEntry
  BY PathListAssumption DEF NewPath, PathEntry
<1>2. ASSUME NEW e \in PathEntry
      PROVE  CountPath(e, s) \in PathEntry
  BY <1>1, PathListAssumption DEF CountPath, PathEntry
<1>3. ASSUME p \in DOMAIN list
      PROVE  CountPath(list[p], s) \in PathEntry
  BY <1>2, <1>3 DEF IsListOf
<1>4. CASE p \in DOMAIN list
  <2>1. PathRx(list, p, s) = Put(list, p, CountPath(list[p], s))
    BY <1>4 DEF PathRx
  <2>2. /\ IsListOf(Put(list, p, CountPath(list[p], s)), paths, PathEntry)
        /\ DOMAIN Put(list, p, CountPath(list[p], s)) = DOMAIN list \cup {p}
    BY <1>3, <1>4, PutType
  <2>3. QED
    BY <2>1, <2>2
<1>5. CASE p \notin DOMAIN list /\ HasRoom(list, PathCapacity)
  <2>1. PathRx(list, p, s) = Put(list, p, NewPath(s))
    BY <1>5 DEF PathRx
  <2>2. /\ IsListOf(Put(list, p, NewPath(s)), paths, PathEntry)
        /\ DOMAIN Put(list, p, NewPath(s)) = DOMAIN list \cup {p}
    <3>1. PICK e \in PathEntry : e = NewPath(s)
      BY <1>1
    <3>2. IsListOf(Put(list, p, e), paths, PathEntry)
      BY PutType
    <3>3. QED
      BY <3>1, <3>2 DEF Put
  <2>3. QED
    BY <2>1, <2>2
<1>6. CASE p \notin DOMAIN list /\ ~HasRoom(list, PathCapacity)
  BY <1>6 DEF PathRx
<1>7. QED
  BY <1>4, <1>5, <1>6

------------------------------------------------------------------------------
(* Capacity: a list within its bound stays within it, and an ignored       *)
(* address never gets a stat entry.                                        *)
Fits(list, capacity) ==
  IsFiniteSet(DOMAIN list) /\ Cardinality(DOMAIN list) <= capacity

StatFits(list) == Fits(list, StatCapacity) /\ DOMAIN list \cap Ignored = {}

LEMMA EmptyFits ==
  StatFits(EmptyList) /\ Fits(NoPaths, PathCapacity)
<1>1. DOMAIN EmptyList = {} /\ DOMAIN NoPaths = {}
  BY DEF EmptyList, NoPaths
<1>2. IsFiniteSet({}) /\ Cardinality({}) = 0
  BY FS_EmptySet
<1>3. QED
  BY <1>1, <1>2, StatListAssumption, PathListAssumption DEF StatFits, Fits

LEMMA PutFits ==
  ASSUME NEW capacity \in Nat, NEW list, Fits(list, capacity), NEW k, NEW e,
         k \in DOMAIN list \/ HasRoom(list, capacity)
  PROVE  /\ Fits(Put(list, k, e), capacity)
         /\ DOMAIN Put(list, k, e) = DOMAIN list \cup {k}
<1>1. DOMAIN Put(list, k, e) = DOMAIN list \cup {k}
  BY DEF Put
<1>2. /\ IsFiniteSet(DOMAIN list \cup {k})
      /\ Cardinality(DOMAIN list \cup {k})
           = IF k \in DOMAIN list THEN Cardinality(DOMAIN list)
                                  ELSE Cardinality(DOMAIN list) + 1
  BY FS_AddElement DEF Fits
<1>3. Cardinality(DOMAIN list) \in Nat
  BY FS_CardinalityType DEF Fits
<1>4. QED
  BY <1>1, <1>2, <1>3 DEF Fits, HasRoom

LEMMA DropFits ==
  ASSUME NEW capacity \in Nat, NEW list, Fits(list, capacity), NEW k
  PROVE  Fits(Drop(list, k), capacity)
<1>1. DOMAIN Drop(list, k) = DOMAIN list \ {k}
  BY DEF Drop
<1>2. /\ IsFiniteSet(DOMAIN list \ {k})
      /\ Cardinality(DOMAIN list \ {k}) <= Cardinality(DOMAIN list)
  BY FS_Subset DEF Fits
<1>3. /\ Cardinality(DOMAIN list) \in Nat
      /\ Cardinality(DOMAIN list \ {k}) \in Nat
  BY <1>2, FS_CardinalityType DEF Fits
<1>4. QED
  BY <1>1, <1>2, <1>3 DEF Fits

LEMMA SetDistanceFits ==
  ASSUME NEW list, Fits(list, DistanceCapacity), NEW d, NEW v
  PROVE  Fits(SetDistance(list, d, v), DistanceCapacity)
BY PutFits, DistanceListAssumption DEF SetDistance

LEMMA StatPutFits ==
  ASSUME NEW list, StatFits(list), NEW m, NEW e, m \notin Ignored,
         m \in DOMAIN list \/ HasRoom(list, StatCapacity)
  PROVE  StatFits(Put(list, m, e))
<1>1. /\ Fits(Put(list, m, e), StatCapacity)
      /\ DOMAIN Put(list, m, e) = DOMAIN list \cup {m}
  <2>1. Fits(list, StatCapacity) /\ StatCapacity \in Nat
    BY StatListAssumption DEF StatFits
  <2>2. QED
    BY <2>1, PutFits
<1>2. QED
  BY <1>1 DEF StatFits

LEMMA StatOpsFit ==
  ASSUME NEW list, StatFits(list), NEW m, NEW s, NEW d
  PROVE  /\ StatFits(StatRx(list, m, s, d))
         /\ StatFits(StatTx(list, m, s))
         /\ StatFits(StatFwd(list, m, s))
BY StatPutFits DEF StatRx, StatTx, StatFwd

LEMMA CollectFits ==
  ASSUME NEW list, StatFits(list), NEW m
  PROVE  StatFits(Aged(list)) /\ StatFits(Drop(Aged(list), m))
<1>1. DOMAIN Aged(list) = DOMAIN list
  BY DEF Aged
<1>2. StatFits(Aged(list))
  BY <1>1 DEF StatFits, Fits
<1>3. Fits(Drop(Aged(list), m), StatCapacity)
  BY <1>2, DropFits, StatListAssumption DEF StatFits
<1>4. DOMAIN Drop(Aged(list), m) = DOMAIN list \ {m}
  BY <1>1 DEF Drop
<1>5. QED
  BY <1>2, <1>3, <1>4 DEF StatFits

LEMMA PathRxFits ==
  ASSUME NEW list, Fits(list, PathCapacity), NEW p, NEW s
  PROVE  Fits(PathRx(list, p, s), PathCapacity)
BY PutFits, PathListAssumption DEF PathRx
==============================================================================
