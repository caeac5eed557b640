---------------------------- MODULE MachineProofs ----------------------------
(***************************************************************************)
(* Proofs about Machine and the path report inside it, for every set of    *)
(* paths, capacity, counter width, page size and plan.  The path report    *)
(* has an inductive invariant of its own, PathInv; whatever the rest of    *)
(* the machine does, a step is one of its operations, a fresh start or     *)
(* leaves it alone (PathSteps).  From it follow the type invariant, the    *)
(* bound on the list and the refinement of PathLedger.  UnloadInv says in  *)
(* which order hello_exit makes the module unreachable.                    *)
(***************************************************************************)
EXTENDS Machine, FiniteSetTheorems, TLAPS

------------------------------------------------------------------------------
(* Entries                                                                 *)

LEMMA ByteSteps ==
  ASSUME NEW k \in Nat
  PROVE  /\ k % Byte \in 0 .. Byte - 1
         /\ k % Byte <= k
BY PathListAssumption

LEMMA NewPathIs ==
  ASSUME NEW s \in Nat
  PROVE  NewPath(s) \in PathEntry /\ Sum(NewPath(s)) \in 0 .. 1
<1>1. 1 % Byte \in 0 .. Byte - 1 /\ 1 % Byte <= 1 /\ 0 \in 0 .. Byte - 1
  BY ByteSteps, PathListAssumption
<1>2. QED
  BY <1>1 DEF NewPath, PathEntry, Sum

LEMMA SumType ==
  ASSUME NEW e \in PathEntry
  PROVE  Sum(e) \in Nat
BY PathListAssumption DEF PathEntry, Sum

\* Counting a packet adds at most that packet to what a path will report.
LEMMA CountPathIs ==
  ASSUME NEW e \in PathEntry, NEW s \in Nat
  PROVE  CountPath(e, s) \in PathEntry /\ Sum(CountPath(e, s)) \in 0 .. Sum(e) + 1
<1>0. e.num \in 0 .. Byte - 1 /\ e.prevNum \in 0 .. Byte - 1 /\ e.session \in Nat
  BY DEF PathEntry
<1>1. Sum(e) \in Nat /\ e.num \in Nat /\ e.num <= Sum(e)
  BY <1>0, PathListAssumption DEF Sum
<1>2. CASE e.session > 4 /\ s < 2
  <2>1. CountPath(e, s) = NewPath(s)
    BY <1>2 DEF CountPath
  <2>2. QED
    BY <2>1, <1>1, NewPathIs
<1>3. CASE ~(e.session > 4 /\ s < 2) /\ s > e.session
  <2>1. CountPath(e, s) = [session |-> s, num |-> 1 % Byte,
                           prevSession |-> e.session, prevNum |-> e.num]
    BY <1>3 DEF CountPath
  <2>2. 1 % Byte \in 0 .. Byte - 1 /\ 1 % Byte <= 1
    BY ByteSteps
  <2>3. CountPath(e, s) \in PathEntry
    BY <2>1, <2>2, <1>0 DEF PathEntry
  <2>4. Sum(CountPath(e, s)) = (1 % Byte) + e.num
    BY <2>1 DEF Sum
  <2>5. QED
    BY <2>2, <2>3, <2>4, <1>1, PathListAssumption
<1>4. CASE ~(e.session > 4 /\ s < 2) /\ ~(s > e.session)
  <2>1. CountPath(e, s) = [e EXCEPT !.num = (e.num + 1) % Byte]
    BY <1>4 DEF CountPath
  <2>2. (e.num + 1) % Byte \in 0 .. Byte - 1 /\ (e.num + 1) % Byte <= e.num + 1
    BY <1>1, ByteSteps
  <2>3. CountPath(e, s) \in PathEntry
    BY <2>1, <2>2 DEF PathEntry
  <2>4. Sum(CountPath(e, s)) = ((e.num + 1) % Byte) + e.prevNum
    BY <2>1 DEF Sum, PathEntry
  <2>5. QED
    BY <2>2, <2>3, <2>4, <1>0, <1>1, PathListAssumption DEF Sum
<1>5. QED
  BY <1>2, <1>3, <1>4

LEMMA PutIs ==
  ASSUME NEW l, IsListOf(l, Path, PathEntry), NEW p \in Path, NEW e \in PathEntry
  PROVE  /\ IsListOf(Put(l, p, e), Path, PathEntry)
         /\ DOMAIN Put(l, p, e) = DOMAIN l \cup {p}
         /\ Put(l, p, e)[p] = e
         /\ \A q \in DOMAIN l \ {p} : Put(l, p, e)[q] = l[q]
BY DEF IsListOf, Put

\* The same, of the list after a step
LEMMA ListPutIs ==
  ASSUME IsListOf(list, Path, PathEntry), NEW p \in Path, NEW e \in PathEntry,
         list' = Put(list, p, e)
  PROVE  /\ DOMAIN list' = DOMAIN list \cup {p}
         /\ list'[p] = e
         /\ \A q \in DOMAIN list \ {p} : list'[q] = list[q]
BY PutIs

LEMMA NoPathsIs == IsListOf(NoPaths, Path, PathEntry) /\ DOMAIN NoPaths = {}
BY DEF IsListOf, NoPaths

------------------------------------------------------------------------------
(* The path report                                                         *)

PathOp ==
  \/ \E p \in Path, s \in Session : CountPacket(p, s) \/ CountWhileFreeing(p, s)
  \/ \E n \in Lines : ReadPage(n)
  \/ FreeNext \/ FreeDone

\* insmod: new memory
PathFresh ==
  /\ cpu = "idle" /\ cpu' = "idle"
  /\ list' = NoPaths /\ resumed' = FALSE /\ printed' = {} /\ freed' = {}
  /\ count' = 0 /\ leaked' = 0 /\ UNCHANGED <<noted, reported>>

LEMMA PathSteps ==
  ASSUME Next
  PROVE  PathOp \/ PathFresh \/ UNCHANGED pathVars
<1>1. CASE Receive
  BY <1>1 DEF Receive, PathOp
<1>2. CASE Free
  BY <1>2 DEF Free, PathOp
<1>3. CASE ScriptInsmod
  BY <1>3 DEF ScriptInsmod, Insmod, PathFresh, Scheduled
<1>4. CASE \E d \in Daemons : Work(d)
  BY <1>4 DEF Work, LogPaths, CopyDistances, PackStats, WriteDistance, PathOp
<1>5. CASE \E d \in Daemons : CheckLsmod(d)
  BY <1>5 DEF CheckLsmod
<1>6. CASE Transmit \/ TakeDevice \/ ScriptLaunch \/ ScriptKill
  BY <1>6 DEF Transmit, TakeDevice, ScriptLaunch, ScriptKill
<1>7. CASE ExitUnhook \/ ExitDeaf \/ ExitFiles \/ ExitReturn
  BY <1>7 DEF ExitUnhook, ExitDeaf, ExitFiles, ExitReturn
<1>8. CASE ExitFreeDistances \/ ExitFreeStats
  BY <1>8 DEF ExitFreeDistances, ExitFreeStats, FreeList
<1>9. CASE \E file \in ProcFile : CreateEntry(file)
  BY <1>9 DEF CreateEntry
<1>10. CASE \E kind \in {"start", "stop"} : RunScript(kind)
  BY <1>10 DEF RunScript
<1>11. QED
  BY <1>1, <1>2, <1>3, <1>4, <1>5, <1>6, <1>7, <1>8, <1>9, <1>10 DEF Next

PathInv ==
  /\ PathTypeOK
  /\ IsFiniteSet(DOMAIN list)
  /\ cpu = "idle" => freed = {}
  /\ cpu # "idle" => ~resumed
  /\ ~resumed => printed = {}
  /\ ListWithinCount

LEMMA PathInitInv == Init => PathInv
<1> SUFFICES ASSUME Init PROVE PathInv
  OBVIOUS
<1>1. DOMAIN list = {} /\ Live = {} /\ IsListOf(list, Path, PathEntry)
  BY NoPathsIs DEF Init, PathInit, Live
<1>2. Cardinality({}) = 0 /\ IsFiniteSet({})
  BY FS_EmptySet
<1>3. PathTypeOK
  BY <1>1 DEF PathTypeOK, Init, PathInit
<1>4. ListWithinCount
  BY <1>1, <1>2, PathListAssumption DEF ListWithinCount, Init, PathInit
<1>5. QED
  BY <1>1, <1>2, <1>3, <1>4 DEF PathInv, Init, PathInit

\* What adding an entry for a path that is not live does to the live entries
LEMMA LiveGrows ==
  ASSUME NEW p, p \notin Live, IsFiniteSet(DOMAIN list),
         Live' = Live \cup {p}
  PROVE  Cardinality(Live') = Cardinality(Live) + 1 /\ Cardinality(Live) \in Nat
<1>1. IsFiniteSet(Live)
  BY FS_Subset DEF Live
<1>2. QED
  BY <1>1, FS_AddElement, FS_CardinalityType

LEMMA ArrivesType ==
  ASSUME NEW p \in Path, Arrives(p), noted \in [Path -> Nat]
  PROVE  noted' \in [Path -> Nat]
BY DEF Arrives

LEMMA CountPacketInv ==
  ASSUME PathInv, MachineAssumption, NEW p \in Path, NEW s \in Session, CountPacket(p, s)
  PROVE  PathInv'
<1> USE DEF PathInv
<1>0. /\ s \in Nat /\ IsListOf(list, Path, PathEntry) /\ freed = {} /\ cpu = "idle"
      /\ Live = DOMAIN list /\ count \in Nat /\ leaked \in Nat
      /\ noted' \in [Path -> Nat] /\ IsFiniteSet(DOMAIN list)
      /\ NewPath(s) \in PathEntry
  BY ArrivesType, NewPathIs DEF MachineAssumption, PathTypeOK, CountPacket, Live
<1>1. CASE p \in DOMAIN list /\ list' = Put(list, p, CountPath(list[p], s)) /\ UNCHANGED count
  <2>1. list[p] \in PathEntry
    BY <1>0, <1>1 DEF IsListOf
  <2>2. PICK e \in PathEntry : e = CountPath(list[p], s)
    BY <2>1, <1>0, CountPathIs
  <2>3. IsListOf(list', Path, PathEntry) /\ DOMAIN list' = DOMAIN list
    <3>1. list' = Put(list, p, e)
      BY <1>1, <2>2
    <3>2. IsListOf(list', Path, PathEntry) /\ DOMAIN list' = DOMAIN list \cup {p}
      BY <3>1, <1>0, PutIs
    <3>3. QED
      BY <3>2, <1>1
  <2>4. QED
    BY <2>3, <1>0, <1>1 DEF CountPacket, PathTypeOK, ListWithinCount, Live
<1>2. CASE p \notin DOMAIN list /\ AddPath(p, s)
  <2>1. IsListOf(list', Path, PathEntry) /\ DOMAIN list' = DOMAIN list \cup {p}
    <3>1. PICK e \in PathEntry : e = NewPath(s)
      BY <1>0
    <3>2. QED
      BY <3>1, <1>0, <1>2, PutIs DEF AddPath
  <2>2. Live' = Live \cup {p} /\ p \notin Live
    BY <2>1, <1>0, <1>2 DEF Live, CountPacket
  <2>3. Cardinality(Live') = Cardinality(Live) + 1 /\ Cardinality(Live) \in Nat
    BY <2>2, <1>0, LiveGrows
  <2>4. Live = {} \/ count < PathCapacity
    BY <1>0, <1>2 DEF AddPath
  <2>5. Cardinality(Live') <= PathCapacity
    <3>1. CASE Live = {}
      BY <3>1, <2>3, FS_EmptySet, PathListAssumption
    <3>2. CASE count < PathCapacity
      BY <3>2, <2>3, <1>0, PathListAssumption DEF ListWithinCount
    <3>3. QED
      BY <2>4, <3>1, <3>2
  <2>6. ListWithinCount'
    BY <2>3, <2>5, <1>0, <1>2 DEF ListWithinCount, AddPath, CountPacket
  <2>7. IsFiniteSet(DOMAIN list')
    BY <2>1, <1>0, FS_AddElement
  <2>8. PathTypeOK'
    BY <2>1, <1>0, <1>2 DEF PathTypeOK, AddPath, CountPacket
  <2>9. QED
    BY <2>6, <2>7, <2>8 DEF CountPacket
<1>3. CASE UNCHANGED <<list, count>>
  BY <1>0, <1>3 DEF CountPacket, PathTypeOK, ListWithinCount, Live
<1>4. QED
  BY <1>1, <1>2, <1>3 DEF CountPacket

LEMMA CountWhileFreeingInv ==
  ASSUME PathInv, MachineAssumption, NEW p \in Path, NEW s \in Session,
         CountWhileFreeing(p, s)
  PROVE  PathInv'
<1> USE DEF PathInv
<1>0. /\ s \in Nat /\ IsListOf(list, Path, PathEntry) /\ cpu = "freeing"
      /\ count \in Nat /\ leaked \in Nat /\ freed \subseteq DOMAIN list
      /\ ~resumed /\ printed = {} /\ UNCHANGED <<resumed, printed, reported>>
      /\ noted' \in [Path -> Nat] /\ IsFiniteSet(DOMAIN list)
      /\ NewPath(s) \in PathEntry
  BY ArrivesType, NewPathIs DEF MachineAssumption, PathTypeOK, CountWhileFreeing
<1>1. CASE UNCHANGED <<list, cpu, freed, count, leaked>>
  BY <1>0, <1>1 DEF PathTypeOK, ListWithinCount, Live
<1>2. CASE /\ p \notin Live /\ count < PathCapacity
           /\ list' = Put(list, p, NewPath(s)) /\ freed' = freed \ {p}
           /\ count' = count + 1 /\ UNCHANGED <<cpu, leaked>>
  <2>1. IsListOf(list', Path, PathEntry) /\ DOMAIN list' = DOMAIN list \cup {p}
    <3>1. PICK e \in PathEntry : e = NewPath(s)
      BY <1>0
    <3>2. QED
      BY <3>1, <1>0, <1>2, PutIs
  <2>2. Live' = Live \cup {p}
    BY <2>1, <1>2 DEF Live
  <2>3. Cardinality(Live') = Cardinality(Live) + 1 /\ Cardinality(Live) \in Nat
    BY <2>2, <1>0, <1>2, LiveGrows
  <2>4. ListWithinCount'
    BY <2>3, <1>0, <1>2, PathListAssumption DEF ListWithinCount
  <2>5. IsFiniteSet(DOMAIN list')
    BY <2>1, <1>0, FS_AddElement
  <2>6. PathTypeOK'
    BY <2>1, <1>0, <1>2 DEF PathTypeOK
  <2>7. QED
    BY <2>4, <2>5, <2>6, <1>0, <1>2
<1>3. CASE count' = count + 1 /\ leaked' = leaked + 1 /\ UNCHANGED <<list, cpu, freed>>
  <2>1. Live' = Live /\ IsFiniteSet(Live)
    BY <1>0, <1>3, FS_Subset DEF Live
  <2>2. Cardinality(Live) \in Nat
    BY <2>1, FS_CardinalityType
  <2>3. ListWithinCount'
    BY <2>1, <2>2, <1>0, <1>3 DEF ListWithinCount
  <2>4. QED
    BY <2>3, <1>0, <1>3 DEF PathTypeOK
<1>4. CASE cpu' = "panic" /\ UNCHANGED <<list, freed, count, leaked>>
  BY <1>0, <1>4 DEF PathTypeOK, ListWithinCount, Live
<1>5. QED
  BY <1>1, <1>2, <1>3, <1>4 DEF CountWhileFreeing

LEMMA ReadPageInv ==
  ASSUME PathInv, NEW n, ReadPage(n)
  PROVE  PathInv'
<1> USE DEF PathInv
<1>0. /\ IsListOf(list, Path, PathEntry) /\ cpu = "idle" /\ freed = {}
      /\ printed \subseteq DOMAIN list /\ reported \in [Path -> Nat]
      /\ UNCHANGED <<list, freed, count, leaked, noted>>
  BY DEF PathTypeOK, ReadPage
<1>1. PICK S \in SUBSET Unread :
        /\ reported' = [p \in Path |->
             IF p \in S THEN reported[p] + Sum(list[p]) ELSE reported[p]]
        /\ IF S = Unread
           THEN /\ cpu' = IF DOMAIN list = {} THEN "idle" ELSE "freeing"
                /\ resumed' = FALSE /\ printed' = {}
           ELSE /\ cpu' = "idle"
                /\ resumed' = TRUE /\ printed' = printed \cup S
  BY DEF ReadPage
<1>2. S \subseteq DOMAIN list
  BY DEF Unread
<1>3. ASSUME NEW p \in DOMAIN list
      PROVE  Sum(list[p]) \in Nat
  BY <1>0, SumType DEF IsListOf
<1>4. reported' \in [Path -> Nat]
  BY <1>0, <1>1, <1>2, <1>3
<1>5. ListWithinCount'
  BY <1>0 DEF ListWithinCount, Live
<1>6. printed' \subseteq DOMAIN list /\ cpu' \in {"idle", "freeing"} /\ resumed' \in BOOLEAN
  BY <1>0, <1>1, <1>2
<1>7. (cpu' # "idle" => ~resumed') /\ (~resumed' => printed' = {})
  BY <1>1
<1>8. PathTypeOK'
  BY <1>0, <1>4, <1>6 DEF PathTypeOK
<1>9. QED
  BY <1>0, <1>5, <1>7, <1>8

LEMMA FreeInv ==
  ASSUME PathInv, FreeNext \/ FreeDone
  PROVE  PathInv'
<1> USE DEF PathInv
<1>1. CASE FreeNext
  <2>1. PICK p \in Live : freed' = freed \cup {p}
    BY <1>1 DEF FreeNext
  <2>2. IsFiniteSet(Live) /\ Live' = Live \ {p}
    BY <2>1, <1>1, FS_Subset DEF FreeNext, Live
  <2>3. /\ Cardinality(Live') = Cardinality(Live) - 1
        /\ Cardinality(Live) \in Nat /\ Cardinality(Live') \in Nat
    BY <2>2, FS_RemoveElement, FS_CardinalityType, FS_Subset
  <2>4. count' = count - 1 /\ leaked' = leaked /\ count \in Nat /\ leaked \in Nat
    BY <1>1 DEF FreeNext, PathTypeOK
  <2>5. ListWithinCount' /\ count' \in Nat
    BY <2>3, <2>4, PathListAssumption DEF ListWithinCount
  <2>6. PathTypeOK'
    BY <2>1, <2>5, <1>1 DEF PathTypeOK, FreeNext, Live
  <2>7. QED
    BY <2>5, <2>6, <1>1 DEF FreeNext
<1>2. CASE FreeDone
  <2>1. IsListOf(list', Path, PathEntry) /\ DOMAIN list' = {} /\ Live' = {} /\ Live = {}
    BY <1>2, NoPathsIs DEF FreeDone, Live
  <2>2. IsFiniteSet(DOMAIN list')
    BY <2>1, FS_EmptySet
  <2>3. ListWithinCount'
    BY <2>1, <1>2 DEF ListWithinCount, FreeDone
  <2>4. PathTypeOK'
    BY <2>1, <1>2 DEF PathTypeOK, FreeDone
  <2>5. QED
    BY <2>2, <2>3, <2>4, <1>2 DEF FreeDone
<1>3. QED
  BY <1>1, <1>2

LEMMA FreshInv ==
  ASSUME PathInv, PathFresh
  PROVE  PathInv'
<1>1. IsListOf(list', Path, PathEntry) /\ DOMAIN list' = {} /\ Live' = {}
  BY NoPathsIs DEF PathFresh, Live
<1>2. Cardinality({}) = 0 /\ IsFiniteSet({})
  BY FS_EmptySet
<1>3. ListWithinCount'
  BY <1>1, <1>2, PathListAssumption DEF ListWithinCount, PathFresh
<1>4. PathTypeOK'
  BY <1>1 DEF PathTypeOK, PathFresh, PathInv
<1>5. QED
  BY <1>1, <1>2, <1>3, <1>4 DEF PathInv, PathFresh

LEMMA PathStepInv ==
  ASSUME PathInv, MachineAssumption, [Next]_vars
  PROVE  PathInv'
<1>1. CASE PathOp
  BY <1>1, CountPacketInv, CountWhileFreeingInv, ReadPageInv, FreeInv DEF PathOp
<1>2. CASE PathFresh
  BY <1>2, FreshInv
<1>3. CASE UNCHANGED pathVars
  BY <1>3 DEF pathVars, PathInv, PathTypeOK, ListWithinCount, Live
<1>4. QED
  BY <1>1, <1>2, <1>3, PathSteps DEF vars

LEMMA PathAlways == Spec => []PathInv
<1>1. Init => PathInv
  BY PathInitInv
<1>2. PathInv /\ [Next]_vars => PathInv'
  BY PathStepInv, MachineAssumption
<1>3. QED
  BY <1>1, <1>2, PTL DEF Spec

(***************************************************************************)
(* For every capacity: the counter covers the path list and the entries    *)
(* that the free loop has lost, and the list stays within its bound, with  *)
(* packets counted between any two turns of that loop.                     *)
(***************************************************************************)
THEOREM ListCounted == Spec => []ListWithinCount
<1>1. PathInv => ListWithinCount
  BY DEF PathInv
<1>2. QED
  BY <1>1, PathAlways, PTL

------------------------------------------------------------------------------
(* The module                                                              *)

ExitSteps == {"unhook", "deaf", "files", "free distances", "free stats", "return"}
Unheard == {"files", "free distances", "free stats", "return"}
Unserved == {"free distances", "free stats", "return"}

\* Entries whose readers and writers walk the lists that hello_exit frees
Walkers == {"wdl", "rxstats", "txstats"}

(***************************************************************************)
(* hello_exit makes the module unreachable step by step before it frees a  *)
(* list, and a fresh module starts with no freed list.                     *)
(***************************************************************************)
UnloadInv ==
  /\ module = "absent" => ~listening /\ ~hooked /\ served = {}
  /\ module = "starting" => ~hooked /\ dangling = {}
  /\ module = "bare" => ~listening /\ ~hooked /\ served \cap Walkers = {}
  /\ module = "leaving" =>
       /\ step # "unhook" => ~hooked
       /\ step \in Unheard => ~listening
       /\ step \in Unserved => served \cap Walkers = {}
  /\ dangling # {} => ~listening /\ ~hooked /\ served \cap Walkers = {}
  /\ onExit \in {"absent", "bare", "stuck"}
  /\ UnloadIsSafe

Where == <<module, step, onExit, listening, hooked, served, dangling, faults>>

LEMMA QuietUnload ==
  ASSUME UnloadInv, UNCHANGED Where
  PROVE  UnloadInv'
BY DEF UnloadInv, Where, UnloadIsSafe

LEMMA PacketsUnload ==
  ASSUME UnloadInv, Receive \/ Transmit
  PROVE  UnloadInv'
<1>1. /\ "stat" \notin dangling /\ module # "absent"
      /\ UNCHANGED <<module, step, onExit, listening, hooked, served, dangling>>
      /\ Walk("stat", TRUE)
  BY DEF UnloadInv, Receive, Transmit
<1>2. faults' = faults
  BY <1>1 DEF Walk
<1>3. QED
  BY <1>1, <1>2, QuietUnload DEF Where

LEMMA InitUnload ==
  ASSUME UnloadInv,
         ScriptInsmod \/ TakeDevice \/ \E file \in ProcFile : CreateEntry(file)
  PROVE  UnloadInv'
<1>1. CASE ScriptInsmod
  <2>1. CASE UNCHANGED kernelVars
    BY <2>1, QuietUnload DEF kernelVars, Where
  <2>2. CASE \E name \in {"found", "missing", "unnamed"} : Insmod(name)
    <3>1. PICK name \in {"found", "missing", "unnamed"} : Insmod(name)
      BY <2>2
    <3>2. /\ module' = "starting" /\ onExit' = "absent" /\ dangling' = {}
          /\ hooked' = hooked /\ faults' = faults /\ ~hooked
      BY <3>1 DEF Insmod, UnloadInv
    <3>3. QED
      BY <3>2 DEF UnloadInv, UnloadIsSafe
  <2>3. QED
    BY <1>1, <2>1, <2>2 DEF ScriptInsmod
<1>2. CASE TakeDevice
  BY <1>2 DEF TakeDevice, UnloadInv, UnloadIsSafe, Unheard, Unserved
<1>3. CASE \E file \in ProcFile : CreateEntry(file)
  <2>1. /\ module = "starting" /\ module' \in {"starting", "stuck"}
        /\ UNCHANGED <<hooked, dangling, onExit>>
        /\ faults' \cap {"freed list", "unloaded code"} = {}
    BY <1>3 DEF CreateEntry, UnloadInv, UnloadIsSafe
  <2>2. QED
    BY <2>1 DEF UnloadInv, UnloadIsSafe
<1>4. QED
  BY <1>1, <1>2, <1>3

LEMMA ExitUnload ==
  ASSUME UnloadInv,
         ExitUnhook \/ ExitDeaf \/ ExitFiles \/ ExitFreeDistances \/ ExitFreeStats
           \/ ExitReturn
  PROVE  UnloadInv'
<1> USE DEF UnloadInv, UnloadIsSafe, Unheard, Unserved, Walkers, Exit
<1>1. CASE ExitUnhook
  BY <1>1 DEF ExitUnhook
<1>2. CASE ExitDeaf
  BY <1>2 DEF ExitDeaf
<1>3. CASE ExitFiles
  BY <1>3 DEF ExitFiles
<1>4. CASE ExitFreeDistances
  BY <1>4 DEF ExitFreeDistances, FreeList
<1>5. CASE ExitFreeStats
  BY <1>5 DEF ExitFreeStats, FreeList
<1>6. CASE ExitReturn
  <2>1. /\ module = "leaving" /\ step = "return" /\ module' = onExit
        /\ ~listening /\ ~hooked /\ served \cap Walkers = {}
        /\ UNCHANGED <<onExit, listening, hooked, dangling>>
    BY <1>6 DEF ExitReturn
  <2>2. faults' \cap {"freed list", "unloaded code"} = {}
    BY <1>6 DEF ExitReturn
  <2>3. served' \cap Walkers = {} /\ (module' = "absent" => served' = {})
    BY <1>6, <2>1 DEF ExitReturn
  <2>4. step' = "none"
    BY <1>6 DEF ExitReturn
  <2>5. module' \notin {"starting", "leaving"}
    BY <2>1
  <2>6. QED
    BY <2>1, <2>2, <2>3, <2>4, <2>5
<1>7. QED
  BY <1>1, <1>2, <1>3, <1>4, <1>5, <1>6

LEMMA UserUnload ==
  ASSUME UnloadInv, NEW d,
         CheckLsmod(d) \/ Work(d) \/ ScriptLaunch \/ ScriptKill
           \/ \E kind \in {"start", "stop"} : RunScript(kind)
  PROVE  UnloadInv'
<1>1. CASE CheckLsmod(d) \/ LogPaths \/ ScriptLaunch \/ ScriptKill
  BY <1>1, QuietUnload DEF CheckLsmod, LogPaths, ScriptLaunch, ScriptKill, kernelVars, Where
<1>2. CASE CopyDistances
  <2>1. UNCHANGED <<module, step, onExit, listening, hooked, served, dangling>>
    BY <1>2 DEF CopyDistances
  <2>2. CASE ~StaleEntry /\ "distance" \in served
    <3>1. ReadDistances
      BY <1>2, <2>2 DEF CopyDistances
    <3>2. CASE Known
      <4>1. Walk("distance", FALSE) /\ "distance" \notin dangling /\ module # "absent"
        BY <3>1, <3>2, <2>2 DEF ReadDistances, Known, StaleEntry
      <4>2. faults' = faults
        BY <4>1 DEF Walk
      <4>3. QED
        BY <2>1, <4>2, QuietUnload DEF Where
    <3>3. CASE ~Known
      BY <2>1, <3>1, <3>3, QuietUnload DEF ReadDistances, Where
    <3>4. QED
      BY <3>2, <3>3
  <2>3. CASE StaleEntry \/ "distance" \notin served
    <3>1. faults' \in {faults, faults \cup {"leftover entry"}}
      BY <1>2, <2>3 DEF CopyDistances
    <3>2. faults' \cap {"freed list", "unloaded code"} = {}
      BY <3>1 DEF UnloadInv, UnloadIsSafe
    <3>3. QED
      BY <2>1, <3>2 DEF UnloadInv, UnloadIsSafe
  <2>4. QED
    BY <2>2, <2>3
<1>3. CASE PackStats
  <2>1. UNCHANGED <<module, step, onExit, listening, hooked, served, dangling>>
    BY <1>3 DEF PackStats
  <2>2. CASE "txstats" \in served /\ Known
    <3>1. Walk("stat", FALSE)
      BY <1>3, <2>2 DEF PackStats, ReadStats
    <3>2. dangling = {} /\ module # "absent"
      BY <2>2 DEF UnloadInv, Walkers
    <3>3. faults' = faults
      BY <3>1, <3>2 DEF Walk
    <3>4. QED
      BY <2>1, <3>3, QuietUnload DEF Where
  <2>3. CASE ~("txstats" \in served /\ Known)
    BY <1>3, <2>1, <2>3, QuietUnload DEF PackStats, ReadStats, Where
  <2>4. QED
    BY <2>2, <2>3
<1>4. CASE WriteDistance
  <2>1. UNCHANGED <<module, step, onExit, listening, hooked, served, dangling>>
    BY <1>4 DEF WriteDistance
  <2>2. CASE "wdl" \in served
    <3>1. Walk("distance", TRUE)
      BY <1>4, <2>2 DEF WriteDistance
    <3>2. dangling = {} /\ module # "absent"
      BY <2>2 DEF UnloadInv, Walkers
    <3>3. faults' = faults
      BY <3>1, <3>2 DEF Walk
    <3>4. QED
      BY <2>1, <3>3, QuietUnload DEF Where
  <2>3. CASE "wdl" \notin served
    BY <1>4, <2>1, <2>3, QuietUnload DEF WriteDistance, Where
  <2>4. QED
    BY <2>2, <2>3
<1>5. CASE \E kind \in {"start", "stop"} : RunScript(kind)
  <2>1. PICK kind \in {"start", "stop"} : RunScript(kind)
    BY <1>5
  <2>2. UNCHANGED <<listening, hooked, served, dangling, faults>>
    BY <2>1 DEF RunScript
  <2>3. CASE module \in {"live", "bare"}
    <3>1. module' = "leaving" /\ step' = "unhook" /\ onExit' = "absent"
      BY <2>1, <2>3 DEF RunScript
    <3>2. QED
      BY <2>2, <2>3, <3>1 DEF UnloadInv, UnloadIsSafe, Unheard, Unserved
  <2>4. CASE module \notin {"live", "bare"}
    BY <2>1, <2>2, <2>4, QuietUnload DEF RunScript, Where
  <2>5. QED
    BY <2>3, <2>4
<1>6. QED
  BY <1>1, <1>2, <1>3, <1>4, <1>5 DEF Work

LEMMA UnloadStep ==
  ASSUME UnloadInv, [Next]_vars
  PROVE  UnloadInv'
<1>1. CASE Free
  BY <1>1, QuietUnload DEF Free, machineVars, Where
<1>2. CASE UNCHANGED vars
  BY <1>2, QuietUnload DEF vars, machineVars, Where
<1>3. CASE \E d \in Daemons : CheckLsmod(d) \/ Work(d)
  BY <1>3, UserUnload
<1>4. CASE ScriptLaunch \/ ScriptKill \/ \E kind \in {"start", "stop"} : RunScript(kind)
  <2>1. PICK d : TRUE
    OBVIOUS
  <2>2. QED
    BY <1>4, UserUnload
<1>5. QED
  BY <1>1, <1>2, <1>3, <1>4, PacketsUnload, InitUnload, ExitUnload DEF Next

(***************************************************************************)
(* For every set of programs, plan and list size: whatever packets,        *)
(* programs and scripts do between the steps of hello_init and hello_exit, *)
(* no packet handler, transmit or reader of an entry that hello_exit takes *)
(* away walks a freed list or runs unloaded code.  /proc/distance, which   *)
(* it does not take away, is excepted: reading it later does both, and is  *)
(* the fault "leftover entry" (CopyDistances).                             *)
(***************************************************************************)
THEOREM UnloadSafe == Spec => []UnloadIsSafe
<1>1. Init => UnloadInv
  BY DEF Init, UnloadInv, UnloadIsSafe, Walkers
<1>2. UnloadInv /\ [Next]_vars => UnloadInv'
  BY UnloadStep
<1>3. UnloadInv => UnloadIsSafe
  BY DEF UnloadInv
<1>4. QED
  BY <1>1, <1>2, <1>3, PTL DEF Spec

------------------------------------------------------------------------------
(* The refinement                                                          *)

Waiting == [p \in Path |-> IF cpu = "idle" /\ p \in Unread THEN Sum(list[p]) ELSE 0]

LEMMA WaitingType ==
  ASSUME PathInv
  PROVE  Waiting \in [Path -> Nat]
<1>1. ASSUME NEW p \in Path, p \in Unread
      PROVE  Sum(list[p]) \in Nat
  <2>1. list[p] \in PathEntry
    BY <1>1 DEF PathInv, PathTypeOK, IsListOf, Unread
  <2>2. QED
    BY <2>1, SumType
<1>2. QED
  BY <1>1 DEF Waiting

LEMMA CountPacketRefines ==
  ASSUME PathInv, MachineAssumption, NEW p \in Path, NEW s \in Session, CountPacket(p, s)
  PROVE  Ledger!Note(p)
<1>0. /\ s \in Nat /\ IsListOf(list, Path, PathEntry) /\ cpu = "idle" /\ cpu' = "idle"
      /\ noted' = [noted EXCEPT ![p] = noted[p] + 1] /\ reported' = reported
      /\ resumed' = resumed /\ printed' = printed /\ printed \subseteq DOMAIN list
      /\ NewPath(s) \in PathEntry /\ Sum(NewPath(s)) \in 0 .. 1
  BY NewPathIs DEF PathInv, PathTypeOK, MachineAssumption, CountPacket, Arrives
<1>1. Waiting \in [Path -> Nat] /\ Waiting[p] \in Nat
  BY WaitingType
<1>2. ASSUME NEW n \in 0 .. Waiting[p] + 1,
             \A q \in Path : Waiting'[q] = IF q = p THEN n ELSE Waiting[q]
      PROVE  Ledger!Note(p)
  <2>1. Waiting' = [Waiting EXCEPT ![p] = n]
    BY <1>2, <1>1 DEF Waiting
  <2>2. QED
    BY <2>1, <1>0 DEF Ledger!Note, Waiting
<1>3. CASE UNCHANGED <<list, count>>
  <2>1. Waiting' = Waiting
    BY <1>3, <1>0 DEF Waiting, Unread
  <2>2. Waiting[p] \in 0 .. Waiting[p] + 1
    BY <1>1
  <2>3. QED
    BY <2>1, <2>2, <1>2
<1>4. CASE p \in DOMAIN list /\ list' = Put(list, p, CountPath(list[p], s))
  <2>1. list[p] \in PathEntry
    BY <1>0, <1>4 DEF IsListOf
  <2>2. PICK e \in PathEntry : e = CountPath(list[p], s) /\ Sum(e) \in 0 .. Sum(list[p]) + 1
    BY <2>1, <1>0, CountPathIs
  <2>3. list' = Put(list, p, e)
    BY <1>4, <2>2
  <2>4. /\ DOMAIN list' = DOMAIN list /\ list'[p] = e
        /\ \A q \in DOMAIN list \ {p} : list'[q] = list[q]
    <3>1. DOMAIN list \cup {p} = DOMAIN list
      BY <1>4
    <3>2. QED
      BY <2>3, <3>1, <1>0, ListPutIs
  <2>5. Unread' = Unread
    BY <2>4, <1>0 DEF Unread
  <2>6. DEFINE n == IF p \in Unread THEN Sum(e) ELSE 0
  <2>7. n \in 0 .. Waiting[p] + 1
    BY <2>2, <1>0, <1>1 DEF Waiting
  <2>8. \A q \in Path : Waiting'[q] = IF q = p THEN n ELSE Waiting[q]
    BY <2>4, <2>5, <1>0 DEF Waiting, Unread
  <2>9. QED
    BY <2>7, <2>8, <1>2
<1>5. CASE p \notin DOMAIN list /\ AddPath(p, s)
  <2>1. PICK e \in PathEntry : e = NewPath(s)
    BY <1>0
  <2>2. list' = Put(list, p, e)
    BY <1>5, <2>1 DEF AddPath
  <2>3. /\ DOMAIN list' = DOMAIN list \cup {p} /\ list'[p] = e
        /\ \A q \in DOMAIN list \ {p} : list'[q] = list[q]
    BY <2>2, <1>0, ListPutIs
  <2>4. Unread' = Unread \cup {p} /\ p \notin Unread
    BY <2>3, <1>0, <1>5 DEF Unread
  <2>5. Sum(e) \in 0 .. Waiting[p] + 1
    BY <2>1, <1>0, <1>1
  <2>6. \A q \in Path : Waiting'[q] = IF q = p THEN Sum(e) ELSE Waiting[q]
    BY <2>3, <2>4, <1>0 DEF Waiting, Unread
  <2>7. QED
    BY <2>5, <2>6, <1>2
<1>6. QED
  BY <1>3, <1>4, <1>5 DEF CountPacket

Nothing == [p \in Path |-> 0]

\* Nothing waits while the entries are being freed, nor when there are none.
LEMMA NothingWaits ==
  /\ cpu # "idle" => Waiting = Nothing
  /\ Unread = {} => Waiting = Nothing
BY DEF Waiting, Nothing

LEMMA NothingWaitsNext ==
  /\ cpu' # "idle" => Waiting' = Nothing
  /\ Unread' = {} => Waiting' = Nothing
BY DEF Waiting, Nothing

LEMMA CountWhileFreeingRefines ==
  ASSUME NEW p \in Path, NEW s \in Session, CountWhileFreeing(p, s)
  PROVE  Ledger!Note(p)
<1>1. /\ cpu = "freeing" /\ cpu' \in {"freeing", "panic"}
      /\ noted' = [noted EXCEPT ![p] = noted[p] + 1] /\ reported' = reported
  BY DEF CountWhileFreeing, Arrives
<1>2. Waiting = Nothing /\ Waiting' = Nothing
  BY <1>1, NothingWaits, NothingWaitsNext
<1>3. 0 \in 0 .. Waiting[p] + 1 /\ Waiting' = [Waiting EXCEPT ![p] = 0]
  BY <1>2 DEF Nothing
<1>4. QED
  BY <1>1, <1>3 DEF Ledger!Note, Waiting

LEMMA ReadPageRefines ==
  ASSUME PathInv, NEW k, ReadPage(k)
  PROVE  \E S \in SUBSET Path : Ledger!Report(S)
<1>0. /\ cpu = "idle" /\ DOMAIN list \subseteq Path /\ (~resumed => printed = {})
      /\ UNCHANGED <<list, noted>>
  BY DEF PathInv, PathTypeOK, IsListOf, ReadPage
<1>1. PICK S \in SUBSET Unread :
        /\ reported' = [p \in Path |->
             IF p \in S THEN reported[p] + Sum(list[p]) ELSE reported[p]]
        /\ IF S = Unread
           THEN /\ cpu' = IF DOMAIN list = {} THEN "idle" ELSE "freeing"
                /\ resumed' = FALSE /\ printed' = {}
           ELSE /\ cpu' = "idle"
                /\ resumed' = TRUE /\ printed' = printed \cup S
  BY DEF ReadPage
<1>2. S \subseteq Path /\ Unread = DOMAIN list \ printed
  BY <1>0 DEF Unread
<1>3. reported' = [p \in Path |-> IF p \in S THEN reported[p] + Waiting[p] ELSE reported[p]]
  BY <1>0, <1>1 DEF Waiting
<1>4. Waiting' = [p \in Path |-> IF p \in S THEN 0 ELSE Waiting[p]]
  <2>1. CASE S = Unread
    <3>1. Waiting' = Nothing
      <4>1. CASE DOMAIN list = {}
        <5>1. Unread' = {}
          BY <4>1, <1>0 DEF Unread
        <5>2. QED
          BY <5>1, NothingWaitsNext
      <4>2. CASE DOMAIN list # {}
        BY <4>2, <2>1, <1>1, NothingWaitsNext
      <4>3. QED
        BY <4>1, <4>2
    <3>2. \A p \in Path : p \notin S => Waiting[p] = 0
      BY <2>1 DEF Waiting
    <3>3. QED
      BY <3>1, <3>2 DEF Nothing
  <2>2. CASE S # Unread
    <3>1. cpu' = "idle" /\ Unread' = Unread \ S
      BY <2>2, <1>0, <1>1, <1>2 DEF Unread
    <3>2. QED
      BY <3>1, <1>0 DEF Waiting
  <2>3. QED
    BY <2>1, <2>2
<1>5. Ledger!Report(S)
  BY <1>0, <1>3, <1>4 DEF Ledger!Report, Waiting
<1>6. QED
  BY <1>2, <1>5

LEMMA FreeRefines ==
  ASSUME FreeNext \/ FreeDone
  PROVE  UNCHANGED <<noted, Waiting, reported>>
<1>1. cpu = "freeing" /\ UNCHANGED <<noted, reported>>
  BY DEF FreeNext, FreeDone
<1>2. Waiting = Nothing
  BY <1>1, NothingWaits
<1>3. CASE FreeNext
  BY <1>1, <1>2, <1>3, NothingWaitsNext DEF FreeNext
<1>4. CASE FreeDone
  <2>1. Unread' = {}
    BY <1>4, NoPathsIs DEF FreeDone, Unread
  <2>2. QED
    BY <2>1, <1>1, <1>2, NothingWaitsNext
<1>5. QED
  BY <1>3, <1>4

LEMMA FreshRefines ==
  ASSUME PathFresh
  PROVE  Ledger!Forget
<1>1. Unread' = {}
  BY NoPathsIs DEF PathFresh, Unread
<1>2. Waiting' = Nothing
  BY <1>1, NothingWaitsNext
<1>3. QED
  BY <1>2 DEF PathFresh, Ledger!Forget, Waiting, Nothing

LEMMA RefinesStep ==
  ASSUME PathInv, MachineAssumption, [Next]_vars
  PROVE  [Ledger!LedgerNext]_(Ledger!ledgerVars)
<1>1. CASE PathOp
  <2>1. CASE \E p \in Path, s \in Session : CountPacket(p, s) \/ CountWhileFreeing(p, s)
    BY <2>1, CountPacketRefines, CountWhileFreeingRefines DEF Ledger!LedgerNext
  <2>2. CASE \E k \in Lines : ReadPage(k)
    BY <2>2, ReadPageRefines DEF Ledger!LedgerNext
  <2>3. CASE FreeNext \/ FreeDone
    BY <2>3, FreeRefines DEF Ledger!ledgerVars, Waiting
  <2>4. QED
    BY <1>1, <2>1, <2>2, <2>3 DEF PathOp
<1>2. CASE PathFresh
  BY <1>2, FreshRefines DEF Ledger!LedgerNext
<1>3. CASE UNCHANGED pathVars
  BY <1>3 DEF pathVars, Ledger!ledgerVars, Unread
<1>4. QED
  BY <1>1, <1>2, <1>3, PathSteps DEF vars

(***************************************************************************)
(* For every set of paths, capacity, counter width and page size the path  *)
(* report keeps the ledger's promise: every step of the machine notes one  *)
(* packet, reports some paths once, forgets the list or changes nothing.   *)
(***************************************************************************)
THEOREM LedgerImplemented == Spec => ImplementsLedger
<1>1. Init => Ledger!LedgerInit
  <2>1. ASSUME Init
        PROVE  Ledger!LedgerInit
    <3>1. Unread = {}
      BY <2>1, NoPathsIs DEF Init, PathInit, Unread
    <3>2. Waiting = Nothing
      BY <3>1, NothingWaits
    <3>3. QED
      BY <2>1, <3>2 DEF Init, PathInit, Ledger!LedgerInit, Waiting, Nothing
  <2>2. QED
    BY <2>1
<1>2. PathInv /\ [Next]_vars => [Ledger!LedgerNext]_(Ledger!ledgerVars)
  BY RefinesStep, MachineAssumption
<1>3. QED
  BY <1>1, <1>2, PathAlways, PTL DEF Spec, ImplementsLedger, Ledger!LedgerSpec

LEMMA NeverTwiceStep ==
  ASSUME PathInv, (Waiting \in [Path -> Nat])', [Ledger!LedgerNext]_(Ledger!ledgerVars), Ledger!NeverTwice
  PROVE  Ledger!NeverTwice'
<1>0. /\ Waiting \in [Path -> Nat] /\ Waiting' \in [Path -> Nat]
      /\ noted \in [Path -> Nat] /\ reported \in [Path -> Nat]
      /\ \A q \in Path : reported[q] + Waiting[q] <= noted[q]
  <2>1. \A q \in Path : reported[q] + Waiting[q] <= noted[q]
    BY DEF Ledger!NeverTwice, Waiting
  <2>2. QED
    BY <2>1, WaitingType DEF PathInv, PathTypeOK
<1>1. SUFFICES ASSUME NEW q \in Path
               PROVE  reported'[q] + Waiting'[q] <= noted'[q]
  BY DEF Ledger!NeverTwice, Waiting
<1>2. /\ Waiting[q] \in Nat /\ noted[q] \in Nat /\ reported[q] \in Nat
      /\ reported[q] + Waiting[q] <= noted[q]
  BY <1>0
<1>3. CASE \E p \in Path : Ledger!Note(p)
  <2>1. PICK p \in Path : Ledger!Note(p)
    BY <1>3
  <2>2. PICK n \in 0 .. Waiting[p] + 1 : Waiting' = [Waiting EXCEPT ![p] = n]
    BY <2>1 DEF Ledger!Note, Waiting
  <2>3. noted' = [noted EXCEPT ![p] = noted[p] + 1] /\ reported' = reported
    BY <2>1 DEF Ledger!Note
  <2>4. CASE q = p
    <3>1. Waiting'[q] = n /\ noted'[q] = noted[q] + 1 /\ reported'[q] = reported[q]
      BY <2>2, <2>3, <2>4, <1>0
    <3>2. QED
      BY <3>1, <2>4, <1>2
  <2>5. CASE q # p
    <3>1. Waiting'[q] = Waiting[q] /\ noted'[q] = noted[q] /\ reported'[q] = reported[q]
      BY <2>2, <2>3, <2>5, <1>0
    <3>2. QED
      BY <3>1, <1>2
  <2>6. QED
    BY <2>4, <2>5
<1>4. CASE \E S \in SUBSET Path : Ledger!Report(S)
  <2>1. PICK S \in SUBSET Path : Ledger!Report(S)
    BY <1>4
  <2>2. /\ reported' = [p \in Path |->
             IF p \in S THEN reported[p] + Waiting[p] ELSE reported[p]]
        /\ Waiting' = [p \in Path |-> IF p \in S THEN 0 ELSE Waiting[p]]
        /\ noted' = noted
    BY <2>1 DEF Ledger!Report, Waiting
  <2>3. QED
    BY <2>2, <1>2
<1>5. CASE Ledger!Forget
  <2>1. Waiting' = Nothing /\ noted' = noted /\ reported' = reported
    BY <1>5 DEF Ledger!Forget, Waiting, Nothing
  <2>2. Waiting'[q] = 0
    BY <2>1 DEF Nothing
  <2>3. QED
    BY <2>1, <2>2, <1>2
<1>6. CASE UNCHANGED Ledger!ledgerVars
  <2>1. Waiting' = Waiting /\ noted' = noted /\ reported' = reported
    BY <1>6 DEF Ledger!ledgerVars, Waiting
  <2>2. QED
    BY <2>1, <1>2
<1>7. QED
  BY <1>3, <1>4, <1>5, <1>6 DEF Ledger!LedgerNext

(***************************************************************************)
(* What the refinement is for: with pages, packets that arrive while the   *)
(* entries are freed, wrapped counters and reloaded modules, no packet is  *)
(* shown in two reports.                                                   *)
(***************************************************************************)
THEOREM NoPacketTwice == Spec => []Ledger!NeverTwice
<1>1. Init => Ledger!NeverTwice
  <2>1. ASSUME Init
        PROVE  Ledger!NeverTwice
    <3>1. Unread = {}
      BY <2>1, NoPathsIs DEF Init, PathInit, Unread
    <3>2. Waiting = Nothing
      BY <3>1, NothingWaits
    <3>3. noted = Nothing /\ reported = Nothing
      BY <2>1 DEF Init, PathInit, Nothing
    <3>4. ASSUME NEW q \in Path
          PROVE  reported[q] + Waiting[q] <= noted[q]
      BY <3>2, <3>3 DEF Nothing
    <3>5. QED
      BY <3>4 DEF Ledger!NeverTwice, Waiting
  <2>2. QED
    BY <2>1
<1>2. PathInv => Waiting \in [Path -> Nat]
  BY WaitingType
<1>3. PathInv /\ (Waiting \in [Path -> Nat])' /\ [Next]_vars /\ Ledger!NeverTwice
        => Ledger!NeverTwice'
  BY RefinesStep, NeverTwiceStep, MachineAssumption
<1>4. QED
  BY <1>1, <1>2, <1>3, PathAlways, PTL DEF Spec

------------------------------------------------------------------------------
(* Types                                                                   *)

Programs == [Daemons -> [Stage -> Nat]]

Modules == {"absent", "starting", "live", "bare", "leaving", "stuck"}
Steps == ProcFile \cup {"none", "device", "unhook", "deaf", "files", "free distances",
                        "free stats", "return"}
Exits == {"absent", "bare", "stuck"}
Devices == {"found", "missing", "unnamed"}
Faults == {"freed list", "unloaded code", "no timer", "no device", "double free",
           "leftover entry"}
Scripts == {"idle", "start", "loading", "stop"}
PlanRecords == [scripts : Nat, packets : Nat, programs : SUBSET Daemons]

MachineTypeOK ==
  /\ module \in Modules /\ step \in Steps /\ onExit \in Exits /\ device \in Devices
  /\ listening \in BOOLEAN /\ hooked \in BOOLEAN
  /\ served \subseteq ProcFile /\ leftover \subseteq ProcFile
  /\ lists \subseteq Lists /\ dangling \subseteq Lists
  /\ faults \subseteq Faults
  /\ running \in Programs /\ script \in Scripts /\ plan \in PlanRecords

LEMMA PlanType ==
  ASSUME NEW q \in PlanRecords, NEW n \in Nat
  PROVE  /\ [q EXCEPT !.scripts = n] \in PlanRecords
         /\ [q EXCEPT !.packets = n] \in PlanRecords
BY DEF PlanRecords

LEMMA FewerType ==
  ASSUME NEW q \in PlanRecords
  PROVE  /\ q.scripts > 0 => q.scripts - 1 \in Nat
         /\ q.packets > 0 => q.packets - 1 \in Nat
BY DEF PlanRecords

LEMMA MovesType ==
  ASSUME running \in Programs, NEW d \in Daemons, NEW from \in Stage, NEW to \in Stage,
         from # to, running[d][from] > 0, Moves(d, from, to) \/ Dies(d, from)
  PROVE  running' \in Programs
BY DEF Programs, Moves, Dies

LEMMA WalkType ==
  ASSUME MachineTypeOK, NEW l \in Lists, NEW add, Walk(l, add)
  PROVE  lists' \subseteq Lists /\ (faults \subseteq faults')
         /\ faults' \subseteq faults \cup {"freed list", "unloaded code"}
BY DEF MachineTypeOK, Walk

LEMMA NextStepType ==
  ASSUME NEW file \in ProcFile
  PROVE  NextStep(file) \in ProcFile \cup {"device"}
BY DEF NextStep, ProcFile

LEMMA PacketsType ==
  ASSUME MachineTypeOK, Receive \/ Transmit
  PROVE  MachineTypeOK'
<1>1. Walk("stat", TRUE) /\ "stat" \in Lists
  BY DEF Receive, Transmit, Lists
<1>2. /\ lists' \subseteq Lists
      /\ faults' \subseteq Faults
  BY <1>1, WalkType DEF MachineTypeOK, Faults
<1>3. CASE Receive
  <2>1. plan' \in PlanRecords
    <3>1. PICK n \in Nat : n = plan.packets - 1
      BY <1>3, FewerType DEF Receive, MachineTypeOK
    <3>2. plan' = [plan EXCEPT !.packets = n]
      BY <1>3, <3>1 DEF Receive
    <3>3. QED
      BY <3>2, PlanType DEF MachineTypeOK
  <2>2. QED
    BY <1>2, <1>3, <2>1 DEF Receive, MachineTypeOK
<1>4. CASE Transmit
  BY <1>2, <1>4 DEF Transmit, MachineTypeOK, userVars
<1>5. QED
  BY <1>3, <1>4

LEMMA InsmodType ==
  ASSUME MachineTypeOK, NEW name \in {"found", "missing", "unnamed"}, Insmod(name),
         script' = "loading", UNCHANGED <<running, plan>>
  PROVE  MachineTypeOK'
<1>1. /\ "starting" \in Modules /\ "wdl" \in Steps /\ "absent" \in Exits
      /\ name \in Devices /\ "loading" \in Scripts
  BY DEF Modules, Steps, Exits, Devices, Scripts, ProcFile
<1>2. QED
  BY <1>1 DEF Insmod, MachineTypeOK

LEMMA InitType ==
  ASSUME MachineTypeOK,
         ScriptInsmod \/ TakeDevice \/ \E file \in ProcFile : CreateEntry(file)
  PROVE  MachineTypeOK'
<1>1. CASE ScriptInsmod
  <2>1. CASE \E name \in {"found", "missing", "unnamed"} :
                 Insmod(name) /\ script' = "loading"
    BY <1>1, <2>1, InsmodType DEF ScriptInsmod
  <2>2. CASE script' = "idle" /\ UNCHANGED kernelVars
    BY <1>1, <2>2 DEF ScriptInsmod, MachineTypeOK, kernelVars, Scripts
  <2>3. QED
    BY <1>1, <2>1, <2>2 DEF ScriptInsmod
<1>2. CASE TakeDevice
  BY <1>2 DEF TakeDevice, MachineTypeOK, userVars, Modules, Steps, Exits
<1>3. CASE \E file \in ProcFile : CreateEntry(file)
  <2>1. PICK file \in ProcFile : CreateEntry(file)
    BY <1>3
  <2>2. NextStep(file) \in ProcFile \cup {"device"}
    BY NextStepType
  <2>3. served' \subseteq ProcFile /\ step' \in Steps
    BY <2>1, <2>2 DEF CreateEntry, MachineTypeOK, Steps
  <2>4. module' \in Modules /\ faults' \subseteq Faults
    BY <2>1 DEF CreateEntry, MachineTypeOK, Modules, Faults
  <2>5. UNCHANGED <<onExit, device, listening, hooked, leftover, lists, dangling, userVars>>
    BY <2>1 DEF CreateEntry
  <2>6. QED
    BY <2>3, <2>4, <2>5 DEF MachineTypeOK, userVars
<1>4. QED
  BY <1>1, <1>2, <1>3

LEMMA ExitType ==
  ASSUME MachineTypeOK,
         ExitUnhook \/ ExitDeaf \/ ExitFiles \/ ExitFreeDistances \/ ExitFreeStats
           \/ ExitReturn
  PROVE  MachineTypeOK'
<1> USE DEF MachineTypeOK, Exit, userVars, Steps
<1>1. CASE ExitUnhook
  BY <1>1 DEF ExitUnhook
<1>2. CASE ExitDeaf
  BY <1>2 DEF ExitDeaf
<1>3. CASE ExitFiles
  BY <1>3 DEF ExitFiles
<1>4. CASE ExitFreeDistances
  BY <1>4 DEF ExitFreeDistances, FreeList, Faults, Lists
<1>5. CASE ExitFreeStats
  BY <1>5 DEF ExitFreeStats, FreeList, Faults, Lists
<1>6. CASE ExitReturn
  BY <1>6 DEF ExitReturn, Faults, Modules, Exits
<1>7. QED
  BY <1>1, <1>2, <1>3, <1>4, <1>5, <1>6

LEMMA ScriptsType ==
  ASSUME MachineTypeOK,
         ScriptLaunch \/ ScriptKill \/ \E kind \in {"start", "stop"} : RunScript(kind)
  PROVE  MachineTypeOK'
<1>1. CASE ScriptLaunch
  <2>1. ASSUME NEW d \in Daemons
        PROVE  [running[d] EXCEPT !["top"] = @ + 1] \in [Stage -> Nat]
    <3>1. running[d] \in [Stage -> Nat] /\ "top" \in Stage
      BY DEF MachineTypeOK, Programs, Stage
    <3>2. running[d]["top"] + 1 \in Nat
      BY <3>1
    <3>3. QED
      BY <3>1, <3>2
  <2>2. running' \in Programs
    BY <1>1, <2>1 DEF ScriptLaunch, MachineTypeOK, Programs
  <2>3. QED
    BY <1>1, <2>2 DEF ScriptLaunch, MachineTypeOK, kernelVars, Scripts
<1>2. CASE ScriptKill
  <2>1. running' \in Programs
    BY <1>2 DEF ScriptKill, MachineTypeOK, Programs
  <2>2. QED
    BY <1>2, <2>1 DEF ScriptKill, MachineTypeOK, kernelVars, Scripts
<1>3. CASE \E kind \in {"start", "stop"} : RunScript(kind)
  <2>1. PICK kind \in {"start", "stop"} : RunScript(kind)
    BY <1>3
  <2>2. plan' \in PlanRecords
    <3>1. PICK n \in Nat : n = plan.scripts - 1
      BY <2>1, FewerType DEF RunScript, MachineTypeOK
    <3>2. plan' = [plan EXCEPT !.scripts = n]
      BY <2>1, <3>1 DEF RunScript
    <3>3. QED
      BY <3>2, PlanType DEF MachineTypeOK
  <2>3. module' \in Modules /\ step' \in Steps /\ onExit' \in Exits /\ script' \in Scripts
    BY <2>1 DEF RunScript, MachineTypeOK, Modules, Steps, Exits, Scripts
  <2>4. QED
    BY <2>1, <2>2, <2>3 DEF RunScript, MachineTypeOK
<1>4. QED
  BY <1>1, <1>2, <1>3

LEMMA WorkType ==
  ASSUME MachineTypeOK, NEW d \in Daemons, CheckLsmod(d) \/ Work(d)
  PROVE  MachineTypeOK'
<1>0. running \in Programs /\ "top" \in Stage /\ "busy" \in Stage /\ "top" # "busy"
  BY DEF MachineTypeOK, Stage
<1>1. running' \in Programs
  <2>1. PICK from \in Stage, to \in Stage :
          /\ from # to /\ running[d][from] > 0
          /\ Moves(d, from, to) \/ Dies(d, from)
    BY <1>0 DEF CheckLsmod, Work, LogPaths, CopyDistances, PackStats, WriteDistance
  <2>2. QED
    BY <2>1, <1>0, MovesType
<1>2. /\ lists' \subseteq Lists
      /\ faults' \subseteq faults \cup {"freed list", "unloaded code", "leftover entry"}
  <2>0. "stat" \in Lists /\ "distance" \in Lists
    BY DEF Lists
  <2>1. CASE UNCHANGED kernelVars
    BY <2>1 DEF kernelVars, MachineTypeOK
  <2>2. CASE UNCHANGED <<lists, faults>>
    BY <2>2 DEF MachineTypeOK
  <2>3. CASE faults' = faults \cup {"leftover entry"} /\ UNCHANGED lists
    BY <2>3 DEF MachineTypeOK
  <2>4. CASE \E l \in Lists, add \in BOOLEAN : Walk(l, add)
    BY <2>4, WalkType
  <2>5. QED
    BY <2>0, <2>1, <2>2, <2>3, <2>4
       DEF CheckLsmod, Work, LogPaths, CopyDistances, PackStats, WriteDistance,
           ReadStats, ReadDistances
<1>3. UNCHANGED <<module, step, onExit, device, listening, hooked, served, leftover,
                  dangling, script, plan>>
  BY DEF CheckLsmod, Work, LogPaths, CopyDistances, PackStats, WriteDistance, kernelVars
<1>4. faults' \subseteq Faults
  BY <1>2 DEF MachineTypeOK, Faults
<1>5. QED
  BY <1>1, <1>2, <1>3, <1>4 DEF MachineTypeOK

(***************************************************************************)
(* Every variable of the machine keeps its type, for any set of programs:  *)
(* no script takes a program away that does not run.                       *)
(***************************************************************************)
THEOREM MachineTypeCorrect == Spec => []TypeOK
<1>1. Init => MachineTypeOK
  <2>1. SUFFICES ASSUME Init
                 PROVE  MachineTypeOK
    OBVIOUS
  <2>2. plan \in PlanRecords
    BY <2>1, MachineAssumption DEF Init, PlanRecords
  <2>3. running \in Programs
    BY <2>1 DEF Init, Programs
  <2>4. QED
    BY <2>1, <2>2, <2>3
       DEF Init, MachineTypeOK, Modules, Steps, Exits, Devices, Scripts
<1>2. MachineTypeOK /\ [Next]_vars => MachineTypeOK'
  <2>1. SUFFICES ASSUME MachineTypeOK, [Next]_vars
                 PROVE  MachineTypeOK'
    OBVIOUS
  <2>2. CASE Free
    BY <2>1, <2>2 DEF Free, machineVars, MachineTypeOK
  <2>3. CASE UNCHANGED vars
    BY <2>1, <2>3 DEF vars, machineVars, MachineTypeOK
  <2>4. QED
    BY <2>1, <2>2, <2>3, PacketsType, InitType, ExitType, ScriptsType, WorkType DEF Next
<1>3. MachineTypeOK /\ PathInv => TypeOK
  BY DEF MachineTypeOK, Programs, Modules, Steps, Exits, Devices, Faults, Scripts,
         PlanRecords, PathInv, TypeOK
<1>4. QED
  BY <1>1, <1>2, <1>3, PathAlways, PTL DEF Spec
==============================================================================
