----------------------------- MODULE PathReport ------------------------------
(***************************************************************************)
(* How /proc/wdl reports the path list page by page and then frees it      *)
(* (src/src/proc_functions.c, src/src/path_list_functions.c), with the     *)
(* packets that are counted meanwhile.  One CPU: a read is not preempted   *)
(* by another process, but a packet may arrive between any two steps of    *)
(* the loop that frees the entries.                                        *)
(***************************************************************************)
EXTENDS PathList

CONSTANT Path      \* a source and its three forwarders

VARIABLES
  list,       \* path_head: the entries reached from it, the freed ones too
  resumed,    \* read_flag: the last page ended before the list did
  printed,    \* the entries before tmp, where the next page starts
  cpu,        \* "idle", "freeing" inside free_entire_path_list, or "panic"
  freed,      \* the entries the loop has given to kfree
  count,      \* g_path_list_count
  leaked,     \* history: entries counted that no pointer reaches any more
  noted,      \* history: packets that arrived on each path
  reported    \* history: packets that some page has shown

pathVars == <<list, resumed, printed, cpu, freed, count, leaked, noted, reported>>

Live == DOMAIN list \ freed
Sum(e) == e.num + e.prevNum

PathInit ==
  /\ list = NoPaths /\ resumed = FALSE /\ printed = {}
  /\ cpu = "idle" /\ freed = {} /\ count = 0 /\ leaked = 0
  /\ noted = [p \in Path |-> 0] /\ reported = [p \in Path |-> 0]

------------------------------------------------------------------------------
Arrives(path) == noted' = [noted EXCEPT ![path] = @ + 1]

\* Mutant: the first entry of an empty list is not counted
UncountedHead(path, session) ==
  /\ DOMAIN list = {} \/ count < PathCapacity
  /\ list' = Put(list, path, NewPath(session))
  /\ count' = IF DOMAIN list = {} THEN count ELSE count + 1

\* The first entry is added without a look at the number of entries.
AddPath(path, session) ==
  /\ DOMAIN list = {} \/ count < PathCapacity
  /\ list' = Put(list, path, NewPath(session))
  /\ count' = count + 1

\* add_or_update_path_entry, as long as the list is whole
CountPacket(path, session) ==
  /\ cpu = "idle"
  /\ Arrives(path)
  /\ \/ /\ path \in DOMAIN list
        /\ list' = Put(list, path, CountPath(list[path], session))
        /\ UNCHANGED count
     \/ path \notin DOMAIN list /\ AddPath(path, session)
     \/ /\ path \notin DOMAIN list /\ DOMAIN list # {} /\ count >= PathCapacity
        /\ UNCHANGED <<list, count>>
  /\ UNCHANGED <<resumed, printed, cpu, freed, leaked, reported>>

\* The same while the entries are being freed: the walk passes through freed
\* memory.  It may fault; it may find the path in what is left of an entry; or
\* it appends, to an entry that the loop has still to free or to one that it
\* has already left, whose successor is then lost.
CountWhileFreeing(path, session) ==
  /\ cpu = "freeing"
  /\ Arrives(path)
  /\ \/ /\ path \in DOMAIN list \/ count >= PathCapacity
        /\ UNCHANGED <<list, cpu, freed, count, leaked>>
     \/ /\ path \notin Live /\ Live # {} /\ count < PathCapacity
        /\ list' = Put(list, path, NewPath(session))
        /\ freed' = freed \ {path}
        /\ count' = count + 1
        /\ UNCHANGED <<cpu, leaked>>
     \/ /\ path \notin Live /\ Cardinality(Live) <= 1 /\ count < PathCapacity
        /\ count' = count + 1
        /\ leaked' = leaked + 1
        /\ UNCHANGED <<list, cpu, freed>>
     \/ /\ freed # {}
        /\ cpu' = "panic"
        /\ UNCHANGED <<list, freed, count, leaked>>
  /\ UNCHANGED <<resumed, printed, reported>>

------------------------------------------------------------------------------
\* Mutant: the next page starts at the head again
UnreadFromHead == DOMAIN list

Unread == IF resumed THEN DOMAIN list \ printed ELSE DOMAIN list

\* wdl_read with room for lines entries in the page: the entries are freed
\* once the last of them has been printed.
ReadPage(lines) ==
  /\ cpu = "idle"
  /\ \E S \in SUBSET Unread :
       /\ Cardinality(S) <= lines
       /\ S = Unread \/ Cardinality(S) = lines
       /\ reported' = [p \in Path |->
            IF p \in S THEN reported[p] + Sum(list[p]) ELSE reported[p]]
       /\ IF S = Unread
          THEN /\ cpu' = IF DOMAIN list = {} THEN "idle" ELSE "freeing"
               /\ resumed' = FALSE /\ printed' = {}
          ELSE /\ cpu' = "idle"
               /\ resumed' = TRUE /\ printed' = printed \cup S
  /\ UNCHANGED <<list, freed, count, leaked, noted>>

\* One turn of the loop of free_entire_path_list
FreeNext ==
  /\ cpu = "freeing"
  /\ \E p \in Live : freed' = freed \cup {p}
  /\ count' = count - 1
  /\ UNCHANGED <<list, resumed, printed, cpu, leaked, noted, reported>>

\* Mutant: path_head keeps pointing to the entries, as the heads of the other
\* lists do after theirs were freed
FreeKeepsHead ==
  /\ cpu = "freeing" /\ Live = {}
  /\ freed' = {} /\ cpu' = "idle"
  /\ UNCHANGED <<list, resumed, printed, count, leaked, noted, reported>>

FreeDone ==
  /\ cpu = "freeing" /\ Live = {}
  /\ list' = NoPaths /\ freed' = {} /\ cpu' = "idle"
  /\ UNCHANGED <<resumed, printed, count, leaked, noted, reported>>

------------------------------------------------------------------------------
PathTypeOK ==
  /\ IsListOf(list, Path, PathEntry)
  /\ resumed \in BOOLEAN /\ printed \subseteq DOMAIN list
  /\ cpu \in {"idle", "freeing", "panic"} /\ freed \subseteq DOMAIN list
  /\ count \in Nat /\ leaked \in Nat
  /\ noted \in [Path -> Nat] /\ reported \in [Path -> Nat]

(***************************************************************************)
(* The counter that bounds the list never falls below what the list holds, *)
(* and the list never outgrows its bound, in spite of the packets that are *)
(* counted while the entries are freed (path_list_functions.c, 84 and 182):*)
(* an entry that is lost there may make the list smaller for ever, never   *)
(* larger.                                                                 *)
(***************************************************************************)
ListWithinCount ==
  /\ count = Cardinality(Live) + leaked
  /\ Cardinality(Live) <= PathCapacity

(***************************************************************************)
(* The pages of /proc/wdl report every counted packet at most once: a read *)
(* that resumes after an earlier page shows the rest of the list, and the  *)
(* free at its end forgets what came too late (proc_functions.c, 89-167).  *)
(***************************************************************************)
Ledger == INSTANCE PathLedger WITH
  waiting <- [p \in Path |->
    IF cpu = "idle" /\ p \in Unread THEN Sum(list[p]) ELSE 0]
ImplementsLedger == Ledger!LedgerSpec
==============================================================================
