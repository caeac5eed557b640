----------------------------- MODULE KernelList ------------------------------
(***************************************************************************)
(* The kernel module's linked lists as functions from keys to entries.     *)
(* Every list appends a new entry at the end, after a search found no      *)
(* entry of the same key; a list of bounded size drops the new entry when  *)
(* it is full.  Order only decides which of several expired entries the    *)
(* session timer collects first, and that choice is left open.             *)
(***************************************************************************)
EXTENDS Integers, FiniteSets

IsListOf(list, keys, entries) ==
  /\ list \in [DOMAIN list -> entries]
  /\ DOMAIN list \subseteq keys

Put(list, key, value) ==
  [k \in DOMAIN list \cup {key} |-> IF k = key THEN value ELSE list[k]]

Drop(list, key) == [k \in DOMAIN list \ {key} |-> list[k]]

\* Mutant: one entry too many
HasRoomForOneMore(list, capacity) == Cardinality(DOMAIN list) <= capacity

HasRoom(list, capacity) == Cardinality(DOMAIN list) < capacity
==============================================================================
