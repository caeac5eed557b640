---------------------------- MODULE DistanceList -----------------------------
(***************************************************************************)
(* The effective distances a node knows                                    *)
(* (src/src/distance_list_functions.c), as operators on one node's list.   *)
(***************************************************************************)
EXTENDS KernelList

CONSTANT DistanceCapacity   \* 50, the literal bound on g_distance_list_count

ASSUME DistanceListAssumption == DistanceCapacity \in Nat \ {0}

Distance == 0 .. 255      \* uint8_t
Unknown  == 255

NoDistances == [d \in {} |-> Unknown]

\* search_for_distance
DistanceTo(list, d) == IF d \in DOMAIN list THEN list[d] ELSE Unknown

\* add_or_update_entry
SetDistance(list, d, value) ==
  IF d \in DOMAIN list \/ HasRoom(list, DistanceCapacity)
    THEN Put(list, d, value)
    ELSE list
==============================================================================
