------------------------------ MODULE PathList -------------------------------
(***************************************************************************)
(* The per-path packet counters that /proc/wdl reports                     *)
(* (src/src/path_list_functions.c), as operators on one node's list: a     *)
(* function from paths to entries.  A path is the source followed by the   *)
(* three forwarder addresses of the packet's header.                       *)
(***************************************************************************)
EXTENDS KernelList

CONSTANTS
  PathCapacity,   \* 50, the literal bound on g_path_list_count
  Byte            \* counters and session ids are uint8_t: modulo Byte

ASSUME PathListAssumption == PathCapacity \in Nat \ {0} /\ Byte \in Nat \ {0}

PathEntry == [session : Nat, num : 0 .. Byte - 1,
              prevSession : Nat, prevNum : 0 .. Byte - 1]

NewPath(session) ==
  [session |-> session, num |-> 1 % Byte, prevSession |-> 0, prevNum |-> 0]

NoPaths == [p \in {} |-> NewPath(0)]

\* search_and_update_path
CountPath(e, session) ==
  CASE e.session > 4 /\ session < 2 -> NewPath(session)
    [] ~(e.session > 4 /\ session < 2) /\ session > e.session ->
         [session |-> session, num |-> 1 % Byte,
          prevSession |-> e.session, prevNum |-> e.num]
    [] OTHER -> [e EXCEPT !.num = (@ + 1) % Byte]

\* add_or_update_path_entry
PathRx(list, path, session) ==
  CASE path \in DOMAIN list -> Put(list, path, CountPath(list[path], session))
    [] path \notin DOMAIN list /\ HasRoom(list, PathCapacity) ->
         Put(list, path, NewPath(session))
    [] OTHER -> list
==============================================================================
