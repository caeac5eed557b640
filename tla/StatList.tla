------------------------------ MODULE StatList -------------------------------
(***************************************************************************)
(* The kernel module's reception, transmission and forwarding counters     *)
(* (src/src/stat_list_functions.c) as operators on one node's list.  A     *)
(* list is a function from the addresses it has an entry for to entries;   *)
(* the order of the C list matters to nothing but which of several expired *)
(* entries is collected first, and that choice is left open.               *)
(*                                                                         *)
(* The wall clock (last_recv_time) is counted in firings of the 30 s       *)
(* session timer: age is the number of firings since the last reception.   *)
(***************************************************************************)
EXTENDS KernelList

CONSTANTS
  Bcast,          \* bcast_mac
  Ignored,        \* the multicast addresses check_ignore_mac skips
  StatCapacity,   \* 50, the literal bound on g_stat_list_count
  ExpiryTicks,    \* the firing at which an unrefreshed entry is expired
  Counts          \* the counters are 32-bit integers that wrap: modulo Counts

ASSUME StatListAssumption ==
  /\ StatCapacity \in Nat \ {0}
  /\ ExpiryTicks \in Nat \ {0}
  /\ Counts \in Nat \ {0, 1}
  /\ Bcast \notin Ignored

(***************************************************************************)
(* One struct stat_list: what was received, broadcasts apart, what was     *)
(* sent and what was relayed, each in the current session and in the last  *)
(* one.  age = ExpiryTicks also stands for the zero last_recv_time of an   *)
(* entry that was never received from.                                     *)
(***************************************************************************)
Count == 0 .. Counts - 1

RxTally == [session : Nat, num : Count, bcast : Count,
            lastSession : Nat, lastNum : Count, lastBcast : Count]
Tally == [session : Nat, num : Count, lastSession : Nat, lastNum : Count]

StatEntry == [rx : RxTally, tx : Tally, fwd : Tally, age : 0 .. ExpiryTicks]

\* memset(new, 0, sizeof(struct stat_list))
NoRx == [session |-> 0, num |-> 0, bcast |-> 0,
         lastSession |-> 0, lastNum |-> 0, lastBcast |-> 0]
NoTally == [session |-> 0, num |-> 0, lastSession |-> 0, lastNum |-> 0]

BlankEntry == [rx |-> NoRx, tx |-> NoTally, fwd |-> NoTally, age |-> ExpiryTicks]

EmptyList == [m \in {} |-> BlankEntry]

\* The stored session id is from before the counter wrapped, the new one after.
SessionWrapped(stored, session) == stored > 4 /\ session < 2

------------------------------------------------------------------------------
(* search_and_update_stat *)

\* Mutant: the counter does not wrap
BumpPastWidth(num, by) == num + by

Bump(num, by) == (num + by) % Counts

\* tx_rx_flag = 0: a packet of the given session was received
CountRx(r, session, isBroadcast) ==
  LET one   == IF isBroadcast THEN 0 ELSE 1
      other == IF isBroadcast THEN 1 ELSE 0
  IN  CASE SessionWrapped(r.session, session) ->
             \* only the counter of this kind of packet starts again
             [session |-> session, num |-> IF isBroadcast THEN r.num ELSE 1,
              bcast |-> IF isBroadcast THEN 1 ELSE r.bcast,
              lastSession |-> 0, lastNum |-> 0, lastBcast |-> 0]
        [] ~SessionWrapped(r.session, session) /\ session > r.session ->
             [session |-> session, num |-> one, bcast |-> other,
              lastSession |-> r.session, lastNum |-> r.num, lastBcast |-> r.bcast]
        [] OTHER -> [r EXCEPT !.num = Bump(@, one), !.bcast = Bump(@, other)]

\* tx_rx_flag = 1 and 2: a packet was sent, or relayed, in the given session
CountOut(t, session) ==
  CASE SessionWrapped(t.session, session) ->
         [session |-> session, num |-> 1, lastSession |-> 0, lastNum |-> 0]
    [] ~SessionWrapped(t.session, session) /\ session > t.session ->
         [session |-> session, num |-> 1, lastSession |-> t.session, lastNum |-> t.num]
    [] OTHER -> [t EXCEPT !.num = Bump(@, 1)]

------------------------------------------------------------------------------
(* add_or_update_stat_entry: an entry that exists is updated, a missing one *)
(* is added while there is room, and ignored addresses change nothing.      *)

Received(e, session, isBroadcast) ==
  [e EXCEPT !.rx = CountRx(e.rx, session, isBroadcast), !.age = 0]

Transmitted(e, session) == [e EXCEPT !.tx = CountOut(e.tx, session)]
Forwarded(e, session) == [e EXCEPT !.fwd = CountOut(e.fwd, session)]

\* A new entry starts from zero in the session of its first packet.
NewRx(session) == [BlankEntry EXCEPT !.rx = [NoRx EXCEPT !.session = session]]
NewTx(session) == [BlankEntry EXCEPT !.tx = [NoTally EXCEPT !.session = session]]
NewFwd(session) == [BlankEntry EXCEPT !.fwd = [NoTally EXCEPT !.session = session]]

StatRx(list, mac, session, dest) ==
  CASE {mac, dest} \cap Ignored # {} -> list
    [] {mac, dest} \cap Ignored = {} /\ mac \in DOMAIN list ->
         Put(list, mac, Received(list[mac], session, dest = Bcast))
    [] {mac, dest} \cap Ignored = {} /\ mac \notin DOMAIN list /\ HasRoom(list, StatCapacity) ->
         Put(list, mac, Received(NewRx(session), session, dest = Bcast))
    [] OTHER -> list

StatTx(list, mac, session) ==
  CASE mac \in Ignored -> list
    [] mac \notin Ignored /\ mac \in DOMAIN list ->
         Put(list, mac, Transmitted(list[mac], session))
    [] mac \notin Ignored /\ mac \notin DOMAIN list /\ HasRoom(list, StatCapacity) ->
         Put(list, mac, Transmitted(NewTx(session), session))
    [] OTHER -> list

StatFwd(list, mac, session) ==
  CASE mac \in Ignored -> list
    [] mac \notin Ignored /\ mac \in DOMAIN list ->
         Put(list, mac, Forwarded(list[mac], session))
    [] mac \notin Ignored /\ mac \notin DOMAIN list /\ HasRoom(list, StatCapacity) ->
         Put(list, mac, Forwarded(NewFwd(session), session))
    [] OTHER -> list

------------------------------------------------------------------------------
(* collect_garbage_entries, run by the session timer: at most one expired   *)
(* entry goes, never the broadcast one.                                     *)

\* The list as the timer sees it, one more firing after every last reception
Aged(list) ==
  [m \in DOMAIN list |->
     [list[m] EXCEPT !.age = IF @ < ExpiryTicks THEN @ + 1 ELSE @]]

Expired(list) == {m \in DOMAIN list \ {Bcast} : Aged(list)[m].age = ExpiryTicks}
==============================================================================
