------------------------------- MODULE Routing -------------------------------
(***************************************************************************)
(* The arithmetic of LifeNet's forwarding decision (src/src/main_module.c  *)
(* and src/src/main.h): how two packet timestamps are compared, when a     *)
(* node relays a packet that is addressed to somebody else, and how many   *)
(* times the source puts a packet on the air.                              *)
(*                                                                         *)
(* A stamp is the pair <<seconds, fraction>> of a mymanet_header.  The     *)
(* fraction is compared exactly as it arrives: the sender stores           *)
(* htonl(tv_usec) and no receiver undoes it, so on a little-endian node    *)
(* the compared number is the byte-swapped one.  NetFrac is that number    *)
(* as a function of the microseconds; it is the identity on a big-endian   *)
(* router.                                                                 *)
(***************************************************************************)
EXTENDS DistanceList

CONSTANTS
  Alpha,      \* mymanet_alpha, a module parameter
  Beta,       \* mymanet_beta, a module parameter
  Second,     \* microseconds per second, 1000000 in difftime
  Window,     \* OUT_OF_ORDER_WINDOW
  Word,       \* uint32_t arithmetic is modulo Word
  Micros,     \* the values tv_usec can take
  NetFrac     \* the fraction a receiver reads for each of them

ASSUME RoutingAssumption ==
  /\ Alpha \in Int
  /\ Beta \in Int
  /\ Second \in Nat
  /\ Window \in Nat
  /\ Word \in Nat \ {0}
  /\ Micros \subseteq Nat
  /\ NetFrac \in [Micros -> 0 .. Word - 1]
  \* byte order never makes two fractions equal
  /\ \A u, v \in Micros : NetFrac[u] = NetFrac[v] => u = v

MaxHops  == 4             \* MAX_HOPS
RtxCount == 10            \* RTX_CNT

Stamp   == Nat \X (0 .. Word - 1)
NoStamp == <<0, 0>>       \* search_for_timestamp of a source not listed

\* What the stamp of a packet sent at time t reads as on reception.
OnTheWire(t) == <<t[1], NetFrac[t[2]]>>

------------------------------------------------------------------------------
(* difftime: the age of a packet relative to the stored stamp of its source *)

Ages == {"NEW", "OLD", "DUPLICATE", "OUT_OF_ORDER"}

\* Mutant: one second too many before a packet counts as OLD
DifftimeLenient(old, new) ==
  CASE \/ new[1] > old[1]
       \/ new[1] = old[1] /\ new[2] > old[2]          -> "NEW"
    [] new = old                                      -> "DUPLICATE"
    [] new[1] = old[1] /\ new[2] < old[2]             -> "OUT_OF_ORDER"
    [] new[1] < old[1] - 2                            -> "OLD"
    [] OTHER                                          -> "OUT_OF_ORDER"

Difftime(old, new) ==
  CASE \/ new[1] > old[1]
       \/ new[1] = old[1] /\ new[2] > old[2]          -> "NEW"
    [] new = old                                      -> "DUPLICATE"
    [] new[1] = old[1] /\ new[2] < old[2]             -> "OUT_OF_ORDER"
    [] \/ new[1] < old[1] - 1
       \/ /\ new[1] = old[1] - 1
          /\ (Second - new[2] + old[2]) % Word > Window -> "OLD"
    [] OTHER                                          -> "OUT_OF_ORDER"

(* The stamp the timestamp list holds for a source after a packet to relay  *)
(* from it: an absent entry is added, a NEW or OUT_OF_ORDER one replaces it. *)
\* Mutant: an existing entry only gets the new seconds
StampAfterHalf(old, new) ==
  IF old[1] = 0 THEN new
  ELSE IF Difftime(old, new) \in {"NEW", "OUT_OF_ORDER"}
    THEN <<new[1], old[2]>>
    ELSE old

StampAfter(old, new) ==
  IF old[1] = 0 \/ Difftime(old, new) \in {"NEW", "OUT_OF_ORDER"}
    THEN new
    ELSE old

------------------------------------------------------------------------------
(* routing_decision *)

\* x / 255 of two C ints, which rounds towards zero
Per255(x) == IF x >= 0 THEN x \div 255 ELSE -((-x) \div 255)

\* A packet comes closer to its destination: me is the distance of this node,
\* pkt the distance written by the previous transmitter.
Progress(me, pkt) == me < pkt + Alpha

RoutingDecision(me, orig, pkt, age) ==
  /\ Progress(me, pkt)
  /\ \/ age = "NEW"
     \/ /\ age = "DUPLICATE"
        /\ orig > me \/ Per255(me - orig) * 100 < Beta

(* The fall-through of routing_decision: the packet makes progress and is   *)
(* neither OLD, DUPLICATE nor NEW, so the function logs and drops.          *)
FallsThrough(me, pkt, age) == Progress(me, pkt) /\ age = "OUT_OF_ORDER"

------------------------------------------------------------------------------
(* How often wdl_hard_start_xmit transmits a packet: once for a broadcast;  *)
(* for a unicast, repeats that grow with the distance, and the packet.      *)
Repeats(d) ==
  LET probable == (d * RtxCount) \div 255
  IN  IF d \notin {0, Unknown} /\ probable > 2 THEN probable ELSE 2

Copies(d, isBroadcast) == IF isBroadcast THEN 1 ELSE Repeats(d) + 1
==============================================================================
