----------------------------- MODULE MCServices ------------------------------
(***************************************************************************)
(* Small instances of Services: two laptops and a router in three          *)
(* scenarios, one for addresses, one for gateways and one for the display. *)
(***************************************************************************)
EXTENDS Services

CONSTANTS a, b, r, BeatsOfAddresses, BeatsOfGateways, BeatsOfDisplay

Machines == {a, b, r}
Laptops == {a, b}

Mesh(k) == <<192, 168, 0, k>>

\* Two laptops of one address and a router next to them; all different, one
\* ending with 192
Alike == [n \in Machines |-> IF n = r THEN Mesh(2) ELSE Mesh(1)]
RouterAlike == [n \in Machines |-> IF n = b THEN Mesh(192) ELSE Mesh(1)]
Different == [n \in Machines |-> CASE n = a -> Mesh(1) [] n = b -> Mesh(2) [] n = r -> Mesh(3)]

MCServers ==
  [n \in Machines |->
     CASE n = a -> <<<<8, 8, 8, 1>>, <<8, 8, 8, 2>>>>
       [] n = b -> <<<<9, 9, 9, 1>>>>
       [] n = r -> <<<<7, 7, 7, 1>>, <<7, 7, 7, 2>>, <<7, 7, 7, 3>>, <<7, 7, 7, 4>>>>]

AddressPlan(addresses, n) ==
  [addr |-> addresses, up |-> {r}, senders |-> Machines, listeners |-> {n}, fixers |-> {n},
   watchers |-> {}, beats |-> BeatsOfAddresses, flips |-> 0, restarts |-> 0, ticks |-> 0]

GatewayPlan ==
  [addr |-> Different, up |-> {a}, senders |-> Laptops, listeners |-> {b, r}, fixers |-> {},
   watchers |-> {}, beats |-> BeatsOfGateways, flips |-> 1, restarts |-> 1, ticks |-> 0]

DisplayPlan ==
  [addr |-> Different, up |-> {}, senders |-> Laptops, listeners |-> {a}, fixers |-> {},
   watchers |-> {a}, beats |-> BeatsOfDisplay, flips |-> 0, restarts |-> 1, ticks |-> 2]

AddressPlans == {AddressPlan(addresses, n) : addresses \in {Alike, RouterAlike}, n \in {a, r}}
MCPlans == AddressPlans \cup {GatewayPlan, DisplayPlan}
==============================================================================
