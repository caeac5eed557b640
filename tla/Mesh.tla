-------------------------------- MODULE Mesh ---------------------------------
(***************************************************************************)
(* What a LifeNet mesh promises to the programs above it: a packet is      *)
(* passed up only where it is addressed to, as it was sent, and no more    *)
(* than MaxHops radio hops away from its source.  Which of these nodes it  *)
(* reaches, and when, is left open.                                        *)
(***************************************************************************)
EXTENDS Integers

CONSTANTS
  Node,       \* the nodes
  Group,      \* multicast addresses, which every node listens to
  Bcast,      \* the broadcast address
  Stamp,      \* what tells the packets of a source apart
  Neighbour,  \* Neighbour[n]: the nodes in radio range of n
  MaxHops     \* MAX_HOPS

VARIABLES
  sent,       \* the packets handed to a transmit hook
  delivered   \* delivered[n]: the packets n passed to its upper layers

Packet == Node \X (Node \cup {Bcast} \cup Group) \X Stamp

(* A walk of the radio graph, in at most MaxHops hops                       *)
IsPath(walk, k, a, b) ==
  /\ walk[0] = a
  /\ walk[k] = b
  /\ \A i \in 0 .. k - 1 : walk[i + 1] \in Neighbour[walk[i]]

InReach(a, b) ==
  \E k \in 1 .. MaxHops : \E walk \in [0 .. k -> Node] : IsPath(walk, k, a, b)

Addressed(n, dst) == dst \in {n, Bcast} \cup Group

Init ==
  /\ sent = {}
  /\ delivered = [n \in Node |-> {}]

\* Any packet may be sent: it is found among those sent afterwards.
Send ==
  /\ \E x \in sent' : x \in Packet /\ sent' = sent \cup {x}
  /\ UNCHANGED delivered

PassUp(n, x) ==
  /\ x \in sent
  /\ Addressed(n, x[2])
  /\ InReach(x[1], n)
  /\ delivered' = [delivered EXCEPT ![n] = @ \cup {x}]
  /\ UNCHANGED sent

Next ==
  \/ Send
  \/ \E n \in Node : \E x \in sent : PassUp(n, x)

Spec == Init /\ [][Next]_<<sent, delivered>>
==============================================================================
