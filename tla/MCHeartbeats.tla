---------------------------- MODULE MCHeartbeats -----------------------------
(* Small instances of Heartbeats for TLC. *)
EXTENDS Heartbeats, TLC

CONSTANTS here, there, bcast

TwoNodes == {here, there}
OwnAddresses == (here :> 1) @@ (there :> 2)
SameAddress == (here :> 1) @@ (there :> 1)
BothWays == {OwnAddresses, SameAddress}
Different == {OwnAddresses}
JustHere == {here}

\* there relays what it hears of here
MostlyHere == (here :> {here, there}) @@ (there :> {here})

FewBeats == (here :> 3) @@ (there :> 1)
==============================================================================
