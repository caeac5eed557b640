---------------------------- MODULE MCForwarding -----------------------------
(* Small instances of Forwarding for TLC. *)
EXTENDS Forwarding, TLC

CONSTANTS a, b, c, d, e, g, bcast, mdns, igmp

(* Fractions of a second: ten units make one, two base-4 digits hold one,   *)
(* and a little-endian receiver reads the digits swapped.                   *)
MCMicros == 0 .. 9
SwappedFrac == [u \in MCMicros |-> (u % 4) * 4 + u \div 4]
PlainFrac == [u \in MCMicros |-> u]

ThreeNodes == {a, b, c}
FourNodes == {a, b, c, d}
SixNodes == {a, b, c, d, e, g}

\* a -- b -- c
LineOf3 == [n \in ThreeNodes |->
  CASE n = a -> {b} [] n = b -> {a, c} [] n = c -> {b}]

\* a -- {b, c} -- d, with b and c in range of each other
Diamond == [n \in FourNodes |->
  CASE n = a -> {b, c} [] n = b -> {a, c, d} [] n = c -> {a, b, d} [] n = d -> {b, c}]

\* a -- b -- c -- d -- e -- g
LineOf6 == [n \in SixNodes |->
  CASE n = a -> {b} [] n = b -> {a, c} [] n = c -> {b, d} [] n = d -> {c, e}
    [] n = e -> {d, g} [] n = g -> {e}]

Groups == {mdns, igmp}
Skipped == {igmp}

\* The sniffers have run: c (or d) is 100 from its neighbours, 160 further out
LineDistances ==
  [n \in ThreeNodes |->
    CASE n = a -> (b :> 100) @@ (c :> 160)
      [] n = b -> (c :> 100) @@ (a :> 100)
      [] n = c -> (b :> 100) @@ (a :> 160)]

DiamondDistances ==
  [n \in FourNodes |->
    CASE n = a -> d :> 160 [] n = b -> d :> 100 [] n = c -> d :> 110
      [] n = d -> NoDistances]

EmptyStart6 == {[n \in SixNodes |-> NoDistances]}
LineStart == {LineDistances}
DiamondStart == {DiamondDistances}

FromAToC == {<<a, c>>}
OneBroadcast == {<<a, bcast>>}
Mixed == {<<a, d>>, <<a, bcast>>, <<a, mdns>>, <<a, igmp>>}

OneTime == {<<1, 1>>}
TwoTimes == {<<1, 1>>, <<1, 4>>}
OverSeconds == {<<1, 9>>, <<2, 1>>, <<4, 1>>}

MinusTwenty == -20

AllCommands ==
  { [name |-> "distance", to |-> c, value |-> 0],
    [name |-> "distance", to |-> a, value |-> 90],
    [name |-> "set_fwd_threshold", value |-> 1],
    [name |-> "toggle_fwding"], [name |-> "stop"], [name |-> "start"] }
NoCommands == {}
==============================================================================
