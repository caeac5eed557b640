------------------------------ MODULE FileCopy -------------------------------
(***************************************************************************)
(* What LifeNetFTP promises of a download, in terms of transfers and of the *)
(* output file: whatever becomes of the datagrams, a file that is open only *)
(* grows, by one block of some transfer at a time; as long as its blocks    *)
(* come from one transfer they come in order and none is left out; and the  *)
(* transfer they come from closes it only after its last block.  Who gets   *)
(* the blocks of which transfer is left open: it is the code that has       *)
(* nothing to tell them apart by.                                           *)
(***************************************************************************)
EXTENDS Integers, Sequences

CONSTANTS
  Client,  \* the downloading nodes
  File,    \* the files that can be transferred
  Length   \* Length[f]: the number of blocks of f

VARIABLES
  shares,  \* the files of the transfers started, oldest first
  copy     \* copy[c]: the output file of c's latest download, and what became
           \* of it ("none" before the first, "open" while it is written)

\* All blocks so far are of transfer g
OnlyFrom(g, written) == \A i \in 1 .. Len(written) : written[i].transfer = g

\* The block that is due after n blocks: the last one may come again.
Due(f, n) == IF n < Length[f] THEN n + 1 ELSE Length[f]

Init ==
  /\ shares = <<>>
  /\ copy = [c \in Client |-> [state |-> "none", written |-> <<>>, closedBy |-> 0]]

Share ==
  /\ \E f \in File : shares' = Append(shares, f)
  /\ UNCHANGED copy

Open(c) ==
  /\ copy[c].state # "open"
  /\ copy' = [copy EXCEPT ![c] = [state |-> "open", written |-> <<>>, closedBy |-> 0]]
  /\ UNCHANGED shares

Fetch(c, g, b) ==
  LET w == copy[c].written IN
  /\ copy[c].state = "open"
  /\ OnlyFrom(g, w) => b = Due(shares[g], Len(w))
  /\ copy' = [copy EXCEPT ![c] = [@ EXCEPT !.written =
                Append(w, [file |-> shares[g], block |-> b, transfer |-> g])]]
  /\ UNCHANGED shares

Finish(c, g) ==
  LET w == copy[c].written IN
  /\ copy[c].state = "open"
  /\ OnlyFrom(g, w) => Len(w) >= Length[shares[g]]
  /\ copy' = [copy EXCEPT ![c] =
                [state |-> "complete", written |-> w, closedBy |-> g]]
  /\ UNCHANGED shares

Abandon(c, why) ==
  /\ copy[c].state = "open"
  /\ copy' = [copy EXCEPT ![c] = [@ EXCEPT !.state = why]]
  /\ UNCHANGED shares

Next ==
  \/ Share
  \/ \E c \in Client :
       \/ Open(c)
       \/ \E g \in DOMAIN shares : Finish(c, g)
       \/ \E g \in DOMAIN shares : \E b \in 1 .. Length[shares[g]] : Fetch(c, g, b)
       \/ \E why \in {"gaveUp", "crashed"} : Abandon(c, why)

Spec == Init /\ [][Next]_<<shares, copy>>
==============================================================================
