----------------------------- MODULE PathLedger ------------------------------
(***************************************************************************)
(* What the path report of /proc/wdl promises, whatever happens to the     *)
(* kernel module meanwhile: a packet that was counted for a path waits to  *)
(* be reported, is reported at most once, or is lost.                      *)
(***************************************************************************)
EXTENDS Integers

CONSTANT Path

VARIABLES
  noted,      \* packets received on each path
  waiting,    \* packets that a later report will show
  reported    \* packets that some report has shown

ledgerVars == <<noted, waiting, reported>>

LedgerInit ==
  /\ noted = [p \in Path |-> 0]
  /\ waiting = [p \in Path |-> 0]
  /\ reported = [p \in Path |-> 0]

\* A packet may be missed, and a counter that wraps or starts a new session
\* loses what it held; it never gains more than the packet.
Note(p) ==
  /\ noted' = [noted EXCEPT ![p] = @ + 1]
  /\ \E n \in 0 .. waiting[p] + 1 : waiting' = [waiting EXCEPT ![p] = n]
  /\ UNCHANGED reported

Report(S) ==
  /\ reported' = [p \in Path |->
       IF p \in S THEN reported[p] + waiting[p] ELSE reported[p]]
  /\ waiting' = [p \in Path |-> IF p \in S THEN 0 ELSE waiting[p]]
  /\ UNCHANGED noted

Forget == waiting' = [p \in Path |-> 0] /\ UNCHANGED <<noted, reported>>

LedgerNext ==
  \/ \E p \in Path : Note(p)
  \/ \E S \in SUBSET Path : Report(S)
  \/ Forget

LedgerSpec == LedgerInit /\ [][LedgerNext]_ledgerVars

(***************************************************************************)
(* No packet is reported twice: what was reported and what still waits is  *)
(* never more than what arrived.                                           *)
(***************************************************************************)
NeverTwice == \A p \in Path : reported[p] + waiting[p] <= noted[p]
==============================================================================
