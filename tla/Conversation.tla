---------------------------- MODULE Conversation -----------------------------
(***************************************************************************)
(* What LifeNetSMS promises of the numbers of its messages, without saying  *)
(* a word about datagrams, attempts or answers: under each name a receiver  *)
(* takes a number its sender has come to, and only a larger one than the    *)
(* last it took under that name, unless it is 0; and a sender goes on to    *)
(* the next number knowing that the message arrived only if it did.  The    *)
(* one exception is a node that went astray, with no address for something  *)
(* it had to send: it may take a number for arrived that it took itself.    *)
(* A node that restarts remembers nothing.                                  *)
(***************************************************************************)
EXTENDS Integers, Sequences

CONSTANTS
  Writers,   \* the nodes whose user sends messages
  Readers,   \* the nodes that receive them
  NoName     \* what a node signs with that does not find its own name

VARIABLES
  number,    \* number[w]: the number of the next message of w
  stored,    \* stored[r][s]: the last number r took under name s
  life,      \* how often a node has been restarted
  accepted,  \* accepted[r]: what r took, in order
  confirmed, \* what the senders take for arrived
  astray     \* the lives of nodes in which an address was not found

None == -1
Handshake == 0
Names == Writers \cup {NoName}

TakenBy(r, w) ==
  \E i \in 1 .. Len(accepted[r]) :
    /\ accepted[r][i].name = w
    /\ accepted[r][i].seq = number[w]
    /\ accepted[r][i].life = life[w]

TakenByItself(w) ==
  \E i \in 1 .. Len(accepted[w]) :
    /\ accepted[w][i].seq = number[w]
    /\ accepted[w][i].at = life[w]

Init ==
  /\ number = [w \in Writers |-> Handshake]
  /\ stored = [r \in Readers |-> [s \in Names |-> None]]
  /\ life = [n \in Readers |-> 0]
  /\ accepted = [r \in Readers |-> <<>>]
  /\ confirmed = {}
  /\ astray = {}

\* Whatever n sends may go astray.
MayStray(n) == astray' = astray \/ astray' = astray \cup {<<n, life[n]>>}

Take(r, w, s, n) ==
  /\ n = Handshake \/ stored[r][s] = None \/ n > stored[r][s]
  /\ stored' = [stored EXCEPT ![r][s] = n]
  /\ accepted' = [accepted EXCEPT ![r] =
                    Append(@, [name |-> s, seq |-> n, life |-> life[w], at |-> life[r]])]
  /\ MayStray(r)
  /\ UNCHANGED <<number, life, confirmed>>

Stray(w) ==
  /\ MayStray(w)
  /\ UNCHANGED <<number, stored, life, accepted, confirmed>>

GoOn(w) ==
  /\ number' = [number EXCEPT ![w] = @ + 1]
  /\ MayStray(w)
  /\ UNCHANGED <<stored, life, accepted>>

GiveUp(w) == GoOn(w) /\ UNCHANGED confirmed

Confirm(w, r) ==
  /\ TakenBy(r, w) \/ (<<w, life[w]>> \in astray /\ TakenByItself(w))
  /\ GoOn(w)
  /\ confirmed' = confirmed \cup {[src |-> w, dest |-> r, seq |-> number[w],
                                   life |-> life[w]]}

Restart(n) ==
  /\ life' = [life EXCEPT ![n] = @ + 1]
  /\ number' = [w \in Writers |-> IF w = n THEN Handshake ELSE number[w]]
  /\ stored' = [stored EXCEPT ![n] = [s \in Names |-> None]]
  /\ UNCHANGED <<accepted, confirmed, astray>>

Next ==
  \/ \E w \in Writers :
       \/ Stray(w) \/ GiveUp(w)
       \/ \E r \in Readers : Confirm(w, r)
       \/ \E r \in Readers, s \in {w, NoName} :
            \E n \in 0 .. number[w] : Take(r, w, s, n)
  \/ \E n \in Readers : Restart(n)

Spec == Init /\ [][Next]_<<number, stored, life, accepted, confirmed, astray>>
==============================================================================
