----------------------------- MODULE Messaging -----------------------------
(***************************************************************************)
(* LifeNetSMS between nodes: the numbered datagrams of UdpTx, the          *)
(* receiving thread that keeps the last number of every sender             *)
(* (MessageThread), and behind it the lists of Inbox.  One SEQ_CNT numbers *)
(* the messages to all buddies.  The mesh may lose, delay, repeat and      *)
(* reorder datagrams: what was sent stays deliverable, and nobody has to   *)
(* hear it.  A restart of a program takes longer than a datagram lives, so *)
(* it also ends the datagrams from and the answers to that program.        *)
(*                                                                         *)
(* Names and addresses are looked up in the hosts file, which the daemons  *)
(* of LifeNet rewrite all the time: any lookup may find nothing and return *)
(* "".  An address of "" is the loopback, so the datagram reaches the node *)
(* that sends it, on the same port.                                        *)
(***************************************************************************)
EXTENDS Inbox, FiniteSets

CONSTANTS Writers,             \* the nodes whose user sends messages
          NoName,              \* the name "", of a node that does not find its own
          Missing,             \* the nodes that may not find a name they look up
          MSG_START_REP_CNT,   \* attempts of the first message, number 0
          MSG_REP_CNT,         \* attempts of every other message
          MaxSeq,              \* bound: numbers a program uses
          MaxTaken,            \* bound: datagrams a receiver takes
          MaxLife              \* bound: starts of a node

ASSUME CountsPositive ==
    /\ MSG_START_REP_CNT \in Nat \ {0}
    /\ MSG_REP_CNT \in Nat \ {0}
ASSUME BoundsCounted == {MaxSeq, MaxTaken, MaxLife} \subseteq Nat
ASSUME WritersRead == Writers \subseteq Readers
ASSUME MissingRead == Missing \subseteq Readers
ASSUME NobodysName == NoName \notin Readers

VARIABLES seqCnt,      \* LifeNet.SEQ_CNT
          sender,      \* UdpTx.send, on the event thread
          seqNumHash,  \* MessageThread.seqNumHash, by receiver and name
          data,        \* datagrams to port MSG_SRC_DATA_PORT
          acks,        \* datagrams to port MSG_SRC_ACK_PORT
          life,        \* history: starts of the node, stamped on what it sends
          accepted,    \* history: what each receiver took, in order
          confirmed,   \* history: what each sender heard the right answer to
          astray       \* history: the lives of nodes that addressed themselves
                       \* for want of an address

wireVars == <<seqCnt, sender, seqNumHash, data, acks, life, accepted, confirmed,
              astray>>

vars == <<inboxVars, wireVars>>

-----------------------------------------------------------------------------
Names == Writers \cup {NoName}

(* What the lists keep of a message: the name it is signed with, its number. *)
Message == [name : Names, seq : 0..MaxSeq]

ASSUME MessagesAreDatagrams == Messages = Message

None == -1

Handshake == 0

(* What node n may get for the address of a name, and for its own name.    *)
Addresses(n, name) ==
    IF name = NoName THEN {n} ELSE {name} \cup ({n} \cap Missing)

OwnNames(n) == {n} \cup (IF n \in Missing THEN {NoName} ELSE {})

Idle == [pc |-> "idle"]

(* UdpTx.send from its first round on: to d, at address a, signed s. *)
Sending(d, a, s, n, limit) ==
    [pc |-> "sending", dest |-> d, addr |-> a, name |-> s, seq |-> n, left |-> limit]

Sender == {Idle} \cup
          [pc : {"sending", "waiting"}, dest : Readers, addr : Readers,
           name : Names, seq : 0..MaxSeq, left : Nat \ {0}]

Init ==
    /\ InboxInit
    /\ seqCnt = [w \in Writers |-> Handshake]
    /\ sender = [w \in Writers |-> Idle]
    /\ seqNumHash = [r \in Readers |-> [s \in Names |-> None]]
    /\ data = {}
    /\ acks = {}
    /\ life = [n \in Readers |-> 0]
    /\ accepted = [r \in Readers |-> <<>>]
    /\ confirmed = {}
    /\ astray = {}

-----------------------------------------------------------------------------
(* Node n sends to address a what is meant for name: has it gone astray? *)
Addressed(n, name, a) ==
    astray' = IF a = name THEN astray ELSE astray \cup {<<n, life[n]>>}

(* The own name and the buddy's address are looked up once for all attempts. *)
StartSend(w, d, n, limit) ==
    \E a \in Addresses(w, d), s \in OwnNames(w) :
        /\ sender' = [sender EXCEPT ![w] = Sending(d, a, s, n, limit)]
        /\ Addressed(w, d, a)

(* The send button: the first click of a program's life sends number 0     *)
(* before the message, to whichever buddy it is for, itself included.      *)
Click(w, d) ==
    /\ sender[w] = Idle
    /\ viewer[w].pc = "closed"
    /\ seqCnt[w] < MaxSeq
    /\ StartSend(w, d, seqCnt[w],
                 IF seqCnt[w] = Handshake THEN MSG_START_REP_CNT ELSE MSG_REP_CNT)
    /\ UNCHANGED <<inboxVars, seqCnt, seqNumHash, data, acks, life, accepted, confirmed>>

Transmit(w) ==
    /\ sender[w].pc = "sending"
    /\ data' = data \cup {[src |-> w, name |-> sender[w].name, dest |-> sender[w].addr,
                           seq |-> sender[w].seq, life |-> life[w]]}
    /\ sender' = [sender EXCEPT ![w].pc = "waiting"]
    /\ UNCHANGED <<inboxVars, seqCnt, seqNumHash, acks, life, accepted, confirmed, astray>>

(* UdpTx.send returns and the number is used up, answered or not; after    *)
(* number 0 the message itself follows.                                    *)
Return(w) ==
    /\ seqCnt' = [seqCnt EXCEPT ![w] = @ + 1]
    /\ \/ /\ sender[w].seq = Handshake
          /\ StartSend(w, sender[w].dest, seqCnt[w] + 1, MSG_REP_CNT)
       \/ /\ sender[w].seq # Handshake
          /\ sender' = [sender EXCEPT ![w] = Idle]
          /\ UNCHANGED astray

(* A variant: the round is repeated without being counted. *)
AfterStaleAgain(w) ==
    /\ sender' = [sender EXCEPT ![w].pc = "sending"]
    /\ UNCHANGED <<seqCnt, astray>>

(* Only the number is compared, not who answers to whom.  An answer to     *)
(* another number also ends the attempts: after counting it the loop runs  *)
(* into the break at its end.                                              *)
AfterStale(w) == Return(w)

HearAck(w) ==
    /\ sender[w].pc = "waiting"
    /\ \E a \in acks :
        /\ a.dest = w
        /\ \/ /\ a.seq = sender[w].seq
              /\ Return(w)
              /\ confirmed' = confirmed \cup {[src |-> w, dest |-> sender[w].dest,
                                               seq |-> a.seq, life |-> life[w]]}
           \/ /\ a.seq # sender[w].seq
              /\ AfterStale(w)
              /\ UNCHANGED confirmed
    /\ UNCHANGED <<inboxVars, seqNumHash, data, acks, life, accepted>>

AgainOnceMore(w) == sender[w].left >= 1

(* The loop's test after a round without an answer. *)
Again(w) == sender[w].left > 1

NoAck(w) ==
    /\ sender[w].pc = "waiting"
    /\ IF Again(w)
       THEN /\ sender' = [sender EXCEPT ![w].pc = "sending", ![w].left = @ - 1]
            /\ UNCHANGED <<seqCnt, astray>>
       ELSE Return(w)
    /\ UNCHANGED <<inboxVars, seqNumHash, data, acks, life, accepted, confirmed>>

(* A socket, address or serialization error ends the loop at once. *)
Fail(w) ==
    /\ sender[w].pc = "sending"
    /\ Return(w)
    /\ UNCHANGED <<inboxVars, seqNumHash, data, acks, life, accepted, confirmed>>

-----------------------------------------------------------------------------
(* UdpTx.reply answers with the message's number, and nothing of its life, *)
(* whoever the message's name is found to be.                              *)
Reply(r, m) ==
    \E a \in Addresses(r, m.name) :
        /\ acks' = acks \cup {[src |-> r, dest |-> a, seq |-> m.seq]}
        /\ Addressed(r, m.name, a)

NumberStored(r, m) ==
    seqNumHash' = [seqNumHash EXCEPT ![r][m.name] = m.seq]

NumberKept(r, m) ==
    seqNumHash' = [seqNumHash EXCEPT ![r][m.name] = IF @ = None THEN m.seq ELSE @]

Taken(r, m) ==
    /\ Len(accepted[r]) < MaxTaken
    /\ accepted' = [accepted EXCEPT ![r] =
                      Append(@, [name |-> m.name, seq |-> m.seq, life |-> m.life,
                                 at |-> life[r]])]

StartOverOnce(r, m) == NumberKept(r, m)

(* Number 0 starts the sender's numbers over, whatever was stored. *)
StartOver(r, m) == NumberStored(r, m)

HandshakeCounted(r) ==
    /\ unreadCount' = [unreadCount EXCEPT ![r] = @ + 1]
    /\ UNCHANGED <<unread, read, newMsgReadFlag, listener, mover, viewer,
                   arrivals, raced>>

(* Number 0 is not a message for the inbox. *)
HandshakeUnlisted(r) == UNCHANGED inboxVars

ReceiveHandshake(r) ==
    \E m \in data :
        /\ m.dest = r
        /\ m.seq = Handshake
        /\ listener[r] = Listening
        /\ StartOver(r, m)
        /\ Reply(r, m)
        /\ Taken(r, m)
        /\ HandshakeUnlisted(r)
        /\ UNCHANGED <<seqCnt, sender, data, life, confirmed>>

IsNew(r, m) ==
    \/ seqNumHash[r][m.name] = None
    \/ m.seq > seqNumHash[r][m.name]

(* The number is stored and answered before the message is in the list. *)
ReceiveMessage(r) ==
    \E m \in data :
        /\ m.dest = r
        /\ m.seq # Handshake
        /\ IsNew(r, m)
        /\ Arrive(r, [name |-> m.name, seq |-> m.seq])
        /\ NumberStored(r, m)
        /\ Reply(r, m)
        /\ Taken(r, m)
        /\ UNCHANGED <<seqCnt, sender, data, life, confirmed>>

OldAnswerReply(r, m) == Reply(r, m)

(* Any other message is dropped without an answer, a repetition of the     *)
(* last one included.                                                      *)
OldAnswer(r, m) == UNCHANGED <<acks, astray>>

ReceiveOld(r) ==
    \E m \in data :
        /\ m.dest = r
        /\ m.seq # Handshake
        /\ ~IsNew(r, m)
        /\ listener[r] = Listening
        /\ OldAnswer(r, m)
        /\ UNCHANGED <<inboxVars, seqCnt, sender, seqNumHash, data, life, accepted, confirmed>>

-----------------------------------------------------------------------------
(* The event thread cannot open a window while UdpTx.send runs on it. *)
Open(r) ==
    /\ r \in Writers => sender[r] = Idle
    /\ OpenView(r)
    /\ UNCHANGED wireVars

(* The node's program is closed and started again: nothing is kept. *)
Restart(n) ==
    /\ life[n] < MaxLife
    /\ life' = [life EXCEPT ![n] = @ + 1]
    /\ seqCnt' = [w \in Writers |-> IF w = n THEN Handshake ELSE seqCnt[w]]
    /\ sender' = [w \in Writers |-> IF w = n THEN Idle ELSE sender[w]]
    /\ seqNumHash' = [seqNumHash EXCEPT ![n] = [s \in Names |-> None]]
    /\ data' = {m \in data : m.src # n}
    /\ acks' = {a \in acks : a.dest # n}
    /\ EmptyInbox(n)
    /\ UNCHANGED <<accepted, confirmed, astray>>

WriterStep(w) == Transmit(w) \/ HearAck(w) \/ NoAck(w) \/ Fail(w)

ReaderStep(r) == ReceiveHandshake(r) \/ ReceiveMessage(r) \/ ReceiveOld(r)

InboxStep(r) ==
    /\ ListenerStep(r) \/ MoverStep(r) \/ ViewerStep(r)
    /\ UNCHANGED wireVars

Next ==
    \/ \E w \in Writers : (\E d \in Readers : Click(w, d)) \/ WriterStep(w)
    \/ \E r \in Readers : ReaderStep(r) \/ InboxStep(r) \/ Open(r) \/ Restart(r)

(* UdpTx.send's wait times out and its thread is scheduled. *)
Fairness == \A w \in Writers : WF_vars(WriterStep(w))

Spec == Init /\ [][Next]_vars /\ Fairness

-----------------------------------------------------------------------------
Datagram == [src : Writers, name : Names, dest : Readers, seq : 0..MaxSeq,
             life : 0..MaxLife]

Entry == [name : Names, seq : 0..MaxSeq, life : 0..MaxLife, at : 0..MaxLife]

Confirmation == [src : Writers, dest : Readers, seq : 0..MaxSeq, life : 0..MaxLife]

ProtocolTypeOK ==
    /\ seqCnt \in [Writers -> Nat]
    /\ sender \in [Writers -> Sender]
    /\ seqNumHash \in [Readers -> [Names -> (0..MaxSeq) \cup {None}]]
    /\ data \subseteq Datagram
    /\ acks \subseteq [src : Readers, dest : Readers, seq : 0..MaxSeq]
    /\ life \in [Readers -> 0..MaxLife]
    /\ accepted \in [Readers -> Seq(Entry)]
    /\ confirmed \subseteq Confirmation
    /\ astray \subseteq Readers \X (0..MaxLife)

(* The variables of the protocol and of the lists behind it keep their      *)
(* types (UdpTx, MessageThread, LifeNet, InboxView).                        *)
TypeOK == ProtocolTypeOK /\ InboxTypeOK

(* Receiver d has taken number n of w's life l, under w's name. *)
HasTaken(d, w, n, l) ==
    \E i \in 1..Len(accepted[d]) :
        /\ accepted[d][i].name = w
        /\ accepted[d][i].seq = n
        /\ accepted[d][i].life = l

(* Node w itself, in its life l, has taken somebody's number n. *)
TookNumber(w, n, l) ==
    \E i \in 1..Len(accepted[w]) :
        /\ accepted[w][i].seq = n
        /\ accepted[w][i].at = l

(* A sender that heard the answer to its number can rely on it as long as  *)
(* its program found every address it looked up: the buddy took this       *)
(* message, of this life of the sender, under its name.  Once a lookup has *)
(* failed, what it heard may also be the answer of its own MessageThread   *)
(* to a message of that number, its own or anyone's.  A number that is not *)
(* new must stay unanswered for this (UdpTx.send, MessageThread.run).      *)
ConfirmedWasTaken ==
    \A c \in confirmed :
        \/ HasTaken(c.dest, c.src, c.seq, c.life)
        \/ <<c.src, c.life>> \in astray /\ TookNumber(c.src, c.seq, c.life)

(* A buddy that took number 0 of a sender's life does not refuse what this *)
(* life sends next: its stored number never runs ahead of SEQ_CNT, nor     *)
(* reaches the number of a message that it has not taken.                  *)
NotShutOut ==
    \A r \in Readers, w \in Writers :
        HasTaken(r, w, Handshake, life[w]) =>
            /\ seqNumHash[r][w] <= seqCnt[w]
            /\ seqNumHash[r][w] = seqCnt[w] => HasTaken(r, w, seqCnt[w], life[w])

(* A running receiver takes the numbers that come under one name in        *)
(* growing order, each once, unless it takes a number 0 of that name in    *)
(* between.                                                                *)
TakenInOrder ==
    \A r \in Readers : \A i, j \in 1..Len(accepted[r]) :
        /\ i < j
        /\ accepted[r][i].name = accepted[r][j].name
        /\ accepted[r][i].at = accepted[r][j].at
        => \/ accepted[r][i].seq < accepted[r][j].seq
           \/ \E k \in (i+1)..j : /\ accepted[r][k].name = accepted[r][j].name
                                  /\ accepted[r][k].seq = Handshake

(* What users have of the numbers is a Conversation: numbers are taken,    *)
(* confirmed and started over as it says, however datagrams and answers    *)
(* are lost, repeated, overtaken or sent to the wrong node for want of an  *)
(* address (UdpTx.send, MessageThread.run).                                *)
Talk == INSTANCE Conversation WITH number <- seqCnt, stored <- seqNumHash

ImplementsConversation == Talk!Spec

(* Why UdpTx.send returns: until it does, each step of it leaves number 0  *)
(* behind, uses up an attempt or waits for the answer to one, and no       *)
(* number has more attempts than the loop allows it.                       *)
AttemptsOf(n) == IF n = Handshake THEN MSG_START_REP_CNT ELSE MSG_REP_CNT

Nearer(s, t) ==
    /\ t.dest = s.dest
    /\ t.left \in 1..AttemptsOf(t.seq)
    /\ \/ s.seq = Handshake /\ t.seq # Handshake
       \/ t.seq = s.seq /\ t.left < s.left
       \/ t.seq = s.seq /\ t.left = s.left /\ s.pc = "sending" /\ t.pc = "waiting"

SendAdvances ==
    [][\A w \in Writers :
         \/ Idle \in {sender[w], sender'[w]}
         \/ sender'[w] = sender[w]
         \/ Nearer(sender[w], sender'[w])]_vars

(* The event thread gets out of UdpTx.send, whatever answers arrive. *)
SendReturns == \A w \in Writers : sender[w] # Idle ~> sender[w] = Idle

(* The protocol uses the lists as Inbox describes them. *)
ImplementsInbox == InboxSpec
=============================================================================
