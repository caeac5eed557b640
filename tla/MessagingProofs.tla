-------------------------- MODULE MessagingProofs --------------------------
(***************************************************************************)
(* Proofs about Messaging for any nodes, attempts and bounds: what answers  *)
(* and stored numbers mean, that every send gets nearer to its end, that    *)
(* the numbers behave as Conversation says, and what follows for the lists  *)
(* behind it.                                                               *)
(***************************************************************************)
EXTENDS Messaging, InboxProofs

(***************************************************************************)
(* The inductive invariant.  A number of one life goes to one address only  *)
(* and an answer in flight is always for the current life: therefore the    *)
(* answer to a number comes from the node that took the message, which is   *)
(* the buddy, or the sender itself if it went astray.                       *)
(***************************************************************************)

Numbered ==
  \A w \in Writers :
    sender[w] # Idle => sender[w].seq = seqCnt[w] /\ MaxSeq > 0

\* The message leaves for the buddy, or for the sender itself.
Routed ==
  \A w \in Writers :
    sender[w] # Idle =>
      /\ sender[w].name \in {w, NoName}
      /\ \/ sender[w].addr = sender[w].dest
         \/ sender[w].addr = w /\ <<w, life[w]>> \in astray

Wire ==
  \A m \in data :
    /\ m.life = life[m.src]
    /\ m.seq <= seqCnt[m.src]
    /\ m.seq = seqCnt[m.src] => sender[m.src] # Idle /\ sender[m.src].addr = m.dest
    /\ m.name \in {m.src, NoName}

\* The buddy answers what it took; or a node that went astray hears itself.
AnswersBuddy(a) ==
  /\ a.dest \in Writers
  /\ HasTaken(a.src, a.dest, a.seq, life[a.dest])
  /\ \E m \in data : m.src = a.dest /\ m.dest = a.src /\ m.seq = a.seq

AnswersItself(a) ==
  /\ a.src = a.dest
  /\ <<a.dest, life[a.dest]>> \in astray

Answers ==
  \A a \in acks :
    /\ AnswersBuddy(a) \/ AnswersItself(a)
    /\ a.src = a.dest => TookNumber(a.dest, a.seq, life[a.dest])

Lives ==
  \A r \in Readers : \A i \in 1 .. Len(accepted[r]) :
    /\ accepted[r][i].name \in Writers =>
         accepted[r][i].life <= life[accepted[r][i].name]
    /\ accepted[r][i].at <= life[r]

\* The stored number is the largest taken since the last number 0.
Latest ==
  \A r \in Readers : \A i \in 1 .. Len(accepted[r]) :
    accepted[r][i].at = life[r] =>
      \/ accepted[r][i].seq <= seqNumHash[r][accepted[r][i].name]
      \/ \E k \in (i + 1) .. Len(accepted[r]) :
           /\ accepted[r][k].name = accepted[r][i].name
           /\ accepted[r][k].seq = Handshake

WireInv ==
  /\ ProtocolTypeOK
  /\ Numbered
  /\ Routed
  /\ Wire
  /\ Answers
  /\ ConfirmedWasTaken
  /\ Lives
  /\ NotShutOut
  /\ Latest
  /\ TakenInOrder

-----------------------------------------------------------------------------
LEMMA WireInit == Init => WireInv
  <1> SUFFICES ASSUME Init PROVE WireInv
    OBVIOUS
  <1>1. /\ \A r \in Readers : accepted[r] = <<>> /\ Len(accepted[r]) = 0
        /\ data = {} /\ acks = {} /\ confirmed = {} /\ astray = {}
        /\ \A w \in Writers : sender[w] = Idle
    BY DEF Init
  <1>2. ProtocolTypeOK
    BY BoundsCounted DEF Init, ProtocolTypeOK, Sender, None, Handshake
  <1>3. Numbered /\ Routed /\ Wire /\ Answers /\ ConfirmedWasTaken
    BY <1>1 DEF Numbered, Routed, Wire, Answers, ConfirmedWasTaken
  <1>4. Lives /\ Latest /\ TakenInOrder
    BY <1>1 DEF Lives, Latest, TakenInOrder
  <1>5. NotShutOut
    BY <1>1 DEF NotShutOut, HasTaken
  <1> QED BY <1>2, <1>3, <1>4, <1>5 DEF WireInv

LEMMA Typing ==
  ASSUME ProtocolTypeOK
  PROVE  /\ \A w \in Writers : /\ w \in Readers /\ seqCnt[w] \in Nat
                               /\ sender[w] \in Sender /\ life[w] \in 0 .. MaxLife
         /\ \A r \in Readers : accepted[r] \in Seq(Entry) /\ life[r] \in 0 .. MaxLife
                               /\ Len(accepted[r]) \in Nat
         /\ \A r \in Readers, w \in Names : seqNumHash[r][w] \in (0 .. MaxSeq) \cup {None}
         /\ \A r \in Readers : \A i \in 1 .. Len(accepted[r]) : accepted[r][i] \in Entry
  <1>1. \A r \in Readers : accepted[r] \in Seq(Entry)
    BY DEF ProtocolTypeOK
  <1>2. ASSUME NEW r \in Readers
        PROVE  /\ Len(accepted[r]) \in Nat
               /\ \A i \in 1 .. Len(accepted[r]) : accepted[r][i] \in Entry
    <2>1. accepted[r] \in Seq(Entry)
      BY <1>1
    <2> QED BY <2>1
  <1> QED BY <1>1, <1>2, WritersRead DEF ProtocolTypeOK

\* A sender that is not idle has the fields of a send.
LEMMA Busy ==
  ASSUME ProtocolTypeOK, NEW w \in Writers, sender[w] # Idle
  PROVE  /\ sender[w].dest \in Readers
         /\ sender[w].addr \in Readers
         /\ sender[w].name \in Names
         /\ sender[w].seq \in 0 .. MaxSeq
         /\ sender[w].left \in Nat \ {0}
         /\ sender[w].pc \in {"sending", "waiting"}
         /\ sender[w] = [pc |-> sender[w].pc, dest |-> sender[w].dest,
                         addr |-> sender[w].addr, name |-> sender[w].name,
                         seq |-> sender[w].seq, left |-> sender[w].left]
  BY Typing DEF Sender

LEMMA AtWork ==
  ASSUME NEW w \in Writers, sender[w].pc \in {"sending", "waiting"}
  PROVE  sender[w] # Idle
  BY DEF Idle

\* A step that leaves what was taken, the lives and the stored numbers alone
LEMMA TakenFrame ==
  ASSUME WireInv, UNCHANGED <<seqNumHash, life, accepted>>
  PROVE  /\ Lives' /\ Latest' /\ TakenInOrder'
         /\ \A d, w, n, l : HasTaken(d, w, n, l)' <=> HasTaken(d, w, n, l)
  BY DEF WireInv, Lives, Latest, TakenInOrder, HasTaken

\* What was heard and answered stays right while only a node goes astray.
LEMMA AstrayFrame ==
  ASSUME WireInv, UNCHANGED <<life, accepted, acks>>,
         data \subseteq data', astray \subseteq astray'
  PROVE  /\ Answers'
         /\ UNCHANGED confirmed => ConfirmedWasTaken'
  <1>1. Answers'
    <2> SUFFICES ASSUME NEW a \in acks
                 PROVE  /\ AnswersBuddy(a)' \/ AnswersItself(a)'
                        /\ a.src = a.dest => TookNumber(a.dest, a.seq, life[a.dest])'
      BY DEF Answers
    <2>1. /\ AnswersBuddy(a) \/ AnswersItself(a)
          /\ a.src = a.dest => TookNumber(a.dest, a.seq, life[a.dest])
      BY DEF WireInv, Answers
    <2>2. AnswersBuddy(a) => AnswersBuddy(a)'
      BY DEF AnswersBuddy, HasTaken
    <2>3. AnswersItself(a) => AnswersItself(a)'
      BY DEF AnswersItself
    <2>4. a.src = a.dest => TookNumber(a.dest, a.seq, life[a.dest])'
      BY <2>1 DEF TookNumber
    <2> QED BY <2>1, <2>2, <2>3, <2>4
  <1>2. ASSUME UNCHANGED confirmed PROVE ConfirmedWasTaken'
    BY <1>2 DEF WireInv, ConfirmedWasTaken, HasTaken, TookNumber
  <1> QED BY <1>1, <1>2

\* A step that does not touch the protocol's variables
LEMMA WireFrame ==
  ASSUME WireInv, UNCHANGED wireVars
  PROVE  WireInv'
  <1>1. UNCHANGED <<seqCnt, sender, seqNumHash, data, acks, life, accepted, confirmed, astray>>
    BY DEF wireVars
  <1>2. ProtocolTypeOK'
    BY <1>1 DEF WireInv, ProtocolTypeOK
  <1>3. Numbered' /\ Routed' /\ Wire'
    BY <1>1 DEF WireInv, Numbered, Routed, Wire
  <1>4. Answers' /\ ConfirmedWasTaken'
    BY <1>1, AstrayFrame
  <1>5. NotShutOut'
    BY <1>1, TakenFrame DEF WireInv, NotShutOut
  <1> QED BY <1>1, <1>2, <1>3, <1>4, <1>5, TakenFrame DEF WireInv

\* Who sends to another address than the name's sends to itself.
LEMMA GoesAstray ==
  ASSUME ProtocolTypeOK, NEW n \in Readers, NEW x, NEW a \in Addresses(n, x),
         Addressed(n, x, a)
  PROVE  /\ astray' \subseteq Readers \X (0 .. MaxLife)
         /\ astray \subseteq astray'
         /\ a = x \/ (a = n /\ <<n, life[n]>> \in astray')
  <1>1. life[n] \in 0 .. MaxLife /\ astray \subseteq Readers \X (0 .. MaxLife)
    BY Typing DEF ProtocolTypeOK
  <1>2. a = x \/ a = n
    BY DEF Addresses
  <1>3. CASE a = x
    BY <1>1, <1>3 DEF Addressed
  <1>4. CASE a # x
    <2>1. astray' = astray \cup {<<n, life[n]>>}
      BY <1>4 DEF Addressed
    <2> QED BY <1>1, <1>2, <1>4, <2>1
  <1> QED BY <1>3, <1>4

LEMMA StartsSend ==
  ASSUME ProtocolTypeOK, NEW w \in Writers, NEW d \in Readers, NEW n \in 0 .. MaxSeq,
         NEW limit \in Nat \ {0}, StartSend(w, d, n, limit)
  PROVE  /\ sender' \in [Writers -> Sender]
         /\ \A v \in Writers : v # w => sender'[v] = sender[v]
         /\ sender'[w] # Idle /\ sender'[w].pc = "sending" /\ sender'[w].dest = d
         /\ sender'[w].seq = n /\ sender'[w].left = limit
         /\ sender'[w].name \in {w, NoName}
         /\ \/ sender'[w].addr = d
            \/ sender'[w].addr = w /\ <<w, life[w]>> \in astray'
         /\ astray' \subseteq Readers \X (0 .. MaxLife)
         /\ astray \subseteq astray'
  <1>1. PICK a \in Addresses(w, d), x \in OwnNames(w) :
          /\ sender' = [sender EXCEPT ![w] = Sending(d, a, x, n, limit)]
          /\ Addressed(w, d, a)
    BY DEF StartSend
  <1>2. w \in Readers /\ sender \in [Writers -> Sender]
    BY Typing DEF ProtocolTypeOK
  <1>3. a \in Readers /\ x \in {w, NoName}
    BY <1>1, <1>2 DEF Addresses, OwnNames
  <1>4. sender'[w] = [pc |-> "sending", dest |-> d, addr |-> a, name |-> x,
                      seq |-> n, left |-> limit]
    BY <1>1, <1>2 DEF Sending
  <1>5. sender'[w] \in Sender
    BY <1>3, <1>4 DEF Sender, Names
  <1>6. sender'[w].pc = "sending" /\ Idle.pc = "idle"
    BY <1>4 DEF Idle
  <1>7. sender'[w] # Idle
    BY <1>6
  <1>8. sender' \in [Writers -> Sender]
    BY <1>1, <1>2, <1>5
  <1>9. \A v \in Writers : v # w => sender'[v] = sender[v]
    BY <1>1, <1>2
  <1>10. /\ astray' \subseteq Readers \X (0 .. MaxLife)
         /\ astray \subseteq astray'
         /\ a = d \/ (a = w /\ <<w, life[w]>> \in astray')
    BY <1>1, <1>2, GoesAstray
  <1> QED BY <1>3, <1>4, <1>7, <1>8, <1>9, <1>10

LEMMA ClickKeeps ==
  ASSUME WireInv, NEW w \in Writers, NEW d \in Readers, Click(w, d)
  PROVE  WireInv'
  <1> DEFINE limit == IF seqCnt[w] = Handshake THEN MSG_START_REP_CNT ELSE MSG_REP_CNT
  <1>1. /\ sender[w] = Idle /\ seqCnt[w] < MaxSeq
        /\ StartSend(w, d, seqCnt[w], limit)
        /\ UNCHANGED <<seqCnt, seqNumHash, data, acks, life, accepted, confirmed>>
    BY DEF Click
  <1>2. ProtocolTypeOK /\ seqCnt[w] \in Nat
    BY Typing DEF WireInv, ProtocolTypeOK
  <1>3. limit \in Nat \ {0} /\ seqCnt[w] \in 0 .. MaxSeq /\ MaxSeq > 0
    BY <1>1, <1>2, CountsPositive, BoundsCounted
  <1> HIDE DEF limit
  <1>4. /\ sender' \in [Writers -> Sender]
        /\ sender'[w].seq = seqCnt[w] /\ sender'[w].name \in {w, NoName}
        /\ \/ sender'[w].addr = sender'[w].dest
           \/ sender'[w].addr = w /\ <<w, life[w]>> \in astray'
        /\ \A v \in Writers : v # w => sender'[v] = sender[v]
        /\ astray' \subseteq Readers \X (0 .. MaxLife)
        /\ astray \subseteq astray'
    BY <1>1, <1>2, <1>3, StartsSend
  <1>5. ProtocolTypeOK'
    BY <1>1, <1>2, <1>4 DEF ProtocolTypeOK
  <1>6. Numbered' /\ Routed'
    BY <1>1, <1>3, <1>4 DEF WireInv, Numbered, Routed
  <1>7. Wire'
    <2>1. \A m \in data : m.src = w => m.seq # seqCnt[w]
      BY <1>1 DEF WireInv, Wire
    <2>2. \A m \in data : m.src \in Writers
      BY <1>2 DEF ProtocolTypeOK, Datagram
    <2> QED BY <1>1, <1>4, <2>1, <2>2 DEF WireInv, Wire
  <1>8. Answers' /\ ConfirmedWasTaken'
    BY <1>1, <1>4, AstrayFrame
  <1>9. NotShutOut'
    BY <1>1, TakenFrame DEF WireInv, NotShutOut
  <1> QED BY <1>1, <1>5, <1>6, <1>7, <1>8, <1>9, TakenFrame DEF WireInv

LEMMA TransmitKeeps ==
  ASSUME WireInv, NEW w \in Writers, Transmit(w)
  PROVE  WireInv'
  <1> DEFINE m0 == [src |-> w, name |-> sender[w].name, dest |-> sender[w].addr,
                    seq |-> sender[w].seq, life |-> life[w]]
  <1>1. /\ sender[w].pc = "sending"
        /\ data' = data \cup {m0}
        /\ sender' = [sender EXCEPT ![w].pc = "waiting"]
        /\ UNCHANGED <<seqCnt, seqNumHash, acks, life, accepted, confirmed, astray>>
    BY DEF Transmit
  <1>2. ProtocolTypeOK /\ sender \in [Writers -> Sender] /\ life[w] \in 0 .. MaxLife
    BY Typing DEF WireInv, ProtocolTypeOK
  <1>3. sender[w] # Idle
    BY <1>1, AtWork
  <1>4. m0 \in Datagram
    BY <1>2, <1>3, Busy DEF Datagram
  <1>5. /\ sender'[w].seq = sender[w].seq /\ sender'[w].dest = sender[w].dest
        /\ sender'[w].addr = sender[w].addr /\ sender'[w].name = sender[w].name
        /\ sender'[w].pc = "waiting" /\ sender'[w] \in Sender
        /\ \A v \in Writers : v # w => sender'[v] = sender[v]
    <2>1. sender'[w] = [sender[w] EXCEPT !.pc = "waiting"]
      BY <1>1, <1>2
    <2>2. sender'[w] = [pc |-> "waiting", dest |-> sender[w].dest,
                        addr |-> sender[w].addr, name |-> sender[w].name,
                        seq |-> sender[w].seq, left |-> sender[w].left]
      BY <1>2, <1>3, <2>1, Busy
    <2> QED BY <1>1, <1>2, <1>3, <2>2, Busy DEF Sender
  <1>6. \A v \in Writers : /\ sender'[v] # Idle <=> sender[v] # Idle
                           /\ sender[v] # Idle => /\ sender'[v].seq = sender[v].seq
                                                  /\ sender'[v].dest = sender[v].dest
                                                  /\ sender'[v].addr = sender[v].addr
                                                  /\ sender'[v].name = sender[v].name
    BY <1>3, <1>5 DEF Idle
  <1>7. /\ m0.src = w /\ m0.dest = sender[w].addr /\ m0.seq = sender[w].seq
        /\ m0.life = life[w] /\ m0.name = sender[w].name
    OBVIOUS
  <1> HIDE DEF m0
  <1>8. ProtocolTypeOK'
    <2>1. sender' \in [Writers -> Sender]
      BY <1>1, <1>2, <1>5
    <2> QED BY <1>1, <1>2, <1>4, <2>1 DEF ProtocolTypeOK
  <1>9. Numbered' /\ Routed'
    BY <1>1, <1>6 DEF WireInv, Numbered, Routed
  <1>10. Wire'
    <2> SUFFICES ASSUME NEW m \in data'
                 PROVE  /\ m.life = life[m.src]
                        /\ m.seq <= seqCnt[m.src]
                        /\ m.seq = seqCnt[m.src] => sender'[m.src] # Idle /\ sender'[m.src].addr = m.dest
                        /\ m.name \in {m.src, NoName}
      BY <1>1 DEF Wire
    <2>1. CASE m \in data
      <3>1. m.src \in Writers
        BY <1>2, <2>1 DEF ProtocolTypeOK, Datagram
      <3> QED BY <1>6, <2>1, <3>1 DEF WireInv, Wire
    <2>2. CASE m = m0
      <3>1. sender[w].seq = seqCnt[w] /\ seqCnt[w] \in Nat
        BY <1>2, <1>3, Typing DEF WireInv, Numbered
      <3>2. sender'[w] # Idle /\ sender'[w].addr = sender[w].addr
        BY <1>3, <1>6
      <3>3. sender[w].name \in {w, NoName}
        BY <1>3 DEF WireInv, Routed
      <3> QED BY <1>7, <2>2, <3>1, <3>2, <3>3
    <2> QED BY <1>1, <2>1, <2>2
  <1>11. Answers' /\ ConfirmedWasTaken'
    BY <1>1, AstrayFrame
  <1>12. NotShutOut'
    BY <1>1, TakenFrame DEF WireInv, NotShutOut
  <1> QED BY <1>1, <1>8, <1>9, <1>10, <1>11, <1>12, TakenFrame DEF WireInv

\* UdpTx.send returned: the sender is idle, or number 0 is followed by 1.
LEMMA AfterReturn ==
  ASSUME WireInv, NEW w \in Writers, sender[w] # Idle, Return(w)
  PROVE  /\ sender' \in [Writers -> Sender]
         /\ \A v \in Writers : v # w => sender'[v] = sender[v]
         /\ astray' \subseteq Readers \X (0 .. MaxLife)
         /\ astray \subseteq astray'
         /\ sender'[w] # Idle =>
              /\ sender[w].seq = Handshake
              /\ sender'[w].dest = sender[w].dest
              /\ sender'[w].seq = seqCnt[w] + 1
              /\ sender'[w].left = MSG_REP_CNT
              /\ sender'[w].name \in {w, NoName}
              /\ \/ sender'[w].addr = sender'[w].dest
                 \/ sender'[w].addr = w /\ <<w, life[w]>> \in astray'
  <1>1. /\ ProtocolTypeOK /\ sender \in [Writers -> Sender]
        /\ astray \subseteq Readers \X (0 .. MaxLife)
        /\ sender[w].seq = seqCnt[w] /\ MaxSeq > 0
    BY DEF WireInv, ProtocolTypeOK, Numbered
  <1>2. CASE sender[w].seq = Handshake /\ StartSend(w, sender[w].dest, seqCnt[w] + 1, MSG_REP_CNT)
    <2>1. seqCnt[w] + 1 \in 0 .. MaxSeq
      BY <1>1, <1>2, BoundsCounted DEF Handshake
    <2>2. sender[w].dest \in Readers
      BY <1>1, Busy
    <2>3. MSG_REP_CNT \in Nat \ {0}
      BY CountsPositive
    <2> QED BY <1>1, <1>2, <2>1, <2>2, <2>3, StartsSend
  <1>3. CASE sender' = [sender EXCEPT ![w] = Idle] /\ UNCHANGED astray
    <2>1. Idle \in Sender
      BY DEF Sender
    <2> QED BY <1>1, <1>3, <2>1
  <1> QED BY <1>2, <1>3 DEF Return

\* Using up a number frees it for the next destination.
LEMMA ReturnKeeps ==
  ASSUME WireInv, NEW w \in Writers, sender[w] # Idle, Return(w),
         UNCHANGED <<seqNumHash, data, acks, life, accepted>>,
         confirmed' \subseteq Confirmation, ConfirmedWasTaken'
  PROVE  WireInv'
  <1>1. seqCnt' = [seqCnt EXCEPT ![w] = @ + 1]
    BY DEF Return
  <1>2. /\ ProtocolTypeOK /\ seqCnt \in [Writers -> Nat]
        /\ sender[w].seq = seqCnt[w] /\ MaxSeq > 0
        /\ \A v \in Writers : seqCnt[v] \in Nat
    BY Typing DEF WireInv, ProtocolTypeOK, Numbered
  <1>3. /\ seqCnt'[w] = seqCnt[w] + 1
        /\ \A v \in Writers : v # w => seqCnt'[v] = seqCnt[v]
    BY <1>1, <1>2
  <1>4. /\ sender' \in [Writers -> Sender]
        /\ \A v \in Writers : v # w => sender'[v] = sender[v]
        /\ astray' \subseteq Readers \X (0 .. MaxLife)
        /\ astray \subseteq astray'
        /\ sender'[w] # Idle =>
             /\ sender'[w].seq = seqCnt[w] + 1
             /\ sender'[w].name \in {w, NoName}
             /\ \/ sender'[w].addr = sender'[w].dest
                \/ sender'[w].addr = w /\ <<w, life[w]>> \in astray'
    BY AfterReturn
  <1>5. ProtocolTypeOK'
    <2>1. seqCnt' \in [Writers -> Nat]
      BY <1>1, <1>2
    <2> QED BY <1>2, <1>4, <2>1 DEF ProtocolTypeOK
  <1>6. Numbered' /\ Routed'
    BY <1>2, <1>3, <1>4 DEF WireInv, Numbered, Routed
  <1>8. Wire'
    <2> SUFFICES ASSUME NEW m \in data
                 PROVE  /\ m.life = life[m.src]
                        /\ m.seq <= seqCnt'[m.src]
                        /\ m.seq = seqCnt'[m.src] => sender'[m.src] # Idle /\ sender'[m.src].addr = m.dest
                        /\ m.name \in {m.src, NoName}
      BY DEF Wire
    <2>1. m.src \in Writers /\ m.seq \in Int
      BY <1>2 DEF ProtocolTypeOK, Datagram
    <2>2. CASE m.src = w
      BY <1>2, <1>3, <2>1, <2>2 DEF WireInv, Wire
    <2>3. CASE m.src # w
      BY <1>3, <1>4, <2>1, <2>3 DEF WireInv, Wire
    <2> QED BY <2>2, <2>3
  <1>9. Answers'
    BY <1>4, AstrayFrame
  <1>10. NotShutOut'
    <2> SUFFICES ASSUME NEW r \in Readers, NEW v \in Writers, HasTaken(r, v, Handshake, life[v])
                 PROVE  /\ seqNumHash[r][v] <= seqCnt'[v]
                        /\ seqNumHash[r][v] = seqCnt'[v] => HasTaken(r, v, seqCnt'[v], life[v])
      BY DEF NotShutOut, HasTaken
    <2>1. /\ seqNumHash[r][v] <= seqCnt[v]
          /\ seqNumHash[r][v] = seqCnt[v] => HasTaken(r, v, seqCnt[v], life[v])
      BY DEF WireInv, NotShutOut
    <2>2. seqNumHash[r][v] \in Int
      BY <1>2, Typing DEF None, Names
    <2>3. CASE v = w
      BY <1>2, <1>3, <2>1, <2>2, <2>3
    <2>4. CASE v # w
      BY <1>3, <2>1, <2>4
    <2> QED BY <2>3, <2>4
  <1> QED BY <1>5, <1>6, <1>8, <1>9, <1>10, TakenFrame DEF WireInv

(* The right answer is for a datagram of this life, and this number went   *)
(* to one address only, the buddy's or the sender's own.                   *)
LEMMA RightAnswer ==
  ASSUME WireInv, NEW w \in Writers, sender[w] # Idle, NEW a \in acks,
         a.dest = w, a.seq = sender[w].seq
  PROVE  /\ a.seq = seqCnt[w]
         /\ \/ HasTaken(sender[w].dest, w, a.seq, life[w])
            \/ <<w, life[w]>> \in astray /\ TookNumber(w, a.seq, life[w])
  <1>1. sender[w].seq = seqCnt[w]
    BY DEF WireInv, Numbered
  <1>2. CASE AnswersBuddy(a)
    <2>1. PICK m \in data : m.src = a.dest /\ m.dest = a.src /\ m.seq = a.seq
      BY <1>2 DEF AnswersBuddy
    <2>2. sender[w].addr = a.src
      BY <1>1, <2>1 DEF WireInv, Wire
    <2>3. HasTaken(a.src, w, a.seq, life[w])
      BY <1>2 DEF AnswersBuddy
    <2>4. CASE sender[w].addr = sender[w].dest
      BY <1>1, <2>2, <2>3, <2>4
    <2>5. CASE sender[w].addr = w /\ <<w, life[w]>> \in astray
      BY <1>1, <2>2, <2>5 DEF WireInv, Answers
    <2> QED BY <2>4, <2>5 DEF WireInv, Routed
  <1>3. CASE AnswersItself(a)
    BY <1>1, <1>3 DEF WireInv, Answers, AnswersItself
  <1> QED BY <1>2, <1>3 DEF WireInv, Answers

LEMMA AnswerKeeps ==
  ASSUME WireInv, NEW w \in Writers, HearAck(w)
  PROVE  WireInv'
  <1>1. /\ sender[w] # Idle
        /\ UNCHANGED <<seqNumHash, data, acks, life, accepted>>
    BY AtWork DEF HearAck
  <1>2. PICK a \in acks :
          /\ a.dest = w
          /\ \/ /\ a.seq = sender[w].seq
                /\ Return(w)
                /\ confirmed' = confirmed \cup {[src |-> w, dest |-> sender[w].dest,
                                                 seq |-> a.seq, life |-> life[w]]}
             \/ /\ a.seq # sender[w].seq
                /\ Return(w)
                /\ UNCHANGED confirmed
    BY DEF HearAck, AfterStale
  <1>3. ProtocolTypeOK /\ Return(w)
    BY <1>2 DEF WireInv
  <1>4. astray \subseteq astray'
    BY <1>1, <1>3, AfterReturn
  <1>5. CASE UNCHANGED confirmed
    <2>1. confirmed' \subseteq Confirmation
      BY <1>3, <1>5 DEF ProtocolTypeOK
    <2>2. ConfirmedWasTaken'
      BY <1>1, <1>4, <1>5, AstrayFrame
    <2> QED BY <1>1, <1>3, <2>1, <2>2, ReturnKeeps
  <1>6. CASE /\ a.seq = sender[w].seq
             /\ confirmed' = confirmed \cup {[src |-> w, dest |-> sender[w].dest,
                                              seq |-> a.seq, life |-> life[w]]}
    <2>3. \/ HasTaken(sender[w].dest, w, a.seq, life[w])
          \/ <<w, life[w]>> \in astray /\ TookNumber(w, a.seq, life[w])
      BY <1>1, <1>2, <1>6, RightAnswer
    <2>4. confirmed' \subseteq Confirmation
      <3>1. [src |-> w, dest |-> sender[w].dest, seq |-> a.seq, life |-> life[w]] \in Confirmation
        BY <1>1, <1>3, <1>6, Busy, Typing DEF Confirmation
      <3> QED BY <1>3, <1>6, <3>1 DEF ProtocolTypeOK
    <2>5. ConfirmedWasTaken'
      <3> SUFFICES ASSUME NEW c \in confirmed'
                   PROVE  \/ HasTaken(c.dest, c.src, c.seq, c.life)
                          \/ <<c.src, c.life>> \in astray /\ TookNumber(c.src, c.seq, c.life)
        BY <1>1, <1>4 DEF ConfirmedWasTaken, HasTaken, TookNumber
      <3>1. CASE c \in confirmed
        BY <3>1 DEF WireInv, ConfirmedWasTaken
      <3>2. CASE c = [src |-> w, dest |-> sender[w].dest, seq |-> a.seq, life |-> life[w]]
        BY <2>3, <3>2
      <3> QED BY <1>6, <3>1, <3>2
    <2> QED BY <1>1, <1>3, <2>4, <2>5, ReturnKeeps
  <1> QED BY <1>2, <1>5, <1>6

LEMMA FailKeeps ==
  ASSUME WireInv, NEW w \in Writers, Fail(w) \/ NoAck(w)
  PROVE  WireInv'
  <1>1. /\ sender[w].pc \in {"sending", "waiting"}
        /\ UNCHANGED <<seqNumHash, data, acks, life, accepted, confirmed>>
        /\ \/ Return(w)
           \/ /\ Again(w)
              /\ sender' = [sender EXCEPT ![w].pc = "sending", ![w].left = @ - 1]
              /\ UNCHANGED <<seqCnt, astray>>
    BY DEF Fail, NoAck
  <1>2. sender[w] # Idle /\ ProtocolTypeOK /\ sender \in [Writers -> Sender]
    BY <1>1, AtWork DEF WireInv, ProtocolTypeOK
  <1>3. CASE Return(w)
    <2>1. confirmed' \subseteq Confirmation
      BY <1>1, <1>2 DEF ProtocolTypeOK
    <2>2. ConfirmedWasTaken'
      <3>1. astray \subseteq astray'
        BY <1>2, <1>3, AfterReturn
      <3> QED BY <1>1, <3>1, AstrayFrame
    <2> QED BY <1>1, <1>2, <1>3, <2>1, <2>2, ReturnKeeps
  <1>4. CASE /\ Again(w)
             /\ sender' = [sender EXCEPT ![w].pc = "sending", ![w].left = @ - 1]
             /\ UNCHANGED <<seqCnt, astray>>
    <2>1. /\ sender[w].left > 1 /\ sender[w].left \in Nat
          /\ sender[w] = [pc |-> sender[w].pc, dest |-> sender[w].dest,
                          addr |-> sender[w].addr, name |-> sender[w].name,
                          seq |-> sender[w].seq, left |-> sender[w].left]
          /\ sender[w].dest \in Readers /\ sender[w].seq \in 0 .. MaxSeq
          /\ sender[w].addr \in Readers /\ sender[w].name \in Names
      BY <1>2, <1>4, Busy DEF Again
    <2>2. sender'[w] = [pc |-> "sending", dest |-> sender[w].dest,
                        addr |-> sender[w].addr, name |-> sender[w].name,
                        seq |-> sender[w].seq, left |-> sender[w].left - 1]
      <3>1. sender'[w] = [sender[w] EXCEPT !.pc = "sending", !.left = @ - 1]
        BY <1>2, <1>4
      <3> QED BY <2>1, <3>1
    <2>3. /\ sender'[w] \in Sender /\ sender'[w] # Idle
          /\ sender'[w].seq = sender[w].seq /\ sender'[w].dest = sender[w].dest
          /\ sender'[w].addr = sender[w].addr /\ sender'[w].name = sender[w].name
          /\ \A v \in Writers : v # w => sender'[v] = sender[v]
      <3>1. sender[w].left - 1 \in Nat \ {0}
        BY <2>1
      <3>2. sender'[w].pc # "idle"
        BY <2>2
      <3>3. sender'[w] # Idle
        BY <3>2 DEF Idle
      <3> QED BY <1>2, <1>4, <2>1, <2>2, <3>1, <3>3 DEF Sender
    <2>4. ProtocolTypeOK'
      <3>1. sender' \in [Writers -> Sender]
        BY <1>2, <1>4, <2>3
      <3> QED BY <1>1, <1>2, <1>4, <3>1 DEF ProtocolTypeOK
    <2>5. Numbered' /\ Routed'
      BY <1>1, <1>2, <1>4, <2>3 DEF WireInv, Numbered, Routed
    <2>6. Wire'
      <3>1. \A m \in data : m.src \in Writers
        BY <1>2 DEF ProtocolTypeOK, Datagram
      <3>2. \A v \in Writers : sender[v] # Idle => sender'[v] # Idle /\ sender'[v].addr = sender[v].addr
        BY <2>3
      <3> QED BY <1>1, <1>4, <3>1, <3>2 DEF WireInv, Wire
    <2>7. Answers' /\ ConfirmedWasTaken'
      BY <1>1, <1>4, AstrayFrame
    <2>8. NotShutOut'
      BY <1>1, <1>4, TakenFrame DEF WireInv, NotShutOut
    <2> QED BY <1>1, <2>4, <2>5, <2>6, <2>7, <2>8, TakenFrame DEF WireInv
  <1> QED BY <1>1, <1>3, <1>4

-----------------------------------------------------------------------------
(***************************************************************************)
(* Taking a datagram: the receiver's log grows by one entry, and its stored *)
(* number becomes the one taken.                                            *)
(***************************************************************************)
LEMMA TakeKeeps ==
  ASSUME WireInv, NEW r \in Readers, NEW m \in data, m.dest = r,
         m.seq = Handshake \/ IsNew(r, m),
         NumberStored(r, m), Reply(r, m), Taken(r, m),
         UNCHANGED <<seqCnt, sender, data, life, confirmed>>
  PROVE  WireInv'
  <1> DEFINE w == m.name
             e == [name |-> m.name, seq |-> m.seq, life |-> m.life, at |-> life[r]]
             n == Len(accepted[r])
  <1>1. ProtocolTypeOK
    BY DEF WireInv
  <1>2. /\ m \in Datagram /\ w \in Names /\ m.seq \in 0 .. MaxSeq
        /\ m.life \in 0 .. MaxLife /\ life[r] \in 0 .. MaxLife
        /\ w \in Writers => w = m.src /\ m.life = life[w] /\ m.seq <= seqCnt[w]
    <2>1. m \in Datagram /\ life[r] \in 0 .. MaxLife
      BY <1>1, Typing DEF ProtocolTypeOK
    <2>2. m.life = life[m.src] /\ m.seq <= seqCnt[m.src] /\ w \in {m.src, NoName}
      BY DEF WireInv, Wire
    <2>3. NoName \notin Writers
      BY NobodysName, WritersRead
    <2> QED BY <2>1, <2>2, <2>3 DEF Datagram
  <1>3. e \in Entry
    BY <1>2 DEF Entry
  <1>4. /\ accepted'[r] = Append(accepted[r], e)
        /\ \A q \in Readers : q # r => accepted'[q] = accepted[q]
        /\ accepted' = [accepted EXCEPT ![r] = Append(@, e)]
    BY <1>1 DEF Taken, ProtocolTypeOK
  <1>5. /\ seqNumHash'[r][w] = m.seq
        /\ \A v \in Names : v # w => seqNumHash'[r][v] = seqNumHash[r][v]
        /\ \A q \in Readers : q # r => seqNumHash'[q] = seqNumHash[q]
    BY <1>1, <1>2 DEF NumberStored, ProtocolTypeOK
  <1>6. /\ e.name = w /\ e.seq = m.seq /\ e.life = m.life /\ e.at = life[r]
    OBVIOUS
  <1>a. PICK a0 \in Addresses(r, w) :
          /\ acks' = acks \cup {[src |-> r, dest |-> a0, seq |-> m.seq]}
          /\ Addressed(r, w, a0)
    BY DEF Reply
  <1>b. /\ astray' \subseteq Readers \X (0 .. MaxLife)
        /\ astray \subseteq astray'
        /\ a0 = w \/ (a0 = r /\ <<r, life[r]>> \in astray')
    <2> HIDE DEF w
    <2> QED BY <1>1, <1>a, GoesAstray
  <1>c. a0 = w => w \in Writers \/ a0 = r
    <2>1. w \notin Writers => w = NoName
      BY <1>2 DEF Names
    <2>2. w = NoName => a0 = r
      BY <1>a DEF Addresses
    <2> QED BY <2>1, <2>2
  <1>d. a0 \in Readers
    BY <1>b, <1>c, WritersRead
  <1>7. n \in Nat /\ accepted[r] \in Seq(Entry)
    BY <1>1, Typing
  <1>8. /\ Len(accepted'[r]) = n + 1
        /\ accepted'[r][n + 1] = e
        /\ \A i \in 1 .. n : accepted'[r][i] = accepted[r][i]
    <2> HIDE DEF e, w
    <2> QED BY <1>3, <1>4, <1>7, Appended
  <1>9. seqNumHash[r][w] \in (0 .. MaxSeq) \cup {None}
    BY <1>1, <1>2, Typing
  <1> HIDE DEF e, w, n
  \* what was taken stays taken, and m now is
  <1>10. \A d \in Readers : \A v, k, l :
           /\ HasTaken(d, v, k, l) => HasTaken(d, v, k, l)'
           /\ TookNumber(d, k, l) => TookNumber(d, k, l)'
    <2> SUFFICES ASSUME NEW d \in Readers, NEW i \in 1 .. Len(accepted[d])
                 PROVE  i \in 1 .. Len(accepted'[d]) /\ accepted'[d][i] = accepted[d][i]
      BY DEF HasTaken, TookNumber
    <2>2. CASE d = r
      <3>1. i \in 1 .. n /\ i \in 1 .. (n + 1)
        BY <1>7, <2>2 DEF n
      <3> QED BY <1>8, <2>2, <3>1
    <2>3. CASE d # r
      BY <1>4, <2>3
    <2> QED BY <2>2, <2>3
  <1>11. HasTaken(r, w, m.seq, m.life)' /\ TookNumber(r, m.seq, life[r])'
    <2>1. n + 1 \in 1 .. Len(accepted'[r])
      BY <1>7, <1>8
    <2> QED BY <1>6, <1>8, <2>1 DEF HasTaken, TookNumber
  <1>12. ProtocolTypeOK'
    <2>1. accepted' \in [Readers -> Seq(Entry)]
      BY <1>1, <1>3, <1>4, <1>7, Appended DEF ProtocolTypeOK
    <2>2. seqNumHash' \in [Readers -> [Names -> (0 .. MaxSeq) \cup {None}]]
      <3>1. [seqNumHash[r] EXCEPT ![m.name] = m.seq] \in [Names -> (0 .. MaxSeq) \cup {None}]
        BY <1>1, <1>2 DEF ProtocolTypeOK, w
      <3>2. seqNumHash' = [seqNumHash EXCEPT ![r] = [seqNumHash[r] EXCEPT ![m.name] = m.seq]]
        BY <1>1 DEF NumberStored, ProtocolTypeOK
      <3> QED BY <1>1, <3>1, <3>2 DEF ProtocolTypeOK
    <2>3. acks' \subseteq [src : Readers, dest : Readers, seq : 0 .. MaxSeq]
      BY <1>1, <1>2, <1>a, <1>d DEF ProtocolTypeOK
    <2> QED BY <1>1, <1>b, <2>1, <2>2, <2>3 DEF ProtocolTypeOK
  <1>13. Numbered' /\ Routed' /\ Wire'
    BY <1>b DEF WireInv, Numbered, Routed, Wire
  <1>14. Answers'
    <2> SUFFICES ASSUME NEW a \in acks'
                 PROVE  /\ AnswersBuddy(a)' \/ AnswersItself(a)'
                        /\ a.src = a.dest => TookNumber(a.dest, a.seq, life[a.dest])'
      BY DEF Answers
    <2>1. CASE a \in acks
      <3>1. a.src \in Readers /\ a.dest \in Readers
        BY <1>1, <2>1 DEF ProtocolTypeOK
      <3>2. /\ AnswersBuddy(a) \/ AnswersItself(a)
            /\ a.src = a.dest => TookNumber(a.dest, a.seq, life[a.dest])
        BY <2>1 DEF WireInv, Answers
      <3>3. HasTaken(a.src, a.dest, a.seq, life[a.dest]) =>
              HasTaken(a.src, a.dest, a.seq, life[a.dest])'
        BY <1>10, <3>1
      <3>4. AnswersBuddy(a) => AnswersBuddy(a)'
        BY <3>3 DEF AnswersBuddy
      <3>5. AnswersItself(a) => AnswersItself(a)'
        BY <1>b DEF AnswersItself
      <3>6. TookNumber(a.dest, a.seq, life[a.dest]) => TookNumber(a.dest, a.seq, life[a.dest])'
        BY <1>10, <3>1
      <3> QED BY <3>2, <3>4, <3>5, <3>6
    <2>2. CASE a = [src |-> r, dest |-> a0, seq |-> m.seq]
      <3>1. a.src = r /\ a.dest = a0 /\ a.seq = m.seq
        BY <2>2
      <3>2. a.src = a.dest => TookNumber(a.dest, a.seq, life[a.dest])'
        BY <1>11, <3>1
      <3>3. CASE a0 = r /\ <<r, life[r]>> \in astray'
        BY <3>1, <3>2, <3>3 DEF AnswersItself
      <3>4. CASE a0 = w /\ w \in Writers
        <4>1. HasTaken(r, w, m.seq, life[w])'
          BY <1>2, <1>11, <3>4
        <4>2. m.src = a.dest /\ m.dest = a.src /\ m.seq = a.seq
          BY <1>2, <3>1, <3>4
        <4>3. AnswersBuddy(a)'
          BY <3>1, <3>4, <4>1, <4>2 DEF AnswersBuddy
        <4> QED BY <3>2, <4>3
      <3>5. CASE a0 = r /\ a0 = w /\ w \notin Writers
        <4>1. w = NoName
          BY <1>2, <3>5 DEF Names
        <4> QED BY <3>5, <4>1, NobodysName
      <3> QED BY <1>b, <1>c, <3>3, <3>4, <3>5
    <2> QED BY <1>a, <2>1, <2>2
  <1>15. ConfirmedWasTaken'
    <2> SUFFICES ASSUME NEW c \in confirmed
                 PROVE  \/ HasTaken(c.dest, c.src, c.seq, c.life)'
                        \/ <<c.src, c.life>> \in astray' /\ TookNumber(c.src, c.seq, c.life)'
      BY DEF ConfirmedWasTaken
    <2>1. c.dest \in Readers /\ c.src \in Readers
      BY <1>1, WritersRead DEF ProtocolTypeOK, Confirmation
    <2> QED BY <1>10, <1>b, <2>1 DEF WireInv, ConfirmedWasTaken
  <1>16. Lives'
    <2> SUFFICES ASSUME NEW q \in Readers, NEW i \in 1 .. Len(accepted'[q])
                 PROVE  /\ accepted'[q][i].name \in Writers =>
                             accepted'[q][i].life <= life[accepted'[q][i].name]
                        /\ accepted'[q][i].at <= life[q]
      BY DEF Lives
    <2>1. CASE q = r /\ i = n + 1
      BY <1>2, <1>6, <1>8, <2>1
    <2>2. CASE q = r /\ i \in 1 .. n
      BY <1>8, <2>2 DEF WireInv, Lives, n
    <2>3. CASE q # r
      BY <1>4, <2>3 DEF WireInv, Lives
    <2> QED BY <1>7, <1>8, <2>1, <2>2, <2>3
  <1>17. NotShutOut'
    <2> SUFFICES ASSUME NEW q \in Readers, NEW v \in Writers,
                        HasTaken(q, v, Handshake, life[v])'
                 PROVE  /\ seqNumHash'[q][v] <= seqCnt[v]
                        /\ seqNumHash'[q][v] = seqCnt[v] => HasTaken(q, v, seqCnt[v], life[v])'
      BY DEF NotShutOut
    <2>1. CASE q = r /\ v = w
      BY <1>2, <1>5, <1>11, <2>1
    <2>2. CASE ~(q = r /\ v = w)
      <3>1. seqNumHash'[q][v] = seqNumHash[q][v]
        BY <1>5, <2>2 DEF Names
      <3>2. HasTaken(q, v, Handshake, life[v])
        <4>1. PICK i \in 1 .. Len(accepted'[q]) :
                /\ accepted'[q][i].name = v
                /\ accepted'[q][i].seq = Handshake
                /\ accepted'[q][i].life = life[v]
          BY DEF HasTaken
        <4>2. CASE q = r
          <5>1. i # n + 1
            BY <1>6, <1>8, <2>2, <4>1, <4>2
          <5>2. i \in 1 .. n
            BY <1>7, <1>8, <4>1, <4>2, <5>1
          <5> QED BY <1>8, <4>1, <4>2, <5>2 DEF HasTaken, n
        <4>3. CASE q # r
          BY <1>4, <4>1, <4>3 DEF HasTaken
        <4> QED BY <4>2, <4>3
      <3> QED BY <1>10, <3>1, <3>2 DEF WireInv, NotShutOut
    <2> QED BY <2>1, <2>2
  \* an earlier entry of the same sender is below m, or m starts over
  <1>18. ASSUME NEW i \in 1 .. n, accepted[r][i].name = w, accepted[r][i].at = life[r]
         PROVE  \/ m.seq = Handshake
                \/ accepted[r][i].seq < m.seq
                \/ \E k \in (i + 1) .. n :
                     accepted[r][k].name = w /\ accepted[r][k].seq = Handshake
    <2>1. accepted[r][i].seq \in 0 .. MaxSeq
      BY <1>1, Typing DEF Entry, n
    <2>2. \/ accepted[r][i].seq <= seqNumHash[r][w]
          \/ \E k \in (i + 1) .. n :
               accepted[r][k].name = w /\ accepted[r][k].seq = Handshake
      BY <1>18 DEF WireInv, Latest, n
    <2>3. CASE accepted[r][i].seq <= seqNumHash[r][w] /\ m.seq # Handshake
      <3>1. seqNumHash[r][w] # None
        BY <2>1, <2>3 DEF None
      <3>2. m.seq > seqNumHash[r][w]
        BY <2>3, <3>1 DEF IsNew, w
      <3>3. seqNumHash[r][w] \in 0 .. MaxSeq
        BY <1>9, <3>1
      <3> QED BY <1>2, <2>1, <2>3, <3>2, <3>3
    <2> QED BY <2>2, <2>3
  <1>19. Latest'
    <2> SUFFICES ASSUME NEW q \in Readers, NEW i \in 1 .. Len(accepted'[q]),
                        accepted'[q][i].at = life[q]
                 PROVE  \/ accepted'[q][i].seq <= seqNumHash'[q][accepted'[q][i].name]
                        \/ \E k \in (i + 1) .. Len(accepted'[q]) :
                             /\ accepted'[q][k].name = accepted'[q][i].name
                             /\ accepted'[q][k].seq = Handshake
      BY DEF Latest
    <2>1. CASE q = r /\ i = n + 1
      BY <1>2, <1>5, <1>6, <1>8, <2>1
    <2>2. CASE q = r /\ i \in 1 .. n /\ accepted[r][i].name = w
      <3>1. accepted'[r][i] = accepted[r][i] /\ accepted[r][i].seq \in 0 .. MaxSeq
        BY <1>1, <1>8, <2>2, Typing DEF Entry, n
      <3>2. CASE m.seq = Handshake
        <4>1. n + 1 \in (i + 1) .. Len(accepted'[r])
          BY <1>7, <1>8, <2>2
        <4> QED BY <1>6, <1>8, <2>2, <3>1, <3>2, <4>1
      <3>3. CASE accepted[r][i].seq < m.seq
        BY <1>2, <1>5, <2>2, <3>1, <3>3
      <3>4. CASE \E k \in (i + 1) .. n :
                   accepted[r][k].name = w /\ accepted[r][k].seq = Handshake
        <4>1. PICK k \in (i + 1) .. n :
                accepted[r][k].name = w /\ accepted[r][k].seq = Handshake
          BY <3>4
        <4>2. k \in 1 .. n /\ k \in (i + 1) .. Len(accepted'[r])
          BY <1>7, <1>8, <2>2
        <4> QED BY <1>8, <2>2, <3>1, <4>1, <4>2
      <3> QED BY <1>18, <2>2, <3>1, <3>2, <3>3, <3>4
    <2>3. CASE q = r /\ i \in 1 .. n /\ accepted[r][i].name # w
      <3>1. accepted'[r][i] = accepted[r][i] /\ accepted[r][i].name \in Names
        BY <1>1, <1>8, <2>3, Typing DEF Entry, n
      <3>2. \/ accepted[r][i].seq <= seqNumHash[r][accepted[r][i].name]
            \/ \E k \in (i + 1) .. n :
                 /\ accepted[r][k].name = accepted[r][i].name
                 /\ accepted[r][k].seq = Handshake
        BY <2>3, <3>1 DEF WireInv, Latest, n
      <3>3. \A k \in (i + 1) .. n : /\ k \in (i + 1) .. Len(accepted'[r])
                                  /\ accepted'[r][k] = accepted[r][k]
        BY <1>7, <1>8, <2>3
      <3> QED BY <1>5, <2>3, <3>1, <3>2, <3>3
    <2>4. CASE q # r
      BY <1>4, <1>5, <2>4 DEF WireInv, Latest
    <2> QED BY <1>7, <1>8, <2>1, <2>2, <2>3, <2>4
  <1>20. TakenInOrder'
    <2> SUFFICES ASSUME NEW q \in Readers,
                        NEW i \in 1 .. Len(accepted'[q]), NEW j \in 1 .. Len(accepted'[q]),
                        i < j,
                        accepted'[q][i].name = accepted'[q][j].name,
                        accepted'[q][i].at = accepted'[q][j].at
                 PROVE  \/ accepted'[q][i].seq < accepted'[q][j].seq
                        \/ \E k \in (i + 1) .. j : /\ accepted'[q][k].name = accepted'[q][j].name
                                                 /\ accepted'[q][k].seq = Handshake
      BY DEF TakenInOrder
    <2>1. CASE q = r /\ j = n + 1
      <3>1. i \in 1 .. n /\ accepted'[r][i] = accepted[r][i]
        BY <1>7, <1>8, <2>1
      <3>2. accepted[r][i].name = w /\ accepted[r][i].at = life[r]
        BY <1>6, <1>8, <2>1, <3>1
      <3>3. CASE m.seq = Handshake
        <4>1. j \in (i + 1) .. j
          BY <1>7, <2>1, <3>1
        <4> QED BY <1>6, <1>8, <2>1, <3>3, <4>1
      <3>4. CASE accepted[r][i].seq < m.seq
        BY <1>6, <1>8, <2>1, <3>1, <3>4
      <3>5. CASE \E k \in (i + 1) .. n :
                   accepted[r][k].name = w /\ accepted[r][k].seq = Handshake
        <4>1. PICK k \in (i + 1) .. n :
                accepted[r][k].name = w /\ accepted[r][k].seq = Handshake
          BY <3>5
        <4>2. k \in 1 .. n /\ k \in (i + 1) .. j
          BY <1>7, <2>1, <3>1
        <4> QED BY <1>6, <1>8, <2>1, <4>1, <4>2
      <3> QED BY <1>18, <3>1, <3>2, <3>3, <3>4, <3>5
    <2>2. CASE q = r /\ j \in 1 .. n
      <3>1. i \in 1 .. n
        BY <1>7, <2>2
      <3>2. \A k \in 1 .. n : accepted'[r][k] = accepted[r][k]
        BY <1>8
      <3>3. \/ accepted[r][i].seq < accepted[r][j].seq
            \/ \E k \in (i + 1) .. j : /\ accepted[r][k].name = accepted[r][j].name
                                     /\ accepted[r][k].seq = Handshake
        <4>1. /\ accepted[r][i].name = accepted[r][j].name
              /\ accepted[r][i].at = accepted[r][j].at
          BY <2>2, <3>1, <3>2
        <4>2. i \in 1 .. Len(accepted[r]) /\ j \in 1 .. Len(accepted[r])
          BY <2>2, <3>1 DEF n
        <4> QED BY <4>1, <4>2 DEF WireInv, TakenInOrder
      <3>4. \A k \in (i + 1) .. j : k \in 1 .. n
        BY <1>7, <2>2, <3>1
      <3> QED BY <2>2, <3>1, <3>2, <3>3, <3>4
    <2>3. CASE q # r
      BY <1>4, <2>3 DEF WireInv, TakenInOrder
    <2> QED BY <1>7, <1>8, <2>1, <2>2, <2>3
  <1> QED BY <1>12, <1>13, <1>14, <1>15, <1>16, <1>17, <1>19, <1>20 DEF WireInv

-----------------------------------------------------------------------------
\* A restart: a new life has sent nothing, and a receiver without stored
\* numbers has taken nothing in its new life.
LEMMA WireRestart ==
  ASSUME WireInv, NEW n \in Readers, Restart(n)
  PROVE  WireInv'
  <1>1. /\ life[n] < MaxLife
        /\ life' = [life EXCEPT ![n] = @ + 1]
        /\ seqCnt' = [w \in Writers |-> IF w = n THEN Handshake ELSE seqCnt[w]]
        /\ sender' = [w \in Writers |-> IF w = n THEN Idle ELSE sender[w]]
        /\ data' = {m \in data : m.src # n}
        /\ acks' = {a \in acks : a.dest # n}
        /\ UNCHANGED <<accepted, confirmed, astray>>
    BY DEF Restart
  <1>2. /\ ProtocolTypeOK /\ life \in [Readers -> 0 .. MaxLife] /\ life[n] \in 0 .. MaxLife
        /\ seqNumHash \in [Readers -> [Names -> (0 .. MaxSeq) \cup {None}]]
    BY DEF WireInv, ProtocolTypeOK
  <1>3. /\ life'[n] = life[n] + 1
        /\ \A v \in Readers : v # n => life'[v] = life[v]
        /\ \A v \in Readers : life[v] \in Nat /\ life'[v] \in Nat /\ life[v] <= life'[v]
    BY <1>1, <1>2
  <1>4. /\ \A r \in Readers : r # n => seqNumHash'[r] = seqNumHash[r]
        /\ seqNumHash'[n] = [w \in Names |-> None]
        /\ seqNumHash' \in [Readers -> [Names -> (0 .. MaxSeq) \cup {None}]]
    BY <1>2 DEF Restart
  <1>5. \A d, w, k, l : HasTaken(d, w, k, l)' <=> HasTaken(d, w, k, l)
    BY <1>1 DEF HasTaken
  <1>6. Writers \subseteq Readers
    BY WritersRead
  <1>7. ProtocolTypeOK'
    <2>1. life' \in [Readers -> 0 .. MaxLife]
      <3>1. life[n] + 1 \in 0 .. MaxLife
        BY <1>1, <1>2, BoundsCounted
      <3> QED BY <1>1, <1>2, <3>1
    <2>2. seqCnt' \in [Writers -> Nat] /\ sender' \in [Writers -> Sender]
      BY <1>1, <1>2 DEF ProtocolTypeOK, Handshake, Sender
    <2>3. data' \subseteq Datagram /\ acks' \subseteq [src : Readers, dest : Readers, seq : 0 .. MaxSeq]
      BY <1>1, <1>2 DEF ProtocolTypeOK
    <2> QED BY <1>1, <1>2, <1>4, <2>1, <2>2, <2>3 DEF ProtocolTypeOK
  <1>8. Numbered' /\ Routed'
    BY <1>1, <1>3, <1>6 DEF WireInv, Numbered, Routed
  <1>9. Wire'
    <2> SUFFICES ASSUME NEW m \in data, m.src # n
                 PROVE  /\ m.life = life'[m.src]
                        /\ m.seq <= seqCnt'[m.src]
                        /\ m.seq = seqCnt'[m.src] => sender'[m.src] # Idle /\ sender'[m.src].addr = m.dest
                        /\ m.name \in {m.src, NoName}
      BY <1>1 DEF Wire
    <2>1. m.src \in Writers
      BY <1>2 DEF ProtocolTypeOK, Datagram
    <2>2. life'[m.src] = life[m.src] /\ seqCnt'[m.src] = seqCnt[m.src] /\ sender'[m.src] = sender[m.src]
      BY <1>1, <1>3, <1>6, <2>1
    <2> QED BY <2>2 DEF WireInv, Wire
  <1>10. Answers'
    <2> SUFFICES ASSUME NEW a \in acks, a.dest # n
                 PROVE  /\ AnswersBuddy(a)' \/ AnswersItself(a)'
                        /\ a.src = a.dest => TookNumber(a.dest, a.seq, life[a.dest])'
      BY <1>1 DEF Answers
    <2>1. a.dest \in Readers
      BY <1>2 DEF ProtocolTypeOK
    <2>2. life'[a.dest] = life[a.dest]
      BY <1>3, <2>1
    <2>3. AnswersBuddy(a) => AnswersBuddy(a)'
      BY <1>1, <2>2 DEF AnswersBuddy, HasTaken
    <2>4. AnswersItself(a) => AnswersItself(a)'
      BY <1>1, <2>2 DEF AnswersItself
    <2>5. TookNumber(a.dest, a.seq, life[a.dest]) => TookNumber(a.dest, a.seq, life[a.dest])'
      BY <1>1, <2>2 DEF TookNumber
    <2> QED BY <2>3, <2>4, <2>5 DEF WireInv, Answers
  <1>11. ConfirmedWasTaken'
    BY <1>1 DEF WireInv, ConfirmedWasTaken, HasTaken, TookNumber
  <1>12. \A r \in Readers : \A i \in 1 .. Len(accepted[r]) :
           /\ accepted[r][i].life \in Nat /\ accepted[r][i].at \in Nat
           /\ accepted[r][i].name \in Writers =>
                accepted[r][i].life <= life[accepted[r][i].name]
           /\ accepted[r][i].at <= life[r]
    <2> TAKE r \in Readers
    <2> TAKE i \in 1 .. Len(accepted[r])
    <2>1. accepted[r][i] \in Entry
      BY <1>2, Typing
    <2> QED BY <2>1 DEF Entry, WireInv, Lives
  <1>13. Lives'
    <2> SUFFICES ASSUME NEW r \in Readers, NEW i \in 1 .. Len(accepted[r])
                 PROVE  /\ accepted[r][i].name \in Writers =>
                             accepted[r][i].life <= life'[accepted[r][i].name]
                        /\ accepted[r][i].at <= life'[r]
      BY <1>1 DEF Lives
    <2> DEFINE v == accepted[r][i].name
    <2>1. /\ accepted[r][i].life \in Nat /\ accepted[r][i].at \in Nat
          /\ v \in Writers => accepted[r][i].life <= life[v]
          /\ accepted[r][i].at <= life[r]
      BY <1>12
    <2> HIDE DEF v
    <2>2. /\ v \in Writers => life[v] \in Nat /\ life'[v] \in Nat /\ life[v] <= life'[v]
          /\ life[r] \in Nat /\ life'[r] \in Nat /\ life[r] <= life'[r]
      BY <1>3, <1>6
    <2>3. v \in Writers => accepted[r][i].life <= life'[v]
      BY <2>1, <2>2
    <2> QED BY <2>1, <2>2, <2>3 DEF v
  <1>14. NotShutOut'
    <2> SUFFICES ASSUME NEW r \in Readers, NEW w \in Writers,
                        HasTaken(r, w, Handshake, life'[w])
                 PROVE  /\ seqNumHash'[r][w] <= seqCnt'[w]
                        /\ seqNumHash'[r][w] = seqCnt'[w] => HasTaken(r, w, seqCnt'[w], life'[w])
      BY <1>1 DEF NotShutOut, HasTaken
    <2>1. w # n
      <3>1. PICK i \in 1 .. Len(accepted[r]) :
              accepted[r][i].name = w /\ accepted[r][i].life = life'[w]
        BY DEF HasTaken
      <3>2. life'[w] <= life[w]
        BY <1>12, <3>1
      <3> QED BY <1>3, <3>2
    <2>2. life'[w] = life[w] /\ seqCnt'[w] = seqCnt[w] /\ seqCnt[w] \in Nat
      BY <1>1, <1>2, <1>3, <1>6, <2>1, Typing
    <2>3. CASE r = n
      <3>1. seqNumHash'[r][w] = -1
        BY <1>4, <2>3 DEF None, Names
      <3> QED BY <2>2, <3>1
    <2>4. CASE r # n
      <3>1. seqNumHash'[r][w] = seqNumHash[r][w]
        BY <1>4, <2>4
      <3> QED BY <2>2, <3>1 DEF WireInv, NotShutOut
    <2> QED BY <2>3, <2>4
  <1>15. Latest'
    <2> SUFFICES ASSUME NEW r \in Readers, NEW i \in 1 .. Len(accepted[r]),
                        accepted[r][i].at = life'[r]
                 PROVE  \/ accepted[r][i].seq <= seqNumHash'[r][accepted[r][i].name]
                        \/ \E k \in (i + 1) .. Len(accepted[r]) :
                             /\ accepted[r][k].name = accepted[r][i].name
                             /\ accepted[r][k].seq = Handshake
      BY <1>1 DEF Latest
    <2>1. r # n
      <3>1. life'[r] <= life[r]
        BY <1>12
      <3> QED BY <1>3, <3>1
    <2>2. seqNumHash'[r] = seqNumHash[r] /\ life'[r] = life[r]
      BY <1>3, <1>4, <1>6, <2>1
    <2> QED BY <2>2 DEF WireInv, Latest
  <1>16. TakenInOrder'
    BY <1>1 DEF WireInv, TakenInOrder
  <1> QED BY <1>7, <1>8, <1>9, <1>10, <1>11, <1>13, <1>14, <1>15, <1>16 DEF WireInv

-----------------------------------------------------------------------------
LEMMA ReaderKeeps ==
  ASSUME WireInv, NEW r \in Readers, ReaderStep(r)
  PROVE  WireInv'
  <1>1. CASE ReceiveHandshake(r)
    <2>1. PICK m \in data : /\ m.dest = r /\ m.seq = Handshake
                            /\ StartOver(r, m) /\ Reply(r, m) /\ Taken(r, m)
                            /\ UNCHANGED <<seqCnt, sender, data, life, confirmed>>
      BY <1>1 DEF ReceiveHandshake
    <2>2. NumberStored(r, m)
      BY <2>1 DEF StartOver
    <2> QED BY <2>1, <2>2, TakeKeeps
  <1>2. CASE ReceiveMessage(r)
    <2>1. PICK m \in data : /\ m.dest = r /\ IsNew(r, m)
                            /\ NumberStored(r, m) /\ Reply(r, m) /\ Taken(r, m)
                            /\ UNCHANGED <<seqCnt, sender, data, life, confirmed>>
      BY <1>2 DEF ReceiveMessage
    <2> QED BY <2>1, TakeKeeps
  <1>3. CASE ReceiveOld(r)
    <2>1. UNCHANGED wireVars
      BY <1>3 DEF ReceiveOld, OldAnswer, wireVars
    <2> QED BY <2>1, WireFrame
  <1> QED BY <1>1, <1>2, <1>3 DEF ReaderStep

LEMMA WireKeeps ==
  ASSUME WireInv, [Next]_vars
  PROVE  WireInv'
  <1>1. CASE UNCHANGED vars
    <2>1. UNCHANGED wireVars
      BY <1>1 DEF vars
    <2> QED BY <2>1, WireFrame
  <1>2. ASSUME NEW w \in Writers, NEW d \in Readers, Click(w, d) PROVE WireInv'
    BY <1>2, ClickKeeps
  <1>3. ASSUME NEW w \in Writers, WriterStep(w) PROVE WireInv'
    BY <1>3, TransmitKeeps, AnswerKeeps, FailKeeps DEF WriterStep
  <1>4. ASSUME NEW r \in Readers, ReaderStep(r) PROVE WireInv'
    BY <1>4, ReaderKeeps
  <1>5. ASSUME NEW r \in Readers, InboxStep(r) \/ Open(r) PROVE WireInv'
    BY <1>5, WireFrame DEF InboxStep, Open
  <1>6. ASSUME NEW n \in Readers, Restart(n) PROVE WireInv'
    BY <1>6, WireRestart
  <1> QED BY <1>1, <1>2, <1>3, <1>4, <1>5, <1>6 DEF Next

LEMMA WireAlways == Spec => []WireInv
  BY WireInit, WireKeeps, PTL DEF Spec

(* The protocol's variables keep their types for any nodes and bounds      *)
(* (UdpTx.send, MessageThread.run).                                        *)
LEMMA ProtocolTyped == Spec => []ProtocolTypeOK
  <1>1. WireInv => ProtocolTypeOK
    BY DEF WireInv
  <1> QED BY WireAlways, <1>1, PTL

(* An answer heard means that the buddy took this message of this life,    *)
(* whatever the mesh loses, repeats or delays and whoever restarts; unless *)
(* in this life the sender had to send something without an address, when  *)
(* what answered may be its own MessageThread (UdpTx.send, UdpTx.reply).   *)
THEOREM AnswersMeanTaken == Spec => []ConfirmedWasTaken
  <1>1. WireInv => ConfirmedWasTaken
    BY DEF WireInv
  <1> QED BY WireAlways, <1>1, PTL

(* A buddy that took number 0 of a life refuses none of its messages that  *)
(* it has not taken (MessageThread.run).                                   *)
THEOREM FirstBuddyListens == Spec => []NotShutOut
  <1>1. WireInv => NotShutOut
    BY DEF WireInv
  <1> QED BY WireAlways, <1>1, PTL

(* Numbers are taken in order and once, unless number 0 comes in between.  *)
THEOREM NumbersInOrder == Spec => []TakenInOrder
  <1>1. WireInv => TakenInOrder
    BY DEF WireInv
  <1> QED BY WireAlways, <1>1, PTL

-----------------------------------------------------------------------------
(***************************************************************************)
(* The refinement: every step of the protocol is a step of the lists or     *)
(* leaves them alone.                                                       *)
(***************************************************************************)
LEMMA ListsFollow ==
  ASSUME ProtocolTypeOK, [Next]_vars
  PROVE  [InboxNext]_inboxVars
  <1>1. CASE UNCHANGED vars
    BY <1>1 DEF vars
  <1>2. ASSUME NEW w \in Writers, NEW d \in Readers, Click(w, d) PROVE UNCHANGED inboxVars
    BY <1>2 DEF Click
  <1>3. ASSUME NEW w \in Writers, WriterStep(w) PROVE UNCHANGED inboxVars
    BY <1>3 DEF WriterStep, Transmit, HearAck, NoAck, Fail
  <1>4. ASSUME NEW r \in Readers, ReaderStep(r) PROVE [InboxNext]_inboxVars
    <2>1. CASE ReceiveHandshake(r)
      BY <2>1 DEF ReceiveHandshake, HandshakeUnlisted
    <2>2. CASE ReceiveOld(r)
      BY <2>2 DEF ReceiveOld
    <2>3. CASE ReceiveMessage(r)
      <3>1. PICK m \in data : Arrive(r, [name |-> m.name, seq |-> m.seq])
        BY <2>3 DEF ReceiveMessage
      <3>2. [name |-> m.name, seq |-> m.seq] \in Messages
        BY MessagesAreDatagrams DEF ProtocolTypeOK, Datagram, Message
      <3> QED BY <3>1, <3>2 DEF InboxNext
    <2> QED BY <1>4, <2>1, <2>2, <2>3 DEF ReaderStep
  <1>5. ASSUME NEW r \in Readers, InboxStep(r) \/ Open(r) PROVE InboxNext
    BY <1>5 DEF InboxStep, Open, InboxNext
  <1>6. ASSUME NEW n \in Readers, Restart(n) PROVE [InboxNext]_inboxVars
    BY <1>6 DEF Restart, InboxNext
  <1> QED BY <1>1, <1>2, <1>3, <1>4, <1>5, <1>6 DEF Next

(* The protocol implements Inbox, so what is proved of the lists holds of  *)
(* the program (MessageThread.run enqueues only what it accepted).         *)
THEOREM UsesInbox == Spec => ImplementsInbox
  <1>1. Init => InboxInit
    BY DEF Init
  <1>2. ProtocolTypeOK /\ [Next]_vars => [InboxNext]_inboxVars
    BY ListsFollow
  <1> QED BY ProtocolTyped, <1>1, <1>2, PTL DEF Spec, InboxSpec, ImplementsInbox

(* Every variable of the program keeps its type, those of the lists through *)
(* all steps of the protocol and all restarts included.                     *)
THEOREM MessagingTyped == Spec => []TypeOK
  <1>1. ProtocolTypeOK /\ InboxTypeOK => TypeOK
    BY DEF TypeOK
  <1> QED BY ProtocolTyped, UsesInbox, InboxTyped, <1>1, PTL DEF ImplementsInbox

(* In the whole program nothing is moved twice or hidden behind the count. *)
THEOREM WholeProgram == Spec => [](MovedOnce /\ NoneHidden /\ DiesOnlyOfRace)
  BY UsesInbox, ReadOnce, AllCounted, RaceNeeded, PTL DEF ImplementsInbox
-----------------------------------------------------------------------------
(***************************************************************************)
(* UdpTx.send comes nearer to its end with every step.                     *)
(***************************************************************************)
Allotted ==
  \A w \in Writers : sender[w] # Idle => sender[w].left \in 1 .. AttemptsOf(sender[w].seq)

\* What a step may make of a sender
SendStep(s, t) ==
  \/ t = s
  \/ t = Idle
  \/ s = Idle /\ t.left \in 1 .. AttemptsOf(t.seq)
  \/ Nearer(s, t)

LEMMA Allotment ==
  ASSUME NEW n
  PROVE  AttemptsOf(n) \in Nat /\ AttemptsOf(n) \in 1 .. AttemptsOf(n)
  BY CountsPositive DEF AttemptsOf

LEMMA ClickSends ==
  ASSUME ProtocolTypeOK, NEW w \in Writers, NEW d \in Readers, Click(w, d)
  PROVE  sender[w] = Idle /\ sender'[w].left \in 1 .. AttemptsOf(sender'[w].seq)
         /\ \A v \in Writers : v # w => sender'[v] = sender[v]
  <1> DEFINE n == seqCnt[w]
             limit == AttemptsOf(n)
  <1>1. /\ sender[w] = Idle /\ n \in 0 .. MaxSeq
        /\ StartSend(w, d, n, limit)
    BY Typing, BoundsCounted DEF Click, AttemptsOf
  <1>2. limit \in Nat \ {0}
    BY CountsPositive DEF AttemptsOf
  <1> HIDE DEF n, limit
  <1>3. /\ sender'[w].left = limit /\ sender'[w].seq = n
        /\ \A v \in Writers : v # w => sender'[v] = sender[v]
    BY <1>1, <1>2, StartsSend
  <1>4. limit \in 1 .. AttemptsOf(n)
    BY Allotment DEF limit
  <1> QED BY <1>1, <1>3, <1>4

LEMMA ReturnSends ==
  ASSUME WireInv, NEW w \in Writers, sender[w] # Idle, Return(w)
  PROVE  SendStep(sender[w], sender'[w])
         /\ \A v \in Writers : v # w => sender'[v] = sender[v]
  <1> DEFINE s == sender[w]
             t == sender'[w]
  <1>1. /\ seqCnt[w] \in Nat
        /\ \A v \in Writers : v # w => sender'[v] = sender[v]
        /\ t # Idle => /\ s.seq = Handshake
                       /\ t.dest = s.dest /\ t.seq = seqCnt[w] + 1 /\ t.left = MSG_REP_CNT
    BY AfterReturn, Typing DEF WireInv
  <1> HIDE DEF s, t
  <1>2. t # Idle => t.seq # Handshake
    BY <1>1 DEF Handshake
  <1>3. t # Idle => t.left \in 1 .. AttemptsOf(t.seq)
    BY <1>1, <1>2, Allotment DEF AttemptsOf
  <1>4. t # Idle => Nearer(s, t)
    BY <1>1, <1>2, <1>3 DEF Nearer
  <1>5. SendStep(s, t)
    BY <1>4 DEF SendStep
  <1> QED BY <1>1, <1>5 DEF s, t

LEMMA TransmitSends ==
  ASSUME ProtocolTypeOK, Allotted, NEW w \in Writers, Transmit(w)
  PROVE  SendStep(sender[w], sender'[w])
         /\ \A v \in Writers : v # w => sender'[v] = sender[v]
  <1>1. /\ sender[w] # Idle /\ sender[w].pc = "sending"
        /\ sender \in [Writers -> Sender]
        /\ sender' = [sender EXCEPT ![w].pc = "waiting"]
    BY AtWork DEF Transmit, ProtocolTypeOK
  <1>2. sender[w].left \in 1 .. AttemptsOf(sender[w].seq)
    BY <1>1 DEF Allotted
  <1>3. sender[w] = [pc |-> sender[w].pc, dest |-> sender[w].dest,
                     addr |-> sender[w].addr, name |-> sender[w].name,
                     seq |-> sender[w].seq, left |-> sender[w].left]
    BY <1>1, Busy
  <1>4. sender'[w] = [sender[w] EXCEPT !.pc = "waiting"]
    BY <1>1
  <1>5. /\ sender'[w].pc = "waiting" /\ sender'[w].dest = sender[w].dest
        /\ sender'[w].seq = sender[w].seq /\ sender'[w].left = sender[w].left
    BY <1>3, <1>4
  <1>6. Nearer(sender[w], sender'[w])
    BY <1>1, <1>2, <1>5 DEF Nearer
  <1> QED BY <1>1, <1>6 DEF SendStep

LEMMA NoAckSends ==
  ASSUME WireInv, Allotted, NEW w \in Writers, NoAck(w)
  PROVE  SendStep(sender[w], sender'[w])
         /\ \A v \in Writers : v # w => sender'[v] = sender[v]
  <1>1. sender[w] # Idle /\ ProtocolTypeOK
    BY AtWork DEF NoAck, WireInv
  <1>2. CASE ~Again(w)
    BY <1>1, <1>2, ReturnSends DEF NoAck
  <1>3. CASE Again(w)
    <2>1. /\ sender \in [Writers -> Sender]
          /\ sender' = [sender EXCEPT ![w].pc = "sending", ![w].left = @ - 1]
          /\ sender[w].left > 1
      BY <1>1, <1>3 DEF NoAck, ProtocolTypeOK, Again
    <2>2. sender[w].left \in 1 .. AttemptsOf(sender[w].seq)
      BY <1>1 DEF Allotted
    <2>3. sender[w] = [pc |-> sender[w].pc, dest |-> sender[w].dest,
                       addr |-> sender[w].addr, name |-> sender[w].name,
                       seq |-> sender[w].seq, left |-> sender[w].left]
      BY <1>1, Busy
    <2>4. sender'[w] = [sender[w] EXCEPT !.pc = "sending", !.left = @ - 1]
      BY <2>1
    <2>5. /\ sender'[w].dest = sender[w].dest /\ sender'[w].seq = sender[w].seq
          /\ sender'[w].left = sender[w].left - 1
      BY <2>3, <2>4
    <2>6. AttemptsOf(sender[w].seq) \in Nat
      BY Allotment
    <2>7. Nearer(sender[w], sender'[w])
      BY <2>1, <2>2, <2>5, <2>6 DEF Nearer
    <2> QED BY <2>1, <2>7 DEF SendStep
  <1> QED BY <1>2, <1>3

LEMMA WriterSends ==
  ASSUME WireInv, Allotted, NEW w \in Writers, WriterStep(w)
  PROVE  SendStep(sender[w], sender'[w])
         /\ \A v \in Writers : v # w => sender'[v] = sender[v]
  <1>1. ProtocolTypeOK
    BY DEF WireInv
  <1>2. CASE HearAck(w)
    <2>1. sender[w] # Idle /\ Return(w)
      BY <1>2, AtWork DEF HearAck, AfterStale
    <2> QED BY <2>1, ReturnSends
  <1>3. CASE Fail(w)
    <2>1. sender[w] # Idle /\ Return(w)
      BY <1>3, AtWork DEF Fail
    <2> QED BY <2>1, ReturnSends
  <1> QED BY <1>1, <1>2, <1>3, TransmitSends, NoAckSends DEF WriterStep

LEMMA SendersStep ==
  ASSUME WireInv, Allotted, [Next]_vars, NEW v \in Writers
  PROVE  SendStep(sender[v], sender'[v])
  <1>1. ASSUME NEW w \in Writers, NEW d \in Readers, Click(w, d)
        PROVE  SendStep(sender[v], sender'[v])
    BY <1>1, ClickSends DEF SendStep, WireInv
  <1>2. ASSUME NEW w \in Writers, WriterStep(w) PROVE SendStep(sender[v], sender'[v])
    BY <1>2, WriterSends DEF SendStep
  <1>3. ASSUME NEW r \in Readers, ReaderStep(r) \/ InboxStep(r) \/ Open(r)
        PROVE  SendStep(sender[v], sender'[v])
    <2>1. sender' = sender
      BY <1>3 DEF ReaderStep, ReceiveHandshake, ReceiveMessage, ReceiveOld,
                  InboxStep, Open, wireVars
    <2> QED BY <2>1 DEF SendStep
  <1>4. ASSUME NEW n \in Readers, Restart(n) PROVE SendStep(sender[v], sender'[v])
    BY <1>4 DEF Restart, SendStep
  <1>5. CASE UNCHANGED vars
    BY <1>5 DEF vars, wireVars, SendStep
  <1> QED BY <1>1, <1>2, <1>3, <1>4, <1>5 DEF Next

(* The attempts of a message never start anew and no answer, right or      *)
(* wrong, adds to them: the event thread stays in UdpTx.send for a bounded *)
(* number of its steps (UdpTx.send).                                       *)
THEOREM SendsAdvance == Spec => SendAdvances
  <1>1. Init => Allotted
    BY DEF Init, Allotted
  <1>2. ASSUME WireInv, Allotted, [Next]_vars
        PROVE  /\ Allotted'
               /\ \A w \in Writers : \/ Idle \in {sender[w], sender'[w]}
                                     \/ sender'[w] = sender[w]
                                     \/ Nearer(sender[w], sender'[w])
    <2>1. ASSUME NEW w \in Writers
          PROVE  /\ sender'[w] # Idle => sender'[w].left \in 1 .. AttemptsOf(sender'[w].seq)
                 /\ \/ Idle \in {sender[w], sender'[w]}
                    \/ sender'[w] = sender[w]
                    \/ Nearer(sender[w], sender'[w])
      <3>1. SendStep(sender[w], sender'[w])
        BY <1>2, SendersStep
      <3> QED BY <1>2, <3>1 DEF SendStep, Allotted, Nearer
    <2>2. Allotted'
      BY <2>1 DEF Allotted, AttemptsOf
    <2> QED BY <2>1, <2>2
  <1> QED BY <1>1, <1>2, WireAlways, PTL DEF Spec, SendAdvances

-----------------------------------------------------------------------------
(***************************************************************************)
(* The second refinement: what users have of the numbers is a Conversation. *)
(***************************************************************************)
talk == <<seqCnt, seqNumHash, life, accepted, confirmed, astray>>

LEMMA GoesOn ==
  ASSUME WireInv, NEW w \in Writers, sender[w] # Idle, Return(w),
         UNCHANGED <<seqNumHash, life, accepted>>
  PROVE  Talk!GoOn(w)
  <1>1. seqCnt' = [seqCnt EXCEPT ![w] = @ + 1]
    BY DEF Return
  <1>2. Talk!MayStray(w)
    BY DEF Return, StartSend, Addressed, Talk!MayStray
  <1> QED BY <1>1, <1>2 DEF Talk!GoOn

LEMMA GivesUp ==
  ASSUME WireInv, NEW w \in Writers, sender[w] # Idle, Return(w),
         UNCHANGED <<seqNumHash, life, accepted, confirmed>>
  PROVE  Talk!Next
  <1>1. Talk!GiveUp(w)
    BY GoesOn DEF Talk!GiveUp
  <1> QED BY <1>1 DEF Talk!Next

LEMMA Confirms ==
  ASSUME WireInv, NEW w \in Writers, sender[w] # Idle, NEW a \in acks,
         a.dest = w, a.seq = sender[w].seq, Return(w),
         UNCHANGED <<seqNumHash, life, accepted>>,
         confirmed' = confirmed \cup {[src |-> w, dest |-> sender[w].dest,
                                       seq |-> a.seq, life |-> life[w]]}
  PROVE  Talk!Next
  <1> DEFINE d == sender[w].dest
  <1>1. /\ a.seq = seqCnt[w]
        /\ \/ HasTaken(d, w, a.seq, life[w])
           \/ <<w, life[w]>> \in astray /\ TookNumber(w, a.seq, life[w])
    BY RightAnswer
  <1>2. d \in Readers
    BY Busy DEF WireInv
  <1>3. Talk!TakenBy(d, w) \/ (<<w, life[w]>> \in astray /\ Talk!TakenByItself(w))
    BY <1>1 DEF HasTaken, TookNumber, Talk!TakenBy, Talk!TakenByItself
  <1>4. Talk!GoOn(w)
    BY GoesOn
  <1>5. confirmed' = confirmed \cup {[src |-> w, dest |-> d, seq |-> seqCnt[w],
                                      life |-> life[w]]}
    BY <1>1
  <1> HIDE DEF d
  <1>6. Talk!Confirm(w, d)
    BY <1>3, <1>4, <1>5 DEF Talk!Confirm
  <1> QED BY <1>2, <1>6 DEF Talk!Next

LEMMA WriterTalks ==
  ASSUME WireInv, NEW w \in Writers, WriterStep(w)
  PROVE  Talk!Next \/ UNCHANGED talk
  <1>1. CASE Transmit(w)
    BY <1>1 DEF Transmit, talk
  <1>2. CASE Fail(w)
    <2>1. sender[w] # Idle
      BY <1>2, AtWork DEF Fail
    <2> QED BY <1>2, <2>1, GivesUp DEF Fail
  <1>3. CASE NoAck(w)
    <2>1. CASE Again(w)
      BY <1>3, <2>1 DEF NoAck, talk
    <2>2. CASE ~Again(w)
      <3>1. sender[w] # Idle
        BY <1>3, AtWork DEF NoAck
      <3> QED BY <1>3, <2>2, <3>1, GivesUp DEF NoAck
    <2> QED BY <2>1, <2>2
  <1>4. CASE HearAck(w)
    <2>1. sender[w] # Idle /\ UNCHANGED <<seqNumHash, life, accepted>>
      BY <1>4, AtWork DEF HearAck
    <2>2. PICK a \in acks :
            /\ a.dest = w
            /\ \/ /\ a.seq = sender[w].seq
                  /\ Return(w)
                  /\ confirmed' = confirmed \cup {[src |-> w, dest |-> sender[w].dest,
                                                   seq |-> a.seq, life |-> life[w]]}
               \/ /\ a.seq # sender[w].seq
                  /\ Return(w)
                  /\ UNCHANGED confirmed
      BY <1>4 DEF HearAck, AfterStale
    <2>3. CASE a.seq = sender[w].seq
      BY <2>1, <2>2, <2>3, Confirms
    <2>4. CASE a.seq # sender[w].seq
      BY <2>1, <2>2, <2>4, GivesUp
    <2> QED BY <2>3, <2>4
  <1> QED BY <1>1, <1>2, <1>3, <1>4 DEF WriterStep

LEMMA Takes ==
  ASSUME WireInv, NEW r \in Readers, NEW m \in data,
         m.seq = Handshake \/ IsNew(r, m), NumberStored(r, m), Taken(r, m), Reply(r, m),
         UNCHANGED <<seqCnt, life, confirmed>>
  PROVE  Talk!Next
  <1> DEFINE w == m.src
             x == m.name
             n == m.seq
  <1>1. /\ w \in Writers /\ n \in Nat /\ m.life = life[w] /\ n <= seqCnt[w]
        /\ x \in {w, NoName}
    BY DEF WireInv, ProtocolTypeOK, Datagram, Wire
  <1>2. n \in 0 .. seqCnt[w]
    BY <1>1 DEF WireInv, ProtocolTypeOK
  <1>3. n = 0 \/ seqNumHash[r][x] = -1 \/ n > seqNumHash[r][x]
    BY DEF IsNew, None, Handshake
  <1>4. /\ seqNumHash' = [seqNumHash EXCEPT ![r][x] = n]
        /\ accepted' = [accepted EXCEPT ![r] =
                          Append(@, [name |-> x, seq |-> n, life |-> life[w],
                                     at |-> life[r]])]
    BY <1>1 DEF NumberStored, Taken
  <1>5. Talk!MayStray(r)
    BY DEF Reply, Addressed, Talk!MayStray
  <1> HIDE DEF w, x, n
  <1>6. Talk!Take(r, w, x, n)
    BY <1>3, <1>4, <1>5 DEF Talk!Take, Talk!None, Talk!Handshake
  <1> QED BY <1>1, <1>2, <1>6 DEF Talk!Next

LEMMA ReaderTalks ==
  ASSUME WireInv, NEW r \in Readers, ReaderStep(r)
  PROVE  Talk!Next \/ UNCHANGED talk
  <1>1. CASE ReceiveHandshake(r)
    <2>1. PICK m \in data : /\ m.seq = Handshake /\ NumberStored(r, m) /\ Taken(r, m)
                            /\ Reply(r, m) /\ UNCHANGED <<seqCnt, life, confirmed>>
      BY <1>1 DEF ReceiveHandshake, StartOver
    <2> QED BY <2>1, Takes
  <1>2. CASE ReceiveMessage(r)
    <2>1. PICK m \in data : /\ IsNew(r, m) /\ NumberStored(r, m) /\ Taken(r, m)
                            /\ Reply(r, m) /\ UNCHANGED <<seqCnt, life, confirmed>>
      BY <1>2 DEF ReceiveMessage
    <2> QED BY <2>1, Takes
  <1>3. CASE ReceiveOld(r)
    BY <1>3 DEF ReceiveOld, OldAnswer, talk
  <1> QED BY <1>1, <1>2, <1>3 DEF ReaderStep

LEMMA ClickTalks ==
  ASSUME NEW w \in Writers, NEW d \in Readers, Click(w, d)
  PROVE  Talk!Next
  <1>1. Talk!MayStray(w)
    BY DEF Click, StartSend, Addressed, Talk!MayStray
  <1>2. Talk!Stray(w)
    BY <1>1 DEF Click, Talk!Stray
  <1> QED BY <1>2 DEF Talk!Next

LEMMA RestartTalks ==
  ASSUME NEW n \in Readers, Restart(n)
  PROVE  Talk!Next
  <1>1. Talk!Restart(n)
    BY DEF Restart, Talk!Restart, Talk!None, Talk!Handshake, None, Handshake,
           Names, Talk!Names
  <1> QED BY <1>1 DEF Talk!Next

(* LifeNetSMS implements Conversation: numbers are taken, confirmed and    *)
(* started over as it says, for any nodes, attempts and bounds.  Only a    *)
(* node that went astray may take its own answer for its buddy's.          *)
THEOREM HoldsConversation == Spec => ImplementsConversation
  <1>1. Init => Talk!Init
    BY DEF Init, Talk!Init, None, Handshake, Talk!None, Talk!Handshake, Names, Talk!Names
  <1>2. ASSUME WireInv, [Next]_vars
        PROVE  Talk!Next \/ UNCHANGED talk
    <2>1. ASSUME NEW w \in Writers, NEW d \in Readers, Click(w, d)
          PROVE  Talk!Next
      BY <2>1, ClickTalks
    <2>2. ASSUME NEW r \in Readers, InboxStep(r) \/ Open(r)
          PROVE  UNCHANGED talk
      BY <2>2 DEF InboxStep, Open, wireVars, talk
    <2>3. CASE UNCHANGED vars
      BY <2>3 DEF vars, wireVars, talk
    <2>4. ASSUME NEW n \in Readers, Restart(n)
          PROVE  Talk!Next
      BY <2>4, RestartTalks
    <2> QED BY <1>2, <2>1, <2>2, <2>3, <2>4, WriterTalks, ReaderTalks DEF Next
  <1> QED BY <1>1, <1>2, WireAlways, PTL DEF Spec, ImplementsConversation, Talk!Spec, talk
==============================================================================
