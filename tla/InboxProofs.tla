---------------------------- MODULE InboxProofs ----------------------------
(***************************************************************************)
(* Proofs about Inbox for any nodes, messages and number of arrivals.       *)
(***************************************************************************)
EXTENDS Inbox, TLAPS

(***************************************************************************)
(* The inductive invariant, one reader at a time.                           *)
(***************************************************************************)

\* How far the count may lag behind the vector, by where the listener is;
\* nothing is known between the resets, after which the vector is empty.
Covered(r) ==
  ~Emptying(r) =>
    /\ listener[r].pc \in {"listening", "adding"} => Len(unread[r]) <= unreadCount[r]
    /\ listener[r].pc = "loading" => Len(unread[r]) <= unreadCount[r] + 1
    /\ listener[r].pc = "storing" => Len(unread[r]) <= listener[r].held + 1

\* Without an overlap of an arrival and the resets, the lag is exact.
Agreed(r) ==
  ~raced[r] =>
    /\ mover[r].pc # "dead"
    /\ Emptying(r) => listener[r] = Listening /\ unreadCount[r] = 0
    /\ ~Emptying(r) =>
         /\ listener[r].pc \in {"listening", "adding"} => Len(unread[r]) = unreadCount[r]
         /\ listener[r].pc = "loading" => Len(unread[r]) = unreadCount[r] + 1
         /\ listener[r].pc = "storing" =>
              /\ listener[r].held = unreadCount[r]
              /\ Len(unread[r]) = unreadCount[r] + 1

\* The message being added is the latest.
Past(s, r) ==
  \A i \in 1 .. Len(s) :
    /\ s[i].rxTime <= arrivals[r]
    /\ listener[r].pc = "adding" => s[i].rxTime < arrivals[r]

\* What is read is older than what the mover has still to move.
Before(r) ==
  mover[r].pc \in {"sleeping", "moving"} =>
    \A i \in 1 .. Len(read[r]), j \in 1 .. Len(unread[r]) :
      j > mover[r].i => read[r][i].rxTime < unread[r][j].rxTime

Ordered(r) ==
  /\ InOrderOfArrival(read[r])
  /\ InOrderOfArrival(unread[r])
  /\ Past(read[r], r)
  /\ Past(unread[r], r)
  /\ Before(r)
  /\ mover[r].pc = "sleeping" => mover[r].i = 0

Good(r) == Covered(r) /\ Agreed(r) /\ Ordered(r)

IInv == InboxTypeOK /\ \A r \in Readers : Good(r)

-----------------------------------------------------------------------------
\* The types of one reader's fields
LEMMA Typed ==
  ASSUME InboxTypeOK, NEW r \in Readers
  PROVE  /\ unread[r] \in Seq(Received)
         /\ unreadCount[r] \in Nat
         /\ read[r] \in Seq(Received)
         /\ newMsgReadFlag[r] \in BOOLEAN
         /\ listener[r] \in Listener
         /\ mover[r] \in Mover
         /\ viewer[r] \in Viewer
         /\ arrivals[r] \in Nat
         /\ raced[r] \in BOOLEAN
  BY DEF InboxTypeOK

\* A step that leaves a reader's fields alone keeps what holds of it.
LEMMA Frame ==
  ASSUME NEW r \in Readers, Good(r),
         unread'[r] = unread[r], unreadCount'[r] = unreadCount[r],
         read'[r] = read[r], listener'[r] = listener[r],
         mover'[r] = mover[r], arrivals'[r] = arrivals[r], raced'[r] = raced[r]
  PROVE  Good(r)'
  BY DEF Good, Covered, Agreed, Ordered, Before, Past, Emptying, InOrderOfArrival

LEMMA Appended ==
  ASSUME NEW S, NEW s \in Seq(S), NEW e \in S
  PROVE  /\ Append(s, e) \in Seq(S)
         /\ Len(Append(s, e)) = Len(s) + 1
         /\ \A i \in 1 .. Len(s) : Append(s, e)[i] = s[i]
         /\ Append(s, e)[Len(s) + 1] = e
  OBVIOUS

LEMMA Stamped ==
  ASSUME NEW s \in Seq(Received)
  PROVE  \A i \in 1 .. Len(s) : s[i].rxTime \in Nat
  <1>1. \A i \in 1 .. Len(s) : s[i] \in Received
    OBVIOUS
  <1> QED BY <1>1 DEF Received

\* Appending what is later than all of a list keeps its order.
LEMMA AppendLater ==
  ASSUME NEW s \in Seq(Received), NEW e \in Received,
         InOrderOfArrival(s),
         \A i \in 1 .. Len(s) : s[i].rxTime < e.rxTime
  PROVE  InOrderOfArrival(Append(s, e))
  <1> SUFFICES ASSUME NEW i \in 1 .. Len(Append(s, e)),
                      NEW j \in 1 .. Len(Append(s, e)), i < j
               PROVE  Append(s, e)[i].rxTime < Append(s, e)[j].rxTime
    BY DEF InOrderOfArrival
  <1>1. /\ Len(Append(s, e)) = Len(s) + 1
        /\ Append(s, e)[Len(s) + 1] = e
        /\ \A k \in 1 .. Len(s) : Append(s, e)[k] = s[k]
    BY Appended
  <1>2. Len(s) \in Nat
    OBVIOUS
  <1>3. i \in 1 .. Len(s)
    BY <1>1, <1>2
  <1>4. CASE j = Len(s) + 1
    BY <1>1, <1>3, <1>4
  <1>5. CASE j \in 1 .. Len(s)
    BY <1>1, <1>3, <1>5 DEF InOrderOfArrival
  <1> QED BY <1>1, <1>2, <1>4, <1>5

LEMMA InitGood == InboxInit => IInv
  <1> SUFFICES ASSUME InboxInit PROVE IInv
    OBVIOUS
  <1>1. InboxTypeOK
    BY DEF InboxInit, InboxTypeOK, Listener, Listening, Mover, Sleeping, Viewer, Closed
  <1>2. ASSUME NEW r \in Readers PROVE Good(r)
    <2>1. /\ unread[r] = <<>> /\ read[r] = <<>> /\ unreadCount[r] = 0
          /\ listener[r].pc = "listening" /\ mover[r].pc = "sleeping" /\ mover[r].i = 0
      BY DEF InboxInit, Listening, Sleeping
    <2> QED BY <2>1 DEF Good, Covered, Agreed, Ordered, Before, Past, Emptying,
                        InOrderOfArrival
  <1> QED BY <1>1, <1>2 DEF IInv

-----------------------------------------------------------------------------
(***************************************************************************)
(* The window: it reads the lists and only raises the flag.                 *)
(***************************************************************************)
LEMMA ViewerKeeps ==
  ASSUME IInv, NEW r \in Readers, OpenView(r) \/ ViewerStep(r)
  PROVE  IInv'
  <1>1. /\ viewer[r] \in Viewer
        /\ viewer \in [Readers -> Viewer]
        /\ newMsgReadFlag \in [Readers -> BOOLEAN]
    BY DEF IInv, InboxTypeOK
  <1>2. UNCHANGED <<unread, unreadCount, read, listener, mover, arrivals, raced>>
    BY DEF OpenView, ViewerStep, List, Fetch, Raise
  <1>3. viewer' \in [Readers -> Viewer] /\ newMsgReadFlag' \in [Readers -> BOOLEAN]
    <2>1. CASE OpenView(r)
      BY <1>1, <2>1 DEF OpenView, Viewer
    <2>2. CASE List(r)
      BY <1>1, <2>2 DEF List, Viewer
    <2>3. CASE Fetch(r)
      BY <1>1, <2>3 DEF Fetch, Viewer, Closed
    <2>4. CASE Raise(r)
      BY <1>1, <2>4 DEF Raise, Viewer, Closed
    <2> QED BY <2>1, <2>2, <2>3, <2>4 DEF ViewerStep
  <1>4. InboxTypeOK'
    BY <1>2, <1>3 DEF IInv, InboxTypeOK
  <1>5. \A q \in Readers : Good(q)'
    BY <1>2, Frame DEF IInv
  <1> QED BY <1>4, <1>5 DEF IInv

(***************************************************************************)
(* The receiving thread.                                                    *)
(***************************************************************************)
LEMMA ArriveKeeps ==
  ASSUME IInv, NEW r \in Readers, NEW m \in Messages, Arrive(r, m)
  PROVE  IInv'
  <1>1. /\ listener[r] = Listening
        /\ listener' = [listener EXCEPT ![r] = [pc |-> "adding", msg |-> m]]
        /\ arrivals' = [arrivals EXCEPT ![r] = @ + 1]
        /\ raced' = [raced EXCEPT ![r] = @ \/ Emptying(r)]
        /\ UNCHANGED <<unread, unreadCount, read, newMsgReadFlag, mover, viewer>>
    BY DEF Arrive
  <1>2. InboxTypeOK /\ Good(r)
    BY DEF IInv
  <1>3. InboxTypeOK'
    BY <1>1, <1>2 DEF InboxTypeOK, Listener, Emptying
  <1>4. /\ listener[r].pc = "listening"
        /\ listener'[r].pc = "adding"
        /\ arrivals[r] \in Nat
        /\ arrivals'[r] = arrivals[r] + 1
        /\ unread[r] \in Seq(Received) /\ read[r] \in Seq(Received)
        /\ raced'[r] = (raced[r] \/ Emptying(r))
    BY <1>1, <1>2, Typed DEF Listening, InboxTypeOK
  <1>5. Good(r)'
    <2>1. Covered(r)'
      BY <1>1, <1>2, <1>4 DEF Good, Covered, Emptying
    <2>2. Agreed(r)'
      BY <1>1, <1>2, <1>4 DEF Good, Agreed, Emptying
    <2>3. \A i \in 1 .. Len(read[r]) : read[r][i].rxTime \in Nat
      BY <1>4, Stamped
    <2>4. \A i \in 1 .. Len(unread[r]) : unread[r][i].rxTime \in Nat
      BY <1>4, Stamped
    <2>5. Past(read[r], r)'
      <3>1. \A i \in 1 .. Len(read[r]) : read[r][i].rxTime < arrivals'[r]
        BY <1>2, <1>4, <2>3 DEF Good, Ordered, Past
      <3> QED BY <1>1, <1>4, <2>3, <3>1 DEF Past
    <2>6. Past(unread[r], r)'
      <3>1. \A i \in 1 .. Len(unread[r]) : unread[r][i].rxTime < arrivals'[r]
        BY <1>2, <1>4, <2>4 DEF Good, Ordered, Past
      <3> QED BY <1>1, <1>4, <2>4, <3>1 DEF Past
    <2>7. Ordered(r)'
      BY <1>1, <1>2, <2>5, <2>6 DEF Good, Ordered, Before, InOrderOfArrival
    <2> QED BY <2>1, <2>2, <2>7 DEF Good
  <1>6. ASSUME NEW q \in Readers, q # r PROVE Good(q)'
    <2>1. /\ listener'[q] = listener[q] /\ arrivals'[q] = arrivals[q] /\ raced'[q] = raced[q]
          /\ Good(q)
      BY <1>1, <1>2, <1>6 DEF IInv, InboxTypeOK
    <2> QED BY <1>1, <2>1, Frame
  <1> QED BY <1>3, <1>5, <1>6 DEF IInv

LEMMA AddKeeps ==
  ASSUME IInv, NEW r \in Readers, Add(r)
  PROVE  IInv'
  <1> DEFINE e == [msg |-> listener[r].msg, rxTime |-> arrivals[r]]
  <1>1. /\ listener[r].pc = "adding"
        /\ unread' = [unread EXCEPT ![r] = Append(@, e)]
        /\ listener' = [listener EXCEPT ![r] = [pc |-> "loading"]]
        /\ UNCHANGED <<unreadCount, read, newMsgReadFlag, mover, viewer, arrivals, raced>>
    BY DEF Add
  <1>2. InboxTypeOK /\ Good(r)
    BY DEF IInv
  <1>3. e \in Received
    <2>1. listener[r] \in Listener /\ arrivals[r] \in Nat
      BY <1>2, Typed
    <2>2. listener[r].msg \in Messages
      BY <1>1, <2>1 DEF Listener, Listening
    <2> QED BY <2>1, <2>2 DEF Received
  <1>4. /\ unread[r] \in Seq(Received) /\ read[r] \in Seq(Received)
        /\ unreadCount[r] \in Nat /\ arrivals[r] \in Nat /\ mover[r].i \in Nat
    BY <1>2, Typed DEF Mover
  <1>5. /\ unread'[r] = Append(unread[r], e)
        /\ listener'[r].pc = "loading"
    BY <1>1, <1>2 DEF InboxTypeOK
  <1> HIDE DEF e
  <1>6. InboxTypeOK'
    <2>1. unread' \in [Readers -> Seq(Received)]
      BY <1>1, <1>2, <1>3, <1>4, Appended DEF InboxTypeOK
    <2>2. listener' \in [Readers -> Listener]
      BY <1>1, <1>2 DEF InboxTypeOK, Listener
    <2> QED BY <1>1, <1>2, <2>1, <2>2 DEF InboxTypeOK
  <1>7. /\ Len(unread'[r]) = Len(unread[r]) + 1
        /\ unread'[r][Len(unread[r]) + 1] = e
        /\ \A i \in 1 .. Len(unread[r]) : unread'[r][i] = unread[r][i]
        /\ Len(unread[r]) \in Nat
    BY <1>3, <1>4, <1>5, Appended
  <1>8. e.rxTime = arrivals[r]
    BY DEF e
  <1>9. Good(r)'
    <2>1. Covered(r)'
      BY <1>1, <1>2, <1>4, <1>5, <1>7 DEF Good, Covered, Emptying
    <2>2. Agreed(r)'
      BY <1>1, <1>2, <1>4, <1>5, <1>7 DEF Good, Agreed, Emptying, Listening
    <2>3. /\ \A i \in 1 .. Len(read[r]) : read[r][i].rxTime < arrivals[r]
          /\ \A i \in 1 .. Len(unread[r]) : unread[r][i].rxTime < arrivals[r]
      BY <1>1, <1>2 DEF Good, Ordered, Past
    <2>4. InOrderOfArrival(unread'[r])
      BY <1>2, <1>3, <1>4, <1>5, <1>8, <2>3, AppendLater DEF Good, Ordered
    <2>5. Past(read[r], r)'
      BY <1>1, <1>2, <1>5 DEF Good, Ordered, Past
    <2>6. Past(unread[r], r)'
      <3>1. \A i \in 1 .. Len(unread'[r]) : unread'[r][i].rxTime <= arrivals[r]
        <4> SUFFICES ASSUME NEW i \in 1 .. Len(unread'[r])
                     PROVE  unread'[r][i].rxTime <= arrivals[r]
          OBVIOUS
        <4>1. CASE i = Len(unread[r]) + 1
          BY <1>4, <1>7, <1>8, <4>1
        <4>2. CASE i \in 1 .. Len(unread[r])
          BY <1>2, <1>7, <4>2 DEF Good, Ordered, Past
        <4> QED BY <1>7, <4>1, <4>2
      <3> QED BY <1>1, <1>5, <3>1 DEF Past
    <2>7. Before(r)'
      <3> SUFFICES ASSUME mover[r].pc \in {"sleeping", "moving"},
                          NEW i \in 1 .. Len(read[r]), NEW j \in 1 .. Len(unread'[r]),
                          j > mover[r].i
                   PROVE  read[r][i].rxTime < unread'[r][j].rxTime
        BY <1>1 DEF Before
      <3>1. CASE j = Len(unread[r]) + 1
        BY <1>7, <1>8, <2>3, <3>1
      <3>2. CASE j \in 1 .. Len(unread[r])
        BY <1>2, <1>7, <3>2 DEF Good, Ordered, Before
      <3> QED BY <1>7, <3>1, <3>2
    <2>8. InOrderOfArrival(read'[r]) /\ (mover'[r].pc = "sleeping" => mover'[r].i = 0)
      BY <1>1, <1>2 DEF Good, Ordered
    <2> QED BY <2>1, <2>2, <2>4, <2>5, <2>6, <2>7, <2>8 DEF Good, Ordered
  <1>10. ASSUME NEW q \in Readers, q # r PROVE Good(q)'
    <2>1. /\ listener'[q] = listener[q] /\ unread'[q] = unread[q]
          /\ Good(q)
      BY <1>1, <1>2, <1>10 DEF IInv, InboxTypeOK
    <2> QED BY <1>1, <2>1, Frame
  <1> QED BY <1>6, <1>9, <1>10 DEF IInv

LEMMA LoadKeeps ==
  ASSUME IInv, NEW r \in Readers, Load(r)
  PROVE  IInv'
  <1>1. /\ listener[r].pc = "loading"
        /\ listener' = [listener EXCEPT ![r] = [pc |-> "storing", held |-> unreadCount[r]]]
        /\ UNCHANGED <<unread, unreadCount, read, newMsgReadFlag, mover, viewer, arrivals, raced>>
    BY DEF Load
  <1>2. InboxTypeOK /\ Good(r)
    BY DEF IInv
  <1>3. InboxTypeOK'
    BY <1>1, <1>2 DEF InboxTypeOK, Listener
  <1>4. listener'[r].pc = "storing" /\ listener'[r].held = unreadCount[r]
    BY <1>1, <1>2 DEF InboxTypeOK
  <1>5. Good(r)'
    BY <1>1, <1>2, <1>4
       DEF Good, Covered, Agreed, Ordered, Past, Before, Emptying, InOrderOfArrival, Listening
  <1>6. ASSUME NEW q \in Readers, q # r PROVE Good(q)'
    <2>1. listener'[q] = listener[q] /\ Good(q)
      BY <1>1, <1>2, <1>6 DEF IInv, InboxTypeOK
    <2> QED BY <1>1, <2>1, Frame
  <1> QED BY <1>3, <1>5, <1>6 DEF IInv

LEMMA StoreKeeps ==
  ASSUME IInv, NEW r \in Readers, Store(r)
  PROVE  IInv'
  <1>1. /\ listener[r].pc = "storing"
        /\ unreadCount' = [unreadCount EXCEPT ![r] = listener[r].held + 1]
        /\ listener' = [listener EXCEPT ![r] = Listening]
        /\ UNCHANGED <<unread, read, newMsgReadFlag, mover, viewer, arrivals, raced>>
    BY DEF Store
  <1>2. InboxTypeOK /\ Good(r)
    BY DEF IInv
  <1>3. listener[r].held \in Nat
    <2>1. listener[r] \in Listener
      BY <1>2, Typed
    <2> QED BY <1>1, <2>1 DEF Listener, Listening
  <1>4. InboxTypeOK'
    BY <1>1, <1>2, <1>3 DEF InboxTypeOK, Listener
  <1>5. /\ listener'[r] = Listening /\ listener'[r].pc = "listening"
        /\ unreadCount'[r] = listener[r].held + 1
    BY <1>1, <1>2 DEF InboxTypeOK, Listening
  <1>6. Good(r)'
    <2>1. Covered(r)'
      BY <1>1, <1>2, <1>3, <1>5 DEF Good, Covered, Emptying
    <2>2. Agreed(r)'
      BY <1>1, <1>2, <1>3, <1>5 DEF Good, Agreed, Emptying, Listening
    <2>3. Ordered(r)'
      BY <1>1, <1>2, <1>5 DEF Good, Ordered, Past, Before, InOrderOfArrival
    <2> QED BY <2>1, <2>2, <2>3 DEF Good
  <1>7. ASSUME NEW q \in Readers, q # r PROVE Good(q)'
    <2>1. listener'[q] = listener[q] /\ unreadCount'[q] = unreadCount[q] /\ Good(q)
      BY <1>1, <1>2, <1>7 DEF IInv, InboxTypeOK
    <2> QED BY <1>1, <2>1, Frame
  <1> QED BY <1>4, <1>6, <1>7 DEF IInv

(***************************************************************************)
(* The moving thread.                                                       *)
(***************************************************************************)
LEMMA WakeKeeps ==
  ASSUME IInv, NEW r \in Readers, Wake(r)
  PROVE  IInv'
  <1>1. /\ mover[r].pc = "sleeping"
        /\ mover' = [mover EXCEPT ![r] = [pc |-> "moving", i |-> 0]]
        /\ UNCHANGED <<unread, unreadCount, read, newMsgReadFlag, listener, viewer, arrivals, raced>>
    BY DEF Wake
  <1>2. InboxTypeOK /\ Good(r)
    BY DEF IInv
  <1>3. InboxTypeOK'
    BY <1>1, <1>2 DEF InboxTypeOK, Mover
  <1>4. mover'[r].pc = "moving" /\ mover'[r].i = 0 /\ mover[r].i = 0
    BY <1>1, <1>2 DEF InboxTypeOK, Good, Ordered
  <1>5. Good(r)'
    BY <1>1, <1>2, <1>4
       DEF Good, Covered, Agreed, Ordered, Past, Before, Emptying, InOrderOfArrival
  <1>6. ASSUME NEW q \in Readers, q # r PROVE Good(q)'
    <2>1. mover'[q] = mover[q] /\ Good(q)
      BY <1>1, <1>2, <1>6 DEF IInv, InboxTypeOK
    <2> QED BY <1>1, <2>1, Frame
  <1> QED BY <1>3, <1>5, <1>6 DEF IInv

LEMMA MoveKeeps ==
  ASSUME IInv, NEW r \in Readers, Move(r)
  PROVE  IInv'
  <1>1. /\ mover[r].pc = "moving"
        /\ UNCHANGED <<unread, unreadCount, newMsgReadFlag, listener, viewer, arrivals, raced>>
    BY DEF Move
  <1>2. InboxTypeOK /\ Good(r)
    BY DEF IInv
  <1>3. /\ unread[r] \in Seq(Received) /\ read[r] \in Seq(Received)
        /\ unreadCount[r] \in Nat /\ mover[r].i \in Nat /\ arrivals[r] \in Nat
        /\ Len(unread[r]) \in Nat /\ Len(read[r]) \in Nat
    BY <1>2, Typed DEF Mover
  <1>4. CASE /\ HasNext(r)
             /\ mover[r].i < Len(unread[r])
             /\ read' = [read EXCEPT ![r] = Append(@, unread[r][mover[r].i + 1])]
             /\ mover' = [mover EXCEPT ![r] = [pc |-> "moving", i |-> mover[r].i + 1]]
    <2> DEFINE k == mover[r].i + 1
               e == unread[r][k]
    <2>1. k \in 1 .. Len(unread[r]) /\ k \in Nat
      BY <1>3, <1>4
    <2>2. e \in Received
      BY <1>3, <2>1
    <2>3. /\ read'[r] = Append(read[r], e)
          /\ mover'[r].pc = "moving" /\ mover'[r].i = k
      BY <1>2, <1>4 DEF InboxTypeOK
    <2>4. read' \in [Readers -> Seq(Received)]
      BY <1>2, <1>3, <1>4, <2>2, Appended DEF InboxTypeOK
    <2>5. mover' \in [Readers -> Mover]
      BY <1>2, <1>3, <1>4 DEF InboxTypeOK, Mover
    <2>6. InboxTypeOK'
      BY <1>1, <1>2, <2>4, <2>5 DEF InboxTypeOK
    <2>7. k > mover[r].i
      BY <1>3
    <2> HIDE DEF e, k
    <2>8. /\ Len(read'[r]) = Len(read[r]) + 1
          /\ read'[r][Len(read[r]) + 1] = e
          /\ \A i \in 1 .. Len(read[r]) : read'[r][i] = read[r][i]
      BY <1>3, <2>2, <2>3, Appended
    <2>9. \A i \in 1 .. Len(read[r]) : read[r][i].rxTime < e.rxTime
      BY <1>1, <1>2, <2>1, <2>7 DEF Good, Ordered, Before, e
    <2>10. InOrderOfArrival(read'[r])
      BY <1>2, <1>3, <2>2, <2>3, <2>9, AppendLater DEF Good, Ordered
    <2>11. Past(read[r], r)'
      <3>1. /\ e.rxTime <= arrivals[r]
            /\ listener[r].pc = "adding" => e.rxTime < arrivals[r]
        BY <1>2, <2>1 DEF Good, Ordered, Past, e
      <3>2. ASSUME NEW i \in 1 .. Len(read'[r])
            PROVE  /\ read'[r][i].rxTime <= arrivals[r]
                   /\ listener[r].pc = "adding" => read'[r][i].rxTime < arrivals[r]
        <4>1. CASE i = Len(read[r]) + 1
          BY <2>8, <3>1, <4>1
        <4>2. CASE i \in 1 .. Len(read[r])
          BY <1>2, <2>8, <4>2 DEF Good, Ordered, Past
        <4> QED BY <1>3, <2>8, <4>1, <4>2
      <3> QED BY <1>1, <3>2 DEF Past
    <2>12. Before(r)'
      <3> SUFFICES ASSUME NEW i \in 1 .. Len(read'[r]), NEW j \in 1 .. Len(unread[r]), j > k
                   PROVE  read'[r][i].rxTime < unread[r][j].rxTime
        BY <1>1, <2>3 DEF Before
      <3>1. CASE i = Len(read[r]) + 1
        <4>1. e.rxTime < unread[r][j].rxTime
          BY <1>2, <2>1 DEF Good, Ordered, InOrderOfArrival, e
        <4> QED BY <2>8, <3>1, <4>1
      <3>2. CASE i \in 1 .. Len(read[r])
        <4>1. j > mover[r].i
          BY <1>3, <2>1, <2>7
        <4> QED BY <1>1, <1>2, <2>8, <3>2, <4>1 DEF Good, Ordered, Before
      <3> QED BY <1>3, <2>8, <3>1, <3>2
    <2>13. Ordered(r)'
      BY <1>1, <1>2, <2>3, <2>10, <2>11, <2>12 DEF Good, Ordered, Past, InOrderOfArrival
    <2>14. Covered(r)' /\ Agreed(r)'
      BY <1>1, <1>2, <2>3 DEF Good, Covered, Agreed, Emptying
    <2>15. ASSUME NEW q \in Readers, q # r PROVE Good(q)'
      <3>1. mover'[q] = mover[q] /\ read'[q] = read[q] /\ Good(q)
        BY <1>2, <1>4, <2>15 DEF IInv, InboxTypeOK
      <3> QED BY <1>1, <3>1, Frame
    <2> QED BY <2>6, <2>13, <2>14, <2>15 DEF IInv, Good
  <1>5. CASE /\ HasNext(r)
             /\ mover[r].i >= Len(unread[r])
             /\ mover' = [mover EXCEPT ![r] = [pc |-> "dead", i |-> 0]]
             /\ UNCHANGED read
    <2>1. mover'[r].pc = "dead" /\ mover'[r].i = 0
      BY <1>2, <1>5 DEF InboxTypeOK
    <2>2. InboxTypeOK'
      BY <1>1, <1>2, <1>5 DEF InboxTypeOK, Mover
    <2>3. raced[r]
      <3>1. mover[r].i < unreadCount[r]
        BY <1>5 DEF HasNext
      <3>2. Len(unread[r]) < unreadCount[r]
        BY <1>3, <1>5, <3>1
      <3>3. ~Emptying(r)
        BY <1>1 DEF Emptying
      <3>4. listener[r].pc \in {"listening", "adding", "loading", "storing"}
        BY <1>2, Typed DEF Listener, Listening
      <3> QED BY <1>2, <1>3, <3>2, <3>3, <3>4 DEF Good, Agreed
    <2>4. Good(r)'
      BY <1>1, <1>2, <1>5, <2>1, <2>3
         DEF Good, Covered, Agreed, Ordered, Past, Before, Emptying, InOrderOfArrival
    <2>5. ASSUME NEW q \in Readers, q # r PROVE Good(q)'
      <3>1. mover'[q] = mover[q] /\ Good(q)
        BY <1>2, <1>5, <2>5 DEF IInv, InboxTypeOK
      <3> QED BY <1>1, <1>5, <3>1, Frame
    <2> QED BY <2>2, <2>4, <2>5 DEF IInv
  <1>6. CASE /\ ~HasNext(r)
             /\ mover' = [mover EXCEPT ![r] = [pc |-> "zeroing", i |-> 0]]
             /\ UNCHANGED read
    <2>1. mover'[r].pc = "zeroing" /\ mover'[r].i = 0
      BY <1>2, <1>6 DEF InboxTypeOK
    <2>2. InboxTypeOK'
      BY <1>1, <1>2, <1>6 DEF InboxTypeOK, Mover
    <2>3. Good(r)'
      BY <1>1, <1>2, <1>6, <2>1
         DEF Good, Covered, Agreed, Ordered, Past, Before, Emptying, InOrderOfArrival
    <2>4. ASSUME NEW q \in Readers, q # r PROVE Good(q)'
      <3>1. mover'[q] = mover[q] /\ Good(q)
        BY <1>2, <1>6, <2>4 DEF IInv, InboxTypeOK
      <3> QED BY <1>1, <1>6, <3>1, Frame
    <2> QED BY <2>2, <2>3, <2>4 DEF IInv
  <1> QED BY <1>4, <1>5, <1>6 DEF Move

LEMMA ZeroKeeps ==
  ASSUME IInv, NEW r \in Readers, Zero(r)
  PROVE  IInv'
  <1>1. /\ mover[r].pc = "zeroing"
        /\ unreadCount' = [unreadCount EXCEPT ![r] = 0]
        /\ mover' = [mover EXCEPT ![r] = [pc |-> "lowering", i |-> 0]]
        /\ raced' = [raced EXCEPT ![r] = @ \/ listener[r] # Listening]
        /\ UNCHANGED <<unread, read, newMsgReadFlag, listener, viewer, arrivals>>
    BY DEF Zero, Reset, ZeroCount
  <1>2. InboxTypeOK /\ Good(r)
    BY DEF IInv
  <1>3. InboxTypeOK'
    BY <1>1, <1>2 DEF InboxTypeOK, Mover
  <1>4. /\ mover'[r].pc = "lowering" /\ mover'[r].i = 0
        /\ unreadCount'[r] = 0
        /\ raced'[r] = (raced[r] \/ listener[r] # Listening)
    BY <1>1, <1>2 DEF InboxTypeOK
  <1>5. Good(r)'
    <2>1. Covered(r)'
      BY <1>4 DEF Covered, Emptying
    <2>2. Agreed(r)'
      BY <1>1, <1>4 DEF Agreed, Emptying
    <2>3. Ordered(r)'
      BY <1>1, <1>2, <1>4 DEF Good, Ordered, Past, Before, InOrderOfArrival
    <2> QED BY <2>1, <2>2, <2>3 DEF Good
  <1>6. ASSUME NEW q \in Readers, q # r PROVE Good(q)'
    <2>1. /\ mover'[q] = mover[q] /\ unreadCount'[q] = unreadCount[q]
          /\ raced'[q] = raced[q] /\ Good(q)
      BY <1>1, <1>2, <1>6 DEF IInv, InboxTypeOK
    <2> QED BY <1>1, <2>1, Frame
  <1> QED BY <1>3, <1>5, <1>6 DEF IInv

LEMMA LowerKeeps ==
  ASSUME IInv, NEW r \in Readers, Lower(r)
  PROVE  IInv'
  <1>1. /\ mover[r].pc = "lowering"
        /\ newMsgReadFlag' = [newMsgReadFlag EXCEPT ![r] = FALSE]
        /\ mover' = [mover EXCEPT ![r] = [pc |-> "clearing", i |-> 0]]
        /\ UNCHANGED <<unread, unreadCount, read, listener, viewer, arrivals, raced>>
    BY DEF Lower
  <1>2. InboxTypeOK /\ Good(r)
    BY DEF IInv
  <1>3. InboxTypeOK'
    BY <1>1, <1>2 DEF InboxTypeOK, Mover
  <1>4. mover'[r].pc = "clearing" /\ mover'[r].i = 0
    BY <1>1, <1>2 DEF InboxTypeOK
  <1>5. Good(r)'
    BY <1>1, <1>2, <1>4
       DEF Good, Covered, Agreed, Ordered, Past, Before, Emptying, InOrderOfArrival
  <1>6. ASSUME NEW q \in Readers, q # r PROVE Good(q)'
    <2>1. mover'[q] = mover[q] /\ Good(q)
      BY <1>1, <1>2, <1>6 DEF IInv, InboxTypeOK
    <2> QED BY <1>1, <2>1, Frame
  <1> QED BY <1>3, <1>5, <1>6 DEF IInv

\* Nothing is known of the count between the resets; the empty vector
\* makes it an upper bound again.
LEMMA ClearKeeps ==
  ASSUME IInv, NEW r \in Readers, Clear(r)
  PROVE  IInv'
  <1>1. /\ mover[r].pc = "clearing"
        /\ unread' = [unread EXCEPT ![r] = <<>>]
        /\ mover' = [mover EXCEPT ![r] = Sleeping]
        /\ UNCHANGED <<unreadCount, read, newMsgReadFlag, listener, viewer, arrivals, raced>>
    BY DEF Clear, Reset, ClearVector
  <1>2. InboxTypeOK /\ Good(r)
    BY DEF IInv
  <1>3. InboxTypeOK'
    BY <1>1, <1>2 DEF InboxTypeOK, Mover, Sleeping
  <1>4. /\ mover'[r].pc = "sleeping" /\ mover'[r].i = 0
        /\ unread'[r] = <<>> /\ Len(unread'[r]) = 0
        /\ unreadCount[r] \in Nat
        /\ listener[r].pc = "storing" => listener[r].held \in Nat
    <2>1. mover'[r] = Sleeping /\ unread'[r] = <<>>
      BY <1>1, <1>2 DEF InboxTypeOK
    <2>2. listener[r] \in Listener /\ unreadCount[r] \in Nat
      BY <1>2, Typed
    <2>3. listener[r].pc = "storing" => listener[r].held \in Nat
      BY <2>2 DEF Listener, Listening
    <2>4. Sleeping.pc = "sleeping" /\ Sleeping.i = 0
      BY DEF Sleeping
    <2> QED BY <2>1, <2>2, <2>3, <2>4
  <1>5. Good(r)'
    <2>1. Covered(r)'
      BY <1>1, <1>4 DEF Covered, Emptying
    <2>2. Agreed(r)'
      BY <1>1, <1>2, <1>4 DEF Good, Agreed, Emptying, Listening
    <2>3. Ordered(r)'
      BY <1>1, <1>2, <1>4 DEF Good, Ordered, Past, Before, InOrderOfArrival
    <2> QED BY <2>1, <2>2, <2>3 DEF Good
  <1>6. ASSUME NEW q \in Readers, q # r PROVE Good(q)'
    <2>1. mover'[q] = mover[q] /\ unread'[q] = unread[q] /\ Good(q)
      BY <1>1, <1>2, <1>6 DEF IInv, InboxTypeOK
    <2> QED BY <1>1, <2>1, Frame
  <1> QED BY <1>3, <1>5, <1>6 DEF IInv

LEMMA RestartKeeps ==
  ASSUME IInv, NEW r \in Readers, EmptyInbox(r)
  PROVE  IInv'
  <1>1. InboxTypeOK /\ arrivals' = arrivals
    BY DEF IInv, EmptyInbox
  <1>2. InboxTypeOK'
    BY <1>1 DEF EmptyInbox, InboxTypeOK, Mover, Sleeping, Viewer, Closed, Listener
  <1>3. /\ unread'[r] = <<>> /\ read'[r] = <<>> /\ unreadCount'[r] = 0
        /\ listener'[r].pc = "listening" /\ mover'[r].pc = "sleeping" /\ mover'[r].i = 0
    BY <1>1 DEF EmptyInbox, InboxTypeOK, Listening, Sleeping
  <1>4. Good(r)'
    BY <1>3 DEF Good, Covered, Agreed, Ordered, Before, Past, Emptying, InOrderOfArrival
  <1>5. ASSUME NEW q \in Readers, q # r PROVE Good(q)'
    <2>1. /\ unread'[q] = unread[q] /\ unreadCount'[q] = unreadCount[q]
          /\ read'[q] = read[q] /\ listener'[q] = listener[q]
          /\ mover'[q] = mover[q] /\ raced'[q] = raced[q] /\ Good(q)
      BY <1>1, <1>5 DEF EmptyInbox, IInv, InboxTypeOK
    <2> QED BY <1>1, <2>1, Frame
  <1> QED BY <1>2, <1>4, <1>5 DEF IInv

-----------------------------------------------------------------------------
\* Every step of the lists keeps the invariant.
LEMMA StepKeeps ==
  ASSUME IInv, [InboxNext]_inboxVars
  PROVE  IInv'
  <1>1. CASE UNCHANGED inboxVars
    <2>1. UNCHANGED <<unread, unreadCount, read, newMsgReadFlag, listener, mover,
                      viewer, arrivals, raced>>
      BY <1>1 DEF inboxVars
    <2>2. InboxTypeOK'
      BY <2>1 DEF IInv, InboxTypeOK
    <2>3. \A q \in Readers : Good(q)'
      BY <2>1, Frame DEF IInv
    <2> QED BY <2>2, <2>3 DEF IInv
  <1>2. ASSUME NEW r \in Readers, NEW m \in Messages, Arrive(r, m) PROVE IInv'
    BY <1>2, ArriveKeeps
  <1>3. ASSUME NEW r \in Readers, ListenerStep(r) PROVE IInv'
    BY <1>3, AddKeeps, LoadKeeps, StoreKeeps DEF ListenerStep
  <1>4. ASSUME NEW r \in Readers, MoverStep(r) PROVE IInv'
    BY <1>4, WakeKeeps, MoveKeeps, ZeroKeeps, LowerKeeps, ClearKeeps DEF MoverStep
  <1>5. ASSUME NEW r \in Readers, OpenView(r) \/ ViewerStep(r) PROVE IInv'
    BY <1>5, ViewerKeeps
  <1>6. ASSUME NEW r \in Readers, EmptyInbox(r) PROVE IInv'
    BY <1>6, RestartKeeps
  <1> QED BY <1>1, <1>2, <1>3, <1>4, <1>5, <1>6 DEF InboxNext

LEMMA Consequences ==
  ASSUME IInv
  PROVE  InboxTypeOK /\ MovedOnce /\ NoneHidden /\ DiesOnlyOfRace
  <1>1. ASSUME NEW r \in Readers PROVE Good(r) /\ Len(unread[r]) \in Nat
    <2>1. unread[r] \in Seq(Received)
      BY Typed DEF IInv
    <2> QED BY <2>1 DEF IInv
  <1>2. MovedOnce
    <2> SUFFICES ASSUME NEW r \in Readers
                 PROVE  /\ InOrderOfArrival(read[r])
                        /\ mover[r].pc = "sleeping" =>
                             \A i \in 1 .. Len(read[r]), j \in 1 .. Len(unread[r]) :
                               read[r][i].rxTime < unread[r][j].rxTime
      BY DEF MovedOnce
    <2>1. Ordered(r)
      BY <1>1 DEF Good
    <2>2. ASSUME mover[r].pc = "sleeping", NEW i \in 1 .. Len(read[r]),
                 NEW j \in 1 .. Len(unread[r])
          PROVE  read[r][i].rxTime < unread[r][j].rxTime
      <3>1. mover[r].i = 0 /\ j > mover[r].i
        BY <1>1, <2>1, <2>2 DEF Ordered
      <3> QED BY <2>1, <2>2, <3>1 DEF Ordered, Before
    <2> QED BY <2>1, <2>2 DEF Ordered
  <1>3. NoneHidden
    <2> SUFFICES ASSUME NEW r \in Readers, mover[r].pc = "sleeping", listener[r] = Listening
                 PROVE  Len(unread[r]) <= unreadCount[r]
      BY DEF NoneHidden
    <2>1. ~Emptying(r) /\ listener[r].pc = "listening"
      BY DEF Emptying, Listening
    <2> QED BY <1>1, <2>1 DEF Good, Covered
  <1>4. DiesOnlyOfRace
    <2> SUFFICES ASSUME NEW r \in Readers, ~raced[r]
                 PROVE  /\ mover[r].pc # "dead"
                        /\ mover[r].pc = "sleeping" /\ listener[r] = Listening =>
                             Len(unread[r]) = unreadCount[r]
      BY DEF DiesOnlyOfRace
    <2>1. mover[r].pc = "sleeping" => ~Emptying(r)
      BY DEF Emptying
    <2>2. listener[r] = Listening => listener[r].pc = "listening"
      BY DEF Listening
    <2> QED BY <1>1, <2>1, <2>2 DEF Good, Agreed
  <1> QED BY <1>2, <1>3, <1>4 DEF IInv

(* The lists keep their types, for any nodes and messages, however the     *)
(* three threads of a node interleave (MessageQueue).                      *)
THEOREM InboxTyped == InboxSpec => []InboxTypeOK
  <1>1. IInv => InboxTypeOK
    BY DEF IInv
  <1> QED BY InitGood, StepKeeps, <1>1, PTL DEF InboxSpec

(* No message is moved to the inbox twice or out of order (LifeNet.run).   *)
THEOREM ReadOnce == InboxSpec => []MovedOnce
  <1>1. IInv => MovedOnce
    BY Consequences
  <1> QED BY InitGood, StepKeeps, <1>1, PTL DEF InboxSpec

(* No message stays in the vector where the count does not reach it: the   *)
(* order of LifeNet.run's resets is what makes it so.                      *)
THEOREM AllCounted == InboxSpec => []NoneHidden
  <1>1. IInv => NoneHidden
    BY Consequences
  <1> QED BY InitGood, StepKeeps, <1>1, PTL DEF InboxSpec

(* The mover dies only of a message that overlapped its resets.            *)
THEOREM RaceNeeded == InboxSpec => []DiesOnlyOfRace
  <1>1. IInv => DiesOnlyOfRace
    BY Consequences
  <1> QED BY InitGood, StepKeeps, <1>1, PTL DEF InboxSpec
=============================================================================
