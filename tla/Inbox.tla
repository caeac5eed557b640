------------------------------- MODULE Inbox -------------------------------
(***************************************************************************)
(* The message lists of LifeNetSMS: MessageQueue's static fields, shared   *)
(* without a lock by the thread that receives (MessageThread), the thread  *)
(* that moves what was read (LifeNet.run) and the event thread, on which   *)
(* the window of new messages opens (InboxView).  One step is one access   *)
(* to a shared field; a Vector's methods are synchronized, the fields are  *)
(* plain ints and booleans.  The length of readMessageVector stands for    *)
(* readCount, which only LifeNet.run writes.                               *)
(***************************************************************************)
EXTENDS Integers, Sequences

CONSTANTS Readers,       \* the nodes that run the program
          Viewers,       \* those of them whose user opens the window
          Messages,      \* what can be received
          MaxArrivals    \* bound: messages a node receives

ASSUME ViewersRead == Viewers \subseteq Readers
ASSUME ArrivalsCounted == MaxArrivals \in Nat

VARIABLES unread,          \* unreadMessageVector
          unreadCount,     \* the int beside it
          read,            \* readMessageVector
          newMsgReadFlag,  \* set by the window, reset by the mover
          listener,        \* MessageThread
          mover,           \* LifeNet.run
          viewer,          \* InboxView's constructor
          arrivals,        \* the clock rxTime is read from
          raced            \* history: a message came in while the mover emptied the list

inboxVars == <<unread, unreadCount, read, newMsgReadFlag, listener, mover,
               viewer, arrivals, raced>>

-----------------------------------------------------------------------------
Received == [msg : Messages, rxTime : Nat]

Listening == [pc |-> "listening"]

Listener == {Listening}
              \cup [pc : {"adding"}, msg : Messages]
              \cup [pc : {"loading"}]
              \cup [pc : {"storing"}, held : Nat]

Sleeping == [pc |-> "sleeping", i |-> 0]

Mover == [pc : {"sleeping", "moving", "zeroing", "lowering", "clearing", "dead"},
          i : Nat]

Closed == [pc |-> "closed", i |-> 0]

Viewer == [pc : {"closed", "listing", "fetching", "raising"}, i : Nat]

InboxInit ==
    /\ unread = [r \in Readers |-> <<>>]
    /\ unreadCount = [r \in Readers |-> 0]
    /\ read = [r \in Readers |-> <<>>]
    /\ newMsgReadFlag = [r \in Readers |-> FALSE]
    /\ listener = [r \in Readers |-> Listening]
    /\ mover = [r \in Readers |-> Sleeping]
    /\ viewer = [r \in Readers |-> Closed]
    /\ arrivals = [r \in Readers |-> 0]
    /\ raced = [r \in Readers |-> FALSE]

(* Between the two resets the count no longer describes the vector. *)
Emptying(r) == mover[r].pc \in {"lowering", "clearing"}

-----------------------------------------------------------------------------
(* MessageThread has accepted m: it is stamped, then added, then counted. *)
Arrive(r, m) ==
    /\ listener[r] = Listening
    /\ arrivals[r] < MaxArrivals
    /\ listener' = [listener EXCEPT ![r] = [pc |-> "adding", msg |-> m]]
    /\ arrivals' = [arrivals EXCEPT ![r] = @ + 1]
    /\ raced' = [raced EXCEPT ![r] = @ \/ Emptying(r)]
    /\ UNCHANGED <<unread, unreadCount, read, newMsgReadFlag, mover, viewer>>

Add(r) ==
    /\ listener[r].pc = "adding"
    /\ unread' = [unread EXCEPT ![r] =
                    Append(@, [msg |-> listener[r].msg, rxTime |-> arrivals[r]])]
    /\ listener' = [listener EXCEPT ![r] = [pc |-> "loading"]]
    /\ UNCHANGED <<unreadCount, read, newMsgReadFlag, mover, viewer, arrivals, raced>>

(* unreadCount++ reads the field and writes it back. *)
Load(r) ==
    /\ listener[r].pc = "loading"
    /\ listener' = [listener EXCEPT ![r] = [pc |-> "storing", held |-> unreadCount[r]]]
    /\ UNCHANGED <<unread, unreadCount, read, newMsgReadFlag, mover, viewer, arrivals, raced>>

Store(r) ==
    /\ listener[r].pc = "storing"
    /\ unreadCount' = [unreadCount EXCEPT ![r] = listener[r].held + 1]
    /\ listener' = [listener EXCEPT ![r] = Listening]
    /\ UNCHANGED <<unread, read, newMsgReadFlag, mover, viewer, arrivals, raced>>

-----------------------------------------------------------------------------
Wake(r) ==
    /\ mover[r].pc = "sleeping"
    /\ newMsgReadFlag[r]
    /\ mover' = [mover EXCEPT ![r] = [pc |-> "moving", i |-> 0]]
    /\ UNCHANGED <<unread, unreadCount, read, newMsgReadFlag, listener, viewer, arrivals, raced>>

HasNextOrSame(r) == mover[r].i <= unreadCount[r]

(* The loop's test: whether the count says there is one more to move. *)
HasNext(r) == mover[r].i < unreadCount[r]

(* One round of the loop; elementAt beyond the vector ends the thread.     *)
(* While it loops the count only grows, so the test stays true until the   *)
(* element is fetched and the two are one step.                            *)
Move(r) ==
    /\ mover[r].pc = "moving"
    /\ \/ /\ HasNext(r)
          /\ mover[r].i < Len(unread[r])
          /\ read' = [read EXCEPT ![r] = Append(@, unread[r][mover[r].i + 1])]
          /\ mover' = [mover EXCEPT ![r] = [pc |-> "moving", i |-> mover[r].i + 1]]
       \/ /\ HasNext(r)
          /\ mover[r].i >= Len(unread[r])
          /\ mover' = [mover EXCEPT ![r] = [pc |-> "dead", i |-> 0]]
          /\ UNCHANGED read
       \/ /\ ~HasNext(r)
          /\ mover' = [mover EXCEPT ![r] = [pc |-> "zeroing", i |-> 0]]
          /\ UNCHANGED read
    /\ UNCHANGED <<unread, unreadCount, newMsgReadFlag, listener, viewer, arrivals, raced>>

ZeroCount(r) ==
    /\ unreadCount' = [unreadCount EXCEPT ![r] = 0]
    /\ UNCHANGED unread

ClearVector(r) ==
    /\ unread' = [unread EXCEPT ![r] = <<>>]
    /\ UNCHANGED unreadCount

ResetVectorFirst(r, first) == IF first THEN ClearVector(r) ELSE ZeroCount(r)

ResetCountOnly(r, first) ==
    IF first THEN ZeroCount(r) ELSE UNCHANGED <<unread, unreadCount>>

(* LifeNet.run resets the count first, then the flag, the vector last. *)
Reset(r, first) == IF first THEN ZeroCount(r) ELSE ClearVector(r)

Zero(r) ==
    /\ mover[r].pc = "zeroing"
    /\ Reset(r, TRUE)
    /\ mover' = [mover EXCEPT ![r] = [pc |-> "lowering", i |-> 0]]
    /\ raced' = [raced EXCEPT ![r] = @ \/ listener[r] # Listening]
    /\ UNCHANGED <<read, newMsgReadFlag, listener, viewer, arrivals>>

Lower(r) ==
    /\ mover[r].pc = "lowering"
    /\ newMsgReadFlag' = [newMsgReadFlag EXCEPT ![r] = FALSE]
    /\ mover' = [mover EXCEPT ![r] = [pc |-> "clearing", i |-> 0]]
    /\ UNCHANGED <<unread, unreadCount, read, listener, viewer, arrivals, raced>>

Clear(r) ==
    /\ mover[r].pc = "clearing"
    /\ Reset(r, FALSE)
    /\ mover' = [mover EXCEPT ![r] = Sleeping]
    /\ UNCHANGED <<read, newMsgReadFlag, listener, viewer, arrivals, raced>>

-----------------------------------------------------------------------------
OpenView(r) ==
    /\ r \in Viewers
    /\ viewer[r].pc = "closed"
    /\ viewer' = [viewer EXCEPT ![r] = [pc |-> "listing", i |-> 0]]
    /\ UNCHANGED <<unread, unreadCount, read, newMsgReadFlag, listener, mover, arrivals, raced>>

List(r) ==
    /\ viewer[r].pc = "listing"
    /\ viewer' = [viewer EXCEPT ![r].pc =
                    IF viewer[r].i < unreadCount[r] THEN "fetching" ELSE "raising"]
    /\ UNCHANGED <<unread, unreadCount, read, newMsgReadFlag, listener, mover, arrivals, raced>>

(* An element that is gone ends the constructor: no window and no flag. *)
Fetch(r) ==
    /\ viewer[r].pc = "fetching"
    /\ viewer' = [viewer EXCEPT ![r] =
                    IF viewer[r].i < Len(unread[r])
                    THEN [pc |-> "listing", i |-> viewer[r].i + 1]
                    ELSE Closed]
    /\ UNCHANGED <<unread, unreadCount, read, newMsgReadFlag, listener, mover, arrivals, raced>>

Raise(r) ==
    /\ viewer[r].pc = "raising"
    /\ newMsgReadFlag' = [newMsgReadFlag EXCEPT ![r] = TRUE]
    /\ viewer' = [viewer EXCEPT ![r] = Closed]
    /\ UNCHANGED <<unread, unreadCount, read, listener, mover, arrivals, raced>>

-----------------------------------------------------------------------------
(* Nothing of the lists is stored on disk. *)
EmptyInbox(r) ==
    /\ unread' = [unread EXCEPT ![r] = <<>>]
    /\ unreadCount' = [unreadCount EXCEPT ![r] = 0]
    /\ read' = [read EXCEPT ![r] = <<>>]
    /\ newMsgReadFlag' = [newMsgReadFlag EXCEPT ![r] = FALSE]
    /\ listener' = [listener EXCEPT ![r] = Listening]
    /\ mover' = [mover EXCEPT ![r] = Sleeping]
    /\ viewer' = [viewer EXCEPT ![r] = Closed]
    /\ raced' = [raced EXCEPT ![r] = FALSE]
    /\ UNCHANGED arrivals

ListenerStep(r) == Add(r) \/ Load(r) \/ Store(r)

MoverStep(r) == Wake(r) \/ Move(r) \/ Zero(r) \/ Lower(r) \/ Clear(r)

ViewerStep(r) == List(r) \/ Fetch(r) \/ Raise(r)

InboxNext ==
    \E r \in Readers :
        \/ \E m \in Messages : Arrive(r, m)
        \/ ListenerStep(r)
        \/ MoverStep(r)
        \/ OpenView(r)
        \/ ViewerStep(r)
        \/ EmptyInbox(r)

InboxSpec == InboxInit /\ [][InboxNext]_inboxVars

-----------------------------------------------------------------------------
(* Every field keeps its type (MessageQueue, and the threads' locals). *)
InboxTypeOK ==
    /\ unread \in [Readers -> Seq(Received)]
    /\ unreadCount \in [Readers -> Nat]
    /\ read \in [Readers -> Seq(Received)]
    /\ newMsgReadFlag \in [Readers -> BOOLEAN]
    /\ listener \in [Readers -> Listener]
    /\ mover \in [Readers -> Mover]
    /\ viewer \in [Readers -> Viewer]
    /\ arrivals \in [Readers -> Nat]
    /\ raced \in [Readers -> BOOLEAN]

InOrderOfArrival(s) == \A i, j \in 1..Len(s) : i < j => s[i].rxTime < s[j].rxTime

(* A message is moved to the inbox at most once, and the inbox keeps the   *)
(* order of arrival: once the mover sleeps again, nothing it moved is      *)
(* still among the unread messages (LifeNet.run copies, then clears).      *)
MovedOnce ==
    \A r \in Readers :
        /\ InOrderOfArrival(read[r])
        /\ mover[r].pc = "sleeping" =>
             \A i \in 1..Len(read[r]), j \in 1..Len(unread[r]) :
                 read[r][i].rxTime < unread[r][j].rxTime

(* However the resets overlap with a message coming in, no message is left *)
(* in the vector beyond the count, where neither the window of new         *)
(* messages nor the mover would ever reach it.                             *)
NoneHidden ==
    \A r \in Readers :
        mover[r].pc = "sleeping" /\ listener[r] = Listening =>
            Len(unread[r]) <= unreadCount[r]

(* The mover dies of a count that exceeds the vector only if some message  *)
(* came in while it emptied the list: without that overlap the count and   *)
(* the vector agree.                                                       *)
DiesOnlyOfRace ==
    \A r \in Readers :
        ~raced[r] =>
            /\ mover[r].pc # "dead"
            /\ mover[r].pc = "sleeping" /\ listener[r] = Listening =>
                 Len(unread[r]) = unreadCount[r]
=============================================================================
