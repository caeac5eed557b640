------------------------- MODULE FileTransferProofs --------------------------
(***************************************************************************)
(* Proofs about FileTransfer for any clients, files, sizes and bounds:      *)
(* types, the order and completeness of what is written, the lock, the      *)
(* progress of every exchange, and that downloads are those of FileCopy.    *)
(***************************************************************************)
EXTENDS FileTransfer, TLAPS

(***************************************************************************)
(* The inductive invariant.  A transfer is clean as long as every request   *)
(* it answered was in sequence: its clean is the last such number.  Up to   *)
(* clean, answers carry the block their number says; beyond it, a request   *)
(* jumped ahead, so no answer bears the number right after clean.  A        *)
(* receiver goes on number by number and therefore never passes clean.      *)
(***************************************************************************)

\* What the sending thread knows of its transfer
Sending ==
  serving =>
    /\ lock
    /\ Len(log) > 0
    /\ tx.file = log[Len(log)].file
    /\ tx.block <= Blocks(tx.file)
    /\ tx.prev >= 1
    /\ \/ tx.prev = log[Len(log)].clean /\ tx.block = BlockAt(tx.file, tx.prev - 1)
       \/ tx.prev > log[Len(log)].clean + 1

\* The lock stays taken while the end of a transfer waits to be read.
Ended == notice => lock /\ ~serving

CleanLog(l) == \A g \in 1 .. Len(l) : l[g].clean >= 1

\* An answer in flight, given the transfers so far
Answered(m, l) ==
  /\ m.transfer \in 1 .. Len(l)
  /\ m.file = l[m.transfer].file
  /\ m.type = "data" => m.block > 0
  /\ \/ /\ m.seq <= l[m.transfer].clean
        /\ m.type = "data" => m.block = BlockAt(m.file, m.seq - 1)
        /\ m.type = "eof" => m.seq - 1 > Blocks(m.file)
     \/ m.seq > l[m.transfer].clean + 1

InFlight ==
  \A m \in net :
    /\ m.type = "request" => m.seq >= 2
    /\ m.type \in {"data", "eof"} =>
         /\ m.seq >= 2
         /\ Answered(m, log)
         /\ serving /\ m.transfer = Len(log) => m.seq <= tx.prev

\* What a receiver wrote, given the transfers so far
InOrder(k, l) ==
  /\ k.phase = "receiving" => k.seq = Len(k.written) + 2
  /\ \A i \in 1 .. Len(k.written) :
       /\ k.written[i].transfer \in 1 .. Len(l)
       /\ k.written[i].file = l[k.written[i].transfer].file
  /\ FromOneTransfer(k) =>
       \A i \in 1 .. Len(k.written) :
         /\ k.written[i].block = BlockAt(k.written[i].file, i)
         /\ Len(k.written) + 1 <= l[k.written[i].transfer].clean

Whole(k, l) ==
  k.outcome = "complete" =>
    /\ k.closedBy \in 1 .. Len(l)
    /\ (\A i \in 1 .. Len(k.written) : k.written[i].transfer = k.closedBy)
         => Len(k.written) >= Blocks(l[k.closedBy].file)

IInv ==
  /\ TypeOK
  /\ Sending
  /\ Ended
  /\ CleanLog(log)
  /\ InFlight
  /\ \A c \in Client : InOrder(client[c], log) /\ Whole(client[c], log)

------------------------------------------------------------------------------
(* Operators *)

(* Every file has a natural number of blocks.                               *)
LEMMA BlocksNat == \A f \in File : Blocks(f) \in Nat
<1> TAKE f \in File
<1>1. Size[f] \in Nat /\ BlockSize \in Nat \ {0}
  BY FileTransferAssumption DEF FileTransferAssumption
<1>2. \A a \in Nat, b \in Nat \ {0} : (a + b - 1) \div b \in Nat
  OBVIOUS
<1> QED BY <1>1, <1>2 DEF Blocks

LEMMA BoundsNat == MaxDownloads \in Nat /\ MaxTicksRx \in Nat /\ Copies \in Nat
<1> DEFINE B == {ControlTicks, LockTicks, DataTicks, MaxTicksRx, MaxTicksTx, MaxTicksComplete,
                 Copies, MaxNet, MaxDownloads, MaxTransfers, MaxSeq}
<1>1. B \subseteq Nat
  BY FileTransferAssumption DEF FileTransferAssumption
<1>2. MaxDownloads \in B /\ MaxTicksRx \in B /\ Copies \in B
  OBVIOUS
<1> HIDE DEF B
<1> QED BY <1>1, <1>2

(* The copies of a datagram differ from it in nothing a reader sees.        *)
LEMMA CopiedFields ==
  ASSUME NEW m, m \in [type : ToServer \cup ToClient, seq : Nat, peer : Client, file : File,
                       transfer : Nat, block : Nat, copy : Nat],
         NEW x \in Copied(m)
  PROVE  /\ x \in Datagram
         /\ x.type = m.type /\ x.seq = m.seq /\ x.peer = m.peer /\ x.file = m.file
         /\ x.transfer = m.transfer /\ x.block = m.block
<1>1. PICK i \in 1 .. Copies : x = [m EXCEPT !.copy = i]
  BY DEF Copied
<1> QED BY <1>1 DEF Datagram

LEMMA ExchangeNet ==
  ASSUME NEW read, NEW reply, Exchange(read, reply)
  PROVE  \A m \in net' : m \in net \/ m \in reply
BY DEF Exchange

\* Datagrams the invariant asks nothing of
Harmless(m) ==
  /\ m \in Datagram
  /\ m.type \notin {"data", "eof"}
  /\ m.type = "request" => m.seq >= 2

(* A step of one client keeps the invariant if its new record does.         *)
LEMMA ClientMoves ==
  ASSUME IInv, NEW c \in Client, NEW k \in ClientRecord,
         client' = [client EXCEPT ![c] = k], InOrder(k, log), Whole(k, log),
         UNCHANGED <<lock, serving, tx, notice, log>>,
         \A m \in net' : m \in net \/ Harmless(m)
  PROVE  IInv'
<1>1. TypeOK'
  BY DEF IInv, TypeOK, Harmless
<1>2. Sending' /\ Ended' /\ CleanLog(log)'
  BY DEF IInv, Sending, Ended, CleanLog
<1>3. InFlight'
  BY DEF IInv, InFlight, Harmless, Answered
<1>4. \A d \in Client : InOrder(client[d], log)' /\ Whole(client[d], log)'
  <2> TAKE d \in Client
  <2>1. client'[d] = IF d = c THEN k ELSE client[d]
    BY DEF IInv, TypeOK
  <2>2. InOrder(client'[d], log) /\ Whole(client'[d], log)
    BY <2>1 DEF IInv
  <2> QED BY <2>2 DEF InOrder, Whole, FromOneTransfer
<1> QED BY <1>1, <1>2, <1>3, <1>4 DEF IInv

(* A step of the sharing node that starts, answers and reads nothing.       *)
LEMMA ServerIdles ==
  ASSUME IInv, client' = client, log' = log, lock' \in BOOLEAN, serving' \in BOOLEAN,
         tx' \in [file : File, block : Nat, prev : Nat, length : -1 .. 1, ticks : Nat],
         tx'.file = tx.file, tx'.block = tx.block, tx'.prev = tx.prev,
         serving' => serving /\ lock', notice' \in BOOLEAN, notice' => lock' /\ ~serving',
         \A m \in net' : m \in net \/ Harmless(m)
  PROVE  IInv'
<1>1. TypeOK'
  BY DEF IInv, TypeOK, Harmless
<1>2. Sending' /\ Ended' /\ CleanLog(log)'
  BY DEF IInv, Sending, Ended, CleanLog
<1>3. InFlight'
  BY DEF IInv, InFlight, Harmless, Answered
<1>4. \A d \in Client : InOrder(client[d], log)' /\ Whole(client[d], log)'
  BY DEF IInv, InOrder, Whole, FromOneTransfer
<1> QED BY <1>1, <1>2, <1>3, <1>4 DEF IInv

------------------------------------------------------------------------------
(* The downloading node *)

LEMMA ClientFacts ==
  ASSUME IInv, NEW c \in Client
  PROVE  client[c] \in ClientRecord /\ InOrder(client[c], log) /\ Whole(client[c], log)
BY DEF IInv, TypeOK

(* Waiting, retrying and giving up touch nothing the receiver has written.  *)
LEMMA SameWritten ==
  ASSUME NEW k \in ClientRecord, NEW j \in ClientRecord,
         InOrder(k, log), Whole(k, log),
         j.written = k.written, j.closedBy = k.closedBy,
         j.outcome = "complete" => k.outcome = "complete",
         j.phase = "receiving" => k.phase = "receiving" /\ j.seq = k.seq
  PROVE  InOrder(j, log) /\ Whole(j, log)
BY DEF InOrder, Whole, FromOneTransfer

LEMMA SelectBuddyKeeps == ASSUME IInv, NEW c \in Client, SelectBuddy(c) PROVE IInv'
<1>0. PICK a \in {"known", "blank"} :
        client' = [client EXCEPT ![c] = [@ EXCEPT !.phase = "listing", !.addr = a,
                                                  !.seq = SeqFileRequest, !.tries = 0]]
  BY FileTransferAssumption DEF SelectBuddy, FileTransferAssumption
<1> DEFINE k == client[c]
           j == [k EXCEPT !.phase = "listing", !.addr = a, !.seq = SeqFileRequest,
                          !.tries = 0]
<1>1. k \in ClientRecord /\ InOrder(k, log) /\ Whole(k, log)
  BY ClientFacts
<1>2. j \in ClientRecord
  BY <1>1 DEF ClientRecord, SeqFileRequest
<1>3. j.written = k.written /\ j.closedBy = k.closedBy /\ j.outcome = k.outcome
      /\ j.phase = "listing"
  BY <1>1 DEF ClientRecord
<1>4. InOrder(j, log) /\ Whole(j, log)
  BY <1>1, <1>2, <1>3, SameWritten
<1>5. client' = [client EXCEPT ![c] = j]
  BY <1>0
<1>6. UNCHANGED <<lock, serving, tx, notice, log, net>>
  BY DEF SelectBuddy
<1> HIDE DEF j
<1> QED BY <1>2, <1>4, <1>5, <1>6, ClientMoves

LEMMA DownloadKeeps ==
  ASSUME IInv, NEW c \in Client, NEW f \in File, Download(c, f) PROVE IInv'
<1>0. PICK a \in {"known", "blank"} :
        client' = [client EXCEPT ![c] = [@ EXCEPT !.phase = "locking", !.addr = a,
                     !.seq = SeqLock, !.tries = 0, !.file = f,
                     !.downloads = client[c].downloads + 1]]
  BY FileTransferAssumption DEF Download, FileTransferAssumption
<1> DEFINE k == client[c]
           j == [k EXCEPT !.phase = "locking", !.addr = a, !.seq = SeqLock, !.tries = 0,
                          !.file = f, !.downloads = @ + 1]
<1>1. k \in ClientRecord /\ InOrder(k, log) /\ Whole(k, log)
  BY ClientFacts
<1>2. k.downloads + 1 \in 0 .. MaxDownloads
  <2>1. k.downloads \in 0 .. MaxDownloads
    BY <1>1 DEF ClientRecord
  <2>2. k.downloads < MaxDownloads
    BY DEF Download
  <2> QED BY <2>1, <2>2, BoundsNat
<1>3. j \in ClientRecord
  BY <1>1, <1>2 DEF ClientRecord, SeqLock
<1>4. j.written = k.written /\ j.closedBy = k.closedBy /\ j.outcome = k.outcome
      /\ j.phase = "locking"
  BY <1>1 DEF ClientRecord
<1>5. InOrder(j, log) /\ Whole(j, log)
  BY <1>1, <1>3, <1>4, SameWritten
<1>6. client' = [client EXCEPT ![c] = j] /\ UNCHANGED <<lock, serving, tx, notice, log, net>>
  BY <1>0 DEF Download
<1> HIDE DEF j
<1> QED BY <1>3, <1>5, <1>6, ClientMoves

LEMMA CallKeeps == ASSUME IInv, NEW c \in Client, Call(c) PROVE IInv'
<1> DEFINE k == client[c]
           found(a) == [k EXCEPT !.addr = a]
           crashed == [k EXCEPT !.phase = "idle", !.outcome = "crashed"]
<1>1. k \in ClientRecord /\ InOrder(k, log) /\ Whole(k, log)
      /\ UNCHANGED <<lock, serving, tx, notice, log, net>>
  BY ClientFacts DEF Call
<1>2. ASSUME NEW a \in {"known", "blank"}, client' = [client EXCEPT ![c].addr = a]
      PROVE  IInv'
  <2> DEFINE j == found(a)
  <2>1. client' = [client EXCEPT ![c] = j]
    BY <1>2
  <2>2. j \in ClientRecord
    BY <1>1 DEF ClientRecord
  <2>3. j.written = k.written /\ j.closedBy = k.closedBy /\ j.outcome = k.outcome
        /\ j.phase = k.phase /\ j.seq = k.seq
    BY <1>1 DEF ClientRecord
  <2> HIDE DEF j
  <2>4. InOrder(j, log) /\ Whole(j, log)
    BY <1>1, <2>2, <2>3, SameWritten
  <2> QED BY <1>1, <2>1, <2>2, <2>4, ClientMoves
<1>3. CASE client' = [client EXCEPT ![c] = crashed]
  <2>1. crashed \in ClientRecord
    BY <1>1 DEF ClientRecord
  <2>2. crashed.written = k.written /\ crashed.closedBy = k.closedBy
        /\ crashed.outcome = "crashed" /\ crashed.phase = "idle"
    BY <1>1 DEF ClientRecord
  <2> HIDE DEF crashed
  <2>3. InOrder(crashed, log) /\ Whole(crashed, log)
    BY <1>1, <2>1, <2>2, SameWritten
  <2> QED BY <1>1, <1>3, <2>1, <2>3, ClientMoves
<1>4. Addresses \subseteq {"known", "blank"}
  BY FileTransferAssumption DEF FileTransferAssumption
<1> QED BY <1>2, <1>3, <1>4 DEF Call

LEMMA DismissKeeps == ASSUME IInv, NEW c \in Client, Dismiss(c) PROVE IInv'
<1> DEFINE k == client[c]
           j == [k EXCEPT !.phase = "idle"]
<1>1. k \in ClientRecord /\ InOrder(k, log) /\ Whole(k, log)
  BY ClientFacts
<1>2. client' = [client EXCEPT ![c] = j]
      /\ UNCHANGED <<lock, serving, tx, notice, log, net>>
  BY DEF Dismiss
<1>3. j \in ClientRecord
  BY <1>1 DEF ClientRecord
<1>4. j.written = k.written /\ j.closedBy = k.closedBy /\ j.outcome = k.outcome
      /\ j.phase = "idle"
  BY <1>1 DEF ClientRecord
<1> HIDE DEF j
<1>5. InOrder(j, log) /\ Whole(j, log)
  BY <1>1, <1>3, <1>4, SameWritten
<1> QED BY <1>2, <1>3, <1>5, ClientMoves

(* A request is one of the receiver's, whatever it asks for.                *)
LEMMA AskHarmless ==
  ASSUME IInv, NEW c \in Client, Ask(c)
  PROVE  \A d \in net' : d \in net \/ Harmless(d)
<1> DEFINE k == client[c]
           r == [type |-> RequestType(k.phase), seq |-> k.seq, peer |-> c, file |-> k.file,
                 transfer |-> 0, block |-> 0, copy |-> 1]
<1>1. k \in ClientRecord /\ InOrder(k, log)
  BY ClientFacts
<1>2. RequestType(k.phase) \in {"list", "lock", "request"}
  BY <1>1 DEF Ask, RequestType, ClientRecord
<1>3. RequestType(k.phase) = "request" => k.seq >= 2
  <2>1. CASE k.phase = "receiving"
    <3>1. Len(k.written) \in Nat
      BY <1>1 DEF ClientRecord
    <3> QED BY <1>1, <2>1, <3>1 DEF InOrder
  <2>2. CASE k.phase # "receiving"
    BY <1>1, <2>2 DEF RequestType, Ask, ClientRecord
  <2> QED BY <2>1, <2>2
<1>4. r \in [type : ToServer \cup ToClient, seq : Nat, peer : Client, file : File,
             transfer : Nat, block : Nat, copy : Nat]
  BY <1>1, <1>2 DEF ClientRecord, ToServer
<1>5. r.type = RequestType(k.phase) /\ r.seq = k.seq
  OBVIOUS
<1> DEFINE own(t) == {[r EXCEPT !.type = t]}
<1>6. \/ Exchange({}, Copied(r))
      \/ net' = net
      \/ \E t \in {"approve", "deny"} : Exchange({}, own(t))
  BY DEF Ask, OwnAnswers
<1>7. ASSUME NEW t \in {"approve", "deny"}, NEW d \in own(t)
      PROVE  Harmless(d)
  <2>1. 1 \in 1 .. Copies
    BY BoundsNat, FileTransferAssumption DEF FileTransferAssumption
  <2>2. [r EXCEPT !.type = t] \in Datagram /\ [r EXCEPT !.type = t].type = t
    BY <1>4, <2>1 DEF Datagram, ToClient
  <2> QED BY <2>2, <1>7 DEF Harmless
<1> HIDE DEF r, own
<1>8. \A d \in Copied(r) : Harmless(d)
  BY <1>2, <1>3, <1>4, <1>5, CopiedFields DEF Harmless
<1>9. QED
  BY <1>6, <1>7, <1>8, ExchangeNet

LEMMA AskKeeps == ASSUME IInv, NEW c \in Client, Ask(c) PROVE IInv'
<1> DEFINE k == client[c]
           j == [k EXCEPT !.waiting = TRUE]
<1>1. k \in ClientRecord /\ InOrder(k, log) /\ Whole(k, log)
  BY ClientFacts
<1>2. j \in ClientRecord
  BY <1>1 DEF ClientRecord
<1>3. j.written = k.written /\ j.closedBy = k.closedBy /\ j.outcome = k.outcome
      /\ j.phase = k.phase /\ j.seq = k.seq
  BY <1>1 DEF ClientRecord
<1>4. InOrder(j, log) /\ Whole(j, log)
  BY <1>1, <1>2, <1>3, SameWritten
<1>5. client' = [client EXCEPT ![c] = j] /\ UNCHANGED <<lock, serving, tx, notice, log>>
  BY DEF Ask
<1> HIDE DEF j
<1> QED BY <1>2, <1>4, <1>5, AskHarmless, ClientMoves

LEMMA MissKeeps == ASSUME IInv, NEW c \in Client, Miss(c) PROVE IInv'
<1> DEFINE k == client[c]
           j == Unanswered(k)
<1>1. k \in ClientRecord /\ InOrder(k, log) /\ Whole(k, log)
  BY ClientFacts
<1>2. k.rounds + 1 <= MaxTicksRx => k.rounds + 1 \in 0 .. MaxTicksRx
  BY <1>1, BoundsNat DEF ClientRecord
<1>3. /\ j \in ClientRecord
      /\ j.written = k.written /\ j.closedBy = k.closedBy
      /\ j.outcome = "complete" => k.outcome = "complete"
      /\ j.phase = "receiving" => k.phase = "receiving" /\ j.seq = k.seq
  <2>1. CASE k.tries + 1 < Attempts(k.phase)
    <3>1. j = [k EXCEPT !.waiting = FALSE, !.tries = k.tries + 1]
      BY <2>1 DEF Unanswered
    <3>2. k.tries + 1 \in Nat
      BY <1>1 DEF ClientRecord
    <3> HIDE DEF j
    <3> QED BY <1>1, <3>1, <3>2 DEF ClientRecord
  <2>2. CASE ~(k.tries + 1 < Attempts(k.phase)) /\ k.phase # "receiving"
    BY <1>1, <2>2 DEF ClientRecord, Unanswered, Back
  <2>3. CASE ~(k.tries + 1 < Attempts(k.phase)) /\ k.phase = "receiving"
    BY <1>1, <1>2, <2>3 DEF ClientRecord, Unanswered, Back
  <2> QED BY <2>1, <2>2, <2>3
<1>4. InOrder(j, log) /\ Whole(j, log)
  BY <1>1, <1>3, SameWritten
<1>5. client' = [client EXCEPT ![c] = j] /\ UNCHANGED <<lock, serving, tx, notice, log>>
      /\ \A m \in net' : m \in net
  BY DEF Miss
<1> HIDE DEF j
<1> QED BY <1>3, <1>4, <1>5, ClientMoves

LEMMA ListReceivedKeeps ==
  ASSUME IInv, NEW c \in Client, NEW m, ListReceived(c, m),
         UNCHANGED <<lock, serving, tx, notice, log>>
  PROVE  IInv'
<1> DEFINE k == client[c]
           j == [k EXCEPT !.phase = "idle", !.addr = "none", !.waiting = FALSE,
                          !.listed = TRUE]
<1>1. k \in ClientRecord /\ InOrder(k, log) /\ Whole(k, log)
  BY ClientFacts
<1>2. j \in ClientRecord
  BY <1>1 DEF ClientRecord
<1>3. j.written = k.written /\ j.closedBy = k.closedBy /\ j.outcome = k.outcome
      /\ j.phase = "idle"
  BY <1>1 DEF ClientRecord
<1>4. InOrder(j, log) /\ Whole(j, log)
  BY <1>1, <1>2, <1>3, SameWritten
<1>5. client' = [client EXCEPT ![c] = j] /\ \A d \in net' : d \in net
  BY DEF ListReceived
<1> HIDE DEF j
<1> QED BY <1>2, <1>4, <1>5, ClientMoves

(* A new download starts with nothing written.                              *)
LEMMA LockReceivedKeeps ==
  ASSUME IInv, NEW c \in Client, NEW m, LockReceived(c, m),
         UNCHANGED <<lock, serving, tx, notice, log>>
  PROVE  IInv'
<1> DEFINE k == client[c]
           j == [k EXCEPT !.phase = "receiving", !.addr = "none", !.waiting = FALSE, !.tries = 0,
                          !.rounds = 0, !.seq = SeqData, !.denied = (m.type = "deny"),
                          !.written = <<>>, !.closedBy = 0, !.outcome = "none"]
<1>1. k \in ClientRecord
  BY ClientFacts
<1>2. (m.type = "deny") \in BOOLEAN /\ 0 \in 0 .. MaxTicksRx /\ <<>> \in Seq(Written)
  BY BoundsNat
<1>3. j \in ClientRecord
  <2> DEFINE b == (m.type = "deny")
  <2>1. b \in BOOLEAN
    BY <1>2
  <2> HIDE DEF b
  <2>2. [k EXCEPT !.phase = "receiving", !.addr = "none", !.waiting = FALSE, !.tries = 0,
                  !.rounds = 0, !.seq = SeqData, !.denied = b,
                  !.written = <<>>, !.closedBy = 0, !.outcome = "none"] \in ClientRecord
    BY <1>1, <1>2, <2>1 DEF ClientRecord, SeqData
  <2> QED BY <2>2 DEF b
<1>4. j.phase = "receiving" /\ j.seq = 2 /\ j.written = <<>> /\ j.outcome = "none"
  BY <1>1 DEF ClientRecord, SeqData
<1>5. client' = [client EXCEPT ![c] = j] /\ \A d \in net' : d \in net
  BY DEF LockReceived
<1> HIDE DEF j
<1>6. InOrder(j, log) /\ Whole(j, log)
  BY <1>4 DEF InOrder, Whole
<1> QED BY <1>3, <1>5, <1>6, ClientMoves

LEMMA LogEntry ==
  ASSUME log \in Seq([file : File, clean : Nat])
  PROVE  Len(log) \in Nat
         /\ \A g \in 1 .. Len(log) : log[g].file \in File /\ log[g].clean \in Nat
<1> DEFINE T == [file : File, clean : Nat]
<1>1. log \in Seq(T)
  OBVIOUS
<1> HIDE DEF T
<1>2. Len(log) \in Nat /\ \A g \in 1 .. Len(log) : log[g] \in T
  BY <1>1
<1> QED BY <1>2 DEF T

LEMMA CompleteEnough ==
  ASSUME NEW k \in ClientRecord, InOrder(k, log), log \in Seq([file : File, clean : Nat]),
         CleanLog(log), NEW g \in 1 .. Len(log),
         \A i \in 1 .. Len(k.written) : k.written[i].transfer = g
  PROVE  Len(k.written) + 1 <= log[g].clean
<1>1. Len(k.written) \in Nat
  BY DEF ClientRecord
<1>2. CASE Len(k.written) = 0
  BY <1>2 DEF CleanLog
<1>3. CASE Len(k.written) > 0
  <2>1. FromOneTransfer(k)
    BY DEF FromOneTransfer
  <2>2. 1 \in 1 .. Len(k.written)
    BY <1>1, <1>3
  <2> QED BY <2>1, <2>2 DEF InOrder
<1> QED BY <1>1, <1>2, <1>3

(* The next block a receiver writes is the next block of its transfer.      *)
LEMMA NextBlock ==
  ASSUME IInv, NEW k \in ClientRecord, InOrder(k, log), Whole(k, log),
         k.phase = "receiving", NEW m \in net, m.type = "data", m.seq = k.seq,
         NEW j \in ClientRecord, j.phase = "receiving", j.seq = k.seq + 1,
         j.outcome = k.outcome, j.closedBy = k.closedBy,
         j.written = Append(k.written, [file |-> m.file, block |-> m.block,
                                        transfer |-> m.transfer])
  PROVE  InOrder(j, log) /\ Whole(j, log)
<1> DEFINE n == Len(k.written)
           g == m.transfer
           e == [file |-> m.file, block |-> m.block, transfer |-> m.transfer]
<1>1. n \in Nat /\ Len(j.written) = n + 1 /\ k.seq \in Nat
      /\ \A i \in 1 .. n : j.written[i] = k.written[i]
  BY DEF ClientRecord
<1>2. j.written[n + 1] = e
  BY <1>1 DEF ClientRecord
<1>3. e.file = m.file /\ e.block = m.block /\ e.transfer = g
  OBVIOUS
<1> HIDE DEF e
<1>4. Answered(m, log) /\ k.seq = n + 2
  BY DEF IInv, InFlight, InOrder
<1>5. g \in 1 .. Len(log) /\ m.file = log[g].file /\ log[g].clean \in Nat
  BY <1>4, LogEntry DEF Answered, IInv, TypeOK
<1>6. \A i \in 1 .. n + 1 : i \in 1 .. n \/ i = n + 1
  BY <1>1
<1>7. \A i \in 1 .. Len(j.written) :
        /\ j.written[i].transfer \in 1 .. Len(log)
        /\ j.written[i].file = log[j.written[i].transfer].file
  BY <1>1, <1>2, <1>3, <1>5, <1>6 DEF InOrder
<1>8. ASSUME FromOneTransfer(j), NEW i \in 1 .. Len(j.written)
      PROVE  /\ j.written[i].block = BlockAt(j.written[i].file, i)
             /\ Len(j.written) + 1 <= log[j.written[i].transfer].clean
  <2>1. \A h \in 1 .. n : k.written[h].transfer = g
    <3> TAKE h \in 1 .. n
    <3>1. h \in 1 .. Len(j.written) /\ n + 1 \in 1 .. Len(j.written)
      BY <1>1
    <3>2. j.written[h].transfer = j.written[n + 1].transfer
      BY <3>1, <1>8 DEF FromOneTransfer
    <3> QED BY <3>2, <1>1, <1>2, <1>3
  <2>2. n + 1 <= log[g].clean
    BY <2>1, <1>5, CompleteEnough DEF IInv, TypeOK
  <2>3. m.seq <= log[g].clean /\ m.block = BlockAt(m.file, n + 1)
    <3>1. ~(m.seq > log[g].clean + 1)
      BY <2>2, <1>1, <1>4, <1>5
    <3>2. m.seq <= log[g].clean /\ m.block = BlockAt(m.file, m.seq - 1)
      BY <3>1, <1>4 DEF Answered
    <3>3. m.seq - 1 = n + 1
      BY <1>1, <1>4
    <3> QED BY <3>2, <3>3
  <2>4. n + 2 <= log[g].clean
    BY <2>3, <1>4
  <2>5. FromOneTransfer(k)
    BY <2>1 DEF FromOneTransfer
  <2>6. CASE i \in 1 .. n
    <3>1. j.written[i] = k.written[i] /\ k.written[i].transfer = g
      BY <2>6, <2>1, <1>1
    <3>2. k.written[i].block = BlockAt(k.written[i].file, i)
      BY <2>5, <2>6 DEF InOrder
    <3> QED BY <3>1, <3>2, <2>4, <1>1
  <2>7. CASE i = n + 1
    BY <2>7, <1>1, <1>2, <1>3, <2>3, <2>4
  <2> QED BY <2>6, <2>7, <1>1, <1>6
<1>9. InOrder(j, log)
  BY <1>1, <1>4, <1>7, <1>8 DEF InOrder
<1>10. Whole(j, log)
  <2> SUFFICES ASSUME j.outcome = "complete"
               PROVE  /\ j.closedBy \in 1 .. Len(log)
                      /\ (\A i \in 1 .. Len(j.written) : j.written[i].transfer = j.closedBy)
                           => Len(j.written) >= Blocks(log[j.closedBy].file)
    BY DEF Whole
  <2>1. k.closedBy \in 1 .. Len(log)
        /\ ((\A i \in 1 .. n : k.written[i].transfer = k.closedBy)
             => n >= Blocks(log[k.closedBy].file))
    BY DEF Whole
  <2>2. (\A i \in 1 .. Len(j.written) : j.written[i].transfer = j.closedBy)
          => \A i \in 1 .. n : k.written[i].transfer = k.closedBy
    BY <1>1
  <2>3. Blocks(log[k.closedBy].file) \in Nat
    <3>1. log[k.closedBy].file \in File
      BY <2>1, LogEntry DEF IInv, TypeOK
    <3> QED BY <3>1, BlocksNat
  <2> QED BY <2>1, <2>2, <2>3, <1>1
<1> QED BY <1>9, <1>10

LEMMA BlockReceivedKeeps ==
  ASSUME IInv, NEW c \in Client, NEW m, Heard(c, m), Answers(c, m), BlockReceived(c, m),
         UNCHANGED <<lock, serving, tx, notice, log>>
  PROVE  IInv'
<1> DEFINE k == client[c]
           e == [file |-> m.file, block |-> m.block, transfer |-> m.transfer]
           crashed == [k EXCEPT !.phase = "idle", !.addr = "none", !.waiting = FALSE, !.seq = k.seq + 1,
                                !.outcome = "crashed"]
           wrote == [k EXCEPT !.addr = "none", !.waiting = FALSE, !.tries = 0, !.rounds = 0,
                              !.seq = k.seq + 1, !.written = Append(k.written, e)]
<1>1. k \in ClientRecord /\ InOrder(k, log) /\ Whole(k, log)
  BY ClientFacts
<1>2. m \in net /\ m.type = "data" /\ k.phase = "receiving" /\ m.seq = k.seq
  BY DEF Heard, Answers, BlockReceived
<1>3. k.seq + 1 \in Nat
  BY <1>1 DEF ClientRecord
<1>4. \A d \in net' : d \in net
  BY DEF BlockReceived
<1>5. CASE Size[k.file] = 1
  <2>1. client' = [client EXCEPT ![c] = crashed]
    BY <1>5 DEF BlockReceived
  <2>2. crashed \in ClientRecord
    BY <1>1, <1>3 DEF ClientRecord
  <2>3. crashed.written = k.written /\ crashed.closedBy = k.closedBy
        /\ crashed.outcome = "crashed" /\ crashed.phase = "idle"
    BY <1>1 DEF ClientRecord
  <2> HIDE DEF crashed
  <2>4. InOrder(crashed, log) /\ Whole(crashed, log)
    BY <1>1, <2>2, <2>3, SameWritten
  <2> QED BY <1>4, <2>1, <2>2, <2>4, ClientMoves
<1>6. CASE Size[k.file] # 1
  <2>1. client' = [client EXCEPT ![c] = wrote]
    BY <1>6 DEF BlockReceived
  <2>2. e \in Written
    BY <1>2 DEF IInv, TypeOK, Datagram, InFlight, Answered, Written
  <2>3. Append(k.written, e) \in Seq(Written)
    BY <1>1, <2>2 DEF ClientRecord
  <2> DEFINE w == Append(k.written, e)
  <2>4. w \in Seq(Written) /\ 0 \in 0 .. MaxTicksRx
    BY <2>3, BoundsNat
  <2> HIDE DEF w
  <2> DEFINE r == [k EXCEPT !.addr = "none", !.waiting = FALSE, !.tries = 0, !.rounds = 0,
                            !.seq = k.seq + 1, !.written = w]
  <2>5. r \in ClientRecord
    BY <1>1, <1>3, <2>4 DEF ClientRecord
  <2>6. r.phase = k.phase /\ r.seq = k.seq + 1 /\ r.outcome = k.outcome
        /\ r.closedBy = k.closedBy /\ r.written = w
    BY <1>1 DEF ClientRecord
  <2>7. client' = [client EXCEPT ![c] = r]
    BY <2>1 DEF w
  <2> HIDE DEF r
  <2>8. InOrder(r, log) /\ Whole(r, log)
    BY <1>1, <1>2, <2>5, <2>6, NextBlock DEF w
  <2> QED BY <1>4, <2>5, <2>7, <2>8, ClientMoves
<1> QED BY <1>5, <1>6

LEMMA EofReceivedKeeps ==
  ASSUME IInv, NEW c \in Client, NEW m, Heard(c, m), Answers(c, m), EofReceived(c, m),
         UNCHANGED <<lock, serving, tx, notice, log>>
  PROVE  IInv'
<1> DEFINE k == client[c]
           j == [k EXCEPT !.phase = "idle", !.addr = "none", !.waiting = FALSE, !.closedBy = m.transfer,
                          !.outcome = "complete"]
           a == [m EXCEPT !.type = "eofAck"]
<1>1. k \in ClientRecord /\ InOrder(k, log) /\ Whole(k, log)
  BY ClientFacts
<1>2. m \in net /\ m.type = "eof" /\ k.phase = "receiving" /\ m.seq = k.seq
  BY DEF Heard, Answers, EofReceived
<1>3. m \in Datagram /\ Answered(m, log)
  BY <1>2 DEF IInv, TypeOK, InFlight
<1>4. client' = [client EXCEPT ![c] = j] /\ Exchange({m}, Copied(a))
  BY DEF EofReceived
<1>5. j \in ClientRecord
  BY <1>1, <1>3 DEF ClientRecord, Datagram
<1>6. j.written = k.written /\ j.closedBy = m.transfer /\ j.phase = "idle"
      /\ j.outcome = "complete"
  BY <1>1 DEF ClientRecord
<1>7. a \in [type : ToServer \cup ToClient, seq : Nat, peer : Client, file : File,
             transfer : Nat, block : Nat, copy : Nat] /\ a.type = "eofAck"
  BY <1>3 DEF Datagram, ToServer
<1> HIDE DEF j, a
<1>8. InOrder(j, log)
  BY <1>1, <1>6 DEF InOrder, FromOneTransfer
<1>9. Whole(j, log)
  <2> DEFINE g == m.transfer
             n == Len(k.written)
  <2>1. g \in 1 .. Len(log) /\ m.file = log[g].file
    BY <1>3 DEF Answered
  <2>2. log[g].clean \in Nat /\ m.file \in File /\ Blocks(m.file) \in Nat /\ n \in Nat
    <3>1. log[g].clean \in Nat /\ log[g].file \in File
      BY <2>1, LogEntry DEF IInv, TypeOK
    <3>2. n \in Nat
      BY <1>1 DEF ClientRecord
    <3> QED BY <2>1, <3>1, <3>2, BlocksNat
  <2>3. ASSUME \A i \in 1 .. n : k.written[i].transfer = g
        PROVE  n >= Blocks(m.file)
    <3>1. n + 1 <= log[g].clean
      BY <2>1, <2>3, <1>1, CompleteEnough DEF IInv, TypeOK
    <3>2. m.seq = n + 2
      BY <1>1, <1>2 DEF InOrder
    <3>3. ~(m.seq > log[g].clean + 1)
      BY <3>1, <3>2, <2>2
    <3>4. m.seq - 1 > Blocks(m.file)
      BY <1>2, <1>3, <3>3 DEF Answered
    <3> QED BY <3>2, <3>4, <2>2
  <2> QED BY <1>6, <2>1, <2>3 DEF Whole
<1>10. \A d \in net' : d \in net \/ Harmless(d)
  <2>1. \A d \in Copied(a) : Harmless(d)
    BY <1>7, CopiedFields DEF Harmless
  <2> QED BY <1>4, <2>1, ExchangeNet
<1> QED BY <1>4, <1>5, <1>8, <1>9, <1>10, ClientMoves

LEMMA HearKeeps == ASSUME IInv, NEW c \in Client, NEW m, Hear(c, m) PROVE IInv'
<1>1. Heard(c, m) /\ Answers(c, m) /\ UNCHANGED <<lock, serving, tx, notice, log>>
  BY DEF Hear
<1>2. CASE ListReceived(c, m)
  BY <1>1, <1>2, ListReceivedKeeps
<1>3. CASE LockReceived(c, m)
  BY <1>1, <1>3, LockReceivedKeeps
<1>4. CASE BlockReceived(c, m)
  BY <1>1, <1>4, BlockReceivedKeeps
<1>5. CASE EofReceived(c, m)
  BY <1>1, <1>5, EofReceivedKeeps
<1> QED BY <1>2, <1>3, <1>4, <1>5 DEF Hear

------------------------------------------------------------------------------
(* The sharing node *)

LEMMA SameThread ==
  ASSUME IInv
  PROVE  tx \in [file : File, block : Nat, prev : Nat, length : -1 .. 1, ticks : Nat]
         /\ lock \in BOOLEAN /\ serving \in BOOLEAN /\ notice \in BOOLEAN
BY DEF IInv, TypeOK

LEMMA RetypedHarmless ==
  ASSUME IInv, NEW m \in net, NEW t \in {"listAck", "approve", "deny", "eofAck"},
         NEW d \in Copied([m EXCEPT !.type = t])
  PROVE  Harmless(d)
<1> DEFINE a == [m EXCEPT !.type = t]
<1>1. a \in [type : ToServer \cup ToClient, seq : Nat, peer : Client, file : File,
             transfer : Nat, block : Nat, copy : Nat] /\ a.type = t
  <2>1. m \in Datagram
    BY DEF IInv, TypeOK
  <2>2. t \in ToServer \cup ToClient
    BY DEF ToServer, ToClient
  <2> QED BY <2>1, <2>2 DEF Datagram
<1> HIDE DEF a
<1>2. d \in Copied(a)
  BY DEF a
<1> QED BY <1>1, <1>2, CopiedFields DEF Harmless

LEMMA SendFileListKeeps == ASSUME IInv, NEW m, SendFileList(m) PROVE IInv'
<1>1. m \in net /\ UNCHANGED <<lock, serving, tx, notice, log, client>>
      /\ \A d \in net' : d \in net \/ d \in Copied([m EXCEPT !.type = "listAck"])
  BY ExchangeNet DEF SendFileList
<1>2. \A d \in net' : d \in net \/ Harmless(d)
  BY <1>1, RetypedHarmless
<1> QED BY <1>1, <1>2, SameThread, ServerIdles DEF IInv, Sending, Ended

LEMMA DenyKeeps ==
  ASSUME IInv, NEW m \in net, Deny(m), UNCHANGED <<notice, client>> PROVE IInv'
<1>1. UNCHANGED <<lock, serving, tx, notice, log>>
      /\ \A d \in net' : d \in net \/ d \in Copied([m EXCEPT !.type = "deny"])
  BY ExchangeNet DEF Deny
<1>2. \A d \in net' : d \in net \/ Harmless(d)
  BY <1>1, RetypedHarmless
<1> QED BY <1>1, <1>2, SameThread, ServerIdles DEF IInv, Sending, Ended

LEMMA OverhearKeeps == ASSUME IInv, NEW m, Overhear(m) PROVE IInv'
<1>1. UNCHANGED <<lock, serving, tx, notice, log, client>> /\ \A d \in net' : d \in net
  BY DEF Overhear
<1> QED BY <1>1, SameThread, ServerIdles DEF IInv, Sending, Ended

LEMMA DieKeeps == ASSUME IInv, Die, client' = client PROVE IInv'
<1>1. serving' = FALSE /\ UNCHANGED <<lock, tx, notice, log, net>>
  BY DEF Die
<1> QED BY <1>1, SameThread, ServerIdles DEF IInv, Ended

LEMMA TimeoutKeeps == ASSUME IInv, Timeout PROVE IInv'
<1>1. CASE Die
  BY <1>1, DieKeeps DEF Timeout
<1>2. CASE serving' = FALSE /\ notice' = TRUE /\ tx' = tx /\ UNCHANGED <<lock, log, net>>
  BY <1>2, SameThread, ServerIdles DEF Timeout, IInv, Sending
<1>3. CASE tx' = [tx EXCEPT !.ticks = @ + 1] /\ UNCHANGED <<lock, serving, notice, log, net>>
  <2>1. tx' \in [file : File, block : Nat, prev : Nat, length : -1 .. 1, ticks : Nat]
        /\ tx'.file = tx.file /\ tx'.block = tx.block /\ tx'.prev = tx.prev
    BY <1>3, SameThread
  <2> QED BY <1>3, <2>1, SameThread, ServerIdles DEF Timeout, IInv, Sending, Ended
<1> QED BY <1>1, <1>2, <1>3 DEF Timeout

LEMMA CloseNoticeKeeps == ASSUME IInv, CloseNotice PROVE IInv'
<1>1. lock' = FALSE /\ notice' = FALSE /\ UNCHANGED <<serving, tx, log, client, net>> /\ ~serving
  BY DEF CloseNotice, IInv, Ended
<1> QED BY <1>1, SameThread, ServerIdles

(* What was written stays in order when transfers start or go on.           *)
LEMMA LogExtends ==
  ASSUME IInv, client' = client, log' \in Seq([file : File, clean : Nat]),
         Len(log') >= Len(log),
         \A g \in 1 .. Len(log) : log'[g].file = log[g].file
                                  /\ log'[g].clean \in Nat /\ log'[g].clean >= log[g].clean
  PROVE  \A d \in Client : InOrder(client[d], log)' /\ Whole(client[d], log)'
<1> TAKE d \in Client
<1> DEFINE k == client[d]
<1>1. k \in ClientRecord /\ InOrder(k, log) /\ Whole(k, log)
  BY ClientFacts
<1>2. Len(k.written) \in Nat
  BY <1>1 DEF ClientRecord
<1>3. Len(log) \in Nat /\ Len(log') \in Nat /\ \A g \in 1 .. Len(log) : log[g].clean \in Nat
  BY LogEntry DEF IInv, TypeOK
<1>4. \A g \in 1 .. Len(log) : g \in 1 .. Len(log')
  BY <1>3
<1>5. InOrder(k, log')
  <2>1. k.phase = "receiving" => k.seq = Len(k.written) + 2
    BY <1>1 DEF InOrder
  <2>2. \A i \in 1 .. Len(k.written) :
          LET g == k.written[i].transfer IN
          /\ g \in 1 .. Len(log) /\ g \in 1 .. Len(log')
          /\ k.written[i].file = log'[g].file
    BY <1>1, <1>4 DEF InOrder
  <2>3. ASSUME FromOneTransfer(k), NEW i \in 1 .. Len(k.written)
        PROVE  /\ k.written[i].block = BlockAt(k.written[i].file, i)
               /\ Len(k.written) + 1 <= log'[k.written[i].transfer].clean
    <3> DEFINE g == k.written[i].transfer
    <3>1. k.written[i].block = BlockAt(k.written[i].file, i)
          /\ Len(k.written) + 1 <= log[g].clean
      BY <1>1, <2>3 DEF InOrder
    <3>2. g \in 1 .. Len(log)
      BY <2>2
    <3>3. log'[g].clean >= log[g].clean /\ log'[g].clean \in Nat /\ log[g].clean \in Nat
      BY <3>2, <1>3
    <3>4. \A a, b \in Nat, n \in Nat : n + 1 <= a /\ b >= a => n + 1 <= b
      OBVIOUS
    <3>5. Len(k.written) + 1 <= log'[g].clean
      BY <3>1, <3>3, <3>4, <1>2
    <3> QED BY <3>1, <3>5
  <2> QED BY <2>1, <2>2, <2>3 DEF InOrder
<1>6. Whole(k, log')
  BY <1>1, <1>3, <1>4 DEF Whole
<1>7. client'[d] = k
  OBVIOUS
<1> QED BY <1>5, <1>6, <1>7 DEF InOrder, Whole, FromOneTransfer

LEMMA ApproveKeeps ==
  ASSUME IInv, NEW m \in net, Approve(m), UNCHANGED <<notice, client>> PROVE IInv'
<1> DEFINE L == Len(log)
           t == NewTransfer(m.file)
<1>1. m.file \in File /\ Blocks(m.file) \in Nat
  BY BlocksNat DEF IInv, TypeOK, Datagram
<1>2. t \in [file : File, clean : Nat] /\ t.file = m.file /\ t.clean = 1
  BY <1>1 DEF NewTransfer
<1> HIDE DEF t
<1>3. log \in Seq([file : File, clean : Nat]) /\ log' = Append(log, t)
  BY DEF IInv, TypeOK, Approve, t
<1>4. log' \in Seq([file : File, clean : Nat]) /\ L \in Nat /\ Len(log') = L + 1
      /\ log'[L + 1] = t /\ \A g \in 1 .. L : log'[g] = log[g]
  BY <1>2, <1>3
<1>5. tx' \in [file : File, block : Nat, prev : Nat, length : -1 .. 1, ticks : Nat]
      /\ tx'.file = m.file /\ tx'.block = 0 /\ tx'.prev = 1
  BY <1>1 DEF Approve, NewThread
<1>6. \A g \in 1 .. L : log[g].clean \in Nat
  BY LogEntry DEF IInv, TypeOK
<1>7. lock' = TRUE /\ serving' = TRUE
  BY DEF Approve
<1>8. \A d \in net' : d \in net \/ Harmless(d)
  <2>1. \A d \in net' : d \in net \/ d \in Copied([m EXCEPT !.type = "approve"])
    BY ExchangeNet DEF Approve
  <2> QED BY <2>1, RetypedHarmless
<1>9. TypeOK'
  BY <1>4, <1>5, <1>7, <1>8 DEF IInv, TypeOK, Harmless
<1>10. Sending' /\ Ended'
  <2>1. Sending'
    BY <1>1, <1>2, <1>4, <1>5, <1>7 DEF Sending, BlockAt
  <2>2. ~notice'
    BY DEF Approve, IInv, Ended
  <2> QED BY <2>1, <2>2 DEF Ended
<1>11. CleanLog(log)'
  BY <1>2, <1>4 DEF IInv, CleanLog
<1>12. InFlight'
  <2>1. ASSUME NEW d \in net', d.type \in {"data", "eof"}
        PROVE  /\ d.seq >= 2
               /\ Answered(d, log')
               /\ serving' /\ d.transfer = Len(log') => d.seq <= tx'.prev
    <3>1. d \in net /\ Answered(d, log) /\ d.seq >= 2
      BY <1>8, <2>1 DEF Harmless, IInv, InFlight
    <3>2. d.transfer \in 1 .. L /\ log'[d.transfer] = log[d.transfer]
      BY <3>1, <1>4 DEF Answered
    <3>3. d.transfer \in 1 .. Len(log') /\ d.transfer # Len(log')
      BY <3>2, <1>4
    <3> QED BY <3>1, <3>2, <3>3 DEF Answered
  <2>2. \A d \in net' : d.type = "request" => d.seq >= 2
    BY <1>8 DEF Harmless, IInv, InFlight
  <2> QED BY <2>1, <2>2 DEF InFlight, Answered
<1>13. \A d \in Client : InOrder(client[d], log)' /\ Whole(client[d], log)'
  BY <1>4, <1>6, LogExtends
<1> QED BY <1>9, <1>10, <1>11, <1>12, <1>13 DEF IInv

LEMMA LockFtpKeeps == ASSUME IInv, NEW m, LockFtp(m) PROVE IInv'
BY ApproveKeeps, DenyKeeps DEF LockFtp

(* What one request does to the number and the block of a sending thread    *)
(* with n blocks, and what it is answered with.                             *)
Position(prev, block, clean, n) ==
  \/ prev = clean /\ block = (IF prev - 1 <= n THEN prev - 1 ELSE n)
  \/ prev > clean + 1

CleanAfter(prev, clean, s) == IF clean = prev /\ s = prev + 1 THEN s ELSE clean
BlockAfter(prev, block, n, s) == IF s = prev + 1 /\ block < n THEN block + 1 ELSE block
PrevAfter(prev, s) == IF s >= prev THEN s ELSE prev

LEMMA OneRequest ==
  ASSUME NEW n \in Nat, NEW prev \in Nat, NEW block \in Nat, NEW clean \in Nat, NEW s \in Nat,
         prev >= 1, block <= n, Position(prev, block, clean, n)
  PROVE  LET clean2 == CleanAfter(prev, clean, s)
             block2 == BlockAfter(prev, block, n, s)
             prev2  == PrevAfter(prev, s)
         IN
         /\ clean2 \in Nat /\ clean2 >= clean /\ block2 \in Nat /\ block2 <= n
         /\ prev2 \in Nat /\ prev2 >= prev
         /\ clean2 # clean => clean = prev
         /\ Position(prev2, block2, clean2, n)
         /\ s >= prev /\ ~(s = prev + 1 /\ block >= n) =>
              \/ s <= clean2 /\ block2 = (IF s - 1 <= n THEN s - 1 ELSE n)
              \/ s > clean2 + 1
         /\ s = prev + 1 /\ block >= n => (s <= clean2 /\ s - 1 > n) \/ s > clean2 + 1
<1>1. CASE s < prev
  BY <1>1 DEF Position, CleanAfter, BlockAfter, PrevAfter
<1>2. CASE s = prev
  BY <1>2 DEF Position, CleanAfter, BlockAfter, PrevAfter
<1>3. CASE s = prev + 1
  BY <1>3 DEF Position, CleanAfter, BlockAfter, PrevAfter
<1>4. CASE s > prev + 1
  BY <1>4 DEF Position, CleanAfter, BlockAfter, PrevAfter
<1> QED BY <1>1, <1>2, <1>3, <1>4

(* What a request is answered with.                                         *)
LEMMA AnswerFields ==
  ASSUME TypeOK, NEW m \in net, NEW length \in -1 .. 1, NEW block \in Nat,
         NEW x \in Answer(m, length, block)
  PROVE  /\ x \in Datagram /\ m.seq >= tx.prev
         /\ x.seq = m.seq /\ x.file = tx.file /\ x.transfer = Len(log)
         /\ \/ x.type = "data" /\ length >= 0 /\ x.block = block /\ block # 0
            \/ x.type = "eof" /\ length = -1
<1> DEFINE f == tx.file
           g == Len(log)
           R == ToServer \cup ToClient
           W == [type : R, seq : Nat, peer : Client, file : File, transfer : Nat,
                 block : Nat, copy : Nat]
           data == [m EXCEPT !.type = "data", !.file = f, !.transfer = g, !.block = block]
           eof == [m EXCEPT !.type = "eof", !.file = f, !.transfer = g]
<1>1. m \in Datagram /\ f \in File /\ g \in Nat
  BY LogEntry DEF TypeOK
<1>2. m.seq >= tx.prev
  <2>1. ~(m.seq < tx.prev)
    BY DEF Answer
  <2> QED BY <2>1, <1>1 DEF Datagram, TypeOK
<1>3. length >= 0 => block # 0 /\ x \in Copied(data)
  BY DEF Answer
<1>4. ~(length >= 0) => length = -1 /\ x \in Copied(eof)
  BY DEF Answer
<1>5. "data" \in R /\ "eof" \in R /\ \A i \in 1 .. Copies : i \in Nat
  BY DEF ToClient
<1>6. m \in [type : R, seq : Nat, peer : Client, file : File, transfer : Nat, block : Nat,
             copy : 1 .. Copies]
  BY <1>1 DEF Datagram
<1> HIDE DEF R, f, g
<1>7. m \in W
  BY <1>5, <1>6
<1>8. data \in W /\ data.type = "data" /\ data.seq = m.seq /\ data.file = f
      /\ data.transfer = g /\ data.block = block
  BY <1>1, <1>5, <1>7
<1>9. eof \in W /\ eof.type = "eof" /\ eof.seq = m.seq /\ eof.file = f
      /\ eof.transfer = g
  BY <1>1, <1>5, <1>7
<1> HIDE DEF data, eof
<1>10. CASE length >= 0
  BY <1>2, <1>3, <1>8, <1>10, CopiedFields DEF R, f, g
<1>11. CASE ~(length >= 0)
  BY <1>2, <1>4, <1>9, <1>11, CopiedFields DEF R, f, g
<1> QED BY <1>10, <1>11

LEMMA ReplyKeeps ==
  ASSUME IInv, NEW m \in net, serving, m.type = "request", Reply(m), client' = client
  PROVE  IInv'
<1> DEFINE L == Len(log)
           f == tx.file
           n == Blocks(f)
           s == m.seq
           clean == log[L].clean
           clean2 == CleanAfter(tx.prev, clean, s)
           block2 == BlockAfter(tx.prev, tx.block, n, s)
           prev2 == PrevAfter(tx.prev, s)
           length == IF ~InSequence(s) THEN 0 ELSE IF tx.block < n THEN 1 ELSE -1
<1>1. /\ lock /\ L > 0 /\ f = log[L].file /\ tx.block <= n /\ tx.prev >= 1
      /\ Position(tx.prev, tx.block, clean, n)
  BY DEF IInv, Sending, BlockAt, Position
<1>2. /\ tx \in [file : File, block : Nat, prev : Nat, length : -1 .. 1, ticks : Nat]
      /\ log \in Seq([file : File, clean : Nat]) /\ TypeOK
  BY DEF IInv, TypeOK
<1>3. L \in Nat /\ L \in 1 .. L /\ clean \in Nat /\ s \in Nat /\ s >= 2
  <2>1. L \in Nat /\ \A g \in 1 .. L : log[g].clean \in Nat
    BY <1>2, LogEntry
  <2>2. s \in Nat /\ s >= 2
    BY DEF IInv, TypeOK, Datagram, InFlight
  <2> QED BY <1>1, <2>1, <2>2
<1>4. tx.prev \in Nat /\ tx.block \in Nat /\ f \in File /\ n \in Nat
  BY <1>2, BlocksNat
<1>5. length \in -1 .. 1
      /\ (length = 1 <=> s = tx.prev + 1 /\ tx.block < n)
      /\ (length = -1 <=> s = tx.prev + 1 /\ tx.block >= n)
  BY <1>4 DEF InSequence
<1>6. /\ Exchange({m}, Answer(m, length, block2))
      /\ tx' = [tx EXCEPT !.block = block2, !.prev = prev2, !.length = length, !.ticks = 0]
      /\ log' = [log EXCEPT ![L].clean = clean2]
      /\ UNCHANGED <<lock, serving, notice>>
  BY <1>5 DEF Reply, InSequence, CleanAfter, BlockAfter, PrevAfter
<1>7. /\ clean2 \in Nat /\ clean2 >= clean /\ block2 \in Nat /\ block2 <= n
      /\ prev2 \in Nat /\ prev2 >= tx.prev
      /\ clean2 # clean => clean = tx.prev
      /\ Position(prev2, block2, clean2, n)
      /\ s >= tx.prev /\ ~(s = tx.prev + 1 /\ tx.block >= n) =>
           \/ s <= clean2 /\ block2 = (IF s - 1 <= n THEN s - 1 ELSE n)
           \/ s > clean2 + 1
      /\ s = tx.prev + 1 /\ tx.block >= n => (s <= clean2 /\ s - 1 > n) \/ s > clean2 + 1
  <2>1. clean \in Nat /\ s \in Nat /\ n \in Nat /\ tx.prev \in Nat /\ tx.block \in Nat
    BY <1>3, <1>4
  <2>2. tx.block <= n /\ tx.prev >= 1 /\ Position(tx.prev, tx.block, clean, n)
    BY <1>1
  <2> HIDE DEF n, clean, s
  <2> QED BY <2>1, <2>2, OneRequest
<1>8. s >= tx.prev => prev2 = s
  BY DEF PrevAfter
<1> DEFINE T == [file : File, clean : Nat]
           e == [log[L] EXCEPT !.clean = clean2]
<1> HIDE DEF clean2, block2, prev2, length, n, clean
<1>9. /\ log' \in Seq([file : File, clean : Nat]) /\ Len(log') = L
      /\ \A g \in 1 .. L : g # L => log'[g] = log[g]
      /\ log'[L].file = log[L].file /\ log'[L].clean = clean2
  <2>1. log' = [log EXCEPT ![L] = e]
    BY <1>6
  <2>2. log \in Seq(T)
    BY <1>2
  <2> HIDE DEF T, L
  <2>3. log[L] \in T
    BY <1>3, <2>2 DEF L
  <2>4. e \in T /\ e.file = log[L].file /\ e.clean = clean2
    BY <1>7, <2>3 DEF T
  <2> HIDE DEF e
  <2>5. /\ log' \in Seq(T) /\ Len(log') = L
        /\ \A g \in 1 .. L : g # L => log'[g] = log[g]
        /\ log'[L] = e
    BY <1>3, <2>1, <2>2, <2>4 DEF L
  <2> QED BY <2>4, <2>5 DEF T
<1>10. tx' \in [file : File, block : Nat, prev : Nat, length : -1 .. 1, ticks : Nat]
       /\ tx'.file = f /\ tx'.block = block2 /\ tx'.prev = prev2
  BY <1>2, <1>5, <1>6, <1>7
<1>11. \A x \in net' : x \in net \/ x \in Answer(m, length, block2)
  BY <1>6, ExchangeNet
<1>12. ASSUME NEW x \in Answer(m, length, block2)
       PROVE  /\ x \in Datagram /\ x.type \in {"data", "eof"} /\ x.seq >= 2
              /\ Answered(x, log') /\ x.seq <= prev2
  <2>1. /\ x \in Datagram /\ s >= tx.prev
        /\ x.seq = s /\ x.file = f /\ x.transfer = L
        /\ \/ x.type = "data" /\ length >= 0 /\ x.block = block2 /\ block2 # 0
           \/ x.type = "eof" /\ length = -1
    BY <1>2, <1>5, <1>7, AnswerFields
  <2>2. x.seq <= prev2
    BY <2>1, <1>3, <1>8
  <2>3. CASE x.type = "data"
    <3>1. length >= 0 /\ x.block = block2 /\ block2 # 0
      BY <2>1, <2>3
    <3>2. ~(s = tx.prev + 1 /\ tx.block >= n)
      BY <3>1, <1>5
    <3>3. (s <= clean2 /\ block2 = (IF s - 1 <= n THEN s - 1 ELSE n)) \/ s > clean2 + 1
      BY <3>2, <2>1, <1>7
    <3>4. BlockAt(f, s - 1) = (IF s - 1 <= n THEN s - 1 ELSE n)
      BY DEF BlockAt, n
    <3>5. block2 > 0
      BY <3>1, <1>7
    <3> QED BY <2>1, <2>2, <2>3, <3>1, <3>3, <3>4, <3>5, <1>1, <1>3, <1>9 DEF Answered
  <2>4. CASE x.type = "eof"
    <3>1. (s <= clean2 /\ s - 1 > n) \/ s > clean2 + 1
      BY <2>1, <2>4, <1>5, <1>7
    <3> QED BY <2>1, <2>2, <2>4, <3>1, <1>1, <1>3, <1>9 DEF Answered, n
  <2> QED BY <2>1, <2>3, <2>4
<1>13. TypeOK'
  BY <1>6, <1>9, <1>10, <1>11, <1>12 DEF IInv, TypeOK
<1>14. Sending'
  <2>1. \/ prev2 = clean2 /\ block2 = BlockAt(f, prev2 - 1)
        \/ prev2 > clean2 + 1
    BY <1>7 DEF Position, BlockAt, n
  <2>2. lock' /\ prev2 >= 1 /\ Blocks(f) = n
    BY <1>1, <1>4, <1>6, <1>7 DEF n
  <2> QED BY <2>1, <2>2, <1>1, <1>7, <1>9, <1>10 DEF Sending
<1>15. CleanLog(log)'
  <2>1. \A g \in 1 .. L : log[g].clean >= 1
    BY DEF IInv, CleanLog
  <2>2. clean2 >= 1
    BY <2>1, <1>3, <1>7 DEF clean
  <2> QED BY <2>1, <2>2, <1>9 DEF CleanLog
<1>16. ASSUME NEW d \in net, d.type \in {"data", "eof"}
       PROVE  /\ d.seq >= 2 /\ Answered(d, log')
              /\ d.transfer = L => d.seq <= prev2
  <2>1. /\ d.seq >= 2 /\ d.seq \in Nat /\ Answered(d, log)
        /\ d.transfer = L => d.seq <= tx.prev
    BY <1>16 DEF IInv, InFlight, TypeOK, Datagram
  <2>2. d.transfer = L => d.seq <= prev2
    BY <2>1, <1>4, <1>7
  <2>3. CASE d.transfer # L
    <3>1. d.transfer \in 1 .. L /\ log'[d.transfer] = log[d.transfer]
      BY <2>1, <2>3, <1>9 DEF Answered
    <3> QED BY <2>1, <2>2, <3>1, <1>9 DEF Answered
  <2>4. CASE d.transfer = L
    <3>1. clean2 = clean \/ d.seq <= clean
      BY <2>1, <2>4, <1>7
    <3>2. d.seq > clean2 + 1 => d.seq > clean + 1
      BY <1>3, <1>7, <2>1
    <3>3. d.seq <= clean => d.seq <= clean2
      BY <1>3, <1>7, <2>1
    <3>4. d.seq <= clean => ~(d.seq > clean + 1)
      BY <1>3, <2>1
    <3> QED BY <2>1, <2>2, <2>4, <3>1, <3>2, <3>3, <3>4, <1>3, <1>9 DEF Answered, clean
  <2> QED BY <2>3, <2>4
<1>17. InFlight'
  <2>1. ASSUME NEW x \in net', x.type \in {"data", "eof"}
        PROVE  /\ x.seq >= 2 /\ Answered(x, log')
               /\ serving' /\ x.transfer = Len(log') => x.seq <= tx'.prev
    BY <2>1, <1>9, <1>10, <1>11, <1>12, <1>16
  <2>2. \A x \in net' : x.type = "request" => x.seq >= 2
    BY <1>11, <1>12 DEF IInv, InFlight
  <2> QED BY <2>1, <2>2 DEF InFlight, Answered
<1>18. \A g \in 1 .. L : log'[g].file = log[g].file
                        /\ log'[g].clean \in Nat /\ log'[g].clean >= log[g].clean
  <2>1. \A g \in 1 .. L : log[g].clean \in Nat
    BY <1>2, LogEntry
  <2> TAKE g \in 1 .. L
  <2>2. CASE g = L
    BY <2>2, <1>3, <1>7, <1>9 DEF clean
  <2>3. CASE g # L
    BY <2>1, <2>3, <1>9
  <2> QED BY <2>2, <2>3
<1>19. \A d \in Client : InOrder(client[d], log)' /\ Whole(client[d], log)'
  BY <1>3, <1>9, <1>18, LogExtends
<1>20. Ended'
  BY <1>6 DEF IInv, Ended
<1> QED BY <1>13, <1>14, <1>15, <1>17, <1>19, <1>20 DEF IInv

LEMMA ServeKeeps == ASSUME IInv, NEW m, Serve(m) PROVE IInv'
<1>1. serving /\ m \in net /\ m.type = "request" /\ client' = client
  BY DEF Serve
<1>2. CASE Die
  BY <1>1, <1>2, DieKeeps
<1>3. CASE Reply(m)
  BY <1>1, <1>3, ReplyKeeps
<1> QED BY <1>2, <1>3 DEF Serve

------------------------------------------------------------------------------
(* The theorems *)

LEMMA InitIInv == Init => IInv
<1> SUFFICES ASSUME Init PROVE IInv
  OBVIOUS
<1> DEFINE f == CHOOSE g \in File : TRUE
<1>1. PICK h \in File : tx = NewThread(h)
  BY DEF Init
<1>2. f \in File
  BY <1>1
<1>3. IdleClient \in ClientRecord
  <2>1. <<>> \in Seq(Written) /\ 0 \in 0 .. MaxTicksRx /\ 0 \in 0 .. MaxDownloads
    BY BoundsNat
  <2> QED BY <1>2, <2>1 DEF IdleClient, ClientRecord, SeqFileRequest
<1>4. TypeOK
  <2>1. client \in [Client -> ClientRecord]
    BY <1>3 DEF Init
  <2>2. tx \in [file : File, block : Nat, prev : Nat, length : -1 .. 1, ticks : Nat]
    BY <1>1 DEF NewThread
  <2>3. log \in Seq([file : File, clean : Nat])
    BY DEF Init
  <2>4. lock \in BOOLEAN /\ serving \in BOOLEAN /\ notice \in BOOLEAN /\ net \subseteq Datagram
    BY DEF Init
  <2> QED BY <2>1, <2>2, <2>3, <2>4 DEF TypeOK
<1>5. Sending /\ Ended /\ CleanLog(log) /\ InFlight
  BY DEF Init, Sending, Ended, CleanLog, InFlight
<1>6. \A c \in Client : InOrder(client[c], log) /\ Whole(client[c], log)
  BY DEF Init, IdleClient, InOrder, Whole, FromOneTransfer
<1> QED BY <1>4, <1>5, <1>6 DEF IInv

LEMMA NextIInv == IInv /\ [Next]_vars => IInv'
<1> SUFFICES ASSUME IInv, [Next]_vars PROVE IInv'
  OBVIOUS
<1>1. CASE \E c \in Client : SelectBuddy(c)
  BY <1>1, SelectBuddyKeeps
<1>2. CASE \E c \in Client, f \in File : Download(c, f)
  BY <1>2, DownloadKeeps
<1>3. CASE \E c \in Client : ClientStep(c)
  BY <1>3, AskKeeps, MissKeeps, HearKeeps DEF ClientStep
<1>4. CASE \E m \in net : SendFileList(m) \/ LockFtp(m)
  BY <1>4, SendFileListKeeps, LockFtpKeeps
<1>5. CASE ServerStep
  BY <1>5, TimeoutKeeps, ServeKeeps, OverhearKeeps DEF ServerStep
<1>6. CASE CloseNotice
  BY <1>6, CloseNoticeKeeps
<1>7. CASE \E c \in Client : Call(c) \/ Dismiss(c)
  BY <1>7, CallKeeps, DismissKeeps
<1>8. CASE UNCHANGED vars
  BY <1>8 DEF vars, IInv, TypeOK, Sending, Ended, CleanLog, InFlight, Answered, InOrder, Whole,
               FromOneTransfer
<1> QED BY <1>1, <1>2, <1>3, <1>4, <1>5, <1>6, <1>7, <1>8 DEF Next, NoBuddy

THEOREM Invariance == Spec => []IInv
BY InitIInv, NextIInv, PTL DEF Spec

(* Every variable keeps its type, and retries and downloads stay in their   *)
(* bounds, for any clients, files and limits.                               *)
THEOREM TransferTyped == Spec => []TypeOK
<1>1. IInv => TypeOK
  BY DEF IInv
<1> QED BY <1>1, Invariance, PTL

(* However datagrams are lost, repeated and overtaken, and whoever else     *)
(* asks, the blocks written from one transfer are in order and none is      *)
(* missing.                                                                 *)
THEOREM BlocksInOrder == Spec => []DownloadInOrder
<1>1. IInv => DownloadInOrder
  BY DEF IInv, InOrder, DownloadInOrder
<1> QED BY <1>1, Invariance, PTL

(* A download that its own transfer ends has written the whole file.        *)
THEOREM WholeFiles == Spec => []CompleteIsWhole
<1>1. IInv => CompleteIsWhole
  BY DEF IInv, Whole, CompleteIsWhole
<1> QED BY <1>1, Invariance, PTL

(* The lock keeps a running transfer from being replaced.                   *)
THEOREM OneTransferAtATime == Spec => NoTakeover
<1> DEFINE Same == serving /\ serving' => tx'.file = tx.file /\ Len(log') = Len(log)
<1>1. IInv /\ [Next]_vars => Same
  <2> SUFFICES ASSUME IInv, [Next]_vars, serving, serving'
               PROVE  tx'.file = tx.file /\ Len(log') = Len(log)
    OBVIOUS
  <2>1. lock /\ Len(log) > 0
        /\ tx \in [file : File, block : Nat, prev : Nat, length : -1 .. 1, ticks : Nat]
        /\ log \in Seq([file : File, clean : Nat])
    BY DEF IInv, Sending, TypeOK
  <2>2. CASE UNCHANGED <<tx, log>>
    BY <2>2
  <2>3. CASE \E m \in net : LockFtp(m)
    BY <2>1, <2>3 DEF LockFtp, Approve, Deny
  <2>4. CASE \E m \in net : Serve(m)
    <3>1. PICK m \in net : Serve(m)
      BY <2>4
    <3>2. CASE Die
      BY <3>2 DEF Die
    <3>3. CASE Reply(m)
      <4>1. Len(log') = Len(log)
        BY <2>1, <3>3 DEF Reply
      <4>2. tx'.file = tx.file
        BY <2>1, <3>3 DEF Reply
      <4> QED BY <4>1, <4>2
    <3> QED BY <3>1, <3>2, <3>3 DEF Serve
  <2>5. CASE Timeout
    BY <2>1, <2>5 DEF Timeout, Die
  <2>6. CASE \E c \in Client : ClientStep(c)
    BY <2>6, <2>2 DEF ClientStep, Ask, Miss, Hear
  <2> QED BY <2>2, <2>3, <2>4, <2>5, <2>6
          DEF Next, vars, SelectBuddy, Download, Call, NoBuddy, Dismiss, SendFileList,
              ServerStep, Overhear, CloseNotice
<1> QED BY <1>1, Invariance, PTL DEF Spec, NoTakeover
------------------------------------------------------------------------------
(***************************************************************************)
(* Dialogues end: the attempts of a request never exceed its limit, and     *)
(* every step that is not an answer uses up one of them.                    *)
(***************************************************************************)
Asking == {"listing", "locking", "receiving"}

TriesOK(k) ==
  /\ k.phase \in Asking => k.tries <= Attempts(k.phase)
  /\ k.waiting => k.phase \in Asking /\ k.addr # "none"

LEMMA AttemptsNat ==
  ASSUME NEW phase \in Asking
  PROVE  Attempts(phase) \in Nat
<1> DEFINE B == {ControlTicks, LockTicks, DataTicks, MaxTicksRx, MaxTicksTx,
                 MaxTicksComplete, Copies, MaxNet, MaxDownloads, MaxTransfers, MaxSeq}
<1>1. B \subseteq Nat
  BY FileTransferAssumption DEF FileTransferAssumption
<1>2. ControlTicks \in B /\ LockTicks \in B /\ DataTicks \in B
  OBVIOUS
<1> HIDE DEF B
<1>3. Attempts(phase) \in {ControlTicks, LockTicks, DataTicks}
  BY DEF Attempts, Asking
<1>4. QED
  BY <1>1, <1>2, <1>3

\* What a step makes of the record of a client
Progress(k, j) == TriesOK(j) /\ Advances(k, j)

(* A request that starts has no attempt behind it.                          *)
LEMMA FreshStart ==
  ASSUME NEW k, NEW j, j.tries = 0, j.phase # k.phase,
         j.phase \in Asking, ~j.waiting
  PROVE  Progress(k, j)
BY AttemptsNat DEF Progress, TriesOK, Advances

LEMMA AttemptFails ==
  ASSUME NEW k \in ClientRecord, TriesOK(k), k.waiting
  PROVE  Progress(k, Unanswered(k))
<1> DEFINE a == Attempts(k.phase)
<1>1. k.tries \in Nat /\ k.rounds \in Nat /\ k.rounds <= MaxTicksRx /\ k.seq \in Nat
  BY BoundsNat DEF ClientRecord
<1>2. a \in Nat /\ MaxTicksRx \in Nat /\ k.phase \in Asking
  BY AttemptsNat, BoundsNat DEF TriesOK
<1>3. CASE k.tries + 1 < a
  <2> DEFINE j == [k EXCEPT !.waiting = FALSE, !.tries = k.tries + 1]
  <2>1. Unanswered(k) = j
    BY <1>3 DEF Unanswered
  <2>2. /\ j.tries = k.tries + 1 /\ j.phase = k.phase /\ j.rounds = k.rounds
        /\ j.seq = k.seq /\ ~j.waiting
    BY DEF ClientRecord
  <2> HIDE DEF j
  <2>3. j.tries <= a /\ j.tries > k.tries /\ j.rounds <= MaxTicksRx
    BY <1>1, <1>2, <1>3, <2>2
  <2>4. QED
    BY <2>1, <2>2, <2>3 DEF Progress, TriesOK, Advances, Closer
<1>4. CASE ~(k.tries + 1 < a) /\ k.phase = "receiving" /\ k.rounds + 1 <= MaxTicksRx
  <2> DEFINE j == Unanswered(k)
  <2>1. j = [Back(k) EXCEPT !.tries = 0, !.rounds = k.rounds + 1]
    BY <1>4 DEF Unanswered, Back, ClientRecord
  <2>2. /\ j.tries = 0 /\ j.phase = k.phase /\ j.rounds = k.rounds + 1
        /\ j.seq = k.seq /\ ~j.waiting
    BY <2>1 DEF Back, ClientRecord
  <2> HIDE DEF j
  <2>3. j.tries <= a /\ j.rounds > k.rounds /\ j.rounds <= MaxTicksRx
    BY <1>1, <1>2, <1>4, <2>2
  <2>4. Progress(k, j)
    BY <2>2, <2>3 DEF Progress, TriesOK, Advances, Closer
  <2>5. QED
    BY <2>4 DEF j
<1>5. CASE /\ ~(k.tries + 1 < a)
           /\ k.phase # "receiving" \/ ~(k.rounds + 1 <= MaxTicksRx)
  <2>1. Unanswered(k).phase = "notice" /\ ~Unanswered(k).waiting
    BY <1>5 DEF Unanswered, Back, ClientRecord
  <2>2. QED
    BY <1>2, <2>1 DEF Progress, TriesOK, Advances, Asking
<1>6. QED
  BY <1>3, <1>4, <1>5

LEMMA RequestGoesOut ==
  ASSUME NEW k \in ClientRecord, TriesOK(k), ~k.waiting, k.phase \in Asking,
         k.addr # "none"
  PROVE  Progress(k, [k EXCEPT !.waiting = TRUE])
<1> DEFINE j == [k EXCEPT !.waiting = TRUE]
<1>1. /\ j.tries = k.tries /\ j.phase = k.phase /\ j.rounds = k.rounds
      /\ j.seq = k.seq /\ j.waiting /\ j.addr = k.addr
  BY DEF ClientRecord
<1>2. k.rounds <= MaxTicksRx
  BY BoundsNat DEF ClientRecord
<1> HIDE DEF j
<1>3. Progress(k, j)
  BY <1>1, <1>2 DEF Progress, TriesOK, Advances, Closer
<1>4. QED
  BY <1>3 DEF j

(* Finding the buddy selected starts the attempts of a round.               *)
LEMMA BuddyFound ==
  ASSUME NEW k \in ClientRecord, TriesOK(k), k.phase \in Asking, k.addr = "none",
         NEW a \in {"known", "blank"}
  PROVE  Progress(k, [k EXCEPT !.addr = a])
<1> DEFINE j == [k EXCEPT !.addr = a]
<1>1. /\ j.tries = k.tries /\ j.phase = k.phase /\ j.rounds = k.rounds
      /\ j.seq = k.seq /\ j.waiting = k.waiting /\ j.addr = a
  BY DEF ClientRecord
<1>2. k.rounds <= MaxTicksRx
  BY BoundsNat DEF ClientRecord
<1> HIDE DEF j
<1>3. Progress(k, j)
  BY <1>1, <1>2 DEF Progress, TriesOK, Advances, Closer
<1>4. QED
  BY <1>3 DEF j

LEMMA AnswerComes ==
  ASSUME NEW k \in ClientRecord, TriesOK(k), k.phase # "idle", NEW j, ~j.waiting,
         \/ j.phase = "idle"
         \/ k.phase # "receiving" /\ j.phase = "receiving" /\ j.tries = 0
         \/ k.phase = "receiving" /\ j.phase = "receiving" /\ j.tries = 0
              /\ j.seq = k.seq + 1
  PROVE  Progress(k, j)
<1>1. k.seq + 1 > k.seq /\ Attempts("receiving") \in Nat
  BY AttemptsNat DEF ClientRecord, Asking
<1>2. QED
  BY <1>1 DEF Progress, TriesOK, Advances, Asking

LEMMA HearProgress ==
  ASSUME TypeOK, NEW c \in Client, TriesOK(client[c]), NEW m, Hear(c, m)
  PROVE  \E j : client' = [client EXCEPT ![c] = j] /\ Progress(client[c], j)
<1> DEFINE k == client[c]
<1>1. k \in ClientRecord
  BY DEF TypeOK
<1>2. CASE ListReceived(c, m)
  <2> DEFINE j == [k EXCEPT !.phase = "idle", !.addr = "none", !.waiting = FALSE,
                            !.listed = TRUE]
  <2>1. client' = [client EXCEPT ![c] = j] /\ k.phase # "idle"
    BY <1>2 DEF ListReceived
  <2>2. j.phase = "idle" /\ ~j.waiting
    BY <1>1 DEF ClientRecord
  <2> HIDE DEF j
  <2>3. QED
    BY <1>1, <2>1, <2>2, AnswerComes
<1>3. CASE LockReceived(c, m)
  <2> DEFINE j == [k EXCEPT !.phase = "receiving", !.addr = "none", !.waiting = FALSE, !.tries = 0,
                            !.rounds = 0, !.seq = SeqData, !.denied = (m.type = "deny"),
                            !.written = <<>>, !.closedBy = 0, !.outcome = "none"]
  <2>1. client' = [client EXCEPT ![c] = j] /\ k.phase = "locking"
    BY <1>3 DEF LockReceived
  <2>2. j.phase = "receiving" /\ j.tries = 0 /\ ~j.waiting
    BY <1>1 DEF ClientRecord
  <2> HIDE DEF j
  <2>3. QED
    BY <1>1, <2>1, <2>2, AnswerComes
<1>4. CASE BlockReceived(c, m)
  <2> DEFINE x == [k EXCEPT !.phase = "idle", !.addr = "none", !.waiting = FALSE, !.seq = k.seq + 1,
                            !.outcome = "crashed"]
             y == [k EXCEPT !.addr = "none", !.waiting = FALSE, !.tries = 0, !.rounds = 0,
                            !.seq = k.seq + 1,
                            !.written = Append(k.written, [file |-> m.file,
                                          block |-> m.block, transfer |-> m.transfer])]
             j == IF Size[k.file] = 1 THEN x ELSE y
  <2>1. client' = [client EXCEPT ![c] = j] /\ k.phase = "receiving"
    BY <1>4 DEF BlockReceived
  <2>2. x.phase = "idle" /\ ~x.waiting
    BY <1>1 DEF ClientRecord
  <2>3. y.phase = k.phase /\ y.tries = 0 /\ y.seq = k.seq + 1 /\ ~y.waiting
    BY <1>1 DEF ClientRecord
  <2> HIDE DEF x, y
  <2>4. /\ ~j.waiting
        /\ \/ j.phase = "idle"
           \/ j.phase = "receiving" /\ j.tries = 0 /\ j.seq = k.seq + 1
    BY <2>1, <2>2, <2>3
  <2> HIDE DEF j
  <2>5. QED
    BY <1>1, <2>1, <2>4, AnswerComes
<1>5. CASE EofReceived(c, m)
  <2> DEFINE j == [k EXCEPT !.phase = "idle", !.addr = "none", !.waiting = FALSE,
                            !.closedBy = m.transfer, !.outcome = "complete"]
  <2>1. client' = [client EXCEPT ![c] = j] /\ k.phase = "receiving"
    BY <1>5 DEF EofReceived
  <2>2. j.phase = "idle" /\ ~j.waiting
    BY <1>1 DEF ClientRecord
  <2> HIDE DEF j
  <2>3. QED
    BY <1>1, <2>1, <2>2, AnswerComes
<1>6. QED
  BY <1>2, <1>3, <1>4, <1>5 DEF Hear

LEMMA ClientProgress ==
  ASSUME TypeOK, NEW c \in Client, TriesOK(client[c]),
         \/ SelectBuddy(c)
         \/ \E f \in File : Download(c, f)
         \/ Call(c)
         \/ Dismiss(c)
         \/ ClientStep(c)
  PROVE  \E j : client' = [client EXCEPT ![c] = j] /\ Progress(client[c], j)
<1> DEFINE k == client[c]
<1>1. k \in ClientRecord /\ Addresses \subseteq {"known", "blank"}
  BY FileTransferAssumption DEF TypeOK, FileTransferAssumption
<1>2. CASE SelectBuddy(c)
  <2>1. PICK a \in Addresses :
          client' = [client EXCEPT ![c] = [@ EXCEPT !.phase = "listing", !.addr = a,
                                                    !.seq = SeqFileRequest, !.tries = 0]]
    BY <1>2 DEF SelectBuddy
  <2> DEFINE j == [k EXCEPT !.phase = "listing", !.addr = a, !.seq = SeqFileRequest,
                            !.tries = 0]
  <2>2. client' = [client EXCEPT ![c] = j] /\ k.phase = "idle"
    BY <1>2, <2>1 DEF SelectBuddy
  <2>3. j.phase = "listing" /\ j.tries = 0 /\ j.waiting = k.waiting
    BY <1>1 DEF ClientRecord
  <2> HIDE DEF j
  <2>4. QED
    BY <2>2, <2>3, FreshStart DEF TriesOK, Asking
<1>3. CASE \E f \in File : Download(c, f)
  <2>1. PICK f \in File : Download(c, f)
    BY <1>3
  <2>2. PICK a \in Addresses :
          client' = [client EXCEPT ![c] = [@ EXCEPT !.phase = "locking", !.addr = a,
                       !.seq = SeqLock, !.tries = 0, !.file = f,
                       !.downloads = client[c].downloads + 1]]
    BY <2>1 DEF Download
  <2> DEFINE j == [k EXCEPT !.phase = "locking", !.addr = a, !.seq = SeqLock, !.tries = 0,
                            !.file = f, !.downloads = k.downloads + 1]
  <2>3. client' = [client EXCEPT ![c] = j] /\ k.phase = "idle"
    BY <2>1, <2>2 DEF Download
  <2>4. j.phase = "locking" /\ j.tries = 0 /\ j.waiting = k.waiting
    BY <1>1 DEF ClientRecord
  <2> HIDE DEF j
  <2>5. QED
    BY <2>3, <2>4, FreshStart DEF TriesOK, Asking
<1>4. CASE Ask(c)
  <2>1. client' = [client EXCEPT ![c] = [k EXCEPT !.waiting = TRUE]]
        /\ k.phase \in Asking /\ ~k.waiting /\ k.addr # "none"
    BY <1>4 DEF Ask, Asking
  <2>2. QED
    BY <1>1, <2>1, RequestGoesOut
<1>5. CASE Miss(c)
  <2>1. client' = [client EXCEPT ![c] = Unanswered(k)] /\ k.waiting
    BY <1>5 DEF Miss
  <2>2. QED
    BY <1>1, <2>1, AttemptFails
<1>6. CASE \E m \in net : Hear(c, m)
  BY <1>6, HearProgress
<1>7. CASE Call(c)
  <2> DEFINE x == [k EXCEPT !.phase = "idle", !.outcome = "crashed"]
  <2>1. k.phase = "receiving" /\ k.addr = "none"
    BY <1>7 DEF Call
  <2>2. CASE client' = [client EXCEPT ![c] = x]
    <3>1. x.phase = "idle" /\ x.waiting = k.waiting
      BY <1>1 DEF ClientRecord
    <3> HIDE DEF x
    <3>2. ~x.waiting
      BY <2>1, <3>1 DEF TriesOK
    <3>3. QED
      BY <1>1, <2>1, <2>2, <3>1, <3>2, AnswerComes
  <2>3. ASSUME NEW a \in Addresses, client' = [client EXCEPT ![c].addr = a]
        PROVE  \E j : client' = [client EXCEPT ![c] = j] /\ Progress(client[c], j)
    <3>1. Progress(k, [k EXCEPT !.addr = a])
      BY <1>1, <2>1, BuddyFound DEF Asking
    <3>2. QED
      BY <2>3, <3>1
  <2>4. QED
    BY <1>7, <2>2, <2>3 DEF Call
<1>8. CASE Dismiss(c)
  <2> DEFINE j == [k EXCEPT !.phase = "idle"]
  <2>1. client' = [client EXCEPT ![c] = j] /\ k.phase = "notice"
    BY <1>8 DEF Dismiss
  <2>2. j.phase = "idle" /\ j.waiting = k.waiting
    BY <1>1 DEF ClientRecord
  <2> HIDE DEF j
  <2>3. ~j.waiting
    BY <2>1, <2>2 DEF TriesOK, Asking
  <2>4. QED
    BY <1>1, <2>1, <2>2, <2>3, AnswerComes
<1>9. QED
  BY <1>2, <1>3, <1>4, <1>5, <1>6, <1>7, <1>8 DEF ClientStep

Tried == \A c \in Client : TriesOK(client[c])

LEMMA TriedStep ==
  ASSUME TypeOK, Tried, [Next]_vars, NEW c \in Client
  PROVE  Progress(client[c], client'[c])
<1>1. ASSUME NEW d \in Client,
             \/ SelectBuddy(d)
             \/ \E f \in File : Download(d, f)
             \/ Call(d)
             \/ Dismiss(d)
             \/ ClientStep(d)
      PROVE  Progress(client[c], client'[c])
  <2>1. TriesOK(client[d])
    BY DEF Tried
  <2>2. PICK j : client' = [client EXCEPT ![d] = j] /\ Progress(client[d], j)
    BY <1>1, <2>1, ClientProgress
  <2>3. CASE c = d
    <3>1. client'[c] = j
      BY <2>2, <2>3 DEF TypeOK
    <3>2. QED
      BY <2>2, <2>3, <3>1
  <2>4. CASE c # d
    <3>1. client'[c] = client[c]
      BY <2>2, <2>4 DEF TypeOK
    <3>2. QED
      BY <3>1 DEF Tried, Progress, Advances
  <2>5. QED
    BY <2>3, <2>4
<1>2. ASSUME \/ \E m \in net : SendFileList(m) \/ LockFtp(m)
             \/ ServerStep
             \/ CloseNotice
             \/ UNCHANGED vars
      PROVE  Progress(client[c], client'[c])
  <2>1. client' = client
    BY <1>2 DEF SendFileList, LockFtp, ServerStep, Serve, Overhear, Timeout,
                  CloseNotice, vars
  <2>2. QED
    BY <2>1 DEF Tried, Progress, Advances
<1>3. CASE \E d \in Client : SelectBuddy(d)
  BY <1>1, <1>3
<1>4. CASE \E d \in Client, f \in File : Download(d, f)
  BY <1>1, <1>4
<1>5. CASE \E d \in Client : Call(d) \/ Dismiss(d) \/ ClientStep(d)
  BY <1>1, <1>5
<1>6. QED
  BY <1>2, <1>3, <1>4, <1>5 DEF Next, NoBuddy

(* Between two answers of the other side, which move a dialogue on to the   *)
(* next number, every step of it is a further round or attempt, the buddy   *)
(* found for a round or the wait after a transmission, and the counts are   *)
(* bounded: only finitely many such steps lie between two numbers.  Turns   *)
(* of the loop that find no buddy change nothing and are not bounded.       *)
THEOREM RequestsEnd == Spec => RequestsAdvance
<1>1. Init => Tried
  BY DEF Init, Tried, TriesOK, Asking, IdleClient
<1>2. TypeOK /\ Tried /\ [Next]_vars
        => Tried' /\ \A c \in Client : Advances(client[c], client'[c])
  <2>1. ASSUME TypeOK, Tried, [Next]_vars
        PROVE  Tried'
    BY <2>1, TriedStep DEF Tried, TriesOK, Progress
  <2>2. QED
    BY <2>1, TriedStep DEF Progress
<1>3. QED
  BY <1>1, <1>2, TransferTyped, PTL DEF Spec, RequestsAdvance
------------------------------------------------------------------------------
(* The file the user gets                                                  *)

Shares == [g \in 1 .. Len(log) |-> log[g].file]
CopyList == [c \in Client |-> CopyOf(client[c])]
LengthOf == [f \in File |-> Blocks(f)]

LEMMA SameShares ==
  ASSUME Len(log') = Len(log), \A g \in 1 .. Len(log) : log'[g].file = log[g].file
  PROVE  Shares' = Shares
BY DEF Shares

LEMMA SameCopies ==
  ASSUME client' = client
  PROVE  CopyList' = CopyList
BY DEF CopyList

LEMMA OneCopy ==
  ASSUME TypeOK, NEW c \in Client, NEW j, client' = [client EXCEPT ![c] = j]
  PROVE  CopyList' = [CopyList EXCEPT ![c] = CopyOf(j)]
<1>1. \A d \in Client : client'[d] = IF d = c THEN j ELSE client[d]
  BY DEF TypeOK
<1>2. CopyList' = [d \in Client |-> CopyOf(client'[d])]
  BY DEF CopyList, CopyOf
<1>3. \A d \in Client :
        CopyOf(client'[d]) = IF d = c THEN CopyOf(j) ELSE CopyOf(client[d])
  BY <1>1
<1>4. QED
  BY <1>2, <1>3 DEF CopyList

LEMMA CopyListAt ==
  ASSUME NEW c \in Client
  PROVE  CopyList[c] = CopyOf(client[c])
BY DEF CopyList

(* A step of a client that does not touch its output file.                  *)
LEMMA FileUntouched ==
  ASSUME TypeOK, NEW c \in Client, NEW j, client' = [client EXCEPT ![c] = j],
         UNCHANGED log, CopyOf(j) = CopyOf(client[c])
  PROVE  UNCHANGED <<Shares, CopyList>>
<1>1. CopyList' = [CopyList EXCEPT ![c] = CopyList[c]]
  BY OneCopy, CopyListAt
<1>2. CopyList' = CopyList
  <2>1. CopyList = [d \in Client |-> CopyList[d]]
    BY DEF CopyList
  <2> HIDE DEF CopyList
  <2>2. QED
    BY <1>1, <2>1
<1>3. QED
  BY <1>2, SameShares

LEMMA FieldsOfCopy ==
  ASSUME NEW k, k.phase = "receiving"
  PROVE  CopyOf(k).state = "open" /\ CopyOf(k).written = k.written
BY DEF CopyOf

LEMMA AbandonStep ==
  ASSUME TypeOK, NEW c \in Client, NEW j, client' = [client EXCEPT ![c] = j],
         UNCHANGED log, client[c].phase = "receiving", j.phase # "receiving",
         j.written = client[c].written, j.closedBy = client[c].closedBy,
         j.outcome \in {"gaveUp", "crashed"}
  PROVE  Upper!Next
<1> DEFINE why == j.outcome
           x == CopyOf(client[c])
<1>1. CopyList' = [CopyList EXCEPT ![c] = CopyOf(j)]
  BY OneCopy
<1>2. CopyOf(j) = [x EXCEPT !.state = why]
  BY DEF CopyOf
<1>3. CopyList[c] = x /\ x.state = "open"
  BY FieldsOfCopy, CopyListAt
<1>4. Shares' = Shares
  BY SameShares
<1>5. why \in {"gaveUp", "crashed"}
  OBVIOUS
<1> HIDE DEF x, why
<1>6. CopyList' = [CopyList EXCEPT ![c] = [CopyList[c] EXCEPT !.state = why]]
  BY <1>1, <1>2, <1>3
<1>7. Upper!Abandon(c, why)
  BY <1>3, <1>4, <1>6 DEF Upper!Abandon, Shares, CopyList
<1>8. QED
  BY <1>5, <1>7 DEF Upper!Next

LEMMA OpenStep ==
  ASSUME TypeOK, NEW c \in Client, NEW m, LockReceived(c, m), UNCHANGED log
  PROVE  Upper!Next
<1> DEFINE k == client[c]
           j == [k EXCEPT !.phase = "receiving", !.addr = "none", !.waiting = FALSE, !.tries = 0,
                          !.rounds = 0, !.seq = SeqData, !.denied = (m.type = "deny"),
                          !.written = <<>>, !.closedBy = 0, !.outcome = "none"]
           new == [state |-> "open", written |-> <<>>, closedBy |-> 0]
<1>1. k \in ClientRecord
  BY DEF TypeOK
<1>2. client' = [client EXCEPT ![c] = j] /\ k.phase = "locking"
  BY DEF LockReceived
<1>3. j.phase = "receiving" /\ j.written = <<>> /\ j.closedBy = 0
  BY <1>1 DEF ClientRecord
<1>4. CopyOf(k).state # "open"
  BY <1>1, <1>2 DEF CopyOf, ClientRecord
<1> HIDE DEF j
<1>5. CopyOf(j) = new
  BY <1>3 DEF CopyOf
<1>6. CopyList' = [CopyList EXCEPT ![c] = new]
  BY <1>2, <1>5, OneCopy
<1>7. CopyList[c].state # "open"
  BY <1>4, CopyListAt
<1>8. Shares' = Shares
  BY SameShares
<1>9. Upper!Open(c)
  BY <1>6, <1>7, <1>8 DEF Upper!Open, Shares, CopyList
<1>10. QED
  BY <1>9 DEF Upper!Next

\* Every block on its way is one of its file.
Real == \A m \in net : m.type = "data" => m.block <= Blocks(m.file)

LEMMA SharesAt ==
  ASSUME TypeOK, NEW g \in 1 .. Len(log)
  PROVE  /\ g \in DOMAIN Shares /\ Shares[g] = log[g].file
         /\ log[g].file \in File /\ LengthOf[log[g].file] = Blocks(log[g].file)
         /\ Blocks(log[g].file) \in Nat
<1>1. log[g].file \in File
  BY LogEntry DEF TypeOK
<1>2. QED
  BY <1>1, BlocksNat DEF Shares, LengthOf

LEMMA FetchStep ==
  ASSUME IInv, IInv', Real, NEW c \in Client, NEW m, Heard(c, m), BlockReceived(c, m),
         UNCHANGED log, Size[client[c].file] # 1
  PROVE  Upper!Next
<1> DEFINE k == client[c]
           w == k.written
           n == Len(w)
           g == m.transfer
           b == m.block
           e == [file |-> m.file, block |-> b, transfer |-> g]
           j == [k EXCEPT !.addr = "none", !.waiting = FALSE, !.tries = 0, !.rounds = 0,
                          !.seq = k.seq + 1, !.written = Append(w, e)]
<1>1. k \in ClientRecord /\ TypeOK
  BY ClientFacts DEF IInv
<1>2. w \in Seq(Written) /\ n \in Nat
  BY <1>1 DEF ClientRecord
<1>3. client' = [client EXCEPT ![c] = j] /\ k.phase = "receiving" /\ m.type = "data"
      /\ m \in net
  BY DEF BlockReceived, Heard
<1>4. j.phase = "receiving" /\ j.written = Append(w, e) /\ j.closedBy = k.closedBy
  BY <1>1, <1>3 DEF ClientRecord
<1>5. Answered(m, log) /\ m \in Datagram
  BY <1>3 DEF IInv, InFlight, TypeOK
<1>6. g \in 1 .. Len(log) /\ m.file = log[g].file /\ b \in Nat /\ b > 0
  BY <1>3, <1>5 DEF Answered, Datagram
<1>7. /\ g \in DOMAIN Shares /\ Shares[g] = m.file /\ m.file \in File
      /\ LengthOf[m.file] = Blocks(m.file) /\ Blocks(m.file) \in Nat
  BY <1>1, <1>6, SharesAt
<1>8. b \in 1 .. LengthOf[Shares[g]]
  BY <1>3, <1>6, <1>7 DEF Real
<1> HIDE DEF j
<1>9. InOrder(j, log)
  <2>1. client'[c] = j
    BY <1>1, <1>3 DEF TypeOK
  <2>2. InOrder(client'[c], log')
    BY DEF IInv, InOrder, FromOneTransfer
  <2>3. QED
    BY <2>1, <2>2
<1>10. ASSUME Upper!OnlyFrom(g, w)
       PROVE  b = Upper!Due(Shares[g], n)
  <2>1. e.file = m.file /\ e.block = b /\ e.transfer = g
    OBVIOUS
  <2> HIDE DEF e
  <2>2. Len(j.written) = n + 1 /\ j.written[n + 1] = e
        /\ \A i \in 1 .. n : j.written[i] = w[i]
    BY <1>2, <1>4
  <2>3. \A i \in 1 .. n + 1 : j.written[i].transfer = g
    BY <1>2, <1>10, <2>1, <2>2 DEF Upper!OnlyFrom
  <2>4. FromOneTransfer(j)
    BY <2>2, <2>3 DEF FromOneTransfer
  <2>5. j.written[n + 1].block = BlockAt(j.written[n + 1].file, n + 1)
    <3>1. n + 1 \in 1 .. Len(j.written)
      BY <1>2, <2>2
    <3>2. \A i \in 1 .. Len(j.written) :
            j.written[i].block = BlockAt(j.written[i].file, i)
      BY <1>9, <2>4 DEF InOrder
    <3>3. QED
      BY <3>1, <3>2
  <2>6. b = BlockAt(m.file, n + 1)
    BY <2>1, <2>2, <2>5
  <2>7. QED
    BY <1>2, <1>7, <2>6 DEF BlockAt, Upper!Due, LengthOf
<1> DEFINE x == CopyOf(k)
           w2 == Append(w, e)
<1>11. CopyList[c] = x /\ x.state = "open" /\ x.written = w
  BY <1>3, FieldsOfCopy, CopyListAt
<1>12. CopyOf(j) = [x EXCEPT !.written = w2]
  <2> DEFINE y == k.closedBy
  <2>1. x = [state |-> "open", written |-> w, closedBy |-> y]
    BY <1>3 DEF CopyOf
  <2>2. CopyOf(j) = [state |-> "open", written |-> w2, closedBy |-> y]
    BY <1>4 DEF CopyOf
  <2> HIDE DEF x, w, w2, y
  <2>3. QED
    BY <2>1, <2>2
<1>13. w2 = Append(w, [file |-> Shares[g], block |-> b, transfer |-> g])
  BY <1>7
<1> HIDE DEF x, w2, e, w, b, g
<1>14. CopyList' = [CopyList EXCEPT ![c] = [CopyList[c] EXCEPT !.written = w2]]
  BY <1>1, <1>3, <1>11, <1>12, OneCopy
<1>15. Shares' = Shares
  BY SameShares
<1>16. Upper!Fetch(c, g, b)
  BY <1>10, <1>11, <1>13, <1>14, <1>15 DEF Upper!Fetch, Shares, CopyList
<1>17. QED
  BY <1>7, <1>8, <1>16 DEF Upper!Next, Shares, LengthOf, g

LEMMA FinishStep ==
  ASSUME IInv, IInv', NEW c \in Client, NEW m, Heard(c, m), EofReceived(c, m),
         UNCHANGED log
  PROVE  Upper!Next
<1> DEFINE k == client[c]
           w == k.written
           g == m.transfer
           j == [k EXCEPT !.phase = "idle", !.addr = "none", !.waiting = FALSE,
                          !.closedBy = g, !.outcome = "complete"]
           new == [state |-> "complete", written |-> w, closedBy |-> g]
<1>1. k \in ClientRecord /\ TypeOK
  BY ClientFacts DEF IInv
<1>2. client' = [client EXCEPT ![c] = j] /\ k.phase = "receiving"
  BY DEF EofReceived
<1>3. j.phase = "idle" /\ j.written = w /\ j.closedBy = g /\ j.outcome = "complete"
  BY <1>1 DEF ClientRecord
<1> HIDE DEF j
<1>4. Whole(j, log)
  <2>1. client'[c] = j
    BY <1>1, <1>2 DEF TypeOK
  <2>2. Whole(client'[c], log')
    BY DEF IInv, Whole
  <2>3. QED
    BY <2>1, <2>2
<1>5. /\ g \in 1 .. Len(log)
      /\ Upper!OnlyFrom(g, w) => Len(w) >= Blocks(log[g].file)
  BY <1>3, <1>4 DEF Whole, Upper!OnlyFrom
<1>6. g \in DOMAIN Shares /\ LengthOf[Shares[g]] = Blocks(log[g].file)
  BY <1>1, <1>5, SharesAt
<1>7. CopyOf(j) = new
  BY <1>3 DEF CopyOf
<1>8. CopyList[c].state = "open" /\ CopyList[c].written = w
  BY <1>2, FieldsOfCopy, CopyListAt
<1>9. CopyList' = [CopyList EXCEPT ![c] = new]
  BY <1>1, <1>2, <1>7, OneCopy
<1>10. Shares' = Shares
  BY SameShares
<1> HIDE DEF w, g
<1>11. Upper!Finish(c, g)
  BY <1>5, <1>6, <1>8, <1>9, <1>10 DEF Upper!Finish, Shares, CopyList, LengthOf
<1>12. QED
  BY <1>6, <1>11 DEF Upper!Next, Shares

(* Neither requests nor their repetitions make a block up.                  *)
LEMMA RealKept ==
  ASSUME Real, \A m \in net' : m \in net \/ Harmless(m)
  PROVE  Real'
BY DEF Real, Harmless

LEMMA ReplyReal ==
  ASSUME IInv, Real, NEW m \in net, serving, Reply(m)
  PROVE  Real'
<1> DEFINE length == IF ~InSequence(m.seq) THEN 0
                     ELSE IF tx.block < Blocks(tx.file) THEN 1 ELSE -1
           block  == IF length = 1 THEN tx.block + 1 ELSE tx.block
<1>1. /\ tx \in [file : File, block : Nat, prev : Nat, length : -1 .. 1, ticks : Nat]
      /\ TypeOK /\ tx.block <= Blocks(tx.file)
  BY DEF IInv, TypeOK, Sending
<1>2. tx.block \in Nat /\ Blocks(tx.file) \in Nat
  BY <1>1, BlocksNat
<1>3. length \in -1 .. 1 /\ block \in Nat /\ block <= Blocks(tx.file)
  BY <1>1, <1>2
<1>4. Exchange({m}, Answer(m, length, block))
  BY DEF Reply
<1> HIDE DEF length, block
<1>5. \A d \in net' : d \in net \/ d \in Answer(m, length, block)
  BY <1>4, ExchangeNet
<1>6. \A d \in Answer(m, length, block) : d.type = "data" => d.block <= Blocks(d.file)
  <2> TAKE d \in Answer(m, length, block)
  <2>1. /\ d.file = tx.file
        /\ \/ d.type = "data" /\ d.block = block
           \/ d.type = "eof"
    BY <1>1, <1>3, AnswerFields
  <2>2. QED
    BY <1>3, <2>1
<1>7. QED
  BY <1>5, <1>6 DEF Real

LEMMA EofReceivedHarmless ==
  ASSUME IInv, NEW c \in Client, NEW m \in net, EofReceived(c, m)
  PROVE  \A d \in net' : d \in net \/ Harmless(d)
<1>1. \A d \in net' : d \in net \/ d \in Copied([m EXCEPT !.type = "eofAck"])
  BY ExchangeNet DEF EofReceived
<1>2. QED
  BY <1>1, RetypedHarmless

LEMMA RealStep ==
  ASSUME IInv, Real, [Next]_vars
  PROVE  Real'
<1>1. ASSUME NEW c \in Client, Ask(c)
      PROVE  Real'
  BY <1>1, AskHarmless, RealKept
<1>2. ASSUME NEW c \in Client, NEW m \in net, Hear(c, m)
      PROVE  Real'
  BY <1>2, EofReceivedHarmless, RealKept
     DEF Hear, ListReceived, LockReceived, BlockReceived
<1>3. ASSUME NEW c \in Client, Miss(c)
      PROVE  Real'
  BY <1>3, RealKept DEF Miss
<1>4. ASSUME NEW m \in net, SendFileList(m) \/ LockFtp(m)
      PROVE  Real'
  <2>1. \A d \in net' :
          \/ d \in net
          \/ \E t \in {"listAck", "approve", "deny"} :
               d \in Copied([m EXCEPT !.type = t])
    BY <1>4, ExchangeNet DEF SendFileList, LockFtp, Approve, Deny
  <2>2. \A t \in {"listAck", "approve", "deny"} :
          \A d \in Copied([m EXCEPT !.type = t]) : Harmless(d)
    BY RetypedHarmless
  <2>3. QED
    BY <2>1, <2>2, RealKept
<1>5. CASE ServerStep
  <2>1. CASE Timeout
    BY <2>1 DEF Timeout, Die, Real
  <2>2. ASSUME NEW m \in net, Serve(m)
        PROVE  Real'
    <3>1. CASE Die
      BY <3>1 DEF Die, Real
    <3>2. CASE Reply(m)
      BY <2>2, <3>2, ReplyReal DEF Serve
    <3>3. QED
      BY <2>2, <3>1, <3>2 DEF Serve
  <2>3. ASSUME NEW m \in net, Overhear(m)
        PROVE  Real'
    BY <2>3, RealKept DEF Overhear
  <2>4. QED
    BY <1>5, <2>1, <2>2, <2>3 DEF ServerStep
<1>6. CASE UNCHANGED net
  BY <1>6 DEF Real
<1>7. QED
  BY <1>1, <1>2, <1>3, <1>4, <1>5, <1>6
     DEF Next, ClientStep, SelectBuddy, Download, Call, NoBuddy, Dismiss, CloseNotice, vars

LEMMA HearCopies ==
  ASSUME IInv, IInv', Real, NEW c \in Client, NEW m, Hear(c, m)
  PROVE  Upper!Next \/ UNCHANGED <<Shares, CopyList>>
<1> DEFINE k == client[c]
<1>1. /\ k \in ClientRecord /\ TypeOK /\ UNCHANGED log
      /\ Heard(c, m)
  BY ClientFacts DEF IInv, Hear
<1>2. CASE ListReceived(c, m)
  <2> DEFINE j == [k EXCEPT !.phase = "idle", !.addr = "none", !.waiting = FALSE,
                            !.listed = TRUE]
  <2>1. client' = [client EXCEPT ![c] = j] /\ k.phase = "listing"
    BY <1>2 DEF ListReceived
  <2>2. CopyOf(j) = CopyOf(k)
    BY <1>1, <2>1 DEF CopyOf, ClientRecord
  <2> HIDE DEF j
  <2>3. QED
    BY <1>1, <2>1, <2>2, FileUntouched
<1>3. CASE LockReceived(c, m)
  BY <1>1, <1>3, OpenStep
<1>4. CASE BlockReceived(c, m) /\ Size[k.file] # 1
  BY <1>1, <1>4, FetchStep
<1>5. CASE BlockReceived(c, m) /\ Size[k.file] = 1
  <2> DEFINE j == [k EXCEPT !.phase = "idle", !.addr = "none", !.waiting = FALSE, !.seq = k.seq + 1,
                            !.outcome = "crashed"]
  <2>1. client' = [client EXCEPT ![c] = j] /\ k.phase = "receiving"
    BY <1>5 DEF BlockReceived
  <2>2. /\ j.phase = "idle" /\ j.written = k.written /\ j.closedBy = k.closedBy
        /\ j.outcome = "crashed"
    BY <1>1 DEF ClientRecord
  <2> HIDE DEF j
  <2>3. QED
    BY <1>1, <2>1, <2>2, AbandonStep
<1>6. CASE EofReceived(c, m)
  BY <1>1, <1>6, FinishStep
<1>7. QED
  BY <1>2, <1>3, <1>4, <1>5, <1>6 DEF Hear

LEMMA MissCopies ==
  ASSUME TypeOK, NEW c \in Client, TriesOK(client[c]), Miss(c)
  PROVE  Upper!Next \/ UNCHANGED <<Shares, CopyList>>
<1> DEFINE k == client[c]
           j == Unanswered(k)
<1>1. k \in ClientRecord /\ UNCHANGED log /\ client' = [client EXCEPT ![c] = j]
      /\ k.phase \in Asking
  BY DEF TypeOK, Miss, TriesOK
<1>2. CASE j.phase = k.phase
  <2>1. j.written = k.written /\ j.closedBy = k.closedBy /\ j.outcome = k.outcome
    BY <1>1, <1>2 DEF Unanswered, Back, Asking, ClientRecord
  <2>2. CopyOf(j) = CopyOf(k)
    BY <1>2, <2>1 DEF CopyOf
  <2> HIDE DEF j
  <2>3. QED
    BY <1>1, <2>2, FileUntouched
<1>3. CASE j.phase # k.phase /\ k.phase # "receiving"
  <2>1. j.written = k.written /\ j.closedBy = k.closedBy /\ j.outcome = k.outcome
        /\ j.phase = "notice"
    BY <1>1, <1>3 DEF Unanswered, Back, ClientRecord
  <2>2. CopyOf(j) = CopyOf(k)
    BY <1>3, <2>1 DEF CopyOf
  <2> HIDE DEF j
  <2>3. QED
    BY <1>1, <2>2, FileUntouched
<1>4. CASE j.phase # k.phase /\ k.phase = "receiving"
  <2>1. j.written = k.written /\ j.closedBy = k.closedBy /\ j.outcome = "gaveUp"
        /\ j.phase = "notice"
    BY <1>1, <1>4 DEF Unanswered, Back, ClientRecord
  <2> HIDE DEF j
  <2>2. QED
    BY <1>1, <1>4, <2>1, AbandonStep
<1>5. QED
  BY <1>2, <1>3, <1>4

(* A round begins, or its thread ends over a selection that is gone.        *)
LEMMA CallCopies ==
  ASSUME TypeOK, NEW c \in Client, Call(c)
  PROVE  Upper!Next \/ UNCHANGED <<Shares, CopyList>>
<1> DEFINE k == client[c]
           x == [k EXCEPT !.phase = "idle", !.outcome = "crashed"]
<1>1. k \in ClientRecord /\ UNCHANGED log /\ k.phase = "receiving"
  BY DEF TypeOK, Call
<1>2. CASE client' = [client EXCEPT ![c] = x]
  <2>1. /\ x.phase = "idle" /\ x.written = k.written /\ x.closedBy = k.closedBy
        /\ x.outcome = "crashed"
    BY <1>1 DEF ClientRecord
  <2> HIDE DEF x
  <2>2. QED
    BY <1>1, <1>2, <2>1, AbandonStep
<1>3. ASSUME NEW a \in Addresses, client' = [client EXCEPT ![c].addr = a]
      PROVE  UNCHANGED <<Shares, CopyList>>
  <2> DEFINE j == [k EXCEPT !.addr = a]
  <2>1. client' = [client EXCEPT ![c] = j]
    BY <1>3
  <2>2. CopyOf(j) = CopyOf(k)
    BY <1>1 DEF CopyOf, ClientRecord
  <2> HIDE DEF j
  <2>3. QED
    BY <1>1, <2>1, <2>2, FileUntouched
<1>4. QED
  BY <1>2, <1>3 DEF Call

(* Asking for a file list, for the lock or for a block writes nothing.      *)
LEMMA AskingCopies ==
  ASSUME TypeOK, NEW c \in Client,
         SelectBuddy(c) \/ (\E f \in File : Download(c, f)) \/ Ask(c) \/ Dismiss(c)
  PROVE  UNCHANGED <<Shares, CopyList>>
<1> DEFINE k == client[c]
<1>1. k \in ClientRecord
  BY DEF TypeOK
<1>2. CASE SelectBuddy(c)
  <2>0. PICK a \in Addresses :
          client' = [client EXCEPT ![c] = [@ EXCEPT !.phase = "listing", !.addr = a,
                                                    !.seq = SeqFileRequest, !.tries = 0]]
    BY <1>2 DEF SelectBuddy
  <2> DEFINE j == [k EXCEPT !.phase = "listing", !.addr = a, !.seq = SeqFileRequest,
                            !.tries = 0]
  <2>1. client' = [client EXCEPT ![c] = j] /\ UNCHANGED log /\ k.phase = "idle"
    BY <1>2, <2>0 DEF SelectBuddy
  <2>2. CopyOf(j) = CopyOf(k)
    BY <1>1, <2>1 DEF CopyOf, ClientRecord
  <2> HIDE DEF j
  <2>3. QED
    BY <2>1, <2>2, FileUntouched
<1>3. CASE \E f \in File : Download(c, f)
  <2>1. PICK f \in File : Download(c, f)
    BY <1>3
  <2>0. PICK a \in Addresses :
          client' = [client EXCEPT ![c] = [@ EXCEPT !.phase = "locking", !.addr = a,
                       !.seq = SeqLock, !.tries = 0, !.file = f,
                       !.downloads = client[c].downloads + 1]]
    BY <2>1 DEF Download
  <2> DEFINE j == [k EXCEPT !.phase = "locking", !.addr = a, !.seq = SeqLock, !.tries = 0,
                            !.file = f, !.downloads = k.downloads + 1]
  <2>2. client' = [client EXCEPT ![c] = j] /\ UNCHANGED log /\ k.phase = "idle"
    BY <2>0, <2>1 DEF Download
  <2>3. CopyOf(j) = CopyOf(k)
    BY <1>1, <2>2 DEF CopyOf, ClientRecord
  <2> HIDE DEF j
  <2>4. QED
    BY <2>2, <2>3, FileUntouched
<1>4. CASE Ask(c)
  <2> DEFINE j == [k EXCEPT !.waiting = TRUE]
  <2>1. client' = [client EXCEPT ![c] = j] /\ UNCHANGED log
    BY <1>4 DEF Ask
  <2>2. CopyOf(j) = CopyOf(k)
    BY <1>1 DEF CopyOf, ClientRecord
  <2> HIDE DEF j
  <2>3. QED
    BY <2>1, <2>2, FileUntouched
<1>5. CASE Dismiss(c)
  <2> DEFINE j == [k EXCEPT !.phase = "idle"]
  <2>1. client' = [client EXCEPT ![c] = j] /\ UNCHANGED log /\ k.phase = "notice"
    BY <1>5 DEF Dismiss
  <2>2. CopyOf(j) = CopyOf(k)
    BY <1>1, <2>1 DEF CopyOf, ClientRecord
  <2> HIDE DEF j
  <2>3. QED
    BY <2>1, <2>2, FileUntouched
<1>6. QED
  BY <1>2, <1>3, <1>4, <1>5

LEMMA ApproveShares ==
  ASSUME TypeOK, NEW m \in net, Approve(m), client' = client
  PROVE  Upper!Next
<1> DEFINE L == Len(log)
           f == m.file
           t == NewTransfer(f)
           longer == Append(Shares, f)
<1>1. f \in File /\ t.file = f /\ log' = Append(log, t) /\ L \in Nat
  BY DEF TypeOK, Datagram, Approve, NewTransfer
<1>2. Shares \in Seq(File) /\ Len(Shares) = L
  BY <1>1, LogEntry DEF Shares, TypeOK
<1> HIDE DEF t
<1>3. Len(log') = L + 1 /\ log'[L + 1] = t /\ \A g \in 1 .. L : log'[g] = log[g]
  BY <1>1 DEF TypeOK
<1>4. /\ longer = [g \in 1 .. L + 1 |-> longer[g]]
      /\ longer[L + 1] = f /\ \A g \in 1 .. L : longer[g] = Shares[g]
  BY <1>1, <1>2
<1>5. \A g \in 1 .. L + 1 : log'[g].file = longer[g]
  <2> TAKE g \in 1 .. L + 1
  <2>1. CASE g = L + 1
    BY <1>1, <1>3, <1>4, <2>1
  <2>2. CASE g # L + 1
    <3>1. g \in 1 .. L
      BY <1>1, <2>2
    <3>2. QED
      BY <3>1, <1>3, <1>4 DEF Shares
  <2>3. QED
    BY <2>1, <2>2
<1>6. Shares' = [g \in 1 .. L + 1 |-> log'[g].file]
  BY <1>3 DEF Shares
<1> HIDE DEF longer
<1>7. Shares' = longer
  BY <1>4, <1>5, <1>6
<1>8. CopyList' = CopyList
  BY SameCopies
<1>9. Upper!Share
  BY <1>1, <1>7, <1>8 DEF Upper!Share, Shares, CopyList, longer
<1>10. QED
  BY <1>9 DEF Upper!Next

LEMMA ReplyShares ==
  ASSUME TypeOK, NEW m, Reply(m), client' = client
  PROVE  UNCHANGED <<Shares, CopyList>>
<1> DEFINE L == Len(log)
<1>1. PICK x : log' = [log EXCEPT ![L].clean = x]
  BY DEF Reply
<1>2. log \in Seq([file : File, clean : Nat]) /\ L \in Nat
  BY DEF TypeOK
<1>3. Len(log') = Len(log) /\ \A g \in 1 .. L : log'[g].file = log[g].file
  BY <1>1, <1>2
<1>4. QED
  BY <1>3, SameShares, SameCopies

(* LifeNetFTP implements FileCopy: whatever the mesh and the other nodes    *)
(* do, an output file changes as FileCopy says and in no other way.         *)
THEOREM FileCopyImplemented == Spec => ImplementsFileCopy
<1>1. Init => Upper!Init
  <2>1. CopyOf(IdleClient) = [state |-> "none", written |-> <<>>, closedBy |-> 0]
    BY DEF CopyOf, IdleClient
  <2>2. Init => CopyList = [c \in Client |-> CopyOf(IdleClient)]
    BY DEF Init, CopyList
  <2>3. Init => Shares = <<>>
    BY DEF Init, Shares
  <2>4. QED
    BY <2>1, <2>2, <2>3 DEF Upper!Init, Shares, CopyList
<1>2. Init => Real /\ Tried
  BY DEF Init, Real, Tried, TriesOK, Asking, IdleClient
<1>3. ASSUME IInv, IInv', Real, Tried, [Next]_vars
      PROVE  Upper!Next \/ UNCHANGED <<Shares, CopyList>>
  <2>1. TypeOK
    BY <1>3 DEF IInv
  <2>2. ASSUME NEW c \in Client,
               SelectBuddy(c) \/ (\E f \in File : Download(c, f)) \/ Ask(c) \/ Dismiss(c)
        PROVE  UNCHANGED <<Shares, CopyList>>
    BY <2>1, <2>2, AskingCopies
  <2>3. ASSUME NEW c \in Client, Miss(c)
        PROVE  Upper!Next \/ UNCHANGED <<Shares, CopyList>>
    BY <1>3, <2>1, <2>3, MissCopies DEF Tried
  <2>4. ASSUME NEW c \in Client, NEW m \in net, Hear(c, m)
        PROVE  Upper!Next \/ UNCHANGED <<Shares, CopyList>>
    BY <1>3, <2>4, HearCopies
  <2>5. ASSUME NEW m \in net, LockFtp(m)
        PROVE  Upper!Next \/ UNCHANGED <<Shares, CopyList>>
    <3>1. CASE Approve(m)
      BY <2>1, <2>5, <3>1, ApproveShares DEF LockFtp
    <3>2. CASE Deny(m)
      BY <2>5, <3>2, SameShares, SameCopies DEF LockFtp, Deny
    <3>3. QED
      BY <2>5, <3>1, <3>2 DEF LockFtp
  <2>6. ASSUME NEW m \in net, Serve(m)
        PROVE  UNCHANGED <<Shares, CopyList>>
    <3>1. CASE Die
      BY <2>6, <3>1, SameShares, SameCopies DEF Die, Serve
    <3>2. CASE Reply(m)
      BY <2>1, <2>6, <3>2, ReplyShares DEF Serve
    <3>3. QED
      BY <2>6, <3>1, <3>2 DEF Serve
  <2>7. CASE UNCHANGED <<log, client>>
    BY <2>7, SameShares, SameCopies
  <2>8. (\E m \in net : SendFileList(m) \/ Overhear(m)) \/ Timeout \/ CloseNotice
          \/ UNCHANGED vars
          => UNCHANGED <<log, client>>
    BY DEF SendFileList, Overhear, Timeout, CloseNotice, Die, vars
  <2>9. ASSUME NEW c \in Client, Call(c)
        PROVE  Upper!Next \/ UNCHANGED <<Shares, CopyList>>
    BY <2>1, <2>9, CallCopies
  <2>10. QED
    BY <1>3, <2>2, <2>3, <2>4, <2>5, <2>6, <2>7, <2>8, <2>9
       DEF Next, ClientStep, ServerStep, NoBuddy
<1>4. IInv /\ Tried /\ [Next]_vars => Tried'
  BY TriedStep DEF IInv, Tried, TriesOK, Progress
<1>5. QED
  BY <1>1, <1>2, <1>3, <1>4, InitIInv, NextIInv, RealStep, PTL
     DEF Spec, ImplementsFileCopy, Upper!Spec, Shares, CopyList
==============================================================================
