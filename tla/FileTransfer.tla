---------------------------- MODULE FileTransfer -----------------------------
(***************************************************************************)
(* LifeNetFTP (src/applications/LifeNetFTP): one node that shares files    *)
(* and the nodes that download them.  The sharing node runs a ControlThread *)
(* and, while its transmit lock is taken, one TxFTPThread.  A downloading  *)
(* node lists the files, asks for the lock and then pulls the file block   *)
(* by block in an RxFTPThread; each request is a UDPTxAck, which sends     *)
(* until a datagram with its sequence number comes back.                   *)
(*                                                                         *)
(* Datagrams cross the mesh, which delivers every copy of a packet that    *)
(* arrives: they are lost (never heard), delayed, reordered and duplicated. *)
(* A user runs one download at a time, and a node that downloads shares    *)
(* nothing itself.                                                         *)
(***************************************************************************)
EXTENDS Integers, Sequences, FiniteSets

CONSTANTS
  Client,           \* the downloading nodes
  File,             \* the files in the upload directory
  Size,             \* Size[f]: bytes in f
  BlockSize,        \* FTP_BLOCK_SIZE
  Missing,          \* files deleted after they were listed
  ControlTicks,     \* NUM_TICKS_CONTROL: attempts of a file list request
  LockTicks,        \* MAX_TICKS_RXFTP: attempts of a lock request
  DataTicks,        \* NUM_TICKS_DATA: attempts of one data request
  MaxTicksRx,       \* MAX_TICKS_RXFTP: unanswered data requests in a row
  MaxTicksTx,       \* MAX_TICKS_TXFTP: timeouts in the middle of a file
  MaxTicksComplete, \* MAX_TICKS_FTP_COMPLETE: timeouts at the end of it
  Addresses,        \* bound: what getBuddyIP gives when it is not null
  Copies,           \* bound: deliveries of one datagram
  MaxNet,           \* bound: datagrams in flight; others are lost
  MaxDownloads,     \* bound: downloads of each client, then its user rests
  MaxTransfers,     \* bound: transfers the server starts
  MaxSeq            \* bound: blocks beyond this number are not heard

ASSUME FileTransferAssumption ==
  /\ Size \in [File -> Nat]
  /\ BlockSize \in Nat \ {0}
  /\ Missing \subseteq File
  /\ Addresses \subseteq {"known", "blank"}
  /\ {ControlTicks, LockTicks, DataTicks, MaxTicksRx, MaxTicksTx,
      MaxTicksComplete, Copies, MaxNet, MaxDownloads, MaxTransfers, MaxSeq} \subseteq Nat
  /\ Copies > 0

Blocks(f) == (Size[f] + BlockSize - 1) \div BlockSize

SeqFileRequest == 0     \* SEQ_FILE_REQUEST
SeqLock        == 1     \* SEQ_LOCK_FTP
SeqData        == 2     \* SEQ_DATA

VARIABLES
  lock,      \* FTP_TX_LOCK of the sharing node
  serving,   \* whether its TxFTPThread is alive
  tx,        \* the locals of that thread
  notice,    \* whether it waits for its user to close the message of the end
  log,       \* history: the transfers started, oldest first
  client,    \* client[c]: the dialogue of c's user and its RxFTPThread
  net        \* datagrams that may still be delivered

vars == <<lock, serving, tx, notice, log, client, net>>

(***************************************************************************)
(* The TxFTPThread: the file, the number of the block in payload2 (0 for    *)
(* null), which is also how far the file has been read, prevSeqNum, the     *)
(* sign of length, numTicks.                                                *)
(***************************************************************************)
NewThread(f) == [file |-> f, block |-> 0, prev |-> 1, length |-> 0, ticks |-> 0]

(* A transfer: its file, and the last number up to which requests came      *)
(* without a gap.                                                           *)
NewTransfer(f) == [file |-> f, clean |-> 1]

(***************************************************************************)
(* phase is what the node is asking for, waiting whether the datagram is    *)
(* out, tries and rounds the attempts of a UDPTxAck and the failures of the *)
(* RxFTPThread so far.  addr is what getBuddyIP gave for the attempts that  *)
(* are made: a BuddiesUpdateThread clears and refills the list all the      *)
(* time, so it can be null, "" or the address of the sharing node.  Phase   *)
(* "notice" is a message box that waits for the user.  written holds the    *)
(* blocks in the output file, each with its origin; closedBy is the         *)
(* transfer that ended the download.                                        *)
(***************************************************************************)
IdleClient ==
  [phase |-> "idle", listed |-> FALSE, addr |-> "none", waiting |-> FALSE, tries |-> 0,
   rounds |-> 0, seq |-> SeqFileRequest, file |-> CHOOSE f \in File : TRUE,
   denied |-> FALSE, written |-> <<>>, closedBy |-> 0, outcome |-> "none",
   downloads |-> 0]

(***************************************************************************)
(* A NetMessage between the sharing node and peer.  What it does not use    *)
(* of file, transfer and block is carried along unread; transfer and copy   *)
(* are history.                                                             *)
(***************************************************************************)
ToServer == {"list", "lock", "request", "eofAck"}
ToClient == {"listAck", "approve", "deny", "data", "eof"}

Datagram ==
  [type : ToServer \cup ToClient, seq : Nat, peer : Client, file : File,
   transfer : Nat, block : Nat, copy : 1 .. Copies]

\* Reading datagram m, if there is one, and sending reply: some copies arrive.
Copied(m) == {[m EXCEPT !.copy = i] : i \in 1 .. Copies}

Exchange(read, reply) ==
  \E heard \in SUBSET reply :
    /\ net' = (net \ read) \cup heard
    /\ Cardinality(net') <= MaxNet

Init ==
  /\ lock = FALSE
  /\ serving = FALSE
  /\ tx \in {NewThread(f) : f \in File}
  /\ notice = FALSE
  /\ log = <<>>
  /\ client = [c \in Client |-> IdleClient]
  /\ net = {}

------------------------------------------------------------------------------
(* The downloading node: MainForm, UDPTxAck, RxFTPThread *)

\* NamesListMouseClicked: ask the selected buddy for its files
SelectBuddy(c) ==
  /\ client[c].phase = "idle"
  /\ client[c].downloads < MaxDownloads
  /\ \E a \in Addresses :
       client' = [client EXCEPT ![c] =
         [@ EXCEPT !.phase = "listing", !.addr = a, !.seq = SeqFileRequest, !.tries = 0]]
  /\ UNCHANGED <<lock, serving, tx, notice, log, net>>

\* dloadButtonActionPerformed: ask for the lock with the file's name
Download(c, f) ==
  /\ client[c].phase = "idle"
  /\ client[c].listed
  /\ client[c].downloads < MaxDownloads
  /\ \E a \in Addresses :
       client' = [client EXCEPT ![c] =
         [@ EXCEPT !.phase = "locking", !.addr = a, !.seq = SeqLock, !.tries = 0,
                   !.file = f, !.downloads = client[c].downloads + 1]]
  /\ UNCHANGED <<lock, serving, tx, notice, log, net>>

(* A round of the RxFTPThread.  It reads the buddy twice, and a null the    *)
(* second time ends the thread.                                             *)
Call(c) ==
  /\ client[c].phase = "receiving"
  /\ client[c].addr = "none"
  /\ \/ \E a \in Addresses : client' = [client EXCEPT ![c].addr = a]
     \/ client' = [client EXCEPT ![c] = [@ EXCEPT !.phase = "idle", !.outcome = "crashed"]]
  /\ UNCHANGED <<lock, serving, tx, notice, log, net>>

\* A null the first time: the loop goes round, and nothing is sent or counted.
NoBuddy(c) ==
  /\ client[c].phase = "receiving"
  /\ client[c].addr = "none"
  /\ UNCHANGED vars

RequestType(phase) ==
  CASE phase = "listing" -> "list"
    [] phase = "locking" -> "lock"
    [] phase = "receiving" -> "request"

Attempts(phase) ==
  CASE phase = "listing" -> ControlTicks
    [] phase = "locking" -> LockTicks
    [] phase = "receiving" -> DataTicks

(* The address "" is this node itself, whose own ControlThread grants the   *)
(* lock, unless an earlier request took it; nobody answers the others.      *)
OwnAnswers(k) ==
  IF k.phase # "locking" THEN {}
  ELSE {"approve"} \cup (IF k.tries > 0 \/ k.downloads > 1 THEN {"deny"} ELSE {})

\* SendUDPTxAck: send, then listen on the port the answers come to
Ask(c) ==
  LET k == client[c]
      request == [type |-> RequestType(k.phase), seq |-> k.seq, peer |-> c,
                  file |-> k.file, transfer |-> 0, block |-> 0, copy |-> 1]
  IN
  /\ k.phase \in {"listing", "locking", "receiving"}
  /\ k.addr # "none"
  /\ ~k.waiting
  /\ client' = [client EXCEPT ![c].waiting = TRUE]
  /\ \/ k.addr = "known" /\ Exchange({}, Copied(request))
     \/ k.addr = "blank" /\ net' = net
     \/ k.addr = "blank" /\ \E t \in OwnAnswers(k) : Exchange({}, {[request EXCEPT !.type = t]})
  /\ UNCHANGED <<lock, serving, tx, notice, log>>

\* What arrives at that port
Heard(c, m) ==
  /\ m \in net
  /\ client[c].waiting
  /\ m.peer = c
  /\ m.type \in (IF client[c].phase = "receiving"
                   THEN {"data", "eof"} ELSE {"listAck", "approve", "deny"})

\* Mutant: the number is not compared
AnswersAny(c, m) == TRUE

\* Only the number is compared: neither the type nor the sender.
Answers(c, m) == m.seq = client[c].seq

ListReceived(c, m) ==
  /\ client[c].phase = "listing"
  /\ client' = [client EXCEPT ![c] =
       [@ EXCEPT !.phase = "idle", !.addr = "none", !.waiting = FALSE, !.listed = TRUE]]
  /\ net' = net \ {m}

(* Whatever the answer to the lock request, the RxFTPThread starts.         *)
LockReceived(c, m) ==
  /\ client[c].phase = "locking"
  /\ client' = [client EXCEPT ![c] =
       [@ EXCEPT !.phase = "receiving", !.addr = "none", !.waiting = FALSE,
                 !.tries = 0, !.rounds = 0, !.seq = SeqData, !.denied = (m.type = "deny"),
                 !.written = <<>>, !.closedBy = 0, !.outcome = "none"]]
  /\ net' = net \ {m}

(* The progress bar divides by fileSize - 1 before the block is written.    *)
BlockReceived(c, m) ==
  LET k == client[c] IN
  /\ k.phase = "receiving"
  /\ m.type = "data"
  /\ k.seq < MaxSeq
  /\ client' = [client EXCEPT ![c] =
       IF Size[k.file] = 1
         THEN [k EXCEPT !.phase = "idle", !.addr = "none", !.waiting = FALSE,
                        !.seq = @ + 1, !.outcome = "crashed"]
         ELSE [k EXCEPT !.addr = "none", !.waiting = FALSE, !.tries = 0,
                        !.rounds = 0, !.seq = @ + 1,
                        !.written = Append(@, [file |-> m.file, block |-> m.block,
                                               transfer |-> m.transfer])]]
  /\ net' = net \ {m}

EofReceived(c, m) ==
  /\ client[c].phase = "receiving"
  /\ m.type = "eof"
  /\ client' = [client EXCEPT ![c] =
       [@ EXCEPT !.phase = "idle", !.addr = "none", !.waiting = FALSE,
                 !.closedBy = m.transfer, !.outcome = "complete"]]
  /\ Exchange({m}, Copied([m EXCEPT !.type = "eofAck"]))

Hear(c, m) ==
  /\ Heard(c, m)
  /\ Answers(c, m)
  /\ \/ ListReceived(c, m)
     \/ LockReceived(c, m)
     \/ BlockReceived(c, m)
     \/ EofReceived(c, m)
  /\ UNCHANGED <<lock, serving, tx, notice, log>>

\* The call of SendUDPTxAck has returned.
Back(k) == [k EXCEPT !.addr = "none", !.waiting = FALSE]

\* Mutant: the failures in a row are not counted
RetryForever(k) ==
  IF k.tries + 1 < Attempts(k.phase) THEN [k EXCEPT !.waiting = FALSE, !.tries = @ + 1]
  ELSE IF k.phase # "receiving" THEN [Back(k) EXCEPT !.phase = "notice"]
  ELSE [Back(k) EXCEPT !.tries = 0]

(* An attempt without its answer.  After the last one a UDPTxAck returns    *)
(* null: the dialogue shows a message, the RxFTPThread asks anew until it   *)
(* has failed too often, and shows one then.                                *)
Unanswered(k) ==
  IF k.tries + 1 < Attempts(k.phase) THEN [k EXCEPT !.waiting = FALSE, !.tries = @ + 1]
  ELSE IF k.phase # "receiving" THEN [Back(k) EXCEPT !.phase = "notice"]
  ELSE IF k.rounds + 1 <= MaxTicksRx
    THEN [Back(k) EXCEPT !.tries = 0, !.rounds = @ + 1]
    ELSE [Back(k) EXCEPT !.phase = "notice", !.outcome = "gaveUp"]

Miss(c) ==
  /\ client[c].waiting
  /\ client' = [client EXCEPT ![c] = Unanswered(@)]
  /\ \/ net' = net
     \/ \E m \in net : Heard(c, m) /\ ~Answers(c, m) /\ net' = net \ {m}
  /\ UNCHANGED <<lock, serving, tx, notice, log>>

\* The user closes the message, if ever.
Dismiss(c) ==
  /\ client[c].phase = "notice"
  /\ client' = [client EXCEPT ![c].phase = "idle"]
  /\ UNCHANGED <<lock, serving, tx, notice, log, net>>

------------------------------------------------------------------------------
(* The sharing node: ControlThread *)

\* MSGCODE_SEND_FILE_LIST is answered while nothing is being sent
SendFileList(m) ==
  /\ m \in net
  /\ m.type = "list"
  /\ Exchange({m}, IF lock THEN {} ELSE Copied([m EXCEPT !.type = "listAck"]))
  /\ UNCHANGED <<lock, serving, tx, notice, log, client>>

\* Mutant: the lock is not looked at
ApproveAnyway(m) ==
  /\ m.type = "lock"
  /\ Len(log) < MaxTransfers
  /\ Exchange({m}, Copied([m EXCEPT !.type = "approve"]))
  /\ lock' = TRUE
  /\ serving' = TRUE
  /\ tx' = NewThread(m.file)
  /\ log' = Append(log, NewTransfer(m.file))

Approve(m) ==
  /\ m.type = "lock"
  /\ ~lock
  /\ Len(log) < MaxTransfers
  /\ Exchange({m}, Copied([m EXCEPT !.type = "approve"]))
  /\ lock' = TRUE
  /\ serving' = TRUE
  /\ tx' = NewThread(m.file)
  /\ log' = Append(log, NewTransfer(m.file))

Deny(m) ==
  /\ m.type = "lock"
  /\ lock
  /\ Exchange({m}, Copied([m EXCEPT !.type = "deny"]))
  /\ UNCHANGED <<lock, serving, tx, log>>

LockFtp(m) ==
  /\ m \in net
  /\ Approve(m) \/ Deny(m)
  /\ UNCHANGED <<notice, client>>

------------------------------------------------------------------------------
(* The sharing node: TxFTPThread *)

\* Mutant: a repeated request reads on
InSequenceOrAgain(s) == s \in {tx.prev, tx.prev + 1}

\* The request for the block after the last one asked for
InSequence(s) == s = tx.prev + 1

\* Reading a file that could not be opened ends the thread, but not the lock.
Die == serving' = FALSE /\ UNCHANGED <<lock, tx, notice, log, net>>

\* Mutant: payload2 goes out before anything was read into it
AnswerNull(m, length, block) ==
  IF m.seq < tx.prev THEN {}
  ELSE IF length >= 0
    THEN Copied([m EXCEPT !.type = "data", !.file = tx.file, !.transfer = Len(log),
                        !.block = block])
    ELSE Copied([m EXCEPT !.type = "eof", !.file = tx.file, !.transfer = Len(log)])

\* Mutant: a repeated request at the end is not told apart from the end
AnswerShort(m, length, block) ==
  IF m.seq < tx.prev THEN {}
  ELSE IF length > 0
    THEN Copied([m EXCEPT !.type = "data", !.file = tx.file, !.transfer = Len(log),
                        !.block = block])
    ELSE Copied([m EXCEPT !.type = "eof", !.file = tx.file, !.transfer = Len(log)])

(* length < 0 is the end of the file; otherwise payload2 goes out, be it    *)
(* the block just read or, for any request out of sequence, the last one.   *)
Answer(m, length, block) ==
  IF m.seq < tx.prev \/ (length >= 0 /\ block = 0) THEN {}
  ELSE IF length >= 0
    THEN Copied([m EXCEPT !.type = "data", !.file = tx.file, !.transfer = Len(log),
                        !.block = block])
    ELSE Copied([m EXCEPT !.type = "eof", !.file = tx.file, !.transfer = Len(log)])

Reply(m) ==
  LET length == IF ~InSequence(m.seq) THEN 0
                ELSE IF tx.block < Blocks(tx.file) THEN 1 ELSE -1
      block  == IF length = 1 THEN tx.block + 1 ELSE tx.block
      prev   == IF m.seq >= tx.prev THEN m.seq ELSE tx.prev
  IN  /\ Exchange({m}, Answer(m, length, block))
      /\ tx' = [tx EXCEPT !.block = block, !.prev = prev, !.length = length, !.ticks = 0]
      /\ log' = [log EXCEPT ![Len(log)].clean =
                   IF @ = tx.prev /\ InSequence(m.seq) THEN m.seq ELSE @]
      /\ UNCHANGED <<lock, serving, notice>>

Serve(m) ==
  /\ serving
  /\ m \in net
  /\ m.type = "request"
  /\ \/ InSequence(m.seq) /\ tx.file \in Missing /\ Die
     \/ ~(InSequence(m.seq) /\ tx.file \in Missing) /\ Reply(m)
  /\ UNCHANGED client

\* Any other datagram on the port is read and forgotten.
Overhear(m) ==
  /\ serving
  /\ m \in net
  /\ m.type = "eofAck"
  /\ net' = net \ {m}
  /\ UNCHANGED <<lock, serving, tx, notice, log, client>>

\* Mutant: timeouts count after a repeated block only
CountsTicksAfterRepeat(length) == length = 0

\* Timeouts count unless the last request was answered with a new block.
CountsTicks(length) == length <= 0

Patience == IF tx.block = Blocks(tx.file) THEN MaxTicksComplete ELSE MaxTicksTx

Timeout ==
  /\ serving
  /\ CountsTicks(tx.length)
  /\ \/ tx.file \in Missing /\ Die
     \/ /\ tx.file \notin Missing
        /\ IF tx.ticks + 1 > Patience
             THEN /\ serving' = FALSE
                  /\ notice' = TRUE
                  /\ tx' = tx
             ELSE /\ tx' = [tx EXCEPT !.ticks = @ + 1]
                  /\ UNCHANGED <<serving, notice>>
        /\ UNCHANGED <<lock, log, net>>
  /\ UNCHANGED client

(* The message of the end holds the thread up until the user closes it, if  *)
(* ever; only then is the lock released.                                    *)
CloseNotice ==
  /\ notice
  /\ notice' = FALSE
  /\ lock' = FALSE
  /\ UNCHANGED <<serving, tx, log, client, net>>

------------------------------------------------------------------------------
ClientStep(c) == Ask(c) \/ Miss(c) \/ \E m \in net : Hear(c, m)
ServerStep == Timeout \/ \E m \in net : Serve(m) \/ Overhear(m)

Next ==
  \/ \E c \in Client : SelectBuddy(c)
  \/ \E c \in Client, f \in File : Download(c, f)
  \/ \E c \in Client : Call(c) \/ NoBuddy(c) \/ ClientStep(c) \/ Dismiss(c)
  \/ \E m \in net : SendFileList(m) \/ LockFtp(m)
  \/ ServerStep
  \/ CloseNotice

Spec == Init /\ [][Next]_vars

(* Threads that run are scheduled, and a receive call returns after its     *)
(* timeout at the latest.  Whether a buddy is selected when it is read, and *)
(* when a user closes a message, is nothing to rely on.                     *)
FairSpec ==
  /\ Spec
  /\ WF_vars(ServerStep)
  /\ \A c \in Client : WF_vars(ClientStep(c))

------------------------------------------------------------------------------
(* Properties *)

(* Type correctness: the counts of rounds and downloads stay in their       *)
(* limits, and every block written was read from a file.                    *)
Written == [file : File, block : Nat \ {0}, transfer : Nat]

ClientRecord ==
  [phase : {"idle", "listing", "locking", "receiving", "notice"}, listed : BOOLEAN,
   addr : {"none", "blank", "known"}, waiting : BOOLEAN, tries : Nat, rounds : 0 .. MaxTicksRx, seq : Nat,
   file : File, denied : BOOLEAN, written : Seq(Written), closedBy : Nat,
   outcome : {"none", "complete", "gaveUp", "crashed"}, downloads : 0 .. MaxDownloads]

TypeOK ==
  /\ lock \in BOOLEAN
  /\ serving \in BOOLEAN
  /\ notice \in BOOLEAN
  /\ tx \in [file : File, block : Nat, prev : Nat, length : -1 .. 1, ticks : Nat]
  /\ log \in Seq([file : File, clean : Nat])
  /\ client \in [Client -> ClientRecord]
  /\ net \subseteq Datagram

(* The blocks a download wrote all came from one transfer.                  *)
FromOneTransfer(k) ==
  \A i, j \in 1 .. Len(k.written) : k.written[i].transfer = k.written[j].transfer

(* However requests and answers are lost, repeated and overtaken, and       *)
(* whoever else asks the same TxFTPThread, the blocks written to a file are *)
(* the blocks of the transfer's file in order, none missing; only the last  *)
(* one can follow again, when the answer that ends the file was lost.       *)
BlockAt(f, i) == IF i <= Blocks(f) THEN i ELSE Blocks(f)

DownloadInOrder ==
  \A c \in Client :
    FromOneTransfer(client[c]) =>
      \A i \in 1 .. Len(client[c].written) :
        client[c].written[i].block = BlockAt(client[c].written[i].file, i)

(* A download that ends by the end-of-file answer of the transfer it got    *)
(* its blocks from has written all of the file.                             *)
CompleteIsWhole ==
  \A c \in Client :
    LET k == client[c] IN
    /\ k.outcome = "complete"
    /\ k.closedBy \in 1 .. Len(log)
    /\ \A i \in 1 .. Len(k.written) : k.written[i].transfer = k.closedBy
    => Len(k.written) >= Blocks(log[k.closedBy].file)

(* A transfer that runs is neither replaced nor joined by another.          *)
NoTakeover ==
  [][serving /\ serving' => tx'.file = tx.file /\ Len(log') = Len(log)]_vars

(* What the user gets is a FileCopy: no step writes to an output file but   *)
(* the next block, and it is closed and opened again as described there.    *)
CopyOf(k) ==
  [state |-> IF k.phase = "receiving" THEN "open" ELSE k.outcome,
   written |-> k.written, closedBy |-> k.closedBy]

Upper == INSTANCE FileCopy WITH
  Length <- [f \in File |-> Blocks(f)],
  shares <- [g \in 1 .. Len(log) |-> log[g].file],
  copy   <- [c \in Client |-> CopyOf(client[c])]
ImplementsFileCopy == Upper!Spec

(* Every step of a dialogue but one on to the next number is a further      *)
(* round, a further attempt of it, the buddy found for a round, or the wait *)
(* after a transmission, and none of the counts passes its limit            *)
(* (RxFTPThread.run, UDPTxAck.SendUDPTxAck).  The turns of the loop without *)
(* a buddy are no steps: they change nothing, and there is no limit to them.*)
Closer(k, j) ==
  /\ j.rounds <= MaxTicksRx
  /\ j.tries <= Attempts(j.phase)
  /\ \/ j.rounds > k.rounds
     \/ /\ j.rounds = k.rounds
        /\ \/ j.tries > k.tries
           \/ /\ j.tries = k.tries
              /\ \/ k.addr = "none" /\ j.addr # "none"
                 \/ j.addr = k.addr /\ ~k.waiting /\ j.waiting

Advances(k, j) ==
  j # k /\ k.phase # "idle" /\ j.phase = k.phase =>
    j.seq > k.seq \/ (j.seq = k.seq /\ Closer(k, j))

RequestsAdvance == [][\A c \in Client : Advances(client[c], client'[c])]_vars

(* A lost end-of-file answer is repeated as the last block under that       *)
(* number, which the receiver writes and counts as a new one; this can go   *)
(* on for ever (TxFTPThread.run, RxFTPThread.run).                          *)
PastEnd(k) == \E i, j \in 1 .. Len(k.written) : i < j /\ k.written[i] = k.written[j]

(* A download whose thread finds its buddy selected again and again ends,   *)
(* however requests and answers are lost, unless it runs past the end of    *)
(* its file.                                                                *)
DownloadEnds ==
  \A c \in Client :
    []<>(client[c].phase = "receiving" => client[c].addr # "none") =>
      (client[c].phase = "receiving" ~> client[c].phase # "receiving" \/ PastEnd(client[c]))

(* Once the end of the file was answered the sending thread comes to its    *)
(* notice, after which its user can release the lock, whether or not the    *)
(* answer ever arrived; unless a receiver runs past the end of the file.    *)
EofNoticed ==
  (serving /\ tx.length = -1) ~>
    (notice \/ \E c \in Client : client[c].phase = "receiving" /\ PastEnd(client[c]))

(* "LOCK-FTP-DENIED": a node whose lock request was denied gets no block of *)
(* a file.                                                                  *)
DeniedStaysOut == \A c \in Client : client[c].denied => client[c].written = <<>>
==============================================================================
