----------------------------- MODULE SocketWire -----------------------------
(***************************************************************************)
(* One direction of the wire between the editor and the IDE: a             *)
(* ByteBufferAsyncProcessor that numbers, sends and keeps packages until   *)
(* they are acknowledged, the socket under it, which breaks and is         *)
(* connected anew, and the counterpart that acknowledges and dispatches.   *)
(*                                                                         *)
(* Threads: those that put, the buffer's own (thread), the one that        *)
(* connects and then reads acknowledgements (conn), the counterpart's      *)
(* reader.  A step is what one of them does under one hold of the locks.   *)
(***************************************************************************)
EXTENDS Naturals, Sequences

CONSTANTS
    MaxPuts,        \* bound: packages put by one process
    MaxBreaks,      \* bound: connections that break
    MaxRestarts     \* bound: restarts of the sending process

ASSUME WireAssumption == {MaxPuts, MaxBreaks, MaxRestarts} \subseteq Nat

VARIABLES
    state,          \* StateKind of the buffer
    thread,         \* where its ThreadProc is
    data,           \* packages put, not yet taken by the thread
    queue,          \* packages taken, not yet sent
    pending,        \* packages sent, not yet forgotten
    maxSent,        \* max_sent_seqn
    current,        \* current_seqn, the number of the first pending package
    acknowledged,   \* acknowledged_seqn
    balance,        \* interrupt_balance: the buffer is paused unless 0
    conn,           \* where the thread in set_socket_provider is
    linkUp,         \* the connection carries what is sent
    wire,           \* packages under way, and received but not read
    acks,           \* acknowledgements under way
    reader,         \* whether the counterpart reads a connection
    maxReceived,    \* its max_received_seqn
    garbled,        \* its stream has a byte that is part of no message
    dispatched,     \* history: the packages of this process it dispatched
    puts,           \* history: packages put so far
    pausedSend,     \* history: a package went out while the buffer was paused
    breaks, restarts

sender   == <<state, thread, data, queue, pending, maxSent, current,
              acknowledged, balance, conn, puts, pausedSend>>
link     == <<linkUp, wire, acks, breaks>>
receiver == <<reader, maxReceived, garbled, dispatched>>
vars     == <<sender, link, receiver, restarts>>

StateKind == {"AsyncProcessing", "Stopping", "Terminated"}

\* The constructor has paused and started the buffer.
Init ==
    /\ state = "AsyncProcessing"
    /\ thread = "waiting"
    /\ data = <<>> /\ queue = <<>> /\ pending = <<>>
    /\ maxSent = 0 /\ current = 1 /\ acknowledged = 0
    /\ balance = 1
    /\ conn = "down"
    /\ puts = 0
    /\ pausedSend = FALSE
    /\ linkUp = FALSE /\ wire = <<>> /\ acks = <<>> /\ breaks = 0
    /\ reader = "idle" /\ maxReceived = 0 /\ garbled = FALSE
    /\ dispatched = <<>>
    /\ restarts = 0

Drop(s, n) == SubSeq(s, n + 1, Len(s))

Package(n, p) == [seqn |-> n, put |-> p]

\* What is written to a broken socket is lost, whether or not Send says so.
Transmit(packages) == wire' = IF linkUp THEN wire \o packages ELSE wire

-----------------------------------------------------------------------------
(* The buffer: callers and its thread *)

Put ==
    /\ puts < MaxPuts
    /\ state = "AsyncProcessing"
    /\ puts' = puts + 1
    /\ data' = Append(data, puts')
    /\ UNCHANGED <<state, thread, queue, pending, maxSent, current,
                   acknowledged, balance, conn, pausedSend, link, receiver,
                   restarts>>

TakeOverwrites ==                                             \* mutant
    /\ thread = "waiting"
    /\ state # "Terminated"
    /\ data # <<>> /\ balance = 0
    /\ queue' = data
    /\ data' = <<>>
    /\ thread' = "taken"
    /\ UNCHANGED <<state, pending, maxSent, current, acknowledged, balance,
                   conn, puts, pausedSend, link, receiver, restarts>>

\* ThreadProc, under lock: wait for data while not paused, and take it all.
TakeData ==
    /\ thread = "waiting"
    /\ state # "Terminated"
    /\ data # <<>> /\ balance = 0
    /\ queue' = queue \o data
    /\ data' = <<>>
    /\ thread' = "taken"
    /\ UNCHANGED <<state, pending, maxSent, current, acknowledged, balance,
                   conn, puts, pausedSend, link, receiver, restarts>>

ReturnsAtOnce ==                                              \* mutant
    /\ thread = "waiting"
    /\ state # "AsyncProcessing"
    /\ thread' = "returned"
    /\ UNCHANGED <<state, data, queue, pending, maxSent, current, acknowledged,
                   balance, conn, puts, pausedSend, link, receiver, restarts>>

ThreadReturns ==
    /\ thread = "waiting"
    /\ \/ state = "Terminated"
       \/ state = "Stopping" /\ (data = <<>> \/ balance # 0)
    /\ thread' = "returned"
    /\ UNCHANGED <<state, data, queue, pending, maxSent, current, acknowledged,
                   balance, conn, puts, pausedSend, link, receiver, restarts>>

\* process() sends the queue package by package.  It has left the lock under
\* which it saw that the buffer is not paused.
ProcessOne ==
    /\ thread \in {"taken", "processing"}
    /\ queue # <<>>
    /\ Transmit(<<Package(maxSent + 1, Head(queue))>>)
    /\ maxSent' = maxSent + 1
    /\ pending' = Append(pending, Head(queue))
    /\ queue' = Tail(queue)
    /\ thread' = "processing"
    /\ pausedSend' = (pausedSend \/ (linkUp /\ balance # 0))
    /\ UNCHANGED <<state, data, current, acknowledged, balance, conn, puts,
                   linkUp, acks, breaks, receiver, restarts>>

\* The queue is empty, or Send fails and the rest stays in the queue.
ProcessEnds ==
    /\ thread \in {"taken", "processing"}
    /\ queue = <<>> \/ ~linkUp
    /\ thread' = "waiting"
    /\ UNCHANGED <<state, data, queue, pending, maxSent, current, acknowledged,
                   balance, conn, puts, pausedSend, link, receiver, restarts>>

Stop ==
    /\ state = "AsyncProcessing"
    /\ state' = "Stopping"
    /\ UNCHANGED <<thread, data, queue, pending, maxSent, current, acknowledged,
                   balance, conn, puts, pausedSend, link, receiver, restarts>>

\* cleanup0, when the thread has returned or the wait for it has timed out.
CleanUp ==
    /\ state = "Stopping"
    /\ state' = "Terminated"
    /\ UNCHANGED <<thread, data, queue, pending, maxSent, current, acknowledged,
                   balance, conn, puts, pausedSend, link, receiver, restarts>>

-----------------------------------------------------------------------------
(* set_socket_provider: connect, resume, read, pause *)

\* A connection that is accepted before the counterpart is done with the last
\* one waits in its backlog, so it may as well be made afterwards.
Connect ==
    /\ conn = "down" /\ reader = "idle"
    /\ state = "AsyncProcessing"
    /\ conn' = "switched" /\ reader' = "up"
    /\ linkUp' = TRUE /\ wire' = <<>> /\ acks' = <<>>
    /\ UNCHANGED <<state, thread, data, queue, pending, maxSent, current,
                   acknowledged, balance, puts, pausedSend, breaks,
                   maxReceived, garbled, dispatched, restarts>>

PopsOneMore ==                                                \* mutant
    IF current <= acknowledged + 1 THEN acknowledged - current + 2 ELSE 0

\* How many pending packages reprocess() forgets.
Acked == IF current <= acknowledged THEN acknowledged - current + 1 ELSE 0

NumbersFrom(n, packages) ==
    [k \in 1 .. Len(packages) |-> Package(n + k - 1, packages[k])]

OldNumbers ==                                                 \* mutant
    NumbersFrom(current, Drop(pending, Acked))

NothingResent == <<>>                                         \* mutant

Resent == NumbersFrom(current + Acked, Drop(pending, Acked))

\* resume(): reprocess() forgets what is acknowledged and sends the rest again.
Resume ==
    /\ conn = "switched"
    /\ thread # "processing"
    /\ Transmit(Resent)
    /\ pending' = Drop(pending, Acked)
    /\ current' = current + Acked
    /\ balance' = balance - 1
    /\ conn' = "up"
    /\ UNCHANGED <<state, thread, data, queue, maxSent, acknowledged, puts,
                   pausedSend, linkUp, acks, breaks, receiver, restarts>>

\* The lifetime has ended between the switch and the resume.
GivesUp ==
    /\ conn = "switched"
    /\ state # "AsyncProcessing"
    /\ conn' = "down"
    /\ linkUp' = FALSE
    /\ UNCHANGED <<state, thread, data, queue, pending, maxSent, current,
                   acknowledged, balance, puts, pausedSend, wire, acks, breaks,
                   receiver, restarts>>

AckHighest(seqn) == IF seqn > acknowledged THEN seqn ELSE acknowledged

ReceiveAck ==
    /\ conn = "up"
    /\ acks # <<>>
    /\ acknowledged' = AckHighest(Head(acks))
    /\ acks' = Tail(acks)
    /\ UNCHANGED <<state, thread, data, queue, pending, maxSent, current,
                   balance, conn, puts, pausedSend, linkUp, wire, breaks,
                   receiver, restarts>>

SeesEndPauses ==                                              \* mutant
    /\ conn = "up"
    /\ ~linkUp /\ acks = <<>>
    /\ conn' = "ended"
    /\ balance' = balance + 1
    /\ UNCHANGED <<state, thread, data, queue, pending, maxSent, current,
                   acknowledged, puts, pausedSend, link, receiver, restarts>>

\* receiverProc finds the connection closed.
SeesEnd ==
    /\ conn = "up"
    /\ ~linkUp /\ acks = <<>>
    /\ conn' = "ended"
    /\ UNCHANGED <<state, thread, data, queue, pending, maxSent, current,
                   acknowledged, balance, puts, pausedSend, link, receiver,
                   restarts>>

\* pause() waits until the thread is not in processing.
Pause ==
    /\ conn = "ended"
    /\ thread # "processing"
    /\ balance' = balance + 1
    /\ conn' = "down"
    /\ UNCHANGED <<state, thread, data, queue, pending, maxSent, current,
                   acknowledged, puts, pausedSend, link, receiver, restarts>>

-----------------------------------------------------------------------------
(* The connection and the counterpart *)

Prefixes(s) == {SubSeq(s, 1, n) : n \in 0 .. Len(s)}

\* Either side's machine, network or close(): of what is under way in each
\* direction a first part still arrives.
Break ==
    /\ linkUp
    /\ breaks < MaxBreaks
    /\ breaks' = breaks + 1
    /\ linkUp' = FALSE
    /\ wire' \in Prefixes(wire)
    /\ acks' \in Prefixes(acks)
    /\ UNCHANGED <<sender, receiver, restarts>>

NoDuplicates(seqn) == FALSE                                   \* mutant

\* read_package takes number 1 for the first package of a new process.
Duplicate(seqn) == seqn <= maxReceived /\ seqn # 1

\* read_package acknowledges every package.  For a duplicate it returns `true`,
\* that is a length of 1: one byte of it goes into the message stream, and no
\* message is told from another after that.
ReadPackage ==
    /\ reader = "up"
    /\ wire # <<>>
    /\ wire' = Tail(wire)
    /\ LET seqn == Head(wire).seqn
       IN  /\ acks' = IF linkUp THEN Append(acks, seqn) ELSE acks
           /\ IF Duplicate(seqn)
              THEN /\ garbled' = TRUE
                   /\ UNCHANGED <<maxReceived, dispatched>>
              ELSE /\ maxReceived' = seqn
                   /\ dispatched' = IF garbled THEN dispatched
                                    ELSE Append(dispatched, Head(wire).put)
                   /\ UNCHANGED garbled
    /\ UNCHANGED <<sender, linkUp, breaks, reader, restarts>>

ReaderSeesEnd ==
    /\ reader = "up"
    /\ ~linkUp /\ wire = <<>>
    /\ reader' = "idle"
    /\ UNCHANGED <<sender, link, maxReceived, garbled, dispatched, restarts>>

\* The sending process ends and another takes its place; the counterpart, with
\* the number it last received, stays.
Restart ==
    /\ restarts < MaxRestarts
    /\ restarts' = restarts + 1
    /\ state' = "AsyncProcessing"
    /\ thread' = "waiting"
    /\ data' = <<>> /\ queue' = <<>> /\ pending' = <<>>
    /\ maxSent' = 0 /\ current' = 1 /\ acknowledged' = 0
    /\ balance' = 1
    /\ conn' = "down"
    /\ puts' = 0
    /\ pausedSend' = FALSE
    /\ linkUp' = FALSE /\ wire' = <<>> /\ acks' = <<>>
    /\ dispatched' = <<>>
    /\ UNCHANGED <<breaks, reader, maxReceived, garbled>>

BufferThread == TakeData \/ ProcessOne \/ ProcessEnds \/ ThreadReturns
ConnThread   == Connect \/ Resume \/ GivesUp \/ ReceiveAck \/ SeesEnd \/ Pause
Counterpart  == ReadPackage \/ ReaderSeesEnd

Next ==
    \/ Put \/ Stop \/ CleanUp
    \/ BufferThread
    \/ ConnThread
    \/ Counterpart
    \/ Break \/ Restart

Spec == Init /\ [][Next]_vars

\* Each thread goes on while it can.
Fairness ==
    WF_vars(BufferThread) /\ WF_vars(ConnThread) /\ WF_vars(Counterpart)

FairSpec == Spec /\ Fairness

-----------------------------------------------------------------------------
(* Properties *)

\* Every variable has its type.
TypeOK ==
    /\ state \in StateKind
    /\ thread \in {"waiting", "taken", "processing", "returned"}
    /\ conn \in {"down", "switched", "up", "ended"}
    /\ {data, queue, pending, acks, dispatched} \subseteq Seq(Nat)
    /\ wire \in Seq([seqn : Nat, put : Nat])
    /\ {maxSent, acknowledged, maxReceived, puts, breaks, restarts} \subseteq Nat
    /\ current \in Nat \ {0}
    /\ balance \in {0, 1}
    /\ {linkUp, garbled, pausedSend} \subseteq BOOLEAN
    /\ reader \in {"idle", "up"}

\* Across data, queue and pending no package is lost, doubled or overtaken on
\* its way through the buffer, and none is forgotten unacknowledged, whatever
\* sends fail in the middle of process() or reprocess().
Box == INSTANCE Outbox WITH
    box <- pending \o queue \o data, accepted <- puts, receipt <- acknowledged

OutboxSpec == Box!OutboxSpec

\* A package goes out under one number for ever, also when it is sent again: the
\* numbers of a resend are not stored but recomputed from current_seqn.
OneNumberEach ==
    \A k \in 1 .. Len(wire) : wire[k].seqn = wire[k].put

\* An acknowledgement, however late or old, is of a package that was sent, so
\* that the loop of reprocess() never pops an empty deque.
AckOfSent ==
    /\ acknowledged < current + Len(pending)
    /\ \A k \in 1 .. Len(acks) : acks[k] \in 1 .. maxSent

\* What is acknowledged was dispatched, unless a package was sent on a new
\* connection ahead of the pending ones or the stream was garbled: no other
\* order of breaks, resends, repeats and restarts loses a message.
LostOnlyByOvertaking ==
    ~pausedSend /\ ~garbled =>
        \A n \in 1 .. acknowledged : \E k \in 1 .. Len(dispatched) :
            dispatched[k] = n

\* With the same exception messages are dispatched in sequence, except that the
\* counterpart may begin again with the first one.
DispatchedInSequence ==
    ~pausedSend =>
        \A k \in 1 .. Len(dispatched) :
            \/ dispatched[k] = 1
            \/ k > 1 /\ dispatched[k] = dispatched[k - 1] + 1

\* stop() on a connection that never broke sends what was put before it: the
\* thread does not return before all is sent.
StopFlushes ==
    [][ ( /\ state = "Stopping" /\ thread # "returned"
          /\ thread' = "returned"
          /\ conn = "up" /\ breaks = 0 ) => maxSent = puts ]_vars

\* Packages that were sent are in the end acknowledged, through any number of
\* breaks and failed sends, until the wire is stopped.
SentIsAcknowledged ==
    []<>(acknowledged = maxSent \/ state # "AsyncProcessing")

\* What ByteBufferAsyncProcessor::acknowledge says of the number it is called
\* with: it MUST BE greater than the last one.
AcksIncrease == [][ ReceiveAck => Head(acks) > acknowledged ]_vars
=============================================================================
