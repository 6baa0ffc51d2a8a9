----------------------------- MODULE NotifyAck -----------------------------
(***************************************************************************)
(* Who writes to a websocket: the writer goroutine of the connection       *)
(* (writeRTO or writePump) and processNotifyMessage, one goroutine that    *)
(* answers the notify frames (msg_type 2) of all connections from the      *)
(* queue notify_ack_Q (server/hub.go).  The library allows one writer at a *)
(* time; connection.write takes the channel notify_mu as a lock, but only  *)
(* when enable_ack_rto is 1.                                               *)
(***************************************************************************)
EXTENDS Integers, Sequences

CONSTANTS
    Conns,      \* the connections
    Settings,   \* the values enable_ack_rto is tried with
    NotifyCap,  \* capacity of notify_ack_Q (8192)
    MaxNotify   \* bound: notify frames a peer sends

ASSUME NotifyConstants ==
    /\ Settings \subseteq Nat
    /\ NotifyCap \in Nat \ {0}
    /\ MaxNotify \in Nat

VARIABLES
    enable_ack_rto, \* the setting; every test of it but one is "> 0"
    reader,        \* program counter of checkPongMessage
    received,      \* how many notify frames it has read
    notify_ack_Q,  \* the pairs (c, ack_seq) waiting for an answer
    notifying,     \* what processNotifyMessage has in hand, at most one pair
    notifier,      \* where it is in connection.write
    writer,        \* where the writer goroutine is in connection.write
    notify_mu,     \* the token is in c.notify_mu
    answered       \* history: the frames of c that have been dealt with

connVars == <<reader, received, notify_ack_Q, notifying, notifier, writer,
              notify_mu, answered>>
vars == <<enable_ack_rto, connVars>>

Jobs == Conns \X (1 .. MaxNotify)

TypeOK ==
    /\ enable_ack_rto \in Settings
    /\ reader \in [Conns -> {"reading", "queueing", "done"}]
    /\ received \in [Conns -> 0 .. MaxNotify]
    /\ notify_ack_Q \in Seq(Jobs)
    /\ Len(notify_ack_Q) <= NotifyCap
    /\ notifying \in SUBSET Jobs
    /\ notifier \in {"select", "lock", "write"}
    /\ writer \in [Conns -> {"select", "lock", "write", "done"}]
    /\ notify_mu \in [Conns -> BOOLEAN]
    /\ answered \in [Conns -> Seq(1 .. MaxNotify)]

Init ==
    /\ enable_ack_rto \in Settings
    /\ reader = [c \in Conns |-> "reading"]
    /\ received = [c \in Conns |-> 0]
    /\ notify_ack_Q = <<>>
    /\ notifying = {}
    /\ notifier = "select"
    /\ writer = [c \in Conns |-> "select"]
    /\ notify_mu = [c \in Conns |-> TRUE]
    /\ answered = [c \in Conns |-> <<>>]

----------------------------------------------------------------------------
(* connection.write                                                        *)

\* The test at the head of connection.write.
Locks == enable_ack_rto = 1

\* <-c.notify_mu, where it is used.
Acquire(c) ==
    /\ Locks => notify_mu[c]
    /\ notify_mu' = IF Locks THEN [notify_mu EXCEPT ![c] = FALSE] ELSE notify_mu

\* c.notify_mu <- true, where it is used: whether the write went well or not.
Release(c) ==
    notify_mu' = IF Locks THEN [notify_mu EXCEPT ![c] = TRUE] ELSE notify_mu

----------------------------------------------------------------------------
(* The writer goroutine                                                    *)

\* A message, a tick of the ping or the retry clock: connection.write.
WriterCalls(c) ==
    /\ writer[c] = "select"
    /\ writer' = [writer EXCEPT ![c] = "lock"]
    /\ UNCHANGED <<enable_ack_rto, reader, received, notify_ack_Q, notifying,
                   notifier, notify_mu, answered>>

WriterWrites(c) ==
    /\ writer[c] = "lock"
    /\ Acquire(c)
    /\ writer' = [writer EXCEPT ![c] = "write"]
    /\ UNCHANGED <<enable_ack_rto, reader, received, notify_ack_Q, notifying,
                   notifier, answered>>

\* WriteMessage returns, by its deadline if not before; after an error the
\* goroutine may return.
WriterReturns(c) ==
    /\ writer[c] = "write"
    /\ Release(c)
    /\ \E pc \in {"select", "done"} : writer' = [writer EXCEPT ![c] = pc]
    /\ UNCHANGED <<enable_ack_rto, reader, received, notify_ack_Q, notifying,
                   notifier, answered>>

----------------------------------------------------------------------------
(* The reader goroutine                                                    *)

\* A frame of msg_type 2 is read.
ReadNotify(c) ==
    /\ reader[c] = "reading"
    /\ writer[c] # "done"
    /\ received[c] < MaxNotify
    /\ received' = [received EXCEPT ![c] = @ + 1]
    /\ reader' = [reader EXCEPT ![c] = "queueing"]
    /\ UNCHANGED <<enable_ack_rto, notify_ack_Q, notifying, notifier, writer,
                   notify_mu, answered>>

\* Mutants of QueueNotify: a full queue loses the frame; the capacity is off
\* by one.
QueueNotifyLossy(c) ==
    /\ reader[c] = "queueing"
    /\ notify_ack_Q' = IF Len(notify_ack_Q) < NotifyCap
                       THEN Append(notify_ack_Q, <<c, received[c]>>)
                       ELSE notify_ack_Q
    /\ reader' = [reader EXCEPT ![c] = "reading"]
    /\ UNCHANGED <<enable_ack_rto, received, notifying, notifier, writer,
                   notify_mu, answered>>

QueueNotifyOverfull(c) ==
    /\ reader[c] = "queueing"
    /\ Len(notify_ack_Q) <= NotifyCap
    /\ notify_ack_Q' = Append(notify_ack_Q, <<c, received[c]>>)
    /\ reader' = [reader EXCEPT ![c] = "reading"]
    /\ UNCHANGED <<enable_ack_rto, received, notifying, notifier, writer,
                   notify_mu, answered>>

\* hrooms.notify_ack_Q <- notify_ack_msg: waits while the queue is full.
QueueNotify(c) ==
    /\ reader[c] = "queueing"
    /\ Len(notify_ack_Q) < NotifyCap
    /\ notify_ack_Q' = Append(notify_ack_Q, <<c, received[c]>>)
    /\ reader' = [reader EXCEPT ![c] = "reading"]
    /\ UNCHANGED <<enable_ack_rto, received, notifying, notifier, writer,
                   notify_mu, answered>>

\* ReadMessage fails; the connection is given up, but not its queued frames.
ReadFails(c) ==
    /\ reader[c] = "reading"
    /\ reader' = [reader EXCEPT ![c] = "done"]
    /\ UNCHANGED <<enable_ack_rto, received, notify_ack_Q, notifying, notifier,
                   writer, notify_mu, answered>>

----------------------------------------------------------------------------
(* processNotifyMessage, started only when enable_ack_rto > 0              *)

NotifierTakes ==
    /\ enable_ack_rto > 0
    /\ notifier = "select"
    /\ notify_ack_Q # <<>>
    /\ notifying' = {Head(notify_ack_Q)}
    /\ notify_ack_Q' = Tail(notify_ack_Q)
    /\ notifier' = "lock"
    /\ UNCHANGED <<enable_ack_rto, reader, received, writer, notify_mu,
                   answered>>

\* Mutant of NotifierWrites: connection.write without its lock.
NotifierWritesUnlocked(c) ==
    /\ notifier = "lock"
    /\ \E n \in 1 .. MaxNotify : <<c, n>> \in notifying
    /\ notifier' = "write"
    /\ UNCHANGED <<enable_ack_rto, reader, received, notify_ack_Q, notifying,
                   writer, notify_mu, answered>>

NotifierWrites(c) ==
    /\ notifier = "lock"
    /\ \E n \in 1 .. MaxNotify : <<c, n>> \in notifying
    /\ Acquire(c)
    /\ notifier' = "write"
    /\ UNCHANGED <<enable_ack_rto, reader, received, notify_ack_Q, notifying,
                   writer, answered>>

\* Mutant of NotifierReturns: the lock is kept.
NotifierReturnsLocked(c, n) ==
    /\ notifier = "write"
    /\ <<c, n>> \in notifying
    /\ notifying' = {}
    /\ notifier' = "select"
    /\ answered' = [answered EXCEPT ![c] = Append(@, n)]
    /\ UNCHANGED <<enable_ack_rto, reader, received, notify_ack_Q, writer,
                   notify_mu>>

\* WriteMessage returns; its error is ignored.
NotifierReturns(c, n) ==
    /\ notifier = "write"
    /\ <<c, n>> \in notifying
    /\ Release(c)
    /\ notifying' = {}
    /\ notifier' = "select"
    /\ answered' = [answered EXCEPT ![c] = Append(@, n)]
    /\ UNCHANGED <<enable_ack_rto, reader, received, notify_ack_Q, writer>>

----------------------------------------------------------------------------

WriterStep(c) == WriterWrites(c) \/ WriterReturns(c)

NotifierStep ==
    \/ NotifierTakes
    \/ \E c \in Conns : \/ NotifierWrites(c)
                        \/ \E n \in 1 .. MaxNotify : NotifierReturns(c, n)

Next ==
    \/ NotifierStep
    \/ \E c \in Conns : \/ WriterCalls(c) \/ WriterStep(c)
                        \/ ReadNotify(c) \/ QueueNotify(c) \/ ReadFails(c)

Spec == Init /\ [][Next]_vars

\* A write ends by its deadline (writeWait), a goroutine that can go on does,
\* and a channel serves its waiting senders and receivers in turn, so nobody
\* waits for ever for a token or for room in the queue that comes and goes.
Fairness ==
    /\ WF_vars(NotifierStep)
    /\ \A c \in Conns : /\ WF_vars(WriterReturns(c))
                        /\ SF_vars(WriterWrites(c))
                        /\ SF_vars(NotifierWrites(c))
                        /\ SF_vars(QueueNotify(c))

FairSpec == Spec /\ Fairness

----------------------------------------------------------------------------

\* The two goroutines that write to a websocket are never both inside
\* WriteMessage for the same connection: the library forbids it and panics
\* when it notices.
NoConcurrentWrite ==
    \A c \in Conns : ~ /\ writer[c] = "write"
                       /\ notifier = "write"
                       /\ \E n \in 1 .. MaxNotify : <<c, n>> \in notifying

\* The places of c's frames in the queue, and the number of the frame of c
\* that processNotifyMessage has in hand.
QueuedOf(c) == {i \in DOMAIN notify_ack_Q : notify_ack_Q[i][1] = c}
InHand(c) == {n \in 1 .. MaxNotify : <<c, n>> \in notifying}

\* How many frames of c have been taken out of the queue, and how many have
\* been put in.
Taken(c) == Len(answered[c]) + (IF InHand(c) = {} THEN 0 ELSE 1)
Put(c) == received[c] - (IF reader[c] = "queueing" THEN 1 ELSE 0)

\* Every notify frame read from a connection is answered once and in the
\* order it was read: the answered ones, the one being answered, the queued
\* ones and the one the reader holds are 1, 2, 3 ... in that order, although
\* all connections share one queue.
NotifyInOrder ==
    \A c \in Conns :
        /\ \A i \in DOMAIN answered[c] : answered[c][i] = i
        /\ InHand(c) \subseteq {Len(answered[c]) + 1}
        /\ Taken(c) <= Put(c)
        /\ {notify_ack_Q[i][2] : i \in QueuedOf(c)} = (Taken(c) + 1) .. Put(c)
        /\ \A i, k \in QueuedOf(c) :
              i < k => notify_ack_Q[i][2] < notify_ack_Q[k][2]

\* A reader with a notify frame in hand gets rid of it, however slow the
\* other connections whose frames are queued before it are.  With
\* enable_ack_rto = 0 nobody empties the queue: there it is so until the queue
\* is full.
NotifyQueued ==
    \A c \in Conns :
        reader[c] = "queueing" ~>
            \/ reader[c] # "queueing"
            \/ enable_ack_rto = 0 /\ Len(notify_ack_Q) = NotifyCap

\* Neither goroutine waits for ever for the other at notify_mu.
LocksTaken ==
    /\ \A c \in Conns : writer[c] = "lock" ~> writer[c] # "lock"
    /\ notifier = "lock" ~> notifier # "lock"
=============================================================================
