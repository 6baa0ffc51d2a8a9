------------------------------- MODULE AckRto -------------------------------
(***************************************************************************)
(* Acknowledged delivery of "peers" pushes when enable_ack_rto > 0:        *)
(* writeRTO and checkPongMessage of every connection, the one goroutine    *)
(* msg_ack_stat that counts for all of them (server/hub.go), and the peer  *)
(* of client/wsbk.go, which answers every push frame with an ACK frame.    *)
(*                                                                         *)
(* writeRTO keeps each message it has written in the map write_msg_Q until *)
(* its ACK comes or max_wait_ttl seconds have passed, and writes it again  *)
(* at most max_retry_ttl - 1 times.  It counts a write by a rendezvous     *)
(* with msg_ack_stat after the write; the reader hands an ACK over to      *)
(* writeRTO first and counts it then.  "all" and "rooms" pushes are        *)
(* written once, neither kept nor counted, and are not modelled here.      *)
(***************************************************************************)
EXTENDS Integers, Sequences, FiniteSets

CONSTANTS
    Conns,          \* the connections
    Seqs,           \* the msg_ids of the "peers" pushes
    max_retry_ttl,  \* how often a message is written at most
    max_wait_ttl,   \* how many ticks of rto_ticker it is kept
    SeqMod          \* 2^32: a frame carries uint32(msg_id)

ASSUME AckRtoConstants ==
    /\ Seqs \subseteq Nat
    /\ max_retry_ttl \in Nat \ {0}
    /\ max_wait_ttl \in Nat \ {0}
    /\ SeqMod \in Nat \ {0}

VARIABLES
    send,           \* the messages in c.send that are not written yet
    write_msg_Q,    \* the keys of the map c.write_msg_Q
    retry_times,    \* write_msg_t.retry_times of the messages in it
    wait_ttl,       \* write_msg_t.wait_ttl of the messages in it
    writer,         \* program counter of writeRTO
    loop,           \* the messages the rto_ticker loop has not reached yet
    counting,       \* the messages waiting to be sent on send_msg_ch, at most one
    reader,         \* program counter of checkPongMessage
    ack_seq,        \* the sequence number the reader has in hand
    frames,         \* push frames on their way to the peer
    acks,           \* ACK frames on their way to the server
    send_msg_cnt,   \* msg_stats[seq].send_msg_cnt
    recv_ack_cnt,   \* msg_stats[seq].recv_ack_cnt
    sends,          \* history: how often writeRTO has written a message
    acked           \* history: the messages whose ACK writeRTO has taken

queueVars == <<write_msg_Q, retry_times, wait_ttl>>
readerVars == <<reader, ack_seq>>
statVars == <<send_msg_cnt, recv_ack_cnt>>
vars == <<send, queueVars, writer, loop, counting, readerVars, frames, acks,
          statVars, sends, acked>>

WireSeqs == 0 .. SeqMod - 1

TypeOK ==
    /\ send \in [Conns -> SUBSET Seqs]
    /\ write_msg_Q \in [Conns -> SUBSET Seqs]
    /\ retry_times \in [Conns -> [Seqs -> 0 .. max_retry_ttl]]
    /\ wait_ttl \in [Conns -> [Seqs -> 0 .. max_wait_ttl]]
    /\ writer \in [Conns -> {"select", "loop", "count", "done"}]
    /\ loop \in [Conns -> SUBSET Seqs]
    /\ counting \in [Conns -> SUBSET Seqs]
    /\ reader \in [Conns -> {"reading", "acking", "stat", "done"}]
    /\ ack_seq \in [Conns -> WireSeqs]
    /\ frames \in [Conns -> Seq(WireSeqs)]
    /\ acks \in [Conns -> Seq(WireSeqs)]
    /\ send_msg_cnt \in [Seqs -> Nat]
    /\ recv_ack_cnt \in [Seqs -> Nat]
    /\ sends \in [Conns -> [Seqs -> Nat]]
    /\ acked \in [Conns -> SUBSET Seqs]

\* Every message has been pushed to every connection, in a channel that holds
\* them all; no request names a peer_id twice.
Init ==
    /\ send = [c \in Conns |-> Seqs]
    /\ write_msg_Q = [c \in Conns |-> {}]
    /\ retry_times = [c \in Conns |-> [s \in Seqs |-> 0]]
    /\ wait_ttl = [c \in Conns |-> [s \in Seqs |-> 0]]
    /\ writer = [c \in Conns |-> "select"]
    /\ loop = [c \in Conns |-> {}]
    /\ counting = [c \in Conns |-> {}]
    /\ reader = [c \in Conns |-> "reading"]
    /\ ack_seq = [c \in Conns |-> 0]
    /\ frames = [c \in Conns |-> <<>>]
    /\ acks = [c \in Conns |-> <<>>]
    /\ send_msg_cnt = [s \in Seqs |-> 0]
    /\ recv_ack_cnt = [s \in Seqs |-> 0]
    /\ sends = [c \in Conns |-> [s \in Seqs |-> 0]]
    /\ acked = [c \in Conns |-> {}]

\* binary.BigEndian.PutUint32 of the msg_id, and the int read back from it.
WireSeq(s) == s % SeqMod

\* c.ws is closed by whichever of the two goroutines returns first.
WsOpen(c) == writer[c] # "done" /\ reader[c] # "done"

----------------------------------------------------------------------------
(* writeRTO                                                                *)

\* send_push_msg_to_peer: writeRTO ignores its error, so a frame that could
\* not be written is lost without notice.
Transmit(c, s) ==
    /\ sends' = [sends EXCEPT ![c][s] = @ + 1]
    /\ \/ /\ WsOpen(c)
          /\ frames' = [frames EXCEPT ![c] = Append(@, WireSeq(s))]
       \/ UNCHANGED frames

\* case message := <-c.send.  The channel holds the messages in the order of
\* their numbers (DirectOrdered in Dispatch).
WritePush(c, s) ==
    /\ writer[c] = "select"
    /\ s \in send[c]
    /\ \A t \in send[c] : s <= t
    /\ send' = [send EXCEPT ![c] = @ \ {s}]
    /\ write_msg_Q' = [write_msg_Q EXCEPT ![c] = @ \cup {s}]
    /\ retry_times' = [retry_times EXCEPT ![c][s] = max_retry_ttl]
    /\ wait_ttl' = [wait_ttl EXCEPT ![c][s] = max_wait_ttl]
    /\ Transmit(c, s)
    /\ counting' = [counting EXCEPT ![c] = {s}]
    /\ writer' = [writer EXCEPT ![c] = "count"]
    /\ UNCHANGED <<loop, readerVars, acks, statVars, acked>>

\* hrooms.send_msg_ch <- seq meets the receive in msg_ack_stat; then the rest
\* of the rto_ticker loop, or the select.
CountSend(c, s) ==
    /\ writer[c] = "count"
    /\ s \in counting[c]
    /\ send_msg_cnt' = [send_msg_cnt EXCEPT ![s] = @ + 1]
    /\ counting' = [counting EXCEPT ![c] = {}]
    /\ writer' = [writer EXCEPT ![c] = IF loop[c] = {} THEN "select"
                                                       ELSE "loop"]
    /\ UNCHANGED <<send, queueVars, loop, readerVars, frames, acks,
                   recv_ack_cnt, sends, acked>>

\* case <-rto_ticker.C: the loop over write_msg_Q, in any order.
RtoTick(c) ==
    /\ writer[c] = "select"
    /\ write_msg_Q[c] # {}
    /\ loop' = [loop EXCEPT ![c] = write_msg_Q[c]]
    /\ writer' = [writer EXCEPT ![c] = "loop"]
    /\ UNCHANGED <<send, queueVars, counting, readerVars, frames, acks,
                   statVars, sends, acked>>

\* max_wait_ttl / max_retry_ttl
Step == max_wait_ttl \div max_retry_ttl

\* wait_ttl has run below the mark of the next retry.
Overdue(c, s) == wait_ttl[c][s] - 1 < (retry_times[c][s] - 1) * Step

\* Mutants of Age: the entry is never given up, and wait_ttl runs below zero
\* or stops there.
AgeUnbounded(c, s, retries) ==
    /\ wait_ttl' = [wait_ttl EXCEPT ![c][s] = @ - 1]
    /\ retry_times' = [retry_times EXCEPT ![c][s] = retries]
    /\ loop' = [loop EXCEPT ![c] = @ \ {s}]
    /\ UNCHANGED write_msg_Q

AgeKeepsAtZero(c, s, retries) ==
    /\ wait_ttl' = [wait_ttl EXCEPT ![c][s] = IF @ > 0 THEN @ - 1 ELSE 0]
    /\ retry_times' = [retry_times EXCEPT ![c][s] = retries]
    /\ loop' = [loop EXCEPT ![c] = @ \ {s}]
    /\ UNCHANGED write_msg_Q

\* What the loop does to the entry of s: wait_ttl--, and the entry is dropped
\* when it reaches zero.  (The fields of a dropped entry are cleared.)
Age(c, s, retries) ==
    LET kept == wait_ttl[c][s] > 1 IN
    /\ write_msg_Q' = IF kept THEN write_msg_Q
                      ELSE [write_msg_Q EXCEPT ![c] = @ \ {s}]
    /\ wait_ttl' = [wait_ttl EXCEPT ![c][s] = IF kept THEN @ - 1 ELSE 0]
    /\ retry_times' = [retry_times EXCEPT ![c][s] = IF kept THEN retries ELSE 0]
    /\ loop' = [loop EXCEPT ![c] = @ \ {s}]

\* One round of the loop that does not write.
RtoWait(c, s) ==
    /\ writer[c] = "loop"
    /\ s \in loop[c]
    /\ ~Overdue(c, s)
    /\ Age(c, s, retry_times[c][s])
    /\ writer' = [writer EXCEPT ![c] = IF loop[c] = {s} THEN "select" ELSE @]
    /\ UNCHANGED <<send, counting, readerVars, frames, acks, statVars, sends,
                   acked>>

\* Mutant of RtoRetry: retry_times is not counted down.
RtoRetryUncounted(c, s) ==
    /\ writer[c] = "loop"
    /\ s \in loop[c]
    /\ Overdue(c, s)
    /\ Age(c, s, retry_times[c][s])
    /\ Transmit(c, s)
    /\ counting' = [counting EXCEPT ![c] = {s}]
    /\ writer' = [writer EXCEPT ![c] = "count"]
    /\ UNCHANGED <<send, readerVars, acks, statVars, acked>>

\* One round of the loop that writes the message again.
RtoRetry(c, s) ==
    /\ writer[c] = "loop"
    /\ s \in loop[c]
    /\ Overdue(c, s)
    /\ Age(c, s, retry_times[c][s] - 1)
    /\ Transmit(c, s)
    /\ counting' = [counting EXCEPT ![c] = {s}]
    /\ writer' = [writer EXCEPT ![c] = "count"]
    /\ UNCHANGED <<send, readerVars, acks, statVars, acked>>

\* The ping fails, or c.send is closed.
WriterEnds(c) ==
    /\ writer[c] = "select"
    /\ writer' = [writer EXCEPT ![c] = "done"]
    /\ UNCHANGED <<send, queueVars, loop, counting, readerVars, frames, acks,
                   statVars, sends, acked>>

----------------------------------------------------------------------------
(* checkPongMessage                                                        *)

\* Mutant of ReadAck: the ACK is counted without being handed over.
ReadAckCountsFirst(c) ==
    /\ reader[c] = "reading"
    /\ acks[c] # <<>>
    /\ WsOpen(c)
    /\ ack_seq' = [ack_seq EXCEPT ![c] = Head(acks[c])]
    /\ acks' = [acks EXCEPT ![c] = Tail(@)]
    /\ reader' = [reader EXCEPT ![c] = "stat"]
    /\ UNCHANGED <<send, queueVars, writer, loop, counting, frames, statVars,
                   sends, acked>>

\* A frame of msg_type 3 is read; the reader waits on c.recv_ack_seq.
ReadAck(c) ==
    /\ reader[c] = "reading"
    /\ acks[c] # <<>>
    /\ WsOpen(c)
    /\ ack_seq' = [ack_seq EXCEPT ![c] = Head(acks[c])]
    /\ acks' = [acks EXCEPT ![c] = Tail(@)]
    /\ reader' = [reader EXCEPT ![c] = "acking"]
    /\ UNCHANGED <<send, queueVars, writer, loop, counting, frames, statVars,
                   sends, acked>>

\* Mutants of TakeAck: the entry stays in write_msg_Q; or an ACK is taken
\* only while its message is kept.
TakeAckKeeps(c) ==
    /\ reader[c] = "acking"
    /\ writer[c] = "select"
    /\ acked' = [acked EXCEPT ![c] = @ \cup (write_msg_Q[c] \cap {ack_seq[c]})]
    /\ reader' = [reader EXCEPT ![c] = "stat"]
    /\ UNCHANGED <<send, queueVars, writer, loop, counting, ack_seq, frames,
                   acks, statVars, sends>>

TakeAckKnown(c) ==
    /\ reader[c] = "acking"
    /\ writer[c] = "select"
    /\ ack_seq[c] \in write_msg_Q[c]
    /\ acked' = [acked EXCEPT ![c] = @ \cup {ack_seq[c]}]
    /\ write_msg_Q' = [write_msg_Q EXCEPT ![c] = @ \ {ack_seq[c]}]
    /\ retry_times' = [retry_times EXCEPT ![c][ack_seq[c]] = 0]
    /\ wait_ttl' = [wait_ttl EXCEPT ![c][ack_seq[c]] = 0]
    /\ reader' = [reader EXCEPT ![c] = "stat"]
    /\ UNCHANGED <<send, writer, loop, counting, ack_seq, frames, acks,
                   statVars, sends>>

\* case ack_seq := <-c.recv_ack_seq of writeRTO.
TakeAck(c) ==
    LET gone == write_msg_Q[c] \cap {ack_seq[c]} IN
    /\ reader[c] = "acking"
    /\ writer[c] = "select"
    /\ acked' = [acked EXCEPT ![c] = @ \cup gone]
    /\ write_msg_Q' = [write_msg_Q EXCEPT ![c] = @ \ gone]
    /\ retry_times' = [retry_times EXCEPT ![c] =
                         [s \in Seqs |-> IF s \in gone THEN 0 ELSE @[s]]]
    /\ wait_ttl' = [wait_ttl EXCEPT ![c] =
                         [s \in Seqs |-> IF s \in gone THEN 0 ELSE @[s]]]
    /\ reader' = [reader EXCEPT ![c] = "stat"]
    /\ UNCHANGED <<send, writer, loop, counting, ack_seq, frames, acks,
                   statVars, sends>>

\* hrooms.recv_ack_ch <- ack_seq meets the receive in msg_ack_stat, which
\* passes over a number it does not know.
CountAck(c) ==
    /\ reader[c] = "stat"
    /\ recv_ack_cnt' = [s \in Seqs |-> IF s = ack_seq[c] THEN recv_ack_cnt[s] + 1
                                                        ELSE recv_ack_cnt[s]]
    /\ reader' = [reader EXCEPT ![c] = "reading"]
    /\ UNCHANGED <<send, queueVars, writer, loop, counting, ack_seq, frames,
                   acks, send_msg_cnt, sends, acked>>

\* ReadMessage fails, and ws is closed.
ReadFails(c) ==
    /\ reader[c] = "reading"
    /\ reader' = [reader EXCEPT ![c] = "done"]
    /\ UNCHANGED <<send, queueVars, writer, loop, counting, ack_seq, frames,
                   acks, statVars, sends, acked>>

----------------------------------------------------------------------------

\* The peer reads a push frame and answers it; an answer may get lost.
ClientReceive(c) ==
    /\ frames[c] # <<>>
    /\ frames' = [frames EXCEPT ![c] = Tail(@)]
    /\ \/ acks' = [acks EXCEPT ![c] = Append(@, Head(frames[c]))]
       \/ UNCHANGED acks
    /\ UNCHANGED <<send, queueVars, writer, loop, counting, readerVars,
                   statVars, sends, acked>>

\* The steps of writeRTO that wait for nothing but msg_ack_stat and the clock.
WriterStep(c) ==
    \/ \E s \in Seqs : WritePush(c, s) \/ CountSend(c, s) \/ RtoWait(c, s)
                         \/ RtoRetry(c, s)
    \/ RtoTick(c)

ReaderStep(c) == ReadAck(c) \/ TakeAck(c) \/ CountAck(c) \/ ReadFails(c)

Next ==
    \E c \in Conns : \/ WriterStep(c) \/ WriterEnds(c)
                     \/ ReaderStep(c) \/ ClientReceive(c)

Spec == Init /\ [][Next]_vars

\* writeRTO and msg_ack_stat run when they can and rto_ticker ticks; a select
\* chooses among its ready cases at random, so an ACK that is offered again
\* and again is taken.  Nothing is assumed of the peer or of the socket.
Fairness ==
    \A c \in Conns : /\ WF_vars(WriterStep(c))
                     /\ SF_vars(RtoTick(c))
                     /\ SF_vars(TakeAck(c))
                     /\ WF_vars(CountAck(c))

FairSpec == Spec /\ Fairness

----------------------------------------------------------------------------

\* A message is written to a peer at most max_retry_ttl times, the first time
\* included, whatever ACKs come and however the retry marks fall
\* (retry_times and wait_ttl in writeRTO).
SendsBounded == \A c \in Conns, s \in Seqs : sends[c][s] <= max_retry_ttl

\* While a write is being counted its message is still kept: the tick that
\* gives up a message does not write it once more.  (Holds when the marks
\* are at least two ticks apart, as with the configured 64 and 8.)
DropIsFinal == \A c \in Conns : counting[c] \subseteq write_msg_Q[c]

\* Once writeRTO has taken the ACK of a message, it never writes that message
\* to this peer again.
AckStops ==
    [][\A c \in Conns : \A s \in acked[c] : sends'[c][s] = sends[c][s]]_vars

\* `stats` never shows more ACKs than writes for a message, although the two
\* are counted by different goroutines: an ACK is counted after its reader
\* has met writeRTO, which is past counting the write.
AckStatBounded == \A s \in Seqs : recv_ack_cnt[s] <= send_msg_cnt[s]

\* A message does not stay in write_msg_Q: it is acknowledged, or given up
\* after max_wait_ttl ticks, unless writeRTO has returned.
QueueDrains ==
    \A c \in Conns, s \in Seqs :
        s \in write_msg_Q[c] ~> s \notin write_msg_Q[c] \/ writer[c] = "done"

\* A reader with an ACK in hand gets rid of it, unless writeRTO has returned.
AckTaken ==
    \A c \in Conns : reader[c] = "acking" ~>
                         reader[c] # "acking" \/ writer[c] = "done"
=============================================================================
