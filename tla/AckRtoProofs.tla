---------------------------- MODULE AckRtoProofs ----------------------------
(***************************************************************************)
(* Proofs about AckRto, for any number of connections and messages and any *)
(* positive setting of max_retry_ttl and max_wait_ttl.                     *)
(***************************************************************************)
EXTENDS AckRto, TLAPS

\* Where the loop and the counting stand: only a tick has a loop, only a
\* write is counted, and the loop runs over messages that are kept.
LoopInv ==
    \A c \in Conns :
        /\ loop[c] \subseteq write_msg_Q[c]
        /\ loop[c] # {} => writer[c] \in {"loop", "count"}
        /\ counting[c] # {} => writer[c] = "count"

\* The budget of a kept message: it has time and tries left, and every write
\* has cost it one try.
BudgetInv ==
    \A c \in Conns :
        /\ \A s \in write_msg_Q[c] :
              /\ s \notin send[c]
              /\ wait_ttl[c][s] >= 1
              /\ retry_times[c][s] >= 1
              /\ sends[c][s] + retry_times[c][s] = max_retry_ttl + 1
        /\ \A s \in send[c] : sends[c][s] = 0
        /\ \A s \in acked[c] : s \notin write_msg_Q[c] /\ s \notin send[c]

\* TypeOK in two parts: the messages, and the goroutines with what they
\* exchange.
MessageType ==
    /\ send \in [Conns -> SUBSET Seqs]
    /\ write_msg_Q \in [Conns -> SUBSET Seqs]
    /\ retry_times \in [Conns -> [Seqs -> 0 .. max_retry_ttl]]
    /\ wait_ttl \in [Conns -> [Seqs -> 0 .. max_wait_ttl]]
    /\ sends \in [Conns -> [Seqs -> Nat]]
    /\ acked \in [Conns -> SUBSET Seqs]

ControlType ==
    /\ writer \in [Conns -> {"select", "loop", "count", "done"}]
    /\ loop \in [Conns -> SUBSET Seqs]
    /\ counting \in [Conns -> SUBSET Seqs]
    /\ reader \in [Conns -> {"reading", "acking", "stat", "done"}]
    /\ ack_seq \in [Conns -> WireSeqs]
    /\ frames \in [Conns -> Seq(WireSeqs)]
    /\ acks \in [Conns -> Seq(WireSeqs)]
    /\ send_msg_cnt \in [Seqs -> Nat]
    /\ recv_ack_cnt \in [Seqs -> Nat]

\* The type invariant falls into the two halves that most steps change one of.
LEMMA TypeParts == TypeOK <=> MessageType /\ ControlType
BY DEF TypeOK, MessageType, ControlType

\* The same after a step.
LEMMA TypePartsPrimed == TypeOK' <=> MessageType' /\ ControlType'
BY DEF TypeOK, MessageType, ControlType

RtoInv == TypeOK /\ LoopInv /\ BudgetInv /\ SendsBounded

----------------------------------------------------------------------------
(* Arithmetic of the retry marks                                           *)

\* max_wait_ttl / max_retry_ttl, the distance of two retry marks in writeRTO.
LEMMA StepType ==
    /\ Step \in Nat
    /\ max_retry_ttl * Step <= max_wait_ttl
BY AckRtoConstants DEF AckRtoConstants, Step

\* A message that is due has at least two tries left.
LEMMA OverdueTries ==
    ASSUME NEW r \in Nat, NEW w \in Nat, w >= 1, r >= 1,
           w - 1 < (r - 1) * Step
    PROVE  r >= 2
<1>1. CASE r = 1
  <2>1. (r - 1) * Step = 0
    BY <1>1, StepType
  <2> QED BY <2>1
<1>2. CASE r # 1
  BY <1>2
<1> QED BY <1>1, <1>2

----------------------------------------------------------------------------

\* send_push_msg_to_peer keeps the types and is counted once in the history.
LEMMA TransmitType ==
    ASSUME TypeOK, NEW c \in Conns, NEW s \in Seqs, Transmit(c, s)
    PROVE  /\ frames' \in [Conns -> Seq(WireSeqs)]
           /\ sends' \in [Conns -> [Seqs -> Nat]]
           /\ sends' = [sends EXCEPT ![c][s] = @ + 1]
<1>1. WireSeq(s) \in WireSeqs
  BY AckRtoConstants DEF AckRtoConstants, WireSeq, WireSeqs
<1>2. Append(frames[c], WireSeq(s)) \in Seq(WireSeqs)
  BY <1>1 DEF TypeOK
<1>3. frames' \in [Conns -> Seq(WireSeqs)]
  BY <1>2 DEF Transmit, TypeOK
<1>4. sends' \in [Conns -> [Seqs -> Nat]]
  BY DEF Transmit, TypeOK
<1> QED BY <1>3, <1>4 DEF Transmit

\* The first write of a message starts with the full number of tries.
LEMMA InvWritePush ==
    ASSUME RtoInv, NEW c \in Conns, NEW s \in Seqs, WritePush(c, s)
    PROVE  RtoInv'
<1> USE AckRtoConstants DEF AckRtoConstants
<1>1. /\ frames' \in [Conns -> Seq(WireSeqs)]
      /\ sends' \in [Conns -> [Seqs -> Nat]]
      /\ sends' = [sends EXCEPT ![c][s] = @ + 1]
  BY TransmitType DEF WritePush, RtoInv
<1>a. MessageType /\ ControlType
  BY TypeParts DEF RtoInv
<1>b. /\ send' = [send EXCEPT ![c] = @ \ {s}]
      /\ write_msg_Q' = [write_msg_Q EXCEPT ![c] = @ \cup {s}]
      /\ retry_times' = [retry_times EXCEPT ![c][s] = max_retry_ttl]
      /\ wait_ttl' = [wait_ttl EXCEPT ![c][s] = max_wait_ttl]
      /\ UNCHANGED acked
  BY DEF WritePush
<1>2. TypeOK'
  <2>1. /\ retry_times' \in [Conns -> [Seqs -> 0 .. max_retry_ttl]]
        /\ wait_ttl' \in [Conns -> [Seqs -> 0 .. max_wait_ttl]]
    BY <1>a, <1>b DEF MessageType
  <2>2. MessageType'
    BY <1>1, <1>a, <1>b, <2>1, SMTT(30) DEF MessageType
  <2>3. ControlType'
    BY <1>1, <1>a DEF ControlType, WritePush, readerVars, statVars
  <2> QED BY <2>2, <2>3, TypePartsPrimed
<1>3. sends[c][s] = 0 /\ s \notin acked[c] /\ s \notin write_msg_Q[c]
  BY DEF WritePush, RtoInv, BudgetInv
<1>4. LoopInv'
  BY DEF RtoInv, TypeOK, LoopInv, WritePush
<1>5. BudgetInv'
  <2>1. ASSUME NEW d \in Conns, NEW t \in write_msg_Q'[d]
        PROVE  /\ t \notin send'[d]
               /\ wait_ttl'[d][t] >= 1
               /\ retry_times'[d][t] >= 1
               /\ sends'[d][t] + retry_times'[d][t] = max_retry_ttl + 1
    <3>1. CASE d = c /\ t = s
      BY <1>1, <1>3, <1>a, <1>b, <3>1 DEF MessageType
    <3>2. CASE ~(d = c /\ t = s)
      <4>1. t \in write_msg_Q[d] /\ t \in Seqs
        BY <1>a, <1>b, <3>2 DEF MessageType
      <4>2. /\ send'[d] \subseteq send[d]
            /\ wait_ttl'[d][t] = wait_ttl[d][t]
            /\ retry_times'[d][t] = retry_times[d][t]
            /\ sends'[d][t] = sends[d][t]
        BY <1>1, <1>a, <1>b, <3>2, <4>1 DEF MessageType
      <4> QED BY <4>1, <4>2 DEF RtoInv, BudgetInv
    <3> QED BY <3>1, <3>2
  <2>2. ASSUME NEW d \in Conns, NEW t \in send'[d]
        PROVE  sends'[d][t] = 0
    <3>1. t \in send[d] /\ t \in Seqs /\ ~(d = c /\ t = s)
      BY <1>a, <1>b DEF MessageType
    <3>2. sends'[d][t] = sends[d][t]
      BY <1>1, <1>a, <3>1 DEF MessageType
    <3> QED BY <3>1, <3>2 DEF RtoInv, BudgetInv
  <2>3. ASSUME NEW d \in Conns, NEW t \in acked'[d]
        PROVE  t \notin write_msg_Q'[d] /\ t \notin send'[d]
    BY <1>3, <1>a, <1>b DEF RtoInv, BudgetInv, MessageType
  <2> QED BY <2>1, <2>2, <2>3 DEF BudgetInv
<1>6. SendsBounded'
  BY <1>1, <1>3 DEF RtoInv, TypeOK, SendsBounded
<1> QED BY <1>2, <1>4, <1>5, <1>6 DEF RtoInv

\* What one round of the loop does to the entry of s; k is the new
\* retry_times.
LEMMA InvAge ==
    ASSUME RtoInv, NEW c \in Conns, NEW s \in loop[c], NEW k \in Nat,
           k >= 1, k <= max_retry_ttl, Age(c, s, k)
    PROVE  /\ s \in Seqs
           /\ write_msg_Q' \in [Conns -> SUBSET Seqs]
           /\ retry_times' \in [Conns -> [Seqs -> 0 .. max_retry_ttl]]
           /\ wait_ttl' \in [Conns -> [Seqs -> 0 .. max_wait_ttl]]
           /\ loop' \in [Conns -> SUBSET Seqs]
           /\ \A d \in Conns :
                 /\ loop'[d] \subseteq write_msg_Q'[d]
                 /\ write_msg_Q'[d] \subseteq write_msg_Q[d]
                 /\ loop'[d] \subseteq loop[d]
                 /\ \A t \in write_msg_Q'[d] :
                       /\ wait_ttl'[d][t] >= 1
                       /\ retry_times'[d][t] =
                             IF d = c /\ t = s THEN k ELSE retry_times[d][t]
<1>1. s \in Seqs /\ s \in write_msg_Q[c]
  BY DEF RtoInv, TypeOK, LoopInv
<1>2. wait_ttl[c][s] \in 1 .. max_wait_ttl
  BY <1>1, AckRtoConstants DEF RtoInv, BudgetInv, TypeOK, AckRtoConstants
<1>a. MessageType /\ loop \in [Conns -> SUBSET Seqs]
  BY TypeParts DEF RtoInv, ControlType
<1>b. \A d \in Conns : \A t \in write_msg_Q[d] : wait_ttl[d][t] >= 1
  BY DEF RtoInv, BudgetInv
<1>c. \A d \in Conns : loop[d] \subseteq write_msg_Q[d]
  BY DEF RtoInv, LoopInv
<1>3. CASE wait_ttl[c][s] > 1
  <2>1. /\ write_msg_Q' = write_msg_Q
        /\ wait_ttl' = [wait_ttl EXCEPT ![c][s] = @ - 1]
        /\ retry_times' = [retry_times EXCEPT ![c][s] = k]
        /\ loop' = [loop EXCEPT ![c] = @ \ {s}]
    BY <1>3 DEF Age
  <2>2. retry_times' \in [Conns -> [Seqs -> 0 .. max_retry_ttl]]
    BY <1>a, <2>1, AckRtoConstants DEF MessageType, AckRtoConstants
  <2>3. wait_ttl' \in [Conns -> [Seqs -> 0 .. max_wait_ttl]]
    BY <1>2, <1>a, <2>1, AckRtoConstants DEF MessageType, AckRtoConstants
  <2>4. \A d \in Conns : loop'[d] \subseteq loop[d]
    BY <1>a, <2>1
  <2>5. \A d \in Conns : \A t \in write_msg_Q[d] : wait_ttl'[d][t] >= 1
    BY <1>1, <1>2, <1>3, <1>a, <1>b, <2>1 DEF MessageType
  <2>6. \A d \in Conns : \A t \in write_msg_Q[d] :
           retry_times'[d][t] = IF d = c /\ t = s THEN k ELSE retry_times[d][t]
    BY <1>1, <1>a, <2>1 DEF MessageType
  <2>7. loop' \in [Conns -> SUBSET Seqs]
    BY <1>a, <2>1
  <2> QED BY <1>1, <1>a, <1>c, <2>1, <2>2, <2>3, <2>4, <2>5, <2>6, <2>7
             DEF MessageType
<1>4. CASE ~(wait_ttl[c][s] > 1)
  BY <1>1, <1>2, <1>4, AckRtoConstants, SMTT(30)
     DEF Age, RtoInv, TypeOK, LoopInv, BudgetInv, AckRtoConstants
<1> QED BY <1>2, <1>3, <1>4

\* A round of the rto_ticker loop that does not write keeps the invariant.
LEMMA InvRtoWait ==
    ASSUME RtoInv, NEW c \in Conns, NEW s \in Seqs, RtoWait(c, s)
    PROVE  RtoInv'
<1>1. s \in loop[c] /\ s \in write_msg_Q[c]
  BY DEF RtoWait, RtoInv, LoopInv
<1>2. /\ retry_times[c][s] \in Nat
      /\ retry_times[c][s] >= 1
      /\ retry_times[c][s] <= max_retry_ttl
  BY <1>1, AckRtoConstants DEF RtoInv, TypeOK, BudgetInv, AckRtoConstants
<1>3. Age(c, s, retry_times[c][s])
  BY DEF RtoWait
<1> DEFINE Aged ==
      /\ write_msg_Q' \in [Conns -> SUBSET Seqs]
      /\ retry_times' \in [Conns -> [Seqs -> 0 .. max_retry_ttl]]
      /\ wait_ttl' \in [Conns -> [Seqs -> 0 .. max_wait_ttl]]
      /\ loop' \in [Conns -> SUBSET Seqs]
      /\ \A d \in Conns :
            /\ loop'[d] \subseteq write_msg_Q'[d]
            /\ write_msg_Q'[d] \subseteq write_msg_Q[d]
            /\ loop'[d] \subseteq loop[d]
            /\ \A t \in write_msg_Q'[d] :
                  /\ wait_ttl'[d][t] >= 1
                  /\ retry_times'[d][t] = retry_times[d][t]
<1>4. Aged
  BY <1>1, <1>2, <1>3, InvAge
<1>5. TypeOK'
  BY <1>4 DEF RtoInv, TypeOK, RtoWait, readerVars, statVars
<1>6. LoopInv'
  <2>1. loop' = [loop EXCEPT ![c] = @ \ {s}]
    BY DEF RtoWait, Age
  <2> QED BY <1>1, <1>4, <2>1, ZenonT(60) DEF RtoInv, TypeOK, LoopInv, RtoWait
<1>7. BudgetInv'
  <2>1. UNCHANGED <<send, sends, acked>>
    BY DEF RtoWait
  <2>2. ASSUME NEW d \in Conns, NEW t \in write_msg_Q'[d]
        PROVE  /\ t \notin send'[d]
               /\ wait_ttl'[d][t] >= 1
               /\ retry_times'[d][t] >= 1
               /\ sends'[d][t] + retry_times'[d][t] = max_retry_ttl + 1
    <3>1. /\ t \in write_msg_Q[d]
          /\ wait_ttl'[d][t] >= 1
          /\ retry_times'[d][t] = retry_times[d][t]
      BY <1>4
    <3> QED BY <2>1, <3>1 DEF RtoInv, BudgetInv
  <2>3. ASSUME NEW d \in Conns, NEW t \in acked'[d]
        PROVE  t \notin write_msg_Q'[d] /\ t \notin send'[d]
    BY <1>4, <2>1 DEF RtoInv, BudgetInv
  <2> QED BY <2>1, <2>2, <2>3 DEF RtoInv, BudgetInv
<1>8. SendsBounded'
  BY DEF RtoInv, SendsBounded, RtoWait
<1> QED BY <1>5, <1>6, <1>7, <1>8 DEF RtoInv

\* A round that writes again pays for it with one of the tries left.
LEMMA InvRtoRetry ==
    ASSUME RtoInv, NEW c \in Conns, NEW s \in Seqs, RtoRetry(c, s)
    PROVE  RtoInv'
<1>1. s \in loop[c] /\ s \in write_msg_Q[c] /\ s \notin acked[c]
  BY DEF RtoRetry, RtoInv, LoopInv, BudgetInv
<1>2. /\ retry_times[c][s] \in Nat
      /\ retry_times[c][s] >= 2
      /\ retry_times[c][s] <= max_retry_ttl
      /\ sends[c][s] \in Nat
      /\ sends[c][s] + retry_times[c][s] = max_retry_ttl + 1
  <2>1. /\ retry_times[c][s] \in Nat /\ retry_times[c][s] <= max_retry_ttl
        /\ wait_ttl[c][s] \in Nat
        /\ retry_times[c][s] >= 1 /\ wait_ttl[c][s] >= 1
        /\ sends[c][s] \in Nat
        /\ sends[c][s] + retry_times[c][s] = max_retry_ttl + 1
    BY <1>1, AckRtoConstants DEF RtoInv, TypeOK, BudgetInv, AckRtoConstants
  <2>2. wait_ttl[c][s] - 1 < (retry_times[c][s] - 1) * Step
    BY DEF RtoRetry, Overdue
  <2> QED BY <2>1, <2>2, OverdueTries
<1>3. Age(c, s, retry_times[c][s] - 1)
  BY DEF RtoRetry
<1> DEFINE Aged ==
      /\ write_msg_Q' \in [Conns -> SUBSET Seqs]
      /\ retry_times' \in [Conns -> [Seqs -> 0 .. max_retry_ttl]]
      /\ wait_ttl' \in [Conns -> [Seqs -> 0 .. max_wait_ttl]]
      /\ loop' \in [Conns -> SUBSET Seqs]
      /\ \A d \in Conns :
            /\ loop'[d] \subseteq write_msg_Q'[d]
            /\ write_msg_Q'[d] \subseteq write_msg_Q[d]
            /\ loop'[d] \subseteq loop[d]
            /\ \A t \in write_msg_Q'[d] :
                  /\ wait_ttl'[d][t] >= 1
                  /\ retry_times'[d][t] = IF d = c /\ t = s
                                          THEN retry_times[c][s] - 1
                                          ELSE retry_times[d][t]
<1>4. Aged
  <2>1. /\ retry_times[c][s] - 1 \in Nat
        /\ retry_times[c][s] - 1 >= 1
        /\ retry_times[c][s] - 1 <= max_retry_ttl
    BY <1>2, AckRtoConstants DEF AckRtoConstants
  <2> HIDE DEF Aged
  <2>2. s \in loop[c] => Aged
    BY <1>3, <2>1, InvAge DEF Aged
  <2> QED BY <1>1, <2>2
<1>5. /\ frames' \in [Conns -> Seq(WireSeqs)]
      /\ sends' \in [Conns -> [Seqs -> Nat]]
      /\ sends' = [sends EXCEPT ![c][s] = @ + 1]
  BY TransmitType DEF RtoRetry, RtoInv
<1>6. TypeOK'
  BY <1>4, <1>5, SMTT(30) DEF RtoInv, TypeOK, RtoRetry, readerVars, statVars
<1>7. LoopInv'
  <2>1. writer' = [writer EXCEPT ![c] = "count"] /\ writer \in [Conns -> {"select", "loop", "count", "done"}]
    BY DEF RtoRetry, RtoInv, TypeOK
  <2>2. counting' = [counting EXCEPT ![c] = {s}]
    BY DEF RtoRetry
  <2> QED BY <1>4, <2>1, <2>2, SMTT(30) DEF RtoInv, TypeOK, LoopInv
<1>8. BudgetInv'
  <2>1. UNCHANGED <<send, acked>> /\ s \notin send[c]
    BY <1>1 DEF RtoRetry, RtoInv, BudgetInv
  <2>2. \A d \in Conns, t \in Seqs :
           sends'[d][t] = IF d = c /\ t = s THEN sends[c][s] + 1 ELSE sends[d][t]
    BY <1>5 DEF RtoInv, TypeOK
  <2>3. ASSUME NEW d \in Conns, NEW t \in write_msg_Q'[d]
        PROVE  /\ t \notin send'[d]
               /\ wait_ttl'[d][t] >= 1
               /\ retry_times'[d][t] >= 1
               /\ sends'[d][t] + retry_times'[d][t] = max_retry_ttl + 1
    <3>1. t \in Seqs /\ t \in write_msg_Q[d]
      BY <1>4
    <3>2. CASE d = c /\ t = s
      <4>1. /\ retry_times'[d][t] = retry_times[c][s] - 1
            /\ wait_ttl'[d][t] >= 1
            /\ sends'[d][t] = sends[c][s] + 1
        BY <1>4, <2>2, <3>1, <3>2
      <4> QED BY <1>2, <2>1, <3>2, <4>1, AckRtoConstants DEF AckRtoConstants
    <3>3. CASE ~(d = c /\ t = s)
      BY <1>4, <2>1, <2>2, <3>1, <3>3 DEF RtoInv, BudgetInv
    <3> QED BY <3>2, <3>3
  <2>4. ASSUME NEW d \in Conns, NEW t \in send'[d]
        PROVE  sends'[d][t] = 0
    <3>1. t \in Seqs /\ t \in send[d]
      BY <2>1 DEF RtoInv, TypeOK
    <3> QED BY <2>1, <2>2, <3>1 DEF RtoInv, BudgetInv
  <2>5. ASSUME NEW d \in Conns, NEW t \in acked'[d]
        PROVE  t \notin write_msg_Q'[d] /\ t \notin send'[d]
    BY <1>4, <2>1 DEF RtoInv, BudgetInv
  <2> QED BY <2>3, <2>4, <2>5 DEF BudgetInv
<1>9. SendsBounded'
  BY <1>2, <1>5, AckRtoConstants, SMTT(30) DEF RtoInv, TypeOK, SendsBounded, AckRtoConstants
<1> QED BY <1>6, <1>7, <1>8, <1>9 DEF RtoInv

\* Taking an ACK out of recv_ack_seq ends the message for this connection.
LEMMA InvTakeAck ==
    ASSUME RtoInv, NEW c \in Conns, TakeAck(c)
    PROVE  RtoInv'
<1> DEFINE gone == write_msg_Q[c] \cap {ack_seq[c]}
<1>1. /\ acked' = [acked EXCEPT ![c] = @ \cup gone]
      /\ write_msg_Q' = [write_msg_Q EXCEPT ![c] = @ \ gone]
      /\ retry_times' = [retry_times EXCEPT ![c] =
                           [s \in Seqs |-> IF s \in gone THEN 0 ELSE @[s]]]
      /\ wait_ttl' = [wait_ttl EXCEPT ![c] =
                           [s \in Seqs |-> IF s \in gone THEN 0 ELSE @[s]]]
      /\ reader' = [reader EXCEPT ![c] = "stat"]
      /\ writer[c] = "select"
      /\ UNCHANGED <<send, writer, loop, counting, ack_seq, frames, acks,
                     statVars, sends>>
  BY DEF TakeAck
<1>2. gone \subseteq Seqs /\ gone \subseteq write_msg_Q[c]
  BY DEF RtoInv, TypeOK
<1> HIDE DEF gone
<1>3. TypeOK'
  <2>1. /\ acked' \in [Conns -> SUBSET Seqs]
        /\ write_msg_Q' \in [Conns -> SUBSET Seqs]
    BY <1>1, <1>2 DEF RtoInv, TypeOK
  <2>2. retry_times' \in [Conns -> [Seqs -> 0 .. max_retry_ttl]]
    BY <1>1, AckRtoConstants DEF RtoInv, TypeOK, AckRtoConstants
  <2>3. wait_ttl' \in [Conns -> [Seqs -> 0 .. max_wait_ttl]]
    BY <1>1, AckRtoConstants DEF RtoInv, TypeOK, AckRtoConstants
  <2> QED BY <1>1, <2>1, <2>2, <2>3 DEF RtoInv, TypeOK, statVars
<1>4. LoopInv'
  <2>1. loop[c] = {}
    BY <1>1 DEF RtoInv, LoopInv
  <2> QED BY <1>1, <2>1 DEF RtoInv, TypeOK, LoopInv
<1>5. BudgetInv'
  <2>1. ASSUME NEW d \in Conns, NEW t \in write_msg_Q'[d]
        PROVE  /\ t \in write_msg_Q[d] /\ t \in Seqs
               /\ wait_ttl'[d][t] = wait_ttl[d][t]
               /\ retry_times'[d][t] = retry_times[d][t]
    BY <1>1 DEF RtoInv, TypeOK
  <2>2. ASSUME NEW d \in Conns, NEW t \in acked'[d]
        PROVE  t \notin write_msg_Q'[d] /\ t \notin send'[d]
    BY <1>1, <1>2 DEF RtoInv, TypeOK, BudgetInv
  <2>3. ASSUME NEW d \in Conns, NEW t \in write_msg_Q'[d]
        PROVE  /\ t \notin send'[d]
               /\ wait_ttl'[d][t] >= 1
               /\ retry_times'[d][t] >= 1
               /\ sends'[d][t] + retry_times'[d][t] = max_retry_ttl + 1
    <3>1. /\ t \in write_msg_Q[d]
          /\ wait_ttl'[d][t] = wait_ttl[d][t]
          /\ retry_times'[d][t] = retry_times[d][t]
      BY <2>1
    <3>2. send' = send /\ sends' = sends
      BY <1>1
    <3> QED BY <3>1, <3>2 DEF RtoInv, BudgetInv
  <2> QED BY <1>1, <2>2, <2>3 DEF RtoInv, BudgetInv
<1>6. SendsBounded'
  BY <1>1 DEF RtoInv, SendsBounded
<1> QED BY <1>3, <1>4, <1>5, <1>6 DEF RtoInv

\* The other steps leave the queue, the budget and the history alone.
LEMMA InvOther ==
    ASSUME RtoInv, NEW c \in Conns,
           \/ \E s \in Seqs : CountSend(c, s)
           \/ RtoTick(c) \/ WriterEnds(c)
           \/ ReadAck(c) \/ CountAck(c) \/ ReadFails(c) \/ ClientReceive(c)
    PROVE  RtoInv'
<1>1. UNCHANGED <<send, write_msg_Q, retry_times, wait_ttl, sends, acked>>
  BY DEF CountSend, RtoTick, WriterEnds, ReadAck, CountAck, ReadFails,
         ClientReceive, queueVars
<1>2. BudgetInv' /\ SendsBounded'
  BY <1>1 DEF RtoInv, BudgetInv, SendsBounded
<1>a. ControlType /\ MessageType'
  BY <1>1, TypeParts DEF RtoInv, MessageType
<1>b. LoopInv
  BY DEF RtoInv
<1> HIDE DEF RtoInv
<1> USE DEF queueVars, readerVars, statVars
<1>3. ASSUME NEW s \in Seqs, CountSend(c, s)
      PROVE  ControlType' /\ LoopInv'
  <2>1. ControlType'
    BY <1>3, <1>a DEF ControlType, CountSend
  <2>2. LoopInv'
    BY <1>1, <1>3, <1>a, <1>b DEF ControlType, LoopInv, CountSend
  <2> QED BY <2>1, <2>2
<1>4. ASSUME RtoTick(c)
      PROVE  ControlType' /\ LoopInv'
  <2>1. ControlType'
    BY <1>1, <1>4, <1>a DEF ControlType, MessageType, RtoTick
  <2>2. LoopInv'
    BY <1>1, <1>4, <1>a, <1>b DEF ControlType, LoopInv, RtoTick
  <2> QED BY <2>1, <2>2
<1>5. ASSUME WriterEnds(c)
      PROVE  ControlType' /\ LoopInv'
  <2>1. ControlType'
    BY <1>5, <1>a DEF ControlType, WriterEnds
  <2>2. LoopInv'
    BY <1>1, <1>5, <1>a, <1>b DEF ControlType, LoopInv, WriterEnds
  <2> QED BY <2>1, <2>2
<1>6. ASSUME ReadAck(c)
      PROVE  ControlType' /\ LoopInv'
  <2>1. Head(acks[c]) \in WireSeqs /\ Tail(acks[c]) \in Seq(WireSeqs)
    <3>1. acks[c] \in Seq(WireSeqs) /\ acks[c] # <<>>
      BY <1>6, <1>a DEF ControlType, ReadAck
    <3> QED BY <3>1
  <2>2. ControlType'
    BY <1>6, <1>a, <2>1 DEF ControlType, ReadAck
  <2>3. LoopInv'
    BY <1>1, <1>6, <1>b DEF LoopInv, ReadAck
  <2> QED BY <2>2, <2>3
<1>7. ASSUME CountAck(c)
      PROVE  ControlType' /\ LoopInv'
  <2>1. ControlType'
    BY <1>7, <1>a DEF ControlType, CountAck
  <2>2. LoopInv'
    BY <1>1, <1>7, <1>b DEF LoopInv, CountAck
  <2> QED BY <2>1, <2>2
<1>8. ASSUME ReadFails(c)
      PROVE  ControlType' /\ LoopInv'
  <2>1. ControlType'
    BY <1>8, <1>a DEF ControlType, ReadFails
  <2>2. LoopInv'
    BY <1>1, <1>8, <1>b DEF LoopInv, ReadFails
  <2> QED BY <2>1, <2>2
<1>9. ASSUME ClientReceive(c)
      PROVE  ControlType' /\ LoopInv'
  <2>1. Head(frames[c]) \in WireSeqs /\ Tail(frames[c]) \in Seq(WireSeqs)
    <3>1. frames[c] \in Seq(WireSeqs) /\ frames[c] # <<>>
      BY <1>9, <1>a DEF ControlType, ClientReceive
    <3> QED BY <3>1
  <2>2. Append(acks[c], Head(frames[c])) \in Seq(WireSeqs)
    BY <1>a, <2>1 DEF ControlType
  <2>3. frames' \in [Conns -> Seq(WireSeqs)]
    BY <1>9, <1>a, <2>1 DEF ControlType, ClientReceive
  <2>4. acks' \in [Conns -> Seq(WireSeqs)]
    BY <1>9, <1>a, <2>2 DEF ControlType, ClientReceive
  <2>5. ControlType'
    BY <1>9, <1>a, <2>3, <2>4 DEF ControlType, ClientReceive
  <2>6. LoopInv'
    BY <1>1, <1>9, <1>b DEF LoopInv, ClientReceive
  <2> QED BY <2>5, <2>6
<1> HIDE DEF queueVars, readerVars, statVars
<1> QED
  BY <1>2, <1>3, <1>4, <1>5, <1>6, <1>7, <1>8, <1>9, <1>a, TypePartsPrimed
     DEF RtoInv

\* Every step keeps the inductive invariant.
LEMMA InvStep ==
    ASSUME RtoInv, [Next]_vars
    PROVE  RtoInv'
<1>1. CASE UNCHANGED vars
  BY <1>1 DEF vars, queueVars, readerVars, statVars, RtoInv, TypeOK, LoopInv,
              BudgetInv, SendsBounded
<1>2. CASE Next
  BY <1>2, InvWritePush, InvRtoWait, InvRtoRetry, InvTakeAck, InvOther
     DEF Next, WriterStep, ReaderStep
<1> QED BY <1>1, <1>2

\* The inductive invariant holds initially.
LEMMA InvInit == Init => RtoInv
<1> SUFFICES ASSUME Init PROVE RtoInv
  OBVIOUS
<1> USE AckRtoConstants DEF AckRtoConstants
<1>1. TypeOK
  BY DEF Init, TypeOK, WireSeqs
<1>2. LoopInv /\ BudgetInv /\ SendsBounded
  BY DEF Init, LoopInv, BudgetInv, SendsBounded
<1> QED BY <1>1, <1>2 DEF RtoInv

\* The inductive invariant holds throughout every behaviour.
LEMMA RtoInvariant == Spec => []RtoInv
BY InvInit, InvStep, PTL DEF Spec

\* The variables always have the types TypeOK gives them.
THEOREM TypeCorrect == Spec => []TypeOK
BY RtoInvariant, PTL DEF RtoInv

\* No message is written to a peer more than max_retry_ttl times, for every
\* setting of max_retry_ttl and max_wait_ttl.
THEOREM SendsBoundedCorrect == Spec => []SendsBounded
BY RtoInvariant, PTL DEF RtoInv
----------------------------------------------------------------------------
(* An acknowledged message is not written again                            *)

\* No step of writeRTO writes a message whose ACK it has taken: the message
\* is neither in c.send nor in write_msg_Q.
LEMMA AckStopsStep ==
    ASSUME RtoInv, [Next]_vars, NEW c \in Conns, NEW s \in acked[c]
    PROVE  sends'[c][s] = sends[c][s]
<1>1. s \in Seqs /\ s \notin write_msg_Q[c] /\ s \notin send[c]
  BY DEF RtoInv, TypeOK, BudgetInv
<1>2. ASSUME NEW d \in Conns, NEW t \in Seqs, Transmit(d, t), ~(d = c /\ t = s)
      PROVE  sends'[c][s] = sends[c][s]
  BY <1>1, <1>2 DEF Transmit, RtoInv, TypeOK
<1>3. ASSUME NEW d \in Conns, NEW t \in Seqs,
             WritePush(d, t) \/ RtoRetry(d, t)
      PROVE  sends'[c][s] = sends[c][s]
  <2>1. Transmit(d, t) /\ (t \in send[d] \/ t \in loop[d])
    BY <1>3 DEF WritePush, RtoRetry
  <2>2. ~(d = c /\ t = s)
    BY <1>1, <2>1 DEF RtoInv, LoopInv
  <2> QED BY <1>2, <2>1, <2>2
<1>4. CASE UNCHANGED vars
  BY <1>4 DEF vars
<1>5. ASSUME NEW d \in Conns,
             \/ \E t \in Seqs : CountSend(d, t) \/ RtoWait(d, t)
             \/ RtoTick(d) \/ WriterEnds(d) \/ ReaderStep(d)
             \/ ClientReceive(d)
      PROVE  sends'[c][s] = sends[c][s]
  BY <1>5 DEF CountSend, RtoWait, RtoTick, WriterEnds, ReaderStep, ReadAck,
              TakeAck, CountAck, ReadFails, ClientReceive
<1> QED BY <1>3, <1>4, <1>5 DEF Next, WriterStep

\* Once writeRTO has taken the ACK of a message it never writes it again, for
\* every order of ticks, ACKs and retries.
THEOREM AckStopsCorrect == Spec => AckStops
<1>1. RtoInv /\ [Next]_vars =>
        [\A c \in Conns : \A s \in acked[c] : sends'[c][s] = sends[c][s]]_vars
  BY AckStopsStep
<1> QED BY <1>1, RtoInvariant, PTL DEF Spec, AckStops
----------------------------------------------------------------------------
(* The tick that gives a message up does not write it                      *)

\* A kept message has not yet run past the mark of its next retry.
MarkInv ==
    \A c \in Conns : \A s \in write_msg_Q[c] :
        wait_ttl[c][s] >= (retry_times[c][s] - 1) * Step

\* The marks are Step ticks apart.
LEMMA MarkDistance ==
    ASSUME NEW r \in Nat, r >= 1
    PROVE  /\ (r - 1) * Step \in Int
           /\ (r - 1) * Step = (r - 1 - 1) * Step + Step
           /\ r >= 2 => (r - 1) * Step >= Step
<1>1. Step \in Nat
  BY StepType
<1>2. \A x, y \in Int : x * y \in Int /\ x * y = (x - 1) * y + y
  OBVIOUS
<1>3. \A x, y \in Nat : x >= 1 => x * y >= y
  OBVIOUS
<1> QED BY <1>1, <1>2, <1>3

\* A new message is not overdue: max_wait_ttl is above its first retry mark.
LEMMA FirstMark == max_wait_ttl >= (max_retry_ttl - 1) * Step
<1>1. max_retry_ttl * Step <= max_wait_ttl /\ Step \in Nat
  BY StepType
<1>2. max_retry_ttl * Step = (max_retry_ttl - 1) * Step + Step
  BY <1>1, AckRtoConstants DEF AckRtoConstants
<1>3. (max_retry_ttl - 1) * Step \in Int
  BY <1>1, AckRtoConstants DEF AckRtoConstants
<1> QED BY <1>1, <1>2, <1>3, AckRtoConstants DEF AckRtoConstants

\* The entry of a message after one round of the loop, if it is still kept.
LEMMA AgedEntry ==
    ASSUME RtoInv, NEW c \in Conns, NEW s \in loop[c], NEW k \in Nat,
           Age(c, s, k)
    PROVE  /\ s \in write_msg_Q'[c] => /\ wait_ttl[c][s] > 1
                                       /\ wait_ttl'[c][s] = wait_ttl[c][s] - 1
                                       /\ retry_times'[c][s] = k
           /\ wait_ttl[c][s] > 1 => s \in write_msg_Q'[c]
           /\ \A d \in Conns : \A t \in write_msg_Q'[d] :
                 /\ t \in write_msg_Q[d]
                 /\ ~(d = c /\ t = s) => /\ wait_ttl'[d][t] = wait_ttl[d][t]
                                         /\ retry_times'[d][t] = retry_times[d][t]
<1>1. s \in Seqs /\ s \in write_msg_Q[c] /\ MessageType
  BY TypeParts DEF RtoInv, TypeOK, LoopInv
<1>2. CASE wait_ttl[c][s] > 1
  <2>1. /\ write_msg_Q' = write_msg_Q
        /\ wait_ttl' = [wait_ttl EXCEPT ![c][s] = @ - 1]
        /\ retry_times' = [retry_times EXCEPT ![c][s] = k]
    BY <1>2 DEF Age
  <2> QED BY <1>1, <1>2, <2>1 DEF MessageType
<1>3. CASE ~(wait_ttl[c][s] > 1)
  <2>1. /\ write_msg_Q' = [write_msg_Q EXCEPT ![c] = @ \ {s}]
        /\ wait_ttl' = [wait_ttl EXCEPT ![c][s] = 0]
        /\ retry_times' = [retry_times EXCEPT ![c][s] = 0]
    BY <1>3 DEF Age
  <2> QED BY <1>1, <1>3, <2>1 DEF MessageType
<1> QED BY <1>2, <1>3

\* The budget of a message in the loop.
LEMMA LoopEntry ==
    ASSUME RtoInv, NEW c \in Conns, NEW s \in loop[c]
    PROVE  /\ s \in Seqs /\ s \in write_msg_Q[c]
           /\ retry_times[c][s] \in Nat /\ retry_times[c][s] >= 1
           /\ wait_ttl[c][s] \in Nat /\ wait_ttl[c][s] >= 1
BY AckRtoConstants DEF RtoInv, TypeOK, LoopInv, BudgetInv, AckRtoConstants

\* Every step keeps wait_ttl of a kept message at or above the mark of its
\* next retry: the tick that passes the mark writes and moves to the next.
LEMMA MarkStep ==
    ASSUME RtoInv, MarkInv, [Next]_vars
    PROVE  MarkInv'
<1>1. CASE UNCHANGED <<write_msg_Q, retry_times, wait_ttl>>
  BY <1>1 DEF MarkInv
<1>2. ASSUME NEW c \in Conns, NEW s \in Seqs, WritePush(c, s)
      PROVE  MarkInv'
  <2>1. /\ write_msg_Q' = [write_msg_Q EXCEPT ![c] = @ \cup {s}]
        /\ retry_times' = [retry_times EXCEPT ![c][s] = max_retry_ttl]
        /\ wait_ttl' = [wait_ttl EXCEPT ![c][s] = max_wait_ttl]
        /\ MessageType
    BY <1>2, TypeParts DEF WritePush, RtoInv
  <2> SUFFICES ASSUME NEW d \in Conns, NEW t \in write_msg_Q'[d]
               PROVE  wait_ttl'[d][t] >= (retry_times'[d][t] - 1) * Step
    BY DEF MarkInv
  <2>2. CASE d = c /\ t = s
    <3>1. wait_ttl'[d][t] = max_wait_ttl /\ retry_times'[d][t] = max_retry_ttl
      BY <2>1, <2>2 DEF MessageType
    <3> QED BY <3>1, FirstMark
  <2>3. CASE ~(d = c /\ t = s)
    <3>1. /\ t \in write_msg_Q[d]
          /\ wait_ttl'[d][t] = wait_ttl[d][t]
          /\ retry_times'[d][t] = retry_times[d][t]
      BY <2>1, <2>3 DEF MessageType
    <3> QED BY <3>1 DEF MarkInv
  <2> QED BY <2>2, <2>3
<1>3. ASSUME NEW c \in Conns, NEW s \in Seqs, RtoWait(c, s)
      PROVE  MarkInv'
  <2>1. s \in loop[c] /\ Age(c, s, retry_times[c][s]) /\ ~Overdue(c, s)
    BY <1>3 DEF RtoWait
  <2>2. /\ retry_times[c][s] \in Nat /\ retry_times[c][s] >= 1
        /\ wait_ttl[c][s] \in Nat /\ wait_ttl[c][s] >= 1
    BY <2>1, LoopEntry
  <2> SUFFICES ASSUME NEW d \in Conns, NEW t \in write_msg_Q'[d]
               PROVE  wait_ttl'[d][t] >= (retry_times'[d][t] - 1) * Step
    BY DEF MarkInv
  <2>3. CASE d = c /\ t = s
    <3>1. /\ wait_ttl'[d][t] = wait_ttl[c][s] - 1
          /\ retry_times'[d][t] = retry_times[c][s]
      BY <2>1, <2>2, <2>3, AgedEntry
    <3>2. (retry_times[c][s] - 1) * Step \in Int
      BY <2>2, MarkDistance
    <3> QED BY <2>1, <2>2, <3>1, <3>2 DEF Overdue
  <2>4. CASE ~(d = c /\ t = s)
    BY <2>1, <2>2, <2>4, AgedEntry DEF MarkInv
  <2> QED BY <2>3, <2>4
<1>4. ASSUME NEW c \in Conns, NEW s \in Seqs, RtoRetry(c, s)
      PROVE  MarkInv'
  <2>1. s \in loop[c] /\ Age(c, s, retry_times[c][s] - 1) /\ Overdue(c, s)
    BY <1>4 DEF RtoRetry
  <2>2. /\ retry_times[c][s] \in Nat /\ retry_times[c][s] >= 1
        /\ wait_ttl[c][s] \in Nat /\ wait_ttl[c][s] >= 1
        /\ s \in write_msg_Q[c]
    BY <2>1, LoopEntry
  <2>3. retry_times[c][s] >= 2 /\ retry_times[c][s] - 1 \in Nat
    BY <2>1, <2>2, OverdueTries DEF Overdue
  <2> SUFFICES ASSUME NEW d \in Conns, NEW t \in write_msg_Q'[d]
               PROVE  wait_ttl'[d][t] >= (retry_times'[d][t] - 1) * Step
    BY DEF MarkInv
  <2>4. CASE d = c /\ t = s
    <3> DEFINE mark == (retry_times[c][s] - 1) * Step
               next == (retry_times[c][s] - 1 - 1) * Step
    <3>1. /\ wait_ttl'[d][t] = wait_ttl[c][s] - 1
          /\ retry_times'[d][t] = retry_times[c][s] - 1
      BY <2>1, <2>3, <2>4, AgedEntry
    <3>2. /\ mark \in Int /\ next \in Int /\ mark = next + Step
          /\ Step \in Nat
      BY <2>2, <2>3, MarkDistance, StepType
    <3>3. wait_ttl[c][s] >= mark /\ wait_ttl[c][s] - 1 < mark
      BY <2>1, <2>2 DEF MarkInv, Overdue
    <3>4. Step >= 1
      <4>1. Step = 0 => mark = 0
        BY <2>2
      <4> QED BY <2>2, <3>2, <3>3, <4>1
    <3>5. wait_ttl'[d][t] >= next
      <4> HIDE DEF mark, next
      <4> QED BY <2>2, <3>1, <3>2, <3>3, <3>4
    <3> QED BY <3>1, <3>5
  <2>5. CASE ~(d = c /\ t = s)
    BY <2>1, <2>3, <2>5, AgedEntry DEF MarkInv
  <2> QED BY <2>4, <2>5
<1>5. ASSUME NEW c \in Conns, TakeAck(c)
      PROVE  MarkInv'
  <2> SUFFICES ASSUME NEW d \in Conns, NEW t \in write_msg_Q'[d]
               PROVE  wait_ttl'[d][t] >= (retry_times'[d][t] - 1) * Step
    BY DEF MarkInv
  <2>1. /\ t \in write_msg_Q[d]
        /\ wait_ttl'[d][t] = wait_ttl[d][t]
        /\ retry_times'[d][t] = retry_times[d][t]
    BY <1>5, TypeParts DEF TakeAck, RtoInv, MessageType
  <2> QED BY <2>1 DEF MarkInv
<1>6. ASSUME NEW c \in Conns,
             \/ \E s \in Seqs : CountSend(c, s)
             \/ RtoTick(c) \/ WriterEnds(c)
             \/ ReadAck(c) \/ CountAck(c) \/ ReadFails(c) \/ ClientReceive(c)
      PROVE  UNCHANGED <<write_msg_Q, retry_times, wait_ttl>>
  BY <1>6 DEF CountSend, RtoTick, WriterEnds, ReadAck, CountAck, ReadFails,
              ClientReceive, queueVars
<1>7. CASE UNCHANGED vars
  BY <1>1, <1>7 DEF vars, queueVars
<1> QED
  BY <1>1, <1>2, <1>3, <1>4, <1>5, <1>6, <1>7 DEF Next, WriterStep, ReaderStep

\* With marks two ticks apart, the tick that deletes an entry is not overdue.
LEMMA DropStep ==
    ASSUME Step >= 2, RtoInv, MarkInv, DropIsFinal, [Next]_vars
    PROVE  DropIsFinal'
<1>1. CASE UNCHANGED <<write_msg_Q, counting>>
  BY <1>1 DEF DropIsFinal
<1>2. ASSUME NEW c \in Conns, NEW s \in Seqs, WritePush(c, s)
      PROVE  DropIsFinal'
  BY <1>2 DEF WritePush, DropIsFinal, RtoInv, TypeOK
<1>3. ASSUME NEW c \in Conns, NEW s \in Seqs, CountSend(c, s)
      PROVE  DropIsFinal'
  BY <1>3 DEF CountSend, queueVars, DropIsFinal, RtoInv, TypeOK
<1>4. ASSUME NEW c \in Conns, NEW s \in Seqs, RtoWait(c, s)
      PROVE  DropIsFinal'
  <2>1. counting[c] = {} /\ UNCHANGED counting
    BY <1>4 DEF RtoWait, RtoInv, LoopInv
  <2>2. \A d \in Conns : d # c => write_msg_Q'[d] = write_msg_Q[d]
    BY <1>4 DEF RtoWait, Age, RtoInv, TypeOK
  <2> QED BY <2>1, <2>2 DEF DropIsFinal
<1>5. ASSUME NEW c \in Conns, NEW s \in Seqs, RtoRetry(c, s)
      PROVE  DropIsFinal'
  <2>1. s \in loop[c] /\ Age(c, s, retry_times[c][s] - 1) /\ Overdue(c, s)
    BY <1>5 DEF RtoRetry
  <2>2. /\ retry_times[c][s] \in Nat /\ retry_times[c][s] >= 1
        /\ wait_ttl[c][s] \in Nat /\ wait_ttl[c][s] >= 1
        /\ s \in write_msg_Q[c]
    BY <2>1, LoopEntry
  <2>3. retry_times[c][s] >= 2 /\ retry_times[c][s] - 1 \in Nat
    BY <2>1, <2>2, OverdueTries DEF Overdue
  <2>4. wait_ttl[c][s] > 1
    <3> DEFINE mark == (retry_times[c][s] - 1) * Step
    <3>1. mark \in Int /\ mark >= Step /\ Step \in Nat
      BY <2>2, <2>3, MarkDistance, StepType
    <3>2. wait_ttl[c][s] >= mark
      BY <2>2 DEF MarkInv
    <3> HIDE DEF mark
    <3> QED BY <2>2, <3>1, <3>2
  <2>5. s \in write_msg_Q'[c]
    BY <2>1, <2>3, <2>4, AgedEntry
  <2>6. \A d \in Conns : d # c => write_msg_Q'[d] = write_msg_Q[d]
    BY <1>5 DEF RtoRetry, Age, RtoInv, TypeOK
  <2>7. counting' = [counting EXCEPT ![c] = {s}]
    BY <1>5 DEF RtoRetry
  <2> QED BY <2>5, <2>6, <2>7 DEF DropIsFinal, RtoInv, TypeOK
<1>6. ASSUME NEW c \in Conns, TakeAck(c)
      PROVE  DropIsFinal'
  <2>1. counting[c] = {} /\ UNCHANGED counting
    BY <1>6 DEF TakeAck, RtoInv, LoopInv
  <2>2. \A d \in Conns : d # c => write_msg_Q'[d] = write_msg_Q[d]
    BY <1>6 DEF TakeAck, RtoInv, TypeOK
  <2> QED BY <2>1, <2>2 DEF DropIsFinal
<1>7. ASSUME NEW c \in Conns,
             \/ RtoTick(c) \/ WriterEnds(c)
             \/ ReadAck(c) \/ CountAck(c) \/ ReadFails(c) \/ ClientReceive(c)
      PROVE  UNCHANGED <<write_msg_Q, counting>>
  BY <1>7 DEF RtoTick, WriterEnds, ReadAck, CountAck, ReadFails, ClientReceive,
              queueVars
<1>8. CASE UNCHANGED vars
  BY <1>1, <1>8 DEF vars, queueVars
<1> QED
  BY <1>1, <1>2, <1>3, <1>4, <1>5, <1>6, <1>7, <1>8
     DEF Next, WriterStep, ReaderStep

\* When the retry marks are at least two ticks apart (max_wait_ttl is at least
\* twice max_retry_ttl), the tick that gives a message up does not write it.
THEOREM DropIsFinalCorrect ==
    ASSUME Step >= 2
    PROVE  Spec => []DropIsFinal
<1>1. Init => MarkInv /\ DropIsFinal
  BY DEF Init, MarkInv, DropIsFinal
<1>2. RtoInv /\ MarkInv /\ [Next]_vars => MarkInv'
  BY MarkStep
<1>3. RtoInv /\ MarkInv /\ DropIsFinal /\ [Next]_vars => DropIsFinal'
  BY DropStep
<1> QED BY <1>1, <1>2, <1>3, RtoInvariant, PTL DEF Spec
=============================================================================
