--------------------------- MODULE OperatorProofs ---------------------------
(***************************************************************************)
(* Proofs about the parts the operator meets: the overview, the rooms      *)
(* panel (whose invariant is in RoomsPanelProofs), the telnet port and the *)
(* process with its pid file.  Every part has an invariant of its own,     *)
(* kept by its own steps; a step of one part leaves the variables of the   *)
(* others alone.                                                           *)
(***************************************************************************)
EXTENDS RoomsPanelProofs, Operator, SequenceTheorems

----------------------------------------------------------------------------
(* The overview                                                            *)

\* No answer and no number on the page is ahead of the server; and an answer
\* that nobody has overtaken is not behind the page.
OverviewInv ==
    /\ OverviewTypeOK
    /\ \A p \in Polls : answer_cnt[p] <= total_msg_cnt
    /\ view_cnt # NoView => view_cnt <= total_msg_cnt
    /\ \A p \in Polls :
          /\ poll[p] \in {"handling", "answered"} /\ p \notin overtaken
          /\ view_cnt # NoView
          => view_cnt <= answer_cnt[p]

\* The ops of an answer is a number, also right after the start of the server.
LEMMA OpsType == \A cnt, time \in Nat : Ops(cnt, time) \in Nat
<1> SUFFICES ASSUME NEW cnt \in Nat, NEW time \in Nat
             PROVE  Ops(cnt, time) \in Nat
  OBVIOUS
<1>1. time > 1000 => time \div 1000 \in Nat \ {0}
  OBVIOUS
<1>2. \A m \in Nat \ {0} : cnt \div m \in Nat
  OBVIOUS
<1> QED BY <1>1, <1>2 DEF Ops

\* Pushes change the counters; nothing goes down.
LEMMA InvPushes ==
    ASSUME OverviewInv, PushStarts \/ PushEnds
    PROVE  OverviewInv'
<1>1. UNCHANGED <<poll, answer_cnt, answer_ops, view_cnt, view_ops, chart, failed,
                  overtaken>>
  BY DEF PushStarts, PushEnds, answerVars, viewVars
<1>2. /\ total_msg_cnt \in 0 .. MaxMsgs /\ MaxMsgs \in Nat
      /\ total_consume_time \in Nat /\ PushTime \in Nat
  BY OverviewConstants DEF OverviewConstants, OverviewInv, OverviewTypeOK
<1>3. /\ total_msg_cnt' \in 0 .. MaxMsgs /\ total_consume_time' \in Nat
      /\ total_msg_cnt <= total_msg_cnt'
  BY <1>2 DEF PushStarts, PushEnds
<1>4. OverviewTypeOK'
  BY <1>1, <1>3 DEF OverviewInv, OverviewTypeOK, PushStarts, PushEnds
<1>5. /\ \A p \in Polls : answer_cnt[p] <= total_msg_cnt'
      /\ view_cnt # NoView => view_cnt <= total_msg_cnt'
  <2>1. \A p \in Polls : answer_cnt[p] \in Int /\ answer_cnt[p] <= total_msg_cnt
    BY <1>2 DEF OverviewInv, OverviewTypeOK
  <2>2. view_cnt # NoView => view_cnt \in Int /\ view_cnt <= total_msg_cnt
    BY DEF OverviewInv, OverviewTypeOK
  <2> QED BY <1>2, <1>3, <2>1, <2>2
<1> QED BY <1>1, <1>4, <1>5 DEF OverviewInv

\* The steps of a request up to its answer.
LEMMA InvPolls ==
    ASSUME OverviewInv, NEW p \in Polls, Refresh(p) \/ ReadCount(p) \/ ReadOps(p)
    PROVE  OverviewInv'
<1> USE OverviewConstants DEF OverviewConstants, OverviewInv, OverviewTypeOK
<1>1. CASE Refresh(p)
  BY <1>1 DEF Refresh, statVars, answerVars, viewVars
<1>2. CASE ReadCount(p)
  BY <1>2 DEF ReadCount, statVars, viewVars
<1>3. CASE ReadOps(p)
  <2>0. total_msg_cnt \in Nat /\ total_consume_time \in Nat
    OBVIOUS
  <2>1. Ops(total_msg_cnt, total_consume_time) \in Nat
    BY <2>0, OpsType
  <2> QED BY <1>3, <2>1 DEF ReadOps, statVars, viewVars
<1> QED BY <1>1, <1>2, <1>3

\* An answer is shown: the requests under way are overtaken by it.
LEMMA InvShowAnswer ==
    ASSUME OverviewInv, NEW p \in Polls, ShowAnswer(p)
    PROVE  OverviewInv'
<1> USE OverviewConstants DEF OverviewConstants, OverviewInv, OverviewTypeOK
<1>1. /\ UNCHANGED <<total_msg_cnt, total_consume_time, pushing, failed>>
      /\ poll' = [poll EXCEPT ![p] = "free"]
      /\ answer_cnt' = [answer_cnt EXCEPT ![p] = 0]
      /\ answer_ops' = [answer_ops EXCEPT ![p] = 0]
      /\ view_cnt' = answer_cnt[p] /\ view_ops' = answer_ops[p]
      /\ overtaken' = {q \in Polls \ {p} : poll[q] # "free"}
  BY DEF ShowAnswer, Over, statVars
<1>2. chart' \in Seq(Nat) /\ Len(chart') <= MaxPoints + 1
  <2>1. /\ \A x \in Nat : Append(chart, x) \in Seq(Nat)
        /\ \A x \in Nat : Len(Append(chart, x)) = Len(chart) + 1
    OBVIOUS
  <2>2. ASSUME Len(chart) > MaxPoints
        PROVE  /\ Tail(chart) \in Seq(Nat) /\ Len(Tail(chart)) = Len(chart) - 1
               /\ \A x \in Nat : Append(Tail(chart), x) \in Seq(Nat)
               /\ \A x \in Nat : Len(Append(Tail(chart), x)) = Len(chart)
    BY <2>2
  <2> QED BY <2>1, <2>2 DEF ShowAnswer, RefreshChart
<1>3. OverviewTypeOK'
  BY <1>1, <1>2
<1>4. \A q \in Polls : answer_cnt'[q] <= total_msg_cnt'
  BY <1>1
<1>5. view_cnt' <= total_msg_cnt'
  BY <1>1
<1>6. \A q \in Polls : poll'[q] # "free" => q \in overtaken'
  BY <1>1
<1> QED BY <1>3, <1>4, <1>5, <1>6

\* A request fails.
LEMMA InvPollFails ==
    ASSUME OverviewInv, NEW p \in Polls, PollFails(p)
    PROVE  OverviewInv'
BY OverviewConstants DEF OverviewConstants, OverviewInv, OverviewTypeOK,
   PollFails, Over, statVars, viewVars

\* Every step of the overview and of the server behind it keeps the invariant.
LEMMA OverviewStep ==
    ASSUME OverviewInv, OverviewNext
    PROVE  OverviewInv'
BY InvPushes, InvPolls, InvShowAnswer, InvPollFails DEF OverviewNext, PollStep

\* The page that has just been opened.
LEMMA OverviewInitInv == OverviewInit => OverviewInv
<1> SUFFICES ASSUME OverviewInit
             PROVE  OverviewInv
  OBVIOUS
<1> USE OverviewConstants DEF OverviewConstants, OverviewInit
<1>1. PICK s, t \in Polls :
          poll = [p \in Polls |-> IF p \in {s, t} THEN "sent" ELSE "free"]
  OBVIOUS
<1>2. poll \in [Polls -> {"free", "sent", "handling", "answered"}]
  BY <1>1
<1>3. chart \in Seq(Nat) /\ Len(chart) <= MaxPoints + 1
  OBVIOUS
<1>4. /\ answer_cnt \in [Polls -> 0 .. MaxMsgs] /\ answer_ops \in [Polls -> Nat]
      /\ total_msg_cnt \in 0 .. MaxMsgs /\ failed \in 0 .. MaxLost
  OBVIOUS
<1>5. OverviewTypeOK
  BY <1>2, <1>3, <1>4 DEF OverviewTypeOK
<1> QED BY <1>5 DEF OverviewInv

\* Steps of the other parts.
LEMMA OverviewIdle ==
    ASSUME OverviewInv, UNCHANGED overviewVars
    PROVE  OverviewInv'
BY DEF OverviewInv, OverviewTypeOK, overviewVars, statVars, answerVars, viewVars
----------------------------------------------------------------------------
(* The telnet port                                                         *)

\* Nothing is known of a Read before it returns.
FreshInv ==
    /\ copying <= reads
    /\ \A j \in 1 .. Len(slices) : slices[j] <= reads
    /\ \A k \in Reads : k > reads =>
          /\ sender[k] = "none" /\ last[k] = 0
          /\ \A i \in 1 .. BufSize : body[k][i] = -1

\* The bytes of a Read stay in the buffer until a later Read replaces them.
BufferInv ==
    /\ \A i \in 1 .. BufSize : buf[i] <= reads
    /\ \A k \in Reads : k <= reads =>
          \A i \in 1 .. BufSize : i <= n[k] => k <= buf[i]

\* What has been copied of a slice came from its own Read or from a later one.
CopyInv ==
    \A k \in Reads : \A i \in 1 .. BufSize :
        body[k][i] # -1 => i <= n[k] /\ k <= body[k][i] /\ body[k][i] <= reads

TelnetInv == TelnetTypeOK /\ FreshInv /\ BufferInv /\ CopyInv /\ TelnetBody

\* The numbers among the variables.
LEMMA TelnetNumbers ==
    ASSUME TelnetTypeOK
    PROVE  /\ reads \in Nat /\ MaxReads \in Nat /\ BufSize \in Nat /\ reads <= MaxReads
           /\ copying \in Nat /\ copying <= MaxReads
           /\ Reads \subseteq Nat \ {0}
           /\ \A j \in 1 .. Len(slices) : slices[j] \in Nat
           /\ \A i \in 1 .. BufSize : buf[i] \in Nat
           /\ \A k \in Reads : n[k] \in Nat /\ last[k] \in Nat
           /\ \A k \in Reads : \A i \in 1 .. BufSize : body[k][i] \in Int
<1>1. /\ reads \in Nat /\ MaxReads \in Nat /\ BufSize \in Nat /\ reads <= MaxReads
      /\ copying \in Nat /\ copying <= MaxReads /\ Reads \subseteq Nat \ {0}
  BY TelnetConstants DEF TelnetConstants, TelnetTypeOK, Reads
<1>2. \A j \in 1 .. Len(slices) : slices[j] \in Nat
  <2>1. \A j \in 1 .. Len(slices) : slices[j] \in Reads
    BY DEF TelnetTypeOK
  <2> QED BY <1>1, <2>1
<1>3. \A i \in 1 .. BufSize : buf[i] \in Nat
  BY <1>1 DEF TelnetTypeOK
<1>4. \A k \in Reads : n[k] \in Nat /\ last[k] \in Nat
  BY <1>1 DEF TelnetTypeOK
<1>5. \A k \in Reads : \A i \in 1 .. BufSize : body[k][i] \in -1 .. MaxReads
  BY DEF TelnetTypeOK
<1>6. \A x \in -1 .. MaxReads : x \in Int
  BY <1>1
<1>7. \A k \in Reads : \A i \in 1 .. BufSize : body[k][i] \in Int
  <2> HIDE DEF Reads
  <2> QED BY <1>5, <1>6, Zenon
<1> QED BY <1>1, <1>2, <1>3, <1>4, <1>7

\* A Read writes over the buffer and starts its goroutine.
LEMMA InvReadSome ==
    ASSUME TelnetInv, NEW m \in 1 .. BufSize, ReadSome(m)
    PROVE  TelnetInv'
<1>1. /\ reads < MaxReads /\ reads' = reads + 1
      /\ buf' = [i \in 1 .. BufSize |-> IF i <= m THEN reads + 1 ELSE buf[i]]
      /\ n' = [n EXCEPT ![reads + 1] = m]
      /\ sender' = [sender EXCEPT ![reads + 1] = "sleeping"]
      /\ UNCHANGED <<open, slices, copying, token, body, last>>
  BY DEF ReadSome
<1>2. /\ reads \in Nat /\ MaxReads \in Nat /\ BufSize \in Nat
      /\ reads + 1 \in Reads /\ reads + 1 \in 0 .. MaxReads
  BY <1>1, TelnetNumbers DEF TelnetInv, Reads
<1>3. /\ \A k \in Reads : n'[k] = IF k = reads + 1 THEN m ELSE n[k]
      /\ \A k \in Reads : k # reads + 1 => sender'[k] = sender[k]
      /\ \A i \in 1 .. BufSize : buf'[i] = IF i <= m THEN reads + 1 ELSE buf[i]
  BY <1>1, <1>2 DEF TelnetInv, TelnetTypeOK
<1>4. TelnetTypeOK'
  <2>1. buf' \in [1 .. BufSize -> 0 .. MaxReads]
    BY <1>1, <1>2 DEF TelnetInv, TelnetTypeOK
  <2>2. /\ n' \in [Reads -> 0 .. BufSize]
        /\ sender' \in [Reads -> {"none", "sleeping", "gone"}]
    BY <1>1, <1>2 DEF TelnetInv, TelnetTypeOK
  <2> QED BY <1>1, <1>2, <2>1, <2>2 DEF TelnetInv, TelnetTypeOK
<1>5. FreshInv'
  <2>1. /\ copying <= reads'
        /\ \A j \in 1 .. Len(slices) : slices[j] <= reads'
    BY <1>1, TelnetNumbers DEF TelnetInv, FreshInv
  <2>2. ASSUME NEW k \in Reads, k > reads'
        PROVE  /\ sender'[k] = "none" /\ last[k] = 0
               /\ \A i \in 1 .. BufSize : body[k][i] = -1
    <3>1. k > reads /\ k # reads + 1
      BY <1>1, <2>2, TelnetNumbers DEF TelnetInv
    <3> QED BY <1>3, <3>1 DEF TelnetInv, FreshInv
  <2> QED BY <1>1, <2>1, <2>2 DEF FreshInv
<1>6. \A i \in 1 .. BufSize : buf[i] \in Nat /\ buf[i] <= reads
  BY TelnetNumbers DEF TelnetInv, BufferInv
<1>7. BufferInv'
  <2>1. \A i \in 1 .. BufSize : buf'[i] <= reads'
    BY <1>1, <1>2, <1>3, <1>6
  <2>2. ASSUME NEW k \in Reads, k <= reads', NEW i \in 1 .. BufSize, i <= n'[k]
        PROVE  k <= buf'[i]
    <3>1. k \in Nat
      BY TelnetNumbers DEF TelnetInv
    <3>2. CASE k = reads + 1
      BY <1>2, <1>3, <2>2, <3>2
    <3>3. CASE k # reads + 1
      <4>1. k <= reads /\ i <= n[k]
        BY <1>1, <1>2, <1>3, <2>2, <3>1, <3>3
      <4>2. k <= buf[i]
        BY <4>1 DEF TelnetInv, BufferInv
      <4> QED BY <1>2, <1>3, <1>6, <3>1, <4>1, <4>2
    <3> QED BY <3>2, <3>3
  <2> QED BY <2>1, <2>2 DEF BufferInv
<1>8. \A k \in Reads : last[k] # 0 \/ (\E i \in 1 .. BufSize : body[k][i] # -1)
                          => n'[k] = n[k]
  <2>1. reads + 1 > reads
    BY <1>2
  <2> QED BY <1>2, <1>3, <2>1 DEF TelnetInv, FreshInv
<1>9. CopyInv'
  <2> SUFFICES ASSUME NEW k \in Reads, NEW i \in 1 .. BufSize, body[k][i] # -1
               PROVE  i <= n'[k] /\ k <= body[k][i] /\ body[k][i] <= reads'
    BY <1>1 DEF CopyInv
  <2>1. i <= n[k] /\ k <= body[k][i] /\ body[k][i] <= reads /\ body[k][i] \in Int
    BY TelnetNumbers DEF TelnetInv, CopyInv
  <2> QED BY <1>1, <1>2, <1>8, <2>1
<1>10. TelnetBody'
  <2> SUFFICES ASSUME NEW k \in Reads, last[k] # 0, NEW i \in 1 .. BufSize
               PROVE  IF i <= n'[k] THEN body[k][i] \in k .. last[k]
                                    ELSE body[k][i] = -1
    BY <1>1 DEF TelnetBody
  <2> QED BY <1>8 DEF TelnetInv, TelnetBody
<1> QED BY <1>4, <1>5, <1>7, <1>9, <1>10 DEF TelnetInv

\* The steps that touch neither the buffer nor a copy.
LEMMA InvSlices ==
    ASSUME TelnetInv, ReadEnds \/ TakeSlice \/ \E k \in Reads : SendSlice(k)
    PROVE  TelnetInv'
<1>1. UNCHANGED <<reads, buf, n, body, last>>
  BY DEF ReadEnds, TakeSlice, SendSlice
<1>2. BufferInv' /\ CopyInv' /\ TelnetBody'
  BY <1>1 DEF TelnetInv, BufferInv, CopyInv, TelnetBody
<1>3. /\ reads \in Nat /\ MaxReads \in Nat /\ TelnetCap \in Nat
      /\ \A k \in Reads : k \in 0 .. MaxReads
      /\ slices \in Seq(Reads) /\ Len(slices) \in Nat
      /\ Len(slices) <= TelnetCap
      /\ \A j \in 1 .. Len(slices) : slices[j] <= reads
  <2>1. /\ reads \in Nat /\ MaxReads \in Nat /\ TelnetCap \in Nat
        /\ \A k \in Reads : k \in 0 .. MaxReads
    BY TelnetConstants, TelnetNumbers DEF TelnetConstants, TelnetInv, Reads
  <2>2. slices \in Seq(Reads) /\ Len(slices) <= TelnetCap
    BY DEF TelnetInv, TelnetTypeOK
  <2>3. \A j \in 1 .. Len(slices) : slices[j] <= reads
    BY DEF TelnetInv, FreshInv
  <2> QED BY <2>1, <2>2, <2>3
<1>4. CASE ReadEnds
  <2>1. UNCHANGED <<sender, slices, copying, token>> /\ open' \in BOOLEAN
    BY <1>4 DEF ReadEnds
  <2>2. TelnetTypeOK' /\ FreshInv'
    BY <1>1, <2>1 DEF TelnetInv, TelnetTypeOK, FreshInv
  <2> QED BY <1>2, <2>2 DEF TelnetInv
<1>5. CASE TakeSlice
  <2>1. /\ slices # <<>> /\ copying' = Head(slices) /\ slices' = Tail(slices)
        /\ UNCHANGED <<sender, open, token>>
    BY <1>5 DEF TakeSlice
  <2>2. /\ Head(slices) \in Reads /\ Head(slices) <= reads
        /\ Tail(slices) \in Seq(Reads) /\ Len(Tail(slices)) = Len(slices) - 1
        /\ \A j \in 1 .. Len(slices) - 1 : Tail(slices)[j] = slices[j + 1]
    BY <1>3, <2>1
  <2>3. /\ Len(slices') <= TelnetCap
        /\ \A j \in 1 .. Len(slices') : slices'[j] <= reads
    BY <1>3, <2>1, <2>2
  <2>4. copying' \in 0 .. MaxReads /\ slices' \in Seq(Reads)
    BY <1>3, <2>1, <2>2
  <2>5. TelnetTypeOK'
    BY <1>1, <2>1, <2>3, <2>4 DEF TelnetInv, TelnetTypeOK
  <2>6. FreshInv'
    BY <1>1, <2>1, <2>2, <2>3 DEF TelnetInv, FreshInv
  <2> QED BY <1>2, <2>5, <2>6 DEF TelnetInv
<1>6. ASSUME NEW k \in Reads, SendSlice(k)
      PROVE  TelnetInv'
  <2>1. /\ sender[k] = "sleeping" /\ Len(slices) < TelnetCap
        /\ sender' = [sender EXCEPT ![k] = "gone"] /\ slices' = Append(slices, k)
        /\ UNCHANGED <<copying, open, token>>
    BY <1>6 DEF SendSlice
  <2>2. k <= reads
    BY <1>3, <2>1 DEF TelnetInv, FreshInv
  <2>3. /\ slices' \in Seq(Reads) /\ Len(slices') = Len(slices) + 1
        /\ \A j \in 1 .. Len(slices) + 1 :
              slices'[j] = IF j <= Len(slices) THEN slices[j] ELSE k
    BY <1>3, <2>1
  <2>4. /\ Len(slices') <= TelnetCap
        /\ \A j \in 1 .. Len(slices') : slices'[j] <= reads
    BY <1>3, <2>1, <2>2, <2>3
  <2>5. TelnetTypeOK'
    BY <1>1, <2>1, <2>3, <2>4 DEF TelnetInv, TelnetTypeOK
  <2>6. FreshInv'
    <3>1. \A j \in Reads : j > reads => sender'[j] = "none"
      BY <1>3, <2>1, <2>2 DEF TelnetInv, TelnetTypeOK, FreshInv
    <3> QED BY <1>1, <2>1, <2>4, <3>1 DEF TelnetInv, FreshInv
  <2> QED BY <1>2, <2>5, <2>6 DEF TelnetInv
<1> QED BY <1>4, <1>5, <1>6

\* copy() moves a byte that the buffer holds since the Read of the slice or a
\* later one.
LEMMA InvCopyByte ==
    ASSUME TelnetInv, NEW i \in 1 .. BufSize, CopyByte(i)
    PROVE  TelnetInv'
<1>1. /\ copying # 0 /\ i <= n[copying] /\ body[copying][i] = -1
      /\ body' = [body EXCEPT ![copying][i] = buf[i]]
      /\ UNCHANGED <<open, reads, buf, n, sender, slices, copying, token, last>>
  BY DEF CopyByte, SliceEnd
<1>2. /\ copying \in Reads /\ copying \in Nat /\ reads \in Nat
      /\ copying <= reads
  BY <1>1, TelnetNumbers DEF TelnetInv, FreshInv, Reads
<1>3. /\ copying <= buf[i] /\ buf[i] <= reads /\ buf[i] \in Nat
      /\ buf[i] \in -1 .. MaxReads
  <2>1. copying <= buf[i] /\ buf[i] <= reads
    BY <1>1, <1>2 DEF TelnetInv, BufferInv
  <2>2. buf[i] \in Nat /\ reads <= MaxReads /\ MaxReads \in Nat
    BY TelnetNumbers DEF TelnetInv
  <2> QED BY <1>2, <2>1, <2>2
<1>4. /\ body' \in [Reads -> [1 .. BufSize -> -1 .. MaxReads]]
      /\ \A k \in Reads : \A j \in 1 .. BufSize :
            body'[k][j] = IF k = copying /\ j = i THEN buf[i] ELSE body[k][j]
  BY <1>1, <1>2, <1>3 DEF TelnetInv, TelnetTypeOK
<1>5. TelnetTypeOK'
  BY <1>1, <1>4 DEF TelnetInv, TelnetTypeOK
<1>6. FreshInv'
  <2>1. \A k \in Reads : k > reads => k # copying
    BY <1>2
  <2> QED BY <1>1, <1>4, <2>1 DEF TelnetInv, FreshInv
<1>7. BufferInv'
  BY <1>1 DEF TelnetInv, BufferInv
<1>8. CopyInv'
  BY <1>1, <1>3, <1>4 DEF TelnetInv, CopyInv
<1>9. last[copying] = 0
  <2>1. ASSUME last[copying] # 0
        PROVE  FALSE
    <3>1. body[copying][i] \in copying .. last[copying]
      BY <1>1, <1>2, <2>1 DEF TelnetInv, TelnetBody
    <3>2. last[copying] \in Nat
      BY <1>2, TelnetNumbers DEF TelnetInv
    <3> QED BY <1>1, <1>2, <3>1, <3>2
  <2> QED BY <2>1
<1>10. TelnetBody'
  BY <1>1, <1>4, <1>9 DEF TelnetInv, TelnetBody
<1> QED BY <1>5, <1>6, <1>7, <1>8, <1>10 DEF TelnetInv

\* The copy is complete.
LEMMA InvCopyDone ==
    ASSUME TelnetInv, CopyDone
    PROVE  TelnetInv'
<1>1. /\ copying # 0 /\ \A i \in 1 .. n[copying] : body[copying][i] # -1
      /\ last' = [last EXCEPT ![copying] = reads] /\ copying' = 0
      /\ UNCHANGED <<open, reads, buf, n, sender, slices, token, body>>
  BY DEF CopyDone, SliceEnd
<1>2. /\ copying \in Reads /\ copying \in Nat /\ reads \in Nat
      /\ MaxReads \in Nat /\ reads \in 0 .. MaxReads /\ copying <= reads
      /\ n[copying] \in Nat
  <2>1. copying \in Reads /\ copying <= reads
    BY <1>1, TelnetNumbers DEF TelnetInv, FreshInv, Reads
  <2> QED BY <2>1, TelnetNumbers DEF TelnetInv
<1>3. /\ last' \in [Reads -> 0 .. MaxReads]
      /\ \A k \in Reads : last'[k] = IF k = copying THEN reads ELSE last[k]
  BY <1>1, <1>2 DEF TelnetInv, TelnetTypeOK
<1>4. TelnetTypeOK'
  BY <1>1, <1>2, <1>3 DEF TelnetInv, TelnetTypeOK
<1>5. FreshInv'
  <2>1. \A k \in Reads : k > reads => k # copying
    BY <1>2
  <2> QED BY <1>1, <1>2, <1>3, <2>1 DEF TelnetInv, FreshInv
<1>6. BufferInv' /\ CopyInv'
  BY <1>1 DEF TelnetInv, BufferInv, CopyInv
<1>7. TelnetBody'
  <2> SUFFICES ASSUME NEW k \in Reads, last'[k] # 0, NEW i \in 1 .. BufSize
               PROVE  IF i <= n[k] THEN body[k][i] \in k .. last'[k]
                                   ELSE body[k][i] = -1
    BY <1>1 DEF TelnetBody
  <2>1. CASE k = copying
    <3>1. i <= n[k] => body[k][i] # -1
      BY <1>1, <1>2, <2>1
    <3>2. body[k][i] # -1 => i <= n[k] /\ k <= body[k][i] /\ body[k][i] <= reads
      BY DEF TelnetInv, CopyInv
    <3>3. body[k][i] \in Int
      BY TelnetNumbers DEF TelnetInv
    <3> QED BY <1>2, <1>3, <2>1, <3>1, <3>2, <3>3
  <2>2. CASE k # copying
    BY <1>3, <2>2 DEF TelnetInv, TelnetBody
  <2> QED BY <2>1, <2>2
<1> QED BY <1>4, <1>5, <1>6, <1>7 DEF TelnetInv

\* The token goes round among broadcast() and the other pushes.
LEMMA InvToken ==
    ASSUME TelnetInv, TakeToken \/ ReturnToken \/ OtherPush
    PROVE  TelnetInv'
<1>1. /\ UNCHANGED <<open, reads, buf, n, sender, slices, copying, body, last>>
      /\ token' \in {"free", "broadcast", "other"}
  BY DEF TakeToken, ReturnToken, OtherPush
<1>2. TelnetTypeOK'
  BY <1>1 DEF TelnetInv, TelnetTypeOK
<1>3. FreshInv' /\ BufferInv' /\ CopyInv' /\ TelnetBody'
  BY <1>1 DEF TelnetInv, FreshInv, BufferInv, CopyInv, TelnetBody
<1> QED BY <1>2, <1>3 DEF TelnetInv

\* Every step of a telnet session keeps the invariant.
LEMMA TelnetStep ==
    ASSUME TelnetInv, TelnetNext
    PROVE  TelnetInv'
BY InvReadSome, InvSlices, InvCopyByte, InvCopyDone, InvToken
   DEF TelnetNext, BroadcastStep

\* A session that has just been opened.
LEMMA TelnetInitInv == TelnetInit => TelnetInv
BY TelnetConstants DEF TelnetConstants, TelnetInit, TelnetInv, TelnetTypeOK,
   FreshInv, BufferInv, CopyInv, TelnetBody, Reads

\* Steps of the other parts.
LEMMA TelnetIdle ==
    ASSUME TelnetInv, UNCHANGED telnetVars
    PROVE  TelnetInv'
BY DEF TelnetInv, TelnetTypeOK, FreshInv, BufferInv, CopyInv, TelnetBody,
   telnetVars
----------------------------------------------------------------------------
(* The process and its pid file                                            *)

\* A process nobody has disturbed since it opened the file still holds it, and
\* once it has written its pid, the file begins with it.
LifecycleInv ==
    /\ LifecycleTypeOK
    /\ \A p \in Pids : alone[p] => p \in holds /\ there
    /\ \A p \in Pids :
          proc[p] \in {"written", "serving", "leaving"} /\ alone[p] =>
              /\ SubSeq(text, 1, Len(Digits[p])) = Digits[p]
              /\ left[p] <= Len(Digits[p]) => text = Digits[p]

\* A write at the beginning of the file, over what was there.
LEMMA WrittenText ==
    ASSUME LifecycleTypeOK, NEW p \in Pids
    PROVE  /\ Written(p) \in Seq(0 .. 9)
           /\ SubSeq(Written(p), 1, Len(Digits[p])) = Digits[p]
           /\ Len(text) <= Len(Digits[p]) => Written(p) = Digits[p]
<1> DEFINE D == Digits[p]
           R == SubSeq(text, Len(D) + 1, Len(text))
<1>1. D \in Seq(0 .. 9) /\ Len(D) \in Nat /\ text \in Seq(0 .. 9) /\ Len(text) \in Nat
  BY LifecycleConstants DEF LifecycleConstants, LifecycleTypeOK
<1>2. R \in Seq(0 .. 9)
  BY <1>1, SubSeqProperties
<1>3. Len(text) <= Len(D) => R = <<>>
  <2>1. \A m, k \in Nat : m <= k => SubSeq(text, k + 1, m) = <<>>
    BY SubSeqEmpty
  <2> QED BY <1>1, <2>1
<1>4. Written(p) = D \o R
  BY DEF Written
<1> HIDE DEF D, R
<1>5. D \o R \in Seq(0 .. 9) /\ (R = <<>> => D \o R = D)
  BY <1>1, <1>2
<1>6. SubSeq(D \o R, 1, Len(D)) = D
  BY <1>1, <1>2, SubSeqProperties
<1> QED BY <1>3, <1>4, <1>5, <1>6 DEF D

\* Every step of every process keeps the invariant.
LEMMA LifecycleStep ==
    ASSUME LifecycleInv, LifecycleNext
    PROVE  LifecycleInv'
<1> USE DEF LifecycleInv, LifecycleTypeOK
<1>1. PICK p \in Pids : \/ OpenPidFile(p) \/ WritePid(p) \/ Listen(p) \/ Killed(p)
                        \/ ExitCommand(p) \/ Leave(p)
  BY DEF LifecycleNext
<1>2. CASE OpenPidFile(p)
  BY <1>2 DEF OpenPidFile
<1>3. CASE WritePid(p)
  <2>1. /\ proc' = [proc EXCEPT ![p] = "written"]
        /\ IF p \in holds THEN text' = Written(p) ELSE UNCHANGED text
        /\ left' = [left EXCEPT ![p] = Len(text)]
        /\ alone' = [q \in Pids |-> alone[q] /\ q = p]
        /\ UNCHANGED <<there, holds>>
    BY <1>3 DEF WritePid
  <2>2. LifecycleTypeOK'
    BY <2>1, WrittenText
  <2>3. \A q \in Pids : alone'[q] => q = p /\ alone[p]
    BY <2>1
  <2>4. alone[p] => /\ p \in holds /\ there /\ text' = Written(p)
                    /\ left'[p] = Len(text)
    BY <2>1
  <2>5. alone[p] => /\ SubSeq(text', 1, Len(Digits[p])) = Digits[p]
                    /\ left'[p] <= Len(Digits[p]) => text' = Digits[p]
    BY <2>4, WrittenText
  <2> QED BY <2>1, <2>2, <2>3, <2>4, <2>5
<1>4. CASE Listen(p) \/ Killed(p) \/ ExitCommand(p)
  BY <1>4 DEF Listen, Killed, ExitCommand
<1>5. CASE Leave(p)
  <2>1. /\ text' = <<>> /\ holds' = {} /\ alone' = [q \in Pids |-> FALSE]
        /\ there' = FALSE /\ UNCHANGED left
        /\ proc' = [proc EXCEPT ![p] = "dead"]
    BY <1>5 DEF Leave
  <2>2. alone' \in [Pids -> BOOLEAN] /\ \A q \in Pids : ~alone'[q]
    BY <2>1
  <2>3. text' \in Seq(0 .. 9)
    BY <2>1
  <2>4. there' \in BOOLEAN /\ holds' \subseteq Pids /\ holds' = {}
    BY <2>1
  <2>5. LifecycleTypeOK'
    BY <2>1, <2>2, <2>3, <2>4
  <2> QED BY <2>2, <2>5
<1> QED BY <1>1, <1>2, <1>3, <1>4, <1>5

\* No process has been started yet.
LEMMA LifecycleInitInv == LifecycleInit => LifecycleInv
<1> SUFFICES ASSUME LifecycleInit
             PROVE  LifecycleInv
  OBVIOUS
<1>1. alone \in [Pids -> BOOLEAN] /\ \A p \in Pids : ~alone[p]
  BY DEF LifecycleInit
<1>2. text \in Seq(0 .. 9) /\ left \in [Pids -> Nat]
  BY DEF LifecycleInit
<1>3. there \in BOOLEAN /\ holds \subseteq Pids /\ holds = {}
  BY DEF LifecycleInit
<1>4. LifecycleTypeOK
  BY <1>1, <1>2, <1>3 DEF LifecycleInit, LifecycleTypeOK
<1> QED BY <1>1, <1>4 DEF LifecycleInv

\* Steps of the other parts.
LEMMA LifecycleIdle ==
    ASSUME LifecycleInv, UNCHANGED lifecycleVars
    PROVE  LifecycleInv'
BY DEF LifecycleInv, LifecycleTypeOK, lifecycleVars
----------------------------------------------------------------------------
(* All parts together                                                      *)

OperatorInv == OverviewInv /\ PanelInv /\ TelnetInv /\ LifecycleInv

\* A step of one part keeps its invariant and those of the others.
LEMMA OperatorStep ==
    ASSUME OperatorInv, [Next]_vars
    PROVE  OperatorInv'
<1> USE DEF OperatorInv
<1>1. CASE OverviewNext /\ OnlyOverview
  BY <1>1, OverviewStep, PanelIdle, TelnetIdle, LifecycleIdle DEF OnlyOverview
<1>2. CASE PanelNext /\ OnlyPanel
  BY <1>2, OverviewIdle, PanelStep, TelnetIdle, LifecycleIdle DEF OnlyPanel
<1>3. CASE TelnetNext /\ OnlyTelnet
  BY <1>3, OverviewIdle, PanelIdle, TelnetStep, LifecycleIdle DEF OnlyTelnet
<1>4. CASE LifecycleNext /\ OnlyProcess
  BY <1>4, OverviewIdle, PanelIdle, TelnetIdle, LifecycleStep DEF OnlyProcess
<1>5. CASE UNCHANGED vars
  BY <1>5, OverviewIdle, PanelIdle, TelnetIdle, LifecycleIdle DEF vars
<1> QED BY <1>1, <1>2, <1>3, <1>4, <1>5 DEF Next

\* The inductive invariant of all parts.
LEMMA OperatorInvariant == Spec => []OperatorInv
<1>1. Init => OperatorInv
  BY OverviewInitInv, PanelInitInv, TelnetInitInv, LifecycleInitInv
     DEF Init, OperatorInv
<1> QED BY <1>1, OperatorStep, PTL DEF Spec

\* The variables of all parts have their types: the chart of the overview stays
\* within its points, an array of rooms is empty or complete, and broadcast_Q
\* holds no more slices than it can.
THEOREM TypeCorrect == Spec => []TypeOK
<1>1. OperatorInv => TypeOK
  BY PanelGoals DEF OperatorInv, OverviewInv, TelnetInv, LifecycleInv, TypeOK
<1> QED BY <1>1, OperatorInvariant, PTL

\* What the rooms panel shows was read after the last press of refresh.
THEOREM ListFreshCorrect == Spec => []ListFresh
<1>1. OperatorInv => ListFresh
  BY PanelGoals DEF OperatorInv
<1> QED BY <1>1, OperatorInvariant, PTL

\* The dialog of a room shows peers of no other room, whichever answers of
\* /api/roomview come while several dialogs are open.
THEOREM OwnPeersCorrect == Spec => []OwnPeers
<1>1. OperatorInv => OwnPeers
  BY PanelGoals DEF OperatorInv
<1> QED BY <1>1, OperatorInvariant, PTL

\* A push made from the console goes to nobody its dialog does not name, and
\* there is none for a dialog that was not left with OK.
THEOREM PushWithinNamedCorrect == Spec => []PushWithinNamed
<1>1. OperatorInv => PushWithinNamed
  BY PanelGoals DEF OperatorInv
<1> QED BY <1>1, OperatorInvariant, PTL

\* The operator is told how every push ended, and "success", where the address
\* is allowed, only of a push the server has taken on.
THEOREM AlertTellsCorrect == Spec => []AlertTells
<1>1. OperatorInv => AlertTells
  BY PanelGoals DEF OperatorInv
<1> QED BY <1>1, OperatorInvariant, PTL

\* A push of the telnet port has the length of its Read and holds only bytes
\* of that Read or of later ones that came before the copy was complete.
THEOREM TelnetBodyCorrect == Spec => []TelnetBody
<1>1. OperatorInv => TelnetBody
  BY DEF OperatorInv, TelnetInv
<1> QED BY <1>1, OperatorInvariant, PTL

\* The pid file begins with the pid of the process that serves, if no other has
\* touched it since.
THEOREM PidFileNamesCorrect == Spec => []PidFileNames
<1>1. OperatorInv => PidFileNames
  BY DEF OperatorInv, LifecycleInv, PidFileNames
<1> QED BY <1>1, OperatorInvariant, PTL

\* The number of pushes on the overview goes down only when the answer shown
\* was overtaken by another one.
THEOREM BackOnlyOvertakenCorrect == Spec => BackOnlyOvertaken
<1> DEFINE Back(p) == ShowAnswer(p) /\ view_cnt # NoView /\ answer_cnt[p] < view_cnt
<1>1. OperatorInv => [\A p \in Polls : Back(p) => p \in overtaken]_overviewVars
  <2> SUFFICES ASSUME OperatorInv, NEW p \in Polls, Back(p), p \notin overtaken
               PROVE  FALSE
    OBVIOUS
  <2>1. poll[p] = "answered" /\ view_cnt # NoView /\ answer_cnt[p] < view_cnt
    BY DEF ShowAnswer
  <2>2. view_cnt <= answer_cnt[p]
    BY <2>1 DEF OperatorInv, OverviewInv
  <2>3. view_cnt \in Int /\ answer_cnt[p] \in Int
    BY <2>1, OverviewConstants
       DEF OperatorInv, OverviewInv, OverviewTypeOK, OverviewConstants
  <2> QED BY <2>1, <2>2, <2>3
<1> QED BY <1>1, OperatorInvariant, PTL DEF BackOnlyOvertaken
=============================================================================
