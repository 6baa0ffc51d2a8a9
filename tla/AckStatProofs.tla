---------------------------- MODULE AckStatProofs ---------------------------
(***************************************************************************)
(* Proof that `stats` never shows more ACKs than writes (AckStatBounded in *)
(* AckRto), for any number of connections.  The two counters are sums over *)
(* the connections, kept by one goroutine; the argument is made for every  *)
(* connection alone, and summed up by counting marks: a sum is the number  *)
(* of marks <<c, k>> with k below the term of c.                           *)
(***************************************************************************)
EXTENDS AckRtoProofs, FiniteSetTheorems

Marks(f) == {m \in Conns \X Nat : m[2] < f[m[1]]}

\* x is the sum of f over the connections.
Sums(x, f) == IsFiniteSet(Marks(f)) /\ Cardinality(Marks(f)) = x

\* How often s is in a sequence of frames.
Occurs(q, s) == Cardinality({i \in 1 .. Len(q) : q[i] = s})

----------------------------------------------------------------------------
(* Sums and occurrences                                                    *)

\* A sum of zeros.
LEMMA SumsZero == Sums(0, [c \in Conns |-> 0])
<1>1. Marks([c \in Conns |-> 0]) = {}
  BY DEF Marks
<1> QED BY <1>1, FS_EmptySet DEF Sums

\* One term grows by one, and so does the sum.
LEMMA SumsGrows ==
    ASSUME NEW f \in [Conns -> Nat], NEW c \in Conns, NEW x, Sums(x, f)
    PROVE  Sums(x + 1, [f EXCEPT ![c] = @ + 1])
<1> DEFINE g == [f EXCEPT ![c] = @ + 1]
           m == <<c, f[c]>>
<1>1. m \in Conns \X Nat /\ m \notin Marks(f)
  BY DEF Marks
<1>2. Marks(g) = Marks(f) \cup {m}
  <2>1. ASSUME NEW k \in Conns \X Nat
        PROVE  k[2] < g[k[1]] <=> k[2] < f[k[1]] \/ k = m
    <3>1. PICK d \in Conns, j \in Nat : k = <<d, j>>
      OBVIOUS
    <3>2. g[d] = IF d = c THEN f[d] + 1 ELSE f[d]
      OBVIOUS
    <3>3. f[d] \in Nat
      OBVIOUS
    <3> HIDE DEF g
    <3> QED BY <3>1, <3>2, <3>3
  <2> HIDE DEF g, m
  <2> QED BY <1>1, <2>1 DEF Marks
<1> HIDE DEF g, m
<1>3. IsFiniteSet(Marks(g)) /\ Cardinality(Marks(g)) = Cardinality(Marks(f)) + 1
  BY <1>1, <1>2, FS_AddElement DEF Sums
<1> QED BY <1>3 DEF Sums, g

\* A sum of smaller terms is smaller.
LEMMA SumsOrder ==
    ASSUME NEW f \in [Conns -> Nat], NEW g \in [Conns -> Nat], NEW x, NEW y,
           Sums(x, f), Sums(y, g), \A c \in Conns : f[c] <= g[c]
    PROVE  x <= y
<1>1. Marks(f) \subseteq Marks(g)
  <2> SUFFICES ASSUME NEW m \in Marks(f)
               PROVE  m[2] < g[m[1]]
    BY DEF Marks
  <2>1. m[1] \in Conns /\ m[2] \in Nat /\ m[2] < f[m[1]]
    BY DEF Marks
  <2> QED BY <2>1
<1> QED BY <1>1, FS_Subset DEF Sums

\* The places of s in a sequence are a finite set.
LEMMA OccursType ==
    ASSUME NEW S, NEW q \in Seq(S), NEW s
    PROVE  /\ IsFiniteSet({i \in 1 .. Len(q) : q[i] = s})
           /\ Occurs(q, s) \in Nat
<1>1. IsFiniteSet(1 .. Len(q))
  BY FS_Interval
<1>2. IsFiniteSet({i \in 1 .. Len(q) : q[i] = s})
  BY <1>1, FS_Subset
<1> QED BY <1>2, FS_CardinalityType DEF Occurs

\* None in the empty sequence.
LEMMA OccursEmpty == \A s : Occurs(<<>>, s) = 0
<1> SUFFICES ASSUME NEW s
             PROVE  Occurs(<<>>, s) = 0
  OBVIOUS
<1>1. {i \in 1 .. Len(<<>>) : <<>>[i] = s} = {}
  OBVIOUS
<1> QED BY <1>1, FS_EmptySet DEF Occurs

\* A frame is added at the end.
LEMMA OccursAppend ==
    ASSUME NEW S, NEW q \in Seq(S), NEW x \in S, NEW s
    PROVE  Occurs(Append(q, x), s) = Occurs(q, s) + (IF x = s THEN 1 ELSE 0)
<1> DEFINE old == {i \in 1 .. Len(q) : q[i] = s}
           new == {i \in 1 .. Len(Append(q, x)) : Append(q, x)[i] = s}
<1>1. IsFiniteSet(old) /\ Cardinality(old) \in Nat
  BY OccursType DEF Occurs
<1>2. /\ Len(q) \in Nat /\ Len(Append(q, x)) = Len(q) + 1
      /\ \A i \in 1 .. Len(q) : Append(q, x)[i] = q[i]
      /\ Append(q, x)[Len(q) + 1] = x
  OBVIOUS
<1>3. new = IF x = s THEN old \cup {Len(q) + 1} ELSE old
  <2>1. 1 .. Len(q) + 1 = (1 .. Len(q)) \cup {Len(q) + 1}
    BY <1>2
  <2> QED BY <1>2, <2>1
<1>4. Len(q) + 1 \notin old
  BY <1>2
<1> HIDE DEF old, new
<1>5. Cardinality(old \cup {Len(q) + 1}) = Cardinality(old) + 1
  BY <1>1, <1>4, FS_AddElement
<1>6. Cardinality(new) = Cardinality(old) + (IF x = s THEN 1 ELSE 0)
  BY <1>1, <1>3, <1>5
<1> QED BY <1>6 DEF Occurs, old, new

\* The first frame is taken.
LEMMA OccursTail ==
    ASSUME NEW S, NEW q \in Seq(S), q # <<>>, NEW s
    PROVE  Occurs(q, s) = Occurs(Tail(q), s) + (IF Head(q) = s THEN 1 ELSE 0)
<1> DEFINE old == {i \in 1 .. Len(q) : q[i] = s}
           rest == old \ {1}
           new == {i \in 1 .. Len(Tail(q)) : Tail(q)[i] = s}
           f == [i \in new |-> i + 1]
<1>1. IsFiniteSet(old) /\ Cardinality(old) \in Nat
  BY OccursType DEF Occurs
<1>2. /\ Len(q) \in Nat \ {0} /\ Len(Tail(q)) = Len(q) - 1 /\ Head(q) = q[1]
      /\ \A i \in 1 .. Len(q) - 1 : Tail(q)[i] = q[i + 1]
      /\ Tail(q) \in Seq(S)
  OBVIOUS
<1>3. IsFiniteSet(new)
  BY <1>2, OccursType
<1>4. f \in Bijection(new, rest)
  <2>1. ASSUME NEW i \in new
        PROVE  f[i] \in rest
    BY <1>2
  <2>2. \A i, j \in new : i # j => f[i] # f[j]
    OBVIOUS
  <2>3. ASSUME NEW j \in rest
        PROVE  \E i \in new : f[i] = j
    <3>1. j - 1 \in new /\ f[j - 1] = j
      BY <1>2
    <3> QED BY <3>1
  <2>4. f \in [new -> rest]
    BY <2>1
  <2> HIDE DEF f, new, rest
  <2> QED BY <2>2, <2>3, <2>4 DEF Bijection, Injection, Surjection, IsInjective
<1>5. 1 \in old <=> Head(q) = s
  BY <1>2
<1> HIDE DEF old, rest, new, f
<1>6. Cardinality(rest) = Cardinality(new)
  BY <1>3, <1>4, FS_Bijection DEF ExistsBijection
<1>7. Cardinality(rest) = IF 1 \in old THEN Cardinality(old) - 1 ELSE Cardinality(old)
  BY <1>1, FS_RemoveElement DEF rest
<1>8. Cardinality(old) = Cardinality(new) + (IF Head(q) = s THEN 1 ELSE 0)
  BY <1>1, <1>5, <1>6, <1>7
<1> QED BY <1>8 DEF Occurs, old, new
----------------------------------------------------------------------------
(* The argument for one connection                                         *)

\* 1 if the reader of c has an ACK for s in hand and is at pc, else 0.
InHand(c, s, pc) == IF reader[c] = pc /\ ack_seq[c] = s THEN 1 ELSE 0

\* The writes of s to c that msg_ack_stat has counted: all but the one that
\* writeRTO is about to report.
CountedSends(c, s) == sends[c][s] - (IF s \in counting[c] THEN 1 ELSE 0)

\* If got ACKs for s from c have been counted: those and the one that has been
\* handed over to writeRTO do not exceed the counted writes; and together with
\* what is still on its way they do not exceed the writes.
AckOK(c, s, got) ==
    /\ got + InHand(c, s, "stat") <= CountedSends(c, s)
    /\ got + InHand(c, s, "stat") + InHand(c, s, "acking")
           + Occurs(acks[c], s) + Occurs(frames[c], s) <= sends[c][s]

\* The counters are sums of such numbers.
StatInv ==
    /\ \A c \in Conns : \A s, t \in counting[c] : s = t
    /\ \A s \in Seqs :
          /\ Sums(send_msg_cnt[s], [c \in Conns |-> CountedSends(c, s)])
          /\ \E got \in [Conns -> Nat] :
                /\ Sums(recv_ack_cnt[s], got)
                /\ \A c \in Conns : AckOK(c, s, got[c])

\* A msg_id is not the wire number of another one: there have been fewer than
\* 2^32 pushes since the start of the server.
OwnWire == \A s, t \in Seqs : WireSeq(t) = s => t = s

\* The numbers of a connection.
LEMMA AckTypes ==
    ASSUME TypeOK, NEW c \in Conns, NEW s \in Seqs
    PROVE  /\ sends[c][s] \in Nat
           /\ CountedSends(c, s) \in Int /\ CountedSends(c, s) <= sends[c][s]
           /\ InHand(c, s, "stat") \in {0, 1} /\ InHand(c, s, "acking") \in {0, 1}
           /\ frames[c] \in Seq(WireSeqs) /\ acks[c] \in Seq(WireSeqs)
           /\ Occurs(frames[c], s) \in Nat /\ Occurs(acks[c], s) \in Nat
<1>1. sends[c][s] \in Nat /\ frames[c] \in Seq(WireSeqs) /\ acks[c] \in Seq(WireSeqs)
  BY DEF TypeOK
<1>2. CountedSends(c, s) \in Int /\ CountedSends(c, s) <= sends[c][s]
  BY <1>1 DEF CountedSends
<1>3. InHand(c, s, "stat") \in {0, 1} /\ InHand(c, s, "acking") \in {0, 1}
  BY DEF InHand
<1> QED BY <1>1, <1>2, <1>3, OccursType

\* The counters bound each other where the invariant holds.
LEMMA StatGoal ==
    ASSUME TypeOK, StatInv
    PROVE  AckStatBounded
<1> SUFFICES ASSUME NEW s \in Seqs
             PROVE  recv_ack_cnt[s] <= send_msg_cnt[s]
  BY DEF AckStatBounded
<1> DEFINE made == [c \in Conns |-> CountedSends(c, s)]
<1>1. PICK got \in [Conns -> Nat] : /\ Sums(recv_ack_cnt[s], got)
                                    /\ \A c \in Conns : AckOK(c, s, got[c])
  BY DEF StatInv
<1>2. \A c \in Conns : CountedSends(c, s) \in Nat /\ got[c] <= CountedSends(c, s)
  <2> SUFFICES ASSUME NEW c \in Conns
               PROVE  CountedSends(c, s) \in Nat /\ got[c] <= CountedSends(c, s)
    OBVIOUS
  <2>1. got[c] + InHand(c, s, "stat") <= CountedSends(c, s) /\ got[c] \in Nat
    BY <1>1 DEF AckOK
  <2> QED BY <2>1, AckTypes
<1>3. made \in [Conns -> Nat] /\ \A c \in Conns : got[c] <= made[c]
  BY <1>2
<1>4. Sums(send_msg_cnt[s], made)
  BY DEF StatInv
<1> HIDE DEF made
<1> QED BY <1>1, <1>3, <1>4, SumsOrder

\* The argument for a connection reads only what belongs to it.
LEMMA AckOKKeeps ==
    ASSUME NEW c \in Conns, NEW s \in Seqs, NEW g \in Nat,
           reader'[c] = reader[c], ack_seq'[c] = ack_seq[c],
           counting'[c] = counting[c], sends'[c] = sends[c],
           frames'[c] = frames[c], acks'[c] = acks[c]
    PROVE  /\ CountedSends(c, s)' = CountedSends(c, s)
           /\ AckOK(c, s, g) => AckOK(c, s, g)'
<1>1. /\ CountedSends(c, s)' = CountedSends(c, s)
      /\ InHand(c, s, "stat")' = InHand(c, s, "stat")
      /\ InHand(c, s, "acking")' = InHand(c, s, "acking")
  BY DEF CountedSends, InHand
<1> QED BY <1>1 DEF AckOK

\* A step that counts nothing keeps the invariant if it keeps the argument of
\* its own connection and leaves the others alone.
LEMMA StatKeeps ==
    ASSUME StatInv, UNCHANGED <<send_msg_cnt, recv_ack_cnt>>, NEW c \in Conns,
           \A d \in Conns \ {c} :
              /\ reader'[d] = reader[d] /\ ack_seq'[d] = ack_seq[d]
              /\ counting'[d] = counting[d] /\ sends'[d] = sends[d]
              /\ frames'[d] = frames[d] /\ acks'[d] = acks[d],
           \A s, t \in counting'[c] : s = t,
           \A s \in Seqs : CountedSends(c, s)' = CountedSends(c, s),
           \A s \in Seqs, g \in Nat : AckOK(c, s, g) => AckOK(c, s, g)'
    PROVE  StatInv'
<1>1. \A d \in Conns : \A s, t \in counting'[d] : s = t
  <2>1. \A d \in Conns \ {c} : \A s, t \in counting'[d] : s = t
    BY DEF StatInv
  <2> QED BY <2>1
<1>2. ASSUME NEW s \in Seqs
      PROVE  /\ Sums(send_msg_cnt'[s], [d \in Conns |-> CountedSends(d, s)'])
             /\ \E got \in [Conns -> Nat] :
                   /\ Sums(recv_ack_cnt'[s], got)
                   /\ \A d \in Conns : AckOK(d, s, got[d])'
  <2>1. \A d \in Conns : CountedSends(d, s)' = CountedSends(d, s)
    <3>1. \A d \in Conns \ {c} : CountedSends(d, s)' = CountedSends(d, s)
      BY DEF CountedSends
    <3> QED BY <3>1
  <2>2. [d \in Conns |-> CountedSends(d, s)'] = [d \in Conns |-> CountedSends(d, s)]
    BY <2>1
  <2>3. PICK got \in [Conns -> Nat] : /\ Sums(recv_ack_cnt[s], got)
                                      /\ \A d \in Conns : AckOK(d, s, got[d])
    BY DEF StatInv
  <2>4. ASSUME NEW d \in Conns
        PROVE  AckOK(d, s, got[d])'
    <3>1. got[d] \in Nat /\ AckOK(d, s, got[d])
      BY <2>3
    <3>2. CASE d = c
      BY <3>1, <3>2
    <3>3. CASE d # c
      BY <3>1, <3>3, AckOKKeeps
    <3> QED BY <3>2, <3>3
  <2>5. Sums(send_msg_cnt[s], [d \in Conns |-> CountedSends(d, s)])
    BY DEF StatInv
  <2> QED BY <2>2, <2>3, <2>4, <2>5
<1> QED BY <1>1, <1>2 DEF StatInv
----------------------------------------------------------------------------
(* The steps                                                               *)

\* Steps of writeRTO that neither write nor count.
LEMMA StatQuiet ==
    ASSUME StatInv,
           UNCHANGED <<reader, ack_seq, counting, sends, frames, acks,
                       send_msg_cnt, recv_ack_cnt>>
    PROVE  StatInv'
<1>1. \A c \in Conns, s \in Seqs : CountedSends(c, s)' = CountedSends(c, s)
  BY DEF CountedSends
<1>2. \A c \in Conns, s \in Seqs, g \in Nat : AckOK(c, s, g) => AckOK(c, s, g)'
  BY AckOKKeeps
<1>3. ASSUME NEW s \in Seqs
      PROVE  /\ Sums(send_msg_cnt'[s], [c \in Conns |-> CountedSends(c, s)'])
             /\ \E got \in [Conns -> Nat] :
                   /\ Sums(recv_ack_cnt'[s], got)
                   /\ \A c \in Conns : AckOK(c, s, got[c])'
  <2>1. [c \in Conns |-> CountedSends(c, s)'] = [c \in Conns |-> CountedSends(c, s)]
    BY <1>1
  <2>2. PICK got \in [Conns -> Nat] : /\ Sums(recv_ack_cnt[s], got)
                                      /\ \A c \in Conns : AckOK(c, s, got[c])
    BY DEF StatInv
  <2>3. \A c \in Conns : AckOK(c, s, got[c])'
    BY <1>2, <2>2
  <2>4. Sums(send_msg_cnt[s], [c \in Conns |-> CountedSends(c, s)])
    BY DEF StatInv
  <2> QED BY <2>1, <2>2, <2>3, <2>4
<1> QED BY <1>3 DEF StatInv

\* A message is written: the write is not counted yet, and at most one frame
\* with its number, and none with another, is on its way because of it.
LEMMA StatWrite ==
    ASSUME OwnWire, RtoInv, StatInv, NEW c \in Conns, NEW t \in Seqs,
           WritePush(c, t) \/ RtoRetry(c, t)
    PROVE  StatInv'
<1>1. /\ Transmit(c, t) /\ counting' = [counting EXCEPT ![c] = {t}]
      /\ counting[c] = {}
      /\ UNCHANGED <<reader, ack_seq, acks, send_msg_cnt, recv_ack_cnt>>
  BY DEF WritePush, RtoRetry, RtoInv, LoopInv, readerVars, statVars
<1>2. TypeOK
  BY DEF RtoInv
<1>3. /\ \A d \in Conns \ {c} : /\ counting'[d] = counting[d] /\ sends'[d] = sends[d]
                                /\ frames'[d] = frames[d]
      /\ counting'[c] = {t}
      /\ \A s \in Seqs : sends'[c][s] = IF s = t THEN sends[c][s] + 1
                                                 ELSE sends[c][s]
      /\ frames'[c] = frames[c] \/ frames'[c] = Append(frames[c], WireSeq(t))
  BY <1>1, <1>2 DEF Transmit, TypeOK
<1>4. WireSeq(t) \in WireSeqs
  <2>1. t \in Nat /\ SeqMod \in Nat \ {0}
    BY AckRtoConstants DEF AckRtoConstants
  <2> QED BY <2>1 DEF WireSeq, WireSeqs
<1>5. ASSUME NEW s \in Seqs
      PROVE  CountedSends(c, s)' = CountedSends(c, s)
  <2>1. sends[c][s] \in Nat
    BY <1>2, AckTypes
  <2> QED BY <1>1, <1>3, <2>1 DEF CountedSends
<1>6. ASSUME NEW s \in Seqs, NEW g \in Nat, AckOK(c, s, g)
      PROVE  AckOK(c, s, g)'
  <2>1. /\ InHand(c, s, "stat")' = InHand(c, s, "stat")
        /\ InHand(c, s, "acking")' = InHand(c, s, "acking")
    BY <1>1 DEF InHand
  <2>2. Occurs(frames'[c], s) <= Occurs(frames[c], s) + (IF s = t THEN 1 ELSE 0)
    <3>1. frames[c] \in Seq(WireSeqs) /\ Occurs(frames[c], s) \in Nat
      BY <1>2, AckTypes
    <3>2. WireSeq(t) = s => s = t
      BY DEF OwnWire
    <3>3. Occurs(Append(frames[c], WireSeq(t)), s)
            = Occurs(frames[c], s) + (IF WireSeq(t) = s THEN 1 ELSE 0)
      BY <1>4, <3>1, OccursAppend
    <3>4. CASE frames'[c] = frames[c]
      BY <3>1, <3>4
    <3>5. CASE frames'[c] = Append(frames[c], WireSeq(t))
      BY <3>1, <3>2, <3>3, <3>5
    <3> QED BY <1>3, <3>4, <3>5
  <2>3. Occurs(frames'[c], s) \in Nat
    <3>1. frames[c] \in Seq(WireSeqs)
      BY <1>2, AckTypes
    <3>2. Append(frames[c], WireSeq(t)) \in Seq(WireSeqs)
      BY <1>4, <3>1
    <3>3. frames'[c] \in Seq(WireSeqs)
      BY <1>3, <3>1, <3>2
    <3> QED BY <3>3, OccursType
  <2>4. /\ sends[c][s] \in Nat
        /\ InHand(c, s, "stat") \in {0, 1} /\ InHand(c, s, "acking") \in {0, 1}
        /\ Occurs(frames[c], s) \in Nat /\ Occurs(acks[c], s) \in Nat
    BY <1>2, AckTypes
  <2>5. g + InHand(c, s, "stat")' <= CountedSends(c, s)'
    BY <1>5, <1>6, <2>1 DEF AckOK
  <2>6. g + InHand(c, s, "stat") + InHand(c, s, "acking") + Occurs(acks[c], s)
          + Occurs(frames'[c], s) <= sends'[c][s]
    <3> DEFINE one == IF s = t THEN 1 ELSE 0
    <3>1. sends'[c][s] = sends[c][s] + one
      BY <1>3, <2>4
    <3>2. g + InHand(c, s, "stat") + InHand(c, s, "acking") + Occurs(acks[c], s)
            + Occurs(frames[c], s) <= sends[c][s]
      BY <1>6 DEF AckOK
    <3>3. one \in {0, 1}
      OBVIOUS
    <3>4. Occurs(frames'[c], s) <= Occurs(frames[c], s) + one
      BY <2>2
    <3> HIDE DEF one
    <3> QED BY <2>3, <2>4, <3>1, <3>2, <3>3, <3>4
  <2> QED BY <1>1, <2>1, <2>5, <2>6 DEF AckOK
<1> QED BY <1>1, <1>3, <1>5, <1>6, StatKeeps

\* msg_ack_stat counts a write.
LEMMA StatCountSend ==
    ASSUME RtoInv, StatInv, NEW c \in Conns, NEW t \in Seqs, CountSend(c, t)
    PROVE  StatInv'
<1>1. /\ t \in counting[c] /\ counting' = [counting EXCEPT ![c] = {}]
      /\ send_msg_cnt' = [send_msg_cnt EXCEPT ![t] = @ + 1]
      /\ UNCHANGED <<reader, ack_seq, frames, acks, sends, recv_ack_cnt>>
  BY DEF CountSend, readerVars
<1>2. TypeOK
  BY DEF RtoInv
<1>3. counting[c] = {t} /\ \A d \in Conns \ {c} : counting'[d] = counting[d]
  BY <1>1, <1>2 DEF StatInv, TypeOK
<1>4. counting'[c] = {}
  BY <1>1, <1>2 DEF TypeOK
<1>5. \A d \in Conns, s \in Seqs :
          CountedSends(d, s)' = IF d = c /\ s = t THEN CountedSends(d, s) + 1
                                                  ELSE CountedSends(d, s)
  <2> SUFFICES ASSUME NEW d \in Conns, NEW s \in Seqs
               PROVE  CountedSends(d, s)' =
                         IF d = c /\ s = t THEN CountedSends(d, s) + 1
                                           ELSE CountedSends(d, s)
    OBVIOUS
  <2>1. sends[d][s] \in Nat
    BY <1>2, AckTypes
  <2> QED BY <1>1, <1>3, <1>4, <2>1 DEF CountedSends
<1>6. ASSUME NEW s \in Seqs
      PROVE  /\ Sums(send_msg_cnt'[s], [d \in Conns |-> CountedSends(d, s)'])
             /\ \E got \in [Conns -> Nat] :
                   /\ Sums(recv_ack_cnt'[s], got)
                   /\ \A d \in Conns : AckOK(d, s, got[d])'
  <2> DEFINE made == [d \in Conns |-> CountedSends(d, s)]
  <2>1. PICK got \in [Conns -> Nat] : /\ Sums(recv_ack_cnt[s], got)
                                      /\ \A d \in Conns : AckOK(d, s, got[d])
    BY DEF StatInv
  <2>2. ASSUME NEW d \in Conns
        PROVE  CountedSends(d, s) \in Nat
    <3>1. got[d] + InHand(d, s, "stat") <= CountedSends(d, s) /\ got[d] \in Nat
      BY <2>1 DEF AckOK
    <3> QED BY <1>2, <3>1, AckTypes, SMTT(30)
  <2>3. made \in [Conns -> Nat] /\ Sums(send_msg_cnt[s], made)
    BY <2>2 DEF StatInv
  <2>4. Sums(send_msg_cnt'[s], [d \in Conns |-> CountedSends(d, s)'])
    <3>1. CASE s = t
      <4>1. [d \in Conns |-> CountedSends(d, s)'] = [made EXCEPT ![c] = @ + 1]
        BY <1>5, <3>1
      <4>2. send_msg_cnt'[s] = send_msg_cnt[s] + 1
        BY <1>1, <1>2, <3>1 DEF TypeOK
      <4> HIDE DEF made
      <4> QED BY <2>3, <4>1, <4>2, SumsGrows
    <3>2. CASE s # t
      <4>1. [d \in Conns |-> CountedSends(d, s)'] = made
        BY <1>5, <3>2
      <4>2. send_msg_cnt'[s] = send_msg_cnt[s]
        BY <1>1, <1>2, <3>2 DEF TypeOK
      <4> HIDE DEF made
      <4> QED BY <2>3, <4>1, <4>2
    <3> QED BY <3>1, <3>2
  <2>5. ASSUME NEW d \in Conns
        PROVE  AckOK(d, s, got[d])'
    <3>1. got[d] \in Nat /\ AckOK(d, s, got[d])
      BY <2>1
    <3>2. /\ InHand(d, s, "stat")' = InHand(d, s, "stat")
          /\ InHand(d, s, "acking")' = InHand(d, s, "acking")
      BY <1>1 DEF InHand
    <3>3. CountedSends(d, s) <= CountedSends(d, s)' /\ CountedSends(d, s)' \in Int
      BY <1>5, <2>2
    <3>4. InHand(d, s, "stat") \in {0, 1} /\ CountedSends(d, s) \in Int
      BY <1>2, AckTypes
    <3>5. got[d] + InHand(d, s, "stat") <= CountedSends(d, s)'
      BY <3>1, <3>3, <3>4 DEF AckOK
    <3> QED BY <1>1, <3>1, <3>2, <3>5 DEF AckOK
  <2> QED BY <1>1, <2>1, <2>4, <2>5
<1>7. \A d \in Conns : \A s, u \in counting'[d] : s = u
  BY <1>3, <1>4 DEF StatInv
<1> QED BY <1>6, <1>7 DEF StatInv

\* A step of the reader or of the peer that counts nothing: it moves what is
\* under way towards the counter, or loses it.
LEMMA StatMoves ==
    ASSUME RtoInv, StatInv, NEW c \in Conns,
           UNCHANGED <<counting, sends, send_msg_cnt, recv_ack_cnt>>,
           \A d \in Conns \ {c} :
              /\ reader'[d] = reader[d] /\ ack_seq'[d] = ack_seq[d]
              /\ frames'[d] = frames[d] /\ acks'[d] = acks[d],
           \A s \in Seqs :
              /\ Occurs(frames'[c], s) \in Nat /\ Occurs(acks'[c], s) \in Nat
              /\ InHand(c, s, "stat")' \in {0, 1} /\ InHand(c, s, "acking")' \in {0, 1}
              /\ InHand(c, s, "stat")' + InHand(c, s, "acking")'
                   + Occurs(acks'[c], s) + Occurs(frames'[c], s)
                 <= InHand(c, s, "stat") + InHand(c, s, "acking")
                      + Occurs(acks[c], s) + Occurs(frames[c], s)
              /\ counting[c] = {} \/ InHand(c, s, "stat")' <= InHand(c, s, "stat")
    PROVE  StatInv'
<1>1. TypeOK
  BY DEF RtoInv
<1>2. \A s \in Seqs : CountedSends(c, s)' = CountedSends(c, s)
  BY DEF CountedSends
<1>3. ASSUME NEW s \in Seqs, NEW g \in Nat, AckOK(c, s, g)
      PROVE  AckOK(c, s, g)'
  <2>1. /\ sends[c][s] \in Nat /\ CountedSends(c, s) \in Int
        /\ InHand(c, s, "stat") \in {0, 1} /\ InHand(c, s, "acking") \in {0, 1}
        /\ Occurs(frames[c], s) \in Nat /\ Occurs(acks[c], s) \in Nat
    BY <1>1, AckTypes
  <2>2. /\ g + InHand(c, s, "stat") <= CountedSends(c, s)
        /\ g + InHand(c, s, "stat") + InHand(c, s, "acking")
             + Occurs(acks[c], s) + Occurs(frames[c], s) <= sends[c][s]
    BY <1>3 DEF AckOK
  <2>3. g + InHand(c, s, "stat")' + InHand(c, s, "acking")'
          + Occurs(acks'[c], s) + Occurs(frames'[c], s) <= sends[c][s]
    BY <2>1, <2>2
  <2>4. g + InHand(c, s, "stat")' <= CountedSends(c, s)
    <3>1. CASE counting[c] = {}
      <4>1. CountedSends(c, s) = sends[c][s]
        BY <2>1, <3>1 DEF CountedSends
      <4> QED BY <2>1, <2>3, <4>1
    <3>2. CASE InHand(c, s, "stat")' <= InHand(c, s, "stat")
      BY <2>1, <2>2, <3>2
    <3> QED BY <3>1, <3>2
  <2> QED BY <1>2, <2>3, <2>4 DEF AckOK
<1>4. \A s, t \in counting'[c] : s = t
  BY DEF StatInv
<1> QED BY <1>2, <1>3, <1>4, StatKeeps

\* The steps of the reader up to its report, and the peer.
LEMMA StatReader ==
    ASSUME RtoInv, StatInv, NEW c \in Conns,
           ReadAck(c) \/ TakeAck(c) \/ ReadFails(c) \/ ClientReceive(c)
    PROVE  StatInv'
<1>1. TypeOK
  BY DEF RtoInv
<1>2. UNCHANGED <<counting, sends, send_msg_cnt, recv_ack_cnt>>
  BY DEF ReadAck, TakeAck, ReadFails, ClientReceive, statVars
<1>3. \A d \in Conns \ {c} :
          /\ reader'[d] = reader[d] /\ ack_seq'[d] = ack_seq[d]
          /\ frames'[d] = frames[d] /\ acks'[d] = acks[d]
  BY <1>1 DEF ReadAck, TakeAck, ReadFails, ClientReceive, readerVars, TypeOK
<1>4. ASSUME NEW s \in Seqs
      PROVE  /\ Occurs(frames'[c], s) \in Nat /\ Occurs(acks'[c], s) \in Nat
             /\ InHand(c, s, "stat")' \in {0, 1}
             /\ InHand(c, s, "acking")' \in {0, 1}
             /\ InHand(c, s, "stat")' + InHand(c, s, "acking")'
                  + Occurs(acks'[c], s) + Occurs(frames'[c], s)
                <= InHand(c, s, "stat") + InHand(c, s, "acking")
                     + Occurs(acks[c], s) + Occurs(frames[c], s)
             /\ counting[c] = {} \/ InHand(c, s, "stat")' <= InHand(c, s, "stat")
  <2>1. /\ frames[c] \in Seq(WireSeqs) /\ acks[c] \in Seq(WireSeqs)
        /\ Occurs(frames[c], s) \in Nat /\ Occurs(acks[c], s) \in Nat
    BY <1>1, AckTypes
  <2>2. InHand(c, s, "stat")' \in {0, 1} /\ InHand(c, s, "acking")' \in {0, 1}
    BY DEF InHand
  <2>3. CASE ReadAck(c)
    <3>1. /\ reader[c] = "reading" /\ acks[c] # <<>> /\ acks'[c] = Tail(acks[c])
          /\ reader'[c] = "acking" /\ ack_seq'[c] = Head(acks[c])
          /\ UNCHANGED frames
      BY <1>1, <2>3 DEF ReadAck, TypeOK
    <3>2. Occurs(acks[c], s) = Occurs(acks'[c], s) + (IF Head(acks[c]) = s THEN 1 ELSE 0)
      BY <2>1, <3>1, OccursTail
    <3>3. Occurs(acks'[c], s) \in Nat
      <4>1. acks'[c] \in Seq(WireSeqs)
        BY <2>1, <3>1
      <4> QED BY <4>1, OccursType
    <3>4. /\ InHand(c, s, "stat") = 0 /\ InHand(c, s, "acking") = 0
          /\ InHand(c, s, "stat")' = 0
          /\ InHand(c, s, "acking")' = IF Head(acks[c]) = s THEN 1 ELSE 0
      BY <3>1 DEF InHand
    <3> QED BY <2>1, <2>2, <3>1, <3>2, <3>3, <3>4
  <2>4. CASE TakeAck(c)
    <3>1. /\ reader[c] = "acking" /\ reader'[c] = "stat" /\ counting[c] = {}
          /\ UNCHANGED <<frames, acks, ack_seq>>
      BY <1>1, <2>4 DEF TakeAck, TypeOK, RtoInv, LoopInv
    <3>2. /\ InHand(c, s, "stat") = 0 /\ InHand(c, s, "acking")' = 0
          /\ InHand(c, s, "stat")' = InHand(c, s, "acking")
      BY <3>1 DEF InHand
    <3> QED BY <2>1, <2>2, <3>1, <3>2
  <2>5. CASE ReadFails(c)
    <3>1. /\ reader[c] = "reading" /\ reader'[c] = "done"
          /\ UNCHANGED <<frames, acks, ack_seq>>
      BY <1>1, <2>5 DEF ReadFails, TypeOK
    <3>2. /\ InHand(c, s, "stat") = 0 /\ InHand(c, s, "acking") = 0
          /\ InHand(c, s, "stat")' = 0 /\ InHand(c, s, "acking")' = 0
      BY <3>1 DEF InHand
    <3> QED BY <2>1, <3>1, <3>2
  <2>6. CASE ClientReceive(c)
    <3>1. /\ frames[c] # <<>> /\ frames'[c] = Tail(frames[c])
          /\ acks'[c] = acks[c] \/ acks'[c] = Append(acks[c], Head(frames[c]))
          /\ UNCHANGED <<reader, ack_seq>>
      BY <1>1, <2>6 DEF ClientReceive, readerVars, TypeOK
    <3>2. Head(frames[c]) \in WireSeqs /\ Tail(frames[c]) \in Seq(WireSeqs)
      BY <2>1, <3>1
    <3>3. /\ Occurs(frames[c], s)
               = Occurs(frames'[c], s) + (IF Head(frames[c]) = s THEN 1 ELSE 0)
          /\ Occurs(frames'[c], s) \in Nat
      BY <2>1, <3>1, <3>2, OccursTail, OccursType
    <3>4. /\ Occurs(acks'[c], s) \in Nat
          /\ Occurs(acks'[c], s)
               <= Occurs(acks[c], s) + (IF Head(frames[c]) = s THEN 1 ELSE 0)
      <4>1. CASE acks'[c] = acks[c]
        BY <2>1, <4>1
      <4>2. CASE acks'[c] = Append(acks[c], Head(frames[c]))
        <5>1. Occurs(acks'[c], s)
                = Occurs(acks[c], s) + (IF Head(frames[c]) = s THEN 1 ELSE 0)
          BY <2>1, <3>2, <4>2, OccursAppend
        <5> QED BY <2>1, <5>1
      <4> QED BY <3>1, <4>1, <4>2
    <3>5. /\ InHand(c, s, "stat")' = InHand(c, s, "stat")
          /\ InHand(c, s, "acking")' = InHand(c, s, "acking")
      BY <3>1 DEF InHand
    <3> QED BY <2>1, <2>2, <3>3, <3>4, <3>5
  <2> QED BY <2>3, <2>4, <2>5, <2>6
<1> QED BY <1>2, <1>3, <1>4, StatMoves

\* msg_ack_stat counts an ACK.
LEMMA StatCountAck ==
    ASSUME RtoInv, StatInv, NEW c \in Conns, CountAck(c)
    PROVE  StatInv'
<1>1. /\ reader[c] = "stat" /\ reader' = [reader EXCEPT ![c] = "reading"]
      /\ recv_ack_cnt' = [s \in Seqs |-> IF s = ack_seq[c] THEN recv_ack_cnt[s] + 1
                                                           ELSE recv_ack_cnt[s]]
      /\ UNCHANGED <<counting, sends, frames, acks, ack_seq, send_msg_cnt>>
  BY DEF CountAck
<1>2. TypeOK
  BY DEF RtoInv
<1>3. reader'[c] = "reading" /\ \A d \in Conns \ {c} : reader'[d] = reader[d]
  BY <1>1, <1>2 DEF TypeOK
<1>4. ASSUME NEW s \in Seqs
      PROVE  /\ Sums(send_msg_cnt'[s], [d \in Conns |-> CountedSends(d, s)'])
             /\ \E got \in [Conns -> Nat] :
                   /\ Sums(recv_ack_cnt'[s], got)
                   /\ \A d \in Conns : AckOK(d, s, got[d])'
  <2>1. PICK got \in [Conns -> Nat] : /\ Sums(recv_ack_cnt[s], got)
                                      /\ \A d \in Conns : AckOK(d, s, got[d])
    BY DEF StatInv
  <2>2. PICK one \in {0, 1} : one = IF s = ack_seq[c] THEN 1 ELSE 0
    OBVIOUS
  <2>3. PICK now \in [Conns -> Nat] :
            /\ Sums(recv_ack_cnt'[s], now)
            /\ now[c] = got[c] + one /\ \A d \in Conns \ {c} : now[d] = got[d]
    <3>1. CASE s = ack_seq[c]
      <4> DEFINE more == [got EXCEPT ![c] = @ + 1]
      <4>1. recv_ack_cnt'[s] = recv_ack_cnt[s] + 1
        BY <1>1, <3>1
      <4>2. Sums(recv_ack_cnt[s] + 1, more)
        BY <2>1, SumsGrows
      <4>3. /\ more \in [Conns -> Nat] /\ more[c] = got[c] + one
            /\ \A d \in Conns \ {c} : more[d] = got[d]
        BY <2>2, <3>1
      <4> HIDE DEF more
      <4> QED BY <4>1, <4>2, <4>3
    <3>2. CASE s # ack_seq[c]
      <4>1. recv_ack_cnt'[s] = recv_ack_cnt[s]
        BY <1>1, <3>2
      <4>2. got[c] = got[c] + one
        BY <2>2, <3>2
      <4> QED BY <2>1, <4>1, <4>2
    <3> QED BY <3>1, <3>2
  <2>4. AckOK(c, s, now[c])'
    <3>1. /\ InHand(c, s, "stat") = one /\ InHand(c, s, "acking") = 0
          /\ InHand(c, s, "stat")' = 0 /\ InHand(c, s, "acking")' = 0
      BY <1>1, <1>3, <2>2 DEF InHand
    <3>2. CountedSends(c, s)' = CountedSends(c, s)
      BY <1>1 DEF CountedSends
    <3>3. got[c] \in Nat /\ AckOK(c, s, got[c])
      BY <2>1
    <3>4. /\ sends[c][s] \in Nat /\ CountedSends(c, s) \in Int
          /\ Occurs(frames[c], s) \in Nat /\ Occurs(acks[c], s) \in Nat
      BY <1>2, AckTypes
    <3>5. /\ now[c] + 0 <= CountedSends(c, s)
          /\ now[c] + 0 + 0 + Occurs(acks[c], s) + Occurs(frames[c], s) <= sends[c][s]
      BY <2>3, <3>1, <3>3, <3>4 DEF AckOK
    <3> QED BY <1>1, <3>1, <3>2, <3>5 DEF AckOK
  <2>5. ASSUME NEW d \in Conns \ {c}
        PROVE  AckOK(d, s, now[d])'
    <3>1. got[d] \in Nat /\ AckOK(d, s, got[d])
      BY <2>1
    <3>2. AckOK(d, s, got[d])'
      BY <1>1, <1>3, <3>1, AckOKKeeps
    <3> QED BY <2>3, <3>2
  <2>6. [d \in Conns |-> CountedSends(d, s)'] = [d \in Conns |-> CountedSends(d, s)]
    BY <1>1 DEF CountedSends
  <2>7. Sums(send_msg_cnt[s], [d \in Conns |-> CountedSends(d, s)])
    BY DEF StatInv
  <2>8. \A d \in Conns : AckOK(d, s, now[d])'
    BY <2>4, <2>5
  <2> QED BY <1>1, <2>3, <2>6, <2>7, <2>8
<1>5. \A d \in Conns : \A s, t \in counting'[d] : s = t
  BY <1>1 DEF StatInv
<1> QED BY <1>4, <1>5 DEF StatInv

\* Every step keeps the sums.
LEMMA StatStep ==
    ASSUME OwnWire, RtoInv, StatInv, [Next]_vars
    PROVE  StatInv'
<1>1. ASSUME NEW c \in Conns,
             (\E s \in Seqs : RtoWait(c, s)) \/ RtoTick(c) \/ WriterEnds(c)
      PROVE  StatInv'
  BY <1>1, StatQuiet DEF RtoWait, RtoTick, WriterEnds, readerVars, statVars
<1>2. CASE UNCHANGED vars
  BY <1>2, StatQuiet DEF vars, readerVars, statVars
<1> QED BY <1>1, <1>2, StatWrite, StatCountSend, StatReader, StatCountAck
        DEF Next, WriterStep, ReaderStep

\* Nothing has been written or counted.
LEMMA StatInit == Init => StatInv
<1> SUFFICES ASSUME Init
             PROVE  StatInv
  OBVIOUS
<1> DEFINE none == [c \in Conns |-> 0]
<1>1. \A c \in Conns : /\ counting[c] = {} /\ reader[c] = "reading"
                       /\ frames[c] = <<>> /\ acks[c] = <<>>
                       /\ \A s \in Seqs : sends[c][s] = 0
  BY DEF Init
<1>2. \A c \in Conns, s \in Seqs :
          /\ CountedSends(c, s) = 0
          /\ InHand(c, s, "stat") = 0 /\ InHand(c, s, "acking") = 0
          /\ Occurs(acks[c], s) = 0 /\ Occurs(frames[c], s) = 0
  BY <1>1, OccursEmpty DEF CountedSends, InHand
<1>3. ASSUME NEW s \in Seqs
      PROVE  /\ Sums(send_msg_cnt[s], [c \in Conns |-> CountedSends(c, s)])
             /\ \E got \in [Conns -> Nat] :
                   /\ Sums(recv_ack_cnt[s], got)
                   /\ \A c \in Conns : AckOK(c, s, got[c])
  <2>1. [c \in Conns |-> CountedSends(c, s)] = none
    BY <1>2
  <2>2. send_msg_cnt[s] = 0 /\ recv_ack_cnt[s] = 0
    BY DEF Init
  <2>3. none \in [Conns -> Nat] /\ \A c \in Conns : none[c] = 0
    OBVIOUS
  <2>4. \A c \in Conns : AckOK(c, s, 0)
    BY <1>1, <1>2 DEF AckOK
  <2>5. Sums(0, none)
    BY SumsZero
  <2> HIDE DEF none
  <2> QED BY <2>1, <2>2, <2>3, <2>4, <2>5
<1> QED BY <1>1, <1>3 DEF StatInv

\* `stats` never shows more ACKs than writes of a message, for any number of
\* connections, as long as no msg_id is the wire number of another.
THEOREM AckStatBoundedCorrect ==
    ASSUME OwnWire
    PROVE  Spec => []AckStatBounded
<1>1. RtoInv /\ StatInv /\ [Next]_vars => StatInv'
  BY StatStep
<1>2. RtoInv /\ StatInv => AckStatBounded
  BY StatGoal DEF RtoInv
<1> QED BY <1>1, <1>2, StatInit, RtoInvariant, PTL DEF Spec
=============================================================================
