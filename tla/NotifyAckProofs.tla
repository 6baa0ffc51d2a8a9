-------------------------- MODULE NotifyAckProofs --------------------------
(***************************************************************************)
(* Proofs about NotifyAck, for any number of connections, any number of    *)
(* notify frames and any capacity of notify_ack_Q.                         *)
(***************************************************************************)
EXTENDS NotifyAck, TLAPS

----------------------------------------------------------------------------
(* Type correctness                                                        *)

\* processNotifyMessage has one frame in hand, except in its select.
HandInv ==
    \/ notifier = "select" /\ notifying = {}
    \/ notifier # "select" /\ \E j \in Jobs : notifying = {j}

\* A reader that waits for room in notify_ack_Q has read a frame.
HeldInv == \A c \in Conns : reader[c] = "queueing" => received[c] >= 1

Typed == TypeOK /\ HandInv /\ HeldInv

\* A frame put into notify_ack_Q, and the oldest one taken out of it.
LEMMA QueueOps ==
    ASSUME NEW q \in Seq(Jobs), NEW j \in Jobs
    PROVE  /\ Append(q, j) \in Seq(Jobs) /\ Len(Append(q, j)) = Len(q) + 1
           /\ q # <<>> => /\ Head(q) \in Jobs /\ Tail(q) \in Seq(Jobs)
                          /\ Len(Tail(q)) <= Len(q)
OBVIOUS

\* The server starts with empty queues and all the tokens in their channels.
LEMMA TypeInit == Init => Typed
BY NotifyConstants DEF Init, Typed, TypeOK, HandInv, HeldInv, NotifyConstants

\* The writer goroutine and the lock of connection.write keep the types.
LEMMA TypeWriter ==
    ASSUME Typed, NEW c \in Conns, WriterCalls(c) \/ WriterStep(c)
    PROVE  Typed'
BY DEF Typed, TypeOK, HandInv, HeldInv, WriterCalls, WriterStep, WriterWrites,
       WriterReturns, Acquire, Release

\* The reader goroutine keeps the types, and the queue its capacity.
LEMMA TypeReader ==
    ASSUME Typed, NEW c \in Conns,
           ReadNotify(c) \/ QueueNotify(c) \/ ReadFails(c)
    PROVE  Typed'
<1> USE NotifyConstants DEF Typed, TypeOK, HandInv, HeldInv, NotifyConstants
<1>1. CASE ReadNotify(c)
  <2>1. received[c] + 1 \in 0 .. MaxNotify /\ received[c] + 1 >= 1
    BY <1>1 DEF ReadNotify
  <2> QED BY <1>1, <2>1 DEF ReadNotify
<1>2. CASE QueueNotify(c)
  <2>1. received[c] \in 1 .. MaxNotify
    BY <1>2 DEF QueueNotify
  <2>2. <<c, received[c]>> \in Jobs /\ Len(notify_ack_Q) + 1 <= NotifyCap
    BY <1>2, <2>1 DEF QueueNotify, Jobs
  <2> QED BY <1>2, <2>2, QueueOps DEF QueueNotify
<1>3. CASE ReadFails(c)
  BY <1>3 DEF ReadFails
<1> QED BY <1>1, <1>2, <1>3

\* processNotifyMessage keeps the types.
LEMMA TypeNotifier ==
    ASSUME Typed, NotifierStep
    PROVE  Typed'
<1> USE NotifyConstants DEF Typed, TypeOK, HandInv, HeldInv, NotifyConstants
<1>1. CASE NotifierTakes
  <2>1. /\ Head(notify_ack_Q) \in Jobs /\ Tail(notify_ack_Q) \in Seq(Jobs)
        /\ Len(Tail(notify_ack_Q)) <= NotifyCap
    BY <1>1 DEF NotifierTakes
  <2> QED BY <1>1, <2>1 DEF NotifierTakes
<1>2. ASSUME NEW c \in Conns, NotifierWrites(c)
      PROVE  Typed'
  BY <1>2 DEF NotifierWrites, Acquire
<1>3. ASSUME NEW c \in Conns, NEW n \in 1 .. MaxNotify, NotifierReturns(c, n)
      PROVE  Typed'
  <2>1. Append(answered[c], n) \in Seq(1 .. MaxNotify)
    OBVIOUS
  <2> QED BY <1>3, <2>1 DEF NotifierReturns, Release
<1> QED BY <1>1, <1>2, <1>3 DEF NotifierStep

\* Every step keeps the types.
LEMMA TypeStep ==
    ASSUME Typed, [Next]_vars
    PROVE  Typed'
<1>1. CASE UNCHANGED vars
  BY <1>1 DEF vars, connVars, Typed, TypeOK, HandInv, HeldInv
<1> QED BY <1>1, TypeWriter, TypeReader, TypeNotifier DEF Next

\* Every behaviour of the server has the types, with their strengthening.
LEMMA TypedInvariant == Spec => []Typed
BY TypeInit, TypeStep, PTL DEF Spec

\* notify_ack_Q never holds more than its capacity, and the other variables
\* have their types.
THEOREM TypeCorrect == Spec => []TypeOK
BY TypedInvariant, PTL DEF Typed
----------------------------------------------------------------------------
(* The write lock                                                          *)

\* processNotifyMessage is inside WriteMessage for c.
NotifierIn(c) == notifier = "write" /\ InHand(c) # {}

\* With the lock, whoever is inside WriteMessage has the token of the
\* connection; without processNotifyMessage there is only one writer.
LockInv ==
    /\ enable_ack_rto = 0 => notifier = "select"
    /\ enable_ack_rto = 1 =>
          \A c \in Conns : /\ writer[c] = "write" \/ NotifierIn(c) => ~notify_mu[c]
                           /\ ~(writer[c] = "write" /\ NotifierIn(c))

\* Every step of the two writers and of the readers keeps the lock.
LEMMA LockStep ==
    ASSUME Typed, LockInv, [Next]_vars
    PROVE  LockInv'
<1> USE DEF Typed, TypeOK, LockInv, NotifierIn, InHand
<1>1. CASE UNCHANGED vars
  BY <1>1 DEF vars, connVars
<1>2. ASSUME NEW c \in Conns, WriterCalls(c) \/ WriterStep(c)
      PROVE  LockInv'
  BY <1>2 DEF WriterCalls, WriterStep, WriterWrites, WriterReturns, Acquire,
              Release, Locks
<1>3. ASSUME NEW c \in Conns, ReadNotify(c) \/ QueueNotify(c) \/ ReadFails(c)
      PROVE  LockInv'
  BY <1>3 DEF ReadNotify, QueueNotify, ReadFails
<1>4. CASE NotifierTakes
  BY <1>4, NotifyConstants DEF NotifierTakes, NotifyConstants
<1>5. ASSUME NEW c \in Conns, NotifierWrites(c)
      PROVE  LockInv'
  <2>1. PICK j \in Jobs : notifying = {j}
    BY <1>5 DEF NotifierWrites, HandInv
  <2>2. \A d \in Conns : InHand(d) # {} => d = c
    BY <1>5, <2>1 DEF NotifierWrites
  <2>3. UNCHANGED <<notifying, writer, enable_ack_rto>> /\ notifier = "lock"
    BY <1>5 DEF NotifierWrites
  <2> QED BY <1>5, <2>2, <2>3 DEF NotifierWrites, Acquire, Locks
<1>6. ASSUME NEW c \in Conns, NEW n \in 1 .. MaxNotify, NotifierReturns(c, n)
      PROVE  LockInv'
  BY <1>6 DEF NotifierReturns, Release, Locks
<1> QED BY <1>1, <1>2, <1>3, <1>4, <1>5, <1>6 DEF Next, NotifierStep

\* With the settings 0 and 1 that connection.write is written for, the writer
\* goroutine and processNotifyMessage are never both inside WriteMessage for
\* one connection.
THEOREM NoConcurrentWriteCorrect ==
    ASSUME Settings \subseteq {0, 1}
    PROVE  Spec => []NoConcurrentWrite
<1>1. Init => LockInv
  BY DEF Init, LockInv, NotifierIn
<1>2. Typed /\ LockInv /\ [Next]_vars => LockInv'
  BY LockStep
<1>3. Typed /\ LockInv => NoConcurrentWrite
  <2>1. Typed => enable_ack_rto = 0 \/ enable_ack_rto = 1
    BY DEF Typed, TypeOK
  <2> QED BY <2>1 DEF LockInv, NotifierIn, InHand, NoConcurrentWrite
<1> QED BY <1>1, <1>2, <1>3, TypedInvariant, PTL DEF Spec
----------------------------------------------------------------------------
(* The frames of one connection in the common queue                        *)

Places(q, c) == {i \in DOMAIN q : q[i][1] = c}
Numbers(q, c) == {q[i][2] : i \in Places(q, c)}
Rising(q, c) == \A i, k \in Places(q, c) : i < k => q[i][2] < q[k][2]

\* A frame at the end of the queue is counted for its own connection only.
LEMMA FrameAppended ==
    ASSUME NEW q \in Seq(Jobs), NEW c \in Conns, NEW d \in Conns,
           NEW n \in 1 .. MaxNotify, Rising(q, c),
           d = c => \A x \in Numbers(q, c) : x < n
    PROVE  LET t == Append(q, <<d, n>>) IN
           /\ Numbers(t, c) = IF d = c THEN Numbers(q, c) \cup {n} ELSE Numbers(q, c)
           /\ Rising(t, c)
<1> DEFINE t == Append(q, <<d, n>>)
           e == Len(q) + 1
<1>1. /\ <<d, n>> \in Jobs /\ Len(q) \in Nat
      /\ <<d, n>>[1] = d /\ <<d, n>>[2] = n
  BY DEF Jobs
<1>2. /\ e \in DOMAIN t /\ t[e] = <<d, n>>
      /\ \A i \in DOMAIN q : i \in DOMAIN t /\ t[i] = q[i] /\ i < e /\ i \in Nat
      /\ \A i \in DOMAIN t : i = e \/ i \in DOMAIN q
  BY <1>1
<1> HIDE DEF t
<1>3. Places(t, c) = IF d = c THEN Places(q, c) \cup {e} ELSE Places(q, c)
  <2>1. t[e][1] = d
    BY <1>1, <1>2
  <2> HIDE DEF e
  <2> QED BY <1>2, <2>1 DEF Places
<1>4. \A i \in Places(q, c) : i \in DOMAIN q
  BY DEF Places
<1>5. Numbers(t, c) = IF d = c THEN Numbers(q, c) \cup {n} ELSE Numbers(q, c)
  <2>1. t[e][2] = n
    BY <1>1, <1>2
  <2>2. \A i \in Places(q, c) : t[i][2] = q[i][2]
    BY <1>2, <1>4
  <2> HIDE DEF e
  <2> QED BY <1>3, <2>1, <2>2 DEF Numbers
<1>6. Rising(t, c)
  <2> SUFFICES ASSUME NEW i \in Places(t, c), NEW k \in Places(t, c), i < k
               PROVE  t[i][2] < t[k][2]
    BY DEF Rising
  <2>1. CASE i \in Places(q, c) /\ k \in Places(q, c)
    BY <1>2, <1>4, <2>1 DEF Rising
  <2>2. CASE i \in Places(q, c) /\ k = e /\ d = c
    <3>1. q[i][2] \in Numbers(q, c)
      BY <2>2 DEF Numbers
    <3> QED BY <1>1, <1>2, <1>4, <2>2, <3>1
  <2>3. CASE i = e
    <3>1. k = e \/ (k < e /\ k \in Nat)
      BY <1>1, <1>2, <1>3, <1>4
    <3> QED BY <1>1, <2>3, <3>1
  <2> QED BY <1>3, <2>1, <2>2, <2>3
<1> QED BY <1>5, <1>6 DEF t

\* The frame at the head of the queue is the first of its connection, and the
\* frames of the others stay as they are.
LEMMA FrameTaken ==
    ASSUME NEW q \in Seq(Jobs), q # <<>>, NEW c \in Conns, Rising(q, c)
    PROVE  /\ Rising(Tail(q), c)
           /\ Head(q)[1] # c => Numbers(Tail(q), c) = Numbers(q, c)
           /\ Head(q)[1] = c =>
                 /\ Head(q)[2] \in Numbers(q, c)
                 /\ \A x \in Numbers(q, c) : x = Head(q)[2] \/ Head(q)[2] < x
                 /\ Numbers(Tail(q), c) = Numbers(q, c) \ {Head(q)[2]}
<1> DEFINE t == Tail(q)
<1>1. /\ Head(q) = q[1] /\ 1 \in DOMAIN q
      /\ \A i \in DOMAIN t : /\ i + 1 \in DOMAIN q /\ i \in Nat /\ 1 < i + 1
                             /\ t[i] = q[i + 1]
      /\ \A i \in DOMAIN q : /\ i \in Nat
                             /\ i # 1 => /\ 1 < i /\ i - 1 \in DOMAIN t
                                         /\ t[i - 1] = q[i]
  OBVIOUS
<1>2. \A i \in DOMAIN q : q[i][2] \in Nat
  <2>1. \A j \in Jobs : j[2] \in 1 .. MaxNotify
    BY DEF Jobs
  <2>2. \A i \in DOMAIN q : q[i] \in Jobs
    OBVIOUS
  <2> QED BY <2>1, <2>2
<1> HIDE DEF t
<1>3. /\ \A i \in Places(t, c) : i \in DOMAIN t /\ i + 1 \in Places(q, c)
      /\ \A i \in Places(q, c) : i \in DOMAIN q /\ (i # 1 => i - 1 \in Places(t, c))
      /\ Head(q)[1] = c <=> 1 \in Places(q, c)
  BY <1>1 DEF Places
<1>4. Rising(t, c)
  <2> SUFFICES ASSUME NEW i \in Places(t, c), NEW k \in Places(t, c), i < k
               PROVE  t[i][2] < t[k][2]
    BY DEF Rising
  <2>1. i + 1 < k + 1
    BY <1>1, <1>3
  <2>2. q[i + 1][2] < q[k + 1][2]
    BY <1>3, <2>1 DEF Rising
  <2> QED BY <1>1, <1>3, <2>2
<1>5. ASSUME NEW x
      PROVE  x \in Numbers(t, c) <=> \E i \in Places(q, c) : i # 1 /\ x = q[i][2]
  <2>1. ASSUME NEW i \in Places(t, c)
        PROVE  i + 1 \in Places(q, c) /\ i + 1 # 1 /\ t[i][2] = q[i + 1][2]
    BY <1>1, <1>3
  <2>2. ASSUME NEW i \in Places(q, c), i # 1
        PROVE  i - 1 \in Places(t, c) /\ t[i - 1][2] = q[i][2]
    BY <1>1, <1>3, <2>2
  <2> QED BY <2>1, <2>2 DEF Numbers
<1>6. CASE Head(q)[1] # c
  <2>1. \A x : x \in Numbers(t, c) <=> x \in Numbers(q, c)
    BY <1>3, <1>5, <1>6 DEF Numbers
  <2> QED BY <1>4, <1>6, <2>1 DEF t
<1>7. CASE Head(q)[1] = c
  <2>1. 1 \in Places(q, c) /\ Head(q)[2] = q[1][2]
    BY <1>1, <1>3, <1>7
  <2>2. \A i \in Places(q, c) : i # 1 => q[1][2] < q[i][2] /\ q[1][2] # q[i][2]
    BY <1>1, <1>2, <1>3, <2>1 DEF Rising
  <2>3. \A x : x \in Numbers(t, c) <=> x \in Numbers(q, c) /\ x # q[1][2]
    <3>1. \A x : x \in Numbers(q, c) <=> \E i \in Places(q, c) : x = q[i][2]
      BY DEF Numbers
    <3> QED BY <1>5, <2>1, <2>2, <3>1
  <2>4. \A x \in Numbers(q, c) : x = q[1][2] \/ q[1][2] < x
    BY <2>2 DEF Numbers
  <2>5. q[1][2] \in Numbers(q, c)
    BY <2>1 DEF Numbers
  <2> QED BY <1>4, <1>7, <2>1, <2>3, <2>4, <2>5 DEF t
<1> QED BY <1>6, <1>7

\* NotifyInOrder, for one connection.
Ordered(c) ==
    /\ \A i \in DOMAIN answered[c] : answered[c][i] = i
    /\ InHand(c) \subseteq {Len(answered[c]) + 1}
    /\ Taken(c) <= Put(c)
    /\ Numbers(notify_ack_Q, c) = (Taken(c) + 1) .. Put(c)
    /\ Rising(notify_ack_Q, c)

\* Together they are NotifyInOrder.
LEMMA OrderedIff == NotifyInOrder <=> \A c \in Conns : Ordered(c)
BY DEF NotifyInOrder, Ordered, Numbers, Rising, Places, QueuedOf

\* The numbers that Ordered is about.
LEMMA OrderedType ==
    ASSUME Typed, NEW c \in Conns
    PROVE  /\ answered[c] \in Seq(1 .. MaxNotify) /\ Len(answered[c]) \in Nat
           /\ Taken(c) \in Nat /\ Put(c) \in Nat /\ received[c] \in Nat
           /\ notify_ack_Q \in Seq(Jobs)
BY NotifyConstants DEF Typed, TypeOK, HeldInv, Taken, Put, NotifyConstants

\* A connection none of whose frames moves keeps its order.
LEMMA OrderedKeeps ==
    ASSUME NEW c \in Conns, Ordered(c), answered'[c] = answered[c],
           InHand(c)' = InHand(c), Put(c)' = Put(c),
           Numbers(notify_ack_Q', c) = Numbers(notify_ack_Q, c),
           Rising(notify_ack_Q', c)
    PROVE  Ordered(c)'
<1>1. Taken(c)' = Taken(c)
  BY DEF Taken
<1>2. /\ Numbers(notify_ack_Q, c)' = Numbers(notify_ack_Q', c)
      /\ Rising(notify_ack_Q, c)' <=> Rising(notify_ack_Q', c)
  BY DEF Numbers, Rising, Places
<1> QED BY <1>1, <1>2 DEF Ordered

\* hrooms.notify_ack_Q <- notify_ack_msg: the frame the reader holds is the
\* next one of its connection.
LEMMA OrderedQueue ==
    ASSUME Typed, NEW c \in Conns, NEW d \in Conns, Ordered(c), QueueNotify(d)
    PROVE  Ordered(c)'
<1>1. /\ Taken(c) \in Nat /\ Put(c) \in Nat /\ received[c] \in Nat
      /\ notify_ack_Q \in Seq(Jobs)
  BY OrderedType
<1>2. /\ reader[d] = "queueing" /\ reader' = [reader EXCEPT ![d] = "reading"]
      /\ notify_ack_Q' = Append(notify_ack_Q, <<d, received[d]>>)
      /\ UNCHANGED <<answered, notifying, received>>
  BY DEF QueueNotify
<1>3. received[d] \in 1 .. MaxNotify
  BY <1>2, NotifyConstants DEF Typed, TypeOK, HeldInv, NotifyConstants
<1>4. InHand(c)' = InHand(c) /\ Taken(c)' = Taken(c)
  BY <1>2 DEF InHand, Taken
<1>5. d = c => Put(c) = received[d] - 1 /\ Put(c)' = received[d]
  BY <1>2 DEF Put, Typed, TypeOK
<1>6. d = c => \A x \in Numbers(notify_ack_Q, c) : x < received[d]
  BY <1>1, <1>5 DEF Ordered
<1>7. /\ Numbers(notify_ack_Q', c) = IF d = c THEN Numbers(notify_ack_Q, c) \cup {received[d]}
                                             ELSE Numbers(notify_ack_Q, c)
      /\ Rising(notify_ack_Q', c)
  BY <1>1, <1>2, <1>3, <1>6, FrameAppended, ZenonT(60) DEF Ordered
<1>8. CASE d # c
  <2>1. Put(c)' = Put(c)
    BY <1>2, <1>8 DEF Put, Typed, TypeOK
  <2> QED BY <1>2, <1>4, <1>7, <1>8, <2>1, OrderedKeeps
<1>9. CASE d = c
  <2>1. /\ Numbers(notify_ack_Q, c)' = Numbers(notify_ack_Q', c)
        /\ Rising(notify_ack_Q, c)' <=> Rising(notify_ack_Q', c)
    BY DEF Numbers, Rising, Places
  <2>2. Taken(c) <= received[d] - 1
        /\ Numbers(notify_ack_Q, c) = (Taken(c) + 1) .. (received[d] - 1)
    BY <1>5, <1>9 DEF Ordered
  <2>3. ((Taken(c) + 1) .. (received[d] - 1)) \cup {received[d]}
          = (Taken(c) + 1) .. received[d]
    BY <1>1, <1>3, <2>2
  <2>4. Numbers(notify_ack_Q', c) = (Taken(c) + 1) .. received[d]
    BY <1>7, <1>9, <2>2, <2>3
  <2>5. Taken(c) <= received[d]
    BY <1>1, <1>3, <2>2
  <2> QED BY <1>2, <1>4, <1>5, <1>7, <1>9, <2>1, <2>4, <2>5 DEF Ordered
<1> QED BY <1>8, <1>9

\* The receive of processNotifyMessage: the frame at the head of the queue is
\* the next one of its connection to be answered.
LEMMA OrderedTake ==
    ASSUME Typed, NEW c \in Conns, Ordered(c), NotifierTakes
    PROVE  Ordered(c)'
<1> DEFINE h == Head(notify_ack_Q)
<1>1. /\ Len(answered[c]) \in Nat /\ Put(c) \in Nat /\ notify_ack_Q \in Seq(Jobs)
  BY OrderedType
<1>2. /\ notify_ack_Q # <<>> /\ notifying' = {h} /\ notify_ack_Q' = Tail(notify_ack_Q)
      /\ notifying = {}
      /\ UNCHANGED <<answered, received, reader>>
  BY DEF NotifierTakes, Typed, HandInv
<1>3. h \in Jobs
  BY <1>1, <1>2
<1>4. h[1] \in Conns /\ h[2] \in 1 .. MaxNotify /\ h = <<h[1], h[2]>>
  BY <1>3 DEF Jobs
<1>5. /\ Rising(Tail(notify_ack_Q), c)
      /\ h[1] # c => Numbers(Tail(notify_ack_Q), c) = Numbers(notify_ack_Q, c)
      /\ h[1] = c =>
            /\ h[2] \in Numbers(notify_ack_Q, c)
            /\ \A x \in Numbers(notify_ack_Q, c) : x = h[2] \/ h[2] < x
            /\ Numbers(Tail(notify_ack_Q), c) = Numbers(notify_ack_Q, c) \ {h[2]}
  BY <1>1, <1>2, FrameTaken DEF Ordered
<1>6. InHand(c) = {} /\ Taken(c) = Len(answered[c]) /\ Put(c)' = Put(c)
  BY <1>1, <1>2 DEF InHand, Taken, Put
<1> HIDE DEF h
<1>7. CASE h[1] # c
  <2>1. InHand(c)' = {}
    BY <1>2, <1>4, <1>7 DEF InHand
  <2> QED BY <1>2, <1>5, <1>6, <1>7, <2>1, OrderedKeeps
<1>8. CASE h[1] = c
  <2>1. InHand(c)' = {h[2]}
    BY <1>2, <1>4, <1>8 DEF InHand
  <2> DEFINE n == Len(answered[c])
  <2>2. Numbers(notify_ack_Q, c) = (n + 1) .. Put(c)
    BY <1>6 DEF Ordered
  <2>3. h[2] = n + 1 /\ n + 1 <= Put(c)
    <3>1. h[2] \in (n + 1) .. Put(c)
      BY <1>5, <1>8, <2>2
    <3>2. n + 1 \in (n + 1) .. Put(c)
      BY <1>1, <3>1
    <3>3. n + 1 = h[2] \/ h[2] < n + 1
      BY <1>5, <1>8, <2>2, <3>2
    <3> QED BY <1>1, <3>1, <3>3
  <2>4. Taken(c)' = n + 1
    BY <1>2, <2>1 DEF Taken
  <2>5. ((n + 1) .. Put(c)) \ {n + 1} = (n + 1 + 1) .. Put(c)
    BY <1>1
  <2>6. /\ Numbers(notify_ack_Q, c)' = Numbers(notify_ack_Q', c)
        /\ Rising(notify_ack_Q, c)' <=> Rising(notify_ack_Q', c)
    BY DEF Numbers, Rising, Places
  <2>7. Numbers(notify_ack_Q', c) = (n + 1 + 1) .. Put(c)
    BY <1>2, <1>5, <1>8, <2>2, <2>3, <2>5
  <2>8. Taken(c)' <= Put(c)'
        /\ Numbers(notify_ack_Q, c)' = (Taken(c)' + 1) .. Put(c)'
    BY <1>6, <2>3, <2>4, <2>6, <2>7
  <2>9. InHand(c)' \subseteq {Len(answered[c]') + 1}
    BY <1>2, <2>1, <2>3
  <2>10. \A i \in DOMAIN answered'[c] : answered'[c][i] = i
    BY <1>2 DEF Ordered
  <2> QED BY <1>2, <1>5, <2>6, <2>8, <2>9, <2>10 DEF Ordered
<1> QED BY <1>7, <1>8

\* WriteMessage returns: the frame in hand is answered.
LEMMA OrderedReturn ==
    ASSUME Typed, NEW c \in Conns, NEW d \in Conns, NEW n \in 1 .. MaxNotify,
           Ordered(c), NotifierReturns(d, n)
    PROVE  Ordered(c)'
<1>1. /\ answered[c] \in Seq(1 .. MaxNotify) /\ Len(answered[c]) \in Nat
      /\ notify_ack_Q \in Seq(Jobs) /\ answered \in [Conns -> Seq(1 .. MaxNotify)]
  BY OrderedType DEF Typed, TypeOK
<1>2. /\ <<d, n>> \in notifying /\ notifying' = {} /\ notifier = "write"
      /\ answered' = [answered EXCEPT ![d] = Append(answered[d], n)]
      /\ UNCHANGED <<notify_ack_Q, received, reader>>
  BY DEF NotifierReturns
<1>3. notifying = {<<d, n>>}
  BY <1>2 DEF Typed, HandInv
<1>4. /\ Numbers(notify_ack_Q, c)' = Numbers(notify_ack_Q, c)
      /\ Rising(notify_ack_Q, c)' <=> Rising(notify_ack_Q, c)
      /\ Put(c)' = Put(c) /\ InHand(c)' = {}
  BY <1>2 DEF Numbers, Rising, Places, Put, InHand
<1>5. CASE d # c
  <2>1. InHand(c) = {} /\ answered'[c] = answered[c]
    BY <1>1, <1>2, <1>3, <1>5 DEF InHand
  <2>2. Taken(c)' = Taken(c)
    BY <1>4, <2>1 DEF Taken
  <2> QED BY <1>4, <2>1, <2>2 DEF Ordered
<1>6. CASE d = c
  <2>1. n \in InHand(c)
    BY <1>2, <1>6 DEF InHand
  <2>2. n = Len(answered[c]) + 1
    BY <2>1 DEF Ordered
  <2>3. answered'[c] = Append(answered[c], n)
    BY <1>1, <1>2, <1>6
  <2> DEFINE s == answered[c]
             t == Append(answered[c], n)
  <2>4. /\ Len(t) = Len(s) + 1
        /\ \A i \in DOMAIN t : \/ i \in DOMAIN s /\ t[i] = s[i]
                               \/ i = n /\ t[i] = n
    BY <1>1, <2>2
  <2>5. \A i \in DOMAIN t : t[i] = i
    BY <2>4 DEF Ordered
  <2>6. Taken(c)' = Taken(c)
    BY <1>1, <1>4, <2>1, <2>3, <2>4 DEF Taken
  <2> QED BY <1>4, <2>3, <2>5, <2>6 DEF Ordered
<1> QED BY <1>5, <1>6

\* Every step keeps the order of every connection.
LEMMA OrderedStep ==
    ASSUME Typed, NEW c \in Conns, Ordered(c), [Next]_vars
    PROVE  Ordered(c)'
<1>1. CASE UNCHANGED <<answered, notifying, notify_ack_Q>> /\ Put(c)' = Put(c)
  <2>1. InHand(c)' = InHand(c) /\ answered'[c] = answered[c]
    BY <1>1 DEF InHand
  <2> QED BY <1>1, <2>1, OrderedKeeps DEF Ordered
<1>2. ASSUME NEW d \in Conns, ReadNotify(d) \/ ReadFails(d)
      PROVE  UNCHANGED <<answered, notifying, notify_ack_Q>> /\ Put(c)' = Put(c)
  <2>1. /\ received \in [Conns -> 0 .. MaxNotify] /\ received[c] \in Nat
        /\ reader \in [Conns -> {"reading", "queueing", "done"}]
    BY OrderedType DEF Typed, TypeOK
  <2>2. CASE ReadNotify(d)
    <3>1. /\ reader[d] = "reading" /\ received' = [received EXCEPT ![d] = received[d] + 1]
          /\ reader' = [reader EXCEPT ![d] = "queueing"]
      BY <2>2 DEF ReadNotify
    <3>2. Put(c)' = Put(c)
      BY <2>1, <3>1 DEF Put
    <3> QED BY <2>2, <3>2 DEF ReadNotify
  <2>3. CASE ReadFails(d)
    BY <2>1, <2>3 DEF ReadFails, Put
  <2> QED BY <1>2, <2>2, <2>3
<1>3. ASSUME NEW d \in Conns,
             WriterCalls(d) \/ WriterStep(d) \/ NotifierWrites(d) \/ UNCHANGED vars
      PROVE  UNCHANGED <<answered, notifying, notify_ack_Q>> /\ Put(c)' = Put(c)
  BY <1>3 DEF WriterCalls, WriterStep, WriterWrites, WriterReturns,
              NotifierWrites, vars, connVars, Put
<1> QED BY <1>1, <1>2, <1>3, OrderedQueue, OrderedTake, OrderedReturn
           DEF Next, NotifierStep

\* Every notify frame is answered once and in the order in which it was read,
\* although the frames of all connections share notify_ack_Q.
THEOREM NotifyInOrderCorrect == Spec => []NotifyInOrder
<1>1. Init => NotifyInOrder
  <2> SUFFICES ASSUME Init, NEW c \in Conns PROVE Ordered(c)
    BY OrderedIff
  <2>1. /\ answered[c] = <<>> /\ notifying = {} /\ received[c] = 0
        /\ reader[c] = "reading" /\ notify_ack_Q = <<>>
    BY DEF Init
  <2>2. InHand(c) = {} /\ Taken(c) = 0 /\ Put(c) = 0
    BY <2>1 DEF InHand, Taken, Put
  <2>3. Numbers(notify_ack_Q, c) = {} /\ Rising(notify_ack_Q, c)
    BY <2>1 DEF Numbers, Rising, Places
  <2> QED BY <2>1, <2>2, <2>3 DEF Ordered
<1>2. Typed /\ NotifyInOrder /\ [Next]_vars => NotifyInOrder'
  <2> SUFFICES ASSUME Typed, NotifyInOrder, [Next]_vars, NEW c \in Conns
               PROVE  Ordered(c)'
    BY DEF NotifyInOrder, Ordered, Numbers, Rising, Places, QueuedOf
  <2> QED BY OrderedIff, OrderedStep
<1> QED BY <1>1, <1>2, TypedInvariant, PTL DEF Spec
=============================================================================
