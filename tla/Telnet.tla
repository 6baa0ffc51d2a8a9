------------------------------- MODULE Telnet -------------------------------
(***************************************************************************)
(* A session on the telnet port (telnetHandler in server/skytime.go) of an *)
(* address that check_client_ipf lets pass.                                *)
(*                                                                         *)
(* What a Read returns is pushed to all rooms by a goroutine, 100 ms       *)
(* later.  It hands on a slice of the buffer of the session, which the     *)
(* next Read writes to; the bytes are copied where broadcast() makes the   *)
(* push, after it has got the token, which the pushes of the HTTP handlers *)
(* take too.                                                               *)
(***************************************************************************)
EXTENDS Integers, Sequences

CONSTANTS
    BufSize,   \* the length of buf (4096)
    MaxReads,  \* bound: Reads that return something
    TelnetCap  \* the slices broadcast_Q holds

Reads == 1 .. MaxReads

ASSUME TelnetConstants ==
    /\ BufSize \in Nat \ {0} /\ MaxReads \in Nat \ {0} /\ TelnetCap \in Nat \ {0}

VARIABLES
    open,      \* the session is open
    reads,     \* how many Reads have returned something
    buf,       \* for every byte of buf, the Read that wrote it, 0 before
    n,         \* what a Read returned
    sender,    \* its goroutine: none, sleeping, gone
    slices,    \* broadcast_Q, by the Reads the slices belong to
    copying,   \* the slice that broadcast() has taken and not copied, or 0
    token,     \* broadcast_mu: free, or held by broadcast() or another push
    body,      \* msg_body: for every byte, the Read that wrote it, -1 while
               \* it has not been copied
    last       \* history: reads when the copy was complete, 0 before

telnetVars == <<open, reads, buf, n, sender, slices, copying, token, body,
                last>>

TelnetTypeOK ==
    /\ open \in BOOLEAN
    /\ reads \in 0 .. MaxReads
    /\ buf \in [1 .. BufSize -> 0 .. MaxReads]
    /\ n \in [Reads -> 0 .. BufSize]
    /\ sender \in [Reads -> {"none", "sleeping", "gone"}]
    /\ slices \in Seq(Reads) /\ Len(slices) <= TelnetCap
    /\ copying \in 0 .. MaxReads
    /\ token \in {"free", "broadcast", "other"}
    /\ body \in [Reads -> [1 .. BufSize -> -1 .. MaxReads]]
    /\ last \in [Reads -> 0 .. MaxReads]

TelnetInit ==
    /\ open = TRUE
    /\ reads = 0
    /\ buf = [i \in 1 .. BufSize |-> 0]
    /\ n = [k \in Reads |-> 0]
    /\ sender = [k \in Reads |-> "none"]
    /\ slices = <<>>
    /\ copying = 0
    /\ token = "free"
    /\ body = [k \in Reads |-> [i \in 1 .. BufSize |-> -1]]
    /\ last = [k \in Reads |-> 0]

\* c.Read returns m bytes; the goroutine is started and the client is told.
ReadSome(m) ==
    /\ open /\ reads < MaxReads
    /\ reads' = reads + 1
    /\ buf' = [i \in 1 .. BufSize |-> IF i <= m THEN reads + 1 ELSE buf[i]]
    /\ n' = [n EXCEPT ![reads + 1] = m]
    /\ sender' = [sender EXCEPT ![reads + 1] = "sleeping"]
    /\ UNCHANGED <<open, slices, copying, token, body, last>>

\* c.Read fails or returns nothing.  The goroutines are not stopped.
ReadEnds ==
    /\ open
    /\ open' = FALSE
    /\ UNCHANGED <<reads, buf, n, sender, slices, copying, token, body, last>>

\* Mutant of SliceEnd: one n for all turns of the loop.
SliceEndShared(k) == n[reads]

\* The end of the slice buf[0:n]: n is of the turn that started the goroutine.
SliceEnd(k) == n[k]

\* Mutant of SendSlice: the goroutine ends with the session.
SendSliceWhileOpen(k) ==
    /\ open
    /\ sender[k] = "sleeping" /\ Len(slices) < TelnetCap
    /\ sender' = [sender EXCEPT ![k] = "gone"]
    /\ slices' = Append(slices, k)
    /\ UNCHANGED <<open, reads, buf, n, copying, token, body, last>>

\* The goroutine has slept, and broadcast_Q has room.
SendSlice(k) ==
    /\ sender[k] = "sleeping" /\ Len(slices) < TelnetCap
    /\ sender' = [sender EXCEPT ![k] = "gone"]
    /\ slices' = Append(slices, k)
    /\ UNCHANGED <<open, reads, buf, n, copying, token, body, last>>

\* broadcast() takes a slice out of broadcast_Q.
TakeSlice ==
    /\ copying = 0 /\ token # "broadcast" /\ slices # <<>>
    /\ copying' = Head(slices)
    /\ slices' = Tail(slices)
    /\ UNCHANGED <<open, reads, buf, n, sender, token, body, last>>

\* <-hr.broadcast_mu of broadcast(), with the slice in hand.
TakeToken ==
    /\ copying # 0 /\ token = "free"
    /\ token' = "broadcast"
    /\ UNCHANGED <<open, reads, buf, n, sender, slices, copying, body, last>>

\* copy() moves the bytes, in whatever order; it races with c.Read on buf.
CopyByte(i) ==
    /\ token = "broadcast"
    /\ copying # 0 /\ i <= SliceEnd(copying) /\ body[copying][i] = -1
    /\ body' = [body EXCEPT ![copying][i] = buf[i]]
    /\ UNCHANGED <<open, reads, buf, n, sender, slices, copying, token, last>>

\* The copy is complete: broadcast() hands the message to the rooms.
CopyDone ==
    /\ token = "broadcast"
    /\ copying # 0
    /\ \A i \in 1 .. SliceEnd(copying) : body[copying][i] # -1
    /\ last' = [last EXCEPT ![copying] = reads]
    /\ copying' = 0
    /\ UNCHANGED <<open, reads, buf, n, sender, slices, token, body>>

\* The rooms have the message: hr.broadcast_mu <- true.
ReturnToken ==
    /\ copying = 0 /\ token = "broadcast"
    /\ token' = "free"
    /\ UNCHANGED <<open, reads, buf, n, sender, slices, copying, body, last>>

\* broadcast_rooms or broadcast_peers takes the token, and returns it unless
\* a send to a connection waits for ever.
OtherPush ==
    /\ \/ token = "free" /\ token' = "other"
       \/ token = "other" /\ token' = "free"
    /\ UNCHANGED <<open, reads, buf, n, sender, slices, copying, body, last>>

----------------------------------------------------------------------------

\* What broadcast() does without waiting for another goroutine.
BroadcastStep ==
    TakeSlice \/ CopyDone \/ ReturnToken \/ \E i \in 1 .. BufSize : CopyByte(i)

TelnetNext ==
    \/ \E m \in 1 .. BufSize : ReadSome(m)
    \/ ReadEnds
    \/ \E k \in Reads : SendSlice(k)
    \/ BroadcastStep
    \/ TakeToken
    \/ OtherPush

----------------------------------------------------------------------------

\* Although all goroutines of a session share its buffer, a push has the
\* length of its own Read, holds no byte of an earlier one and none that was
\* never written, and is exact when no later Read came before its copy was
\* complete.
TelnetBody ==
    \A k \in Reads :
        last[k] # 0 =>
            \A i \in 1 .. BufSize :
                IF i <= n[k] THEN body[k][i] \in k .. last[k]
                             ELSE body[k][i] = -1
=============================================================================
