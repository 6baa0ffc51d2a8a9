----------------------------- MODULE Lifecycle -----------------------------
(***************************************************************************)
(* Starts and stops of the server (main in server/skytime.go, createPidFile *)
(* and removePidFile in server/utils.go).                                  *)
(*                                                                         *)
(* The pid file is written before the port is taken and is removed only by *)
(* the exit command: a signal, a crash and a port that is in use leave it  *)
(* for the next start, which writes over it without truncating it.         *)
(***************************************************************************)
EXTENDS Integers, Sequences

CONSTANTS
    Pids,   \* the processes that are started
    Digits  \* a pid as it is written

ASSUME LifecycleConstants == Digits \in [Pids -> Seq(0 .. 9)]

VARIABLES
    proc,      \* where main is
    there,     \* the pid file exists
    text,      \* its contents
    holds,     \* the processes that have opened this file, and not one that
               \* has been removed since
    alone,     \* history: nobody else has touched it since the process did
    left       \* history: how long it was when the process wrote to it

lifecycleVars == <<proc, there, text, holds, alone, left>>

LifecycleTypeOK ==
    /\ proc \in [Pids ->
          {"none", "opened", "written", "serving", "leaving", "dead"}]
    /\ there \in BOOLEAN
    /\ text \in Seq(0 .. 9)
    /\ holds \subseteq Pids /\ (holds # {} => there)
    /\ alone \in [Pids -> BOOLEAN]
    /\ left \in [Pids -> Nat]

LifecycleInit ==
    /\ proc = [p \in Pids |-> "none"]
    /\ there = FALSE
    /\ text = <<>>
    /\ holds = {}
    /\ alone = [p \in Pids |-> FALSE]
    /\ left = [p \in Pids |-> 0]

\* createPidFile opens the file, or creates it.
OpenPidFile(p) ==
    /\ proc[p] = "none"
    /\ proc' = [proc EXCEPT ![p] = "opened"]
    /\ there' = TRUE
    /\ holds' = holds \cup {p}
    /\ alone' = [q \in Pids |-> q = p]
    /\ UNCHANGED <<text, left>>

\* Mutant of Written: the file is opened to append to it.
WrittenAtEnd(p) == text \o Digits[p]

\* The contents after a write at the beginning of the file.
Written(p) == Digits[p] \o SubSeq(text, Len(Digits[p]) + 1, Len(text))

\* createPidFile writes the pid.  Where the file has been removed since it was
\* opened, the write goes to a file without a name.
WritePid(p) ==
    /\ proc[p] = "opened"
    /\ proc' = [proc EXCEPT ![p] = "written"]
    /\ IF p \in holds THEN text' = Written(p) ELSE UNCHANGED text
    /\ left' = [left EXCEPT ![p] = Len(text)]
    /\ alone' = [q \in Pids |-> alone[q] /\ q = p]
    /\ UNCHANGED <<there, holds>>

PortTaken == \E p \in Pids : proc[p] \in {"serving", "leaving"}

\* net.ListenTCP on port 8001, or os.Exit(1).
Listen(p) ==
    /\ proc[p] = "written"
    /\ proc' = [proc EXCEPT ![p] = IF PortTaken THEN "dead" ELSE "serving"]
    /\ UNCHANGED <<there, text, holds, alone, left>>

\* A signal, by its handler or before there is one, or a panic.
Killed(p) ==
    /\ proc[p] \in {"opened", "written", "serving", "leaving"}
    /\ proc' = [proc EXCEPT ![p] = "dead"]
    /\ UNCHANGED <<there, text, holds, alone, left>>

\* "exit" on the console, or one of its other names, which waits 5 seconds.
ExitCommand(p) ==
    /\ proc[p] = "serving"
    /\ proc' = [proc EXCEPT ![p] = "leaving"]
    /\ UNCHANGED <<there, text, holds, alone, left>>

\* removePidFile, whoever wrote the file, and os.Exit(0).
Leave(p) ==
    /\ proc[p] = "leaving"
    /\ proc' = [proc EXCEPT ![p] = "dead"]
    /\ there' = FALSE
    /\ text' = <<>>
    /\ holds' = {}
    /\ alone' = [q \in Pids |-> FALSE]
    /\ UNCHANGED left

LifecycleNext ==
    \E p \in Pids : \/ OpenPidFile(p) \/ WritePid(p) \/ Listen(p) \/ Killed(p)
                    \/ ExitCommand(p) \/ Leave(p)

----------------------------------------------------------------------------

\* While a process serves and no other has been started since, the pid file
\* is there and begins with its pid, whatever ended the processes before; and
\* it holds nothing else unless one of them had left a longer text.
PidFileNames ==
    \A p \in Pids :
        proc[p] \in {"serving", "leaving"} /\ alone[p] =>
            /\ there
            /\ SubSeq(text, 1, Len(Digits[p])) = Digits[p]
            /\ left[p] <= Len(Digits[p]) => text = Digits[p]
=============================================================================
