------------------------------ MODULE GitPipe ------------------------------
(***************************************************************************)
(* One call of git_bytes, by which the dataset extractor runs Git: a       *)
(* thread writes Git's standard input while the caller drains both outputs *)
(* and then waits.  The three pipes hold Capacity bytes each, so that every *)
(* one of the three actors can block on another.                           *)
(*                                                                         *)
(* Git itself is external: it reads its input byte by byte, may owe output *)
(* for what it has read and reads no further before that output is written *)
(* (as `git check-attr --stdin` does), may stop before the end of its      *)
(* input, and may fail at any time.                                        *)
(***************************************************************************)
EXTENDS Naturals

CONSTANTS
    Capacity,   \* bytes a pipe holds
    MaxInput,   \* bound: bytes of `stdin`
    MaxOwed     \* bound: bytes Git writes to one output for one byte it read

ASSUME GitPipeAssumption ==
    /\ Capacity \in Nat \ {0}
    /\ MaxInput \in Nat
    /\ MaxOwed \in Nat

Outputs == {"stdout", "stderr"}

VARIABLES
    input,      \* length of `stdin`
    writer,     \* the thread that writes it, "none" if `stdin` is None
    sent,       \* bytes written to Git's standard input
    taken,      \* bytes Git has read of them
    git,        \* the process
    owed,       \* per output, bytes Git is about to write
    emitted,    \* per output, bytes Git has written
    collected,  \* per output, bytes the caller has read
    caller,     \* where git_bytes is
    result      \* what it returned

feed == <<input, writer, sent>>
process == <<taken, git, owed, emitted>>
vars == <<feed, process, collected, caller, result>>

TypeOK ==
    /\ input \in 0..MaxInput
    /\ writer \in {"none", "writing", "written", "broken"}
    /\ sent \in 0..input
    /\ taken \in 0..sent
    /\ git \in {"running", "succeeded", "failed"}
    /\ owed \in [Outputs -> 0..MaxOwed]
    /\ emitted \in [Outputs -> Nat]
    /\ collected \in [Outputs -> Nat]
    /\ caller \in {"reading", "joining", "returned"}
    /\ result \in {"none", "ok", "git_failed", "stdin_failed"}

Nothing == [o \in Outputs |-> 0]

Init ==
    /\ input \in 0..MaxInput
    /\ writer \in (IF input = 0 THEN {"none", "writing"} ELSE {"writing"})
    /\ sent = 0
    /\ taken = 0
    /\ git = "running"
    /\ owed \in [Outputs -> 0..MaxOwed]
    /\ emitted = Nothing
    /\ collected = Nothing
    /\ caller = "reading"
    /\ result = "none"
-----------------------------------------------------------------------------
(* The thread: child_stdin.write_all(input), then its end of the pipe is    *)
(* dropped.                                                                 *)

WriterWrites ==
    /\ writer = "writing"
    /\ git = "running"
    /\ sent < input
    /\ sent - taken < Capacity
    /\ sent' = sent + 1
    /\ UNCHANGED <<input, writer, process, collected, caller, result>>

WriterFinishes ==
    /\ writer = "writing"
    /\ sent = input
    /\ writer' = "written"
    /\ UNCHANGED <<input, sent, process, collected, caller, result>>

\* EPIPE: nobody reads the pipe any more.
WriterBreaks ==
    /\ writer = "writing"
    /\ sent < input
    /\ git # "running"
    /\ writer' = "broken"
    /\ UNCHANGED <<input, sent, process, collected, caller, result>>

Writer == WriterWrites \/ WriterFinishes \/ WriterBreaks
-----------------------------------------------------------------------------
(* Git. *)

GitReads ==
    /\ git = "running"
    /\ owed = Nothing
    /\ taken < sent
    /\ taken' = taken + 1
    /\ owed' \in [Outputs -> 0..MaxOwed]
    /\ UNCHANGED <<feed, git, emitted, collected, caller, result>>

GitWrites(o) ==
    /\ git = "running"
    /\ owed[o] > 0
    /\ emitted[o] - collected[o] < Capacity
    /\ owed' = [owed EXCEPT ![o] = @ - 1]
    /\ emitted' = [emitted EXCEPT ![o] = @ + 1]
    /\ UNCHANGED <<feed, taken, git, collected, caller, result>>

\* At the end of its input, or before if it needs no more of it.
GitSucceeds ==
    /\ git = "running"
    /\ owed = Nothing
    /\ git' = "succeeded"
    /\ UNCHANGED <<feed, taken, owed, emitted, collected, caller, result>>

GitFails ==
    /\ git = "running"
    /\ git' = "failed"
    /\ UNCHANGED <<feed, taken, owed, emitted, collected, caller, result>>

Git ==
    \/ GitReads \/ (\E o \in Outputs : GitWrites(o))
    \/ GitSucceeds \/ GitFails

\* What Git is sure to do: read, write, and end at the end of its input.  It
\* may fail or need no more input, but nobody can count on either.
GitProceeds ==
    \/ GitReads \/ (\E o \in Outputs : GitWrites(o))
    \/ writer # "writing" /\ taken = sent /\ GitSucceeds
-----------------------------------------------------------------------------
(* The caller: wait_with_output reads both outputs as they come, up to the  *)
(* end of both, and reaps the process; then the thread is joined.           *)

\* Mutant: the input is written before the outputs are read.
CallerReadsAfterWriting(o) ==
    /\ caller = "reading"
    /\ writer # "writing"
    /\ collected[o] < emitted[o]
    /\ collected' = [collected EXCEPT ![o] = @ + 1]
    /\ UNCHANGED <<feed, process, caller, result>>

CallerReads(o) ==
    /\ caller = "reading"
    /\ collected[o] < emitted[o]
    /\ collected' = [collected EXCEPT ![o] = @ + 1]
    /\ UNCHANGED <<feed, process, caller, result>>

\* Mutant: the end of the process is taken for the end of its outputs.
CallerReapsAtOnce ==
    /\ caller = "reading"
    /\ git # "running"
    /\ caller' = "joining"
    /\ UNCHANGED <<feed, process, collected, result>>

CallerReaps ==
    /\ caller = "reading"
    /\ git # "running"
    /\ collected = emitted
    /\ caller' = "joining"
    /\ UNCHANGED <<feed, process, collected, result>>

CallerJoins ==
    /\ caller = "joining"
    /\ writer # "writing"
    /\ caller' = "returned"
    /\ result' = IF writer = "broken" THEN "stdin_failed"
                 ELSE IF git = "failed" THEN "git_failed" ELSE "ok"
    /\ UNCHANGED <<feed, process, collected>>

Caller == (\E o \in Outputs : CallerReads(o)) \/ CallerReaps \/ CallerJoins

Next == Writer \/ Git \/ Caller

Spec == Init /\ [][Next]_vars

\* The three run side by side; Git waits for nothing but its pipes.
FairSpec ==
    Spec /\ WF_vars(Writer) /\ WF_vars(GitProceeds) /\ WF_vars(Caller)
-----------------------------------------------------------------------------
(* Properties. *)

\* git_bytes returns, however the input and the outputs compare with the
\* pipes: no two of the three actors ever wait for each other.
CallReturns == <>(caller = "returned")

\* What git_bytes returns as a success is all that a Git that succeeded wrote,
\* and Git was given all of its input.
SuccessIsComplete ==
    result = "ok" =>
        /\ git = "succeeded"
        /\ owed = Nothing
        /\ collected = emitted
        /\ sent = input

\* No pipe holds more than it can.
PipesBounded ==
    /\ sent - taken <= Capacity
    /\ \A o \in Outputs : emitted[o] - collected[o] \in 0..Capacity

\* What makes SuccessIsComplete inductive: where each actor is tells what it
\* has seen of the others.
IInv ==
    /\ TypeOK
    /\ PipesBounded
    /\ writer = "none" => input = 0
    /\ writer = "written" => sent = input
    /\ git = "succeeded" => owed = Nothing
    /\ caller # "reading" => git # "running" /\ collected = emitted
    /\ result # "none" <=> caller = "returned"
    /\ caller = "returned" => writer # "writing"
    /\ SuccessIsComplete
=============================================================================
