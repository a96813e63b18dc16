--------------------------- MODULE GitPipeProofs ---------------------------
(***************************************************************************)
(* What holds of git_bytes for every capacity of the pipes, length of the  *)
(* input and amount of output.                                             *)
(***************************************************************************)
EXTENDS GitPipe, TLAPS

LEMMA InitIInv == Init => IInv
<1> SUFFICES ASSUME Init PROVE IInv
  OBVIOUS
<1>1. TypeOK
  BY GitPipeAssumption DEF Init, TypeOK, Nothing, Outputs
<1>2. PipesBounded
  BY GitPipeAssumption DEF Init, PipesBounded, Nothing
<1> QED
  BY <1>1, <1>2 DEF Init, IInv, SuccessIsComplete

\* The thread changes only its own progress, and never past the input.
LEMMA WriterKeepsIInv ==
    ASSUME IInv, Writer
    PROVE  IInv'
<1> USE DEF IInv, TypeOK, PipesBounded, SuccessIsComplete, process
<1>1. CASE WriterWrites
  BY <1>1, GitPipeAssumption DEF WriterWrites
<1>2. CASE WriterFinishes
  BY <1>2 DEF WriterFinishes
<1>3. CASE WriterBreaks
  BY <1>3 DEF WriterBreaks
<1> QED
  BY <1>1, <1>2, <1>3 DEF Writer

\* Git steps only while it runs, and the caller has not gone on by then.
LEMMA GitKeepsIInv ==
    ASSUME IInv, Git
    PROVE  IInv'
<1>0. caller = "reading" /\ result = "none" /\ git = "running"
  BY DEF IInv, TypeOK, Git, GitReads, GitWrites, GitSucceeds, GitFails
<1>1. CASE GitReads
  <2>1. TypeOK'
    BY <1>1 DEF GitReads, IInv, TypeOK, feed
  <2>a. PipesBounded'
    <3>1. (sent - taken)' <= Capacity
      BY <1>1, GitPipeAssumption DEF GitReads, IInv, TypeOK, PipesBounded, feed
    <3>2. emitted' = emitted /\ collected' = collected
      BY <1>1 DEF GitReads
    <3> QED
      BY <3>1, <3>2 DEF IInv, PipesBounded
  <2>2. /\ git' = "running" /\ caller' = "reading" /\ result' = "none"
        /\ writer' = writer /\ sent' = sent /\ input' = input
    BY <1>0, <1>1 DEF GitReads, feed
  <2> QED
    BY <2>1, <2>a, <2>2 DEF IInv, SuccessIsComplete
<1>2. ASSUME NEW o \in Outputs, GitWrites(o)
      PROVE  IInv'
  <2>1. TypeOK'
    BY <1>2, GitPipeAssumption DEF GitWrites, IInv, TypeOK, feed
  <2>2. PipesBounded'
    <3>1. (sent - taken)' <= Capacity
      BY <1>2 DEF GitWrites, IInv, PipesBounded, feed
    <3>2. ASSUME NEW p \in Outputs
          PROVE  (emitted[p] - collected[p])' \in 0..Capacity
      <4>1. /\ emitted[p] \in Nat /\ collected[p] \in Nat
            /\ emitted[p] - collected[p] \in 0..Capacity
            /\ collected' = collected
        BY <1>2 DEF GitWrites, IInv, TypeOK, PipesBounded
      <4>2. emitted'[p] = IF p = o THEN emitted[p] + 1 ELSE emitted[p]
        BY <1>2 DEF GitWrites, IInv, TypeOK
      <4>3. p = o => emitted[p] - collected[p] < Capacity
        BY <1>2 DEF GitWrites
      <4> QED
        BY <4>1, <4>2, <4>3, GitPipeAssumption
    <3> QED
      BY <3>1, <3>2 DEF PipesBounded
  <2>3. /\ git' = "running" /\ caller' = "reading" /\ result' = "none"
        /\ writer' = writer /\ sent' = sent /\ input' = input
    BY <1>0, <1>2 DEF GitWrites, feed
  <2> QED
    BY <2>1, <2>2, <2>3 DEF IInv, SuccessIsComplete
<1>3. CASE GitSucceeds
  BY <1>0, <1>3 DEF GitSucceeds, IInv, TypeOK, PipesBounded, SuccessIsComplete, feed
<1>4. CASE GitFails
  BY <1>0, <1>4 DEF GitFails, IInv, TypeOK, PipesBounded, SuccessIsComplete, feed
<1> QED
  BY <1>1, <1>2, <1>3, <1>4 DEF Git

LEMMA CallerKeepsIInv ==
    ASSUME IInv, Caller
    PROVE  IInv'
<1>1. ASSUME NEW o \in Outputs, CallerReads(o)
      PROVE  IInv'
  <2>1. TypeOK'
    BY <1>1 DEF CallerReads, IInv, TypeOK, feed, process
  <2>2. PipesBounded'
    <3>1. (sent - taken)' <= Capacity
      BY <1>1 DEF CallerReads, IInv, PipesBounded, feed, process
    <3>2. ASSUME NEW p \in Outputs
          PROVE  (emitted[p] - collected[p])' \in 0..Capacity
      <4>1. /\ emitted[p] \in Nat /\ collected[p] \in Nat
            /\ emitted[p] - collected[p] \in 0..Capacity
            /\ emitted' = emitted
        BY <1>1 DEF CallerReads, IInv, TypeOK, PipesBounded, process
      <4>2. collected'[p] = IF p = o THEN collected[p] + 1 ELSE collected[p]
        BY <1>1 DEF CallerReads, IInv, TypeOK
      <4>3. p = o => collected[p] < emitted[p]
        BY <1>1 DEF CallerReads
      <4> QED
        BY <4>1, <4>2, <4>3, GitPipeAssumption
    <3> QED
      BY <3>1, <3>2 DEF PipesBounded
  <2>3. caller' = "reading" /\ result' = "none"
    BY <1>1 DEF CallerReads, IInv, TypeOK
  <2>4. UNCHANGED <<git, owed, writer, sent, input>>
    BY <1>1 DEF CallerReads, feed, process
  <2> QED
    BY <2>1, <2>2, <2>3, <2>4 DEF IInv, SuccessIsComplete, Nothing
<1>2. CASE CallerReaps
  BY <1>2 DEF CallerReaps, IInv, TypeOK, PipesBounded, SuccessIsComplete, feed, process
<1>3. CASE CallerJoins
  BY <1>3 DEF CallerJoins, IInv, TypeOK, PipesBounded, SuccessIsComplete, feed, process
<1> QED
  BY <1>1, <1>2, <1>3 DEF Caller

\* The pipes are never overfull and each actor knows what IInv says it knows
\* of the others, in every reachable state of the call.
THEOREM CallInvariant == Spec => []IInv
<1>1. Init => IInv
  BY InitIInv
<1>2. IInv /\ [Next]_vars => IInv'
  <2> SUFFICES ASSUME IInv, [Next]_vars PROVE IInv'
    OBVIOUS
  <2>1. CASE UNCHANGED vars
    BY <2>1 DEF vars, feed, process, IInv, TypeOK, PipesBounded,
                SuccessIsComplete
  <2> QED
    BY <2>1, WriterKeepsIInv, GitKeepsIInv, CallerKeepsIInv DEF Next
<1> QED
  BY <1>1, <1>2, PTL DEF Spec

\* A success of git_bytes is the whole output of a Git that succeeded and was
\* given its whole input.
THEOREM CompleteOutput == Spec => []SuccessIsComplete
<1>1. IInv => SuccessIsComplete
  BY DEF IInv
<1> QED
  BY <1>1, CallInvariant, PTL
=============================================================================
