--------------------------- MODULE PipelineProofs ---------------------------
(***************************************************************************)
(* Proofs about the audio on its way to a target: the capture it comes     *)
(* from (CaptureSession) and the bounded queue of each branch              *)
(* (BranchQueue).                                                          *)
(*                                                                         *)
(* The branch queue: its safety invariants, and that it implements         *)
(* FrameBranch, for every capacity and every number of frames.  The        *)
(* capture: type correctness and the safety of its stop, for every number  *)
(* of chunks, every size of the pipe and every number of system calls      *)
(* that fail.                                                              *)
(***************************************************************************)
EXTENDS BranchQueue, CaptureSession, SequenceTheorems, TLAPS

-----------------------------------------------------------------------------
(* The branch queue.                                                       *)

\* The inductive invariant.  UnbrokenRun alone is not inductive: that the frame
\* put in by the second try_send follows the last one needs RetryHasRoom (else it
\* is lost and leaves a hole), and DropInHand keeps the run only on an empty channel.
IInv == /\ TypeOK
        /\ InHand <= pushed
        /\ Conservation
        /\ UnbrokenRun
        /\ NothingOverdue
        /\ lastOut <= pushed - InHand
        /\ RetryHasRoom

\* Whatever is asked for, the queue can hold a frame (fanout.rs new, capacity.max(1)).
LEMMA CapacityPositive == Capacity \in Nat /\ Capacity >= 1
BY CapacityAssumption DEF Capacity

\* What removing the head of a nonempty sequence leaves.
LEMMA TailProperties ==
  ASSUME NEW S, NEW s \in Seq(S), s # <<>>
  PROVE  /\ Tail(s) \in Seq(S)
         /\ Len(s) \in Nat /\ Len(s) >= 1
         /\ Len(Tail(s)) = Len(s) - 1
         /\ Head(s) = s[1] /\ Head(s) \in S
         /\ \A i \in 1..Len(Tail(s)) : Tail(s)[i] = s[i + 1]
OBVIOUS

\* The invariant holds of a new queue.
LEMMA InitIInv == Init => IInv
BY CapacityPositive, MaxFrameAssumption
   DEF Init, IInv, TypeOK, Conservation, UnbrokenRun, NothingOverdue,
       RetryHasRoom, InHand, Outcomes

\* Every step of push and of the worker preserves the invariant.
LEMMA StepIInv == IInv /\ [Next]_vars => IInv'
<1> SUFFICES ASSUME IInv, [Next]_vars PROVE IInv'
  OBVIOUS
<1> USE CapacityPositive, MaxFrameAssumption
<1>q. queue \in Seq(1..MaxFrame) /\ Len(queue) \in Nat
  BY DEF IInv, TypeOK
<1>1. CASE TrySend
  <2>1. CASE Len(queue) < Capacity /\ queue' = Append(queue, pushed')
             /\ outcome' = "Enqueued" /\ pc' = "idle"
    <3>1. pushed' \in 1..MaxFrame
      BY <1>1 DEF TrySend, IInv, TypeOK
    <3>2. /\ queue' \in Seq(1..MaxFrame) /\ Len(queue') = Len(queue) + 1
          /\ \A i \in 1..Len(queue) : queue'[i] = queue[i]
          /\ queue'[Len(queue) + 1] = pushed'
      BY <2>1, <3>1, <1>q, AppendProperties
    <3> QED
      BY <1>1, <1>q, <2>1, <3>1, <3>2
         DEF TrySend, IInv, TypeOK, Conservation, UnbrokenRun, NothingOverdue,
             RetryHasRoom, InHand, Outcomes
  <2>2. CASE Len(queue) = Capacity /\ pc' = "full" /\ UNCHANGED <<queue, outcome>>
    BY <1>1, <1>q, <2>2
       DEF TrySend, IInv, TypeOK, Conservation, UnbrokenRun, NothingOverdue,
           RetryHasRoom, InHand, Outcomes
  <2> QED
    BY <1>1, <2>1, <2>2 DEF TrySend
<1>2. CASE EvictOldest
  <2>1. /\ queue' \in Seq(1..MaxFrame) /\ Len(queue') = Len(queue) - 1
        /\ \A i \in 1..Len(queue') : queue'[i] = queue[i + 1]
    BY <1>2, <1>q, TailProperties DEF EvictOldest
  <2> QED
    BY <1>2, <1>q, <2>1
       DEF EvictOldest, IInv, TypeOK, Conservation, UnbrokenRun, NothingOverdue,
           RetryHasRoom, InHand, Outcomes
<1>3. CASE DropInHand
  BY <1>3, <1>q
     DEF DropInHand, IInv, TypeOK, Conservation, UnbrokenRun, NothingOverdue,
         RetryHasRoom, InHand, Outcomes
<1>4. CASE RetrySend
  <2>1. Len(queue) < Capacity /\ queue' = Append(queue, pushed)
        /\ outcome' = "DroppedOldest" /\ dropped' = dropped
    BY <1>4 DEF RetrySend, IInv, RetryHasRoom
  <2>2. pushed \in 1..MaxFrame
    BY <1>4 DEF RetrySend, IInv, TypeOK, InHand
  <2>3. /\ queue' \in Seq(1..MaxFrame) /\ Len(queue') = Len(queue) + 1
        /\ \A i \in 1..Len(queue) : queue'[i] = queue[i]
        /\ queue'[Len(queue) + 1] = pushed
    BY <2>1, <2>2, <1>q, AppendProperties
  <2>4. /\ pushed' = pushed /\ taken' = taken /\ stale' = stale
        /\ lastOut' = lastOut /\ pc' = "idle" /\ InHand = 1 /\ InHand' = 0
    BY <1>4 DEF RetrySend, InHand
  <2>5. TypeOK' /\ RetryHasRoom'
    BY <1>q, <2>1, <2>3, <2>4 DEF IInv, TypeOK, RetryHasRoom, Outcomes
  <2>6. Conservation'
    BY <1>q, <2>1, <2>3, <2>4 DEF IInv, TypeOK, Conservation
  <2>7. UnbrokenRun'
    <3> SUFFICES ASSUME NEW i \in 1..Len(queue')
                 PROVE  queue'[i] = pushed - 0 - Len(queue') + i
      BY <2>4 DEF UnbrokenRun
    <3>1. CASE i = Len(queue) + 1
      BY <1>q, <2>2, <2>3, <3>1
    <3>2. CASE i \in 1..Len(queue)
      BY <1>q, <2>2, <2>3, <2>4, <3>2 DEF IInv, UnbrokenRun
    <3> QED BY <1>q, <2>3, <3>1, <3>2
  <2>8. lastOut' <= pushed' - InHand' /\ InHand' <= pushed' /\ lastOut < pushed
    BY <2>2, <2>4 DEF IInv, TypeOK
  <2>9. NothingOverdue'
    <3> SUFFICES ASSUME NEW i \in 1..Len(queue') PROVE lastOut < queue'[i]
      BY <2>4 DEF NothingOverdue
    <3>1. CASE i = Len(queue) + 1
      BY <2>3, <2>8, <3>1
    <3>2. CASE i \in 1..Len(queue)
      BY <2>3, <3>2 DEF IInv, NothingOverdue
    <3> QED BY <1>q, <2>3, <3>1, <3>2
  <2> QED
    BY <2>5, <2>6, <2>7, <2>8, <2>9 DEF IInv
<1>5. CASE Receive \/ ClearOne
  <2>0. queue # <<>> /\ lastOut' = Head(queue) /\ queue' = Tail(queue)
    BY <1>5 DEF Receive, ClearOne
  <2>1. /\ queue' \in Seq(1..MaxFrame) /\ Len(queue') = Len(queue) - 1
        /\ Len(queue) >= 1
        /\ lastOut' = queue[1] /\ lastOut' \in 1..MaxFrame
        /\ \A i \in 1..Len(queue') : queue'[i] = queue[i + 1]
    BY <2>0, <1>q, TailProperties
  <2>2. pc' = pc /\ pushed' = pushed /\ dropped' = dropped /\ outcome' = outcome
        /\ taken' \in Nat /\ stale' \in Nat
    BY <1>5 DEF Receive, ClearOne, IInv, TypeOK
  <2>3. InHand' = InHand /\ InHand \in {0, 1}
    BY <2>2 DEF InHand
  <2>4. TypeOK' /\ RetryHasRoom'
    BY <1>q, <2>1, <2>2 DEF IInv, TypeOK, RetryHasRoom
  <2>5. Conservation'
    <3>1. pushed \in Nat /\ dropped \in Nat /\ taken \in Nat /\ stale \in Nat
          /\ pushed = Len(queue) + taken + stale + dropped + InHand
      BY DEF IInv, TypeOK, Conservation
    <3>2. CASE Receive
      BY <1>q, <2>1, <2>2, <2>3, <3>1, <3>2 DEF Receive, Conservation
    <3>3. CASE ClearOne
      BY <1>q, <2>1, <2>2, <2>3, <3>1, <3>3 DEF ClearOne, Conservation
    <3> QED BY <1>5, <3>2, <3>3
  <2>6. UnbrokenRun'
    BY <1>q, <2>1, <2>2, <2>3 DEF IInv, TypeOK, UnbrokenRun
  <2>7. lastOut' <= pushed' - InHand' /\ InHand' <= pushed'
    BY <1>q, <2>1, <2>2, <2>3 DEF IInv, TypeOK, UnbrokenRun
  <2>8. NothingOverdue'
    <3> SUFFICES ASSUME NEW i \in 1..Len(queue') PROVE lastOut' < queue'[i]
      BY DEF NothingOverdue
    <3>1. i + 1 \in 1..Len(queue) /\ 1 \in 1..Len(queue)
      BY <1>q, <2>1
    <3>2. queue[i + 1] = queue[1] + i
      BY <1>q, <2>3, <3>1 DEF IInv, TypeOK, UnbrokenRun
    <3> QED BY <2>1, <3>1, <3>2
  <2> QED
    BY <2>4, <2>5, <2>6, <2>7, <2>8 DEF IInv
<1>6. CASE UNCHANGED vars
  BY <1>6 DEF vars, IInv, TypeOK, Conservation, UnbrokenRun, NothingOverdue,
              RetryHasRoom, InHand, Outcomes
<1> QED
  BY <1>1, <1>2, <1>3, <1>4, <1>5, <1>6 DEF Next, Push

\* The inductive invariant holds in every state of the branch.
THEOREM InvariantHolds == Spec => []IInv
<1>1. QED BY InitIInv, StepIInv, PTL DEF Spec

\* The channel stays within its capacity and holds frame numbers, whatever the
\* worker and push do in between (fanout.rs push).
THEOREM TypeCorrect == Spec => []TypeOK
<1>1. IInv => TypeOK BY DEF IInv
<1>2. QED BY <1>1, InvariantHolds, PTL

\* No frame is lost without being counted, and none is counted twice.
THEOREM FramesConserved == Spec => []Conservation
<1>1. IInv => Conservation BY DEF IInv
<1>2. QED BY <1>1, InvariantHolds, PTL

\* The buffered frames have no hole and end at the last frame sent.
THEOREM BufferUnbroken == Spec => []UnbrokenRun
<1>1. IInv => UnbrokenRun BY DEF IInv
<1>2. QED BY <1>1, InvariantHolds, PTL

\* With one pushing thread the Full arm of the second try_send is dead code.
THEOREM RetrySucceeds == Spec => []RetryHasRoom
<1>1. IInv => RetryHasRoom BY DEF IInv
<1>2. QED BY <1>1, InvariantHolds, PTL

\* Eviction in separate steps leaves no hole and finds room, for every capacity
\* and every number of frames (fanout.rs 67-88).
THEOREM EvictionIsSound == Spec => []EvictionSound
<1>1. UnbrokenRun /\ RetryHasRoom => EvictionSound BY DEF EvictionSound
<1>2. QED BY <1>1, BufferUnbroken, RetrySucceeds, PTL

\* A step of the worker takes the head of an unbroken run that started at most
\* Capacity frames behind the capture; every other step of the queue leaves
\* lastOut alone.
LEMMA StepRefines ==
  ASSUME IInv, [Next]_vars
  PROVE  [Abstract!BranchNext]_(Abstract!branchVars)
<1> USE CapacityPositive, MaxFrameAssumption
<1>1. CASE TrySend
  <2>1. Abstract!Offer
    BY <1>1 DEF TrySend, Abstract!Offer
  <2> QED BY <2>1 DEF Abstract!BranchNext
<1>2. CASE EvictOldest \/ DropInHand \/ RetrySend \/ UNCHANGED vars
  <2>1. UNCHANGED <<pushed, lastOut>>
    BY <1>2 DEF EvictOldest, DropInHand, RetrySend, vars
  <2> QED BY <2>1 DEF Abstract!branchVars
<1>3. CASE Receive \/ ClearOne
  <2>1. /\ Len(queue) \in Nat /\ Len(queue) >= 1 /\ Len(queue) <= Capacity
        /\ lastOut' = queue[1] /\ pushed' = pushed
    BY <1>3, TailProperties DEF Receive, ClearOne, IInv, TypeOK
  <2>2. pushed \in Nat /\ lastOut \in Nat /\ InHand \in {0, 1}
    BY DEF IInv, TypeOK, InHand
  <2>3. lastOut < queue[1] /\ queue[1] = pushed - InHand - Len(queue) + 1
    BY <2>1 DEF IInv, UnbrokenRun, NothingOverdue
  <2>4. queue[1] \in (lastOut + 1)..pushed
    BY <2>1, <2>2, <2>3
  <2>5. queue[1] + Capacity >= pushed
    BY <2>1, <2>2, <2>3
  <2>6. Abstract!Deliver
    BY <2>1, <2>4, <2>5 DEF Abstract!Deliver
  <2> QED BY <2>6 DEF Abstract!BranchNext
<1> QED
  BY <1>1, <1>2, <1>3 DEF Next, Push

\* The queue implements the branch the rest of the sender relies on: deliveries in
\* capture order, none twice, none more than Capacity frames old.
THEOREM QueueImplementsBranch == Spec => DeliversRecentInOrder
<1>1. Init => Abstract!BranchInit
  BY DEF Init, Abstract!BranchInit
<1>2. QED
  BY <1>1, StepRefines, InvariantHolds, PTL
     DEF Spec, DeliversRecentInOrder, Abstract!BranchSpec

-----------------------------------------------------------------------------
(* The capture.                                                            *)

\* Every chunk is in the pipe, in the reader's hands, in the channel or taken, and
\* the reader numbers what it sends without a gap.
Held == IF reader = "sending" THEN 1 ELSE 0

ChunksCounted ==
  /\ emitted + pipe = written
  /\ number + Held = emitted
  /\ owner # "dropped" => got + Len(frames) + Held = emitted

\* Until the owner stops it nobody calls the capture stopped, so that a reader
\* that leaves has a reason.
LeavesWithReason ==
  owner = "using" => /\ stats # "Stopped"
                     /\ reader = "exited" => stats \in Ended

\* An owner that was told of the end has drained the channel of a reader that left.
ToldAtTheEnd ==
  told => reader = "exited" /\ (owner = "using" => frames = <<>>)

\* What stop has done so far.
StopProgress ==
  /\ owner \in {"joinErrors", "dropped"} => reader = "exited"
  /\ owner = "dropped" => ~errors
  /\ owner \in {"join", "joinErrors", "dropped"} /\ ~refused => child = "reaped"
  /\ owner = "dropped" /\ ~refused => stats = "Stopped"

CaptureIInv == CaptureTypeOK /\ ChunksCounted /\ LeavesWithReason /\ ToldAtTheEnd /\ StopProgress

LEMMA InitCaptureIInv == CaptureInit => CaptureIInv
<1> SUFFICES ASSUME CaptureInit PROVE CaptureIInv
  OBVIOUS
<1>1. frames \in Seq(Nat) /\ Len(frames) = 0
  BY DEF CaptureInit
<1>2. CaptureTypeOK
  <2>1. 0 \in 0..MaxFrames /\ 0 \in 0..PipeSize /\ 0 \in 0..MaxFaults
    BY CaptureAssumption DEF CaptureAssumption
  <2> QED BY <1>1, <2>1 DEF CaptureInit, CaptureTypeOK, OwnerSteps, Ended
<1>3. ChunksCounted
  BY <1>1 DEF CaptureInit, ChunksCounted, Held
<1>4. LeavesWithReason /\ ToldAtTheEnd /\ StopProgress
  BY DEF CaptureInit, LeavesWithReason, ToldAtTheEnd, StopProgress
<1> QED BY <1>2, <1>3, <1>4 DEF CaptureIInv

LEMMA StepCaptureIInv == CaptureIInv /\ [CaptureNext]_captureVars => CaptureIInv'
<1> SUFFICES ASSUME CaptureIInv, [CaptureNext]_captureVars PROVE CaptureIInv'
  OBVIOUS
<1> USE CaptureAssumption
    DEF CaptureIInv, CaptureTypeOK, ChunksCounted, LeavesWithReason, ToldAtTheEnd, StopProgress,
        Held, OwnerSteps, Ended, childVars, readVars, ownVars
<1>1. CASE Record
  BY <1>1 DEF Record
<1>2. CASE Die
  BY <1>2 DEF Die
<1>3. CASE BeginReading
  BY <1>3 DEF BeginReading
<1>4. CASE ReadChunk
  BY <1>4 DEF ReadChunk
<1>5. CASE SendFrame
  BY <1>5 DEF SendFrame
<1>6. CASE EndOfOutput
  BY <1>6 DEF EndOfOutput
<1>7. CASE MarkDisconnected
  BY <1>7 DEF MarkDisconnected
<1>8. CASE ReadFails
  BY <1>8 DEF ReadFails, Fault
<1>9. CASE ErrorsEnd
  <2>1. /\ errors /\ errors' = FALSE
        /\ faults' \in 0..MaxFaults
        /\ UNCHANGED <<child, slot, written, pipe, stats, emitted, frames, reader, number,
                       owner, got, told, refused>>
    BY <1>9 DEF ErrorsEnd, Fault
  <2>2. CaptureTypeOK'
    BY <2>1
  <2>3. ChunksCounted'
    BY <2>1
  <2>4. LeavesWithReason' /\ ToldAtTheEnd' /\ StopProgress'
    BY <2>1
  <2> QED BY <2>2, <2>3, <2>4
<1>10. CASE TakeFrame
  <2>0. /\ owner = "using" /\ owner' = "using"
        /\ UNCHANGED <<child, slot, written, pipe, stats, emitted, reader, number, errors,
                       refused, faults>>
    BY <1>10 DEF TakeFrame
  <2>1. CASE frames # <<>> /\ frames' = Tail(frames) /\ got' = got + 1 /\ told' = told
    <3>1. frames' \in Seq(Nat) /\ Len(frames') = Len(frames) - 1 /\ Len(frames) \in Nat \ {0}
      BY <2>1, EmptySeq
    <3>2. ChunksCounted'
      BY <2>0, <2>1, <3>1
    <3>3. got' \in 0..MaxFrames
      BY <2>0, <2>1, <3>1
    <3> QED BY <2>0, <2>1, <3>1, <3>2, <3>3
  <2>2. CASE frames = <<>> /\ reader = "exited" /\ told' = TRUE /\ UNCHANGED <<frames, got>>
    BY <2>0, <2>2
  <2> QED BY <1>10, <2>1, <2>2 DEF TakeFrame
<1>11. CASE Stop
  BY <1>11 DEF Stop
<1>12. CASE Reap
  <2>0. /\ owner = "reap" /\ owner' \in {"kill", "join"} /\ slot' = FALSE
        /\ faults' \in 0..MaxFaults
        /\ UNCHANGED <<written, pipe, emitted, frames, reader, number, errors, got, told>>
    BY <1>12 DEF Reap, GiveUp, Fault
  <2>1. stats' \in {stats, "Stopped"} /\ refused' \in BOOLEAN /\ child' \in {child, "reaped"}
    BY <1>12 DEF Reap, GiveUp, Fault
  <2>2. owner' = "join" /\ ~refused' => child' = "reaped"
    BY <1>12 DEF Reap, GiveUp, Fault
  <2> QED BY <2>0, <2>1, <2>2
<1>13. CASE Kill
  <2>0. /\ owner = "kill" /\ owner' \in {"wait", "join"} /\ slot' = slot
        /\ faults' \in 0..MaxFaults
        /\ UNCHANGED <<written, pipe, emitted, frames, reader, number, errors, got, told>>
    BY <1>13 DEF Kill, GiveUp, Fault
  <2>1. stats' \in {stats, "Stopped"} /\ refused' \in BOOLEAN /\ child' \in {child, "exited"}
    BY <1>13 DEF Kill, GiveUp, Fault
  <2>2. owner' = "join" => refused'
    BY <1>13 DEF Kill, GiveUp, Fault
  <2> QED BY <2>0, <2>1, <2>2
<1>14. CASE Wait
  <2>0. /\ owner = "wait" /\ owner' = "join" /\ slot' = slot
        /\ faults' \in 0..MaxFaults
        /\ UNCHANGED <<written, pipe, emitted, frames, reader, number, errors, got, told>>
    BY <1>14 DEF Wait, GiveUp, Fault
  <2>1. stats' \in {stats, "Stopped"} /\ refused' \in BOOLEAN /\ child' \in {child, "reaped"}
    BY <1>14 DEF Wait, GiveUp, Fault
  <2>2. ~refused' => child' = "reaped"
    BY <1>14 DEF Wait, GiveUp, Fault
  <2> QED BY <2>0, <2>1, <2>2
<1>15. CASE JoinReader
  BY <1>15 DEF JoinReader
<1>16. CASE JoinErrors
  BY <1>16 DEF JoinErrors
<1>17. CASE UNCHANGED captureVars
  BY <1>17 DEF captureVars
<1> QED
  BY <1>1, <1>2, <1>3, <1>4, <1>5, <1>6, <1>7, <1>8, <1>9, <1>10, <1>11, <1>12, <1>13,
     <1>14, <1>15, <1>16, <1>17 DEF CaptureNext

\* The inductive invariant holds.
THEOREM CaptureInvariantHolds == CaptureSpec => []CaptureIInv
<1> QED BY InitCaptureIInv, StepCaptureIInv, PTL DEF CaptureSpec

\* Every variable keeps its type: no counter passes what the process has written
\* (capture_stdout_loop 312-384).
THEOREM CaptureTypeCorrect == CaptureSpec => []CaptureTypeOK
<1>1. CaptureIInv => CaptureTypeOK
  BY DEF CaptureIInv
<1> QED BY <1>1, CaptureInvariantHolds, PTL

\* A dropped session leaves no thread, and no process unless the system refused to
\* end it (stop 215-257, Drop 260-263).
THEOREM DropReleases == CaptureSpec => []NothingLeftBehind
<1>1. CaptureIInv => NothingLeftBehind
  BY DEF CaptureIInv, StopProgress, NothingLeftBehind
<1> QED BY <1>1, CaptureInvariantHolds, PTL

\* Whoever is told of the end without having asked for it has every frame, and
\* the reason (recv_frame 192-202, capture_stdout_loop 312-384).
THEOREM EndHasReason == CaptureSpec => []EndIsExplained
<1>1. CaptureIInv => EndIsExplained
  <2> SUFFICES ASSUME CaptureIInv, told, owner = "using"
               PROVE  stats \in Ended /\ got = emitted
    BY DEF EndIsExplained
  <2>1. reader = "exited" /\ frames = <<>>
    BY DEF CaptureIInv, ToldAtTheEnd
  <2>2. Held = 0 /\ Len(frames) = 0
    BY <2>1 DEF Held
  <2>3. got = emitted
    BY <2>2 DEF CaptureIInv, CaptureTypeOK, ChunksCounted
  <2> QED BY <2>1, <2>3 DEF CaptureIInv, LeavesWithReason
<1> QED BY <1>1, CaptureInvariantHolds, PTL

=============================================================================
