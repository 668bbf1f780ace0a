----------------------------- MODULE BranchQueue -----------------------------
(***************************************************************************)
(* BufferedBranchQueue (synchrosonic-transport, fanout.rs): the bounded    *)
(* channel between the sender manager thread, the only caller of push, and *)
(* the worker of one branch (a network writer or the local mirror).        *)
(*                                                                         *)
(* push is not atomic: it tries to send, on a full channel removes the     *)
(* oldest element itself, and tries to send again.  The worker removes     *)
(* elements between any two of these steps.  Frames are sequence numbers.  *)
(***************************************************************************)
EXTENDS Integers, Sequences

CONSTANTS RequestedCapacity,  \* the capacity asked of BufferedBranchQueue::new
          MaxFrame            \* bound: frames pushed in a behaviour

ASSUME CapacityAssumption == RequestedCapacity \in Nat
ASSUME MaxFrameAssumption == MaxFrame \in Nat

\* new(): a branch always holds at least one frame.
Capacity == IF RequestedCapacity >= 1 THEN RequestedCapacity ELSE 1

VARIABLES queue,    \* content of the bounded channel, oldest first
          pc,       \* where push stands: idle, full (first try_send refused),
                    \* retry (oldest removed, second try_send to come)
          pushed,   \* frames handed to push; the frame in hand is number pushed
          dropped,  \* dropped_packets
          taken,    \* frames the worker received to play or write
          stale,    \* frames the worker removed in clear_stale_frames / clear
          lastOut,  \* the last frame the worker removed, 0 before the first
          outcome   \* result of the last push

vars == <<queue, pc, pushed, dropped, taken, stale, lastOut, outcome>>

Outcomes == {"None", "Enqueued", "DroppedOldest", "DroppedNewest"}

Init == /\ queue = <<>>
        /\ pc = "idle"
        /\ pushed = 0
        /\ dropped = 0
        /\ taken = 0
        /\ stale = 0
        /\ lastOut = 0
        /\ outcome = "None"

-----------------------------------------------------------------------------
(* The manager thread in push.                                             *)

\* The first try_send.  A full channel hands the frame back.
TrySend ==
  /\ pc = "idle"
  /\ pushed < MaxFrame
  /\ pushed' = pushed + 1
  /\ \/ /\ Len(queue) < Capacity
        /\ queue' = Append(queue, pushed')
        /\ outcome' = "Enqueued"
        /\ pc' = "idle"
     \/ /\ Len(queue) = Capacity
        /\ pc' = "full"
        /\ UNCHANGED <<queue, outcome>>
  /\ UNCHANGED <<dropped, taken, stale, lastOut>>

\* A bug: the eviction is counted and forgotten.
EvictNothing ==
  /\ pc = "full"
  /\ queue # <<>>
  /\ dropped' = dropped + 1
  /\ pc' = "retry"
  /\ UNCHANGED <<queue, pushed, taken, stale, lastOut, outcome>>

\* A bug: the newest buffered frame is evicted instead of the oldest.
EvictNewest ==
  /\ pc = "full"
  /\ queue # <<>>
  /\ queue' = SubSeq(queue, 1, Len(queue) - 1)
  /\ dropped' = dropped + 1
  /\ pc' = "retry"
  /\ UNCHANGED <<pushed, taken, stale, lastOut, outcome>>

\* try_recv by the pushing thread: the oldest frame still there is dropped.
\* The counter is only read by this same thread (snapshot), so counting is
\* part of the step.
EvictOldest ==
  /\ pc = "full"
  /\ queue # <<>>
  /\ queue' = Tail(queue)
  /\ dropped' = dropped + 1
  /\ pc' = "retry"
  /\ UNCHANGED <<pushed, taken, stale, lastOut, outcome>>

\* The worker emptied the channel since the first try_send, so try_recv finds
\* nothing: push drops the frame it was given although there is room for it.
DropInHand ==
  /\ pc = "full"
  /\ queue = <<>>
  /\ dropped' = dropped + 1
  /\ outcome' = "DroppedNewest"
  /\ pc' = "idle"
  /\ UNCHANGED <<queue, pushed, taken, stale, lastOut>>

\* A bug: the frame in hand is sent without being the latest of the channel.
RetrySendFront ==
  /\ pc = "retry"
  /\ pc' = "idle"
  /\ queue' = <<pushed>> \o queue
  /\ outcome' = "DroppedOldest"
  /\ UNCHANGED <<dropped, pushed, taken, stale, lastOut>>

\* The second try_send.
RetrySend ==
  /\ pc = "retry"
  /\ pc' = "idle"
  /\ IF Len(queue) < Capacity
     THEN /\ queue' = Append(queue, pushed)
          /\ outcome' = "DroppedOldest"
          /\ UNCHANGED dropped
     ELSE /\ dropped' = dropped + 1
          /\ outcome' = "DroppedNewest"
          /\ UNCHANGED queue
  /\ UNCHANGED <<pushed, taken, stale, lastOut>>

-----------------------------------------------------------------------------
(* The branch worker.                                                      *)

\* recv_timeout in the writer loop or the mirror loop.
Receive ==
  /\ queue # <<>>
  /\ lastOut' = Head(queue)
  /\ queue' = Tail(queue)
  /\ taken' = taken + 1
  /\ UNCHANGED <<pc, pushed, dropped, stale, outcome>>

\* One try_recv of the loop that throws away stale frames.
ClearOne ==
  /\ queue # <<>>
  /\ lastOut' = Head(queue)
  /\ queue' = Tail(queue)
  /\ stale' = stale + 1
  /\ UNCHANGED <<pc, pushed, dropped, taken, outcome>>

Push == TrySend \/ EvictOldest \/ DropInHand \/ RetrySend
Next == Push \/ Receive \/ ClearOne

Spec == Init /\ [][Next]_vars

-----------------------------------------------------------------------------
TypeOK ==
  /\ queue \in Seq(1..MaxFrame)
  /\ Len(queue) <= Capacity
  /\ pc \in {"idle", "full", "retry"}
  /\ pushed \in 0..MaxFrame
  /\ dropped \in Nat /\ taken \in Nat /\ stale \in Nat
  /\ lastOut \in 0..MaxFrame
  /\ outcome \in Outcomes

InHand == IF pc = "idle" THEN 0 ELSE 1

\* Every frame handed to push is accounted for exactly once: in the channel,
\* received, cleared as stale, counted in dropped_packets, or still in hand
\* (fanout.rs push: no path loses a frame without counting it).
Conservation == pushed = Len(queue) + taken + stale + dropped + InHand

\* The channel holds an unbroken run of frames that ends at the last frame that
\* was sent: evicting at one end and losing the frame in hand at the other
\* never leave a hole inside the buffered audio (fanout.rs 67-88).
UnbrokenRun ==
  \A i \in 1..Len(queue) : queue[i] = pushed - InHand - Len(queue) + i

\* Whatever is still buffered is younger than all that left the branch.
NothingOverdue == \A i \in 1..Len(queue) : lastOut < queue[i]

\* Once push has made room, nobody else fills it before the second try_send:
\* its Full arm (fanout.rs 77-80) cannot be reached with one pushing thread.
RetryHasRoom == pc = "retry" => Len(queue) < Capacity

\* Making room in three separate steps leaves the buffer as one step would: no
\* hole in it, and room for the frame in hand (fanout.rs 67-88).
EvictionSound == UnbrokenRun /\ RetryHasRoom

\* docs/local-playback-mirror.md:52 "the oldest buffered packet is dropped
\* first": the frame push was given is never the one that is dropped.
OldestDroppedFirst == outcome # "DroppedNewest"

\* The branch as the rest of the sender sees it.
Abstract == INSTANCE FrameBranch
              WITH Window <- Capacity, LastFrame <- MaxFrame,
                   sent <- pushed, seen <- lastOut

\* Worker-side deliveries are in order, without repetition, and no older than
\* Capacity frames behind the capture.
DeliversRecentInOrder == Abstract!BranchSpec
=============================================================================
