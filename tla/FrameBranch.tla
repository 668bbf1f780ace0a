----------------------------- MODULE FrameBranch -----------------------------
(***************************************************************************)
(* What one fan-out branch of the sender promises, whatever the queue in   *)
(* between does: the branch worker sees the frames of the capture in       *)
(* capture order, none twice, and none older than the last Window frames   *)
(* ("preserving recent audio for low-latency playback").  Frames may be    *)
(* lost.  A frame is its sequence number: 1 for the first frame pushed.    *)
(***************************************************************************)
EXTENDS Naturals

CONSTANTS Window,    \* how many of the latest frames the branch may hold
          LastFrame  \* bound: the capture hands over at most this many frames

VARIABLES sent,      \* frames handed to the branch so far
          seen       \* the last frame that left the branch, 0 before the first

branchVars == <<sent, seen>>

BranchInit == sent = 0 /\ seen = 0

Offer == /\ sent < LastFrame
         /\ sent' = sent + 1
         /\ UNCHANGED seen

Deliver == \E f \in (seen + 1)..sent :
              /\ f + Window >= sent
              /\ seen' = f
              /\ UNCHANGED sent

BranchNext == Offer \/ Deliver

BranchSpec == BranchInit /\ [][BranchNext]_branchVars
=============================================================================
