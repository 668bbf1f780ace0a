---------------------------- MODULE CaptureSession ----------------------------
(***************************************************************************)
(* A running capture (PipeWireCaptureSession, linux.rs): the pw-record     *)
(* process, the thread that reads its output and makes frames of it, the   *)
(* thread that reads its errors, and the owner, which takes frames from    *)
(* the channel until it stops and drops the session.  Three of them write  *)
(* the state in the statistics.                                            *)
(*                                                                         *)
(* Frames are numbered; what is in them is left out.  The owner is the     *)
(* sender manager (SenderManager), which keeps a capture that has ended.   *)
(***************************************************************************)
EXTENDS Naturals, Sequences

CONSTANTS MaxFrames,  \* bound: chunks the process writes
          PipeSize,   \* chunks the pipe holds
          MaxFaults   \* bound: system calls that fail

ASSUME CaptureAssumption ==
  MaxFrames \in Nat /\ PipeSize \in Nat \ {0} /\ MaxFaults \in Nat

VARIABLES
  child,    \* the process: running, exited (a zombie) or reaped
  slot,     \* the session still holds the handle of the process
  written,  \* chunks it has written
  pipe,     \* chunks in its output
  stats,    \* CaptureStats.state
  emitted,  \* CaptureStats.frames_emitted
  frames,   \* the channel of the frames: their numbers
  reader,   \* capture_stdout_loop
  number,   \* its sequence
  errors,   \* capture_stderr_loop runs
  owner,    \* where the owner is
  got,      \* frames it has taken
  told,     \* it has been told that the capture ended
  refused,  \* stop returned an error
  faults

childVars == <<child, slot, written, pipe>>
readVars  == <<frames, reader, number, errors>>
ownVars   == <<owner, got, told, refused>>
captureVars == <<childVars, stats, emitted, readVars, ownVars, faults>>

Ended == {"DeviceDisconnected", "Failed"}
OwnerSteps == {"using", "reap", "kill", "wait", "join", "joinErrors", "dropped"}

CaptureTypeOK ==
  /\ child \in {"running", "exited", "reaped"} /\ slot \in BOOLEAN
  /\ written \in 0..MaxFrames /\ pipe \in 0..PipeSize
  /\ stats \in {"Starting", "Capturing", "Stopped"} \cup Ended
  /\ emitted \in 0..MaxFrames /\ frames \in Seq(Nat)
  /\ reader \in {"starting", "reading", "sending", "ended", "exited"}
  /\ number \in 0..MaxFrames /\ errors \in BOOLEAN
  /\ owner \in OwnerSteps /\ got \in 0..MaxFrames /\ told \in BOOLEAN
  /\ refused \in BOOLEAN /\ faults \in 0..MaxFaults

\* start_capture has returned.
CaptureInit ==
  /\ child = "running" /\ slot = TRUE /\ written = 0 /\ pipe = 0
  /\ stats = "Starting" /\ emitted = 0
  /\ frames = <<>> /\ reader = "starting" /\ number = 0 /\ errors = TRUE
  /\ owner = "using" /\ got = 0 /\ told = FALSE
  /\ refused = FALSE /\ faults = 0

Fault == faults < MaxFaults /\ faults' = faults + 1

-----------------------------------------------------------------------------
(* The process.                                                            *)

Record ==
  /\ child = "running" /\ reader # "exited" /\ written < MaxFrames /\ pipe < PipeSize
  /\ written' = written + 1 /\ pipe' = pipe + 1
  /\ UNCHANGED <<child, slot, stats, emitted, readVars, ownVars, faults>>

\* Its device disappears, or PipeWire does.
Die ==
  /\ child = "running" /\ child' = "exited"
  /\ UNCHANGED <<slot, written, pipe, stats, emitted, readVars, ownVars, faults>>

-----------------------------------------------------------------------------
(* capture_stdout_loop.                                                    *)

BeginReading ==
  /\ reader = "starting" /\ reader' = "reading" /\ stats' = "Capturing"
  /\ UNCHANGED <<childVars, emitted, frames, number, errors, ownVars, faults>>

\* A chunk was read: the statistics, then the frame.
ReadChunk ==
  /\ reader = "reading" /\ pipe > 0
  /\ pipe' = pipe - 1 /\ emitted' = emitted + 1 /\ stats' = "Capturing"
  /\ reader' = "sending"
  /\ UNCHANGED <<child, slot, written, frames, number, errors, ownVars, faults>>

\* The receiving end is dropped with the session, after the reader is joined.
SendFrame ==
  /\ reader = "sending"
  /\ frames' = Append(frames, number) /\ number' = number + 1
  /\ reader' = "reading"
  /\ UNCHANGED <<childVars, stats, emitted, errors, ownVars, faults>>

\* A bug: the end of the output is only logged.
EndQuietly ==
  /\ reader = "reading" /\ pipe = 0 /\ child # "running"
  /\ reader' = "exited"
  /\ UNCHANGED <<childVars, stats, emitted, frames, number, errors, ownVars, faults>>

\* The output ended: it is an error unless the capture was stopped, which is
\* looked at before the lock is taken again to say so.
EndOfOutput ==
  /\ reader = "reading" /\ pipe = 0 /\ child # "running"
  /\ reader' = IF stats = "Stopped" THEN "exited" ELSE "ended"
  /\ UNCHANGED <<childVars, stats, emitted, frames, number, errors, ownVars, faults>>

MarkDisconnected ==
  /\ reader = "ended" /\ reader' = "exited" /\ stats' = "DeviceDisconnected"
  /\ UNCHANGED <<childVars, emitted, frames, number, errors, ownVars, faults>>

ReadFails ==
  /\ reader = "reading" /\ Fault
  /\ reader' = "exited" /\ stats' = "Failed"
  /\ UNCHANGED <<childVars, emitted, frames, number, errors, ownVars>>

\* capture_stderr_loop ends with the process, or on an error of its own.
ErrorsEnd ==
  /\ errors /\ errors' = FALSE
  /\ \/ child # "running" /\ UNCHANGED faults
     \/ Fault
  /\ UNCHANGED <<childVars, stats, emitted, frames, reader, number, ownVars>>

-----------------------------------------------------------------------------
(* The owner.                                                              *)

\* try_recv_frame
TakeFrame ==
  /\ owner = "using"
  /\ \/ /\ frames # <<>>
        /\ frames' = Tail(frames) /\ got' = got + 1 /\ UNCHANGED told
     \/ /\ frames = <<>> /\ reader = "exited" /\ told' = TRUE
        /\ UNCHANGED <<frames, got>>
  /\ UNCHANGED <<childVars, stats, emitted, reader, number, errors, owner, refused, faults>>

\* stop: first the statistics.
Stop ==
  /\ owner = "using"
  /\ stats' = "Stopped"
  /\ owner' = "reap"
  /\ UNCHANGED <<childVars, emitted, readVars, got, told, refused, faults>>

\* A step of stop that fails returns early; the session is then dropped, and
\* drop stops it again without a process to look after.
GiveUp == Fault /\ owner' = "join" /\ stats' = "Stopped" /\ refused' = TRUE

\* A bug: the reader is joined while the process still runs.
JoinFirst ==
  /\ owner = "reap" /\ reader = "exited" /\ owner' = "joinErrors"
  /\ UNCHANGED <<childVars, stats, emitted, readVars, got, told, refused, faults>>

\* take and try_wait
Reap ==
  /\ owner = "reap" /\ slot /\ slot' = FALSE
  /\ \/ /\ child = "running" /\ owner' = "kill"
        /\ UNCHANGED <<child, stats, refused, faults>>
     \/ /\ child = "exited" /\ child' = "reaped" /\ owner' = "join"
        /\ UNCHANGED <<stats, refused, faults>>
     \/ GiveUp /\ UNCHANGED child
  /\ UNCHANGED <<written, pipe, emitted, readVars, got, told>>

\* A bug: the process is killed and nobody waits for it.
KillAndJoin ==
  /\ owner = "kill" /\ owner' = "join"
  /\ child' = "exited"
  /\ UNCHANGED <<slot, written, pipe, stats, emitted, readVars, got, told, refused, faults>>

\* Killing a process that has ended meanwhile is no error.
Kill ==
  /\ owner = "kill"
  /\ \/ /\ child' = "exited" /\ owner' = "wait" /\ UNCHANGED <<stats, refused, faults>>
     \/ GiveUp /\ UNCHANGED child
  /\ UNCHANGED <<slot, written, pipe, emitted, readVars, got, told>>

Wait ==
  /\ owner = "wait"
  /\ \/ /\ child' = "reaped" /\ owner' = "join" /\ UNCHANGED <<stats, refused, faults>>
     \/ GiveUp /\ UNCHANGED child
  /\ UNCHANGED <<slot, written, pipe, emitted, readVars, got, told>>

\* The threads are joined one after the other.
JoinReader ==
  /\ owner = "join" /\ reader = "exited" /\ owner' = "joinErrors"
  /\ UNCHANGED <<childVars, stats, emitted, readVars, got, told, refused, faults>>

\* Drop stops a session that was stopped once more, and frees the channel.
JoinErrors ==
  /\ owner = "joinErrors" /\ ~errors /\ owner' = "dropped"
  /\ stats' = IF refused THEN stats ELSE "Stopped"
  /\ frames' = <<>>
  /\ UNCHANGED <<childVars, emitted, reader, number, errors, got, told, refused, faults>>

CaptureNext ==
  \/ Record \/ Die
  \/ BeginReading \/ ReadChunk \/ SendFrame \/ EndOfOutput \/ MarkDisconnected \/ ReadFails
  \/ ErrorsEnd
  \/ TakeFrame \/ Stop \/ Reap \/ Kill \/ Wait \/ JoinReader \/ JoinErrors

\* The threads run; the process may go on for as long as it likes.
CaptureFairness ==
  /\ WF_captureVars(BeginReading) /\ WF_captureVars(ReadChunk) /\ WF_captureVars(SendFrame)
  /\ WF_captureVars(EndOfOutput) /\ WF_captureVars(MarkDisconnected) /\ WF_captureVars(ErrorsEnd)
  /\ WF_captureVars(Reap) /\ WF_captureVars(Kill) /\ WF_captureVars(Wait)
  /\ WF_captureVars(JoinReader) /\ WF_captureVars(JoinErrors) /\ WF_captureVars(TakeFrame)

CaptureSpec == CaptureInit /\ [][CaptureNext]_captureVars
CaptureFairSpec == CaptureSpec /\ CaptureFairness

-----------------------------------------------------------------------------
(* Properties.                                                             *)

\* Once a session is dropped nothing of it is left: no thread, and, unless the
\* system refused to end it, no process.
NothingLeftBehind ==
  owner = "dropped" =>
    /\ reader = "exited" /\ ~errors
    /\ ~refused => child = "reaped" /\ stats = "Stopped"

\* "If a device disconnects or pw-record stops emitting data, the capture session
\* marks its stats as DeviceDisconnected or Failed and closes the frame stream":
\* whoever is told that the capture has ended without having stopped it finds the
\* reason, and has had every frame that was counted.
EndIsExplained ==
  told /\ owner = "using" => stats \in Ended /\ got = emitted

\* A stop that nothing refuses ends, even while the process goes on recording.
StopEnds == (owner = "reap") ~> (owner = "dropped" \/ refused)

=============================================================================
