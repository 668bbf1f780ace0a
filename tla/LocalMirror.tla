----------------------------- MODULE LocalMirror -----------------------------
(***************************************************************************)
(* The local playback mirror of a cast: the toggle of LanSenderSession,    *)
(* what the sender manager does to the mirror in each of its phases        *)
(* (sender.rs), and the worker thread that owns the playback sink          *)
(* (fanout.rs, local_mirror_worker_loop).                                  *)
(*                                                                         *)
(* Three threads write the mirror's state: the manager its own copy, the   *)
(* manager and the user interface the published copy; the worker reports   *)
(* by events that the manager applies one iteration later or more.  The    *)
(* targets of the cast (SenderManager) are reduced to whether any is       *)
(* active or pending.  The worker handles a control in one step: the       *)
(* manager only appends to the channel, so when it left it is not seen.    *)
(***************************************************************************)
EXTENDS Naturals, Sequences

CONSTANTS MaxOps,       \* bound: calls of the user interface
          MaxCaptures,  \* bound: captures started
          QueueCapacity \* capacity of the frame queue (BranchQueue)

ASSUME MirrorBounds == MaxOps \in Nat /\ MaxCaptures \in Nat /\ QueueCapacity \in Nat \ {0}

VARIABLES
  running,    \* LanSenderSession: off, running, stopping (waits in join)
  requested,  \* the setting the user chose last
  toggling,   \* set_local_playback_enabled between its send and its lock
  ops,
  commands,   \* the control channel of the manager
  pubIdle, pubDesired, pubMirror,  \* the published snapshot: session is Idle,
              \* desired_enabled, state of the mirror
  pc,         \* phase of the manager thread
  desired, mirror,  \* the manager's own desired_enabled and mirror state
  wanted,     \* some target is active or pending
  listed,     \* some target is listed
  capture,    \* the manager holds a capture
  captures,   \* captures started
  controls,   \* LocalMirrorControl channel
  events,     \* LocalMirrorEvent channel; Started and StateChanged(Mirroring),
              \* sent together, are one event, Played is left out
  frames,     \* frames in the mirror's queue
  at,         \* the worker: drain (emptying controls), idle, play, exited
  enabled, sink     \* the worker's own variables

uiVars       == <<running, requested, toggling, ops>>
pubVars      == <<pubIdle, pubDesired, pubMirror>>
managerVars  == <<pc, desired, mirror, wanted, listed, capture, captures>>
workerVars   == <<at, enabled, sink>>
vars == <<uiVars, commands, pubVars, managerVars, controls, events, frames, workerVars>>

MirrorStates == {"Disabled", "Idle", "Starting", "Mirroring", "Stopping", "Error"}
Feeding      == {"Starting", "Mirroring"}
Events       == {"Mirroring", "Disabled", "Error"}
Commands     == {"on", "off", "retarget", "shutdown"}

Off(b) == IF b THEN "Idle" ELSE "Disabled"

Init ==
  /\ running = "off" /\ requested \in BOOLEAN /\ toggling = FALSE /\ ops = 0
  /\ commands = <<>>
  /\ pubIdle = TRUE /\ pubDesired = FALSE /\ pubMirror = "Disabled"
  /\ pc = "exited" /\ desired = FALSE /\ mirror = "Disabled"
  /\ wanted = FALSE /\ listed = FALSE /\ capture = FALSE /\ captures = 0
  /\ controls = <<>> /\ events = <<>> /\ frames = 0
  /\ at = "exited" /\ enabled = FALSE /\ sink = FALSE

-----------------------------------------------------------------------------
(* LanSenderSession.                                                       *)

Call == ~toggling /\ ops < MaxOps /\ ops' = ops + 1

\* start() without a manager: seeded snapshot, new manager, new branch.
Start ==
  /\ Call
  /\ running = "off" /\ running' = "running"
  /\ commands' = <<>>
  /\ pubIdle' = FALSE /\ pubDesired' = requested /\ pubMirror' = Off(requested)
  /\ pc' = "commands" /\ desired' = requested /\ mirror' = Off(requested)
  /\ wanted' = TRUE /\ listed' = TRUE /\ capture' = FALSE
  /\ controls' = <<>> /\ events' = <<>> /\ frames' = 0
  /\ at' = "drain" /\ enabled' = FALSE /\ sink' = FALSE
  /\ UNCHANGED <<requested, toggling, captures>>

Command(c) == commands' = IF running = "running" THEN Append(commands, c) ELSE commands

\* set_local_playback_enabled, up to the lock.
Toggle ==
  /\ Call
  /\ running # "stopping"
  /\ requested' = ~requested
  /\ toggling' = TRUE
  /\ Command(IF requested' THEN "on" ELSE "off")
  /\ UNCHANGED <<running, pubVars, managerVars, controls, events, frames, workerVars>>

\* The part under the lock: the published state is guessed, not read back.
TogglePublish ==
  /\ toggling
  /\ toggling' = FALSE
  /\ pubDesired' = requested
  /\ LET guess == IF pubIdle THEN Off(requested) ELSE pubMirror IN
     pubMirror' = IF requested /\ guess = "Disabled" THEN "Starting" ELSE guess
  /\ UNCHANGED <<running, requested, ops, commands, pubIdle, managerVars, controls,
                 events, frames, workerVars>>

\* set_local_playback_target
Retarget ==
  /\ Call
  /\ running = "running"
  /\ Command("retarget")
  /\ UNCHANGED <<running, requested, toggling, pubVars, managerVars, controls, events,
                 frames, workerVars>>

Stop ==
  /\ Call
  /\ running = "running" /\ running' = "stopping"
  /\ Command("shutdown")
  /\ UNCHANGED <<requested, toggling, pubVars, managerVars, controls, events, frames,
                 workerVars>>

\* A bug: the state of the mirror is published as the events left it.
FinalizedNever(state, want, recording) == state

\* finalize_local_mirror_state
Finalized(state, want, recording) ==
  CASE state = "Error"                         -> "Error"
    [] state # "Error" /\ ~recording           -> Off(want)
    [] state # "Error" /\ recording /\ ~want   -> "Disabled"
    [] state # "Error" /\ recording /\ want    ->
         IF state \in Feeding THEN state ELSE "Starting"

\* stop() after join.
Joined ==
  /\ running = "stopping" /\ pc = "exited"
  /\ running' = "off"
  /\ commands' = <<>>
  /\ pubIdle' = TRUE /\ pubMirror' = Finalized(pubMirror, pubDesired, FALSE)
  /\ UNCHANGED <<requested, toggling, ops, pubDesired, managerVars, controls, events,
                 frames, workerVars>>

-----------------------------------------------------------------------------
(* The manager thread.                                                     *)

StartMirror == mirror' = "Starting" /\ controls' = Append(controls, "Start")

Take(c) ==
  /\ pc = "commands" /\ commands # <<>> /\ Head(commands) = c
  /\ commands' = Tail(commands)
  /\ UNCHANGED <<uiVars, pubVars, wanted, listed, capture, captures, events, frames,
                 workerVars>>

\* SetLocalMirrorEnabled(false)
Disable ==
  /\ Take("off")
  /\ desired' = FALSE
  /\ IF capture THEN mirror' = "Stopping" /\ controls' = Append(controls, "Stop")
                ELSE UNCHANGED <<mirror, controls>>
  /\ UNCHANGED pc

\* A bug: the setting is used, and not kept.
EnableNotKept ==
  /\ Take("on")
  /\ IF capture THEN StartMirror ELSE UNCHANGED <<mirror, controls>>
  /\ UNCHANGED <<pc, desired>>

\* SetLocalMirrorEnabled(true)
Enable ==
  /\ Take("on")
  /\ desired' = TRUE
  /\ IF capture THEN StartMirror ELSE UNCHANGED <<mirror, controls>>
  /\ UNCHANGED pc

\* SetLocalMirrorTarget
Restart ==
  /\ Take("retarget")
  /\ IF capture /\ desired THEN StartMirror ELSE UNCHANGED <<mirror, controls>>
  /\ UNCHANGED <<pc, desired>>

HandleShutdown ==
  /\ Take("shutdown")
  /\ pc' = "shutdown"
  /\ UNCHANGED <<desired, mirror, controls>>

\* Commands done; targets and connect results come and go.  The first session
\* starts the capture (ensure_capture_running), if it can be started.
TargetsChange ==
  /\ pc = "commands" /\ commands = <<>>
  /\ pc' = "events"
  /\ listed' \in BOOLEAN /\ wanted' \in {w \in BOOLEAN : w => listed'}
  /\ \/ UNCHANGED <<capture, captures, mirror, controls>>
     \/ /\ wanted' /\ ~capture /\ captures < MaxCaptures
        /\ capture' = TRUE /\ captures' = captures + 1
        /\ IF desired THEN StartMirror ELSE UNCHANGED <<mirror, controls>>
  /\ UNCHANGED <<uiVars, commands, pubVars, desired, events, frames, workerVars>>

\* A bug: one event is applied, the others that wait are thrown away.
ApplyFirstEvent ==
  /\ pc = "events" /\ events # <<>>
  /\ mirror' = Head(events)
  /\ events' = <<>>
  /\ UNCHANGED <<uiVars, commands, pubVars, pc, desired, wanted, listed, capture,
                 captures, controls, frames, workerVars>>

\* process_local_mirror_events
ApplyEvent ==
  /\ pc = "events" /\ events # <<>>
  /\ mirror' = Head(events)
  /\ events' = Tail(events)
  /\ UNCHANGED <<uiVars, commands, pubVars, pc, desired, wanted, listed, capture,
                 captures, controls, frames, workerVars>>

EventsDone ==
  /\ pc = "events" /\ events = <<>>
  /\ pc' = "capture"
  /\ UNCHANGED <<uiVars, commands, pubVars, desired, mirror, wanted, listed, capture,
                 captures, controls, events, frames, workerVars>>

\* tick_targets may fail the last session; then capture_and_fan_out: a frame, if
\* one is there, goes to a mirror that starts or plays; push drops the oldest
\* frame of a full queue.
FanOut ==
  /\ pc = "capture"
  /\ pc' = "settle"
  /\ wanted' \in {FALSE, wanted}
  /\ \/ UNCHANGED frames
     \/ /\ capture /\ desired /\ mirror \in Feeding
        /\ frames' = IF frames < QueueCapacity THEN frames + 1 ELSE frames
  /\ UNCHANGED <<uiVars, commands, pubVars, desired, mirror, listed, capture, captures,
                 controls, events, workerVars>>

\* stop_capture_if_idle.  Without a wanted target the mirror is told to stop in
\* every iteration that finds it starting, playing or stopping.
StopCaptureIfIdle ==
  /\ capture' = (capture /\ wanted)
  /\ controls' = IF ~wanted /\ mirror \in Feeding \cup {"Stopping"}
                 THEN Append(controls, "Stop") ELSE controls

\* refresh_snapshot
Settle ==
  /\ pc = "settle"
  /\ StopCaptureIfIdle
  /\ mirror' = Finalized(mirror, desired, capture')
  /\ pubIdle' = ~listed /\ pubDesired' = desired /\ pubMirror' = mirror'
  /\ pc' = "commands"
  /\ UNCHANGED <<uiVars, commands, desired, wanted, listed, captures, events, frames,
                 workerVars>>

\* shutdown_all, up to the join of the worker.
ShutdownMirror ==
  /\ pc = "shutdown"
  /\ pc' = "join"
  /\ capture' = FALSE /\ wanted' = FALSE /\ listed' = FALSE
  /\ controls' = Append(controls, "Shutdown")
  /\ UNCHANGED <<uiVars, commands, pubVars, desired, mirror, captures, events, frames,
                 workerVars>>

\* The rest of shutdown_all, and the end of the manager thread.
ShutdownDone ==
  /\ pc = "join" /\ at = "exited"
  /\ pc' = "exited"
  /\ frames' = 0
  /\ mirror' = Finalized(mirror, desired, FALSE)
  /\ pubIdle' = TRUE /\ pubDesired' = desired /\ pubMirror' = mirror'
  /\ UNCHANGED <<uiVars, commands, desired, wanted, listed, capture, captures, controls,
                 events, workerVars>>

Manager == \/ Disable \/ Enable \/ Restart \/ HandleShutdown
           \/ TargetsChange \/ ApplyEvent \/ EventsDone \/ FanOut \/ Settle
           \/ ShutdownMirror \/ ShutdownDone

-----------------------------------------------------------------------------
(* The worker thread.                                                      *)

Report(e) == events' = Append(events, e)

Control(c) ==
  /\ at \in {"drain", "idle"}
  /\ controls # <<>> /\ Head(controls) = c
  /\ controls' = Tail(controls)
  /\ UNCHANGED <<uiVars, commands, pubVars, managerVars>>

StartSucceeds ==
  /\ Control("Start")
  /\ at' = "drain" /\ enabled' = TRUE /\ sink' = TRUE
  /\ Report("Mirroring")
  /\ UNCHANGED frames

\* A bug: a failed start is not reported.
StartFailsSilently ==
  /\ Control("Start")
  /\ at' = "drain" /\ enabled' = FALSE /\ sink' = FALSE
  /\ frames' = 0
  /\ UNCHANGED events

\* The previous sink was stopped before.
StartFails ==
  /\ Control("Start")
  /\ at' = "drain" /\ enabled' = FALSE /\ sink' = FALSE
  /\ frames' = 0
  /\ Report("Error")

\* Stop, found while the controls are drained.
StopSink ==
  /\ at = "drain"
  /\ Control("Stop")
  /\ at' = "drain" /\ enabled' = FALSE /\ sink' = FALSE
  /\ frames' = 0
  /\ \/ Report("Disabled")
     \/ sink /\ events' = events \o <<"Error", "Disabled">>

\* Stop, found by the idle wait: nothing is cleared.
StopIdle ==
  /\ at = "idle"
  /\ Control("Stop")
  /\ at' = "drain"
  /\ Report("Disabled")
  /\ UNCHANGED <<enabled, sink, frames>>

WorkerShutdown ==
  /\ Control("Shutdown")
  /\ at' = "exited" /\ sink' = FALSE
  /\ UNCHANGED <<enabled, events, frames>>

Drained ==
  /\ at = "drain" /\ controls = <<>>
  /\ at' = IF enabled THEN "play" ELSE "idle"
  /\ UNCHANGED <<uiVars, commands, pubVars, managerVars, controls, events, frames,
                 enabled, sink>>

\* recv_timeout on the frames: a frame is written, or none came in time.
PlayFrame ==
  /\ at = "play" /\ at' = "drain"
  /\ frames' = IF frames > 0 THEN frames - 1 ELSE 0
  /\ UNCHANGED <<uiVars, commands, pubVars, managerVars, controls, events, enabled, sink>>

\* The sink is gone, or refuses the frame.
PlayFails ==
  /\ at = "play" /\ at' = "drain"
  /\ frames > 0 /\ frames' = 0
  /\ enabled' = FALSE /\ sink' = FALSE
  /\ Report("Error")
  /\ UNCHANGED <<uiVars, commands, pubVars, managerVars, controls>>

Worker == \/ StartSucceeds \/ StartFails \/ StopSink \/ StopIdle \/ WorkerShutdown
          \/ Drained \/ PlayFrame \/ PlayFails

Next == Start \/ Toggle \/ TogglePublish \/ Retarget \/ Stop \/ Joined \/ Manager \/ Worker

Spec == Init /\ [][Next]_vars

\* Threads are scheduled, and starting, stopping and writing a sink return.
FairSpec == Spec /\ WF_vars(Manager) /\ WF_vars(Worker) /\ WF_vars(TogglePublish)
                 /\ WF_vars(Joined)

-----------------------------------------------------------------------------
TypeOK ==
  /\ running \in {"off", "running", "stopping"}
  /\ requested \in BOOLEAN /\ toggling \in BOOLEAN /\ ops \in 0..MaxOps
  /\ commands \in Seq(Commands)
  /\ pubIdle \in BOOLEAN /\ pubDesired \in BOOLEAN /\ pubMirror \in MirrorStates
  /\ pc \in {"commands", "events", "capture", "settle", "shutdown", "join", "exited"}
  /\ desired \in BOOLEAN /\ mirror \in MirrorStates
  /\ wanted \in BOOLEAN /\ listed \in BOOLEAN
  /\ capture \in BOOLEAN /\ captures \in 0..MaxCaptures
  /\ controls \in Seq({"Start", "Stop", "Shutdown"})
  /\ events \in Seq(Events)
  /\ frames \in 0..QueueCapacity
  /\ at \in {"drain", "idle", "play", "exited"}
  /\ enabled \in BOOLEAN /\ sink \in BOOLEAN

\* The worker plays exactly while it has a sink, through every failed start,
\* restart, write and stop: "local mirror sink was unavailable during playback"
\* (fanout.rs 270-277) is never reported.
EnabledIffSink == at # "exited" => (enabled <=> sink)

\* Nothing is in flight between the manager and the worker.
Quiet == controls = <<>> /\ events = <<>>

\* Whenever nothing is in flight, a manager that says Mirroring is right, one that
\* records and wants the mirror says whether its sink is open, and none still says that
\* the mirror is starting: whatever toggles, captures and late events came before,
\* every Start has an answer, and the last answer counts (sender.rs 1202-1228,
\* 1323-1361, 1774-1796).
ViewsAgree ==
  Quiet /\ at # "exited" =>
     /\ mirror = "Mirroring" => sink
     /\ mirror # "Starting"
     /\ capture /\ desired => mirror = IF sink THEN "Mirroring" ELSE "Error"

\* docs/local-playback-mirror.md:65-73 "During an active cast: [...] the sender
\* runtime starts or stops the local mirror worker": when an iteration has ended, the
\* manager has taken in that the mirror is off and nothing is in flight, no sink is
\* open.
ToggledOffMirrorStops ==
  Quiet /\ commands = <<>> /\ pc = "commands" /\ ~desired => ~sink

\* A cast that is over shows no mirror that starts, plays or stops, although the
\* toggle writes the published state without asking the manager (184-207, 256-261).
NoGhostMirror ==
  running = "off" => pubMirror \in {"Idle", "Disabled", "Error"} /\ ~sink

\* A mirror that is starting does start, fails, or is called off.
StartingResolves == pubMirror = "Starting" ~> pubMirror # "Starting"

\* The published setting follows the user's, although the manager overwrites it
\* with its own copy until the command has arrived (184-207, 1372-1381).
ToggleReported ==
  \A b \in BOOLEAN : running = "running" /\ requested = b
                     ~> (pubDesired = b \/ requested # b \/ running # "running")
=============================================================================
