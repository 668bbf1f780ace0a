--------------------------- MODULE ReceiverRuntime ---------------------------
(***************************************************************************)
(* The receiver runtime (synchrosonic-receiver, service.rs and buffer.rs): *)
(* the calls of ReceiverRuntime and the worker thread that owns the jitter *)
(* buffer, the playback sink, the media clock and the receiver's state.    *)
(*                                                                         *)
(* Time is discrete, one unit a full packet of audio, and kept relative:   *)
(* a buffered packet is its schedule error (now minus its write deadline), *)
(* which grows as time passes.  The clock is kept as the schedule error    *)
(* of the packet received last; a packet captured g units after it has an  *)
(* error smaller by g.  The drain loop reads the time anew for every       *)
(* packet, so time may pass and events may arrive inside it.               *)
(***************************************************************************)
EXTENDS Integers, Sequences

CONSTANTS TargetBuffer,     \* target_buffer_ms of the latency profile
          Tolerance,        \* latency_tolerance_ms
          LateDrop,         \* late_packet_drop_ms
          Grace,            \* reconnect_grace_period
          StartThreshold,   \* start_threshold_packets
          MaxPackets,       \* max_packets
          None,
          MaxGap,           \* bound: capture time between two packets sent
          MaxEvents,        \* bound: commands waiting in the channel
          Ahead, Behind     \* bounds: schedule errors are kept in -Ahead..Behind

ASSUME ProfileAssumption ==
  /\ TargetBuffer \in Nat \ {0} /\ Tolerance \in Nat /\ LateDrop \in Nat /\ Grace \in Nat
  /\ StartThreshold \in Nat \ {0} /\ MaxPackets \in Nat /\ MaxPackets >= StartThreshold
ASSUME BoundsAssumption ==
  /\ MaxGap \in Nat \ {0} /\ MaxEvents \in Nat
  /\ Ahead \in Nat /\ Ahead >= TargetBuffer /\ Behind \in Nat /\ Behind > LateDrop
ASSUME NoneAssumption == None \notin Int

Errors == -Ahead..Behind

VARIABLES
  running,    \* ReceiverRuntime: off, on, stopping (waits in join)
  channel,    \* the command channel
  pc,         \* the worker: wait (recv_timeout), drain, timeout (the rest of
              \* on_tick), exited
  state,      \* ReceiverServiceState
  sync,       \* ReceiverSyncState
  connection, \* a connection is kept
  sink,       \* the playback sink is open
  buffer,     \* schedule errors of the buffered packets, oldest first
  clock,      \* None, or the schedule error of the last packet received
  deadline,   \* next_playback_deadline, as a schedule error, or None
  silence     \* None, or the time since last_transport_activity

workerVars == <<pc, state, sync, connection, sink, buffer, clock, deadline, silence>>
vars == <<running, channel, workerVars>>

States     == {"Idle", "Listening", "Connected", "Buffering", "Playing", "Error"}
SyncStates == {"Idle", "Priming", "Locked", "Late", "Recovering"}
Session    == {"Connected", "Buffering", "Playing"}

\* An audio event carries the capture time since the packet sent before it.
Events == [kind : {"connected", "keepalive", "disconnected", "error", "bad-audio",
                   "target", "shutdown"}, gap : {0}]
          \cup [kind : {"audio"}, gap : 1..MaxGap]

Bounded(e) == IF e < -Ahead THEN -Ahead ELSE IF e > Behind THEN Behind ELSE e

Init ==
  /\ running = "off" /\ channel = <<>> /\ pc = "exited"
  /\ state = "Idle" /\ sync = "Idle" /\ connection = FALSE /\ sink = FALSE
  /\ buffer = <<>> /\ clock = None /\ deadline = None /\ silence = None

-----------------------------------------------------------------------------
(* ReceiverRuntime, and the transport that submits events.                 *)

Start ==
  /\ running = "off" /\ running' = "on"
  /\ channel' = <<>> /\ pc' = "wait"
  /\ state' = "Listening" /\ sync' = "Idle" /\ connection' = FALSE /\ sink' = FALSE
  /\ buffer' = <<>> /\ clock' = None /\ deadline' = None /\ silence' = None

Post(e) == channel' = Append(channel, e) /\ UNCHANGED workerVars

\* submit_transport_event and set_playback_target
Submit ==
  /\ running = "on" /\ Len(channel) < MaxEvents
  /\ \E e \in Events : e.kind # "shutdown" /\ Post(e)
  /\ UNCHANGED running

Stop ==
  /\ running = "on" /\ running' = "stopping"
  /\ Post([kind |-> "shutdown", gap |-> 0])

\* stop() after join: the snapshot is that of the configuration.
Joined ==
  /\ running = "stopping" /\ pc = "exited"
  /\ running' = "off"
  /\ UNCHANGED <<channel, workerVars>>

-----------------------------------------------------------------------------
(* The worker: commands.                                                   *)

\* is_ready: with full packets, the threshold is the target duration.
Ready(b) == Len(b) >= StartThreshold

\* What handle_disconnect, set_error, handle_connect and shutdown have in common.
Reset(newState, newSync) ==
  /\ state' = newState /\ sync' = newSync
  /\ connection' = FALSE /\ sink' = FALSE
  /\ buffer' = <<>> /\ clock' = None /\ deadline' = None /\ silence' = None

\* A bug: the buffer and the clock are left to the next session.
DisconnectKeepsClock ==
  /\ state' = "Listening" /\ sync' = "Idle" /\ connection' = FALSE /\ sink' = FALSE
  /\ deadline' = None /\ silence' = None
  /\ UNCHANGED <<buffer, clock>>

Disconnect == Reset("Listening", "Idle")
SetError   == Reset("Error", "Recovering")

Take(kind) ==
  /\ pc = "wait" /\ channel # <<>> /\ Head(channel).kind = kind
  /\ channel' = Tail(channel)
  /\ UNCHANGED running

\* handle_connect.  A session that is still open is replaced.
HandleConnect ==
  /\ Take("connected")
  /\ \/ /\ state' = "Connected" /\ sync' = "Priming" /\ connection' = TRUE /\ sink' = TRUE
        /\ buffer' = <<>> /\ clock' = None /\ deadline' = None /\ silence' = 0
     \/ SetError
  /\ UNCHANGED pc

HandleKeepAlive ==
  /\ Take("keepalive")
  /\ silence' = 0
  /\ UNCHANGED <<pc, state, sync, connection, sink, buffer, clock, deadline>>

HandleDisconnected == Take("disconnected") /\ Disconnect /\ UNCHANGED pc

HandleError == Take("error") /\ SetError /\ UNCHANGED pc

\* handle_playback_target_change.  A new sink that does not start leaves the
\* previous one playing.
HandleTarget ==
  /\ Take("target")
  /\ \/ /\ connection
        /\ sink' = TRUE
        /\ state' = IF state = "Connected" THEN "Buffering" ELSE state
     \/ /\ connection
        /\ UNCHANGED <<sink, state>>
     \/ /\ ~connection
        /\ state' = IF state = "Error" THEN "Listening" ELSE state
        /\ UNCHANGED sink
  /\ UNCHANGED <<pc, sync, connection, buffer, clock, deadline, silence>>

\* ReceiverPacketBuffer::push
Pushed(e) ==
  Append(IF Len(buffer) = MaxPackets THEN Tail(buffer) ELSE buffer, e)

\* handle_packet without a connection
DropPacket ==
  /\ Take("audio") \/ Take("bad-audio")
  /\ ~connection
  /\ UNCHANGED workerVars

\* handle_packet with a payload that is no whole number of frames
RefusePacket == Take("bad-audio") /\ connection /\ SetError /\ UNCHANGED pc

\* handle_packet.  The first packet of a sync window anchors the clock.
BufferPacket ==
  /\ Take("audio") /\ connection
  /\ LET error == IF clock = None THEN -TargetBuffer
                  ELSE Bounded(clock - Head(channel).gap)
         queued == Pushed(error)
     IN /\ clock' = error
        /\ buffer' = queued
        /\ \/ /\ Ready(queued)
              /\ state' = IF state = "Playing" THEN "Playing" ELSE "Buffering"
              /\ deadline' = IF deadline = None THEN Head(queued) ELSE deadline
              /\ sync' = IF sync \in {"Idle", "Priming", "Recovering"} THEN "Priming" ELSE sync
           \/ /\ ~Ready(queued)
              /\ state' = IF state = "Connected" THEN "Buffering" ELSE state
              /\ sync' = IF state \in {"Connected", "Buffering"} /\ sync # "Recovering"
                         THEN "Priming" ELSE sync
              /\ UNCHANGED deadline
  /\ silence' = 0
  /\ UNCHANGED <<pc, connection, sink>>

\* A bug: the worker leaves without stopping its playback process.
ShutdownKeepsSink ==
  /\ Take("shutdown") /\ pc' = "exited"
  /\ state' = "Idle" /\ sync' = "Idle" /\ connection' = FALSE
  /\ buffer' = <<>> /\ clock' = None /\ deadline' = None
  /\ UNCHANGED <<sink, silence>>

\* Shutdown, and shutdown() of the worker.
HandleShutdown == Take("shutdown") /\ pc' = "exited" /\ Reset("Idle", "Idle")

-----------------------------------------------------------------------------
(* The worker: on_tick.                                                    *)

\* recv_timeout runs out: no command waits.  It waits for the next deadline or the
\* end of the grace period, at most the poll interval: at any time here.
TickDue == pc = "wait" /\ channel = <<>>

\* drain_ready_packets up to its loop.
BeginTick ==
  /\ TickDue
  /\ \/ /\ ~connection
        /\ pc' = "timeout"
        /\ UNCHANGED <<state, sync>>
     \/ /\ connection /\ clock = None
        /\ pc' = "timeout"
        /\ state' = IF state = "Connected" THEN "Buffering" ELSE state
        /\ UNCHANGED sync
     \/ /\ connection /\ clock # None /\ deadline = None /\ ~Ready(buffer)
        /\ pc' = "timeout"
        /\ state' = IF state = "Playing" THEN "Playing" ELSE "Buffering"
        /\ sync' = IF sync = "Recovering" THEN "Recovering" ELSE "Priming"
     \/ /\ connection /\ clock # None /\ (deadline # None \/ Ready(buffer))
        /\ pc' = "drain"
        /\ UNCHANGED <<state, sync>>
  /\ UNCHANGED <<running, channel, connection, sink, buffer, clock, deadline, silence>>

Drain == pc = "drain" /\ UNCHANGED <<running, channel>>

\* The buffer ran empty while playing: a new sync window.
Underrun ==
  /\ Drain /\ buffer = <<>>
  /\ pc' = "timeout"
  /\ \/ /\ state = "Playing"
        /\ state' = "Buffering" /\ sync' = "Recovering"
        /\ clock' = None /\ deadline' = None
     \/ /\ state # "Playing"
        /\ UNCHANGED <<state, sync, clock, deadline>>
  /\ UNCHANGED <<connection, sink, buffer, silence>>

\* A bug: the loop counts the stale packet and looks at it again.
DropLateKeepsPacket ==
  /\ Drain /\ buffer # <<>> /\ Head(buffer) > LateDrop
  /\ sync' = "Late" /\ deadline' = Head(buffer)
  /\ UNCHANGED <<pc, state, connection, sink, buffer, clock, silence>>

\* A stale packet is dropped; the last one starts a new sync window.
DropLate ==
  /\ Drain /\ buffer # <<>> /\ Head(buffer) > LateDrop
  /\ buffer' = Tail(buffer)
  /\ IF buffer' = <<>>
     THEN sync' = "Recovering" /\ clock' = None /\ deadline' = None /\ pc' = "timeout"
     ELSE sync' = "Late" /\ deadline' = Head(buffer) /\ UNCHANGED <<pc, clock>>
  /\ UNCHANGED <<state, connection, sink, silence>>

\* The oldest packet is not due yet.
NotDue ==
  /\ Drain /\ buffer # <<>> /\ Head(buffer) < 0
  /\ deadline' = Head(buffer)
  /\ state' = IF state = "Playing" THEN "Playing" ELSE "Buffering"
  /\ pc' = "timeout"
  /\ UNCHANGED <<sync, connection, sink, buffer, clock, silence>>

\* A bug: a failed write is treated like any dropped packet.
PlayIgnoringErrors ==
  /\ Drain /\ buffer # <<>> /\ Head(buffer) \in 0..LateDrop
  /\ sink' \in {sink, FALSE}
  /\ buffer' = Tail(buffer)
  /\ state' = "Playing"
  /\ sync' = IF Head(buffer) > Tolerance THEN "Late" ELSE "Locked"
  /\ deadline' = None
  /\ UNCHANGED <<pc, connection, clock, silence>>

\* The packet is written, unless the sink refuses it.
Play ==
  /\ Drain /\ buffer # <<>> /\ Head(buffer) \in 0..LateDrop
  /\ \/ /\ sink
        /\ buffer' = Tail(buffer)
        /\ state' = "Playing"
        /\ sync' = IF Head(buffer) > Tolerance THEN "Late" ELSE "Locked"
        /\ deadline' = None
        /\ UNCHANGED <<pc, connection, sink, clock, silence>>
     \/ SetError /\ pc' = "timeout"

\* A bug: the connection outlives the grace period.
TimeoutIgnored == pc = "timeout" /\ pc' = "wait"
                  /\ UNCHANGED <<running, channel, state, sync, connection, sink, buffer,
                                 clock, deadline, silence>>

\* check_transport_timeout
EndTick ==
  /\ pc = "timeout" /\ pc' = "wait"
  /\ IF connection /\ silence = Grace
     THEN Disconnect
     ELSE UNCHANGED <<state, sync, connection, sink, buffer, clock, deadline, silence>>
  /\ UNCHANGED <<running, channel>>

DrainLoop == Underrun \/ DropLate \/ NotDue \/ Play
Commands  == HandleConnect \/ HandleKeepAlive \/ HandleDisconnected \/ HandleError
             \/ HandleTarget \/ DropPacket \/ RefusePacket \/ BufferPacket \/ HandleShutdown
Worker    == Commands \/ BeginTick \/ DrainLoop \/ EndTick

-----------------------------------------------------------------------------
\* A unit of time passes, wherever the worker stands.
Later(e) == IF e = None THEN None ELSE Bounded(e + 1)

Elapse ==
  /\ connection
  /\ buffer' = [i \in DOMAIN buffer |-> Later(buffer[i])]
  /\ clock' = Later(clock)
  /\ deadline' = Later(deadline)
  /\ silence' = IF silence = None \/ silence = Grace THEN silence ELSE silence + 1
  /\ UNCHANGED <<running, channel, pc, state, sync, connection, sink>>

Next == Start \/ Submit \/ Stop \/ Joined \/ Worker \/ Elapse

Spec == Init /\ [][Next]_vars

\* The worker is scheduled, time passes, and stop() waits in join.  A tick needs an
\* empty channel, so weak fairness promises one only while no command arrives.
FairSpec == Spec /\ WF_vars(Worker) /\ WF_vars(Elapse) /\ WF_vars(Joined)

-----------------------------------------------------------------------------
TypeOK ==
  /\ running \in {"off", "on", "stopping"}
  /\ channel \in Seq(Events)
  /\ pc \in {"wait", "drain", "timeout", "exited"}
  /\ state \in States /\ sync \in SyncStates
  /\ connection \in BOOLEAN /\ sink \in BOOLEAN
  /\ buffer \in Seq(Errors) /\ Len(buffer) <= MaxPackets
  /\ clock \in Errors \cup {None} /\ deadline \in Errors \cup {None}
  /\ silence \in (0..Grace) \cup {None}

\* State, connection and playback process agree, through every refused start,
\* refused write, timeout and replaced session: a receiver that shows a session has
\* a sink, and none is left open without one (service.rs 316-351, 604-652).
SessionHasSink == (connection <=> sink) /\ (connection <=> state \in Session)

\* A buffered packet can always be scheduled: the media clock outlives the buffer,
\* and neither outlives the connection, so no packet waits for a deadline that
\* write_deadline_for (568) cannot compute, nor is measured against an old anchor.
BufferedIsScheduled ==
  /\ buffer # <<>> => clock # None
  /\ deadline # None => clock # None
  /\ clock # None => connection

\* Packets are buffered in the order of their capture time, and none after the
\* latest received: a reset never mixes packets of two sync windows.
BufferInCaptureOrder ==
  /\ \A i, j \in 1..Len(buffer) : i < j => buffer[i] >= buffer[j]
  /\ buffer # <<>> => buffer[Len(buffer)] = clock

\* The sync state shown belongs to the session shown: locked or late only while
\* playing or dropping late packets, and idle only while no session runs.
SyncBelongsToState ==
  /\ sync = "Locked" => state = "Playing"
  /\ sync \in {"Locked", "Late"} => connection
  /\ sync = "Idle" => ~connection

\* Connection, sink, state and sync state are written by different functions of
\* the runtime but always speak of one session, through failing sinks, a sender
\* that comes back and a target change (service.rs 316-351, 539-652).
SessionConsistent == SessionHasSink /\ SyncBelongsToState

\* Buffer, media clock and deadline are one timeline, in capture order, although
\* they are reset in six places (service.rs 500-604).
TimelineConsistent == BufferedIsScheduled /\ BufferInCaptureOrder

\* docs/receiver-mode.md:64-65 "the runtime records an underrun, switches back to
\* `Buffering`, and waits for the buffer to refill": a receiver without a sync
\* window, which must refill first, does not say that it is playing.
RefillsAsBuffering == state = "Playing" => clock # None

\* Once the target window is buffered, playback starts or the packets are dropped
\* as stale, while no command keeps the worker from its tick (drain_ready_packets).
ReadyPlays ==
  state = "Buffering" /\ Ready(buffer)
    ~> state # "Buffering" \/ ~Ready(buffer) \/ channel # <<>>

\* A sender that stays silent for the grace period is given up, while no command
\* keeps the worker from its tick (check_transport_timeout 592-602).
SilentSenderGivenUp ==
  connection /\ silence = Grace ~> ~connection \/ channel # <<>>

\* stop() returns with the sink closed.
StopCompletes == running = "stopping" ~> running = "off" /\ ~sink
=============================================================================
