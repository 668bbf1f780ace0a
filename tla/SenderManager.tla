---------------------------- MODULE SenderManager ----------------------------
(***************************************************************************)
(* The sender session manager (synchrosonic-transport, sender.rs): the     *)
(* commands of LanSenderSession, the manager thread that owns the targets  *)
(* and the capture, and one connect thread per connection attempt.         *)
(*                                                                         *)
(* The manager thread runs its phases in a fixed order (run, 1006-1024);   *)
(* commands, connect results, receiver failures and the end of the capture *)
(* arrive between any two of its steps.  What the manager does to the      *)
(* local mirror in these handlers is modelled in module LocalMirror, the   *)
(* audio frames of a branch in module BranchQueue.                         *)
(*                                                                         *)
(* A connection attempt and the session that comes out of it have one      *)
(* identity, a member of Conns, for as long as a thread or a socket of it  *)
(* exists.  Results wait in an unordered set: each thread posts one, so    *)
(* every order of handling them is also an order of posting them.          *)
(***************************************************************************)
EXTENDS Naturals, Sequences, FiniteSets

CONSTANTS Targets,      \* receiver device ids
          LocalDevice,  \* the sender's own device id, or NoDevice
          NoDevice,
          Conns,        \* identities of connections alive at one time (bound)
          NoConn,
          MaxConnectAttempts,
          MaxOps        \* bound: calls of the user interface in a behaviour

ASSUME NoConnAssumption == NoConn \notin Conns
ASSUME AttemptsAssumption == MaxConnectAttempts \in Nat \ {0}
ASSUME MaxOpsAssumption == MaxOps \in Nat

VARIABLES
  manager,    \* LanSenderSession: off (no control_tx), running, stopping
              \* (stop() sent Shutdown and waits in join)
  commands,   \* the control channel
  ops,        \* calls made so far
  published,  \* state of the snapshot shared with the user interface
  pc,         \* phase of the manager thread
  entry,      \* kind of each target's entry in TargetSessionCollection
  shown,      \* the session state in the entry's snapshot
  tries,      \* attempt_count of a pending entry
  inFlight,   \* in_flight of a pending entry
  due,        \* next_attempt_at of a pending entry has passed
  holds,      \* the connection of an active entry
  capture,    \* none, running, or ended (the stream is over, the handle is kept)
  conn        \* the connections: where each stands (phase), the target it was
              \* made for (peer), the attempt_count it started with, and whether
              \* its session has failed without the manager having seen it

uiVars     == <<manager, commands, ops>>
targetVars == <<entry, shown, tries, inFlight, due, holds>>
vars == <<uiVars, published, pc, targetVars, capture, conn>>

Commands == [op : {"add", "remove"}, target : Targets]
            \cup [op : {"shutdown"}, target : {NoDevice}]

Kinds  == {"absent", "pending", "active", "failed"}
Shown  == {"none", "Connecting", "Streaming", "Error"}
States == {"Idle", "Connecting", "Streaming", "Error"}
Steps  == {"commands", "pending", "results", "tick", "capture", "settle",
           "shutdown", "exited"}

\* free: no thread, no socket.  connecting: inside ManagedTargetSession::connect.
\* connected, retryable, fatal: result posted.  active: owned by an entry.
\* closing: owned by the thread of shutdown_target_session_async.
\* abandoned: connecting, and nobody is left to receive the result.
\* orphan: the session was dropped, not shut down.  Dropping it ends its writer,
\* but its reader still blocks on its own clone of the socket.
Phases == {"free", "connecting", "connected", "retryable", "fatal", "active",
           "closing", "abandoned", "orphan"}
Posted      == {"connected", "retryable", "fatal"}
Outstanding == {"connecting"} \cup Posted

ConnRecord == [phase : Phases, peer : Targets \cup {NoDevice},
               attempt : 0..MaxConnectAttempts, broken : BOOLEAN]

FreeConn == [phase |-> "free", peer |-> NoDevice, attempt |-> 0, broken |-> FALSE]

\* The connection without the data only its owner needed.
Leave(c, ph) == [phase |-> ph, peer |-> conn[c].peer, attempt |-> 0, broken |-> FALSE]

-----------------------------------------------------------------------------
(* Entries.                                                                *)

\* TargetSessionCollection::remove
Clear(t) ==
  /\ entry' = [entry EXCEPT ![t] = "absent"]
  /\ shown' = [shown EXCEPT ![t] = "none"]
  /\ tries' = [tries EXCEPT ![t] = 0]
  /\ inFlight' = [inFlight EXCEPT ![t] = FALSE]
  /\ due' = [due EXCEPT ![t] = FALSE]
  /\ holds' = [holds EXCEPT ![t] = NoConn]

ClearAll ==
  /\ entry' = [t \in Targets |-> "absent"]
  /\ shown' = [t \in Targets |-> "none"]
  /\ tries' = [t \in Targets |-> 0]
  /\ inFlight' = [t \in Targets |-> FALSE]
  /\ due' = [t \in Targets |-> FALSE]
  /\ holds' = [t \in Targets |-> NoConn]

\* insert_pending(PendingTargetSession::new): attempt 0, due at once.
InsertPending(t) ==
  /\ entry' = [entry EXCEPT ![t] = "pending"]
  /\ shown' = [shown EXCEPT ![t] = "Connecting"]
  /\ tries' = [tries EXCEPT ![t] = 0]
  /\ inFlight' = [inFlight EXCEPT ![t] = FALSE]
  /\ due' = [due EXCEPT ![t] = TRUE]
  /\ holds' = [holds EXCEPT ![t] = NoConn]

\* insert_active: whatever entry was there is replaced.
InsertActive(t, c) ==
  /\ entry' = [entry EXCEPT ![t] = "active"]
  /\ tries' = [tries EXCEPT ![t] = 0]
  /\ inFlight' = [inFlight EXCEPT ![t] = FALSE]
  /\ due' = [due EXCEPT ![t] = FALSE]
  /\ holds' = [holds EXCEPT ![t] = c]

\* insert_failed, for every target of ts: whatever entry was there is replaced.
InsertFailed(ts) ==
  /\ entry' = [t \in Targets |-> IF t \in ts THEN "failed" ELSE entry[t]]
  /\ shown' = [t \in Targets |-> IF t \in ts THEN "Error" ELSE shown[t]]
  /\ tries' = [t \in Targets |-> IF t \in ts THEN 0 ELSE tries[t]]
  /\ inFlight' = [t \in Targets |-> IF t \in ts THEN FALSE ELSE inFlight[t]]
  /\ due' = [t \in Targets |-> IF t \in ts THEN FALSE ELSE due[t]]
  /\ holds' = [t \in Targets |-> IF t \in ts THEN NoConn ELSE holds[t]]

Active == {t \in Targets : entry[t] = "active"}
Pending == {t \in Targets : entry[t] = "pending"}

\* A bug: nobody gives up the session of an entry that is overwritten.
KeepHeld(t) == conn

\* The connections once the entry of t is overwritten: a session it owned is
\* dropped.
DropHeld(t) == [c \in Conns |-> IF c = holds[t] THEN Leave(c, "orphan") ELSE conn[c]]

\* derive_manager_state.  A pending entry is connecting or waits for a retry.
DeriveState ==
  IF \A t \in Targets : entry[t] = "absent" THEN "Idle"
  ELSE IF \E t \in Targets : shown[t] = "Streaming" THEN "Streaming"
  ELSE IF Pending # {} THEN "Connecting"
  ELSE "Error"

Init ==
  /\ manager = "off"
  /\ commands = <<>>
  /\ ops = 0
  /\ published = "Idle"
  /\ pc = "exited"
  /\ entry = [t \in Targets |-> "absent"]
  /\ shown = [t \in Targets |-> "none"]
  /\ tries = [t \in Targets |-> 0]
  /\ inFlight = [t \in Targets |-> FALSE]
  /\ due = [t \in Targets |-> FALSE]
  /\ holds = [t \in Targets |-> NoConn]
  /\ capture = "none"
  /\ conn = [c \in Conns |-> FreeConn]

-----------------------------------------------------------------------------
(* LanSenderSession: the user interface thread.                            *)

\* start() without a manager: a new manager thread that begins with the target.
Start(t) ==
  /\ manager = "off"
  /\ ops < MaxOps
  /\ ops' = ops + 1
  /\ manager' = "running"
  /\ commands' = <<>>
  /\ published' = "Connecting"
  /\ pc' = "commands"
  /\ InsertPending(t)
  /\ UNCHANGED <<capture, conn>>

Send(op, t) ==
  /\ manager = "running"
  /\ ops < MaxOps
  /\ ops' = ops + 1
  /\ commands' = Append(commands, [op |-> op, target |-> t])
  /\ UNCHANGED <<published, pc, targetVars, capture, conn>>

\* start() with a manager.
AddTarget(t) == Send("add", t) /\ UNCHANGED manager

\* stop_target()
StopTarget(t) == Send("remove", t) /\ UNCHANGED manager

\* stop(): the control channel is given up and the caller waits for the thread.
Stop == Send("shutdown", NoDevice) /\ manager' = "stopping"

\* stop() after join.
Joined ==
  /\ manager = "stopping"
  /\ pc = "exited"
  /\ manager' = "off"
  /\ commands' = <<>>
  /\ published' = "Idle"
  /\ UNCHANGED <<ops, pc, targetVars, capture, conn>>

-----------------------------------------------------------------------------
(* The manager thread: process_commands.                                   *)

Take(op) == /\ pc = "commands"
            /\ commands # <<>>
            /\ Head(commands).op = op
            /\ commands' = Tail(commands)
            /\ UNCHANGED <<manager, ops, published, capture>>

\* queue_target_connect
HandleAdd ==
  /\ Take("add")
  /\ LET t == Head(commands).target IN
     \/ /\ shown[t] \in {"Connecting", "Streaming"}
        /\ UNCHANGED <<targetVars, conn>>
     \/ /\ shown[t] \notin {"Connecting", "Streaming"}
        /\ InsertPending(t)
        /\ conn' = DropHeld(t)
  /\ UNCHANGED pc

\* Any entry is removed; an active session is stopped by a thread of its own.
HandleRemove ==
  /\ Take("remove")
  /\ LET t == Head(commands).target IN
        /\ Clear(t)
        /\ conn' = [c \in Conns |->
                      IF c = holds[t] THEN Leave(c, "closing") ELSE conn[c]]
  /\ UNCHANGED pc

\* A bug: the command is consumed, the loop goes on.
HandleShutdownIgnored == Take("shutdown") /\ UNCHANGED <<pc, targetVars, conn>>

HandleShutdown ==
  /\ Take("shutdown")
  /\ pc' = "shutdown"
  /\ UNCHANGED <<targetVars, conn>>

CommandsDone ==
  /\ pc = "commands"
  /\ commands = <<>>
  /\ pc' = "pending"
  /\ UNCHANGED <<uiVars, published, targetVars, capture, conn>>

-----------------------------------------------------------------------------
(* process_pending_targets                                                 *)

Due(t) == entry[t] = "pending" /\ ~inFlight[t] /\ due[t]

\* mark_in_flight and the spawn of a connect thread.
StartAttempt(t) ==
  /\ pc = "pending"
  /\ Due(t)
  /\ \E c \in Conns :
       /\ conn[c].phase = "free"
       /\ conn' = [conn EXCEPT ![c] = [phase |-> "connecting", peer |-> t,
                                       attempt |-> tries[t] + 1, broken |-> FALSE]]
  /\ tries' = [tries EXCEPT ![t] = @ + 1]
  /\ inFlight' = [inFlight EXCEPT ![t] = TRUE]
  /\ shown' = [shown EXCEPT ![t] = "Connecting"]
  /\ UNCHANGED <<uiVars, published, pc, entry, due, holds, capture>>

PendingDone ==
  /\ pc = "pending"
  /\ \A t \in Targets : ~Due(t)
  /\ pc' = "results"
  /\ UNCHANGED <<uiVars, published, targetVars, capture, conn>>

-----------------------------------------------------------------------------
(* process_connect_results                                                 *)

\* A bug: nobody asks whether the target is still wanted.
AlwaysListed(t) == TRUE

\* The check that guards both kinds of result.
StillListed(t) == entry[t] # "absent"

\* The target is gone: the new session is stopped by a thread of its own.
LateConnected(c) ==
  /\ ~StillListed(conn[c].peer)
  /\ conn' = [conn EXCEPT ![c] = Leave(c, "closing")]
  /\ UNCHANGED <<targetVars, capture>>

\* ensure_capture_running: a capture that is over still counts as running.
CaptureForSession == IF capture = "none" THEN "running" ELSE capture

\* insert_active, then ensure_capture_running; when the capture cannot start
\* every active session is set to Error (fail_all_active_targets).
Activate(c) ==
  LET t == conn[c].peer IN
  /\ StillListed(t)
  /\ InsertActive(t, c)
  /\ conn' = [DropHeld(t) EXCEPT ![c] = [phase |-> "active", peer |-> t, attempt |-> 0,
                                         broken |-> conn[c].broken]]
  /\ \/ /\ capture' = CaptureForSession
        /\ shown' = [shown EXCEPT ![t] = "Streaming"]
     \/ /\ capture = "none"
        /\ UNCHANGED capture
        /\ shown' = [u \in Targets |->
                       IF u = t \/ entry[u] = "active" THEN "Error" ELSE shown[u]]

HandleConnected(c) ==
  /\ conn[c].phase = "connected"
  /\ LateConnected(c) \/ Activate(c)

\* A bug: a failed attempt is scheduled again but stays marked as in flight.
RetryStillInFlight(c) ==
  LET t == conn[c].peer IN
  /\ conn' = [conn EXCEPT ![c] = FreeConn]
  /\ shown' = [shown EXCEPT ![t] = "Error"]
  /\ UNCHANGED <<entry, tries, inFlight, due, holds>>

\* A retryable failure before the last attempt: schedule_retry if the entry is
\* pending (also when it is the entry of a later request), with the attempt
\* count of the failed attempt; nothing otherwise.
Retry(c) ==
  LET t == conn[c].peer IN
  /\ conn' = [conn EXCEPT ![c] = FreeConn]
  /\ \/ /\ entry[t] = "pending"
        /\ shown' = [shown EXCEPT ![t] = "Error"]
        /\ tries' = [tries EXCEPT ![t] = conn[c].attempt]
        /\ inFlight' = [inFlight EXCEPT ![t] = FALSE]
        /\ due' = [due EXCEPT ![t] = FALSE]
        /\ UNCHANGED <<entry, holds>>
     \/ /\ entry[t] # "pending"
        /\ UNCHANGED targetVars

\* insert_failed, whatever the entry is by now.
GiveUp(c) ==
  LET t == conn[c].peer IN
  /\ InsertFailed({t})
  /\ conn' = [DropHeld(t) EXCEPT ![c] = FreeConn]

CanRetry(c) == conn[c].phase = "retryable" /\ conn[c].attempt < MaxConnectAttempts

HandleFailed(c) ==
  /\ conn[c].phase \in {"retryable", "fatal"}
  /\ \/ /\ ~StillListed(conn[c].peer)
        /\ conn' = [conn EXCEPT ![c] = FreeConn]
        /\ UNCHANGED targetVars
     \/ /\ StillListed(conn[c].peer)
        /\ \/ CanRetry(c) /\ Retry(c)
           \/ ~CanRetry(c) /\ GiveUp(c)
  /\ UNCHANGED capture

TakeResult(c) ==
  /\ pc = "results"
  /\ HandleConnected(c) \/ HandleFailed(c)
  /\ UNCHANGED <<uiVars, published, pc>>

ResultsDone ==
  /\ pc = "results"
  /\ \A c \in Conns : conn[c].phase \notin Posted
  /\ pc' = "tick"
  /\ UNCHANGED <<uiVars, published, targetVars, capture, conn>>

-----------------------------------------------------------------------------
(* tick_targets, capture_and_fan_out, stop_capture_if_idle,                *)
(* refresh_snapshot                                                        *)

\* tick() of an active session returns false: it reported an event, or was set
\* to Error before.
NotStreaming == {t \in Active : shown[t] = "Error" \/ conn[holds[t]].broken}

\* shutdown_immediate closes the socket for the reader as well.
Tick ==
  /\ pc = "tick"
  /\ InsertFailed(NotStreaming)
  /\ conn' = [c \in Conns |-> IF \E t \in NotStreaming : holds[t] = c
                              THEN FreeConn ELSE conn[c]]
  /\ pc' = "capture"
  /\ UNCHANGED <<uiVars, published, capture>>

\* A frame of a running capture goes to the queues of the active sessions
\* (BranchQueue).  A capture that is over sets them all to Error; its handle
\* stays.
FanOut ==
  /\ pc = "capture"
  /\ shown' = [t \in Targets |-> IF capture = "ended" /\ entry[t] = "active"
                                  THEN "Error" ELSE shown[t]]
  /\ pc' = "settle"
  /\ UNCHANGED <<uiVars, published, entry, tries, inFlight, due, holds,
                 capture, conn>>

\* A bug: active targets do not keep the capture.
CaptureIdleNotPending == Pending = {}

CaptureIdle == Active = {} /\ Pending = {}

Settle ==
  /\ pc = "settle"
  /\ capture' = IF CaptureIdle THEN "none" ELSE capture
  /\ published' = DeriveState
  /\ pc' = "commands"
  /\ UNCHANGED <<uiVars, targetVars, conn>>

\* shutdown_all: the active sessions are stopped one after the other, the
\* entries dropped.  The thread then drops its end of the result channel: what
\* is posted there, or arrives later, is dropped with it.
ShutdownAll ==
  /\ pc = "shutdown"
  /\ capture' = "none"
  /\ ClearAll
  /\ conn' = [c \in Conns |->
                CASE conn[c].phase \in {"active", "retryable", "fatal"} -> FreeConn
                  [] conn[c].phase = "connecting" -> Leave(c, "abandoned")
                  [] conn[c].phase = "connected"  -> Leave(c, "orphan")
                  [] OTHER -> conn[c]]
  /\ published' = "Idle"
  /\ pc' = "exited"
  /\ UNCHANGED uiVars

ManagerStep ==
  \/ HandleAdd \/ HandleRemove \/ HandleShutdown \/ CommandsDone
  \/ \E t \in Targets : StartAttempt(t)
  \/ PendingDone
  \/ \E c \in Conns : TakeResult(c)
  \/ ResultsDone \/ Tick \/ FanOut \/ Settle \/ ShutdownAll

-----------------------------------------------------------------------------
(* Connect threads, shutdown threads, receivers, capture and clock.        *)

Becomes(c, from, new) ==
  /\ conn[c].phase \in from
  /\ conn' = [conn EXCEPT ![c] = new]
  /\ UNCHANGED <<uiVars, published, pc, targetVars, capture>>

\* connect() returns a session; nobody may be left to take it.  A self target
\* never gets that far.
ConnectSucceeds(c) ==
  /\ conn[c].peer # LocalDevice
  /\ \/ Becomes(c, {"connecting"}, [conn[c] EXCEPT !.phase = "connected"])
     \/ Becomes(c, {"abandoned"}, Leave(c, "orphan"))

\* connect() fails: refused, timed out or closed (worth a retry), or refused by
\* protocol or as a self target (final).
ConnectFails(c) ==
  \/ /\ conn[c].peer # LocalDevice
     /\ Becomes(c, {"connecting"}, [conn[c] EXCEPT !.phase = "retryable"])
  \/ Becomes(c, {"connecting"}, [conn[c] EXCEPT !.phase = "fatal"])
  \/ Becomes(c, {"abandoned"}, FreeConn)

\* The thread of shutdown_target_session_async ends.
ClosingDone(c) == Becomes(c, {"closing"}, FreeConn)

\* The receiver stops, fails or disappears: an event waits for the next tick,
\* the reader of an orphan ends and with it its socket.
ReceiverFails(c) ==
  \/ /\ ~conn[c].broken
     /\ Becomes(c, {"active", "connected"}, [conn[c] EXCEPT !.broken = TRUE])
  \/ Becomes(c, {"orphan"}, FreeConn)

CaptureEnds ==
  /\ capture = "running"
  /\ capture' = "ended"
  /\ UNCHANGED <<uiVars, published, pc, targetVars, conn>>

BackoffElapses(t) ==
  /\ entry[t] = "pending" /\ ~inFlight[t] /\ ~due[t]
  /\ due' = [due EXCEPT ![t] = TRUE]
  /\ UNCHANGED <<uiVars, published, pc, entry, shown, tries, inFlight, holds,
                 capture, conn>>

Next ==
  \/ \E t \in Targets : Start(t) \/ AddTarget(t) \/ StopTarget(t) \/ BackoffElapses(t)
  \/ Stop \/ Joined
  \/ ManagerStep
  \/ \E c \in Conns : \/ ConnectSucceeds(c) \/ ConnectFails(c)
                      \/ ClosingDone(c) \/ ReceiverFails(c)
  \/ CaptureEnds

Spec == Init /\ [][Next]_vars

\* The manager thread is scheduled, time passes, and every connect call returns:
\* the last is an assumption on the receivers, which connect() itself does not
\* enforce once the TCP connection is up (no read timeout before Accept).
Fairness ==
  /\ WF_vars(ManagerStep) /\ WF_vars(Joined)
  /\ \A t \in Targets : WF_vars(BackoffElapses(t))
  /\ \A c \in Conns : WF_vars(ConnectSucceeds(c) \/ ConnectFails(c))

FairSpec == Spec /\ Fairness

-----------------------------------------------------------------------------
TypeOK ==
  /\ manager \in {"off", "running", "stopping"}
  /\ commands \in Seq(Commands)
  /\ ops \in 0..MaxOps
  /\ published \in States
  /\ pc \in Steps
  /\ entry \in [Targets -> Kinds]
  /\ shown \in [Targets -> Shown]
  /\ tries \in [Targets -> 0..MaxConnectAttempts]
  /\ inFlight \in [Targets -> BOOLEAN]
  /\ due \in [Targets -> BOOLEAN]
  /\ holds \in [Targets -> Conns \cup {NoConn}]
  /\ capture \in {"none", "running", "ended"}
  /\ conn \in [Conns -> ConnRecord]

\* A pending target that waits for an attempt really has one: a connect thread of
\* it is running or has posted its result, however many requests for the target
\* were removed and repeated meanwhile.  Otherwise it would show "connecting"
\* until the user gives up (mark_in_flight 735, schedule_retry 727).
InFlightHasAttempt ==
  \A t \in Targets : inFlight[t] =>
     \E c \in Conns : conn[c].peer = t /\ conn[c].phase \in Outstanding

\* A target that is offered again has attempts left: late results of an earlier
\* request never push it past MAX_CONNECT_ATTEMPTS (1178-1195).
AttemptsLeft ==
  \A t \in Targets : entry[t] = "pending" /\ ~inFlight[t] => tries[t] < MaxConnectAttempts

\* The account a pending target keeps of its attempts is true: one that waits has
\* an attempt under way, one that is offered again has attempts left, whichever
\* late results of earlier requests were applied to it (sender.rs 1143-1200).
AttemptsAccounted == InFlightHasAttempt /\ AttemptsLeft

\* Every running session belongs to exactly one entry, the one of its receiver,
\* and every active entry has a running session.
SessionsOwned ==
  /\ \A t \in Targets : entry[t] = "active" <=> holds[t] # NoConn
  /\ \A t \in Active : conn[holds[t]].phase = "active" /\ conn[holds[t]].peer = t
  /\ \A c \in Conns : conn[c].phase = "active" => holds[conn[c].peer] = c

\* A target shown as streaming is fed: the manager holds a capture.
StreamingHasCapture ==
  (\E t \in Targets : shown[t] = "Streaming") => capture # "none"

\* "stop all targets and release capture resources": audio is not recorded when
\* the published state says that nothing is cast, nor after the manager thread
\* has ended (stop_capture_if_idle, shutdown_all).
CaptureReleased ==
  /\ pc = "exited" => capture = "none"
  /\ pc = "commands" /\ published \in {"Idle", "Error"} => capture # "running"

\* The capture follows the targets: there is one while a target is shown as
\* streaming, and none once nothing is cast (sender.rs 1323-1361).
CaptureFollowsTargets == StreamingHasCapture /\ CaptureReleased

\* Only a request of the user lists a target: the result of an attempt that was
\* under way when its target was removed never brings it back (1147, 1173).
RemovedStaysRemoved ==
  [][\A t \in Targets : entry[t] = "absent" /\ entry'[t] # "absent" =>
        \/ manager = "off"
        \/ pc = "commands" /\ Head(commands) = [op |-> "add", target |-> t]]_vars

\* docs/multi-device-streaming.md:30-31 "The manager can: [...] stop all targets":
\* once stop() has returned, no session of the cast keeps a reader thread on an
\* open socket.
StoppedCastLeavesNoReader ==
  manager = "off" => \A c \in Conns : conn[c].phase # "orphan"

\* docs/multi-device-streaming.md:72-76 "If one receiver fails: its target snapshot
\* moves to Error [...] its transport workers are shut down": a target listed as
\* failed has no session whose reader thread still holds the socket.
FailedTargetHasNoReader ==
  \A t \in Targets, c \in Conns :
     entry[t] = "failed" => ~(conn[c].phase = "orphan" /\ conn[c].peer = t)

\* stop() returns.
StopCompletes == manager = "stopping" ~> manager = "off"

\* A target does not stay pending: it streams, is given up, or is removed.
AttemptsResolve == \A t \in Targets : entry[t] = "pending" ~> entry[t] # "pending"
=============================================================================
