-------------------------- MODULE LocalMirrorProofs --------------------------
(***************************************************************************)
(* Proofs about LocalMirror, for any number of calls and captures and any  *)
(* capacity of the frame queue.                                            *)
(***************************************************************************)
EXTENDS LocalMirror, TLAPS

\* The threads end in order: the worker before the manager, the manager before
\* stop() returns; what is published then is that of a session that is over.
ThreadsEnd ==
  /\ running = "off" => pc = "exited" /\ pubIdle /\ pubMirror \in {"Idle", "Disabled", "Error"}
  /\ pc = "exited" => at = "exited"
  /\ at = "exited" => ~sink

\* The worker waits for a control only while it has nothing to play.
WorkerSink == EnabledIffSink /\ (at = "idle" => ~sink)

IInv == TypeOK /\ ThreadsEnd /\ WorkerSink

\* Finalizing yields a state of the mirror; without a capture none that is active.
LEMMA FinalizedStates ==
  ASSUME NEW state \in MirrorStates, NEW want \in BOOLEAN, NEW recording \in BOOLEAN
  PROVE  /\ Finalized(state, want, recording) \in MirrorStates
         /\ Finalized(state, want, FALSE) \in {"Idle", "Disabled", "Error"}
<1>1. CASE state = "Error"
  BY <1>1 DEF Finalized, MirrorStates
<1>2. CASE state # "Error" /\ ~recording
  BY <1>2 DEF Finalized, MirrorStates, Off
<1>3. CASE state # "Error" /\ recording /\ ~want
  BY <1>3 DEF Finalized, MirrorStates, Off
<1>4. CASE state # "Error" /\ recording /\ want
  BY <1>4 DEF Finalized, MirrorStates, Feeding, Off
<1> QED BY <1>1, <1>2, <1>3, <1>4

\* Empty channels and an empty queue have their types.
LEMMA EmptyTyped ==
  /\ <<>> \in Seq(Commands) /\ <<>> \in Seq({"Start", "Stop", "Shutdown"})
  /\ <<>> \in Seq(Events) /\ 0 \in 0..QueueCapacity /\ 0 \in 0..MaxOps /\ 0 \in 0..MaxCaptures
<1>1. <<>> \in Seq(Commands) /\ <<>> \in Seq({"Start", "Stop", "Shutdown"})
      /\ <<>> \in Seq(Events)
  OBVIOUS
<1> QED BY <1>1, MirrorBounds

\* The invariant holds before the first call.
LEMMA InitIInv == Init => IInv
<1>1. Init => TypeOK
  BY EmptyTyped DEF Init, TypeOK, MirrorStates
<1>2. Init => ThreadsEnd /\ WorkerSink
  BY DEF Init, ThreadsEnd, WorkerSink, EnabledIffSink
<1> QED BY <1>1, <1>2 DEF IInv

-----------------------------------------------------------------------------
\* The calls of the user interface keep the invariant.
LEMMA CallsKeep ==
  IInv /\ (Start \/ Toggle \/ TogglePublish \/ Retarget \/ Stop \/ Joined) => IInv'
<1> SUFFICES ASSUME IInv
             PROVE  Start \/ Toggle \/ TogglePublish \/ Retarget \/ Stop \/ Joined => IInv'
  OBVIOUS
<1> USE MirrorBounds
<1>1. ASSUME NEW c \in Commands, Command(c) PROVE commands' \in Seq(Commands)
  BY <1>1 DEF Command, IInv, TypeOK
<1>2. ASSUME Call PROVE ops' \in 0..MaxOps
  BY <1>2 DEF Call, IInv, TypeOK
<1>3. CASE Start
  <2>2. TypeOK'
    BY <1>2, <1>3, EmptyTyped DEF Start, IInv, TypeOK, Off, MirrorStates
  <2>3. ThreadsEnd' /\ WorkerSink'
    BY <1>3 DEF Start, ThreadsEnd, WorkerSink, EnabledIffSink
  <2> QED BY <2>2, <2>3 DEF IInv
<1>4. CASE Toggle
  <2>1. commands' \in Seq(Commands) /\ requested' \in BOOLEAN
    BY <1>1, <1>4 DEF Toggle, Commands, IInv, TypeOK
  <2>2. TypeOK'
    BY <1>2, <1>4, <2>1 DEF Toggle, pubVars, managerVars, workerVars, IInv, TypeOK
  <2>3. ThreadsEnd' /\ WorkerSink'
    BY <1>4 DEF Toggle, pubVars, managerVars, workerVars, IInv, ThreadsEnd, WorkerSink,
                EnabledIffSink
  <2> QED BY <2>2, <2>3 DEF IInv
<1>5. CASE TogglePublish
  <2>0. pubMirror' \in MirrorStates /\ pubDesired' \in BOOLEAN
    BY <1>5 DEF TogglePublish, IInv, TypeOK, Off, MirrorStates
  <2>9. /\ toggling' = FALSE
        /\ UNCHANGED <<running, requested, ops, commands, pubIdle, managerVars, controls,
                       events, frames, workerVars>>
    BY <1>5 DEF TogglePublish
  <2>1. TypeOK'
    <3>1. toggling' \in BOOLEAN
      BY <2>9
    <3>2. UNCHANGED <<running, requested, ops, commands, pubIdle, pc, desired, mirror, wanted,
                      listed, capture, captures, controls, events, frames, at, enabled, sink>>
      BY <2>9 DEF managerVars, workerVars
    <3> QED BY <2>0, <3>1, <3>2 DEF IInv, TypeOK
  <2>2. ThreadsEnd' /\ WorkerSink'
    BY <1>5 DEF TogglePublish, managerVars, workerVars, IInv, ThreadsEnd, WorkerSink,
                EnabledIffSink,
                Off, TypeOK
  <2> QED BY <2>1, <2>2 DEF IInv
<1>6. CASE Retarget \/ Stop
  <2>1. commands' \in Seq(Commands)
    BY <1>1, <1>6 DEF Retarget, Stop, Commands
  <2>2. TypeOK'
    BY <1>2, <1>6, <2>1 DEF Retarget, Stop, pubVars, managerVars, workerVars, IInv, TypeOK
  <2>3. ThreadsEnd' /\ WorkerSink'
    BY <1>6 DEF Retarget, Stop, pubVars, managerVars, workerVars, IInv, ThreadsEnd,
                WorkerSink, EnabledIffSink
  <2> QED BY <2>2, <2>3 DEF IInv
<1>7. CASE Joined
  <2>1. pubMirror' \in {"Idle", "Disabled", "Error"}
    BY <1>7, FinalizedStates DEF Joined, IInv, TypeOK
  <2>9. /\ running' = "off" /\ commands' = <<>> /\ pubIdle' = TRUE
        /\ UNCHANGED <<requested, toggling, ops, pubDesired, managerVars, controls, events,
                       frames, workerVars>>
    BY <1>7 DEF Joined
  <2>2. TypeOK'
    BY <2>1, <2>9, EmptyTyped DEF managerVars, workerVars, IInv, TypeOK, MirrorStates
  <2>3. ThreadsEnd' /\ WorkerSink'
    BY <1>7, <2>1 DEF Joined, managerVars, workerVars, IInv, ThreadsEnd, WorkerSink,
                      EnabledIffSink
  <2> QED BY <2>2, <2>3 DEF IInv
<1> QED BY <1>3, <1>4, <1>5, <1>6, <1>7

\* The manager types what it writes, and leaves the worker's own variables alone.
LEMMA ManagerTypes == IInv /\ Manager => TypeOK'
<1> SUFFICES ASSUME IInv, Manager PROVE TypeOK'
  OBVIOUS
<1> USE MirrorBounds
<1>1. \A c \in {"Start", "Stop", "Shutdown"} :
        Append(controls, c) \in Seq({"Start", "Stop", "Shutdown"})
  BY DEF IInv, TypeOK
<1>2. CASE Disable \/ Enable \/ Restart \/ HandleShutdown
  <2>0. PICK c \in Commands : Take(c)
    BY <1>2 DEF Disable, Enable, Restart, HandleShutdown, Commands
  <2>1. commands' \in Seq(Commands) /\ UNCHANGED <<uiVars, pubVars, wanted, listed, capture,
                                                  captures, events, frames, workerVars>>
    BY <2>0 DEF Take, IInv, TypeOK
  <2>2. /\ controls' \in Seq({"Start", "Stop", "Shutdown"}) /\ mirror' \in MirrorStates
        /\ desired' \in BOOLEAN /\ pc' \in {"commands", "shutdown"}
    BY <1>1, <1>2 DEF Disable, Enable, Restart, HandleShutdown, Take, StartMirror, IInv,
                      TypeOK, MirrorStates
  <2> QED BY <2>1, <2>2 DEF IInv, TypeOK, uiVars, pubVars, workerVars
<1>3. CASE TargetsChange
  <2>1. /\ listed' \in BOOLEAN /\ wanted' \in BOOLEAN /\ capture' \in BOOLEAN
        /\ pc' = "events"
    BY <1>3 DEF TargetsChange, IInv, TypeOK
  <2>2. captures' \in 0..MaxCaptures
    BY <1>3 DEF TargetsChange, IInv, TypeOK
  <2>3. controls' \in Seq({"Start", "Stop", "Shutdown"}) /\ mirror' \in MirrorStates
    BY <1>1, <1>3 DEF TargetsChange, StartMirror, IInv, TypeOK, MirrorStates
  <2> QED BY <1>3, <2>1, <2>2, <2>3 DEF TargetsChange, IInv, TypeOK, uiVars, pubVars,
                                        workerVars
<1>4. CASE ApplyEvent
  <2>1. Head(events) \in Events /\ Tail(events) \in Seq(Events)
    BY <1>4 DEF ApplyEvent, IInv, TypeOK
  <2> QED BY <1>4, <2>1 DEF ApplyEvent, IInv, TypeOK, Events, MirrorStates, uiVars, pubVars,
                            workerVars
<1>5. CASE EventsDone
  BY <1>5 DEF EventsDone, IInv, TypeOK, uiVars, pubVars, workerVars
<1>6. CASE FanOut
  <2>1. frames' \in 0..QueueCapacity
    <3>1. frames \in 0..QueueCapacity
      BY DEF IInv, TypeOK
    <3>2. frames' = frames \/ frames' = IF frames < QueueCapacity THEN frames + 1 ELSE frames
      BY <1>6 DEF FanOut
    <3> QED BY <3>1, <3>2
  <2>2. wanted' \in BOOLEAN
    BY <1>6 DEF FanOut, IInv, TypeOK
  <2> QED BY <1>6, <2>1, <2>2 DEF FanOut, IInv, TypeOK, uiVars, pubVars, workerVars
<1>7. CASE Settle
  <2>1. capture' \in BOOLEAN /\ controls' \in Seq({"Start", "Stop", "Shutdown"})
    BY <1>1, <1>7 DEF Settle, StopCaptureIfIdle, IInv, TypeOK
  <2>2. mirror' \in MirrorStates
    BY <1>7, <2>1, FinalizedStates DEF Settle, IInv, TypeOK
  <2> QED BY <1>7, <2>1, <2>2 DEF Settle, IInv, TypeOK, uiVars, workerVars
<1>8. CASE ShutdownMirror
  BY <1>1, <1>8 DEF ShutdownMirror, IInv, TypeOK, uiVars, pubVars, workerVars
<1>9. CASE ShutdownDone
  <2>1. mirror' \in MirrorStates
    BY <1>9, FinalizedStates DEF ShutdownDone, IInv, TypeOK
  <2> QED BY <1>9, <2>1, EmptyTyped DEF ShutdownDone, IInv, TypeOK, uiVars, workerVars
<1> QED BY <1>2, <1>3, <1>4, <1>5, <1>6, <1>7, <1>8, <1>9 DEF Manager

\* The manager runs only while the session does, and ends after its worker.
LEMMA ManagerKeeps == IInv /\ Manager => IInv'
<1> SUFFICES ASSUME IInv, Manager PROVE IInv'
  OBVIOUS
<1>1. UNCHANGED <<running, workerVars>> /\ pc # "exited" /\ (pc' = "exited" => at = "exited")
  BY DEF Manager, Disable, Enable, Restart, HandleShutdown, TargetsChange, ApplyEvent,
         EventsDone, FanOut, Settle, ShutdownMirror, ShutdownDone, Take, uiVars
<1>2. ThreadsEnd' /\ WorkerSink'
  BY <1>1 DEF workerVars, IInv, ThreadsEnd, WorkerSink, EnabledIffSink
<1> QED BY <1>2, ManagerTypes DEF IInv

\* The worker enables itself with a sink and disables itself without one.
LEMMA WorkerKeeps == IInv /\ Worker => IInv'
<1> SUFFICES ASSUME IInv, Worker PROVE IInv'
  OBVIOUS
<1> USE MirrorBounds
<1>1. \A e \in Events : Append(events, e) \in Seq(Events)
  BY DEF IInv, TypeOK
<1>2. events \o <<"Error", "Disabled">> \in Seq(Events)
  <2>1. <<"Error", "Disabled">> \in Seq(Events) /\ events \in Seq(Events)
    BY DEF Events, IInv, TypeOK
  <2> QED BY <2>1
<1>3. ASSUME NEW c, Control(c) PROVE controls' \in Seq({"Start", "Stop", "Shutdown"})
  BY <1>3 DEF Control, IInv, TypeOK
<1>4. /\ UNCHANGED <<uiVars, commands, pubVars, managerVars>> /\ at # "exited"
      /\ at' \in {"drain", "idle", "play", "exited"}
      /\ enabled' \in BOOLEAN /\ sink' \in BOOLEAN
      /\ frames' \in 0..QueueCapacity
  <2>1. /\ UNCHANGED <<uiVars, commands, pubVars, managerVars>> /\ at # "exited"
        /\ at' \in {"drain", "idle", "play", "exited"}
    BY DEF Worker, StartSucceeds, StartFails, StopSink, StopIdle, WorkerShutdown, Drained,
           PlayFrame, PlayFails, Control, IInv, TypeOK
  <2>2. enabled' \in BOOLEAN /\ sink' \in BOOLEAN
    BY DEF Worker, StartSucceeds, StartFails, StopSink, StopIdle, WorkerShutdown, Drained,
           PlayFrame, PlayFails, IInv, TypeOK
  <2>3. \/ frames' = frames \/ frames' = 0
        \/ frames' = IF frames > 0 THEN frames - 1 ELSE 0
    BY DEF Worker, StartSucceeds, StartFails, StopSink, StopIdle, WorkerShutdown, Drained,
           PlayFrame, PlayFails
  <2>4. frames' \in 0..QueueCapacity
    BY <2>3 DEF IInv, TypeOK
  <2> QED BY <2>1, <2>2, <2>4
<1>5. controls' \in Seq({"Start", "Stop", "Shutdown"})
  BY <1>3 DEF Worker, StartSucceeds, StartFails, StopSink, StopIdle, WorkerShutdown,
              Drained, PlayFrame, PlayFails, IInv, TypeOK
<1>6. events' \in Seq(Events)
  BY <1>1, <1>2 DEF Worker, StartSucceeds, StartFails, StopSink, StopIdle, WorkerShutdown,
                    Drained, PlayFrame, PlayFails, Report, Events, IInv, TypeOK
<1>7. TypeOK'
  BY <1>4, <1>5, <1>6 DEF IInv, TypeOK, uiVars, pubVars, managerVars
<1>8. WorkerSink' /\ (at' = "exited" => ~sink')
  BY <1>4 DEF Worker, StartSucceeds, StartFails, StopSink, StopIdle, WorkerShutdown,
              Drained, PlayFrame, PlayFails, IInv, WorkerSink, EnabledIffSink
<1>9. ThreadsEnd'
  BY <1>4, <1>8 DEF uiVars, pubVars, managerVars, IInv, ThreadsEnd
<1> QED BY <1>7, <1>8, <1>9 DEF IInv

\* Every step keeps the invariant.
LEMMA StepIInv == IInv /\ [Next]_vars => IInv'
<1>1. IInv /\ UNCHANGED vars => IInv'
  BY DEF vars, uiVars, pubVars, managerVars, workerVars, IInv, TypeOK, ThreadsEnd,
         WorkerSink, EnabledIffSink
<1> QED BY <1>1, CallsKeep, ManagerKeeps, WorkerKeeps DEF Next

-----------------------------------------------------------------------------
\* What the manager last heard, or will hear last, is whether the sink is open; a
\* manager that has heard all and records for a mirror knows of its sink.
LastTells == at # "exited" /\ events # <<>> =>
               (events[Len(events)] = "Mirroring" <=> sink)
HeardIsTrue == at # "exited" /\ events = <<>> /\ mirror = "Mirroring" => sink
SinkIsKnown == at # "exited" /\ Quiet /\ capture /\ desired /\ sink => mirror = "Mirroring"

Views == LastTells /\ HeardIsTrue /\ SinkIsKnown

\* The last element of a sequence with elements added is the last one added.
LEMMA LastAdded ==
  ASSUME NEW s \in Seq(Events), NEW e \in Events
  PROVE  /\ Append(s, e) # <<>> /\ Append(s, e)[Len(Append(s, e))] = e
         /\ LET two == s \o <<"Error", "Disabled">>
            IN two # <<>> /\ two[Len(two)] = "Disabled"
<1>1. /\ Append(s, e) # <<>> /\ Append(s, e)[Len(Append(s, e))] = e
  OBVIOUS
<1>2. Len(<<"Error", "Disabled">>) = 2 /\ <<"Error", "Disabled">>[2] = "Disabled"
      /\ <<"Error", "Disabled">> \in Seq(Events)
  BY DEF Events
<1> DEFINE two == s \o <<"Error", "Disabled">>
<1>3. Len(two) = Len(s) + 2 /\ two \in Seq(Events)
  BY <1>2
<1>4. two[Len(s) + 2] = "Disabled"
  BY <1>2, <1>3
<1>5. two # <<>>
  BY <1>3
<1> QED BY <1>1, <1>3, <1>4, <1>5

\* Finalizing invents no mirror that plays, and keeps one that is wanted.
LEMMA FinalizedPlays ==
  ASSUME NEW state \in MirrorStates, NEW want \in BOOLEAN, NEW recording \in BOOLEAN
  PROVE  /\ Finalized(state, want, recording) = "Mirroring" => state = "Mirroring"
         /\ want /\ recording => Finalized("Mirroring", want, recording) = "Mirroring"
<1>1. CASE state = "Error"
  BY <1>1 DEF Finalized, Off, Feeding
<1>2. CASE state # "Error" /\ ~recording
  BY <1>2 DEF Finalized, Off
<1>3. CASE state # "Error" /\ recording /\ ~want
  BY <1>3 DEF Finalized
<1>4. CASE state # "Error" /\ recording /\ want
  BY <1>4 DEF Finalized, Feeding
<1> QED BY <1>1, <1>2, <1>3, <1>4

\* A call does not touch the channels, or makes new ones.
LEMMA CallsKeepViews ==
  IInv /\ Views /\ (Start \/ Toggle \/ TogglePublish \/ Retarget \/ Stop \/ Joined) => Views'
<1>1. CASE Start
  BY <1>1 DEF Start, Views, LastTells, HeardIsTrue, SinkIsKnown, Off
<1>2. CASE Toggle \/ TogglePublish \/ Retarget \/ Stop \/ Joined
  <2>1. UNCHANGED <<mirror, desired, capture, controls, events, at, sink>>
    BY <1>2 DEF Toggle, TogglePublish, Retarget, Stop, Joined, managerVars, workerVars
  <2> QED BY <2>1 DEF Views, LastTells, HeardIsTrue, SinkIsKnown, Quiet
<1> QED BY <1>1, <1>2

\* The manager asks for a mirror by a control, and believes the last event.
LEMMA ManagerKeepsViews == IInv /\ Views /\ Manager => Views'
<1> SUFFICES ASSUME IInv, Views, Manager PROVE Views'
  OBVIOUS
<1>0. \A c \in {"Start", "Stop", "Shutdown"} : Append(controls, c) # <<>>
  <2>1. controls \in Seq({"Start", "Stop", "Shutdown"})
    BY DEF IInv, TypeOK
  <2>2. ASSUME NEW c \in {"Start", "Stop", "Shutdown"}
        PROVE  Len(Append(controls, c)) = Len(controls) + 1
    BY <2>1
  <2>3. Len(<<>>) = 0 /\ Len(controls) \in Nat
    BY <2>1
  <2> QED BY <2>2, <2>3
<1>1. CASE Disable \/ Enable \/ Restart \/ HandleShutdown
  <2>1. UNCHANGED <<capture, events, at, sink>>
    BY <1>1 DEF Disable, Enable, Restart, HandleShutdown, Take, workerVars
  <2>2. \/ UNCHANGED <<mirror, controls>> /\ (desired' => desired \/ ~capture)
        \/ mirror' \in {"Starting", "Stopping"} /\ controls' # <<>>
    BY <1>0, <1>1 DEF Disable, Enable, Restart, HandleShutdown, StartMirror
  <2> QED BY <2>1, <2>2 DEF Views, LastTells, HeardIsTrue, SinkIsKnown, Quiet
<1>2. CASE TargetsChange
  <2>1. UNCHANGED <<desired, events, at, sink>>
    BY <1>2 DEF TargetsChange, workerVars
  <2>2. \/ UNCHANGED <<capture, mirror, controls>>
        \/ ~desired /\ UNCHANGED <<mirror, controls>>
        \/ mirror' = "Starting" /\ controls' # <<>>
    BY <1>0, <1>2 DEF TargetsChange, StartMirror
  <2> QED BY <2>1, <2>2 DEF Views, LastTells, HeardIsTrue, SinkIsKnown, Quiet
<1>3. CASE ApplyEvent
  <2>1. /\ UNCHANGED <<desired, capture, controls, at, sink>> /\ events # <<>>
        /\ mirror' = Head(events) /\ events' = Tail(events)
    BY <1>3 DEF ApplyEvent, workerVars
  <2>2. events' # <<>> => events'[Len(events')] = events[Len(events)]
    BY <2>1 DEF IInv, TypeOK
  <2>3. events' = <<>> => mirror' = events[Len(events)]
    <3>1. events \in Seq(Events)
      BY DEF IInv, TypeOK
    <3>2. Len(Tail(events)) = Len(events) - 1 /\ Head(events) = events[1]
      BY <2>1, <3>1
    <3>3. Len(<<>>) = 0 /\ Len(events) \in Nat
      BY <3>1
    <3>4. ASSUME Tail(events) = <<>> PROVE Len(events) = 1
      <4>1. Len(Tail(events)) = Len(<<>>)
        BY <3>4
      <4> QED BY <3>2, <3>3, <4>1, SMT
    <3> QED BY <2>1, <3>2, <3>4
  <2> QED BY <2>1, <2>2, <2>3 DEF Views, LastTells, HeardIsTrue, SinkIsKnown, Quiet
<1>4. CASE EventsDone \/ FanOut
  <2>1. UNCHANGED <<mirror, desired, capture, controls, events, at, sink>>
    BY <1>4 DEF EventsDone, FanOut, workerVars
  <2> QED BY <2>1 DEF Views, LastTells, HeardIsTrue, SinkIsKnown, Quiet
<1>5. CASE Settle
  <2>1. UNCHANGED <<desired, events, at, sink>> /\ (capture' => capture)
        /\ mirror' = Finalized(mirror, desired, capture') /\ capture' \in BOOLEAN
    BY <1>5 DEF Settle, StopCaptureIfIdle, workerVars, IInv, TypeOK
  <2>2. controls' = <<>> => controls = <<>>
    BY <1>0, <1>5 DEF Settle, StopCaptureIfIdle
  <2>3. /\ mirror' = "Mirroring" => mirror = "Mirroring"
        /\ mirror = "Mirroring" /\ desired /\ capture' => mirror' = "Mirroring"
    BY <2>1, FinalizedPlays DEF IInv, TypeOK
  <2> QED BY <2>1, <2>2, <2>3 DEF Views, LastTells, HeardIsTrue, SinkIsKnown, Quiet
<1>6. CASE ShutdownMirror
  BY <1>6 DEF ShutdownMirror, workerVars, Views, LastTells, HeardIsTrue, SinkIsKnown
<1>7. CASE ShutdownDone
  BY <1>7 DEF ShutdownDone, workerVars, Views, LastTells, HeardIsTrue, SinkIsKnown
<1> QED BY <1>1, <1>2, <1>3, <1>4, <1>5, <1>6, <1>7 DEF Manager

\* The worker opens and closes its sink with a report, and answers every control.
LEMMA WorkerKeepsViews == IInv /\ Views /\ Worker => Views'
<1> SUFFICES ASSUME IInv, Views, Worker PROVE Views'
  OBVIOUS
<1>0. /\ UNCHANGED <<mirror, desired, capture>> /\ events \in Seq(Events)
      /\ "Mirroring" \in Events /\ "Disabled" \in Events /\ "Error" \in Events
  BY DEF Worker, StartSucceeds, StartFails, StopSink, StopIdle, WorkerShutdown, Drained,
         PlayFrame, PlayFails, Control, managerVars, IInv, TypeOK, Events
<1>1. CASE StartSucceeds
  BY <1>0, <1>1, LastAdded DEF StartSucceeds, Report, Views, LastTells, HeardIsTrue,
                              SinkIsKnown, Quiet
<1>2. CASE StartFails \/ PlayFails
  BY <1>0, <1>2, LastAdded DEF StartFails, PlayFails, Report, Views, LastTells, HeardIsTrue,
                              SinkIsKnown, Quiet
<1>3. CASE StopSink
  BY <1>0, <1>3, LastAdded DEF StopSink, Report, Views, LastTells, HeardIsTrue,
                              SinkIsKnown, Quiet
<1>4. CASE StopIdle
  <2>1. ~sink
    BY <1>4 DEF StopIdle, IInv, WorkerSink
  <2> QED BY <1>0, <1>4, <2>1, LastAdded DEF StopIdle, Report, Views, LastTells, HeardIsTrue,
                                            SinkIsKnown, Quiet
<1>5. CASE WorkerShutdown
  BY <1>5 DEF WorkerShutdown, Views, LastTells, HeardIsTrue, SinkIsKnown
<1>6. CASE Drained \/ PlayFrame
  <2>1. UNCHANGED <<controls, events, sink>> /\ at # "exited"
    BY <1>6 DEF Drained, PlayFrame
  <2> QED BY <1>0, <2>1 DEF Views, LastTells, HeardIsTrue, SinkIsKnown, Quiet
<1> QED BY <1>1, <1>2, <1>3, <1>4, <1>5, <1>6 DEF Worker

\* Every step keeps what the manager knows of the worker true.
LEMMA StepViews == IInv /\ Views /\ [Next]_vars => Views'
<1>1. IInv /\ Views /\ UNCHANGED vars => Views'
  BY DEF vars, managerVars, workerVars, Views, LastTells, HeardIsTrue, SinkIsKnown, Quiet
<1> QED BY <1>1, CallsKeepViews, ManagerKeepsViews, WorkerKeepsViews DEF Next

-----------------------------------------------------------------------------
\* The last control of a manager that records and wants the mirror is Start; what the
\* worker says last when it has handled them all answers a Start, and a manager that has
\* heard it knows how the mirror is.
Wants == capture /\ desired
StartIsLast == at # "exited" /\ Wants /\ controls # <<>> =>
                 controls[Len(controls)] = "Start"
AnswerIsLast == at # "exited" /\ Wants /\ controls = <<>> /\ events # <<>> =>
                  events[Len(events)] # "Disabled"
AnswerIsHeard == at # "exited" /\ Quiet =>
                   mirror # "Starting" /\ (Wants => mirror \in {"Mirroring", "Error"})

Answers == StartIsLast /\ AnswerIsLast /\ AnswerIsHeard

Controls == {"Start", "Stop", "Shutdown"}

\* A control is taken from the front, another one added at the end.
LEMMA ControlEnds ==
  ASSUME NEW s \in Seq(Controls), NEW c \in Controls
  PROVE  /\ Append(s, c) # <<>> /\ Append(s, c)[Len(Append(s, c))] = c
         /\ s # <<>> /\ Tail(s) # <<>> => Tail(s)[Len(Tail(s))] = s[Len(s)]
         /\ s # <<>> /\ Tail(s) = <<>> => Head(s) = s[Len(s)]
<1>1. Append(s, c) # <<>> /\ Append(s, c)[Len(Append(s, c))] = c
  OBVIOUS
<1>2. s # <<>> /\ Tail(s) # <<>> => Tail(s)[Len(Tail(s))] = s[Len(s)]
  OBVIOUS
<1>3. ASSUME s # <<>>, Tail(s) = <<>> PROVE Head(s) = s[Len(s)]
  <2>1. Len(Tail(s)) = Len(s) - 1 /\ Head(s) = s[1] /\ Len(s) \in Nat /\ Len(<<>>) = 0
    BY <1>3
  <2>2. Len(Tail(s)) = Len(<<>>)
    BY <1>3
  <2>3. Len(s) = 1
    BY <2>1, <2>2, SMT
  <2> QED BY <2>1, <2>3
<1> QED BY <1>1, <1>2, <1>3

\* Finalizing says Starting only of a mirror that is wanted and neither plays nor failed.
LEMMA FinalizedStarts ==
  ASSUME NEW state \in MirrorStates, NEW want \in BOOLEAN, NEW recording \in BOOLEAN
  PROVE  /\ state \in {"Mirroring", "Error"} /\ want /\ recording =>
              Finalized(state, want, recording) = state
         /\ ~(want /\ recording) => Finalized(state, want, recording) # "Starting"
<1>1. CASE state = "Error"
  BY <1>1 DEF Finalized
<1>2. CASE state # "Error" /\ ~recording
  BY <1>2 DEF Finalized, Off
<1>3. CASE state # "Error" /\ recording /\ ~want
  BY <1>3 DEF Finalized
<1>4. CASE state # "Error" /\ recording /\ want
  BY <1>4 DEF Finalized, Feeding
<1> QED BY <1>1, <1>2, <1>3, <1>4

\* A new cast has no messages and no capture; other calls touch neither.
LEMMA CallsKeepAnswers ==
  Answers /\ (Start \/ Toggle \/ TogglePublish \/ Retarget \/ Stop \/ Joined) => Answers'
<1> USE DEF Answers, StartIsLast, AnswerIsLast, AnswerIsHeard, Wants
<1>1. CASE Start
  BY <1>1 DEF Start, Off
<1>2. CASE Toggle \/ TogglePublish \/ Retarget \/ Stop \/ Joined
  <2>1. UNCHANGED <<mirror, desired, capture, controls, events, at>>
    BY <1>2 DEF Toggle, TogglePublish, Retarget, Stop, Joined, managerVars, workerVars
  <2> QED BY <2>1 DEF Quiet
<1> QED BY <1>1, <1>2

\* Whatever makes the manager want a mirror sends a Start, whatever sends a Stop ends
\* the wish.
LEMMA ManagerKeepsAnswers == IInv /\ Answers /\ Manager => Answers'
<1> SUFFICES ASSUME IInv, Answers, Manager PROVE Answers'
  OBVIOUS
<1> USE DEF Answers, StartIsLast, AnswerIsLast, AnswerIsHeard, Wants, Quiet
<1>0. /\ controls \in Seq(Controls) /\ events \in Seq(Events) /\ mirror \in MirrorStates
      /\ desired \in BOOLEAN /\ capture \in BOOLEAN /\ wanted \in BOOLEAN
      /\ "Start" \in Controls /\ "Stop" \in Controls /\ "Shutdown" \in Controls
  BY DEF IInv, TypeOK, Controls
<1>1. ASSUME StartMirror, UNCHANGED <<events, at>> PROVE Answers'
  <2>1. controls' # <<>> /\ controls'[Len(controls')] = "Start"
    BY <1>0, <1>1, ControlEnds DEF StartMirror
  <2> QED BY <1>1, <2>1
<1>2. ASSUME UNCHANGED <<mirror, controls, events, at>>, Wants' => Wants PROVE Answers'
  BY <1>2
<1>3. CASE Disable \/ Enable \/ Restart \/ HandleShutdown
  <2>1. UNCHANGED <<capture, events, at>>
    BY <1>3 DEF Disable, Enable, Restart, HandleShutdown, Take, workerVars
  <2>2. \/ StartMirror
        \/ UNCHANGED <<mirror, controls>> /\ (Wants' => Wants)
        \/ ~desired' /\ mirror' = "Stopping"
    BY <1>3, <2>1 DEF Disable, Enable, Restart, HandleShutdown
  <2> QED BY <1>1, <1>2, <2>1, <2>2
<1>4. CASE TargetsChange
  <2>1. UNCHANGED <<desired, events, at>>
    BY <1>4 DEF TargetsChange, workerVars
  <2>2. StartMirror \/ (UNCHANGED <<mirror, controls>> /\ (Wants' => Wants))
    BY <1>4, <2>1 DEF TargetsChange
  <2> QED BY <1>1, <1>2, <2>1, <2>2
<1>5. CASE ApplyEvent
  <2>1. /\ UNCHANGED <<desired, capture, controls, at>> /\ events # <<>>
        /\ mirror' = Head(events) /\ events' = Tail(events)
    BY <1>5 DEF ApplyEvent, workerVars
  <2>2. events' # <<>> => events'[Len(events')] = events[Len(events)]
    BY <1>0, <2>1
  <2>3. events' = <<>> => mirror' = events[Len(events)]
    <3>1. Len(Tail(events)) = Len(events) - 1 /\ Head(events) = events[1]
          /\ Len(events) \in Nat /\ Len(<<>>) = 0
      BY <1>0, <2>1
    <3>2. ASSUME Tail(events) = <<>> PROVE Len(events) = 1
      <4>1. Len(Tail(events)) = Len(<<>>)
        BY <3>2
      <4> QED BY <3>1, <4>1, SMT
    <3> QED BY <2>1, <3>1, <3>2
  <2>4. mirror' \in Events
    BY <1>0, <2>1
  <2> QED BY <2>1, <2>2, <2>3, <2>4 DEF Events
<1>6. CASE EventsDone \/ FanOut
  <2>1. UNCHANGED <<mirror, desired, capture, controls, events, at>>
    BY <1>6 DEF EventsDone, FanOut, workerVars
  <2> QED BY <1>2, <2>1
<1>7. CASE Settle
  <2>1. /\ UNCHANGED <<desired, events, at>> /\ capture' = (capture /\ wanted)
        /\ mirror' = Finalized(mirror, desired, capture')
        /\ UNCHANGED controls \/ (~wanted /\ controls' = Append(controls, "Stop"))
    BY <1>7 DEF Settle, StopCaptureIfIdle, workerVars
  <2>2. capture' \in BOOLEAN
    BY <1>0, <2>1
  <2>3. CASE UNCHANGED controls
    <3>1. Wants' => Wants
      BY <2>1
    <3>2. /\ mirror \in {"Mirroring", "Error"} /\ Wants' => mirror' = mirror
          /\ ~Wants' => mirror' # "Starting"
      BY <1>0, <2>1, <2>2, FinalizedStarts
    <3> QED BY <2>1, <2>3, <3>1, <3>2
  <2>4. CASE ~wanted /\ controls' = Append(controls, "Stop")
    <3>1. ~capture' /\ controls' # <<>>
      BY <1>0, <2>1, <2>4, ControlEnds
    <3> QED BY <3>1
  <2> QED BY <2>1, <2>3, <2>4
<1>8. CASE ShutdownMirror
  <2>1. ~capture' /\ controls' # <<>>
    BY <1>0, <1>8, ControlEnds DEF ShutdownMirror
  <2> QED BY <2>1
<1>9. CASE ShutdownDone
  BY <1>9 DEF ShutdownDone, workerVars
<1> QED BY <1>3, <1>4, <1>5, <1>6, <1>7, <1>8, <1>9 DEF Manager

\* The worker answers every control, and reports a sink it loses.
LEMMA WorkerKeepsAnswers == IInv /\ Answers /\ Worker => Answers'
<1> SUFFICES ASSUME IInv, Answers, Worker PROVE Answers'
  OBVIOUS
<1> USE DEF Answers, StartIsLast, AnswerIsLast, AnswerIsHeard, Wants, Quiet
<1>0. /\ UNCHANGED <<mirror, desired, capture>>
      /\ controls \in Seq(Controls) /\ events \in Seq(Events)
      /\ "Mirroring" \in Events /\ "Disabled" \in Events /\ "Error" \in Events
      /\ "Start" \in Controls
  BY DEF Worker, StartSucceeds, StartFails, StopSink, StopIdle, WorkerShutdown, Drained,
         PlayFrame, PlayFails, Control, managerVars, IInv, TypeOK, Events, Controls
<1>1. ASSUME NEW c \in Controls, Control(c), at' # "exited", events' # <<>>,
             c = "Start" => events'[Len(events')] # "Disabled"
      PROVE  Answers'
  <2>1. at # "exited" /\ controls # <<>> /\ Head(controls) = c /\ controls' = Tail(controls)
    BY <1>1 DEF Control
  <2>2. controls' # <<>> => controls'[Len(controls')] = controls[Len(controls)]
    BY <1>0, <2>1, ControlEnds
  <2>3. controls' = <<>> => c = controls[Len(controls)]
    BY <1>0, <2>1, ControlEnds
  <2> QED BY <1>0, <1>1, <2>1, <2>2, <2>3
<1>2. CASE StartSucceeds \/ StartFails \/ StopSink \/ StopIdle
  <2>1. PICK c \in {"Start", "Stop"} : Control(c) /\ at' = "drain"
                /\ (c = "Start" => Report("Mirroring") \/ Report("Error"))
                /\ \/ Report("Mirroring") \/ Report("Error") \/ Report("Disabled")
                   \/ events' = events \o <<"Error", "Disabled">>
    BY <1>2 DEF StartSucceeds, StartFails, StopSink, StopIdle
  <2>2. events' # <<>>
    BY <1>0, <2>1, LastAdded DEF Report
  <2>3. c = "Start" => events'[Len(events')] # "Disabled"
    BY <1>0, <2>1, LastAdded DEF Report
  <2> QED BY <1>1, <2>1, <2>2, <2>3 DEF Controls
<1>3. CASE PlayFails
  <2>1. UNCHANGED controls /\ at # "exited" /\ events' # <<>>
        /\ events'[Len(events')] = "Error"
    BY <1>0, <1>3, LastAdded DEF PlayFails, Report
  <2> QED BY <1>0, <2>1
<1>4. CASE WorkerShutdown
  BY <1>4 DEF WorkerShutdown
<1>5. CASE Drained \/ PlayFrame
  <2>1. UNCHANGED <<controls, events>> /\ at # "exited"
    BY <1>5 DEF Drained, PlayFrame
  <2> QED BY <1>0, <2>1
<1> QED BY <1>2, <1>3, <1>4, <1>5 DEF Worker

\* Every step keeps an answer to each Start on its way.
LEMMA StepAnswers == IInv /\ Answers /\ [Next]_vars => Answers'
<1>1. Answers /\ UNCHANGED vars => Answers'
  BY DEF vars, managerVars, workerVars, Answers, StartIsLast, AnswerIsLast, AnswerIsHeard,
         Wants, Quiet
<1> QED BY <1>1, CallsKeepAnswers, ManagerKeepsAnswers, WorkerKeepsAnswers DEF Next

-----------------------------------------------------------------------------
\* The invariant holds in every state of a cast with a mirror.
THEOREM InvariantHolds == Spec => []IInv
<1> QED BY InitIInv, StepIInv, PTL DEF Spec

\* The queue of the mirror never exceeds its capacity, and every variable has its
\* type.
THEOREM TypeCorrect == Spec => []TypeOK
<1>1. IInv => TypeOK
  BY DEF IInv
<1> QED BY <1>1, InvariantHolds, PTL

\* The worker plays exactly while it has a sink: the report that the sink was
\* unavailable during playback is dead code (fanout.rs 270-277).
THEOREM WorkerHasSink == Spec => []EnabledIffSink
<1>1. IInv => EnabledIffSink
  BY DEF IInv, WorkerSink
<1> QED BY <1>1, InvariantHolds, PTL

\* A cast that is over has no open sink and shows no mirror that starts, plays or
\* stops.
THEOREM NoMirrorWithoutCast == Spec => []NoGhostMirror
<1>1. IInv => NoGhostMirror
  BY DEF IInv, ThreadsEnd, NoGhostMirror
<1> QED BY <1>1, InvariantHolds, PTL

\* Whenever nothing is in flight between the manager and the worker, the manager that
\* says Mirroring is right, one that records for a mirror knows whether it plays or has
\* failed, and no mirror is left starting (sender.rs 1202-1228, 1323-1361, 1774-1796).
THEOREM ManagerIsRight == Spec => []ViewsAgree
<1>1. Init => Views
  BY DEF Init, Views, LastTells, HeardIsTrue, SinkIsKnown
<1>2. Spec => []Views
  BY <1>1, StepViews, InvariantHolds, PTL DEF Spec
<1>3. Init => Answers
  BY DEF Init, Answers, StartIsLast, AnswerIsLast, AnswerIsHeard
<1>4. Spec => []Answers
  BY <1>3, StepAnswers, InvariantHolds, PTL DEF Spec
<1>5. Views /\ Answers => ViewsAgree
  BY DEF Views, HeardIsTrue, SinkIsKnown, Answers, AnswerIsHeard, Wants, ViewsAgree, Quiet
<1> QED BY <1>2, <1>4, <1>5, PTL
-----------------------------------------------------------------------------
(* Why the manager's wait for the worker has an end.                       *)

\* Shutdown is the last control of the manager, sent once, as it begins to wait in
\* join() (LocalMirrorBranch::shutdown, fanout.rs 166-173).
ShutdownIsLast ==
  \A i \in 1..Len(controls) :
     controls[i] = "Shutdown" => pc = "join" /\ at # "exited" /\ i = Len(controls)

\* The worker serves its manager to the end: it has ended only when the manager is
\* past its last control, and until it has ended a manager in join() has a Shutdown
\* on its way, behind whatever starts and stops still wait.
WorkerServes ==
  /\ at = "exited" => pc \in {"join", "exited"}
  /\ pc = "join" => at = "exited" \/ \E i \in 1..Len(controls) : controls[i] = "Shutdown"

JoinEnds == ShutdownIsLast /\ WorkerServes

\* What the manager adds to the controls and the worker takes from them.
LEMMA ControlFacts ==
  ASSUME NEW s \in Seq(Controls), NEW c \in Controls
  PROVE  /\ Append(s, c) \in Seq(Controls) /\ Len(s) \in Nat
         /\ Len(Append(s, c)) = Len(s) + 1
         /\ Append(s, c)[Len(s) + 1] = c
         /\ \A i \in 1..Len(s) : Append(s, c)[i] = s[i]
         /\ s # <<>> => /\ Len(s) >= 1 /\ Head(s) = s[1]
                        /\ Len(Tail(s)) = Len(s) - 1
                        /\ \A i \in 1..Len(Tail(s)) : Tail(s)[i] = s[i + 1]
OBVIOUS

\* The manager shuts the worker down as its last control.
LEMMA ManagerKeepsJoin == IInv /\ JoinEnds /\ Manager => JoinEnds'
<1> SUFFICES ASSUME IInv, JoinEnds, Manager PROVE JoinEnds'
  OBVIOUS
<1> USE DEF JoinEnds, ShutdownIsLast, WorkerServes
<1>0. controls \in Seq(Controls)
  BY DEF IInv, TypeOK, Controls
<1>1. ASSUME pc \notin {"join", "exited"}, pc' \notin {"join", "exited"}, at' = at,
             \/ controls' = controls
             \/ \E c \in Controls \ {"Shutdown"} : controls' = Append(controls, c)
      PROVE  JoinEnds'
  <2>1. \A i \in 1..Len(controls) : controls[i] # "Shutdown"
    BY <1>1
  <2>2. \A i \in 1..Len(controls') : controls'[i] # "Shutdown"
    BY <1>0, <1>1, <2>1, ControlFacts
  <2> QED BY <1>1, <2>2
<1>2. CASE Disable \/ Enable \/ Restart \/ HandleShutdown
  BY <1>1, <1>2 DEF Disable, Enable, Restart, HandleShutdown, Take, StartMirror, workerVars, Controls
<1>3. CASE TargetsChange
  BY <1>1, <1>3 DEF TargetsChange, StartMirror, workerVars, Controls
<1>4. CASE ApplyEvent \/ EventsDone \/ FanOut
  BY <1>1, <1>4 DEF ApplyEvent, EventsDone, FanOut, workerVars
<1>5. CASE Settle
  BY <1>1, <1>5 DEF Settle, StopCaptureIfIdle, workerVars, Controls
<1>6. CASE ShutdownMirror
  <2>1. /\ pc = "shutdown" /\ pc' = "join" /\ at' = at
        /\ controls' = Append(controls, "Shutdown") /\ "Shutdown" \in Controls
    BY <1>6 DEF ShutdownMirror, workerVars, Controls
  <2>2. \A i \in 1..Len(controls) : controls[i] # "Shutdown"
    BY <2>1
  <2>3. at # "exited"
    BY <2>1
  <2>4. Len(controls') \in 1..Len(controls') /\ controls'[Len(controls')] = "Shutdown"
    BY <1>0, <2>1, ControlFacts
  <2>5. \A i \in 1..Len(controls') : controls'[i] = "Shutdown" => i = Len(controls')
    BY <1>0, <2>1, <2>2, ControlFacts
  <2> QED BY <2>1, <2>3, <2>4, <2>5
<1>7. CASE ShutdownDone
  BY <1>7 DEF ShutdownDone, workerVars
<1> QED BY <1>2, <1>3, <1>4, <1>5, <1>6, <1>7 DEF Manager

\* The worker takes its controls in order, and ends by Shutdown only.
LEMMA WorkerKeepsJoin == IInv /\ JoinEnds /\ Worker => JoinEnds'
<1> SUFFICES ASSUME IInv, JoinEnds, Worker PROVE JoinEnds'
  OBVIOUS
<1> USE DEF JoinEnds, ShutdownIsLast, WorkerServes
<1>0. controls \in Seq(Controls)
  BY DEF IInv, TypeOK, Controls
<1>1. ASSUME NEW c, Control(c)
      PROVE  /\ controls # <<>> /\ controls' = Tail(controls) /\ Head(controls) = c
             /\ pc' = pc /\ at # "exited"
  BY <1>1 DEF Control, managerVars
<1>2. ASSUME NEW c, Control(c), c # "Shutdown", at' = "drain"
      PROVE  JoinEnds'
  <2>1. /\ controls # <<>> /\ controls' = Tail(controls) /\ Head(controls) # "Shutdown"
        /\ pc' = pc /\ at # "exited"
    BY <1>1, <1>2
  <2>2. ShutdownIsLast'
    BY <1>0, <1>2, <2>1, ControlFacts DEF Controls
  <2>3. ASSUME pc = "join"
        PROVE  \E i \in 1..Len(controls') : controls'[i] = "Shutdown"
    <3>1. PICK i \in 1..Len(controls) : controls[i] = "Shutdown"
      BY <2>1, <2>3
    <3>2. i # 1 /\ i \in Nat
      BY <1>0, <2>1, <3>1, ControlFacts DEF Controls
    <3>3. i - 1 \in 1..Len(controls') /\ controls'[i - 1] = "Shutdown"
      BY <1>0, <2>1, <3>1, <3>2, ControlFacts DEF Controls
    <3> QED BY <3>3
  <2> QED BY <1>2, <2>1, <2>2, <2>3
<1>3. CASE StartSucceeds \/ StartFails \/ StopSink \/ StopIdle
  BY <1>2, <1>3 DEF StartSucceeds, StartFails, StopSink, StopIdle
<1>4. CASE WorkerShutdown
  <2>1. /\ controls # <<>> /\ controls' = Tail(controls) /\ Head(controls) = "Shutdown"
        /\ pc' = pc /\ at' = "exited"
    BY <1>1, <1>4 DEF WorkerShutdown
  <2>2. 1 \in 1..Len(controls) /\ controls[1] = "Shutdown"
    BY <1>0, <2>1, ControlFacts DEF Controls
  <2>3. pc = "join" /\ Len(controls) = 1
    BY <2>2
  <2>4. Len(controls') = 0
    BY <1>0, <2>1, <2>3, ControlFacts DEF Controls
  <2>5. ShutdownIsLast'
    BY <2>4
  <2>6. WorkerServes'
    BY <2>1, <2>3
  <2> QED BY <2>5, <2>6
<1>5. CASE Drained \/ PlayFrame \/ PlayFails
  BY <1>5 DEF Drained, PlayFrame, PlayFails, managerVars
<1> QED BY <1>3, <1>4, <1>5 DEF Worker

\* Every step keeps the end of the join in sight.
LEMMA StepJoin == IInv /\ JoinEnds /\ [Next]_vars => JoinEnds'
<1> SUFFICES ASSUME IInv, JoinEnds, [Next]_vars PROVE JoinEnds'
  OBVIOUS
<1>1. CASE Start
  BY <1>1 DEF Start, JoinEnds, ShutdownIsLast, WorkerServes
<1>2. CASE Toggle \/ TogglePublish \/ Retarget \/ Stop \/ Joined \/ UNCHANGED vars
  BY <1>2 DEF Toggle, TogglePublish, Retarget, Stop, Joined, vars, managerVars, workerVars,
              JoinEnds, ShutdownIsLast, WorkerServes
<1> QED BY <1>1, <1>2, ManagerKeepsJoin, WorkerKeepsJoin DEF Next

\* The manager that waits in join() waits for a worker that has ended or has its
\* Shutdown still to read; no worker ends under a manager that goes on.
THEOREM JoinAlwaysEnds == Spec => []JoinEnds
<1>1. Init => JoinEnds
  BY DEF Init, JoinEnds, ShutdownIsLast, WorkerServes
<1> QED BY <1>1, InvariantHolds, StepJoin, PTL DEF Spec
=============================================================================
