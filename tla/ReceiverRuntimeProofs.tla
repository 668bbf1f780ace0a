------------------------ MODULE ReceiverRuntimeProofs ------------------------
(***************************************************************************)
(* Proofs about ReceiverRuntime, for every latency profile and every bound *)
(* of the model.                                                           *)
(***************************************************************************)
EXTENDS ReceiverRuntime, TLAPS

\* The buffered schedule errors, and the clock they are measured by, agree with the
\* connection, the sink and the states shown.
IInv == /\ TypeOK
        /\ SessionHasSink
        /\ BufferedIsScheduled
        /\ BufferInCaptureOrder
        /\ SyncBelongsToState

\* What the handlers must keep besides the types.
Agreement == SessionHasSink /\ BufferedIsScheduled /\ BufferInCaptureOrder /\ SyncBelongsToState

\* The clamp stays in the range of schedule errors and keeps their order.
LEMMA BoundedProperties ==
  ASSUME NEW d \in Int, NEW e \in Int, d >= e
  PROVE  /\ Bounded(e) \in Errors
         /\ Bounded(d) >= Bounded(e)
         /\ d \in Errors => d >= Bounded(e)
BY BoundsAssumption, ProfileAssumption DEF Bounded, Errors

\* Dropping the oldest packet keeps the order of the others and the newest one.
LEMMA TailKeepsOrder ==
  ASSUME NEW b \in Seq(Errors), b # <<>>,
         \A i, j \in 1..Len(b) : i < j => b[i] >= b[j]
  PROVE  /\ Tail(b) \in Seq(Errors)
         /\ Len(Tail(b)) = Len(b) - 1
         /\ \A i, j \in 1..Len(Tail(b)) : i < j => Tail(b)[i] >= Tail(b)[j]
         /\ Tail(b) # <<>> => Tail(b)[Len(Tail(b))] = b[Len(b)]
         /\ Head(b) \in Errors
<1>1. Tail(b) \in Seq(Errors) /\ Len(Tail(b)) = Len(b) - 1 /\ Len(b) \in Nat /\ Len(b) > 0
  OBVIOUS
<1>2. \A i \in 1..Len(Tail(b)) : Tail(b)[i] = b[i + 1] /\ i + 1 \in 1..Len(b)
  BY <1>1
<1>3. \A i, j \in 1..Len(Tail(b)) : i < j => Tail(b)[i] >= Tail(b)[j]
  BY <1>1, <1>2
<1>4. Tail(b) # <<>> => Tail(b)[Len(Tail(b))] = b[Len(b)]
  <2> SUFFICES ASSUME Tail(b) # <<>> PROVE Tail(b)[Len(Tail(b))] = b[Len(b)]
    OBVIOUS
  <2>1. Len(Tail(b)) \in 1..Len(Tail(b))
    BY <1>1
  <2> QED BY <2>1, <1>1, <1>2
<1> QED BY <1>1, <1>3, <1>4

\* Appending an error that is not larger than the last keeps the order.
LEMMA AppendKeepsOrder ==
  ASSUME NEW b \in Seq(Errors), NEW e \in Errors,
         \A i, j \in 1..Len(b) : i < j => b[i] >= b[j],
         b # <<>> => b[Len(b)] >= e
  PROVE  /\ Append(b, e) \in Seq(Errors)
         /\ Len(Append(b, e)) = Len(b) + 1
         /\ \A i, j \in 1..Len(Append(b, e)) : i < j => Append(b, e)[i] >= Append(b, e)[j]
         /\ Append(b, e)[Len(Append(b, e))] = e
<1> DEFINE q == Append(b, e)
<1>1. q \in Seq(Errors) /\ Len(q) = Len(b) + 1 /\ Len(b) \in Nat
  OBVIOUS
<1>2. (\A i \in 1..Len(b) : q[i] = b[i] /\ b[i] \in Int) /\ q[Len(b) + 1] = e /\ e \in Int
  BY BoundsAssumption DEF Errors
<1>3. \A i \in 1..Len(b) : b[i] >= e
  <2> SUFFICES ASSUME NEW i \in 1..Len(b) PROVE b[i] >= e
    OBVIOUS
  <2>1. b # <<>> /\ Len(b) \in 1..Len(b)
    BY <1>1
  <2>2. b[i] >= b[Len(b)]
    BY <2>1, <1>1, <1>2
  <2> QED BY <2>1, <2>2, <1>2
<1> QED BY <1>1, <1>2, <1>3

\* A packet that is pushed follows those of its sync window.
LEMMA PushedProperties ==
  ASSUME IInv, NEW e \in Errors, buffer # <<>> => clock # None /\ clock >= e
  PROVE  /\ Pushed(e) \in Seq(Errors) /\ Len(Pushed(e)) <= MaxPackets
         /\ Pushed(e) # <<>> /\ Head(Pushed(e)) \in Errors
         /\ \A i, j \in 1..Len(Pushed(e)) : i < j => Pushed(e)[i] >= Pushed(e)[j]
         /\ Pushed(e)[Len(Pushed(e))] = e
<1> USE ProfileAssumption DEF IInv, TypeOK, BufferInCaptureOrder
<1> DEFINE b == IF Len(buffer) = MaxPackets THEN Tail(buffer) ELSE buffer
<1>1. /\ b \in Seq(Errors) /\ Len(b) < MaxPackets
      /\ \A i, j \in 1..Len(b) : i < j => b[i] >= b[j]
      /\ b # <<>> => b[Len(b)] >= e
  <2>1. CASE Len(buffer) = MaxPackets
    <3>1. buffer # <<>>
      BY <2>1
    <3> QED BY <2>1, <3>1, TailKeepsOrder
  <2>2. CASE Len(buffer) # MaxPackets
    BY <2>2
  <2> QED BY <2>1, <2>2
<1>2. Pushed(e) = Append(b, e)
  BY DEF Pushed
<1> HIDE DEF b
<1>3. Len(b) \in Nat /\ Append(b, e) # <<>> /\ Head(Append(b, e)) \in Errors
  <2>1. Append(b, e) \in Seq(Errors) /\ Len(Append(b, e)) = Len(b) + 1 /\ Len(b) \in Nat
    BY <1>1
  <2>2. Append(b, e) # <<>>
    BY <2>1
  <2> QED BY <2>1, <2>2
<1> QED BY <1>1, <1>2, <1>3, AppendKeepsOrder

-----------------------------------------------------------------------------
\* An empty buffer and a clock that is not set have their types.
LEMMA EmptyTyped ==
  /\ <<>> \in Seq(Errors) /\ <<>> \in Seq(Events) /\ Len(<<>>) = 0 /\ 0 <= MaxPackets
  /\ None \in Errors \cup {None} /\ None \in (0..Grace) \cup {None}
<1>1. <<>> \in Seq(Errors) /\ <<>> \in Seq(Events) /\ Len(<<>>) = 0
  OBVIOUS
<1> QED BY <1>1, ProfileAssumption

\* The invariant holds before the first start.
LEMMA InitIInv == Init => IInv
<1> SUFFICES ASSUME Init PROVE IInv
  OBVIOUS
<1> USE ProfileAssumption, BoundsAssumption, NoneAssumption
<1>1. TypeOK
  BY EmptyTyped DEF Init, TypeOK, States, SyncStates
<1>2. Agreement
  BY DEF Init, Agreement, SessionHasSink, BufferedIsScheduled, BufferInCaptureOrder,
         SyncBelongsToState, Session
<1> QED BY <1>1, <1>2 DEF IInv, Agreement

\* A reset worker, idle, listening or in error, agrees with itself.
LEMMA ResetKeeps ==
  ASSUME IInv, NEW s \in {"Idle", "Listening", "Error"}, NEW y \in {"Idle", "Recovering"},
         Reset(s, y),
         running' \in {"off", "on", "stopping"}, channel' \in Seq(Events),
         pc' \in {"wait", "drain", "timeout", "exited"}
  PROVE  IInv'
<1> USE ProfileAssumption, NoneAssumption DEF Reset
<1>1. TypeOK'
  BY EmptyTyped DEF TypeOK, States, SyncStates
<1>2. Agreement'
  BY DEF Agreement, SessionHasSink, BufferedIsScheduled, BufferInCaptureOrder,
         SyncBelongsToState, Session
<1> QED BY <1>1, <1>2 DEF IInv, Agreement

\* What taking a command leaves: a typed channel.
LEMMA TakeFacts ==
  ASSUME IInv, NEW k, Take(k)
  PROVE  /\ channel' \in Seq(Events) /\ Head(channel) \in Events
         /\ Head(channel).kind = k /\ pc = "wait"
         /\ running' \in {"off", "on", "stopping"} /\ running' = running
BY DEF IInv, TypeOK, Take

-----------------------------------------------------------------------------
\* The calls and the commands keep the invariant.
LEMMA CallsKeep == IInv /\ (Start \/ Submit \/ Stop \/ Joined) => IInv'
<1> SUFFICES ASSUME IInv PROVE Start \/ Submit \/ Stop \/ Joined => IInv'
  OBVIOUS
<1>1. CASE Start
  <2> USE <1>1, ProfileAssumption, NoneAssumption DEF Start
  <2>1. TypeOK'
    BY EmptyTyped DEF IInv, TypeOK, States, SyncStates
  <2>2. Agreement'
    BY DEF Agreement, SessionHasSink, BufferedIsScheduled, BufferInCaptureOrder,
           SyncBelongsToState, Session
  <2> QED BY <2>1, <2>2 DEF IInv, Agreement
<1>2. ASSUME UNCHANGED workerVars, running' \in {"off", "on", "stopping"},
             channel' \in Seq(Events)
      PROVE  IInv'
  BY <1>2 DEF workerVars, IInv, TypeOK, SessionHasSink, BufferedIsScheduled,
         BufferInCaptureOrder, SyncBelongsToState
<1>3. CASE Submit
  BY <1>2, <1>3 DEF Submit, Post, IInv, TypeOK
<1>4. CASE Stop
  <2>1. [kind |-> "shutdown", gap |-> 0] \in Events
    BY DEF Events
  <2> QED BY <1>2, <1>4, <2>1 DEF Stop, Post, IInv, TypeOK
<1>5. CASE Joined
  BY <1>2, <1>5 DEF Joined, IInv, TypeOK
<1> QED BY <1>1, <1>3, <1>4, <1>5

\* A packet joins the sync window of its connection, or opens one.
LEMMA BufferPacketKeeps == IInv /\ BufferPacket => IInv'
<1> SUFFICES ASSUME IInv, BufferPacket PROVE IInv'
  OBVIOUS
<1> USE ProfileAssumption, BoundsAssumption, NoneAssumption
<1> DEFINE error == IF clock = None THEN -TargetBuffer ELSE Bounded(clock - Head(channel).gap)
           queued == Pushed(error)
<1>1. Take("audio") /\ Head(channel).gap \in 1..MaxGap
  <2>1. Take("audio")
    BY DEF BufferPacket
  <2> QED BY <2>1, TakeFacts DEF Events
<1>2. error \in Errors /\ (buffer # <<>> => clock # None /\ clock >= error)
  <2>1. CASE clock = None
    BY <2>1 DEF IInv, BufferedIsScheduled, Errors
  <2>2. CASE clock # None
    <3>1. clock \in Errors /\ clock \in Int
      BY <2>2 DEF IInv, TypeOK, Errors
    <3>2. clock - Head(channel).gap \in Int /\ clock >= clock - Head(channel).gap
      BY <1>1, <3>1
    <3>3. Bounded(clock - Head(channel).gap) \in Errors
          /\ clock >= Bounded(clock - Head(channel).gap)
      BY <3>1, <3>2, BoundedProperties
    <3> QED BY <2>2, <3>3
  <2> QED BY <2>1, <2>2
<1> HIDE DEF error
<1>3. /\ queued \in Seq(Errors) /\ Len(queued) <= MaxPackets
      /\ queued # <<>> /\ Head(queued) \in Errors
      /\ \A i, j \in 1..Len(queued) : i < j => queued[i] >= queued[j]
      /\ queued[Len(queued)] = error
  BY <1>2, PushedProperties
<1> HIDE DEF queued
<1>4. /\ connection /\ connection' = connection /\ sink' = sink /\ pc' = pc
      /\ clock' = error /\ buffer' = queued /\ silence' = 0
  BY DEF BufferPacket, error, queued
<1>5. \/ /\ state' = IF state = "Playing" THEN "Playing" ELSE "Buffering"
         /\ deadline' = IF deadline = None THEN Head(queued) ELSE deadline
         /\ sync' = IF sync \in {"Idle", "Priming", "Recovering"} THEN "Priming" ELSE sync
      \/ /\ state' = IF state = "Connected" THEN "Buffering" ELSE state
         /\ sync' = IF state \in {"Connected", "Buffering"} /\ sync # "Recovering"
                         THEN "Priming" ELSE sync
         /\ deadline' = deadline
  BY DEF BufferPacket, error, queued
<1>6. error # None
  BY <1>2 DEF Errors
<1>7. TypeOK'
  <2>1. running' \in {"off", "on", "stopping"} /\ channel' \in Seq(Events)
    BY <1>1, TakeFacts
  <2>2. state' \in States /\ sync' \in SyncStates
    BY <1>5 DEF IInv, TypeOK, States, SyncStates
  <2>3. deadline' \in Errors \cup {None}
    BY <1>5, <1>3 DEF IInv, TypeOK
  <2> QED BY <2>1, <2>2, <2>3, <1>2, <1>3, <1>4 DEF IInv, TypeOK
<1>8. SessionHasSink'
  BY <1>4, <1>5 DEF IInv, SessionHasSink, Session
<1>9. BufferedIsScheduled'
  BY <1>4, <1>6 DEF BufferedIsScheduled
<1>10. BufferInCaptureOrder'
  BY <1>3, <1>4 DEF BufferInCaptureOrder
<1>11. SyncBelongsToState'
  BY <1>4, <1>5 DEF IInv, SyncBelongsToState
<1> QED BY <1>7, <1>8, <1>9, <1>10, <1>11 DEF IInv

\* Every command of the worker keeps the invariant.
LEMMA CommandsKeep == IInv /\ Commands => IInv'
<1> SUFFICES ASSUME IInv, Commands PROVE IInv'
  OBVIOUS
<1> USE ProfileAssumption, NoneAssumption
<1>1. CASE HandleConnect
  <2>1. Take("connected") /\ pc' = "wait"
    BY <1>1, TakeFacts DEF HandleConnect
  <2>2. CASE SetError
    BY <2>1, <2>2, TakeFacts, ResetKeeps DEF SetError
  <2>3. CASE /\ state' = "Connected" /\ sync' = "Priming" /\ connection' = TRUE /\ sink' = TRUE
             /\ buffer' = <<>> /\ clock' = None /\ deadline' = None /\ silence' = 0
    <3>1. TypeOK'
      BY <2>1, <2>3, TakeFacts DEF TypeOK, States, SyncStates
    <3>2. Agreement'
      BY <2>3 DEF Agreement, SessionHasSink, BufferedIsScheduled, BufferInCaptureOrder,
                  SyncBelongsToState, Session
    <3> QED BY <3>1, <3>2 DEF IInv, Agreement
  <2> QED BY <1>1, <2>2, <2>3 DEF HandleConnect
<1>2. CASE HandleKeepAlive
  <2>1. TypeOK'
    <3>1. Take("keepalive")
      BY <1>2 DEF HandleKeepAlive
    <3> QED BY <1>2, <3>1, TakeFacts DEF HandleKeepAlive, IInv, TypeOK
  <2>2. Agreement'
    BY <1>2 DEF HandleKeepAlive, IInv, Agreement, SessionHasSink, BufferedIsScheduled,
                BufferInCaptureOrder, SyncBelongsToState
  <2> QED BY <2>1, <2>2 DEF IInv, Agreement
<1>3. CASE HandleDisconnected
  BY <1>3, TakeFacts, ResetKeeps DEF HandleDisconnected, Disconnect
<1>4. CASE HandleError
  BY <1>4, TakeFacts, ResetKeeps DEF HandleError, SetError
<1>5. CASE HandleTarget
  <2>1. Take("target")
    BY <1>5 DEF HandleTarget
  <2>2. TypeOK'
    BY <1>5, <2>1, TakeFacts DEF HandleTarget, IInv, TypeOK, States
  <2>3. SessionHasSink'
    BY <1>5 DEF HandleTarget, IInv, SessionHasSink, Session
  <2>4. BufferedIsScheduled' /\ BufferInCaptureOrder'
    BY <1>5 DEF HandleTarget, IInv, BufferedIsScheduled, BufferInCaptureOrder
  <2>5. SyncBelongsToState'
    BY <1>5 DEF HandleTarget, IInv, SyncBelongsToState
  <2> QED BY <2>2, <2>3, <2>4, <2>5 DEF IInv
<1>6. CASE DropPacket
  <2>1. channel' \in Seq(Events) /\ running' = running
    BY <1>6, TakeFacts DEF DropPacket
  <2> QED BY <1>6, <2>1 DEF DropPacket, workerVars, IInv, TypeOK, SessionHasSink,
             BufferedIsScheduled, BufferInCaptureOrder, SyncBelongsToState
<1>7. CASE RefusePacket
  BY <1>7, TakeFacts, ResetKeeps DEF RefusePacket, SetError
<1>8. CASE BufferPacket
  BY <1>8, BufferPacketKeeps
<1>9. CASE HandleShutdown
  BY <1>9, TakeFacts, ResetKeeps DEF HandleShutdown
<1> QED BY <1>1, <1>2, <1>3, <1>4, <1>5, <1>6, <1>7, <1>8, <1>9 DEF Commands

-----------------------------------------------------------------------------
\* A tick keeps the invariant: what it does to the buffer it does to the clock.
LEMMA TickKeeps == IInv /\ (BeginTick \/ EndTick) => IInv'
<1> SUFFICES ASSUME IInv, BeginTick \/ EndTick PROVE IInv'
  OBVIOUS
<1>1. CASE BeginTick
  <2>1. TypeOK'
    BY <1>1 DEF BeginTick, IInv, TypeOK, States, SyncStates
  <2>2. SessionHasSink'
    BY <1>1 DEF BeginTick, IInv, SessionHasSink, Session
  <2>3. BufferedIsScheduled' /\ BufferInCaptureOrder'
    BY <1>1 DEF BeginTick, IInv, BufferedIsScheduled, BufferInCaptureOrder
  <2>4. SyncBelongsToState'
    BY <1>1 DEF BeginTick, IInv, SyncBelongsToState
  <2> QED BY <2>1, <2>2, <2>3, <2>4 DEF IInv
<1>2. CASE EndTick
  <2>1. CASE connection /\ silence = Grace
    BY <1>2, <2>1, ResetKeeps DEF EndTick, Disconnect, IInv, TypeOK
  <2>2. CASE ~(connection /\ silence = Grace)
    BY <1>2, <2>2 DEF EndTick, IInv, TypeOK, SessionHasSink, BufferedIsScheduled,
                      BufferInCaptureOrder, SyncBelongsToState
  <2> QED BY <2>1, <2>2
<1> QED BY <1>1, <1>2

\* Every pass of the drain loop keeps the invariant: it runs on a connection.
LEMMA DrainKeeps == IInv /\ DrainLoop => IInv'
<1> SUFFICES ASSUME IInv, DrainLoop PROVE IInv'
  OBVIOUS
<1> USE ProfileAssumption, NoneAssumption
<1>1. CASE Underrun
  <2>1. TypeOK'
    BY <1>1 DEF Underrun, Drain, IInv, TypeOK, States, SyncStates
  <2>2. SessionHasSink' /\ SyncBelongsToState'
    BY <1>1 DEF Underrun, IInv, SessionHasSink, Session, SyncBelongsToState
  <2>3. BufferedIsScheduled' /\ BufferInCaptureOrder'
    BY <1>1 DEF Underrun, IInv, BufferedIsScheduled, BufferInCaptureOrder
  <2> QED BY <2>1, <2>2, <2>3 DEF IInv
<1>2. ASSUME buffer # <<>>
      PROVE  /\ connection /\ clock # None /\ Head(buffer) \in Errors
             /\ Tail(buffer) \in Seq(Errors) /\ Len(Tail(buffer)) <= MaxPackets
             /\ \A i, j \in 1..Len(Tail(buffer)) : i < j => Tail(buffer)[i] >= Tail(buffer)[j]
             /\ Tail(buffer) # <<>> => Tail(buffer)[Len(Tail(buffer))] = clock
  <2>1. connection /\ clock # None
    BY <1>2 DEF IInv, BufferedIsScheduled
  <2>2. buffer \in Seq(Errors) /\ Len(buffer) <= MaxPackets /\ Len(buffer) \in Nat
    BY DEF IInv, TypeOK
  <2>3. (\A i, j \in 1..Len(buffer) : i < j => buffer[i] >= buffer[j])
        /\ buffer[Len(buffer)] = clock
    BY <1>2 DEF IInv, BufferInCaptureOrder
  <2> QED BY <1>2, <2>1, <2>2, <2>3, TailKeepsOrder
<1>3. CASE DropLate
  <2>0. buffer # <<>>
    BY <1>3 DEF DropLate
  <2>1. TypeOK'
    BY <1>3, <1>2, <2>0 DEF DropLate, Drain, IInv, TypeOK, SyncStates
  <2>2. SessionHasSink' /\ SyncBelongsToState'
    BY <1>3, <1>2, <2>0 DEF DropLate, IInv, SessionHasSink, SyncBelongsToState
  <2>3. BufferedIsScheduled'
    BY <1>3, <1>2, <2>0 DEF DropLate, BufferedIsScheduled
  <2>4. BufferInCaptureOrder'
    BY <1>3, <1>2, <2>0 DEF DropLate, BufferInCaptureOrder
  <2> QED BY <2>1, <2>2, <2>3, <2>4 DEF IInv
<1>4. CASE NotDue
  <2>0. buffer # <<>>
    BY <1>4 DEF NotDue
  <2>1. TypeOK'
    BY <1>4, <1>2, <2>0 DEF NotDue, Drain, IInv, TypeOK, States
  <2>2. SessionHasSink' /\ SyncBelongsToState'
    BY <1>4, <1>2, <2>0 DEF NotDue, IInv, SessionHasSink, Session, SyncBelongsToState
  <2>3. BufferedIsScheduled' /\ BufferInCaptureOrder'
    BY <1>4, <1>2, <2>0 DEF NotDue, IInv, BufferedIsScheduled, BufferInCaptureOrder
  <2> QED BY <2>1, <2>2, <2>3 DEF IInv
<1>5. CASE Play
  <2>0. buffer # <<>>
    BY <1>5 DEF Play
  <2>1. CASE SetError /\ pc' = "timeout"
    BY <1>5, <2>1, ResetKeeps DEF Play, Drain, SetError, IInv, TypeOK
  <2>2. CASE /\ sink
             /\ buffer' = Tail(buffer)
             /\ state' = "Playing"
             /\ sync' = IF Head(buffer) > Tolerance THEN "Late" ELSE "Locked"
             /\ deadline' = None
             /\ UNCHANGED <<pc, connection, sink, clock, silence>>
    <3>1. TypeOK'
      BY <1>5, <2>2, <1>2, <2>0 DEF Play, Drain, IInv, TypeOK, States, SyncStates
    <3>2. SessionHasSink' /\ SyncBelongsToState'
      BY <2>2, <1>2, <2>0 DEF IInv, SessionHasSink, Session, SyncBelongsToState
    <3>3. BufferedIsScheduled'
      BY <2>2, <1>2, <2>0 DEF BufferedIsScheduled
    <3>4. BufferInCaptureOrder'
      BY <2>2, <1>2, <2>0 DEF BufferInCaptureOrder
    <3> QED BY <3>1, <3>2, <3>3, <3>4 DEF IInv
  <2> QED BY <1>5, <2>1, <2>2 DEF Play
<1> QED BY <1>1, <1>3, <1>4, <1>5 DEF DrainLoop

\* Time moves all schedule errors alike.
LEMMA ElapseKeeps == IInv /\ Elapse => IInv'
<1> SUFFICES ASSUME IInv, Elapse PROVE IInv'
  OBVIOUS
<1> USE ProfileAssumption, BoundsAssumption, NoneAssumption
<1>1. /\ \A e \in Errors : Later(e) \in Errors /\ Later(e) # None /\ e \in Int
      /\ \A d, e \in Errors : d >= e => Later(d) >= Later(e)
      /\ Later(None) = None
  <2>1. \A e \in Errors : e \in Int /\ e # None /\ Later(e) = Bounded(e + 1)
    BY DEF Errors, Later
  <2>2. \A d, e \in Errors : d >= e => Bounded(d + 1) >= Bounded(e + 1)
                                      /\ Bounded(e + 1) \in Errors
    <3> SUFFICES ASSUME NEW d \in Errors, NEW e \in Errors, d >= e
                 PROVE  Bounded(d + 1) >= Bounded(e + 1) /\ Bounded(e + 1) \in Errors
      OBVIOUS
    <3>1. d + 1 \in Int /\ e + 1 \in Int /\ d + 1 >= e + 1
      BY <2>1
    <3> QED BY <3>1, BoundedProperties
  <2>3. \A e \in Errors : Bounded(e + 1) \in Errors
    BY <2>1, <2>2
  <2> QED BY <2>1, <2>2, <2>3 DEF Later, Errors
<1>2. /\ buffer \in Seq(Errors) /\ Len(buffer) \in Nat /\ DOMAIN buffer = 1..Len(buffer)
      /\ \A i \in 1..Len(buffer) : buffer[i] \in Errors
  BY DEF IInv, TypeOK
<1>3. buffer' = [i \in 1..Len(buffer) |-> Later(buffer[i])]
  BY <1>2 DEF Elapse
<1>4. buffer' \in Seq(Errors) /\ Len(buffer') = Len(buffer)
      /\ \A i \in 1..Len(buffer) : buffer'[i] = Later(buffer[i])
  BY <1>1, <1>2, <1>3
<1>5. TypeOK'
  <2>1. clock' \in Errors \cup {None} /\ deadline' \in Errors \cup {None}
    BY <1>1 DEF Elapse, IInv, TypeOK
  <2>2. silence' \in (0..Grace) \cup {None}
    BY DEF Elapse, IInv, TypeOK
  <2>3. Len(buffer') <= MaxPackets
    BY <1>4 DEF IInv, TypeOK
  <2> QED BY <2>1, <2>2, <2>3, <1>4 DEF Elapse, IInv, TypeOK
<1>6. SessionHasSink' /\ SyncBelongsToState'
  BY DEF Elapse, IInv, SessionHasSink, SyncBelongsToState
<1>7. BufferedIsScheduled'
  <2>1. buffer' # <<>> => buffer # <<>>
    BY <1>2, <1>4
  <2>2. clock' = None <=> clock = None
    BY <1>1 DEF Elapse, IInv, TypeOK
  <2>3. deadline' = None <=> deadline = None
    BY <1>1 DEF Elapse, IInv, TypeOK
  <2> QED BY <2>1, <2>2, <2>3 DEF Elapse, IInv, BufferedIsScheduled
<1>8. BufferInCaptureOrder'
  <2>1. \A i, j \in 1..Len(buffer') : i < j => buffer'[i] >= buffer'[j]
    BY <1>1, <1>2, <1>4 DEF IInv, BufferInCaptureOrder
  <2>2. ASSUME buffer' # <<>> PROVE buffer'[Len(buffer')] = clock'
    <3>1. buffer # <<>> /\ Len(buffer) \in 1..Len(buffer)
      BY <2>2, <1>2, <1>4
    <3>2. buffer[Len(buffer)] = clock
      BY <3>1 DEF IInv, BufferInCaptureOrder
    <3> QED BY <3>1, <3>2, <1>4 DEF Elapse
  <2> QED BY <2>1, <2>2 DEF BufferInCaptureOrder
<1> QED BY <1>5, <1>6, <1>7, <1>8 DEF IInv

\* Every step keeps the invariant.
LEMMA StepIInv == IInv /\ [Next]_vars => IInv'
<1> SUFFICES ASSUME IInv, [Next]_vars PROVE IInv'
  OBVIOUS
<1>1. CASE Start \/ Submit \/ Stop \/ Joined
  BY <1>1, CallsKeep
<1>2. CASE Worker
  BY <1>2, CommandsKeep, TickKeeps, DrainKeeps DEF Worker
<1>3. CASE Elapse
  BY <1>3, ElapseKeeps
<1>4. CASE UNCHANGED vars
  BY <1>4 DEF vars, workerVars, IInv, TypeOK, SessionHasSink, BufferedIsScheduled,
              BufferInCaptureOrder, SyncBelongsToState
<1> QED BY <1>1, <1>2, <1>3, <1>4 DEF Next

-----------------------------------------------------------------------------
\* The invariant holds in every state of a receiver, whatever its profile.
THEOREM InvariantHolds == Spec => []IInv
<1> QED BY InitIInv, StepIInv, PTL DEF Spec

\* The buffer never holds more than max_packets, and every variable has its type.
THEOREM TypeCorrect == Spec => []TypeOK
<1>1. IInv => TypeOK
  BY DEF IInv
<1> QED BY <1>1, InvariantHolds, PTL

\* A receiver that shows a session has a connection and an open sink, and no sink
\* is left open without one (service.rs 316-351, 604-652).
THEOREM SinkMatchesSession == Spec => []SessionHasSink
<1>1. IInv => SessionHasSink
  BY DEF IInv
<1> QED BY <1>1, InvariantHolds, PTL

\* Every buffered packet has a write deadline, and no media clock outlives its
\* connection (service.rs 568, 581-590).
THEOREM BufferScheduled == Spec => []BufferedIsScheduled
<1>1. IInv => BufferedIsScheduled
  BY DEF IInv
<1> QED BY <1>1, InvariantHolds, PTL

\* The buffer is ordered by capture time and ends with the latest packet received,
\* through overruns, late drops, underruns and new sessions.
THEOREM BufferOrdered == Spec => []BufferInCaptureOrder
<1>1. IInv => BufferInCaptureOrder
  BY DEF IInv
<1> QED BY <1>1, InvariantHolds, PTL

\* The sync state shown belongs to the session shown.
THEOREM SyncMatchesState == Spec => []SyncBelongsToState
<1>1. IInv => SyncBelongsToState
  BY DEF IInv
<1> QED BY <1>1, InvariantHolds, PTL

\* Connection, sink, state and sync state always speak of one session, for every
\* latency profile.
THEOREM SessionAgrees == Spec => []SessionConsistent
<1>1. SessionHasSink /\ SyncBelongsToState => SessionConsistent
  BY DEF SessionConsistent
<1> QED BY <1>1, SinkMatchesSession, SyncMatchesState, PTL

\* Buffer, media clock and deadline are one timeline, for every latency profile.
THEOREM TimelineAgrees == Spec => []TimelineConsistent
<1>1. BufferedIsScheduled /\ BufferInCaptureOrder => TimelineConsistent
  BY DEF TimelineConsistent
<1> QED BY <1>1, BufferScheduled, BufferOrdered, PTL
-----------------------------------------------------------------------------
(* Why the wait of stop() has an end, and why a silent sender is measured.  *)

\* The channel of a stopping runtime ends with its Shutdown, and no other holds one:
\* stop() gives up the sender of the channel after that message (stop 142-147).
StopIsLast ==
  \A i \in 1..Len(channel) :
     channel[i].kind = "shutdown" =>
        running = "stopping" /\ pc # "exited" /\ i = Len(channel)

\* A running worker does not end; the worker of a stopping runtime has ended or has
\* yet to read its Shutdown, whatever ticks and commands come before; and a worker
\* that has ended holds no playback process.
StopIsHeard ==
  /\ running = "on" => pc # "exited"
  /\ running = "stopping" =>
       pc = "exited" \/ \E i \in 1..Len(channel) : channel[i].kind = "shutdown"
  /\ running = "off" => pc = "exited"
  /\ pc = "exited" => ~sink

\* The silence of a sender is counted as long as its connection lasts, through every
\* underrun, late drop and change of target: no reset leaves a session that
\* check_transport_timeout (592-602) would never give up.
SilenceIsCounted == connection => silence # None

WaitsEnd == StopIsLast /\ StopIsHeard /\ SilenceIsCounted

\* What a call adds to the channel and the worker takes from it.
LEMMA ChannelFacts ==
  ASSUME NEW s \in Seq(Events), NEW e \in Events
  PROVE  /\ Append(s, e) \in Seq(Events) /\ Len(s) \in Nat
         /\ Len(Append(s, e)) = Len(s) + 1
         /\ Append(s, e)[Len(s) + 1] = e
         /\ \A i \in 1..Len(s) : Append(s, e)[i] = s[i]
         /\ s # <<>> => /\ Len(s) >= 1 /\ Head(s) = s[1]
                        /\ Len(Tail(s)) = Len(s) - 1
                        /\ \A i \in 1..Len(Tail(s)) : Tail(s)[i] = s[i + 1]
OBVIOUS

\* The calls keep the Shutdown of a stopping runtime on its way.
LEMMA CallsKeepStop ==
  IInv /\ WaitsEnd /\ (Start \/ Submit \/ Stop \/ Joined) => WaitsEnd'
<1> SUFFICES ASSUME IInv, WaitsEnd
             PROVE  Start \/ Submit \/ Stop \/ Joined => WaitsEnd'
  OBVIOUS
<1> USE DEF WaitsEnd, StopIsLast, StopIsHeard, SilenceIsCounted
<1>1. CASE Start
  BY <1>1 DEF Start
<1>2. CASE Submit
  <2>1. PICK e \in Events : e.kind # "shutdown" /\ channel' = Append(channel, e)
    BY <1>2 DEF Submit, Post
  <2>2. running = "on" /\ running' = "on" /\ UNCHANGED <<pc, sink, connection, silence>>
    BY <1>2 DEF Submit, Post, workerVars
  <2>3. \A i \in 1..Len(channel') : channel'[i].kind # "shutdown"
    BY <2>1, <2>2, ChannelFacts DEF IInv, TypeOK
  <2> QED BY <2>2, <2>3
<1>3. CASE Stop
  <2>1. PICK e \in Events : e.kind = "shutdown" /\ channel' = Append(channel, e)
    BY <1>3 DEF Stop, Post, Events
  <2>2. /\ running = "on" /\ running' = "stopping" /\ UNCHANGED <<pc, sink, connection, silence>>
    BY <1>3 DEF Stop, Post, workerVars
  <2>3. \A i \in 1..Len(channel) : channel[i].kind # "shutdown"
    BY <2>2
  <2>4. Len(channel') \in 1..Len(channel') /\ channel'[Len(channel')].kind = "shutdown"
    BY <2>1, ChannelFacts DEF IInv, TypeOK
  <2>5. \A i \in 1..Len(channel') : channel'[i].kind = "shutdown" => i = Len(channel')
    BY <2>1, <2>3, ChannelFacts DEF IInv, TypeOK
  <2> QED BY <2>2, <2>4, <2>5
<1>4. CASE Joined
  BY <1>4 DEF Joined, workerVars
<1> QED BY <1>1, <1>2, <1>3, <1>4

\* A command other than Shutdown leaves the messages behind it.
LEMMA TakeKeepsStop ==
  ASSUME IInv, WaitsEnd, NEW k, Take(k), k # "shutdown", pc' = pc
  PROVE  /\ StopIsLast' /\ running' = running /\ pc = "wait"
         /\ running = "stopping" => \E i \in 1..Len(channel') : channel'[i].kind = "shutdown"
<1> USE DEF WaitsEnd, StopIsLast, StopIsHeard
<1>1. /\ channel \in Seq(Events) /\ channel # <<>> /\ channel' = Tail(channel)
      /\ Head(channel).kind # "shutdown" /\ pc = "wait" /\ running' = running
      /\ Head(channel) \in Events
  BY DEF Take, IInv, TypeOK
<1>2. StopIsLast'
  BY <1>1, ChannelFacts
<1>3. ASSUME running = "stopping"
      PROVE  \E i \in 1..Len(channel') : channel'[i].kind = "shutdown"
  <2>1. PICK i \in 1..Len(channel) : channel[i].kind = "shutdown"
    BY <1>1, <1>3
  <2>2. i # 1 /\ i \in Nat
    BY <1>1, <2>1, ChannelFacts
  <2>3. i - 1 \in 1..Len(channel') /\ channel'[i - 1].kind = "shutdown"
    BY <1>1, <2>1, <2>2, ChannelFacts
  <2> QED BY <2>3
<1> QED BY <1>1, <1>2, <1>3

\* The worker reads its commands in order, and ends by its Shutdown only.
LEMMA WorkerKeepsStop == IInv /\ WaitsEnd /\ Worker => WaitsEnd'
<1> SUFFICES ASSUME IInv, WaitsEnd, Worker PROVE WaitsEnd'
  OBVIOUS
<1> USE NoneAssumption
<1>1. ASSUME NEW k, Take(k), k # "shutdown", pc' = pc, connection' => silence' # None
      PROVE  WaitsEnd'
  BY <1>1, TakeKeepsStop DEF WaitsEnd, StopIsHeard, SilenceIsCounted
<1>2. CASE HandleConnect
  BY <1>1, <1>2 DEF HandleConnect, SetError, Reset
<1>3. CASE HandleKeepAlive \/ HandleDisconnected \/ HandleError
  BY <1>1, <1>3 DEF HandleKeepAlive, HandleDisconnected, HandleError, SetError, Disconnect, Reset
<1>4. CASE HandleTarget
  BY <1>1, <1>4 DEF HandleTarget, WaitsEnd, SilenceIsCounted
<1>5. CASE DropPacket \/ RefusePacket \/ BufferPacket
  BY <1>1, <1>5 DEF DropPacket, RefusePacket, BufferPacket, SetError, Reset, workerVars
<1>6. CASE HandleShutdown
  <2>1. /\ channel \in Seq(Events) /\ channel # <<>> /\ channel' = Tail(channel)
        /\ Head(channel).kind = "shutdown" /\ Head(channel) \in Events
        /\ pc' = "exited" /\ running' = running /\ ~connection' /\ ~sink'
    BY <1>6 DEF HandleShutdown, Take, Reset, IInv, TypeOK
  <2>2. 1 \in 1..Len(channel) /\ channel[1].kind = "shutdown"
    BY <2>1, ChannelFacts
  <2>3. running = "stopping" /\ Len(channel) = 1
    BY <2>2 DEF WaitsEnd, StopIsLast
  <2>4. Len(channel') = 0
    BY <2>1, <2>3, ChannelFacts
  <2> QED BY <2>1, <2>3, <2>4 DEF WaitsEnd, StopIsLast, StopIsHeard, SilenceIsCounted
<1>7. ASSUME UNCHANGED <<running, channel>>, pc # "exited", pc' # "exited",
             connection' => silence' # None
      PROVE  WaitsEnd'
  BY <1>7 DEF WaitsEnd, StopIsLast, StopIsHeard, SilenceIsCounted
<1>8. CASE BeginTick \/ EndTick
  BY <1>7, <1>8 DEF BeginTick, TickDue, EndTick, Disconnect, Reset, WaitsEnd, SilenceIsCounted
<1>9. CASE DrainLoop
  BY <1>7, <1>9 DEF DrainLoop, Drain, Underrun, DropLate, NotDue, Play, SetError, Reset,
         WaitsEnd, SilenceIsCounted
<1> QED BY <1>2, <1>3, <1>4, <1>5, <1>6, <1>8, <1>9 DEF Worker, Commands

\* Every step does.
LEMMA StepStop == IInv /\ WaitsEnd /\ [Next]_vars => WaitsEnd'
<1> SUFFICES ASSUME IInv, WaitsEnd, [Next]_vars PROVE WaitsEnd'
  OBVIOUS
<1>1. CASE Elapse
  <2>1. silence \in 0..Grace /\ silence' # None
    BY <1>1, NoneAssumption, ProfileAssumption
       DEF Elapse, WaitsEnd, SilenceIsCounted, IInv, TypeOK
  <2> QED BY <1>1, <2>1 DEF Elapse, WaitsEnd, StopIsLast, StopIsHeard, SilenceIsCounted
<1>2. CASE UNCHANGED vars
  BY <1>2 DEF vars, workerVars, WaitsEnd, StopIsLast, StopIsHeard, SilenceIsCounted
<1> QED BY <1>1, <1>2, CallsKeepStop, WorkerKeepsStop DEF Next

\* The inductive invariant of both waits.
LEMMA WaitsAlwaysEnd == Spec => []WaitsEnd
<1>1. Init => WaitsEnd
  BY DEF Init, WaitsEnd, StopIsLast, StopIsHeard, SilenceIsCounted
<1> QED BY <1>1, InvariantHolds, StepStop, PTL DEF Spec

\* Whoever waits in stop() waits for a worker that has ended, its playback process
\* closed, or has its Shutdown still to read, as the last of its commands
\* (stop 142-161, run).
THEOREM StopAlwaysHeard == Spec => [](StopIsLast /\ StopIsHeard)
<1>1. WaitsEnd => StopIsLast /\ StopIsHeard
  BY DEF WaitsEnd
<1> QED BY <1>1, WaitsAlwaysEnd, PTL

\* As long as a session is open its grace period is counted.
THEOREM SilenceAlwaysCounted == Spec => []SilenceIsCounted
<1>1. WaitsEnd => SilenceIsCounted
  BY DEF WaitsEnd
<1> QED BY <1>1, WaitsAlwaysEnd, PTL
=============================================================================
