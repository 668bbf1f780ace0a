-------------------------- MODULE ConnectionProofs --------------------------
(***************************************************************************)
(* Proofs about the two ends of a connection: the receiver's server, which *)
(* is stopped and whose senders come and go (TransportSession), and the    *)
(* sender's session with its two threads (ConnectionWorkers).              *)
(*                                                                         *)
(* The server: the agreement of its handles and of the runtime's session,  *)
(* for any set of senders.  The sender's session: that a receiver is told  *)
(* of a stop, that no thread of a living session ends unreported, what a   *)
(* session leaves behind, and that no two of its threads wait for each     *)
(* other, for any capacity of the queue and the socket.                    *)
(***************************************************************************)
EXTENDS TransportSession, ConnectionWorkers, SequenceTheorems, TLAPS

-----------------------------------------------------------------------------
(* The receiver's server.                                                  *)

\* The connections that wait are open, different, and not the one being served, so
\* that closing a session's socket never closes one that waits.
WaitingAreOpen ==
  /\ \A i \in 1..Len(backlog) : backlog[i] # serving /\ link[backlog[i]] # "closed"
  /\ \A i, j \in 1..Len(backlog) : backlog[i] = backlog[j] => i = j

\* A message in the channel means that stop was called, and the listener is there to
\* take it.
MessageIsStop ==
  /\ stopRx = "stop" => server # "on" /\ pc # "exited"
  /\ server = "on" => pc # "exited"

\* A listener that left holds nothing, and a stopped server has no listener.
ExitedHoldsNothing ==
  /\ pc = "exited" => backlog = <<>> /\ \A p \in Peers : link[p] = "closed"
  /\ server = "off" => pc = "exited" /\ session = NoPeer

IInv == /\ TypeOK
        /\ HandleMatchesSession
        /\ SessionFollowsTransport
        /\ WaitingAreOpen
        /\ MessageIsStop
        /\ ExitedHoldsNothing

\* The invariant holds before the first start.
LEMMA InitIInv == Init => IInv
<1> SUFFICES ASSUME Init PROVE IInv
  OBVIOUS
<1>1. <<>> \in Seq(Peers) /\ <<>> \in Seq(Parts) /\ Len(<<>>) = 0 /\ 0 \in 0..(MaxFrames + 1)
  BY FramesAssumption
<1>2. TypeOK
  BY <1>1 DEF Init, TypeOK
<1>3. HandleMatchesSession /\ SessionFollowsTransport /\ MessageIsStop /\ ExitedHoldsNothing
  BY DEF Init, HandleMatchesSession, SessionFollowsTransport, MessageIsStop, ExitedHoldsNothing
<1>4. WaitingAreOpen
  BY <1>1 DEF Init, WaitingAreOpen
<1> QED BY <1>2, <1>3, <1>4 DEF IInv

\* start and stop keep the invariant.
LEMMA ControlKeepsIInv ==
  IInv /\ (Start \/ StopSend \/ StopDrop \/ StopSlot \/ Joined) => IInv'
<1> SUFFICES ASSUME IInv, Start \/ StopSend \/ StopDrop \/ StopSlot \/ Joined PROVE IInv'
  OBVIOUS
<1> USE PeersAssumption
    DEF IInv, TypeOK, HandleMatchesSession, SessionFollowsTransport, WaitingAreOpen,
        MessageIsStop, ExitedHoldsNothing, handles, senderVars, runtimeVars
<1>1. CASE Start
  BY <1>1 DEF Start
<1>2. CASE StopSend
  BY <1>2 DEF StopSend
<1>3. CASE StopDrop
  BY <1>3 DEF StopDrop
<1>4. CASE StopSlot
  <2>1. /\ link' \in [Peers -> {"closed", "open", "fin", "lost"}]
        /\ \A p \in Peers : link'[p] = "closed" <=> link[p] = "closed"
    BY <1>4 DEF StopSlot
  <2> QED BY <1>4, <2>1 DEF StopSlot
<1>5. CASE Joined
  <2>1. TypeOK'
    BY <1>5 DEF Joined
  <2>2. HandleMatchesSession' /\ SessionFollowsTransport'
    BY <1>5 DEF Joined
  <2>3. WaitingAreOpen'
    BY <1>5 DEF Joined
  <2>4. MessageIsStop' /\ ExitedHoldsNothing'
    BY <1>5 DEF Joined
  <2> QED BY <2>1, <2>2, <2>3, <2>4
<1> QED BY <1>1, <1>2, <1>3, <1>4, <1>5

\* What senders, the network and the runtime do on their own keeps the invariant.
LEMMA SendersKeepIInv == IInv /\ (Senders \/ GraceEnds \/ RuntimeFails) => IInv'
<1> SUFFICES ASSUME IInv, Senders \/ GraceEnds \/ RuntimeFails PROVE IInv'
  OBVIOUS
<1> USE PeersAssumption, FramesAssumption
    DEF IInv, TypeOK, HandleMatchesSession, SessionFollowsTransport, WaitingAreOpen,
        MessageIsStop, ExitedHoldsNothing, handles, senderVars, runtimeVars
<1>1. CASE GraceEnds
  BY <1>1 DEF GraceEnds, Disconnected
<1>2. CASE RuntimeFails
  BY <1>2 DEF RuntimeFails, RuntimeError
<1>3. ASSUME NEW p \in Peers, Connect(p) PROVE IInv'
  <2>1. /\ backlog' \in Seq(Peers) /\ Len(backlog') = Len(backlog) + 1 /\ Len(backlog) \in Nat
        /\ \A i \in 1..Len(backlog) : backlog'[i] = backlog[i] /\ backlog[i] # p
        /\ backlog'[Len(backlog) + 1] = p
    BY <1>3 DEF Connect, Sender
  <2>2. \A i \in 1..Len(backlog') : i \in 1..Len(backlog) \/ i = Len(backlog) + 1
    BY <2>1
  <2>3. WaitingAreOpen'
    BY <1>3, <2>1, <2>2 DEF Connect, Sender
  <2> QED BY <1>3, <2>1, <2>3 DEF Connect, Sender
<1>4. ASSUME NEW p \in Peers, WriteHead(p) PROVE IInv'
  <2>1. PICK k \in MaySay(p) :
          /\ wire' = [wire EXCEPT ![p] = Append(@, Part(k, "head"))]
          /\ half' = [half EXCEPT ![p] = k]
          /\ sent' = [sent EXCEPT ![p] = IF k = "stop" THEN MaxFrames + 1 ELSE @ + 1]
    BY <1>4 DEF WriteHead
  <2>2. k \in Kinds /\ Part(k, "head") \in Parts
    BY DEF MaySay, Kinds, Parts, Part
  <2>3. Append(wire[p], Part(k, "head")) \in Seq(Parts)
    BY <2>2
  <2>4. (IF k = "stop" THEN MaxFrames + 1 ELSE sent[p] + 1) \in 0..(MaxFrames + 1)
    BY <1>4 DEF WriteHead
  <2>5. TypeOK'
    BY <1>4, <2>1, <2>2, <2>3, <2>4 DEF WriteHead, Sender
  <2> QED BY <1>4, <2>5 DEF WriteHead, Sender
<1>5. ASSUME NEW p \in Peers, WriteRest(p) PROVE IInv'
  <2>1. Part(half[p], "rest") \in Parts
    BY <1>5 DEF WriteRest, Parts, Part
  <2>2. Append(wire[p], Part(half[p], "rest")) \in Seq(Parts)
    BY <2>1
  <2> QED BY <1>5, <2>2 DEF WriteRest, Sender
<1>6. ASSUME NEW p \in Peers, Close(p) \/ Vanish(p) \/ GiveUp(p) PROVE IInv'
  <2>1. <<>> \in Seq(Parts)
    OBVIOUS
  <2>2. /\ link' \in [Peers -> {"closed", "open", "fin", "lost"}]
        /\ \A q \in Peers : link'[q] = "closed" <=> link[q] = "closed"
        /\ wire' \in [Peers -> Seq(Parts)]
    BY <1>6, <2>1 DEF Close, Vanish, GiveUp
  <2>3. UNCHANGED <<server, stopRx, pc, handles, lastError, runtimeVars, backlog,
                    half, sent, accepted>>
    BY <1>6 DEF Close, Vanish, GiveUp, Sender
  <2> QED BY <2>2, <2>3
<1> QED BY <1>1, <1>2, <1>3, <1>4, <1>5, <1>6 DEF Senders

\* The end of a session frees its handles and closes its socket alone.
LEMMA EndKeepsIInv ==
  ASSUME IInv, serving # NoPeer, NEW e \in {"none", "io", "protocol"}, End(e),
         stopRx' \in {stopRx, "empty"}, session' \in {session, NoPeer},
         runtime' \in {"ok", "error"},
         e = "none" => session' = NoPeer \/ server # "on"
  PROVE  IInv'
<1> USE PeersAssumption, FramesAssumption
    DEF IInv, TypeOK, HandleMatchesSession, SessionFollowsTransport, WaitingAreOpen,
        MessageIsStop, ExitedHoldsNothing, handles, senderVars, runtimeVars, End, Forget
<1>1. <<>> \in Seq(Parts) /\ 0 \in 0..(MaxFrames + 1) 
  OBVIOUS
<1> QED BY <1>1

\* The handler takes a complete frame from the wire of the sender being served.
LEMMA ConsumeTyped ==
  ASSUME IInv, serving # NoPeer, Framed
  PROVE  [wire EXCEPT ![serving] = Tail(Tail(@))] \in [Peers -> Seq(Parts)]
<1>1. serving \in Peers /\ wire[serving] \in Seq(Parts) /\ Len(wire[serving]) >= 2
  BY DEF IInv, TypeOK, Framed, Input
<1>2. ASSUME NEW s \in Seq(Parts), Len(s) >= 2 PROVE Tail(Tail(s)) \in Seq(Parts)
  <2>1. s # <<>>
    BY <1>2
  <2>2. Tail(s) \in Seq(Parts) /\ Len(Tail(s)) >= 1
    BY <1>2, <2>1
  <2>3. ASSUME NEW t \in Seq(Parts), Len(t) >= 1 PROVE Tail(t) \in Seq(Parts)
    <3>1. t # <<>>
      BY <2>3
    <3> QED BY <3>1
  <2> QED BY <2>2, <2>3
<1>3. Tail(Tail(wire[serving])) \in Seq(Parts)
  BY <1>1, <1>2
<1> QED BY <1>1, <1>3 DEF IInv, TypeOK

\* The listener outside its session loop keeps the invariant.
LEMMA ListenKeepsIInv ==
  IInv /\ (Leave \/ Poll \/ AcceptNobody \/ Accept \/ HelloArrives \/ HelloFails) => IInv'
<1> SUFFICES ASSUME IInv,
                    Leave \/ Poll \/ AcceptNobody \/ Accept \/ HelloArrives \/ HelloFails
             PROVE  IInv'
  OBVIOUS
<1> USE PeersAssumption, FramesAssumption
    DEF IInv, TypeOK, HandleMatchesSession, SessionFollowsTransport, WaitingAreOpen,
        MessageIsStop, ExitedHoldsNothing, handles, senderVars, runtimeVars
<1>1. CASE Leave
  <2>1. <<>> \in Seq(Parts) /\ <<>> \in Seq(Peers) /\ Len(<<>>) = 0 /\ 0 \in 0..(MaxFrames + 1)
    OBVIOUS
  <2> QED BY <1>1, <2>1 DEF Leave, StopRequested
<1>2. CASE Poll
  BY <1>2 DEF Poll
<1>3. CASE AcceptNobody
  BY <1>3 DEF AcceptNobody
<1>4. CASE Accept
  <2>1. /\ Head(backlog) = backlog[1] /\ 1 \in 1..Len(backlog) /\ Tail(backlog) \in Seq(Peers)
        /\ \A i \in 1..Len(Tail(backlog)) : /\ i + 1 \in 1..Len(backlog) /\ i + 1 # 1
                                           /\ Tail(backlog)[i] = backlog[i + 1]
    BY <1>4 DEF Accept
  <2>2. /\ Head(backlog) \in Peers /\ link[Head(backlog)] # "closed"
        /\ \A i \in 1..Len(Tail(backlog)) : Tail(backlog)[i] # Head(backlog)
    BY <2>1
  <2>3. WaitingAreOpen'
    BY <1>4, <2>1, <2>2 DEF Accept
  <2> QED BY <1>4, <2>1, <2>2, <2>3 DEF Accept
<1>5. CASE HelloArrives
  <2>1. [wire EXCEPT ![serving] = Tail(Tail(@))] \in [Peers -> Seq(Parts)]
    BY <1>5, ConsumeTyped DEF HelloArrives, HasFrame
  <2> QED BY <1>5, <2>1 DEF HelloArrives
<1>6. CASE HelloFails
  <2>1. PICK e \in {"io", "protocol"} : End(e)
    BY <1>6 DEF HelloFails
  <2> QED BY <1>6, <2>1, EndKeepsIInv DEF HelloFails
<1> QED BY <1>1, <1>2, <1>3, <1>4, <1>5, <1>6

\* The session loop keeps the invariant.
LEMMA LoopKeepsIInv == IInv /\ SessionLoop => IInv'
<1> SUFFICES ASSUME IInv, SessionLoop PROVE IInv'
  OBVIOUS
<1>1. serving # NoPeer /\ serving \in Peers
  BY DEF SessionLoop, CheckStop, Audio, Heartbeat, Consume, StopFrame, ErrorFrame, RefusedFrame,
         Eof, ReadTimeout, Garbage, ReadFails, Reading, IInv, TypeOK, HandleMatchesSession
<1>2. CASE CheckStop
  <2>1. CASE StopRequested /\ stopRx' = "empty" /\ End("none")
    BY <1>1, <1>2, <2>1, EndKeepsIInv
    DEF CheckStop, StopRequested, IInv, TypeOK, MessageIsStop, runtimeVars
  <2>2. CASE pc' = "read" /\ UNCHANGED <<server, stopRx, handles, lastError, backlog, senderVars>>
    BY <1>2, <2>2 DEF CheckStop, IInv, TypeOK, HandleMatchesSession, SessionFollowsTransport,
       WaitingAreOpen, MessageIsStop, ExitedHoldsNothing, handles, senderVars, runtimeVars
  <2> QED BY <1>2, <2>1, <2>2 DEF CheckStop
<1>3. ASSUME NEW k \in Kinds, Consume(k), UNCHANGED runtimeVars PROVE IInv'
  <2>1. [wire EXCEPT ![serving] = Tail(Tail(@))] \in [Peers -> Seq(Parts)]
    BY <1>1, <1>3, ConsumeTyped DEF Consume, HasFrame
  <2> QED BY <1>3, <2>1
    DEF Consume, Reading, IInv, TypeOK, HandleMatchesSession, SessionFollowsTransport,
        WaitingAreOpen, MessageIsStop, ExitedHoldsNothing, handles, runtimeVars
<1>4. ASSUME Reading, NEW e \in {"io", "protocol"}, End(e),
             UNCHANGED runtimeVars \/ RuntimeError
      PROVE  IInv'
  BY <1>1, <1>4, EndKeepsIInv DEF Reading, RuntimeError, IInv, TypeOK, runtimeVars
<1>5. ASSUME Reading, End("none"), Disconnected \/ RuntimeError PROVE IInv'
  BY <1>1, <1>5, EndKeepsIInv DEF Reading, Disconnected, RuntimeError
<1>6. CASE ReadTimeout
  <2>1. <<>> \in Seq(Parts)
    OBVIOUS
  <2> QED BY <1>6, <2>1
    DEF ReadTimeout, Reading, IInv, TypeOK, HandleMatchesSession, SessionFollowsTransport,
        WaitingAreOpen, MessageIsStop, ExitedHoldsNothing, handles, runtimeVars
<1>7. CASE Audio \/ Heartbeat
  BY <1>3, <1>4, <1>7 DEF Audio, Heartbeat, Kinds
<1>8. CASE StopFrame \/ ErrorFrame \/ Eof
  BY <1>5, <1>8 DEF StopFrame, ErrorFrame, Eof
<1>9. CASE RefusedFrame \/ Garbage \/ ReadFails
  BY <1>4, <1>9 DEF RefusedFrame, Garbage, ReadFails
<1> QED BY <1>2, <1>6, <1>7, <1>8, <1>9 DEF SessionLoop

\* Every step keeps the invariant.
LEMMA StepKeepsIInv == IInv /\ [Next]_vars => IInv'
<1> SUFFICES ASSUME IInv, [Next]_vars PROVE IInv'
  OBVIOUS
<1>1. CASE Start \/ StopSend \/ StopDrop \/ StopSlot \/ Joined
  BY <1>1, ControlKeepsIInv
<1>2. CASE Senders \/ GraceEnds \/ RuntimeFails
  BY <1>2, SendersKeepIInv
<1>3. CASE Listener
  BY <1>3, ListenKeepsIInv, LoopKeepsIInv DEF Listener
<1>4. CASE UNCHANGED vars
  BY <1>4 DEF vars, handles, senderVars, runtimeVars, IInv, TypeOK, HandleMatchesSession,
     SessionFollowsTransport, WaitingAreOpen, MessageIsStop, ExitedHoldsNothing
<1> QED BY <1>1, <1>2, <1>3, <1>4 DEF Next

LEMMA Invariance == Spec => []IInv
BY InitIInv, StepKeepsIInv, PTL DEF Spec

-----------------------------------------------------------------------------
\* Type correctness (receiver.rs).
THEOREM TypeCorrect == Spec => []TypeOK
<1>1. IInv => TypeOK
  BY DEF IInv
<1> QED BY <1>1, Invariance, PTL

\* stop only ever shuts down the socket being served, and the peer shown is the one
\* being streamed (receiver.rs 141, 187, 205, 208).
THEOREM SlotIsServed == Spec => []HandleMatchesSession
<1>1. IInv => HandleMatchesSession
  BY DEF IInv
<1> QED BY <1>1, Invariance, PTL

\* The runtime keeps no session of another sender than the one served, and none after
\* a session that ended without an error (receiver.rs 296-415).
THEOREM RuntimeFollows == Spec => []SessionFollowsTransport
<1>1. IInv => SessionFollowsTransport
  BY DEF IInv
<1> QED BY <1>1, Invariance, PTL

\* A receiver that was stopped holds no socket, session or waiting connection (134-159).
THEOREM StoppedClean == Spec => []StoppedHoldsNothing
<1>1. IInv => StoppedHoldsNothing
  BY DEF IInv, HandleMatchesSession, ExitedHoldsNothing, StoppedHoldsNothing
<1> QED BY <1>1, Invariance, PTL

\* Slot, snapshot and sockets agree, while the listener runs and after stop, for
\* any set of senders.
THEOREM HandlesAlwaysAgree == Spec => []HandlesAgree
<1>1. HandleMatchesSession /\ StoppedHoldsNothing => HandlesAgree
  BY DEF HandlesAgree
<1> QED BY <1>1, SlotIsServed, StoppedClean, PTL

-----------------------------------------------------------------------------
(* The sender's session.                                                   *)

\* A session is being ended in some way or is not.
HowIsSet == Live <=> how = "none"

\* While the session lives no thread ends without a report for the next tick: the
\* reader's in the one channel, the writer's in the other.
DeadThreadIsReported ==
  Live => (~reader => inbound # <<>>) /\ (writer = "exited" => failed)

\* Until the owner has told the writer to stop there is nothing to write but audio and
\* heartbeats, and the writer ends only on a failure.
NothingToldYet ==
  Live \/ owner = "tell" =>
    /\ writer # "Stop" /\ (writer = "exited" => failed \/ how # "stop")
    /\ \A i \in DOMAIN controls : controls[i] = "Heartbeat"

\* After that, unless the connection fails, Stop is behind all heartbeats that wait,
\* in the writer's hands, or the last that was sent.
StopWaits ==
  /\ controls # <<>> /\ Last(controls) = "Stop"
  /\ \A i \in DOMAIN controls : i < Len(controls) => controls[i] = "Heartbeat"

StopIsOnItsWay ==
  how = "stop" /\ ~failed /\ ~Live /\ owner # "tell" =>
    IF writer = "exited" THEN Alive => out # <<>> /\ Last(out) = "Stop"
    ELSE writer = "Stop" \/ StopWaits

\* What the steps of a shutdown have left behind.
ShutdownProgress ==
  /\ owner \in {"close", "joinReader", "gone"} => writer = "exited"
  /\ owner = "joinReader" => sock # "open"
  /\ owner = "close" => how # "drop"
  /\ owner = "gone" => /\ ~reader => sock # "open"
                       /\ how # "drop" => ~reader

WorkersIInv ==
  /\ WorkersTypeOK
  /\ HowIsSet /\ DeadThreadIsReported
  /\ NothingToldYet /\ StopIsOnItsWay /\ ShutdownProgress

\* What the two ends of a sequence become.
LEMMA AppendLast ==
  ASSUME NEW S, NEW s \in Seq(S), NEW e \in S
  PROVE  /\ Append(s, e) \in Seq(S) /\ Append(s, e) # <<>> /\ Last(Append(s, e)) = e
         /\ Len(Append(s, e)) = Len(s) + 1
         /\ DOMAIN Append(s, e) = 1..(Len(s) + 1)
         /\ \A i \in 1..Len(s) : Append(s, e)[i] = s[i]
BY DEF Last

LEMMA TailLast ==
  ASSUME NEW S, NEW s \in Seq(S), s # <<>>
  PROVE  /\ Head(s) \in S /\ Head(s) = s[1]
         /\ Tail(s) \in Seq(S) /\ Len(Tail(s)) = Len(s) - 1 /\ Len(s) \in Nat
         /\ DOMAIN Tail(s) = 1..(Len(s) - 1)
         /\ \A i \in 1..(Len(s) - 1) : Tail(s)[i] = s[i + 1]
         /\ Tail(s) # <<>> => Last(Tail(s)) = Last(s)
         /\ Tail(s) = <<>> => Head(s) = Last(s)
         /\ Last(s) \in S
<1>1. /\ Len(s) \in Nat \ {0} /\ \A i \in 1..Len(s) : s[i] \in S
      /\ Head(s) = s[1]
      /\ Tail(s) \in Seq(S) /\ Len(Tail(s)) = Len(s) - 1
      /\ \A i \in 1..(Len(s) - 1) : Tail(s)[i] = s[i + 1]
  OBVIOUS
<1>2. DOMAIN Tail(s) = 1..(Len(s) - 1)
  BY <1>1
<1>3. Last(s) \in S /\ Head(s) \in S
  BY <1>1 DEF Last
<1>4. Tail(s) # <<>> => Last(Tail(s)) = Last(s)
  <2> SUFFICES ASSUME Tail(s) # <<>> PROVE Tail(s)[Len(Tail(s))] = s[Len(s)]
    BY DEF Last
  <2>1. Len(s) - 1 \in 1..(Len(s) - 1)
    BY <1>1
  <2> QED BY <1>1, <2>1
<1>5. Tail(s) = <<>> => Head(s) = Last(s)
  <2> SUFFICES ASSUME Tail(s) = <<>> PROVE s[1] = s[Len(s)]
    BY <1>1 DEF Last
  <2>1. Tail(s) \in Seq(S) /\ Len(Tail(s)) = 0
    BY <1>1, EmptySeq
  <2>2. Len(s) \in Nat /\ Len(Tail(s)) = Len(s) - 1
    BY <1>1
  <2>3. Len(s) = 1
    BY <2>1, <2>2
  <2> QED BY <2>3
<1> QED BY <1>1, <1>2, <1>3, <1>4, <1>5

\* The invariant holds when connect has returned.
LEMMA InitWorkersIInv == WorkersInit => WorkersIInv
<1> SUFFICES ASSUME WorkersInit PROVE WorkersIInv
  OBVIOUS
<1>1. WorkersTypeOK
  <2>1. /\ controls = <<>> /\ inbound = <<>> /\ out = <<>> /\ back = <<>> /\ queue = 0
        /\ Capacity \in Nat /\ Room \in Nat
    BY WorkersAssumption DEF WorkersInit, WorkersAssumption
  <2>2. /\ controls \in Seq({"Heartbeat", "Stop", "Shutdown"}) /\ inbound \in Seq(Ends)
        /\ out \in Seq(Writing) /\ back \in Seq(Answers)
        /\ Len(out) <= Room /\ Len(back) <= Room /\ queue \in 0..Capacity
    BY <2>1
  <2> QED BY <2>2 DEF WorkersInit, WorkersTypeOK
<1>2. /\ HowIsSet /\ DeadThreadIsReported /\ NothingToldYet /\ StopIsOnItsWay
      /\ ShutdownProgress
  BY DEF WorkersInit, HowIsSet, DeadThreadIsReported, NothingToldYet, StopIsOnItsWay,
         ShutdownProgress, Live
<1> QED BY <1>1, <1>2 DEF WorkersIInv

\* The steps of the owner.
LEMMA OwnerStep ==
  ASSUME WorkersIInv,
         \/ Push \/ EndWithStop \/ EndAtOnce \/ Discard \/ DrainReports \/ NotDue
         \/ JoinWriter \/ CloseSocket \/ JoinReader
  PROVE  WorkersIInv'
<1> USE WorkersAssumption
    DEF WorkersIInv, WorkersTypeOK, HowIsSet, DeadThreadIsReported, NothingToldYet,
        StopIsOnItsWay, StopWaits, ShutdownProgress, Live, Alive, WorkersAssumption,
        ownerVars, writerVars, readerVars, netVars
<1>1. CASE Push
  BY <1>1 DEF Push
<1>2. CASE EndWithStop \/ Discard
  BY <1>2 DEF EndWithStop, Discard, EndBy
<1>3. failed \/ inbound # <<>> => Reported \in Ends \cup {"write"}
  BY TailLast DEF Reported
<1>4. CASE EndAtOnce
  <2>1. /\ owner = "drain" /\ owner' = "tell" /\ how' = "immediate"
        /\ inbound' = <<>> /\ failed' = FALSE
        /\ UNCHANGED <<queue, controls, writer, reader, sock, out, back, peer>>
    BY <1>4 DEF EndAtOnce, EndBy, TakeReports
  <2>2. reason' \in Ends \cup {"write", "capture"}
    BY <1>3, <1>4 DEF EndAtOnce
  <2>3. inbound' \in Seq(Ends)
    BY <2>1
  <2> QED BY <2>1, <2>2, <2>3
<1>5. CASE DrainReports
  <2>1. /\ owner = "drain" /\ inbound' = <<>> /\ failed' = FALSE
        /\ UNCHANGED <<queue, controls, writer, reader, sock, out, back, peer>>
    BY <1>5 DEF DrainReports, TakeReports
  <2>2. inbound' \in Seq(Ends)
    BY <2>1
  <2>3. CASE failed \/ inbound # <<>>
    <3>1. owner' = "tell" /\ how' = "immediate" /\ reason' \in Ends \cup {"write"}
      BY <1>3, <1>5, <2>3 DEF DrainReports, EndBy
    <3> QED BY <2>1, <2>2, <3>1
  <2>4. CASE ~failed /\ inbound = <<>>
    <3>1. owner' = "beat" /\ UNCHANGED <<how, reason>>
      BY <1>5, <2>4 DEF DrainReports
    <3> QED BY <2>1, <2>2, <2>4, <3>1
  <2> QED BY <2>3, <2>4
<1>6. CASE NotDue
  BY <1>6 DEF NotDue
<1>7. CASE JoinWriter
  BY <1>7 DEF JoinWriter, ShutSocket
<1>8. CASE CloseSocket
  BY <1>8 DEF CloseSocket, ShutSocket
<1>9. CASE JoinReader
  BY <1>9 DEF JoinReader
<1> QED BY <1>1, <1>2, <1>4, <1>5, <1>6, <1>7, <1>8, <1>9

\* A control is added behind those that wait, or the writer is gone.
LEMMA ControlStep ==
  ASSUME WorkersIInv, Beat \/ Tell
  PROVE  WorkersIInv'
<1> USE DEF WorkersIInv, WorkersTypeOK, HowIsSet, DeadThreadIsReported, NothingToldYet,
            StopIsOnItsWay, ShutdownProgress, Live
<1> DEFINE C == {"Heartbeat", "Stop", "Shutdown"}
<1>1. CASE Beat
  <2>1. /\ owner = "beat"
        /\ UNCHANGED <<queue, writer, failed, reader, inbound, sock, out, back, peer>>
    BY <1>1 DEF Beat, readerVars, netVars
  <2>2. CASE writer = "exited"
    <3>1. /\ owner' = "tell" /\ how' = "immediate" /\ reason' = "channel"
          /\ controls' = controls
      BY <1>1, <2>2 DEF Beat, EndBy
    <3> QED BY <2>1, <3>1
  <2>3. CASE writer # "exited"
    <3>1. /\ controls' = Append(controls, "Heartbeat") /\ owner' = "drain"
          /\ how' = how /\ reason' = reason
      BY <1>1, <2>3 DEF Beat
    <3>2. controls' \in Seq(C) /\ \A i \in DOMAIN controls' : controls'[i] = "Heartbeat"
      BY <2>1, <3>1, AppendLast
    <3> QED BY <2>1, <3>1, <3>2
  <2> QED BY <2>2, <2>3
<1>2. CASE Tell
  <2>1. /\ owner = "tell" /\ owner' = "joinWriter"
        /\ UNCHANGED <<how, reason, queue, writer, failed, reader, inbound, sock, out, back, peer>>
    BY <1>2 DEF Tell, readerVars, netVars
  <2>2. CASE writer = "exited"
    <3>1. controls' = controls
      BY <1>2, <2>2 DEF Tell
    <3> QED BY <2>1, <2>2, <3>1
  <2>3. CASE writer # "exited"
    <3> DEFINE c == IF how = "stop" THEN "Stop" ELSE "Shutdown"
    <3>1. controls' = Append(controls, c)
      BY <1>2, <2>3 DEF Tell
    <3>2. /\ controls' \in Seq(C) /\ controls' # <<>> /\ Last(controls') = c
          /\ \A i \in DOMAIN controls' : i < Len(controls') => controls'[i] = "Heartbeat"
      BY <2>1, <3>1, AppendLast
    <3>3. how = "stop" => StopWaits'
      BY <3>2 DEF StopWaits
    <3> HIDE DEF c
    <3> QED BY <2>1, <2>3, <3>2, <3>3
  <2> QED BY <2>2, <2>3
<1> QED BY <1>1, <1>2

\* The steps of the writing thread: Stop is reached after all that waits before it,
\* and nothing follows it.
LEMMA WriterStep ==
  ASSUME WorkersIInv, Writer
  PROVE  WorkersIInv'
<1> USE WorkersAssumption
    DEF WorkersIInv, WorkersTypeOK, HowIsSet, DeadThreadIsReported, NothingToldYet,
        StopIsOnItsWay, ShutdownProgress, Live, Alive
<1>0. UNCHANGED <<owner, how, reason, reader, inbound, sock, back, peer>>
  BY DEF Writer, TakeControl, NoControl, TakeFrame, Write, WriteFails,
         ownerVars, readerVars, netVars
<1>1. CASE TakeControl
  <2>1. /\ writer = "drain" /\ controls # <<>> /\ controls' = Tail(controls)
        /\ writer' = IF Head(controls) = "Shutdown" THEN "exited" ELSE Head(controls)
        /\ UNCHANGED <<queue, failed, out>>
    BY <1>1 DEF TakeControl, netVars
  <2>2. /\ controls' \in Seq({"Heartbeat", "Stop", "Shutdown"})
        /\ Head(controls) \in {"Heartbeat", "Stop", "Shutdown"}
        /\ Head(controls) = controls[1] /\ 1 \in DOMAIN controls
    BY <2>1, TailLast
  <2>3. WorkersTypeOK'
    BY <1>0, <2>1, <2>2 DEF Writing
  <2>4. NothingToldYet' /\ DeadThreadIsReported'
    <3>1. (\A i \in DOMAIN controls : controls[i] = "Heartbeat")
             => (\A i \in DOMAIN controls' : controls'[i] = "Heartbeat") /\ writer' = "Heartbeat"
      BY <2>1, <2>2, TailLast
    <3> QED BY <1>0, <2>1, <3>1
  <2>5. StopWaits => writer' = "Stop" \/ (writer' # "exited" /\ StopWaits')
    <3> SUFFICES ASSUME StopWaits
                 PROVE  writer' = "Stop" \/ (writer' # "exited" /\ StopWaits')
      OBVIOUS
    <3>1. CASE Tail(controls) = <<>>
      BY <2>1, <2>2, <3>1, TailLast DEF StopWaits
    <3>2. CASE Tail(controls) # <<>>
      <4>1. Len(controls) > 1 /\ Last(controls') = "Stop"
        BY <2>1, <3>2, TailLast DEF StopWaits
      <4>2. writer' = "Heartbeat"
        BY <2>1, <2>2, <4>1 DEF StopWaits
      <4>3. \A i \in DOMAIN controls' : i < Len(controls') => controls'[i] = "Heartbeat"
        BY <2>1, TailLast DEF StopWaits
      <4> QED BY <2>1, <3>2, <4>1, <4>2, <4>3 DEF StopWaits
    <3> QED BY <3>1, <3>2
  <2>6. StopIsOnItsWay'
    BY <1>0, <2>1, <2>5
  <2>7. HowIsSet' /\ ShutdownProgress'
    BY <1>0, <2>1
  <2> QED BY <2>3, <2>4, <2>6, <2>7
<1>2. CASE NoControl
  BY <1>0, <1>2 DEF NoControl, Writing, StopWaits, netVars
<1>3. CASE TakeFrame
  BY <1>0, <1>3 DEF TakeFrame, Writing, StopWaits, netVars
<1>4. CASE Write
  <2>1. /\ writer \in Writing /\ Len(out) < Room /\ out' = Append(out, writer)
        /\ writer' = IF writer = "Stop" THEN "exited" ELSE "drain"
        /\ UNCHANGED <<queue, controls, failed>>
    BY <1>4 DEF Write
  <2>2. /\ out' \in Seq(Writing) /\ out' # <<>> /\ Last(out') = writer
        /\ Len(out') = Len(out) + 1
    BY <2>1, AppendLast
  <2> QED BY <1>0, <2>1, <2>2 DEF StopWaits, Writing
<1>5. CASE WriteFails
  BY <1>0, <1>5 DEF WriteFails, Writing, netVars
<1> QED BY <1>1, <1>2, <1>3, <1>4, <1>5 DEF Writer

\* The steps of the reading thread: it ends with a report, or when nobody takes one.
LEMMA ReaderStep ==
  ASSUME WorkersIInv, Reader
  PROVE  WorkersIInv'
<1> USE DEF WorkersIInv, WorkersTypeOK, HowIsSet, DeadThreadIsReported, NothingToldYet,
            StopIsOnItsWay, StopWaits, ShutdownProgress, Live, Alive, Abandoned
<1>0. UNCHANGED <<owner, how, reason, queue, controls, writer, failed, out, peer>>
  BY DEF Reader, ReadFrame, ReadEnd, ownerVars, writerVars
<1>1. CASE ReadFrame
  <2>1. /\ reader /\ reader' = ~Abandoned /\ LetGo /\ back # <<>> /\ back' = Tail(back)
        /\ inbound' = IF Abandoned \/ Head(back) = "HeartbeatAck" THEN inbound
                      ELSE Append(inbound, Head(back))
    BY <1>1 DEF ReadFrame
  <2>2. back' \in Seq(Answers) /\ Len(back') <= Room /\ Head(back) \in Answers
    BY <2>1, TailLast, WorkersAssumption DEF WorkersAssumption
  <2>3. inbound' \in Seq(Ends) /\ (inbound # <<>> => inbound' # <<>>)
    <3>1. CASE Abandoned \/ Head(back) = "HeartbeatAck"
      BY <2>1, <3>1
    <3>2. CASE ~Abandoned /\ Head(back) # "HeartbeatAck"
      <4>1. Head(back) \in Ends /\ inbound' = Append(inbound, Head(back))
        BY <2>1, <2>2, <3>2 DEF Answers, Ends
      <4> QED BY <4>1, AppendLast
    <3> QED BY <3>1, <3>2
  <2>4. sock' \in {"open", "shut", "broken"} /\ (sock # "open" => sock' = sock)
        /\ (Abandoned => sock' # "open")
    BY <2>1 DEF LetGo, ShutSocket
  <2>5. WorkersTypeOK'
    BY <1>0, <2>1, <2>2, <2>3, <2>4
  <2>6. HowIsSet' /\ DeadThreadIsReported' /\ NothingToldYet'
    BY <1>0, <2>1, <2>2, <2>3, <2>4
  <2>7. StopIsOnItsWay'
    BY <1>0, <2>1, <2>2, <2>3, <2>4
  <2>8. ShutdownProgress'
    BY <1>0, <2>1, <2>2, <2>3, <2>4
  <2> QED BY <2>5, <2>6, <2>7, <2>8
<1>2. CASE ReadEnd
  <2>1. /\ reader /\ reader' = FALSE /\ LetGo /\ back' = back
        /\ (peer = "closed" \/ sock # "open")
    BY <1>2 DEF ReadEnd
  <2>2. sock' \in {"open", "shut", "broken"} /\ (sock # "open" => sock' = sock)
        /\ (Abandoned => sock' # "open")
    BY <2>1 DEF LetGo, ShutSocket
  <2>3. inbound' \in Seq(Ends) /\ (~Abandoned => inbound' # <<>>)
    <3>1. CASE Abandoned
      BY <1>2, <3>1 DEF ReadEnd
    <3>2. CASE ~Abandoned
      <4>1. PICK e \in {"Disconnected", "Error"} : inbound' = Append(inbound, e)
        BY <1>2, <3>2 DEF ReadEnd
      <4>2. e \in Ends
        BY DEF Ends
      <4> QED BY <4>1, <4>2, AppendLast
    <3> QED BY <3>1, <3>2
  <2>5. WorkersTypeOK'
    BY <1>0, <2>1, <2>2, <2>3
  <2>6. HowIsSet' /\ DeadThreadIsReported' /\ NothingToldYet'
    BY <1>0, <2>1, <2>2, <2>3
  <2>7. StopIsOnItsWay'
    BY <1>0, <2>1, <2>2, <2>3
  <2>8. ShutdownProgress'
    BY <1>0, <2>1, <2>2, <2>3
  <2> QED BY <2>5, <2>6, <2>7, <2>8
<1> QED BY <1>1, <1>2 DEF Reader

\* The steps of the receiver and of the network: a receiver that has read Stop has
\* closed, and the last frame sent stays the last until it is read.
LEMMA PeerStep ==
  ASSUME WorkersIInv,
         Peer \/ PeerEnds \/ PeerLost \/ Reset \/ GiveUpConnection
  PROVE  WorkersIInv'
<1> USE DEF WorkersIInv, WorkersTypeOK, HowIsSet, DeadThreadIsReported, NothingToldYet,
            StopIsOnItsWay, StopWaits, ShutdownProgress, Live, Alive
<1>0. UNCHANGED <<owner, how, reason, queue, controls, writer, failed, reader, inbound>>
  BY DEF Peer, PeerRead, PeerAnswers, PeerSeesEnd, PeerEnds, PeerLost, Reset,
         GiveUpConnection, Breaks, ownerVars, writerVars, readerVars
<1>a. ASSUME NEW f \in Answers, Len(back) < Room, back' = Append(back, f)
      PROVE  back' \in Seq(Answers) /\ Len(back') <= Room
  BY <1>a, AppendLast, WorkersAssumption DEF WorkersAssumption
<1>1. CASE PeerRead
  <2>1. /\ peer = "reading" /\ out # <<>> /\ out' = Tail(out)
        /\ sock' = sock /\ back' = back
    BY <1>1 DEF PeerRead
  <2>2. /\ out' \in Seq(Writing) /\ Len(out') <= Room /\ Head(out) \in Writing
        /\ out' # <<>> => Last(out') = Last(out)
        /\ out' = <<>> => Head(out) = Last(out)
    BY <2>1, TailLast, WorkersAssumption DEF WorkersAssumption
  <2>3. peer' \in {"acking", "closed", "reading"} /\ (Head(out) = "Stop" => peer' = "closed")
    BY <1>1, <2>2 DEF PeerRead, Writing
  <2> QED BY <1>0, <2>1, <2>2, <2>3
<1>2. CASE PeerAnswers
  <2>1. /\ peer = "acking" /\ peer' \in {"reading", "closed"} /\ out' = out /\ sock' = sock
        /\ back' = back \/ (Len(back) < Room /\ back' = Append(back, "HeartbeatAck"))
    BY <1>2 DEF PeerAnswers
  <2>2. back' \in Seq(Answers) /\ Len(back') <= Room
    BY <1>a, <2>1 DEF Answers
  <2> QED BY <1>0, <2>1, <2>2
<1>3. CASE PeerEnds
  <2>1. /\ peer' = "closed" /\ out' = out /\ sock' = sock
        /\ \/ back' = back
           \/ Len(back) < Room /\ \E f \in {"Stop", "Error"} : back' = Append(back, f)
    BY <1>3 DEF PeerEnds
  <2>2. back' \in Seq(Answers) /\ Len(back') <= Room
    BY <1>a, <2>1 DEF Answers
  <2> QED BY <1>0, <2>1, <2>2
<1>4. CASE PeerSeesEnd
  BY <1>0, <1>4 DEF PeerSeesEnd
<1>5. CASE PeerLost
  BY <1>0, <1>5 DEF PeerLost
<1>6. CASE Reset \/ GiveUpConnection
  BY <1>0, <1>6 DEF Reset, GiveUpConnection, Breaks
<1> QED BY <1>1, <1>2, <1>3, <1>4, <1>5, <1>6 DEF Peer

\* Every step of the session, of the receiver and of the network preserves the invariant.
LEMMA StepWorkersIInv == WorkersIInv /\ [WorkersNext]_workersVars => WorkersIInv'
<1> SUFFICES ASSUME WorkersIInv, [WorkersNext]_workersVars PROVE WorkersIInv'
  OBVIOUS
<1>1. CASE UNCHANGED workersVars
  BY <1>1 DEF workersVars, ownerVars, writerVars, readerVars, netVars, WorkersIInv,
              WorkersTypeOK, HowIsSet, DeadThreadIsReported, NothingToldYet,
              StopIsOnItsWay, StopWaits, ShutdownProgress, Live, Alive
<1>2. CASE WorkersNext
  BY <1>2, OwnerStep, ControlStep, WriterStep, ReaderStep, PeerStep DEF WorkersNext, Owner
<1> QED BY <1>1, <1>2

\* The inductive invariant holds.
THEOREM WorkersInvariantHolds == WorkersSpec => []WorkersIInv
<1> QED BY InitWorkersIInv, StepWorkersIInv, PTL DEF WorkersSpec

\* Every variable keeps its type, the socket its bound in both directions, for any
\* capacity and room (network_writer_loop, sender_reader_loop).
THEOREM WorkersTypeCorrect == WorkersSpec => []WorkersTypeOK
<1>1. WorkersIInv => WorkersTypeOK
  BY DEF WorkersIInv
<1> QED BY <1>1, WorkersInvariantHolds, PTL

\* A receiver whose session was ended by shutdown_with_stop and that still reads has
\* Stop as the last frame it will get (shutdown_with_stop 660-668, stop_and_shutdown
\* 357-366, network_writer_loop 1440-1456).
THEOREM StopIsSentLast == WorkersSpec => []ReceiverIsTold
<1>1. WorkersIInv => ReceiverIsTold
  <2> SUFFICES ASSUME WorkersIInv, how = "stop", owner = "gone", ~failed, Alive
               PROVE  out # <<>> /\ Last(out) = "Stop"
    BY DEF ReceiverIsTold
  <2>1. writer = "exited" /\ ~Live
    BY DEF WorkersIInv, ShutdownProgress, Live
  <2> QED BY <2>1 DEF WorkersIInv, StopIsOnItsWay
<1> QED BY <1>1, WorkersInvariantHolds, PTL

\* The tick that comes next finds every thread that has ended: a session never lives on
\* with a dead writer or reader and nothing to report (tick 573-633).
THEOREM DeadThreadsAreReported == WorkersSpec => []DeadThreadIsReported
<1>1. WorkersIInv => DeadThreadIsReported
  BY DEF WorkersIInv
<1> QED BY <1>1, WorkersInvariantHolds, PTL

\* Once a session is gone its writer has ended; so has its reader, unless the session
\* was dropped, and when no thread is left the connection is closed.
SessionLeavesNothing ==
  owner = "gone" =>
    /\ writer = "exited"
    /\ how # "drop" => ~reader
    /\ ~reader => sock # "open"

\* No session leaves a thread of its own behind, but the reader of one that was
\* dropped, nor a connection nobody reads (shutdown_with_stop, shutdown_immediate
\* 660-679, Drop for NetworkBranch).
THEOREM SessionEndsWhole == WorkersSpec => []SessionLeavesNothing
<1>1. WorkersIInv => SessionLeavesNothing
  BY DEF WorkersIInv, ShutdownProgress, SessionLeavesNothing
<1> QED BY <1>1, WorkersInvariantHolds, PTL

-----------------------------------------------------------------------------
(* Why no wait of the session's threads is for ever.                       *)

\* The reader goes on as long as the receiver may still say something: it ends when
\* the stream has ended or the socket is shut, or shuts it itself as the last holder.
ReaderStays == reader \/ sock # "open" \/ peer = "closed"

\* A writer that is being joined has ended, writes Stop, or has as the last of its
\* controls the one that ends it (stop_and_shutdown 357-364, shutdown 366-373).
WriterIsTold ==
  owner = "joinWriter" =>
     \/ writer \in {"exited", "Stop"}
     \/ controls # <<>> /\ Last(controls) \in {"Stop", "Shutdown"}

\* A write that waits for room: somebody takes from the socket, or the kernel ends it.
\* A receiver that reads will read; one that is itself waiting, to answer, has room to
\* or a reader on the other side that takes its answers; one that is closed or lost
\* leaves unacknowledged data behind, which breaks the connection.
BlockedWriteEnds ==
  writer \in Writing /\ sock = "open" /\ Len(out) = Room =>
     /\ out # <<>>
     /\ peer = "acking" => Len(back) < Room \/ (reader /\ back # <<>>)

\* Neither a full socket in both directions nor the order of the joins leaves two
\* threads, or a thread and the receiver, waiting for each other.
EveryWaitIsServed ==
  /\ BlockedWriteEnds
  /\ WriterIsTold
  /\ owner = "joinReader" => ~reader \/ sock # "open"

\* The reader's steps, and those of the network, keep the reader.
LEMMA StepReaderStays == WorkersIInv /\ ReaderStays /\ [WorkersNext]_workersVars => ReaderStays'
<1> SUFFICES ASSUME ReaderStays, [WorkersNext]_workersVars PROVE ReaderStays'
  OBVIOUS
<1> USE DEF ReaderStays, ownerVars, writerVars, readerVars, netVars
<1>1. CASE Push \/ EndWithStop \/ EndAtOnce \/ Discard \/ Owner
  BY <1>1 DEF Push, EndWithStop, EndAtOnce, Discard, Owner, DrainReports, TakeReports, Beat,
         NotDue, Tell, JoinWriter, CloseSocket, JoinReader, ShutSocket
<1>2. CASE Writer
  BY <1>2 DEF Writer, TakeControl, NoControl, TakeFrame, Write, WriteFails
<1>3. CASE Reader
  BY <1>3 DEF Reader, ReadFrame, ReadEnd, LetGo, ShutSocket
<1>4. CASE Peer \/ PeerEnds \/ PeerLost
  BY <1>4 DEF Peer, PeerRead, PeerAnswers, PeerSeesEnd, PeerEnds, PeerLost, Alive
<1>5. CASE Reset \/ GiveUpConnection
  BY <1>5 DEF Reset, GiveUpConnection, Breaks
<1>6. CASE UNCHANGED workersVars
  BY <1>6 DEF workersVars
<1> QED BY <1>1, <1>2, <1>3, <1>4, <1>5, <1>6 DEF WorkersNext

\* The owner joins the writer only after telling it, and the writer keeps what it was
\* told until it acts on it.
LEMMA StepWriterIsTold ==
  WorkersIInv /\ WriterIsTold /\ [WorkersNext]_workersVars => WriterIsTold'
<1> SUFFICES ASSUME WorkersIInv, WriterIsTold, [WorkersNext]_workersVars
             PROVE  WriterIsTold'
  OBVIOUS
<1> DEFINE Told == {"Heartbeat", "Stop", "Shutdown"}
<1>0. controls \in Seq(Told)
  BY DEF WorkersIInv, WorkersTypeOK
<1>1. ASSUME owner' # "joinWriter" \/ UNCHANGED <<owner, writer, controls>>
      PROVE  WriterIsTold'
  BY <1>1 DEF WriterIsTold
<1>2. CASE Push \/ EndWithStop \/ EndAtOnce \/ Discard
  BY <1>1, <1>2 DEF Push, EndWithStop, EndAtOnce, Discard, TakeReports, EndBy, ownerVars
<1>3. CASE DrainReports \/ Beat \/ NotDue \/ JoinWriter \/ CloseSocket \/ JoinReader
  BY <1>1, <1>3 DEF DrainReports, TakeReports, EndBy, Beat, NotDue, JoinWriter, CloseSocket,
         JoinReader
<1>4. CASE Tell
  <2>1. CASE writer = "exited"
    BY <1>4, <2>1 DEF Tell, WriterIsTold
  <2>2. CASE writer # "exited"
    <3>1. PICK c \in {"Stop", "Shutdown"} : controls' = Append(controls, c)
      BY <1>4, <2>2 DEF Tell
    <3>2. controls' # <<>> /\ Last(controls') = c
      BY <1>0, <3>1, AppendLast
    <3> QED BY <3>2 DEF WriterIsTold
  <2> QED BY <2>1, <2>2
<1>5. CASE TakeControl
  <2>1. /\ owner' = owner /\ controls # <<>> /\ controls' = Tail(controls)
        /\ writer' = IF Head(controls) = "Shutdown" THEN "exited" ELSE Head(controls)
        /\ writer = "drain"
    BY <1>5 DEF TakeControl, ownerVars
  <2>2. /\ Tail(controls) # <<>> => Last(Tail(controls)) = Last(controls)
        /\ Tail(controls) = <<>> => Head(controls) = Last(controls)
    BY <1>0, <2>1, TailLast
  <2> QED BY <2>1, <2>2 DEF WriterIsTold
<1>6. CASE NoControl \/ TakeFrame \/ Write \/ WriteFails
  <2>1. owner' = owner /\ controls' = controls
    BY <1>6 DEF NoControl, TakeFrame, Write, WriteFails, ownerVars
  <2>2. /\ writer # "exited"
        /\ writer = "Stop" => writer' = "exited"
        /\ writer = "drain" => controls = <<>>
    BY <1>6 DEF NoControl, TakeFrame, Write, WriteFails, Writing
  <2>3. CASE owner # "joinWriter" \/ writer = "Stop"
    BY <2>1, <2>2, <2>3 DEF WriterIsTold
  <2>4. CASE owner = "joinWriter" /\ writer # "Stop"
    <3>1. controls # <<>> /\ Last(controls) \in {"Stop", "Shutdown"}
      BY <2>2, <2>4 DEF WriterIsTold
    <3> QED BY <2>1, <3>1 DEF WriterIsTold
  <2> QED BY <2>3, <2>4
<1>7. CASE Reader \/ Peer \/ PeerEnds \/ PeerLost \/ Reset \/ GiveUpConnection
  BY <1>1, <1>7 DEF Reader, ReadFrame, ReadEnd, Peer, PeerRead, PeerAnswers, PeerSeesEnd,
         PeerEnds, PeerLost, Reset, GiveUpConnection, Breaks, ownerVars, writerVars
<1>8. CASE UNCHANGED workersVars
  BY <1>1, <1>8 DEF workersVars, ownerVars, writerVars
<1> QED BY <1>2, <1>3, <1>4, <1>5, <1>6, <1>7, <1>8 DEF WorkersNext, Owner, Writer

\* However the session ends, none of its threads waits for something that nobody will
\* do: what NobodyWaitsForEver rests on, for any size of the sockets and of the queue
\* (sender.rs 357-380, 660-679).
THEOREM WaitsAreServed == WorkersSpec => []EveryWaitIsServed
<1>1. WorkersInit => ReaderStays /\ WriterIsTold
  BY DEF WorkersInit, ReaderStays, WriterIsTold
<1>2. WorkersSpec => [](ReaderStays /\ WriterIsTold)
  BY <1>1, WorkersInvariantHolds, StepReaderStays, StepWriterIsTold, PTL DEF WorkersSpec
<1>3. WorkersIInv /\ ReaderStays /\ WriterIsTold => EveryWaitIsServed
  <2> SUFFICES ASSUME WorkersIInv, ReaderStays, WriterIsTold PROVE EveryWaitIsServed
    OBVIOUS
  <2>1. BlockedWriteEnds
    <3> SUFFICES ASSUME sock = "open", Len(out) = Room
                 PROVE  /\ out # <<>>
                        /\ peer = "acking" => Len(back) < Room \/ (reader /\ back # <<>>)
      BY DEF BlockedWriteEnds
    <3>1. Room \in Nat \ {0} /\ out \in Seq(Writing) /\ back \in Seq(Answers) /\ Len(back) <= Room
      BY WorkersAssumption DEF WorkersIInv, WorkersTypeOK, WorkersAssumption
    <3>2. out # <<>>
      BY <3>1
    <3>3. ~(Len(back) < Room) => back # <<>>
      BY <3>1
    <3>4. peer = "acking" => reader
      BY DEF ReaderStays
    <3> QED BY <3>2, <3>3, <3>4
  <2>2. owner = "joinReader" => ~reader \/ sock # "open"
    BY DEF WorkersIInv, ShutdownProgress
  <2> QED BY <2>1, <2>2 DEF EveryWaitIsServed
<1> QED BY <1>2, <1>3, WorkersInvariantHolds, PTL
=============================================================================
