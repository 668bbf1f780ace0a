-------------------------- MODULE ConnectionWorkers --------------------------
(***************************************************************************)
(* One established session of the sender (ManagedTargetSession, sender.rs):*)
(* the thread that writes frames and controls to the socket, the thread    *)
(* that reads the receiver's answers, and the owner, which ticks the       *)
(* session, sends heartbeats, and ends it in one of three ways: with a     *)
(* Stop message, at once after a failure, or by dropping it.               *)
(*                                                                         *)
(* The socket holds a bounded number of frames in each direction: a write  *)
(* blocks when the other end does not read.  No write and no read of the   *)
(* sender has a timeout.  What the frames carry, their sizes and the       *)
(* counters are left out.  The receiver is that of TransportSession,       *)
(* reduced to what it reads and answers; it may be lost with its host.     *)
(***************************************************************************)
EXTENDS Naturals, SequencesExt

CONSTANTS Capacity,    \* frames in the branch's queue (BranchQueue)
          Room,        \* frames the socket holds in each direction
          MaxControls  \* bound: controls waiting when a heartbeat is sent

ASSUME WorkersAssumption ==
  Capacity \in Nat \ {0} /\ Room \in Nat \ {0} /\ MaxControls \in Nat \ {0}

VARIABLES
  owner,     \* drain, beat (the two halves of tick), or a step of the shutdown
  how,       \* the way the session is ended
  reason,    \* last_error
  queue,     \* frames waiting for the writer
  controls,  \* NetworkControl channel
  writer,    \* network_writer_loop: drain, wait, what it writes, or exited
  failed,    \* a NetworkEvent::Error is in the event channel
  reader,    \* sender_reader_loop runs
  inbound,   \* InboundControl channel, acknowledgements left out
  sock,      \* our end of the connection: open, shut or broken
  out, back, \* frames on their way to the receiver and from it
  peer       \* the receiver: reading, acking (writes an answer), closed, lost

ownerVars  == <<owner, how, reason>>
writerVars == <<queue, controls, writer, failed>>
readerVars == <<reader, inbound>>
netVars    == <<sock, out, back, peer>>
workersVars == <<ownerVars, writerVars, readerVars, netVars>>

Writing == {"Audio", "Heartbeat", "Stop"}
Answers == {"HeartbeatAck", "Stop", "Error"}
Ends    == {"Stop", "Error", "Disconnected"}

WorkersTypeOK ==
  /\ owner \in {"drain", "beat", "tell", "joinWriter", "close", "joinReader", "gone"}
  /\ how \in {"none", "stop", "immediate", "drop"}
  /\ reason \in Ends \cup {"none", "write", "channel", "capture"}
  /\ queue \in 0..Capacity
  /\ controls \in Seq({"Heartbeat", "Stop", "Shutdown"})
  /\ writer \in Writing \cup {"drain", "wait", "exited"}
  /\ failed \in BOOLEAN /\ reader \in BOOLEAN /\ inbound \in Seq(Ends)
  /\ sock \in {"open", "shut", "broken"}
  /\ out \in Seq(Writing) /\ Len(out) <= Room
  /\ back \in Seq(Answers) /\ Len(back) <= Room
  /\ peer \in {"reading", "acking", "closed", "lost"}

\* connect has returned.
WorkersInit ==
  /\ owner = "drain" /\ how = "none" /\ reason = "none"
  /\ queue = 0 /\ controls = <<>> /\ writer = "drain" /\ failed = FALSE
  /\ reader = TRUE /\ inbound = <<>>
  /\ sock = "open" /\ out = <<>> /\ back = <<>> /\ peer = "reading"

\* The last handle of the connection goes, or shutdown(Both) is called.
ShutSocket == sock' = IF sock = "open" THEN "shut" ELSE sock

Live == owner \in {"drain", "beat"}
Alive == peer \in {"reading", "acking"}

-----------------------------------------------------------------------------
(* The owner.                                                              *)

\* push_frame; a full queue drops its oldest frame.
Push ==
  /\ owner = "drain"
  /\ queue' = IF queue < Capacity THEN queue + 1 ELSE queue
  /\ UNCHANGED <<ownerVars, controls, writer, failed, readerVars, netVars>>

EndBy(way) == how' = way /\ owner' = "tell"

\* What the reader, then what the writer reported; of several errors the last one
\* stays.
Reported == IF failed THEN "write" ELSE Last(inbound)

TakeReports ==
  /\ owner = "drain"
  /\ inbound' = <<>> /\ failed' = FALSE
  /\ UNCHANGED <<queue, controls, writer, reader, netVars>>

\* The first half of tick.
DrainReports ==
  /\ TakeReports
  /\ IF failed \/ inbound # <<>>
     THEN EndBy("immediate") /\ reason' = Reported
     ELSE owner' = "beat" /\ UNCHANGED <<how, reason>>

\* A bug: heartbeats are sent only when there is audio to send.
BeatWithAudio ==
  /\ owner = "beat" /\ owner' = "drain"
  /\ queue > 0 /\ Len(controls) < MaxControls
  /\ controls' = Append(controls, "Heartbeat")
  /\ UNCHANGED <<how, reason, queue, writer, failed, readerVars, netVars>>

\* The second half: a heartbeat is due.  It cannot be sent once the writer has
\* ended, which is an error of its own.
Beat ==
  /\ owner = "beat"
  /\ IF writer = "exited"
     THEN EndBy("immediate") /\ reason' = "channel" /\ UNCHANGED controls
     ELSE /\ Len(controls) < MaxControls
          /\ controls' = Append(controls, "Heartbeat")
          /\ owner' = "drain" /\ UNCHANGED <<how, reason>>
  /\ UNCHANGED <<queue, writer, failed, readerVars, netVars>>

NotDue ==
  /\ owner = "beat" /\ owner' = "drain"
  /\ UNCHANGED <<how, reason, writerVars, readerVars, netVars>>

\* The target is removed, the cast is stopped, or the request was withdrawn.
EndWithStop ==
  /\ owner = "drain" /\ EndBy("stop")
  /\ UNCHANGED <<reason, writerVars, readerVars, netVars>>

\* The capture has failed, and with it every session: the next tick finds it.
EndAtOnce ==
  /\ TakeReports
  /\ EndBy("immediate")
  /\ reason' = IF failed \/ inbound # <<>> THEN Reported ELSE "capture"

\* The session's entry is overwritten, or its result is never taken.
Discard ==
  /\ owner = "drain" /\ EndBy("drop")
  /\ UNCHANGED <<reason, writerVars, readerVars, netVars>>

\* A bug: the receiver is not told.
TellNobody ==
  /\ owner = "tell" /\ owner' = "joinWriter"
  /\ controls' = Append(controls, "Shutdown")
  /\ UNCHANGED <<how, reason, queue, writer, failed, readerVars, netVars>>

\* send_stop, or NetworkBranch::shutdown, which Drop also calls.
Tell ==
  /\ owner = "tell" /\ owner' = "joinWriter"
  /\ controls' = IF writer = "exited" THEN controls
                 ELSE Append(controls, IF how = "stop" THEN "Stop" ELSE "Shutdown")
  /\ UNCHANGED <<how, reason, queue, writer, failed, readerVars, netVars>>

\* A bug: the socket is left open until the reader has ended.
JoinAll ==
  /\ owner = "joinWriter" /\ writer = "exited"
  /\ owner' = "joinReader" /\ queue' = 0
  /\ UNCHANGED <<how, reason, controls, writer, failed, readerVars, netVars>>

\* The queue is cleared.  A session that is dropped forgets its reader, which keeps
\* the connection while it runs.
JoinWriter ==
  /\ owner = "joinWriter" /\ writer = "exited"
  /\ owner' = IF how = "drop" THEN "gone" ELSE "close"
  /\ queue' = 0
  /\ IF how = "drop" /\ ~reader THEN ShutSocket ELSE UNCHANGED sock
  /\ UNCHANGED <<how, reason, controls, writer, failed, readerVars, out, back, peer>>

CloseSocket ==
  /\ owner = "close" /\ owner' = "joinReader"
  /\ ShutSocket
  /\ UNCHANGED <<how, reason, writerVars, readerVars, out, back, peer>>

JoinReader ==
  /\ owner = "joinReader" /\ ~reader /\ owner' = "gone"
  /\ UNCHANGED <<how, reason, writerVars, readerVars, netVars>>

-----------------------------------------------------------------------------
(* network_writer_loop                                                     *)

\* Controls come first; all of them.
TakeControl ==
  /\ writer = "drain" /\ controls # <<>> /\ controls' = Tail(controls)
  /\ writer' = IF Head(controls) = "Shutdown" THEN "exited" ELSE Head(controls)
  /\ UNCHANGED <<ownerVars, queue, failed, readerVars, netVars>>

NoControl ==
  /\ writer = "drain" /\ controls = <<>> /\ writer' = "wait"
  /\ UNCHANGED <<ownerVars, queue, controls, failed, readerVars, netVars>>

\* recv_timeout
TakeFrame ==
  /\ writer = "wait"
  /\ IF queue > 0 THEN queue' = queue - 1 /\ writer' = "Audio"
                  ELSE writer' = "drain" /\ UNCHANGED queue
  /\ UNCHANGED <<ownerVars, controls, failed, readerVars, netVars>>

\* write_message; it blocks while the socket holds all it can.
Write ==
  /\ writer \in Writing /\ sock = "open" /\ Len(out) < Room
  /\ out' = Append(out, writer)
  /\ writer' = IF writer = "Stop" THEN "exited" ELSE "drain"
  /\ UNCHANGED <<ownerVars, queue, controls, failed, readerVars, sock, back, peer>>

WriteFails ==
  /\ writer \in Writing /\ sock # "open"
  /\ failed' = TRUE /\ writer' = "exited"
  /\ UNCHANGED <<ownerVars, queue, controls, readerVars, netVars>>

-----------------------------------------------------------------------------
(* sender_reader_loop                                                      *)

Abandoned == owner = "gone" /\ how = "drop"

\* A thread nobody waits for holds the last handle of the connection.
LetGo == IF Abandoned THEN ShutSocket ELSE UNCHANGED sock

\* A frame is reported; when nobody is left to take the report the thread ends.
ReadFrame ==
  /\ reader /\ back # <<>> /\ back' = Tail(back)
  /\ reader' = ~Abandoned /\ LetGo
  /\ inbound' = IF Abandoned \/ Head(back) = "HeartbeatAck" THEN inbound
                ELSE Append(inbound, Head(back))
  /\ UNCHANGED <<ownerVars, writerVars, out, peer>>

\* The stream has ended, or the connection is lost.
ReadEnd ==
  /\ reader /\ back = <<>> /\ (peer = "closed" \/ sock # "open")
  /\ reader' = FALSE /\ LetGo
  /\ IF Abandoned THEN UNCHANGED inbound
     ELSE \E e \in {"Disconnected", "Error"} : inbound' = Append(inbound, e)
  /\ UNCHANGED <<ownerVars, writerVars, out, back, peer>>

-----------------------------------------------------------------------------
(* The receiver and the network (see TransportSession).                    *)

\* A heartbeat is answered, Stop ends the session.
PeerRead ==
  /\ peer = "reading" /\ out # <<>> /\ out' = Tail(out)
  /\ peer' = CASE Head(out) = "Heartbeat" -> "acking"
               [] Head(out) = "Stop"      -> "closed"
               [] Head(out) = "Audio"     -> "reading"
  /\ UNCHANGED <<ownerVars, writerVars, readerVars, sock, back>>

\* The answer too waits for room.
PeerAnswers ==
  /\ peer = "acking"
  /\ IF sock = "open"
     THEN Len(back) < Room /\ back' = Append(back, "HeartbeatAck") /\ peer' = "reading"
     ELSE peer' = "closed" /\ UNCHANGED back
  /\ UNCHANGED <<ownerVars, writerVars, readerVars, sock, out>>

\* The receiver is stopped or fails, with a word or without.
PeerEnds ==
  /\ peer = "reading" /\ peer' = "closed"
  /\ \/ UNCHANGED back
     \/ Len(back) < Room /\ \E f \in {"Stop", "Error"} : back' = Append(back, f)
  /\ UNCHANGED <<ownerVars, writerVars, readerVars, sock, out>>

PeerSeesEnd ==
  /\ peer = "reading" /\ out = <<>> /\ sock # "open" /\ peer' = "closed"
  /\ UNCHANGED <<ownerVars, writerVars, readerVars, sock, out, back>>

\* The host is switched off or leaves the network: nothing is read or said again.
PeerLost ==
  /\ Alive /\ peer' = "lost"
  /\ UNCHANGED <<ownerVars, writerVars, readerVars, sock, out, back>>

Breaks ==
  /\ sock = "open" /\ out # <<>> /\ sock' = "broken"
  /\ UNCHANGED <<ownerVars, writerVars, readerVars, out, back, peer>>

\* What is sent to a closed socket is answered by a reset.
Reset == peer = "closed" /\ Breaks

\* What is never acknowledged makes the kernel give the connection up.
GiveUpConnection == peer = "lost" /\ Breaks

-----------------------------------------------------------------------------
Owner == \/ DrainReports \/ Beat \/ NotDue
         \/ Tell \/ JoinWriter \/ CloseSocket \/ JoinReader
Writer == TakeControl \/ NoControl \/ TakeFrame \/ Write \/ WriteFails
Reader == ReadFrame \/ ReadEnd
Peer == PeerRead \/ PeerAnswers \/ PeerSeesEnd

WorkersNext ==
  \/ Push \/ EndWithStop \/ EndAtOnce \/ Discard
  \/ Owner \/ Writer \/ Reader \/ Peer
  \/ PeerEnds \/ PeerLost \/ Reset \/ GiveUpConnection

WorkersSpec == WorkersInit /\ [][WorkersNext]_workersVars

\* The threads run on both hosts, heartbeats become due, a reset arrives.
ThreadSpec ==
  /\ WorkersSpec
  /\ WF_workersVars(Owner) /\ SF_workersVars(Beat)
  /\ WF_workersVars(Writer) /\ WF_workersVars(Reader)
  /\ WF_workersVars(Peer) /\ WF_workersVars(Reset)

\* And TCP gives a lost host up.
WorkersFairSpec == ThreadSpec /\ WF_workersVars(GiveUpConnection)

-----------------------------------------------------------------------------
(* Properties.                                                             *)

\* A receiver whose session was ended by shutdown_with_stop is told so, after all
\* that was sent before: joining the writer before the socket is shut down leaves
\* it the time, unless the connection failed first.
ReceiverIsTold ==
  how = "stop" /\ owner = "gone" /\ ~failed /\ Alive
    => out # <<>> /\ Last(out) = "Stop"

\* A receiver that ends the session, closes it or is lost is noticed, although no
\* missing acknowledgement is ever missed: heartbeats keep something unacknowledged
\* in the socket, and whichever worker meets the end reports it.
EndIsNoticed == (peer \in {"closed", "lost"}) ~> ~Live

\* Neither end waits for the other for ever: a write ends, whatever is queued in
\* both directions, because the reader takes the answers until the end.
WritesEnd == (writer \in Writing) ~> (writer \notin Writing)

\* A session that is being shut down, by the manager thread or by one of its own,
\* is gone in the end: its two threads are joined in an order that cannot block.
ShutdownReturns == (owner = "tell") ~> (owner = "gone")

\* No two of the sender's threads and the receiver wait for each other for ever,
\* with every socket and queue full (sender.rs 357-380, 660-679).
NobodyWaitsForEver == WritesEnd /\ ShutdownReturns

\* docs/transport-protocol.md:121-131: Stop, which can be sent by either side, ends a
\* session cleanly.  A receiver that said Stop is not shown as lost or failed.
StopIsTheReason ==
  [][(\E i \in DOMAIN inbound : inbound[i] = "Stop") /\ inbound' = <<>>
       => reason' = "Stop"]_workersVars
=============================================================================
