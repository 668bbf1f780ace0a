-------------------------- MODULE TransportSession --------------------------
(***************************************************************************)
(* The receiver's transport server (synchrosonic-transport, receiver.rs):  *)
(* start and stop, the listener thread that serves one sender at a time,   *)
(* the stream slot through which stop reaches the socket being read, and   *)
(* the session that the transport's events open and close in the receiver  *)
(* runtime.                                                                *)
(*                                                                         *)
(* A frame travels in two parts, its header and the rest (protocol.rs);    *)
(* each may be late.  The runtime takes an event at once: its channel is   *)
(* FIFO and only the order of the events matters here (ReceiverRuntime     *)
(* models the channel).  The runtime runs as long as the server does, so   *)
(* it takes every event submitted.                                         *)
(***************************************************************************)
EXTENDS Naturals, Sequences

CONSTANTS Peers,      \* senders that connect to this receiver
          Foreign,    \* those of another build: the receiver may refuse their Hello,
                      \* and they may send frames a session does not accept
          NoPeer,
          MaxFrames   \* bound: frames a sender begins after Hello in one connection

ASSUME PeersAssumption  == Foreign \subseteq Peers /\ NoPeer \notin Peers
ASSUME FramesAssumption == MaxFrames \in Nat

VARIABLES
  server,     \* stop(): off, on, signalled (message sent), dropped (sender of the
              \* stop channel gone), joining (slot emptied, waits in join)
  stopRx,     \* the stop channel: empty, stop
  pc,         \* the listener: listen (stop_rx), accept, hello, check (stop_rx), read, exited
  serving,    \* the sender whose socket handle_receiver_session owns
  slot,       \* active_stream
  shown,      \* connected_peer and session_id of the snapshot
  lastError,  \* last_error of the snapshot: none, io, protocol
  session,    \* the runtime's connection
  runtime,    \* error in the runtime's Error state, else ok
  backlog,    \* connections the kernel holds for accept
  link,       \* a sender's socket: closed, open, fin (closed or reset by the
              \* sender, or shut down by stop), lost (the sender's host is gone)
  wire,       \* parts that arrived and are not read yet
  half,       \* the frame whose rest is under way, or none
  sent,       \* frames begun
  accepted    \* senders that have been sent Accept

runtimeVars == <<session, runtime>>
handles     == <<serving, slot, shown>>
senderVars  == <<link, wire, half, sent, accepted>>
vars == <<server, stopRx, pc, handles, lastError, runtimeVars, backlog, senderVars>>

Kinds == {"hello", "audio", "heartbeat", "stop", "error", "unexpected"}
Parts == [kind : Kinds, part : {"head", "rest"}]

Part(k, p) == [kind |-> k, part |-> p]

Init ==
  /\ server = "off" /\ stopRx = "empty" /\ pc = "exited"
  /\ serving = NoPeer /\ slot = NoPeer /\ shown = NoPeer /\ lastError = "none"
  /\ session = NoPeer /\ runtime = "ok" /\ backlog = <<>>
  /\ link = [p \in Peers |-> "closed"] /\ wire = [p \in Peers |-> <<>>]
  /\ half = [p \in Peers |-> "none"] /\ sent = [p \in Peers |-> 0]
  /\ accepted = {}

-----------------------------------------------------------------------------
(* start_receiver_mode and stop_receiver_mode.                             *)

\* The runtime starts, then the server binds its port.
Start ==
  /\ server = "off" /\ server' = "on"
  /\ stopRx' = "empty" /\ pc' = "listen" /\ lastError' = "none"
  /\ session' = NoPeer /\ runtime' = "ok"
  /\ UNCHANGED <<handles, backlog, senderVars>>

StopSend ==
  /\ server = "on" /\ server' = "signalled" /\ stopRx' = "stop"
  /\ UNCHANGED <<pc, handles, lastError, runtimeVars, backlog, senderVars>>

\* The sender taken from stop_tx goes out of scope.
StopDrop ==
  /\ server = "signalled" /\ server' = "dropped"
  /\ UNCHANGED <<stopRx, pc, handles, lastError, runtimeVars, backlog, senderVars>>

\* The stream in the slot is shut down, whoever it belongs to.
StopSlot ==
  /\ server = "dropped" /\ server' = "joining"
  /\ slot' = NoPeer
  /\ link' = [p \in Peers |-> IF p = slot /\ link[p] # "closed" THEN "fin" ELSE link[p]]
  /\ UNCHANGED <<stopRx, pc, serving, shown, lastError, runtimeVars, backlog,
                 wire, half, sent, accepted>>

\* A bug: stop does not wait for the listener.
JoinedEarly ==
  /\ server = "joining" /\ server' = "off"
  /\ shown' = NoPeer /\ session' = NoPeer /\ runtime' = "ok"
  /\ UNCHANGED <<stopRx, pc, serving, slot, lastError, backlog, senderVars>>

\* join returns; then the runtime is stopped.
Joined ==
  /\ server = "joining" /\ pc = "exited" /\ server' = "off"
  /\ shown' = NoPeer /\ session' = NoPeer /\ runtime' = "ok"
  /\ UNCHANGED <<stopRx, pc, serving, slot, lastError, backlog, senderVars>>

-----------------------------------------------------------------------------
(* Senders and the network.                                                *)

Sender(p) ==
  /\ p \in Peers
  /\ UNCHANGED <<server, stopRx, pc, handles, lastError, runtimeVars>>

\* The kernel completes the connection, whatever the listener is doing.
Connect(p) ==
  /\ Sender(p) /\ pc # "exited" /\ link[p] = "closed"
  /\ link' = [link EXCEPT ![p] = "open"]
  /\ backlog' = Append(backlog, p)
  /\ UNCHANGED <<wire, half, sent, accepted>>

\* What the sender may write next: Hello, and the rest after Accept.
MaySay(p) ==
  IF sent[p] = 0 THEN {"hello"} \cup (IF p \in Foreign THEN {"unexpected"} ELSE {})
  ELSE IF p \notin accepted THEN {}
  ELSE {"audio", "heartbeat", "stop"}
       \cup (IF p \in Foreign THEN {"error", "unexpected"} ELSE {})

\* write_frame: the header and the rest are separate writes, and segments on the way.
WriteHead(p) ==
  /\ Sender(p) /\ link[p] = "open" /\ half[p] = "none" /\ sent[p] <= MaxFrames
  /\ \E k \in MaySay(p) :
       /\ wire' = [wire EXCEPT ![p] = Append(@, Part(k, "head"))]
       /\ half' = [half EXCEPT ![p] = k]
       /\ sent' = [sent EXCEPT ![p] = IF k = "stop" THEN MaxFrames + 1 ELSE @ + 1]
  /\ UNCHANGED <<link, accepted, backlog>>

WriteRest(p) ==
  /\ Sender(p) /\ link[p] = "open" /\ half[p] # "none"
  /\ wire' = [wire EXCEPT ![p] = Append(@, Part(half[p], "rest"))]
  /\ half' = [half EXCEPT ![p] = "none"]
  /\ UNCHANGED <<link, sent, accepted, backlog>>

\* The sender closes its socket; a reset loses what the receiver has not read.
Close(p) ==
  /\ Sender(p) /\ link[p] = "open"
  /\ link' = [link EXCEPT ![p] = "fin"]
  /\ \/ UNCHANGED wire
     \/ wire' = [wire EXCEPT ![p] = <<>>]
  /\ UNCHANGED <<half, sent, accepted, backlog>>

\* The sender's host leaves the network without a word.
Vanish(p) ==
  /\ Sender(p) /\ link[p] = "open"
  /\ link' = [link EXCEPT ![p] = "lost"]
  /\ UNCHANGED <<wire, half, sent, accepted, backlog>>

\* What the receiver wrote to a lost host was never acknowledged: after its
\* retransmissions the kernel gives the connection up.
GiveUp(p) ==
  /\ Sender(p) /\ link[p] = "lost" /\ p \in accepted
  /\ link' = [link EXCEPT ![p] = "fin"]
  /\ UNCHANGED <<wire, half, sent, accepted, backlog>>

Senders == \E p \in Peers : \/ Connect(p) \/ WriteHead(p) \/ WriteRest(p)
                            \/ Close(p) \/ Vanish(p) \/ GiveUp(p)

-----------------------------------------------------------------------------
(* The listener.                                                           *)

\* A bug: only a message stops the listener.
StopOnMessageOnly == stopRx = "stop"

\* try_recv finds the message, or the sender gone.
StopRequested == stopRx = "stop" \/ server \in {"dropped", "joining"}

\* Leaving the loop drops the listener: the kernel resets what it still holds.
Leave ==
  /\ pc = "listen" /\ StopRequested
  /\ pc' = "exited" /\ stopRx' = "empty" /\ shown' = NoPeer
  /\ link' = [p \in Peers |-> "closed"] /\ wire' = [p \in Peers |-> <<>>]
  /\ half' = [p \in Peers |-> "none"] /\ sent' = [p \in Peers |-> 0]
  /\ accepted' = {} /\ backlog' = <<>>
  /\ UNCHANGED <<server, serving, slot, lastError, runtimeVars>>

\* No stop at the top of the loop; one may come before accept is called.
Poll ==
  /\ pc = "listen" /\ ~StopRequested /\ pc' = "accept"
  /\ UNCHANGED <<server, stopRx, handles, lastError, runtimeVars, backlog, senderVars>>

\* Nobody waits, or accept fails.
AcceptNobody ==
  /\ pc = "accept" /\ pc' = "listen"
  /\ \/ backlog = <<>> /\ UNCHANGED lastError
     \/ lastError' = "io"
  /\ UNCHANGED <<server, stopRx, handles, runtimeVars, backlog, senderVars>>

\* accept; the slot stays empty when the stream cannot be cloned.
Accept ==
  /\ pc = "accept" /\ backlog # <<>>
  /\ pc' = "hello" /\ serving' = Head(backlog) /\ backlog' = Tail(backlog)
  /\ slot' \in {Head(backlog), NoPeer}
  /\ UNCHANGED <<server, stopRx, shown, lastError, runtimeVars, senderVars>>

Forget(p) ==
  /\ link' = [link EXCEPT ![p] = "closed"] /\ wire' = [wire EXCEPT ![p] = <<>>]
  /\ half' = [half EXCEPT ![p] = "none"] /\ sent' = [sent EXCEPT ![p] = 0]
  /\ accepted' = accepted \ {p}

\* handle_receiver_session returns, and the listener clears slot and snapshot.
End(error) ==
  /\ pc' = "listen" /\ serving' = NoPeer /\ slot' = NoPeer /\ shown' = NoPeer
  /\ lastError' = IF error = "none" THEN lastError ELSE error
  /\ Forget(serving)
  /\ UNCHANGED <<server, backlog>>

Input == wire[serving]
Framed == Len(Input) >= 2 /\ Head(Input).part = "head"
HasFrame(k) == Framed /\ Head(Input).kind = k
Frameless == Len(Input) < 2

\* A Hello is answered, and the runtime told; its sink may fail to start.
HelloArrives ==
  /\ pc = "hello" /\ HasFrame("hello")
  /\ pc' = "check" /\ shown' = serving /\ lastError' = "none"
  /\ wire' = [wire EXCEPT ![serving] = Tail(Tail(@))]
  /\ accepted' = accepted \cup {serving}
  /\ \/ session' = serving /\ runtime' = "ok"
     \/ session' = NoPeer /\ runtime' = "error"
  /\ UNCHANGED <<server, stopRx, serving, slot, backlog, link, half, sent>>

\* No Hello, one that is refused, or an Accept that cannot be written: no event.
HelloFails ==
  /\ pc = "hello"
  /\ \/ Frameless /\ End("io")
     \/ HasFrame("hello") /\ link[serving] = "fin" /\ End("io")
     \/ Framed /\ serving \in Foreign /\ End("protocol")
  /\ UNCHANGED <<stopRx, runtimeVars>>

\* The top of the session loop.  A stop ends it with no event.
CheckStop ==
  /\ pc = "check"
  /\ \/ /\ StopRequested /\ stopRx' = "empty" /\ End("none")
     \/ /\ ~StopRequested /\ pc' = "read"
        /\ UNCHANGED <<server, stopRx, handles, lastError, backlog, senderVars>>
  /\ UNCHANGED runtimeVars

Reading == pc = "read" /\ UNCHANGED stopRx

\* The frame read leaves the wire.
Consume(k) ==
  /\ Reading /\ HasFrame(k) /\ pc' = "check"
  /\ wire' = [wire EXCEPT ![serving] = Tail(Tail(@))]
  /\ UNCHANGED <<server, handles, lastError, backlog, link, half, sent, accepted>>

\* The runtime drops a packet without a connection, or plays it; see RuntimeFails.
Audio == Consume("audio") /\ UNCHANGED runtimeVars

\* KeepAlive is submitted; an Ack that cannot be written ends the session, no event.
Heartbeat ==
  /\ \/ Consume("heartbeat")
     \/ Reading /\ HasFrame("heartbeat") /\ link[serving] = "fin" /\ End("io")
  /\ UNCHANGED runtimeVars

Disconnected == session' = NoPeer /\ runtime' = "ok"
RuntimeError == session' = NoPeer /\ runtime' = "error"

\* A bug: the frame ends the session, but the runtime is not told.
StopUnreported == Reading /\ HasFrame("stop") /\ End("none") /\ UNCHANGED runtimeVars

StopFrame == Reading /\ HasFrame("stop") /\ End("none") /\ Disconnected
ErrorFrame == Reading /\ HasFrame("error") /\ End("none") /\ RuntimeError

\* Any other kind, or metadata that does not decode: an Err without an event.
RefusedFrame ==
  /\ Reading /\ serving \in Foreign
  /\ HasFrame("unexpected") /\ End("protocol")
  /\ UNCHANGED runtimeVars

\* A bug: the end of the stream is taken for a read timeout.
EofRetried ==
  /\ Reading /\ Frameless /\ link[serving] = "fin" /\ pc' = "check"
  /\ wire' = [wire EXCEPT ![serving] = <<>>]
  /\ UNCHANGED <<server, handles, lastError, backlog, link, half, sent, accepted, runtimeVars>>

\* UnexpectedEof or ConnectionReset, in the middle of a frame too.
Eof == Reading /\ Frameless /\ link[serving] = "fin" /\ End("none") /\ Disconnected

\* 200 ms without input.  read_exact has taken what it had read of the frame.
ReadTimeout ==
  /\ Reading /\ Frameless /\ link[serving] # "fin" /\ pc' = "check"
  /\ wire' = [wire EXCEPT ![serving] = <<>>]
  /\ UNCHANGED <<server, handles, lastError, backlog, link, half, sent, accepted, runtimeVars>>

\* The rest of a frame whose header was lost is read as a header.
Garbage ==
  /\ Reading /\ Input # <<>> /\ Head(Input).part = "rest"
  /\ End("protocol") /\ RuntimeError

\* Any other error of the socket.
ReadFails == Reading /\ Frameless /\ link[serving] = "fin" /\ End("io") /\ RuntimeError

SessionLoop == CheckStop \/ Audio \/ Heartbeat \/ StopFrame \/ ErrorFrame \/ RefusedFrame
               \/ Eof \/ ReadTimeout \/ Garbage \/ ReadFails
Listener == Leave \/ Poll \/ AcceptNobody \/ Accept \/ HelloArrives \/ HelloFails \/ SessionLoop

-----------------------------------------------------------------------------
(* The runtime on its own: the grace period, and playback that fails.      *)

GraceEnds ==
  /\ session # NoPeer /\ Disconnected
  /\ UNCHANGED <<server, stopRx, pc, handles, lastError, backlog, senderVars>>

RuntimeFails ==
  /\ session # NoPeer /\ RuntimeError
  /\ UNCHANGED <<server, stopRx, pc, handles, lastError, backlog, senderVars>>

Next == \/ Start \/ StopSend \/ StopDrop \/ StopSlot \/ Joined
        \/ Senders \/ Listener \/ GraceEnds \/ RuntimeFails

Spec == Init /\ [][Next]_vars

\* The listener thread is scheduled, and a stop() that began goes on.
FairSpec == /\ Spec /\ WF_vars(Listener)
            /\ WF_vars(StopDrop) /\ WF_vars(StopSlot) /\ WF_vars(Joined)

-----------------------------------------------------------------------------
TypeOK ==
  /\ server \in {"off", "on", "signalled", "dropped", "joining"}
  /\ stopRx \in {"empty", "stop"} /\ runtime \in {"ok", "error"}
  /\ pc \in {"listen", "accept", "hello", "check", "read", "exited"}
  /\ serving \in Peers \cup {NoPeer} /\ slot \in Peers \cup {NoPeer}
  /\ shown \in Peers \cup {NoPeer} /\ session \in Peers \cup {NoPeer}
  /\ lastError \in {"none", "io", "protocol"}
  /\ backlog \in Seq(Peers)
  /\ link \in [Peers -> {"closed", "open", "fin", "lost"}]
  /\ wire \in [Peers -> Seq(Parts)]
  /\ half \in [Peers -> Kinds \cup {"none"}]
  /\ sent \in [Peers -> 0..(MaxFrames + 1)]
  /\ accepted \subseteq Peers

\* stop can only shut down the socket being served, and the peer shown is the one
\* being streamed, however start, accept, a failing session and stop interleave:
\* a stale slot would shut down a later session (receiver.rs 141, 187, 205, 208).
HandleMatchesSession ==
  /\ slot # NoPeer => slot = serving
  /\ serving # NoPeer <=> pc \in {"hello", "check", "read"}
  /\ serving # NoPeer => link[serving] # "closed"
  /\ shown = IF pc \in {"check", "read"} THEN serving ELSE NoPeer

\* The runtime's session is that of the sender being served; one that outlives its
\* socket is left behind by an error, which the snapshot shows, or by stop, which
\* ends it next (receiver.rs 296-415, ui.rs 2531-2543).
SessionFollowsTransport ==
  /\ pc \in {"check", "read"} => session \in {serving, NoPeer}
  /\ serving = NoPeer /\ session # NoPeer => lastError # "none" \/ server # "on"

\* A stopped receiver holds no socket, no session and no waiting connection: a
\* listener that ran on would hold the port of the next start (134-159).
StoppedHoldsNothing ==
  server = "off" =>
    /\ pc = "exited" /\ serving = NoPeer /\ slot = NoPeer /\ session = NoPeer
    /\ backlog = <<>> /\ \A p \in Peers : link[p] = "closed"

\* Slot, snapshot and sockets agree while the listener runs and after stop,
\* however stop interleaves with accepting and failing sessions.
HandlesAgree == HandleMatchesSession /\ StoppedHoldsNothing

\* stop() returns, though the one message in the channel may be taken by the
\* session loop and the slot filled after stop has emptied it (134-159, 178-181).
StopCompletes == server = "signalled" ~> server = "off"

\* A sender that closed its socket frees the listener for the next one (381-393).
ClosedSenderReleasesListener ==
  \A p \in Peers : link[p] = "fin" /\ serving = p ~> serving # p

\* docs/transport-protocol.md:14 "reliability: ordered delivery and simple disconnect
\* behavior": no session with a sender of this build ends as a protocol violation.
FramesStayAligned ==
  [][\A p \in Peers \ Foreign :
       serving = p /\ serving' # p => lastError' # "protocol"]_vars

\* docs/configuration.md:135-136 "the receiver runtime clears its active transport/buffer
\* state and returns to listening mode": a receiver that shows neither a session nor an
\* error accepts a sender that waits.
ShowsListening == server = "on" /\ session = NoPeer /\ runtime = "ok" /\ lastError = "none"

ListeningAccepts ==
  \A p \in Peers :
    ShowsListening /\ backlog # <<>> /\ Head(backlog) = p ~> ~ShowsListening \/ serving = p
=============================================================================
