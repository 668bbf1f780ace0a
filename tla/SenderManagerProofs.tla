------------------------- MODULE SenderManagerProofs -------------------------
(***************************************************************************)
(* Proofs about SenderManager, for every set of targets and connections,   *)
(* every attempt limit and any number of calls.                            *)
(***************************************************************************)
EXTENDS SenderManager, TLAPS

\* The snapshot of an entry agrees with its kind.
EntryShape ==
  \A t \in Targets :
    /\ entry[t] = "absent"  => shown[t] = "none"
    /\ entry[t] = "pending" => shown[t] \in {"Connecting", "Error"}
    /\ entry[t] = "active"  => shown[t] \in {"Streaming", "Error"}
    /\ entry[t] = "failed"  => shown[t] = "Error"
    /\ inFlight[t] => entry[t] = "pending"

\* A connection under way or running knows its target and its attempt.
ConnShape ==
  \A c \in Conns :
    /\ conn[c].phase \in Outstanding =>
         conn[c].peer \in Targets /\ conn[c].attempt \in 1..MaxConnectAttempts
    /\ conn[c].phase = "active" => conn[c].peer \in Targets

\* Without a manager thread nothing is listed and nothing recorded.
ThreadShape ==
  /\ manager = "off" => pc = "exited"
  /\ pc = "exited" => capture = "none" /\ \A t \in Targets : entry[t] = "absent"

\* An active target in error is seen at the next tick; between a tick and the
\* next publication only the end of the capture sets one to error.
ErrorsExplained ==
  /\ pc = "capture" => \A t \in Active : shown[t] = "Streaming"
  /\ pc = "settle" => \A t \in Active : shown[t] = "Error" => capture # "running"

IInv == /\ TypeOK
        /\ EntryShape
        /\ ConnShape
        /\ ThreadShape
        /\ ErrorsExplained
        /\ InFlightHasAttempt
        /\ AttemptsLeft
        /\ SessionsOwned
        /\ StreamingHasCapture
        /\ CaptureReleased

\* The invariant holds before the first call.
LEMMA InitIInv == Init => IInv
<1> SUFFICES ASSUME Init PROVE IInv
  OBVIOUS
<1> USE NoConnAssumption, AttemptsAssumption, MaxOpsAssumption
<1>1. TypeOK
  BY DEF Init, TypeOK, Commands, States, Steps, Kinds, Shown, Phases, ConnRecord, FreeConn
<1>2. EntryShape /\ ConnShape /\ ThreadShape /\ ErrorsExplained
  BY DEF Init, EntryShape, ConnShape, ThreadShape, ErrorsExplained, Active,
         FreeConn, Outstanding, Posted
<1>3. InFlightHasAttempt /\ AttemptsLeft /\ SessionsOwned /\ StreamingHasCapture
      /\ CaptureReleased
  BY DEF Init, InFlightHasAttempt, AttemptsLeft, SessionsOwned, Active, FreeConn,
         StreamingHasCapture, CaptureReleased
<1> QED BY <1>1, <1>2, <1>3 DEF IInv

\* Steps that leave the entries, the connections and the capture alone.
LEMMA QuietStep ==
  ASSUME IInv, UNCHANGED <<targetVars, capture, conn, published>>,
         manager' \in {"off", "running", "stopping"},
         commands' \in Seq(Commands), ops' \in 0..MaxOps, pc' \in Steps,
         manager' = "off" => pc' = "exited",
         pc' \in {"exited", "capture", "settle", "commands"} => pc' = pc
  PROVE  IInv'
<1>1. TypeOK'
  BY DEF IInv, TypeOK, targetVars
<1>2. EntryShape' /\ ConnShape' /\ InFlightHasAttempt' /\ AttemptsLeft'
      /\ SessionsOwned' /\ StreamingHasCapture'
  BY DEF IInv, targetVars, EntryShape, ConnShape, InFlightHasAttempt, AttemptsLeft,
         SessionsOwned, StreamingHasCapture, Active
<1>3. ThreadShape' /\ ErrorsExplained' /\ CaptureReleased'
  BY DEF IInv, targetVars, ThreadShape, ErrorsExplained, CaptureReleased, Active
<1> QED BY <1>1, <1>2, <1>3 DEF IInv

-----------------------------------------------------------------------------
(* Facts about the operators.                                              *)

\* A connection slot that is not in use.
LEMMA FreeConnTyped == FreeConn \in ConnRecord /\ FreeConn.phase = "free"
BY AttemptsAssumption DEF FreeConn, ConnRecord, Phases

\* Leave keeps the peer and changes the phase.
LEMMA LeaveFacts ==
  ASSUME TypeOK, NEW c \in Conns, NEW ph \in Phases
  PROVE  /\ Leave(c, ph) \in ConnRecord
         /\ Leave(c, ph).phase = ph
         /\ Leave(c, ph).peer = conn[c].peer
<1>1. conn[c].peer \in Targets \cup {NoDevice}
  BY DEF TypeOK, ConnRecord
<1> QED BY <1>1, AttemptsAssumption DEF Leave, ConnRecord

\* Overwriting the entry of t orphans its session and touches no other.
LEMMA DropHeldFacts ==
  ASSUME TypeOK, NEW t \in Targets
  PROVE  /\ DropHeld(t) \in [Conns -> ConnRecord]
         /\ \A c \in Conns : c # holds[t] => DropHeld(t)[c] = conn[c]
         /\ \A c \in Conns : c = holds[t] => DropHeld(t)[c].phase = "orphan"
<1>1. "orphan" \in Phases
  BY DEF Phases
<1>2. \A c \in Conns : conn[c] \in ConnRecord
  BY DEF TypeOK
<1> QED BY <1>1, <1>2, LeaveFacts DEF DropHeld

\* Failed entries are entries.
LEMMA InsertFailedTyped ==
  ASSUME TypeOK, NEW ts \in SUBSET Targets, InsertFailed(ts)
  PROVE  /\ entry' \in [Targets -> Kinds] /\ shown' \in [Targets -> Shown]
         /\ tries' \in [Targets -> 0..MaxConnectAttempts]
         /\ inFlight' \in [Targets -> BOOLEAN] /\ due' \in [Targets -> BOOLEAN]
         /\ holds' \in [Targets -> Conns \cup {NoConn}]
<1>1. entry' \in [Targets -> Kinds] /\ shown' \in [Targets -> Shown]
  BY DEF TypeOK, InsertFailed, Kinds, Shown
<1>2. tries' \in [Targets -> 0..MaxConnectAttempts]
  BY AttemptsAssumption DEF TypeOK, InsertFailed
<1>3. inFlight' \in [Targets -> BOOLEAN] /\ due' \in [Targets -> BOOLEAN]
  BY Zenon DEF TypeOK, InsertFailed
<1>4. holds' \in [Targets -> Conns \cup {NoConn}]
  BY DEF TypeOK, InsertFailed
<1> QED BY <1>1, <1>2, <1>3, <1>4

\* The head of the control channel is a command.
LEMMA TakeFacts ==
  ASSUME IInv, NEW op, Take(op)
  PROVE  /\ Head(commands) \in Commands /\ commands' \in Seq(Commands)
         /\ Head(commands).op = op /\ pc = "commands"
         /\ UNCHANGED <<manager, ops, published, capture>>
         /\ op # "shutdown" => Head(commands).target \in Targets
<1>1. commands \in Seq(Commands) /\ commands # <<>>
  BY DEF IInv, TypeOK, Take
<1>2. Head(commands) \in Commands /\ Tail(commands) \in Seq(Commands)
  BY <1>1
<1> QED BY <1>2 DEF Take, Commands

\* A session that is no longer running under t, and nothing else about other
\* targets: what every replacement of one entry relies on.
LEMMA OwnedElsewhere ==
  ASSUME IInv, NEW t \in Targets, NEW c \in Conns, conn[c].phase = "active", c # holds[t]
  PROVE  conn[c].peer \in Targets \ {t} /\ holds[conn[c].peer] = c
BY DEF IInv, SessionsOwned, ConnShape


\* No two active entries share a session.
LEMMA HoldsDistinct ==
  ASSUME IInv, NEW u \in Targets, NEW t \in Targets, u # t, entry[u] = "active"
  PROVE  holds[u] \in Conns /\ holds[u] # holds[t] /\ conn[holds[u]].phase = "active"
<1>1. holds[u] \in Conns /\ conn[holds[u]].peer = u /\ conn[holds[u]].phase = "active"
  BY DEF IInv, SessionsOwned, Active, TypeOK
<1>2. CASE entry[t] = "active"
  <2>1. conn[holds[t]].peer = t
    BY <1>2 DEF IInv, SessionsOwned, Active
  <2> QED BY <1>1, <2>1
<1>3. CASE entry[t] # "active"
  <2>1. holds[t] = NoConn
    BY <1>3 DEF IInv, SessionsOwned
  <2> QED BY <1>1, <2>1, NoConnAssumption
<1> QED BY <1>2, <1>3

-----------------------------------------------------------------------------
(* One lemma per action: it preserves the invariant.                       *)

\* start() without a manager.
LEMMA StartKeeps ==
  ASSUME NEW t \in Targets, IInv, Start(t)
  PROVE  IInv'
<1> USE NoConnAssumption, AttemptsAssumption, MaxOpsAssumption DEF Start, InsertPending
<1>0. \A u \in Targets : entry[u] = "absent" /\ holds[u] = NoConn
  BY DEF IInv, ThreadShape, SessionsOwned, TypeOK
<1>1. TypeOK'
  BY DEF IInv, TypeOK, Commands, Kinds, Shown, States, Steps
<1>2. EntryShape' /\ ConnShape' /\ ThreadShape' /\ ErrorsExplained'
  BY DEF IInv, TypeOK, EntryShape, ConnShape, ThreadShape, ErrorsExplained, Active
<1>3. InFlightHasAttempt' /\ AttemptsLeft' /\ StreamingHasCapture' /\ CaptureReleased'
  BY DEF IInv, TypeOK, EntryShape, InFlightHasAttempt, AttemptsLeft,
         StreamingHasCapture, CaptureReleased, ThreadShape
<1>4. SessionsOwned'
  <2>1. \A c \in Conns : conn[c].phase # "active"
    BY <1>0 DEF IInv, SessionsOwned, ConnShape
  <2>2. \A u \in Targets : entry'[u] # "active" /\ holds'[u] = NoConn
    BY <1>0 DEF IInv, TypeOK
  <2> QED BY <2>1, <2>2 DEF SessionsOwned, Active
<1> QED BY <1>1, <1>2, <1>3, <1>4 DEF IInv

\* queue_target_connect, also when it replaces an active entry in error.
LEMMA AddKeeps ==
  ASSUME IInv, HandleAdd
  PROVE  IInv'
<1> USE NoConnAssumption, AttemptsAssumption, MaxOpsAssumption
<1> DEFINE t == Head(commands).target
<1>0. /\ t \in Targets /\ commands' \in Seq(Commands) /\ pc = "commands" /\ pc' = pc
      /\ UNCHANGED <<manager, ops, published, capture>>
  BY TakeFacts DEF HandleAdd
<1>1. CASE UNCHANGED <<targetVars, conn>>
  BY <1>0, <1>1, QuietStep DEF IInv, TypeOK, ThreadShape
<1>2. CASE /\ shown[t] \notin {"Connecting", "Streaming"}
           /\ InsertPending(t) /\ conn' = DropHeld(t)
  <2> HIDE DEF t
  <2>0. /\ DropHeld(t) \in [Conns -> ConnRecord]
        /\ \A c \in Conns : c # holds[t] => DropHeld(t)[c] = conn[c]
        /\ \A c \in Conns : c = holds[t] => DropHeld(t)[c].phase = "orphan"
    BY <1>0, DropHeldFacts DEF IInv
  <2>1. TypeOK'
    BY <1>0, <1>2, <2>0 DEF IInv, TypeOK, InsertPending, Kinds, Shown
  <2>2. EntryShape' /\ AttemptsLeft'
    BY <1>0, <1>2 DEF IInv, TypeOK, InsertPending, EntryShape, AttemptsLeft
  <2>3. ConnShape'
    BY <1>2, <2>0 DEF IInv, ConnShape, Outstanding, Posted
  <2>4. ThreadShape' /\ ErrorsExplained' /\ CaptureReleased'
    BY <1>0 DEF IInv, ThreadShape, ErrorsExplained, CaptureReleased
  <2>5. InFlightHasAttempt'
    <3> SUFFICES ASSUME NEW u \in Targets, inFlight'[u]
                 PROVE  \E c \in Conns : conn'[c].peer = u /\ conn'[c].phase \in Outstanding
      BY DEF InFlightHasAttempt
    <3>1. u # t /\ inFlight[u]
      BY <1>0, <1>2 DEF InsertPending, IInv, TypeOK
    <3>2. PICK c \in Conns : conn[c].peer = u /\ conn[c].phase \in Outstanding
      BY <3>1 DEF IInv, InFlightHasAttempt
    <3>3. c # holds[t]
      BY <1>0, <3>2 DEF IInv, SessionsOwned, Active, Outstanding, Posted, TypeOK
    <3> QED BY <1>2, <2>0, <3>2, <3>3
  <2>6. SessionsOwned'
    <3>1. \A u \in Targets : u # t => entry'[u] = entry[u] /\ holds'[u] = holds[u]
      BY <1>0, <1>2 DEF InsertPending, IInv, TypeOK
    <3>2. entry'[t] = "pending" /\ holds'[t] = NoConn
      BY <1>0, <1>2 DEF InsertPending, IInv, TypeOK
    <3>3. \A u \in Targets : u # t /\ entry[u] = "active" => holds[u] \in Conns /\ holds[u] # holds[t]
      BY <1>0, HoldsDistinct
    <3>4. \A c \in Conns : conn'[c].phase = "active" =>
             c # holds[t] /\ conn[c].phase = "active" /\ conn'[c] = conn[c]
      BY <1>2, <2>0
    <3>5. \A c \in Conns : conn'[c].phase = "active" => holds'[conn'[c].peer] = c
      BY <1>0, <3>1, <3>4, OwnedElsewhere
    <3>6. \A u \in Targets : entry'[u] = "active" => conn'[holds'[u]] = conn[holds[u]] /\ u # t
      BY <1>2, <2>0, <3>1, <3>2, <3>3
    <3> QED BY <3>1, <3>2, <3>5, <3>6 DEF IInv, SessionsOwned, Active
  <2>7. StreamingHasCapture'
    BY <1>0, <1>2 DEF IInv, TypeOK, InsertPending, StreamingHasCapture
  <2> QED BY <2>1, <2>2, <2>3, <2>4, <2>5, <2>6, <2>7 DEF IInv
<1> QED BY <1>0, <1>1, <1>2 DEF HandleAdd

\* RemoveTarget: the entry goes, an active session is closing.
LEMMA RemoveKeeps ==
  ASSUME IInv, HandleRemove
  PROVE  IInv'
<1> USE NoConnAssumption, AttemptsAssumption, MaxOpsAssumption
<1> DEFINE t == Head(commands).target
<1>0. /\ t \in Targets /\ commands' \in Seq(Commands) /\ pc = "commands" /\ pc' = pc
      /\ UNCHANGED <<manager, ops, published, capture>>
  BY TakeFacts DEF HandleRemove
<1>a. Clear(t) /\ conn' = [c \in Conns |-> IF c = holds[t] THEN Leave(c, "closing") ELSE conn[c]]
  BY DEF HandleRemove
<1> HIDE DEF t
<1>b. "closing" \in Phases
  BY DEF Phases
<1>c. /\ conn' \in [Conns -> ConnRecord]
      /\ \A c \in Conns : c # holds[t] => conn'[c] = conn[c]
      /\ \A c \in Conns : c = holds[t] => conn'[c].phase = "closing"
  BY <1>0, <1>a, <1>b, LeaveFacts DEF IInv, TypeOK
<1>1. TypeOK'
  BY <1>0, <1>a, <1>c DEF IInv, TypeOK, Clear, Kinds, Shown
<1>2. EntryShape' /\ AttemptsLeft'
  BY <1>0, <1>a DEF IInv, TypeOK, Clear, EntryShape, AttemptsLeft
<1>3. ConnShape'
  BY <1>c DEF IInv, ConnShape, Outstanding, Posted
<1>4. ThreadShape' /\ ErrorsExplained' /\ CaptureReleased'
  BY <1>0 DEF IInv, ThreadShape, ErrorsExplained, CaptureReleased
<1>5. InFlightHasAttempt'
  <2> SUFFICES ASSUME NEW u \in Targets, inFlight'[u]
               PROVE  \E c \in Conns : conn'[c].peer = u /\ conn'[c].phase \in Outstanding
    BY DEF InFlightHasAttempt
  <2>1. u # t /\ inFlight[u]
    BY <1>0, <1>a DEF Clear, IInv, TypeOK
  <2>2. PICK c \in Conns : conn[c].peer = u /\ conn[c].phase \in Outstanding
    BY <2>1 DEF IInv, InFlightHasAttempt
  <2>3. c # holds[t]
    BY <1>0, <2>2 DEF IInv, SessionsOwned, Active, Outstanding, Posted, TypeOK
  <2> QED BY <1>c, <2>2, <2>3
<1>6. SessionsOwned'
  <2>1. \A u \in Targets : u # t => entry'[u] = entry[u] /\ holds'[u] = holds[u]
    BY <1>0, <1>a DEF Clear, IInv, TypeOK
  <2>2. entry'[t] = "absent" /\ holds'[t] = NoConn
    BY <1>0, <1>a DEF Clear, IInv, TypeOK
  <2>3. \A u \in Targets : u # t /\ entry[u] = "active" => holds[u] \in Conns /\ holds[u] # holds[t]
    BY <1>0, HoldsDistinct
  <2>4. \A c \in Conns : conn'[c].phase = "active" =>
           c # holds[t] /\ conn[c].phase = "active" /\ conn'[c] = conn[c]
    BY <1>c
  <2>5. \A c \in Conns : conn'[c].phase = "active" => holds'[conn'[c].peer] = c
    BY <1>0, <2>1, <2>4, OwnedElsewhere
  <2>6. \A u \in Targets : entry'[u] = "active" => conn'[holds'[u]] = conn[holds[u]] /\ u # t
    BY <1>c, <2>1, <2>2, <2>3
  <2> QED BY <2>1, <2>2, <2>5, <2>6 DEF IInv, SessionsOwned, Active
<1>7. StreamingHasCapture'
  BY <1>0, <1>a DEF IInv, TypeOK, Clear, StreamingHasCapture
<1> QED BY <1>1, <1>2, <1>3, <1>4, <1>5, <1>6, <1>7 DEF IInv

\* mark_in_flight and the spawned thread together keep InFlightHasAttempt.
LEMMA AttemptKeeps ==
  ASSUME NEW t \in Targets, IInv, StartAttempt(t)
  PROVE  IInv'
<1> USE NoConnAssumption, AttemptsAssumption, MaxOpsAssumption
<1>0. PICK c \in Conns :
        /\ conn[c].phase = "free"
        /\ conn' = [conn EXCEPT ![c] = [phase |-> "connecting", peer |-> t,
                                        attempt |-> tries[t] + 1, broken |-> FALSE]]
  BY DEF StartAttempt
<1>a. tries[t] + 1 \in 1..MaxConnectAttempts
  BY DEF StartAttempt, Due, IInv, AttemptsLeft, TypeOK
<1>b. /\ conn' \in [Conns -> ConnRecord]
      /\ conn'[c].phase = "connecting" /\ conn'[c].peer = t /\ conn'[c].attempt = tries[t] + 1
      /\ \A d \in Conns : d # c => conn'[d] = conn[d]
  BY <1>0, <1>a DEF IInv, TypeOK, ConnRecord, Phases
<1> USE DEF StartAttempt, Due, uiVars
<1>1. TypeOK'
  BY <1>a, <1>b DEF IInv, TypeOK, Shown
<1>2. EntryShape' /\ AttemptsLeft'
  BY DEF IInv, TypeOK, EntryShape, AttemptsLeft
<1>3. ConnShape'
  BY <1>a, <1>b DEF IInv, ConnShape, Outstanding, Posted
<1>4. ThreadShape' /\ ErrorsExplained' /\ CaptureReleased' /\ StreamingHasCapture'
  BY DEF IInv, TypeOK, ThreadShape, ErrorsExplained, CaptureReleased, StreamingHasCapture
<1>5. InFlightHasAttempt'
  <2> SUFFICES ASSUME NEW u \in Targets, inFlight'[u]
               PROVE  \E d \in Conns : conn'[d].peer = u /\ conn'[d].phase \in Outstanding
    BY DEF InFlightHasAttempt
  <2>1. CASE u = t
    BY <1>b, <2>1 DEF Outstanding
  <2>2. CASE u # t
    <3>1. PICK d \in Conns : conn[d].peer = u /\ conn[d].phase \in Outstanding
      BY <2>2 DEF IInv, InFlightHasAttempt, TypeOK
    <3>2. d # c
      BY <1>0, <3>1 DEF Outstanding, Posted
    <3> QED BY <1>b, <3>1, <3>2
  <2> QED BY <2>1, <2>2
<1>6. SessionsOwned'
  BY <1>0, <1>b DEF IInv, TypeOK, SessionsOwned, Active
<1> QED BY <1>1, <1>2, <1>3, <1>4, <1>5, <1>6 DEF IInv

\* A session for a target that was removed meanwhile is closed again.
LEMMA LateKeeps ==
  ASSUME IInv, NEW c \in Conns, conn[c].phase = "connected", LateConnected(c),
         UNCHANGED <<uiVars, published, pc>>
  PROVE  IInv'
<1> USE NoConnAssumption, AttemptsAssumption, MaxOpsAssumption
<1> USE DEF LateConnected, targetVars, uiVars
<1>0. "closing" \in Phases /\ conn[c].peer \in Targets /\ entry[conn[c].peer] = "absent"
  BY DEF Phases, IInv, ConnShape, Outstanding, Posted, LateConnected, StillListed, TypeOK, Kinds
<1>a. /\ conn' \in [Conns -> ConnRecord] /\ conn'[c].phase = "closing"
      /\ \A d \in Conns : d # c => conn'[d] = conn[d]
  BY <1>0, LeaveFacts DEF IInv, TypeOK
<1>1. TypeOK'
  BY <1>a DEF IInv, TypeOK
<1>2. EntryShape' /\ AttemptsLeft' /\ ThreadShape' /\ ErrorsExplained' /\ CaptureReleased'
      /\ StreamingHasCapture'
  BY DEF IInv, EntryShape, AttemptsLeft, ThreadShape, ErrorsExplained, CaptureReleased,
         StreamingHasCapture, Active
<1>3. ConnShape'
  BY <1>a DEF IInv, ConnShape, Outstanding, Posted
<1>4. InFlightHasAttempt'
  <2> SUFFICES ASSUME NEW u \in Targets, inFlight'[u]
               PROVE  \E d \in Conns : conn'[d].peer = u /\ conn'[d].phase \in Outstanding
    BY DEF InFlightHasAttempt
  <2>1. PICK d \in Conns : conn[d].peer = u /\ conn[d].phase \in Outstanding
    BY DEF IInv, InFlightHasAttempt
  <2>2. entry[u] = "pending"
    BY DEF IInv, EntryShape
  <2> QED BY <1>0, <1>a, <2>1, <2>2
<1>5. SessionsOwned'
  BY <1>a DEF IInv, TypeOK, SessionsOwned, Active
<1> QED BY <1>1, <1>2, <1>3, <1>4, <1>5 DEF IInv

\* insert_active over any entry, with or without a capture to feed it.
LEMMA ActivateKeeps ==
  ASSUME IInv, NEW c \in Conns, pc = "results", conn[c].phase = "connected", Activate(c),
         UNCHANGED <<uiVars, published, pc>>
  PROVE  IInv'
<1> USE NoConnAssumption, AttemptsAssumption, MaxOpsAssumption
<1> DEFINE t == conn[c].peer
<1>0. t \in Targets /\ conn[c] \in ConnRecord
  BY DEF IInv, ConnShape, Outstanding, Posted, TypeOK
<1>a. /\ InsertActive(t, c)
      /\ conn' = [DropHeld(t) EXCEPT ![c] = [phase |-> "active", peer |-> t, attempt |-> 0,
                                             broken |-> conn[c].broken]]
      /\ \/ /\ capture' = IF capture = "none" THEN "running" ELSE capture
            /\ shown' = [shown EXCEPT ![t] = "Streaming"]
         \/ /\ capture = "none" /\ capture' = capture
            /\ shown' = [u \in Targets |->
                           IF u = t \/ entry[u] = "active" THEN "Error" ELSE shown[u]]
  BY DEF Activate, CaptureForSession
<1>b. [phase |-> "active", peer |-> t, attempt |-> 0, broken |-> conn[c].broken] \in ConnRecord
  BY <1>0 DEF ConnRecord, Phases
<1>c. /\ conn' \in [Conns -> ConnRecord]
      /\ conn'[c].phase = "active" /\ conn'[c].peer = t
      /\ \A d \in Conns : d # c /\ d # holds[t] => conn'[d] = conn[d]
      /\ \A d \in Conns : d # c /\ d = holds[t] => conn'[d].phase = "orphan"
  BY <1>0, <1>a, <1>b, DropHeldFacts DEF IInv, ConnRecord
<1> HIDE DEF t
<1>d. /\ entry'[t] = "active" /\ ~inFlight'[t] /\ holds'[t] = c
      /\ \A u \in Targets : u # t => /\ entry'[u] = entry[u] /\ inFlight'[u] = inFlight[u]
                                    /\ holds'[u] = holds[u] /\ tries'[u] = tries[u]
  BY <1>0, <1>a DEF InsertActive, IInv, TypeOK
<1>e. \A u \in Targets : u # t /\ entry[u] # "active" => shown'[u] = shown[u]
  BY <1>0, <1>a DEF IInv, TypeOK
<1>1. TypeOK'
  <2>1. shown' \in [Targets -> Shown]
    BY <1>0, <1>a DEF IInv, TypeOK, Shown
  <2>2. capture' \in {"none", "running", "ended"}
    BY <1>a DEF IInv, TypeOK
  <2>3. /\ entry' \in [Targets -> Kinds] /\ tries' \in [Targets -> 0..MaxConnectAttempts]
        /\ inFlight' \in [Targets -> BOOLEAN] /\ due' \in [Targets -> BOOLEAN]
        /\ holds' \in [Targets -> Conns \cup {NoConn}]
    BY <1>0, <1>a DEF IInv, TypeOK, InsertActive, Kinds
  <2> QED BY <1>c, <2>1, <2>2, <2>3 DEF IInv, TypeOK, uiVars
<1>2. EntryShape'
  <2>1. shown'[t] \in {"Streaming", "Error"}
    BY <1>0, <1>a DEF IInv, TypeOK
  <2>2. \A u \in Targets : u # t /\ entry[u] = "active" => shown'[u] \in {"Streaming", "Error"}
    BY <1>0, <1>a DEF IInv, TypeOK, EntryShape
  <2>3. SUFFICES ASSUME NEW u \in Targets
        PROVE /\ entry'[u] = "absent"  => shown'[u] = "none"
              /\ entry'[u] = "pending" => shown'[u] \in {"Connecting", "Error"}
              /\ entry'[u] = "active"  => shown'[u] \in {"Streaming", "Error"}
              /\ entry'[u] = "failed"  => shown'[u] = "Error"
              /\ inFlight'[u] => entry'[u] = "pending"
    BY DEF EntryShape
  <2>4. CASE u = t
    BY <2>1, <2>4, <1>d
  <2>5. CASE u # t /\ entry[u] = "active"
    BY <2>2, <2>5, <1>d DEF IInv, EntryShape
  <2>6. CASE u # t /\ entry[u] # "active"
    BY <2>6, <1>d, <1>e DEF IInv, EntryShape
  <2> QED BY <2>4, <2>5, <2>6
<1>3. ConnShape'
  BY <1>0, <1>c DEF IInv, ConnShape, Outstanding, Posted
<1>4. ThreadShape' /\ ErrorsExplained' /\ CaptureReleased'
  BY DEF IInv, ThreadShape, ErrorsExplained, CaptureReleased, uiVars
<1>5. InFlightHasAttempt'
  <2> SUFFICES ASSUME NEW u \in Targets, inFlight'[u]
               PROVE  \E d \in Conns : conn'[d].peer = u /\ conn'[d].phase \in Outstanding
    BY DEF InFlightHasAttempt
  <2>1. u # t /\ inFlight[u]
    BY <1>d
  <2>2. PICK d \in Conns : conn[d].peer = u /\ conn[d].phase \in Outstanding
    BY <2>1 DEF IInv, InFlightHasAttempt
  <2>3. d # holds[t]
    BY <1>0, <2>2 DEF IInv, SessionsOwned, Active, Outstanding, Posted, TypeOK
  <2>4. d # c
    BY <2>1, <2>2 DEF t
  <2> QED BY <1>c, <2>2, <2>3, <2>4
<1>6. AttemptsLeft'
  BY <1>d DEF IInv, AttemptsLeft
<1>7. SessionsOwned'
  <2>1. \A u \in Targets : u # t /\ entry[u] = "active" =>
           holds[u] \in Conns /\ holds[u] # holds[t] /\ holds[u] # c
    BY <1>0, HoldsDistinct
  <2>2. \A u \in Targets : entry'[u] = "active" <=> holds'[u] # NoConn
    BY <1>d DEF IInv, SessionsOwned
  <2>3. \A u \in Targets : entry'[u] = "active" =>
           conn'[holds'[u]].phase = "active" /\ conn'[holds'[u]].peer = u
    BY <1>c, <1>d, <2>1 DEF IInv, SessionsOwned, Active
  <2>4. ASSUME NEW d \in Conns, conn'[d].phase = "active"
        PROVE  holds'[conn'[d].peer] = d
    <3>1. CASE d = c
      BY <1>c, <1>d, <3>1
    <3>2. CASE d # c
      <4>1. d # holds[t] /\ conn'[d] = conn[d]
        BY <1>c, <2>4, <3>2
      <4> QED BY <1>0, <1>d, <2>4, <4>1, OwnedElsewhere
    <3> QED BY <3>1, <3>2
  <2> QED BY <2>2, <2>3, <2>4 DEF SessionsOwned, Active
<1>8. StreamingHasCapture'
  <2>1. CASE capture' # "none"
    BY <2>1 DEF StreamingHasCapture
  <2>2. CASE capture' = "none"
    <3>1. \A u \in Targets : shown[u] # "Streaming"
      BY <1>a, <2>2 DEF IInv, StreamingHasCapture
    <3>2. \A u \in Targets : shown'[u] # "Streaming"
      BY <1>a, <2>2, <3>1
    <3> QED BY <3>2 DEF StreamingHasCapture
  <2> QED BY <2>1, <2>2
<1> QED BY <1>1, <1>2, <1>3, <1>4, <1>5, <1>6, <1>7, <1>8 DEF IInv

\* A failed attempt: of a target no longer listed, to be retried, or given up.
LEMMA FailedKeeps ==
  ASSUME IInv, NEW c \in Conns, pc = "results", HandleFailed(c),
         UNCHANGED <<uiVars, published, pc>>
  PROVE  IInv'
<1> USE NoConnAssumption, AttemptsAssumption, MaxOpsAssumption
<1> DEFINE t == conn[c].peer
<1>0. /\ t \in Targets /\ conn[c].phase \in {"retryable", "fatal"}
      /\ conn[c].attempt \in 1..MaxConnectAttempts
      /\ capture' = capture
  BY DEF HandleFailed, IInv, ConnShape, Outstanding, Posted
<1>a. ThreadShape' /\ CaptureReleased' /\ ErrorsExplained'
  BY DEF IInv, ThreadShape, CaptureReleased, ErrorsExplained, uiVars
<1>b. \A u \in Targets : entry[u] = "active" => holds[u] \in Conns /\ holds[u] # c
  BY <1>0 DEF IInv, SessionsOwned, Active, TypeOK
<1>1. CASE (~StillListed(t) \/ entry[t] # "pending")
           /\ conn' = [conn EXCEPT ![c] = FreeConn] /\ UNCHANGED targetVars
  <2>a. /\ conn' \in [Conns -> ConnRecord] /\ conn'[c].phase = "free"
        /\ \A d \in Conns : d # c => conn'[d] = conn[d]
    BY <1>1, FreeConnTyped DEF IInv, TypeOK
  <2>1. TypeOK'
    BY <1>0, <1>1, <2>a DEF IInv, TypeOK, targetVars, uiVars
  <2>2. EntryShape' /\ AttemptsLeft' /\ StreamingHasCapture'
    BY <1>0, <1>1 DEF IInv, EntryShape, AttemptsLeft, StreamingHasCapture, targetVars
  <2>3. ConnShape'
    BY <2>a DEF IInv, ConnShape, Outstanding, Posted
  <2>4. InFlightHasAttempt'
    <3> SUFFICES ASSUME NEW u \in Targets, inFlight'[u]
                 PROVE  \E d \in Conns : conn'[d].peer = u /\ conn'[d].phase \in Outstanding
      BY DEF InFlightHasAttempt
    <3>1. PICK d \in Conns : conn[d].peer = u /\ conn[d].phase \in Outstanding
      BY <1>1 DEF IInv, InFlightHasAttempt, targetVars
    <3>2. entry[u] = "pending"
      BY <1>1 DEF IInv, EntryShape, targetVars
    <3>3. u # t
      BY <1>1, <3>2 DEF StillListed
    <3> QED BY <2>a, <3>1, <3>3
  <2>5. SessionsOwned'
    BY <1>1, <1>b, <2>a DEF IInv, SessionsOwned, Active, targetVars
  <2> QED BY <1>a, <2>1, <2>2, <2>3, <2>4, <2>5 DEF IInv
<1>2. CASE /\ CanRetry(c) /\ entry[t] = "pending"
           /\ conn' = [conn EXCEPT ![c] = FreeConn]
           /\ shown' = [shown EXCEPT ![t] = "Error"]
           /\ tries' = [tries EXCEPT ![t] = conn[c].attempt]
           /\ inFlight' = [inFlight EXCEPT ![t] = FALSE]
           /\ due' = [due EXCEPT ![t] = FALSE]
           /\ UNCHANGED <<entry, holds>>
  <2>a. /\ conn' \in [Conns -> ConnRecord] /\ conn'[c].phase = "free"
        /\ \A d \in Conns : d # c => conn'[d] = conn[d]
    BY <1>2, FreeConnTyped DEF IInv, TypeOK
  <2> HIDE DEF t
  <2>1. TypeOK'
    BY <1>0, <1>2, <2>a DEF IInv, TypeOK, Shown, uiVars
  <2>2. EntryShape' /\ StreamingHasCapture'
    BY <1>0, <1>2 DEF IInv, TypeOK, EntryShape, StreamingHasCapture
  <2>3. AttemptsLeft'
    BY <1>0, <1>2 DEF IInv, TypeOK, AttemptsLeft, CanRetry
  <2>4. ConnShape'
    BY <2>a DEF IInv, ConnShape, Outstanding, Posted
  <2>5. InFlightHasAttempt'
    <3> SUFFICES ASSUME NEW u \in Targets, inFlight'[u]
                 PROVE  \E d \in Conns : conn'[d].peer = u /\ conn'[d].phase \in Outstanding
      BY DEF InFlightHasAttempt
    <3>1. u # t /\ inFlight[u]
      BY <1>0, <1>2 DEF IInv, TypeOK
    <3>2. PICK d \in Conns : conn[d].peer = u /\ conn[d].phase \in Outstanding
      BY <3>1 DEF IInv, InFlightHasAttempt
    <3> QED BY <2>a, <3>1, <3>2 DEF t
  <2>6. SessionsOwned'
    BY <1>2, <1>b, <2>a DEF IInv, SessionsOwned, Active
  <2> QED BY <1>a, <2>1, <2>2, <2>3, <2>4, <2>5, <2>6 DEF IInv
<1>3. CASE InsertFailed({t}) /\ conn' = [DropHeld(t) EXCEPT ![c] = FreeConn]
  <2>a. /\ conn' \in [Conns -> ConnRecord] /\ conn'[c].phase = "free"
        /\ \A d \in Conns : d # c /\ d # holds[t] => conn'[d] = conn[d]
        /\ \A d \in Conns : d # c /\ d = holds[t] => conn'[d].phase = "orphan"
    BY <1>0, <1>3, FreeConnTyped, DropHeldFacts DEF IInv
  <2> HIDE DEF t
  <2>b. /\ entry'[t] = "failed" /\ shown'[t] = "Error" /\ ~inFlight'[t] /\ holds'[t] = NoConn
        /\ \A u \in Targets : u # t =>
             /\ entry'[u] = entry[u] /\ shown'[u] = shown[u] /\ inFlight'[u] = inFlight[u]
             /\ holds'[u] = holds[u] /\ tries'[u] = tries[u]
    BY <1>0, <1>3 DEF InsertFailed
  <2>1. TypeOK'
    <3>1. /\ entry' \in [Targets -> Kinds] /\ shown' \in [Targets -> Shown]
          /\ tries' \in [Targets -> 0..MaxConnectAttempts]
          /\ inFlight' \in [Targets -> BOOLEAN] /\ due' \in [Targets -> BOOLEAN]
          /\ holds' \in [Targets -> Conns \cup {NoConn}]
      BY <1>0, <1>3, InsertFailedTyped DEF IInv
    <3> QED BY <1>0, <2>a, <3>1 DEF IInv, TypeOK, uiVars
  <2>2. EntryShape' /\ AttemptsLeft' /\ StreamingHasCapture'
    BY <1>0, <2>b DEF IInv, EntryShape, AttemptsLeft, StreamingHasCapture
  <2>3. ConnShape'
    BY <2>a DEF IInv, ConnShape, Outstanding, Posted
  <2>4. InFlightHasAttempt'
    <3> SUFFICES ASSUME NEW u \in Targets, inFlight'[u]
                 PROVE  \E d \in Conns : conn'[d].peer = u /\ conn'[d].phase \in Outstanding
      BY DEF InFlightHasAttempt
    <3>1. u # t /\ inFlight[u]
      BY <2>b
    <3>2. PICK d \in Conns : conn[d].peer = u /\ conn[d].phase \in Outstanding
      BY <3>1 DEF IInv, InFlightHasAttempt
    <3>3. d # holds[t]
      BY <1>0, <3>2 DEF IInv, SessionsOwned, Active, Outstanding, Posted, TypeOK
    <3> QED BY <2>a, <3>1, <3>2, <3>3 DEF t
  <2>5. SessionsOwned'
    <3>1. \A u \in Targets : u # t /\ entry[u] = "active" =>
             holds[u] \in Conns /\ holds[u] # holds[t] /\ holds[u] # c
      BY <1>0, <1>b, HoldsDistinct
    <3>2. \A u \in Targets : entry'[u] = "active" <=> holds'[u] # NoConn
      BY <2>b DEF IInv, SessionsOwned
    <3>3. \A u \in Targets : entry'[u] = "active" =>
             conn'[holds'[u]].phase = "active" /\ conn'[holds'[u]].peer = u
      BY <2>a, <2>b, <3>1 DEF IInv, SessionsOwned, Active
    <3>4. ASSUME NEW d \in Conns, conn'[d].phase = "active"
          PROVE  holds'[conn'[d].peer] = d
      <4>1. d # c /\ d # holds[t] /\ conn'[d] = conn[d]
        BY <2>a, <3>4
      <4> QED BY <1>0, <2>b, <3>4, <4>1, OwnedElsewhere
    <3> QED BY <3>2, <3>3, <3>4 DEF SessionsOwned, Active
  <2> QED BY <1>a, <2>1, <2>2, <2>3, <2>4, <2>5 DEF IInv
<1> QED BY <1>1, <1>2, <1>3 DEF HandleFailed, Retry, GiveUp

\* The tick replaces every active entry whose session has failed.
LEMMA TickKeeps ==
  ASSUME IInv, Tick
  PROVE  IInv'
<1> USE NoConnAssumption, AttemptsAssumption, MaxOpsAssumption
<1> DEFINE failed == NotStreaming
<1>0. /\ failed \in SUBSET Targets /\ \A t \in failed : entry[t] = "active"
      /\ \A t \in Active : shown[t] = "Error" => t \in failed
      /\ InsertFailed(failed)
      /\ conn' = [c \in Conns |-> IF \E t \in failed : holds[t] = c THEN FreeConn ELSE conn[c]]
      /\ pc' = "capture" /\ UNCHANGED <<uiVars, published, capture>>
  BY DEF Tick, NotStreaming, Active
<1> HIDE DEF failed
<1>a. /\ conn' \in [Conns -> ConnRecord]
      /\ \A c \in Conns : (\E t \in failed : holds[t] = c) => conn'[c].phase = "free"
      /\ \A c \in Conns : ~(\E t \in failed : holds[t] = c) => conn'[c] = conn[c]
  BY <1>0, FreeConnTyped DEF IInv, TypeOK
<1>b. /\ \A t \in failed : /\ entry'[t] = "failed" /\ shown'[t] = "Error"
                            /\ ~inFlight'[t] /\ holds'[t] = NoConn
      /\ \A t \in Targets \ failed :
            /\ entry'[t] = entry[t] /\ shown'[t] = shown[t] /\ tries'[t] = tries[t]
            /\ inFlight'[t] = inFlight[t] /\ holds'[t] = holds[t]
  BY <1>0 DEF InsertFailed
<1>1. TypeOK'
  <2>1. /\ entry' \in [Targets -> Kinds] /\ shown' \in [Targets -> Shown]
        /\ tries' \in [Targets -> 0..MaxConnectAttempts]
        /\ inFlight' \in [Targets -> BOOLEAN] /\ due' \in [Targets -> BOOLEAN]
        /\ holds' \in [Targets -> Conns \cup {NoConn}]
    BY <1>0, InsertFailedTyped DEF IInv
  <2> QED BY <1>0, <1>a, <2>1 DEF IInv, TypeOK, uiVars, Steps
<1>2. EntryShape' /\ AttemptsLeft'
  BY <1>b DEF IInv, EntryShape, AttemptsLeft
<1>3. StreamingHasCapture'
  BY <1>0, <1>b DEF IInv, StreamingHasCapture
<1>4. ConnShape'
  BY <1>a DEF IInv, ConnShape, Outstanding, Posted
<1>5. ThreadShape' /\ CaptureReleased'
  BY <1>0, <1>b DEF IInv, ThreadShape, CaptureReleased, uiVars, Tick
<1>6. ErrorsExplained'
  <2>1. \A t \in Targets : entry'[t] = "active" => shown'[t] = "Streaming"
    BY <1>0, <1>b DEF IInv, EntryShape, Active
  <2> QED BY <1>0, <2>1 DEF ErrorsExplained, Active
<1>7. InFlightHasAttempt'
  <2> SUFFICES ASSUME NEW u \in Targets, inFlight'[u]
               PROVE  \E d \in Conns : conn'[d].peer = u /\ conn'[d].phase \in Outstanding
    BY DEF InFlightHasAttempt
  <2>1. inFlight[u]
    BY <1>b
  <2>2. PICK d \in Conns : conn[d].peer = u /\ conn[d].phase \in Outstanding
    BY <2>1 DEF IInv, InFlightHasAttempt
  <2>3. \A t \in failed : holds[t] # d
    BY <1>0, <2>2 DEF IInv, SessionsOwned, Active, Outstanding, Posted
  <2> QED BY <1>a, <2>2, <2>3
<1>8. SessionsOwned'
  <2>1. \A u \in Targets : entry'[u] = "active" <=> holds'[u] # NoConn
    BY <1>b DEF IInv, SessionsOwned
  <2>2. ASSUME NEW u \in Targets, entry'[u] = "active"
        PROVE  conn'[holds'[u]].phase = "active" /\ conn'[holds'[u]].peer = u
    <3>1. u \notin failed /\ entry[u] = "active" /\ holds'[u] = holds[u]
      BY <1>b, <2>2
    <3>2. holds[u] \in Conns /\ \A t \in failed : holds[t] # holds[u]
      BY <1>0, <3>1, HoldsDistinct DEF IInv, SessionsOwned, TypeOK
    <3>3. conn'[holds[u]] = conn[holds[u]]
      BY <1>a, <3>2
    <3> QED BY <3>1, <3>3 DEF IInv, SessionsOwned, Active
  <2>3. ASSUME NEW d \in Conns, conn'[d].phase = "active"
        PROVE  holds'[conn'[d].peer] = d
    <3>1. conn'[d] = conn[d] /\ ~(\E t \in failed : holds[t] = d)
      BY <1>a, <2>3
    <3>2. conn[d].peer \in Targets /\ holds[conn[d].peer] = d
      BY <2>3, <3>1 DEF IInv, SessionsOwned, ConnShape
    <3> QED BY <1>b, <3>1, <3>2
  <2> QED BY <2>1, <2>2, <2>3 DEF SessionsOwned, Active
<1> QED BY <1>1, <1>2, <1>3, <1>4, <1>5, <1>6, <1>7, <1>8 DEF IInv

\* The end of the capture is passed on to every active session.
LEMMA FanOutKeeps ==
  ASSUME IInv, FanOut
  PROVE  IInv'
<1> USE DEF FanOut, uiVars
<1>1. TypeOK'
  BY DEF IInv, TypeOK, Shown, Steps
<1>2. EntryShape' /\ ConnShape' /\ ThreadShape'
  BY DEF IInv, TypeOK, EntryShape, ConnShape, ThreadShape
<1>3. ErrorsExplained'
  BY DEF IInv, ErrorsExplained, TypeOK, Active, EntryShape
<1>4. InFlightHasAttempt' /\ AttemptsLeft' /\ SessionsOwned'
  BY DEF IInv, InFlightHasAttempt, AttemptsLeft, SessionsOwned, Active
<1>5. StreamingHasCapture' /\ CaptureReleased'
  BY DEF IInv, TypeOK, StreamingHasCapture, CaptureReleased
<1> QED BY <1>1, <1>2, <1>3, <1>4, <1>5 DEF IInv

\* The capture stops when nobody is active or pending, and the state is published.
LEMMA SettleKeeps ==
  ASSUME IInv, Settle
  PROVE  IInv'
<1>0. /\ pc = "settle" /\ pc' = "commands"
      /\ capture' = IF CaptureIdle THEN "none" ELSE capture
      /\ published' = DeriveState
      /\ UNCHANGED <<uiVars, targetVars, conn>>
  BY DEF Settle
<1>1. TypeOK'
  <2>1. published' \in States
    BY <1>0 DEF DeriveState, States
  <2>2. capture' \in {"none", "running", "ended"}
    BY <1>0 DEF IInv, TypeOK
  <2> QED BY <1>0, <2>1, <2>2 DEF IInv, TypeOK, Steps, uiVars, targetVars
<1>2. EntryShape' /\ ConnShape' /\ ThreadShape' /\ ErrorsExplained'
  BY <1>0 DEF IInv, EntryShape, ConnShape, ThreadShape, ErrorsExplained, uiVars, targetVars
<1>3. InFlightHasAttempt' /\ AttemptsLeft' /\ SessionsOwned'
  BY <1>0 DEF IInv, InFlightHasAttempt, AttemptsLeft, SessionsOwned, Active, targetVars
<1>4. StreamingHasCapture'
  <2>1. CASE CaptureIdle
    <3>1. \A t \in Targets : shown[t] # "Streaming"
      BY <2>1 DEF CaptureIdle, Active, Pending, IInv, EntryShape, TypeOK, Kinds
    <3> QED BY <1>0, <3>1 DEF StreamingHasCapture, targetVars
  <2>2. CASE ~CaptureIdle
    BY <1>0, <2>2 DEF IInv, StreamingHasCapture, targetVars
  <2> QED BY <2>1, <2>2
<1>5. CaptureReleased'
  <2>1. SUFFICES ASSUME DeriveState \in {"Idle", "Error"}, ~CaptureIdle, capture = "running"
                 PROVE  FALSE
    BY <1>0 DEF CaptureReleased
  <2>2. PICK t \in Targets : entry[t] \in {"active", "pending"}
    BY <2>1 DEF CaptureIdle, Active, Pending
  <2>3. Pending = {} /\ \A u \in Targets : shown[u] # "Streaming"
    BY <2>1, <2>2 DEF DeriveState
  <2>4. t \in Active /\ shown[t] = "Error"
    BY <2>2, <2>3 DEF Pending, Active, IInv, EntryShape
  <2> QED BY <1>0, <2>1, <2>4 DEF IInv, ErrorsExplained
<1> QED BY <1>1, <1>2, <1>3, <1>4, <1>5 DEF IInv

\* shutdown_all and the end of the thread.
LEMMA ShutdownKeeps ==
  ASSUME IInv, ShutdownAll
  PROVE  IInv'
<1> USE NoConnAssumption, AttemptsAssumption
<1>0. /\ capture' = "none" /\ ClearAll /\ published' = "Idle" /\ pc' = "exited"
      /\ UNCHANGED uiVars
  BY DEF ShutdownAll
<1>a. \A c \in Conns : /\ conn'[c] \in ConnRecord
                       /\ conn'[c].phase \notin Outstanding \cup {"active"}
  <2> SUFFICES ASSUME NEW c \in Conns
               PROVE  /\ conn'[c] \in ConnRecord
                      /\ conn'[c].phase \notin Outstanding \cup {"active"}
    OBVIOUS
  <2>1. conn[c] \in ConnRecord /\ conn[c].phase \in Phases
    BY DEF IInv, TypeOK, ConnRecord
  <2>2. "abandoned" \in Phases /\ "orphan" \in Phases
    BY DEF Phases
  <2>3. CASE conn[c].phase \in {"active", "retryable", "fatal"}
    <3>1. conn'[c] = FreeConn
      BY <2>3 DEF ShutdownAll
    <3> QED BY <3>1, FreeConnTyped DEF Outstanding, Posted
  <2>4. CASE conn[c].phase = "connecting"
    <3>1. conn'[c] = Leave(c, "abandoned")
      BY <2>4 DEF ShutdownAll
    <3> QED BY <2>2, <3>1, LeaveFacts DEF Outstanding, Posted, IInv
  <2>5. CASE conn[c].phase = "connected"
    <3>1. conn'[c] = Leave(c, "orphan")
      BY <2>5 DEF ShutdownAll
    <3> QED BY <2>2, <3>1, LeaveFacts DEF Outstanding, Posted, IInv
  <2>6. CASE conn[c].phase \in {"free", "closing", "abandoned", "orphan"}
    <3>1. conn'[c] = conn[c]
      BY <2>6 DEF ShutdownAll
    <3> QED BY <2>1, <2>6, <3>1 DEF Outstanding, Posted
  <2> QED BY <2>1, <2>3, <2>4, <2>5, <2>6 DEF Phases
<1>1. TypeOK'
  <2>1. conn' \in [Conns -> ConnRecord]
    <3>1. conn' = [c \in Conns |-> conn'[c]]
      BY DEF ShutdownAll
    <3> QED BY <1>a, <3>1
  <2>2. /\ entry' \in [Targets -> Kinds] /\ shown' \in [Targets -> Shown]
        /\ tries' \in [Targets -> 0..MaxConnectAttempts]
        /\ inFlight' \in [Targets -> BOOLEAN] /\ due' \in [Targets -> BOOLEAN]
        /\ holds' \in [Targets -> Conns \cup {NoConn}]
    BY <1>0 DEF ClearAll, Kinds, Shown
  <2> QED BY <1>0, <2>1, <2>2 DEF IInv, TypeOK, States, Steps, uiVars
<1>2. EntryShape' /\ ThreadShape' /\ AttemptsLeft' /\ StreamingHasCapture'
      /\ InFlightHasAttempt' /\ CaptureReleased'
  BY <1>0 DEF ClearAll, EntryShape, ThreadShape, AttemptsLeft, StreamingHasCapture,
              InFlightHasAttempt, CaptureReleased
<1>3. ErrorsExplained'
  BY <1>0 DEF ErrorsExplained
<1>4. ConnShape'
  BY <1>a DEF ConnShape
<1>5. SessionsOwned'
  BY <1>0, <1>a DEF ClearAll, SessionsOwned, Active
<1> QED BY <1>1, <1>2, <1>3, <1>4, <1>5 DEF IInv

\* Connect threads, shutdown threads and receivers move one connection: a running
\* session stays with its entry, an outstanding attempt stays outstanding.
LEMMA BecomesKeeps ==
  ASSUME IInv, NEW c \in Conns, NEW from, NEW new \in ConnRecord, Becomes(c, from, new),
         new.phase = "active" <=> conn[c].phase = "active",
         new.phase \in Outstanding <=> conn[c].phase \in Outstanding,
         new.phase \in Outstanding \cup {"active"} =>
            new.peer = conn[c].peer /\ new.attempt = conn[c].attempt
  PROVE  IInv'
<1> USE DEF Becomes, uiVars, targetVars
<1>0. /\ conn' \in [Conns -> ConnRecord] /\ conn'[c] = new
      /\ \A d \in Conns : d # c => conn'[d] = conn[d]
  BY DEF IInv, TypeOK
<1>1. TypeOK'
  BY <1>0 DEF IInv, TypeOK
<1>2. EntryShape' /\ ThreadShape' /\ ErrorsExplained' /\ AttemptsLeft'
      /\ StreamingHasCapture' /\ CaptureReleased'
  BY DEF IInv, EntryShape, ThreadShape, ErrorsExplained, AttemptsLeft,
         StreamingHasCapture, CaptureReleased, Active
<1>3. ConnShape'
  BY <1>0 DEF IInv, ConnShape
<1>4. InFlightHasAttempt'
  BY <1>0 DEF IInv, InFlightHasAttempt
<1>5. SessionsOwned'
  BY <1>0 DEF IInv, SessionsOwned, Active, TypeOK
<1> QED BY <1>1, <1>2, <1>3, <1>4, <1>5 DEF IInv

\* connect() returns a session.
LEMMA ConnectSucceedsKeeps ==
  ASSUME IInv, NEW c \in Conns, ConnectSucceeds(c)
  PROVE  IInv'
<1>0. conn[c] \in ConnRecord /\ "orphan" \in Phases /\ "connected" \in Phases
  BY DEF IInv, TypeOK, Phases
<1>1. CASE Becomes(c, {"connecting"}, [conn[c] EXCEPT !.phase = "connected"])
  <2> DEFINE new == [conn[c] EXCEPT !.phase = "connected"]
  <2>1. /\ new \in ConnRecord /\ new.phase = "connected" /\ new.peer = conn[c].peer
        /\ new.attempt = conn[c].attempt
    BY <1>0 DEF ConnRecord
  <2>2. conn[c].phase = "connecting"
    BY <1>1 DEF Becomes
  <2> HIDE DEF new
  <2>3. Becomes(c, {"connecting"}, new)
    BY <1>1 DEF new
  <2> QED BY <2>1, <2>2, <2>3, BecomesKeeps DEF Outstanding, Posted
<1>2. CASE Becomes(c, {"abandoned"}, Leave(c, "orphan"))
  <2>1. Leave(c, "orphan") \in ConnRecord /\ Leave(c, "orphan").phase = "orphan"
    BY <1>0, LeaveFacts DEF IInv
  <2>2. conn[c].phase = "abandoned"
    BY <1>2 DEF Becomes
  <2> QED BY <1>2, <2>1, <2>2, BecomesKeeps DEF Outstanding, Posted
<1> QED BY <1>1, <1>2 DEF ConnectSucceeds

\* connect() fails, for a retry or for good.
LEMMA ConnectFailsKeeps ==
  ASSUME IInv, NEW c \in Conns, ConnectFails(c)
  PROVE  IInv'
<1>0. conn[c] \in ConnRecord
  BY DEF IInv, TypeOK
<1>1. ASSUME NEW ph \in {"retryable", "fatal"},
             Becomes(c, {"connecting"}, [conn[c] EXCEPT !.phase = ph])
      PROVE  IInv'
  <2> DEFINE new == [conn[c] EXCEPT !.phase = ph]
  <2>1. /\ new \in ConnRecord /\ new.phase = ph /\ new.peer = conn[c].peer
        /\ new.attempt = conn[c].attempt
    BY <1>0 DEF ConnRecord, Phases
  <2>2. conn[c].phase = "connecting"
    BY <1>1 DEF Becomes
  <2> HIDE DEF new
  <2>3. Becomes(c, {"connecting"}, new)
    BY <1>1 DEF new
  <2> QED BY <2>1, <2>2, <2>3, BecomesKeeps DEF Outstanding, Posted
<1>2. CASE Becomes(c, {"abandoned"}, FreeConn)
  <2>1. conn[c].phase = "abandoned"
    BY <1>2 DEF Becomes
  <2> QED BY <1>2, <2>1, FreeConnTyped, BecomesKeeps DEF Outstanding, Posted
<1> QED BY <1>1, <1>2 DEF ConnectFails

\* A shutdown thread ends, a receiver fails.
LEMMA ConnEndsKeeps ==
  ASSUME IInv, NEW c \in Conns, ClosingDone(c) \/ ReceiverFails(c)
  PROVE  IInv'
<1>0. conn[c] \in ConnRecord
  BY DEF IInv, TypeOK
<1>1. CASE \E ph \in {"closing", "orphan"} : Becomes(c, {ph}, FreeConn)
  <2>1. conn[c].phase \in {"closing", "orphan"}
    BY <1>1 DEF Becomes
  <2> QED BY <1>1, <2>1, FreeConnTyped, BecomesKeeps DEF Outstanding, Posted
<1>2. CASE Becomes(c, {"active", "connected"}, [conn[c] EXCEPT !.broken = TRUE])
  <2> DEFINE new == [conn[c] EXCEPT !.broken = TRUE]
  <2>1. /\ new \in ConnRecord /\ new.phase = conn[c].phase /\ new.peer = conn[c].peer
        /\ new.attempt = conn[c].attempt
    BY <1>0 DEF ConnRecord
  <2> HIDE DEF new
  <2>2. Becomes(c, {"active", "connected"}, new)
    BY <1>2 DEF new
  <2> QED BY <2>1, <2>2, BecomesKeeps
<1> QED BY <1>1, <1>2 DEF ClosingDone, ReceiverFails

\* stop() after join.
LEMMA JoinedKeeps ==
  ASSUME IInv, Joined
  PROVE  IInv'
<1> USE DEF Joined, targetVars
<1>1. TypeOK'
  BY DEF IInv, TypeOK, States
<1>2. EntryShape' /\ ConnShape' /\ ThreadShape' /\ ErrorsExplained' /\ CaptureReleased'
  BY DEF IInv, EntryShape, ConnShape, ThreadShape, ErrorsExplained, Active, CaptureReleased
<1>3. InFlightHasAttempt' /\ AttemptsLeft' /\ SessionsOwned' /\ StreamingHasCapture'
  BY DEF IInv, InFlightHasAttempt, AttemptsLeft, SessionsOwned, Active, StreamingHasCapture
<1> QED BY <1>1, <1>2, <1>3 DEF IInv

\* The end of the stream and the passing of a backoff.
LEMMA ClockKeeps ==
  ASSUME IInv, CaptureEnds \/ \E t \in Targets : BackoffElapses(t)
  PROVE  IInv'
<1>1. CASE CaptureEnds
  <2> USE <1>1 DEF CaptureEnds, uiVars, targetVars
  <2>1. TypeOK' /\ StreamingHasCapture' /\ CaptureReleased'
    BY DEF IInv, TypeOK, StreamingHasCapture, CaptureReleased, ThreadShape
  <2>2. EntryShape' /\ ConnShape' /\ ThreadShape' /\ ErrorsExplained'
    BY DEF IInv, EntryShape, ConnShape, ThreadShape, ErrorsExplained, Active
  <2>3. InFlightHasAttempt' /\ AttemptsLeft' /\ SessionsOwned'
    BY DEF IInv, InFlightHasAttempt, AttemptsLeft, SessionsOwned, Active
  <2> QED BY <2>1, <2>2, <2>3 DEF IInv
<1>2. ASSUME NEW t \in Targets, BackoffElapses(t)
      PROVE  IInv'
  <2> USE <1>2 DEF BackoffElapses, uiVars
  <2>1. TypeOK' /\ StreamingHasCapture' /\ CaptureReleased'
    BY DEF IInv, TypeOK, StreamingHasCapture, CaptureReleased
  <2>2. EntryShape' /\ ConnShape' /\ ThreadShape' /\ ErrorsExplained'
    BY DEF IInv, EntryShape, ConnShape, ThreadShape, ErrorsExplained, Active
  <2>3. InFlightHasAttempt' /\ AttemptsLeft' /\ SessionsOwned'
    BY DEF IInv, InFlightHasAttempt, AttemptsLeft, SessionsOwned, Active
  <2> QED BY <2>1, <2>2, <2>3 DEF IInv
<1> QED BY <1>1, <1>2

\* The commands of the user interface only queue.
LEMMA SendKeeps ==
  ASSUME IInv, Stop \/ \E t \in Targets : AddTarget(t) \/ StopTarget(t)
  PROVE  IInv'
<1>0. PICK op \in {"add", "remove", "shutdown"} :
        \E u \in Targets \cup {NoDevice} :
           /\ [op |-> op, target |-> u] \in Commands
           /\ Send(op, u) /\ manager' \in {"running", "stopping"}
  BY DEF Stop, AddTarget, StopTarget, Send, Commands
<1>1. commands' \in Seq(Commands) /\ ops' \in 0..MaxOps
  BY <1>0, MaxOpsAssumption DEF IInv, TypeOK, Send
<1> QED BY <1>0, <1>1, QuietStep DEF Send, IInv, TypeOK, ThreadShape, targetVars

\* The manager moves to its next phase.
LEMMA PhaseKeeps ==
  ASSUME IInv, CommandsDone \/ PendingDone \/ ResultsDone \/ HandleShutdown
  PROVE  IInv'
<1>1. CASE CommandsDone \/ PendingDone \/ ResultsDone
  <2>1. pc' \in {"pending", "results", "tick"} /\ pc \in {"commands", "pending", "results"}
    BY <1>1 DEF CommandsDone, PendingDone, ResultsDone
  <2>2. UNCHANGED <<manager, commands, ops, published, targetVars, capture, conn>>
    BY <1>1 DEF CommandsDone, PendingDone, ResultsDone, uiVars
  <2> QED BY <2>1, <2>2, QuietStep DEF IInv, TypeOK, ThreadShape, Steps
<1>2. CASE HandleShutdown
  <2>1. /\ commands' \in Seq(Commands) /\ pc' = "shutdown" /\ pc = "commands"
        /\ UNCHANGED <<manager, ops, published, targetVars, capture, conn>>
    BY <1>2, TakeFacts DEF HandleShutdown
  <2> QED BY <2>1, QuietStep DEF IInv, TypeOK, ThreadShape, Steps
<1> QED BY <1>1, <1>2

-----------------------------------------------------------------------------
(* The invariant.                                                          *)

\* Every step, and stuttering, preserves the invariant.
LEMMA StepIInv == IInv /\ [Next]_vars => IInv'
<1> SUFFICES ASSUME IInv, [Next]_vars PROVE IInv'
  OBVIOUS
<1>1. CASE UNCHANGED vars
  BY <1>1, QuietStep DEF vars, uiVars, IInv, TypeOK, ThreadShape
<1>2. CASE \E t \in Targets : Start(t)
  BY <1>2, StartKeeps
<1>3. CASE Stop \/ \E t \in Targets : AddTarget(t) \/ StopTarget(t)
  BY <1>3, SendKeeps
<1>4. CASE Joined
  BY <1>4, JoinedKeeps
<1>5. CASE ManagerStep
  <2>1. ASSUME NEW c \in Conns, TakeResult(c)
        PROVE  IInv'
    <3>1. CASE HandleConnected(c)
      BY <2>1, <3>1, LateKeeps, ActivateKeeps DEF TakeResult, HandleConnected
    <3>2. CASE HandleFailed(c)
      BY <2>1, <3>2, FailedKeeps DEF TakeResult
    <3> QED BY <2>1, <3>1, <3>2 DEF TakeResult
  <2>2. CASE \E t \in Targets : StartAttempt(t)
    BY <2>2, AttemptKeeps
  <2>3. CASE HandleAdd \/ HandleRemove
    BY <2>3, AddKeeps, RemoveKeeps
  <2>4. CASE CommandsDone \/ PendingDone \/ ResultsDone \/ HandleShutdown
    BY <2>4, PhaseKeeps
  <2>5. CASE Tick \/ FanOut \/ Settle \/ ShutdownAll
    BY <2>5, TickKeeps, FanOutKeeps, SettleKeeps, ShutdownKeeps
  <2> QED BY <1>5, <2>1, <2>2, <2>3, <2>4, <2>5 DEF ManagerStep
<1>6. CASE \E c \in Conns : \/ ConnectSucceeds(c) \/ ConnectFails(c)
                          \/ ClosingDone(c) \/ ReceiverFails(c)
  BY <1>6, ConnectSucceedsKeeps, ConnectFailsKeeps, ConnEndsKeeps
<1>7. CASE CaptureEnds \/ \E t \in Targets : BackoffElapses(t)
  BY <1>7, ClockKeeps
<1> QED BY <1>1, <1>2, <1>3, <1>4, <1>5, <1>6, <1>7 DEF Next

\* The inductive invariant holds in every state of the manager.
THEOREM InvariantHolds == Spec => []IInv
<1> QED BY InitIInv, StepIInv, PTL DEF Spec

\* Every variable keeps its type, for any number of targets and connections.
THEOREM TypeCorrect == Spec => []TypeOK
<1>1. IInv => TypeOK
  BY DEF IInv
<1> QED BY <1>1, InvariantHolds, PTL

\* A target that waits for an attempt has one (mark_in_flight, schedule_retry).
THEOREM AttemptsTracked == Spec => []InFlightHasAttempt
<1>1. IInv => InFlightHasAttempt
  BY DEF IInv
<1> QED BY <1>1, InvariantHolds, PTL

\* A target offered for another attempt is below MAX_CONNECT_ATTEMPTS.
THEOREM AttemptsBounded == Spec => []AttemptsLeft
<1>1. IInv => AttemptsLeft
  BY DEF IInv
<1> QED BY <1>1, InvariantHolds, PTL

\* A pending target's account of its attempts is true, for every set of targets
\* and connections (process_connect_results).
THEOREM AttemptsAreTrue == Spec => []AttemptsAccounted
<1>1. InFlightHasAttempt /\ AttemptsLeft => AttemptsAccounted
  BY DEF AttemptsAccounted
<1> QED BY <1>1, AttemptsTracked, AttemptsBounded, PTL

\* Running sessions and active entries correspond one to one, however entries are
\* replaced by late results (insert_active, insert_failed, remove).
THEOREM SessionsAccounted == Spec => []SessionsOwned
<1>1. IInv => SessionsOwned
  BY DEF IInv
<1> QED BY <1>1, InvariantHolds, PTL

\* A streaming target is fed, and an idle manager records nothing
\* (ensure_capture_running, stop_capture_if_idle, shutdown_all).
THEOREM CaptureMatchesTargets == Spec => []CaptureFollowsTargets
<1>1. IInv => CaptureFollowsTargets
  BY DEF IInv, CaptureFollowsTargets
<1> QED BY <1>1, InvariantHolds, PTL

\* A target is listed by start() only, never by the late result of an attempt
\* that was under way when it was removed (process_connect_results).
THEOREM RemovalFinal == Spec => RemovedStaysRemoved
<1> DEFINE Step == \A t \in Targets : entry[t] = "absent" /\ entry'[t] # "absent" =>
                      \/ manager = "off"
                      \/ pc = "commands" /\ Head(commands) = [op |-> "add", target |-> t]
<1>1. IInv /\ [Next]_vars => [Step]_vars
  <2> SUFFICES ASSUME IInv, [Next]_vars, NEW t \in Targets,
                      entry[t] = "absent", entry'[t] # "absent", manager # "off"
               PROVE  pc = "commands" /\ Head(commands) = [op |-> "add", target |-> t]
    OBVIOUS
  <2>1. CASE HandleAdd
    <3>1. /\ Head(commands) \in Commands /\ Head(commands).op = "add" /\ pc = "commands"
          /\ Head(commands).target \in Targets
      BY <2>1, TakeFacts DEF HandleAdd
    <3>2. Head(commands).target = t
      BY <2>1, <3>1 DEF HandleAdd, InsertPending, targetVars, IInv, TypeOK
    <3> QED BY <3>1, <3>2 DEF Commands
  <2>2. CASE HandleRemove
    BY <2>2 DEF HandleRemove, Clear, IInv, TypeOK
  <2>3. CASE \E c \in Conns : TakeResult(c)
    <3>1. PICK c \in Conns : TakeResult(c)
      BY <2>3
    <3>2. CASE HandleConnected(c)
      BY <3>2 DEF HandleConnected, LateConnected, Activate, StillListed, InsertActive,
                  targetVars, IInv, TypeOK
    <3>3. CASE HandleFailed(c)
      <4>1. CASE UNCHANGED targetVars \/ Retry(c)
        BY <4>1 DEF Retry, targetVars
      <4>2. CASE StillListed(conn[c].peer) /\ GiveUp(c)
        <5>1. t # conn[c].peer
          BY <4>2 DEF StillListed
        <5>2. InsertFailed({conn[c].peer})
          BY <4>2 DEF GiveUp
        <5>3. entry'[t] = entry[t]
          BY <5>1, <5>2 DEF InsertFailed
        <5> QED BY <5>3
      <4> QED BY <3>3, <4>1, <4>2 DEF HandleFailed
    <3> QED BY <3>1, <3>2, <3>3 DEF TakeResult
  <2>4. CASE Tick
    BY <2>4 DEF Tick, InsertFailed, NotStreaming, Active
  <2>5. CASE ShutdownAll
    BY <2>5 DEF ShutdownAll, ClearAll
  <2>6. CASE UNCHANGED entry
    BY <2>6
  <2>7. \/ HandleAdd \/ HandleRemove \/ (\E c \in Conns : TakeResult(c))
        \/ Tick \/ ShutdownAll \/ UNCHANGED entry
    BY DEF Next, ManagerStep, vars, targetVars, Start, AddTarget, StopTarget, Stop, Send,
           Joined, HandleShutdown, CommandsDone, StartAttempt, PendingDone, ResultsDone,
           FanOut, Settle, ConnectSucceeds, ConnectFails, ClosingDone, ReceiverFails,
           Becomes, CaptureEnds, BackoffElapses
  <2> QED BY <2>1, <2>2, <2>3, <2>4, <2>5, <2>6, <2>7
<1> QED BY <1>1, InvariantHolds, PTL DEF Spec, RemovedStaysRemoved
-----------------------------------------------------------------------------
(* Why the wait of stop() has an end.                                      *)

Shutdown == [op |-> "shutdown", target |-> NoDevice]

\* The control channel of a stopping session ends with its Shutdown, and no other
\* channel holds one: stop() gives up its end of the channel with that message
\* (stop 248-263).
StopIsLast ==
  \A i \in 1..Len(commands) :
     commands[i].op = "shutdown" => manager = "stopping" /\ i = Len(commands)

\* A session that is not stopping has a manager that does not end, and the manager
\* of a stopping one ends or has yet to read its Shutdown: no command before it, and
\* no phase in between, loses the message that join() waits on.
StopIsHeard ==
  /\ manager = "running" => pc \notin {"shutdown", "exited"}
  /\ manager = "stopping" =>
       \/ pc \in {"shutdown", "exited"}
       \/ \E i \in 1..Len(commands) : commands[i].op = "shutdown"

StopIsPending == StopIsLast /\ StopIsHeard

\* What a call adds to the channel and the manager takes from it.
LEMMA ChannelFacts ==
  ASSUME NEW s \in Seq(Commands), NEW e \in Commands
  PROVE  /\ Append(s, e) \in Seq(Commands) /\ Len(s) \in Nat
         /\ Len(Append(s, e)) = Len(s) + 1
         /\ Append(s, e)[Len(s) + 1] = e
         /\ \A i \in 1..Len(s) : Append(s, e)[i] = s[i]
         /\ s # <<>> => /\ Len(s) >= 1 /\ Head(s) = s[1]
                        /\ Len(Tail(s)) = Len(s) - 1
                        /\ \A i \in 1..Len(Tail(s)) : Tail(s)[i] = s[i + 1]
OBVIOUS

\* Calls add to the channel of a running session only.
LEMMA CallsKeepStop ==
  IInv /\ StopIsPending
    /\ (Joined \/ Stop \/ \E t \in Targets : Start(t) \/ AddTarget(t) \/ StopTarget(t))
    => StopIsPending'
<1> SUFFICES ASSUME IInv, StopIsPending PROVE
      Joined \/ Stop \/ (\E t \in Targets : Start(t) \/ AddTarget(t) \/ StopTarget(t))
        => StopIsPending'
  OBVIOUS
<1> USE DEF StopIsPending, StopIsLast, StopIsHeard
<1>1. CASE Joined \/ \E t \in Targets : Start(t)
  BY <1>1 DEF Joined, Start
<1>2. ASSUME NEW t \in Targets, AddTarget(t) \/ StopTarget(t)
      PROVE  StopIsPending'
  <2>1. PICK e \in Commands : e.op # "shutdown" /\ commands' = Append(commands, e)
    <3>1. [op |-> "add", target |-> t] \in Commands /\ [op |-> "remove", target |-> t] \in Commands
      BY DEF Commands
    <3> QED BY <1>2, <3>1 DEF AddTarget, StopTarget, Send
  <2>2. manager = "running" /\ manager' = "running" /\ pc' = pc
    BY <1>2 DEF AddTarget, StopTarget, Send
  <2>3. \A i \in 1..Len(commands) : commands[i].op # "shutdown"
    BY <2>2
  <2>4. \A i \in 1..Len(commands') : commands'[i].op # "shutdown"
    BY <2>1, <2>3, ChannelFacts DEF IInv, TypeOK
  <2> QED BY <2>2, <2>4
<1>3. CASE Stop
  <2>1. Shutdown \in Commands /\ commands' = Append(commands, Shutdown)
    BY <1>3 DEF Stop, Send, Shutdown, Commands
  <2>2. manager = "running" /\ manager' = "stopping"
    BY <1>3 DEF Stop, Send
  <2>3. \A i \in 1..Len(commands) : commands[i].op # "shutdown"
    BY <2>2
  <2>4. Len(commands') \in 1..Len(commands') /\ commands'[Len(commands')].op = "shutdown"
    BY <2>1, ChannelFacts DEF IInv, TypeOK, Shutdown
  <2>5. \A i \in 1..Len(commands') : commands'[i].op = "shutdown" => i = Len(commands')
    BY <2>1, <2>3, ChannelFacts DEF IInv, TypeOK
  <2> QED BY <2>2, <2>4, <2>5
<1> QED BY <1>1, <1>2, <1>3

\* The manager takes commands in their order, and ends by its Shutdown only.
LEMMA ManagerKeepsStop == IInv /\ StopIsPending /\ ManagerStep => StopIsPending'
<1> SUFFICES ASSUME IInv, StopIsPending, ManagerStep PROVE StopIsPending'
  OBVIOUS
<1> USE DEF StopIsPending, StopIsLast, StopIsHeard
<1>1. ASSUME NEW op, Take(op)
      PROVE  /\ commands \in Seq(Commands) /\ commands # <<>> /\ commands' = Tail(commands)
             /\ Head(commands).op = op /\ pc = "commands" /\ manager' = manager
  BY <1>1 DEF Take, IInv, TypeOK
<1>2. CASE HandleAdd \/ HandleRemove
  <2>1. /\ commands \in Seq(Commands) /\ commands # <<>> /\ commands' = Tail(commands)
        /\ Head(commands).op # "shutdown" /\ pc' = "commands" /\ manager' = manager
        /\ pc = "commands"
    BY <1>1, <1>2 DEF HandleAdd, HandleRemove
  <2>2. StopIsLast'
    BY <2>1, ChannelFacts
  <2>3. ASSUME manager = "stopping"
        PROVE  \E i \in 1..Len(commands') : commands'[i].op = "shutdown"
    <3>1. PICK i \in 1..Len(commands) : commands[i].op = "shutdown"
      BY <2>1, <2>3
    <3>2. i # 1 /\ i \in Nat
      BY <2>1, <3>1, ChannelFacts
    <3>3. i - 1 \in 1..Len(commands') /\ commands'[i - 1].op = "shutdown"
      BY <2>1, <3>1, <3>2, ChannelFacts
    <3> QED BY <3>3
  <2> QED BY <2>1, <2>2, <2>3
<1>3. CASE HandleShutdown
  <2>1. /\ commands \in Seq(Commands) /\ commands # <<>> /\ commands' = Tail(commands)
        /\ Head(commands).op = "shutdown" /\ pc' = "shutdown" /\ manager' = manager
    BY <1>1, <1>3 DEF HandleShutdown
  <2>2. manager = "stopping" /\ Len(commands) = 1
    <3>1. 1 \in 1..Len(commands) /\ commands[1].op = "shutdown"
      BY <2>1, ChannelFacts
    <3> QED BY <3>1
  <2>3. Len(commands') = 0
    BY <2>1, <2>2, ChannelFacts
  <2> QED BY <2>1, <2>2, <2>3
<1>4. CASE ShutdownAll
  BY <1>4 DEF ShutdownAll, uiVars
<1>5. ASSUME UNCHANGED uiVars, pc \notin {"shutdown", "exited"},
             pc' \notin {"shutdown", "exited"}
      PROVE  StopIsPending'
  BY <1>5 DEF uiVars
<1>6. CASE CommandsDone \/ PendingDone \/ ResultsDone \/ Tick \/ FanOut \/ Settle
  BY <1>5, <1>6 DEF CommandsDone, PendingDone, ResultsDone, Tick, FanOut, Settle
<1>7. CASE (\E t \in Targets : StartAttempt(t)) \/ (\E c \in Conns : TakeResult(c))
  BY <1>5, <1>7 DEF StartAttempt, TakeResult
<1> QED BY <1>2, <1>3, <1>4, <1>6, <1>7 DEF ManagerStep

\* Every step keeps the Shutdown of a stopping session on its way.
LEMMA StepStop == IInv /\ StopIsPending /\ [Next]_vars => StopIsPending'
<1> SUFFICES ASSUME IInv, StopIsPending, [Next]_vars PROVE StopIsPending'
  OBVIOUS
<1>1. ASSUME UNCHANGED <<manager, commands, pc>>
      PROVE  StopIsPending'
  BY <1>1 DEF StopIsPending, StopIsLast, StopIsHeard
<1>2. CASE Joined \/ Stop \/ \E t \in Targets : Start(t) \/ AddTarget(t) \/ StopTarget(t)
  BY <1>2, CallsKeepStop
<1>3. CASE ManagerStep
  BY <1>3, ManagerKeepsStop
<1>4. CASE \E c \in Conns : \/ ConnectSucceeds(c) \/ ConnectFails(c)
                            \/ ClosingDone(c) \/ ReceiverFails(c)
  BY <1>1, <1>4 DEF ConnectSucceeds, ConnectFails, ClosingDone, ReceiverFails, Becomes, uiVars
<1>5. CASE CaptureEnds \/ \E t \in Targets : BackoffElapses(t)
  BY <1>1, <1>5 DEF CaptureEnds, BackoffElapses, uiVars
<1>6. CASE UNCHANGED vars
  BY <1>1, <1>6 DEF vars, uiVars
<1> QED BY <1>2, <1>3, <1>4, <1>5, <1>6 DEF Next

\* Whoever waits in stop() waits for a thread that ends or has its Shutdown still to
\* read, as the last of its commands; no other manager ends (stop, process_commands).
THEOREM StopAlwaysHeard == Spec => []StopIsPending
<1>1. Init => StopIsPending
  BY DEF Init, StopIsPending, StopIsLast, StopIsHeard
<1> QED BY <1>1, InvariantHolds, StepStop, PTL DEF Spec
=============================================================================
