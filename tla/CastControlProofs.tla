-------------------------- MODULE CastControlProofs --------------------------
(***************************************************************************)
(* Proofs about casting end to end, for any set of senders and addresses   *)
(* and every bound: the receiving host of CastControl is the one of        *)
(* Advertisement, whatever the sending host does, and what it announces is *)
(* honest; type correctness of both.                                       *)
(***************************************************************************)
EXTENDS CastControl, SequenceTheorems, TLAPS

-----------------------------------------------------------------------------
(* The receiving host on its own.                                          *)

\* What is registered at each step of the user interface thread: nothing before the
\* daemon runs, and nothing between the two halves of a refresh.
RegistrationSteps ==
  /\ ~daemon => registered = None
  /\ step \in {"start", "register"} => registered = None
  /\ step = "start" => ~daemon
  /\ step = "register" => daemon

AdvIInv == AdvTypeOK /\ RegistrationSteps /\ AdvertisementHonest

\* A record of a status is a service, and so not the absence of one; it does not tell
\* the error (build_service_info).
LEMMA RecordFacts ==
  ASSUME NEW s \in LocalStatus
  PROVE  /\ Record(s) \in Service /\ Record(s) # None
         /\ \A e \in {"none", "receiver", "registration"} :
              /\ [s EXCEPT !.error = e] \in LocalStatus
              /\ Record([s EXCEPT !.error = e]) = Record(s)
              /\ [s EXCEPT !.error = e].error = e
<1>1. Record(s) \in Service
  BY DEF Record, Service, LocalStatus
<1>2. Record(s) # None
  BY <1>1, AdvertisementAssumption DEF AdvertisementAssumption
<1> SUFFICES ASSUME NEW e \in {"none", "receiver", "registration"}
             PROVE  /\ [s EXCEPT !.error = e] \in LocalStatus
                    /\ Record([s EXCEPT !.error = e]) = Record(s)
                    /\ [s EXCEPT !.error = e].error = e
  BY <1>1, <1>2
<1> DEFINE t == [s EXCEPT !.error = e]
<1>3. t \in LocalStatus /\ t.error = e /\ t.status = s.status /\ t.avail = s.avail
  BY DEF LocalStatus
<1>4. Record(t) = Record(s)
  BY <1>3 DEF Record
<1> QED BY <1>3, <1>4

\* What a sync sees of the receiver is a status.
LEMMA ObservedFacts == AdvTypeOK => Observed \in LocalStatus
BY DEF AdvTypeOK, Observed, LocalStatus

\* A host that has not started announces nothing.
LEMMA InitAdvIInv == AdvInit => AdvIInv
<1> SUFFICES ASSUME AdvInit PROVE AdvIInv
  OBVIOUS
<1>1. local \in LocalStatus
  BY DEF AdvInit, LocalStatus
<1>2. AdvTypeOK
  <2>1. changes \in 0..MaxChanges /\ failures \in 0..MaxFailures
    BY AdvertisementAssumption DEF AdvInit, AdvertisementAssumption
  <2> QED BY <1>1, <2>1 DEF AdvInit, AdvTypeOK
<1> QED BY <1>2 DEF AdvInit, AdvIInv, RegistrationSteps, AdvertisementHonest

\* The two halves of a refresh, and a failure of the second.
LEMMA AdvertisingStep ==
  ASSUME AdvIInv, Advertising
  PROVE  AdvIInv'
<1> USE DEF AdvIInv, AdvTypeOK, RegistrationSteps, AdvertisementHonest, receiverVars
<1>0. local \in LocalStatus /\ Record(local) \in Service /\ Record(local) # None
  BY RecordFacts
<1>1. CASE StartDiscovery
  <2>1. /\ step = "start" /\ step' = "sync"
        /\ UNCHANGED <<listening, peer, fault, ip, local, changes, failures>>
        /\ \/ daemon' = TRUE /\ registered' = Record(local)
           \/ daemon' = daemon /\ registered' = registered
    BY <1>1 DEF StartDiscovery
  <2>2. AdvTypeOK'
    BY <1>0, <2>1
  <2>3. RegistrationSteps' /\ AdvertisementHonest'
    BY <1>0, <2>1
  <2> QED BY <2>2, <2>3
<1>2. CASE SyncAdvertisement
  BY <1>0, <1>2, ObservedFacts DEF SyncAdvertisement
<1>3. CASE Register
  <2>1. /\ local' \in LocalStatus /\ Record(local') = Record(local)
        /\ registered' = Record(local) /\ step = "register" /\ step' = "idle"
        /\ UNCHANGED <<listening, peer, fault, ip, daemon, changes, failures>>
    BY <1>0, <1>3, RecordFacts DEF Register
  <2> QED BY <1>0, <2>1
<1>4. CASE RegisterFails
  <2>0. failures' \in 0..MaxFailures
    BY <1>4, AdvertisementAssumption DEF RegisterFails, AdvertisementAssumption
  <2>1. /\ local' \in LocalStatus /\ local'.error = "registration"
        /\ step = "register" /\ step' = "idle" /\ failures' \in 0..MaxFailures
        /\ UNCHANGED <<listening, peer, fault, ip, daemon, registered, changes>>
    BY <1>0, <1>4, <2>0, RecordFacts DEF RegisterFails
  <2> QED BY <2>1
<1> QED BY <1>1, <1>2, <1>3, <1>4 DEF Advertising

\* What happens to the receiver leaves the announcement as it is until the next sync.
LEMMA ReceiverStep ==
  ASSUME AdvIInv,
         \/ StartReceiver \/ StopReceiver \/ NetworkChange
         \/ (Release \/ \E s \in Senders : Accept(s)) /\ (Change \/ UNCHANGED changes)
  PROVE  AdvIInv'
<1>1. /\ UNCHANGED <<daemon, local, registered, failures>>
      /\ step' = step \/ (step = "idle" /\ step' = "sync")
  BY DEF StartReceiver, StopReceiver, NetworkChange, Release, Accept
<1>2. RegistrationSteps' /\ AdvertisementHonest'
  BY <1>1 DEF AdvIInv, RegistrationSteps, AdvertisementHonest
<1>3. changes' \in 0..MaxChanges
  <2>1. Change \/ UNCHANGED changes
    BY DEF StartReceiver, StopReceiver, NetworkChange
  <2> QED BY <2>1, AdvertisementAssumption
          DEF Change, AdvIInv, AdvTypeOK, AdvertisementAssumption
<1>4. listening' \in BOOLEAN /\ fault' \in BOOLEAN
  BY DEF StartReceiver, StopReceiver, NetworkChange, Release, Accept, AdvIInv, AdvTypeOK
<1>5. peer' \in Senders \cup {None} /\ ip' \in Ips \cup {None}
  BY DEF StartReceiver, StopReceiver, NetworkChange, Release, Accept, AdvIInv, AdvTypeOK
<1>6. AdvTypeOK'
  BY <1>1, <1>3, <1>4, <1>5 DEF AdvIInv, AdvTypeOK
<1> QED BY <1>2, <1>6 DEF AdvIInv

\* Every step of the host and of its senders preserves the invariant.
LEMMA StepAdvIInv == AdvIInv /\ [AdvNext]_advVars => AdvIInv'
<1> SUFFICES ASSUME AdvIInv, [AdvNext]_advVars PROVE AdvIInv'
  OBVIOUS
<1>1. CASE UNCHANGED advVars
  BY <1>1 DEF advVars, receiverVars, AdvIInv, AdvTypeOK, RegistrationSteps,
              AdvertisementHonest
<1>2. CASE AdvNext
  BY <1>2, AdvertisingStep, ReceiverStep DEF AdvNext
<1> QED BY <1>1, <1>2

\* The receiving host announces what its last sync saw, among any senders
\* (sync_receiver_advertisement, refresh_local_advertisement).
THEOREM AnnouncesAlone == AdvSpec => []AdvIInv
<1> QED BY InitAdvIInv, StepAdvIInv, PTL DEF AdvSpec

-----------------------------------------------------------------------------
(* The two hosts together.                                                 *)

\* Whatever the sending host does, the receiving host takes a step of its own or none.
LEMMA StepAdvertises == [Next]_vars => [AdvNext]_advVars
<1> SUFFICES ASSUME [Next]_vars PROVE [AdvNext]_advVars
  OBVIOUS
<1>1. CASE Receiving
  <2>1. CASE Advertising \/ StartReceiver \/ StopReceiver \/ NetworkChange
    BY <2>1 DEF AdvNext
  <2>2. CASE Change /\ \E s \in Senders \ {Us} : Accept(s)
    BY <2>2 DEF AdvNext
  <2>3. CASE Change /\ peer # Us /\ Release
    BY <2>3 DEF AdvNext
  <2> QED BY <1>1, <2>1, <2>2, <2>3 DEF Receiving
<1>2. CASE AttemptSucceeds
  <2>1. Accept(Us) /\ UNCHANGED changes /\ Us \in Senders
    BY <1>2, CastAssumption DEF AttemptSucceeds, CastAssumption
  <2> QED BY <2>1 DEF AdvNext
<1>3. CASE OurSessionEnds
  <2>1. Release /\ UNCHANGED changes
    BY <1>3 DEF OurSessionEnds
  <2> QED BY <2>1 DEF AdvNext
<1>4. CASE \/ Hear \/ DiscoveryPoll \/ StreamingPoll \/ Queue \/ RemoveTarget \/ StopAll
           \/ HandleCommand \/ AttemptFails \/ RetryDue \/ SessionFails
  BY <1>4 DEF Hear, DiscoveryPoll, StreamingPoll, Queue, RemoveTarget, StopAll,
              HandleCommand, AttemptFails, RetryDue, SessionFails
<1>5. CASE UNCHANGED vars
  BY <1>5 DEF vars
<1> QED BY <1>1, <1>2, <1>3, <1>4, <1>5 DEF Next, Sending

\* The receiving host of CastControl implements the one of Advertisement, which knows
\* nothing of discovery, polls and the sender manager.
THEOREM HostIsAlone == Spec => AdvSpec
<1>1. Init => AdvInit
  BY DEF Init
<1> QED BY <1>1, StepAdvertises, PTL DEF Spec, AdvSpec

\* What is announced is what the last sync saw of the receiver, and a host that is not
\* announced though it could be will try again, whichever casts come and go meanwhile
\* (discovery 176-262, ui.rs sync_receiver_advertisement).
THEOREM AnnouncementIsHonest == Spec => []AdvertisementHonest
<1>1. AdvIInv => AdvertisementHonest
  BY DEF AdvIInv
<1> QED BY <1>1, HostIsAlone, AnnouncesAlone, PTL

\* An attempt under way is one of those allowed: retries stop at the limit
\* (sender.rs schedule_retry, MAX_CONNECT_ATTEMPTS).
AttemptsLeft == target = "Connecting" => tries < MaxAttempts

CastIInv == CastTypeOK /\ AttemptsLeft

\* A sending host starts without a manager or targets.
LEMMA InitCastIInv == Init => CastIInv
<1> SUFFICES ASSUME Init PROVE CastIInv
  OBVIOUS
<1>1. 0 \in 0..MaxAttempts /\ 0 \in 0..MaxOps /\ 0 < MaxAttempts
  BY CastAssumption DEF CastAssumption
<1>2. commands \in Seq({"add", "remove"})
  BY DEF Init
<1> QED BY <1>1, <1>2 DEF Init, CastIInv, CastTypeOK, AttemptsLeft

\* Every poll, button and step of the manager preserves it; a retry starts only below
\* the limit.
LEMMA StepCastIInv == AdvTypeOK /\ CastIInv /\ [Next]_vars => CastIInv'
<1> SUFFICES ASSUME AdvTypeOK, CastIInv, [Next]_vars PROVE CastIInv'
  OBVIOUS
<1> USE DEF CastIInv, CastTypeOK, AttemptsLeft, castVars, States
<1>a. /\ MaxAttempts \in Nat \ {0} /\ MaxOps \in Nat
      /\ 0 \in 0..MaxAttempts /\ 0 < MaxAttempts /\ MaxAttempts \in 0..MaxAttempts
  BY CastAssumption DEF CastAssumption
<1>b. ASSUME NEW c \in {"add", "remove"}, commands' = Append(commands, c)
      PROVE  commands' \in Seq({"add", "remove"})
  BY <1>b
<1>c. Op => ops' \in 0..MaxOps
  BY <1>a DEF Op
<1>1. CASE Receiving \/ OurSessionEnds \/ UNCHANGED vars
  BY <1>1 DEF Receiving, OurSessionEnds, vars
<1>2. CASE Hear
  BY <1>2 DEF Hear, AdvTypeOK
<1>3. CASE DiscoveryPoll
  <2>1. commands' \in Seq({"add", "remove"}) /\ shown' \in States \cup {None}
    BY <1>3, <1>b DEF DiscoveryPoll
  <2> QED BY <1>3, <2>1 DEF DiscoveryPoll
<1>4. CASE StreamingPoll
  BY <1>4 DEF StreamingPoll
<1>5. CASE Queue
  <2>1. CASE manager
    <3>1. commands' = Append(commands, "add") /\ shown' = target
          /\ UNCHANGED <<reported, view, manager, target, tries>>
      BY <1>5, <2>1 DEF Queue
    <3> QED BY <1>5, <1>b, <1>c, <3>1 DEF Queue
  <2>2. CASE ~manager
    BY <1>5, <1>a, <1>c, <2>2 DEF Queue
  <2> QED BY <2>1, <2>2
<1>6. CASE RemoveTarget
  <2>1. commands' \in Seq({"add", "remove"})
    BY <1>6, <1>b DEF RemoveTarget
  <2> QED BY <1>6, <1>c, <2>1 DEF RemoveTarget
<1>7. CASE StopAll
  <2>1. commands' \in Seq({"add", "remove"})
    BY <1>7 DEF StopAll
  <2> QED BY <1>7, <1>a, <1>c, <2>1 DEF StopAll
<1>8. CASE HandleCommand
  <2>1. commands' \in Seq({"add", "remove"})
    BY <1>8 DEF HandleCommand
  <2>2. \/ target' = None /\ tries' = 0
        \/ target' = target /\ tries' = tries
        \/ target' = "Connecting" /\ tries' = 0
    BY <1>8 DEF HandleCommand
  <2>3. UNCHANGED <<reported, view, manager, shown, ops>>
    BY <1>8 DEF HandleCommand
  <2> QED BY <1>a, <2>1, <2>2, <2>3
<1>9. CASE AttemptSucceeds
  BY <1>9, <1>a DEF AttemptSucceeds
<1>10. CASE AttemptFails
  BY <1>10, <1>a DEF AttemptFails
<1>11. CASE RetryDue
  BY <1>11 DEF RetryDue
<1>12. CASE SessionFails
  BY <1>12, <1>a DEF SessionFails
<1> QED BY <1>1, <1>2, <1>3, <1>4, <1>5, <1>6, <1>7, <1>8, <1>9, <1>10, <1>11, <1>12
        DEF Next, Sending

\* Every variable keeps its type, on both hosts, and an attempt is made only while
\* attempts are left.
THEOREM CastInvariantHolds == Spec => [](AdvIInv /\ CastIInv)
<1>1. AdvIInv => AdvTypeOK
  BY DEF AdvIInv
<1>2. Init => AdvInit
  BY DEF Init
<1> QED BY <1>1, <1>2, InitAdvIInv, InitCastIInv, StepAdvertises, StepAdvIInv, StepCastIInv,
           PTL DEF Spec

\* Every variable of the two hosts keeps its type: no target has more failed attempts
\* than allowed (ui.rs polls and buttons, sender.rs retries).
THEOREM TypeCorrect == Spec => []TypeOK
<1>1. AdvIInv /\ CastIInv => TypeOK
  BY DEF AdvIInv, CastIInv, TypeOK
<1> QED BY <1>1, CastInvariantHolds, PTL

=============================================================================
