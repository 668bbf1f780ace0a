----------------------------- MODULE CastControl -----------------------------
(***************************************************************************)
(* Casting from one host to another, end to end: the receiving host and    *)
(* its announcement (Advertisement), what the sending host's discovery     *)
(* shows of it, the cast target its sender manager keeps, and the user     *)
(* interface that decides from copies of both: the targets as the last     *)
(* streaming poll or button found them, the device as the last discovery   *)
(* poll found it.                                                          *)
(*                                                                         *)
(* The registry (DeviceRegistry) and the manager (SenderManager) are       *)
(* reduced to what the other host and the polls see of them.               *)
(***************************************************************************)
EXTENDS Advertisement, Sequences

CONSTANTS Us,         \* the sending host
          MaxAttempts, MaxCommands, MaxOps

ASSUME CastAssumption ==
  Us \in Senders /\ MaxAttempts \in Nat \ {0} /\ MaxCommands \in Nat /\ MaxOps \in Nat

VARIABLES
  reported,  \* what mDNS last told the sending host of the receiver, or None
  view,      \* AppState.discovered_devices
  manager,   \* the sender manager runs
  commands,  \* its control channel
  target,    \* the target's state in it, or None
  tries,     \* failed attempts of the target; a retry is due below MaxAttempts
  shown,     \* the target in AppState.streaming
  ops

castVars == <<reported, view, manager, commands, target, tries, shown, ops>>
vars == <<advVars, castVars>>

States == {"Connecting", "Streaming", "Error"}

CastTypeOK ==
  /\ reported \in Service \cup {None} /\ view \in Service \cup {None}
  /\ manager \in BOOLEAN
  /\ commands \in Seq({"add", "remove"})
  /\ target \in States \cup {None} /\ tries \in 0..MaxAttempts
  /\ shown \in States \cup {None} /\ ops \in 0..MaxOps

\* Of both hosts.
TypeOK == AdvTypeOK /\ CastTypeOK

Init ==
  /\ AdvInit
  /\ reported = None /\ view = None
  /\ manager = FALSE /\ commands = <<>> /\ target = None /\ tries = 0
  /\ shown = None /\ ops = 0

\* is_receiver_connectable of what is displayed.
Offered == view # None /\ view.receiver /\ view.avail = "available"

-----------------------------------------------------------------------------
(* The polls of the sending host.                                          *)

\* mDNS carries the announcement, or its withdrawal, at any later time.
Hear ==
  /\ reported' = registered
  /\ UNCHANGED <<advVars, view, manager, commands, target, tries, shown, ops>>

\* A bug: only attempts under way are stopped.
UnusableConnecting == shown = "Connecting"

\* The targets stop_unusable_sender_targets looks at.
Unusable == shown \in States \ {"Streaming"}

\* The discovery poll, with stop_unusable_sender_targets at its end.
DiscoveryPoll ==
  /\ view' = reported
  /\ IF Unusable /\ ~Offered'
     THEN /\ Len(commands) < MaxCommands
          /\ commands' = IF manager THEN Append(commands, "remove") ELSE commands
          /\ shown' = target
     ELSE UNCHANGED <<commands, shown>>
  /\ UNCHANGED <<advVars, reported, manager, target, tries, ops>>

\* The streaming poll.
StreamingPoll ==
  /\ shown' = target
  /\ UNCHANGED <<advVars, reported, view, manager, commands, target, tries, ops>>

-----------------------------------------------------------------------------
(* The buttons.                                                            *)

Op == ops < MaxOps /\ ops' = ops + 1

\* queue_receiver_device_for_cast
Queue ==
  /\ Op /\ Offered
  /\ IF manager
     THEN /\ Len(commands) < MaxCommands /\ commands' = Append(commands, "add")
          /\ shown' = target /\ UNCHANGED <<manager, target, tries>>
     ELSE /\ manager' = TRUE /\ target' = "Connecting" /\ tries' = 0
          /\ shown' = "Connecting" /\ UNCHANGED commands
  /\ UNCHANGED <<advVars, reported, view>>

\* remove_target_from_cast
RemoveTarget ==
  /\ Op /\ shown # None /\ manager
  /\ Len(commands) < MaxCommands /\ commands' = Append(commands, "remove")
  /\ shown' = target
  /\ UNCHANGED <<advVars, reported, view, manager, target, tries>>

\* stop_all_casting: the call returns when the manager is gone.
StopAll ==
  /\ Op /\ manager /\ manager' = FALSE
  /\ commands' = <<>> /\ target' = None /\ tries' = 0 /\ shown' = None
  /\ UNCHANGED <<advVars, reported, view>>

-----------------------------------------------------------------------------
(* The sender manager (see SenderManager).                                 *)

HandleCommand ==
  /\ manager /\ commands # <<>> /\ commands' = Tail(commands)
  /\ IF Head(commands) = "remove" THEN target' = None /\ tries' = 0
     ELSE IF target \in {"Connecting", "Streaming"} THEN UNCHANGED <<target, tries>>
     ELSE target' = "Connecting" /\ tries' = 0
  /\ UNCHANGED <<advVars, reported, view, manager, shown, ops>>

AttemptSucceeds ==
  /\ target = "Connecting" /\ target' = "Streaming" /\ tries' = 0
  /\ Accept(Us) /\ UNCHANGED changes
  /\ UNCHANGED <<reported, view, manager, commands, shown, ops>>

\* Refused, unreachable, or not retryable.
AttemptFails ==
  /\ target = "Connecting" /\ target' = "Error"
  /\ tries' \in {tries + 1, MaxAttempts}
  /\ UNCHANGED <<advVars, reported, view, manager, commands, shown, ops>>

\* A retry that has become due.
RetryDue ==
  /\ target = "Error" /\ tries < MaxAttempts /\ target' = "Connecting"
  /\ UNCHANGED <<advVars, reported, view, manager, commands, tries, shown, ops>>

\* The stream breaks, or the receiver has ended it: not retried.
SessionFails ==
  /\ target = "Streaming" /\ target' = "Error" /\ tries' = MaxAttempts
  /\ UNCHANGED <<advVars, reported, view, manager, commands, shown, ops>>

\* The receiver notices that our session is over.
OurSessionEnds ==
  /\ peer = Us /\ target # "Streaming"
  /\ Release /\ UNCHANGED <<changes, castVars>>

-----------------------------------------------------------------------------
\* The receiving host on its own, other senders included.
Receiving ==
  /\ Advertising \/ StartReceiver \/ StopReceiver \/ NetworkChange
     \/ (Change /\ \E s \in Senders \ {Us} : Accept(s))
     \/ (Change /\ peer # Us /\ Release)
  /\ UNCHANGED castVars

Sending ==
  \/ Hear \/ DiscoveryPoll \/ StreamingPoll
  \/ Queue \/ RemoveTarget \/ StopAll
  \/ HandleCommand \/ AttemptSucceeds \/ AttemptFails \/ RetryDue \/ SessionFails
  \/ OurSessionEnds

Next == Receiving \/ Sending

\* The timers of both hosts fire, the threads run, mDNS is heard now and then,
\* and a session whose other end is gone fails.
Fairness ==
  /\ WF_vars(Advertising /\ UNCHANGED castVars)
  /\ WF_vars(Hear) /\ WF_vars(DiscoveryPoll) /\ WF_vars(StreamingPoll)
  /\ WF_vars(HandleCommand) /\ WF_vars(OurSessionEnds)
  /\ WF_vars(AttemptSucceeds \/ AttemptFails \/ RetryDue)
  /\ WF_vars(SessionFails /\ peer # Us)

Spec == Init /\ [][Next]_vars /\ Fairness

-----------------------------------------------------------------------------
(* Properties.                                                             *)

\* From the receiver's state to the sending host's list, through syncs that
\* compare, registrations that fail and withdrawals: a receiver that stopped or
\* is taken is in the end not offered, a free one is offered for good.  Not while
\* it shows an error, as after a sender was lost: it is then withdrawn and
\* registered at every sync, and a poll may always find it withdrawn.
ViewFollowsReceiver ==
  /\ <>[](~listening \/ peer # None => ~Offered)
  /\ <>[](daemon /\ listening /\ peer = None /\ ~fault => Offered)

\* A cast to a receiver that stopped for good leaves nothing behind on the
\* sending host: attempts, retries, a failed stream and the shown target go.
GoneReceiverIsDropped == <>[](~listening => target = None /\ shown = None)

\* docs/multi-device-streaming.md: when a receiver fails, "the target remains
\* visible in UI state until removed or retried": it leaves the failed state by a
\* new attempt or a button, here by none, since the user only ever added it, not
\* because a poll found the device not connectable.
FailedTargetStays == [][ops' = 1 /\ shown = "Error" => shown' # None]_vars

=============================================================================
