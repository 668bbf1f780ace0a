---------------------------- MODULE Advertisement ----------------------------
(***************************************************************************)
(* The receiving host: receiver mode as the user interface switches it,    *)
(* the sender connected to it, and the mDNS record that tells the network  *)
(* (MdnsDiscoveryService: start, sync_receiver_advertisement,              *)
(* refresh_local_advertisement).                                           *)
(*                                                                         *)
(* The record is withdrawn and registered again in two steps; registering  *)
(* may fail.  Whether a sync refreshes it is decided by comparing with     *)
(* what the last one stored, error text included, and a successful refresh *)
(* clears that text: while the receiver shows an error every sync          *)
(* announces the host anew.  The bind port, which follows the listener, is *)
(* part of the endpoint.                                                   *)
(***************************************************************************)
EXTENDS Naturals

CONSTANTS Senders,     \* hosts that connect to the receiver
          Ips,         \* addresses local_advertised_socket_addr may find
          None,
          MaxChanges,  \* bound: changes on the receiving host
          MaxFailures  \* bound: registrations that fail

Service == [receiver : BOOLEAN, avail : {"available", "busy", "unavailable"}]

ASSUME AdvertisementAssumption ==
  /\ None \notin Senders /\ None \notin Ips /\ None \notin Service
  /\ MaxChanges \in Nat /\ MaxFailures \in Nat

VARIABLES
  listening,   \* the runtime is started and the listener is active
  peer,        \* the sender that holds the receiver's stream, or None
  fault,       \* the receiver or its listener shows an error
  ip,          \* the address of this host, None without a network
  daemon,      \* the mDNS daemon runs
  local,       \* LocalDiscoveryStatus; the profile repeats it
  registered,  \* the record the daemon announces, or None
  step,        \* the user interface thread: start, sync, register, idle
  changes, failures

receiverVars == <<listening, peer, fault, ip>>
advVars == <<receiverVars, daemon, local, registered, step, changes, failures>>

LocalStatus ==
  [status : {"ReceiverListening", "Unavailable"}, avail : {"available", "busy", "unavailable"},
   endpoint : Ips \cup {None}, error : {"none", "receiver", "registration"}]

AdvTypeOK ==
  /\ listening \in BOOLEAN /\ peer \in Senders \cup {None} /\ fault \in BOOLEAN
  /\ ip \in Ips \cup {None}
  /\ daemon \in BOOLEAN /\ local \in LocalStatus /\ registered \in Service \cup {None}
  /\ step \in {"start", "sync", "register", "idle"}
  /\ changes \in 0..MaxChanges /\ failures \in 0..MaxFailures

AdvInit ==
  /\ listening = FALSE /\ peer = None /\ fault = FALSE /\ ip \in Ips
  /\ daemon = FALSE
  /\ local = [status |-> "Unavailable", avail |-> "unavailable", endpoint |-> None,
              error |-> "none"]
  /\ registered = None /\ step = "start" /\ changes = 0 /\ failures = 0

-----------------------------------------------------------------------------
(* The record.                                                             *)

\* A bug: a connection of the receiver is not looked at.
ObservedWithoutPeer ==
  [ status   |-> IF listening THEN "ReceiverListening" ELSE "Unavailable",
    avail    |-> IF listening THEN "available" ELSE "unavailable",
    endpoint |-> IF listening THEN ip ELSE None,
    error    |-> IF fault THEN "receiver" ELSE "none" ]

\* What the next sync sees of the receiver.
Observed ==
  [ status   |-> IF listening THEN "ReceiverListening" ELSE "Unavailable",
    avail    |-> IF ~listening THEN "unavailable" ELSE IF peer # None THEN "busy" ELSE "available",
    endpoint |-> IF listening THEN ip ELSE None,
    error    |-> IF fault THEN "receiver" ELSE "none" ]

\* build_service_info of a status: the TXT record.
Record(s) == [receiver |-> s.status = "ReceiverListening", avail |-> s.avail]

\* MdnsDiscoveryService::start: without a daemon, or when the first
\* registration fails, the host stays unannounced for good.
StartDiscovery ==
  /\ step = "start" /\ step' = "sync"
  /\ \/ daemon' = TRUE /\ registered' = Record(local)
     \/ UNCHANGED <<daemon, registered>>
  /\ UNCHANGED <<receiverVars, local, changes, failures>>

\* sync_receiver_advertisement up to the registration: after a change of
\* receiver mode and at every tick of the receiver poll.
SyncAdvertisement ==
  /\ step \in {"sync", "idle"}
  /\ local' = Observed
  /\ IF local' # local /\ daemon
     THEN registered' = None /\ step' = "register"
     ELSE step' = "idle" /\ UNCHANGED registered
  /\ UNCHANGED <<receiverVars, daemon, changes, failures>>

Register ==
  /\ step = "register" /\ step' = "idle"
  /\ registered' = Record(local)
  /\ local' = [local EXCEPT !.error = "none"]
  /\ UNCHANGED <<receiverVars, daemon, changes, failures>>

\* A bug: a failed registration leaves no trace in the status.
RegisterFailsSilently ==
  /\ step = "register" /\ step' = "idle"
  /\ failures < MaxFailures /\ failures' = failures + 1
  /\ UNCHANGED <<receiverVars, daemon, local, registered, changes>>

RegisterFails ==
  /\ step = "register" /\ step' = "idle"
  /\ failures < MaxFailures /\ failures' = failures + 1
  /\ local' = [local EXCEPT !.error = "registration"]
  /\ UNCHANGED <<receiverVars, daemon, registered, changes>>

-----------------------------------------------------------------------------
(* The receiver.                                                           *)

Change == changes < MaxChanges /\ changes' = changes + 1

\* start_receiver_mode; when the listener cannot start the runtime is stopped.
StartReceiver ==
  /\ Change /\ step = "idle" /\ step' = "sync"
  /\ ~listening /\ listening' \in BOOLEAN
  /\ fault' = FALSE
  /\ UNCHANGED <<peer, ip, daemon, local, registered, failures>>

\* stop_receiver_mode
StopReceiver ==
  /\ Change /\ step = "idle" /\ step' = "sync"
  /\ listening /\ listening' = FALSE
  /\ peer' = None /\ fault' = FALSE
  /\ UNCHANGED <<ip, daemon, local, registered, failures>>

\* A sender is accepted.
Accept(s) ==
  /\ listening /\ peer = None
  /\ peer' = s /\ fault' = FALSE
  /\ UNCHANGED <<listening, ip, daemon, local, registered, step, failures>>

\* Its session ends; an end that was not asked for stays visible as the error.
Release ==
  /\ peer # None /\ peer' = None
  /\ fault' \in BOOLEAN
  /\ UNCHANGED <<listening, ip, daemon, local, registered, step, failures>>

\* Another address, or none: seen by the next sync.
NetworkChange ==
  /\ Change
  /\ ip' \in (Ips \cup {None}) \ {ip}
  /\ UNCHANGED <<listening, peer, fault, daemon, local, registered, step, failures>>

Advertising == StartDiscovery \/ SyncAdvertisement \/ Register \/ RegisterFails

\* The receiving host among any senders, which come and go as they like.
AdvNext ==
  \/ Advertising \/ StartReceiver \/ StopReceiver \/ NetworkChange
  \/ (Release \/ \E s \in Senders : Accept(s)) /\ (Change \/ UNCHANGED changes)

AdvSpec == AdvInit /\ [][AdvNext]_advVars

\* What is announced is what the last sync saw; a host that is not announced
\* though its daemon runs carries an error no receiver reports, so the next sync
\* finds a difference and tries again: no failed registration is forgotten.
AdvertisementHonest ==
  step \in {"sync", "idle"} =>
    /\ registered # None => registered = Record(local)
    /\ daemon /\ registered = None => local.error = "registration"

=============================================================================
