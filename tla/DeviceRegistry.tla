---------------------------- MODULE DeviceRegistry ----------------------------
(***************************************************************************)
(* Discovery as one host sees it: what the other hosts announce, what the  *)
(* mDNS daemon reports of it, the DeviceRegistry of synchrosonic-discovery,*)
(* and the discovery poll of the user interface that replays the           *)
(* registry's events on AppState and keeps a receiver selected.            *)
(*                                                                         *)
(* Packets may be lost or late: a report says what is announced when it is *)
(* made, a goodbye arrives at any later time or never.  Time is the flag   *)
(* aged: the entry's last_seen is older than the stale timeout.  The order *)
(* of the displayed list is left open: the first connectable device of it  *)
(* is any connectable device.                                              *)
(***************************************************************************)
EXTENDS Naturals, FiniteSets, SequencesExt

CONSTANTS Device,        \* device ids on the network
          Local,         \* the id of this host, which hears itself
          None,
          Names,         \* service names a host registers under
          Announcement,  \* what each host may announce: see Announcements
          MaxChanges,    \* bound: changes of what is announced
          MaxReports     \* bound: reports waiting

\* endpoint_rank by class; private_a and private_b are addresses, or ports of
\* one address, of the same rank.
Quality == [private_a |-> 5, private_b |-> 5, public |-> 4, link_local |-> 2,
            docker |-> 1, loopback |-> 0]
Address == DOMAIN Quality

\* is_remote_selection_candidate
Candidate == Address \ {"docker", "loopback"}

Availability == {"available", "busy", "unavailable"}
Status == {"SelfDevice", "IncompatibleVersion", "Unavailable", "Discovered",
           "ReceiverListening", "Reachable", "Resolving", "Stale"}

\* What a host may announce: its TXT record, the addresses it answers with and
\* its service name.  A host that does not listen announces no receiver and is
\* unavailable (sync_receiver_advertisement).
Announcements ==
  { a \in [receiver : BOOLEAN, avail : Availability, current : BOOLEAN,
           addrs : SUBSET Address, name : Names] :
      a.receiver <=> a.avail # "unavailable" }

ASSUME RegistryAssumption ==
  /\ Local \in Device /\ None \notin Device
  /\ Announcement \in [Device -> SUBSET Announcements] /\ None \notin Announcements
  /\ MaxChanges \in Nat /\ MaxReports \in Nat

VARIABLES
  air,       \* what each host announces now, or None
  goodbyes,  \* goodbyes sent and not yet heard
  changes,
  channel,   \* browse events the daemon has queued
  registry,  \* DeviceRegistry.devices
  aged,      \* last_seen of the entry is older than stale_timeout
  phase,     \* the poll callback: idle, drain, apply
  batch,     \* discovery events the poll has collected
  view,      \* AppState.discovered_devices
  chosen     \* AppState.selected_receiver_device_id

netVars == <<air, goodbyes, changes>>
uiVars  == <<view, chosen>>
discoveryVars == <<netVars, channel, registry, aged, phase, batch, uiVars>>

Entry == [receiver : BOOLEAN, avail : Availability, current : BOOLEAN,
          endpoint : Address \cup {None}, name : Names, status : Status]

Goodbye == Device \X Names
Report  == [kind : {"resolved"}, dev : Device, ann : Announcements]
             \cup [kind : {"removed"}, dev : Device, name : Names]
Event   == [dev : Device, entry : Entry \cup {None}]

DiscoveryTypeOK ==
  /\ air \in [Device -> Announcements \cup {None}]
  /\ goodbyes \subseteq Goodbye
  /\ changes \in 0..MaxChanges
  /\ channel \in Seq(Report)
  /\ registry \in [Device -> Entry \cup {None}]
  /\ aged \in [Device -> BOOLEAN]
  /\ phase \in {"idle", "drain", "apply"}
  /\ batch \in Seq(Event)
  /\ view \in [Device -> Entry \cup {None}]
  /\ chosen \in Device \cup {None}

DiscoveryInit ==
  /\ \E a \in Announcement[Local] :
       air = [d \in Device |-> IF d = Local THEN a ELSE None]
  /\ goodbyes = {} /\ changes = 0 /\ channel = <<>>
  /\ registry = [d \in Device |-> None] /\ aged = [d \in Device |-> FALSE]
  /\ phase = "idle" /\ batch = <<>>
  /\ view = registry /\ chosen = None

-----------------------------------------------------------------------------
(* A resolved service as a device.                                         *)

\* select_preferred_ip_address; of equal ranks, any.
PreferredIps(addrs) ==
  LET usable == addrs \cap Candidate IN
  IF usable = {} THEN {None}
  ELSE {a \in usable : \A b \in usable : Quality[b] <= Quality[a]}

\* preferred_endpoint: an address is replaced by a better one only.
PreferredEndpoint(old, new) ==
  IF old = None \/ (new # None /\ Quality[new] > Quality[old]) THEN new ELSE old

\* receiver_state_txt of the announcing host, as parse_receiver_state reads it.
ReceiverState(a) ==
  CASE ~a.receiver -> "Idle"
    [] a.receiver /\ a.avail = "unavailable" -> "Unavailable"
    [] OTHER -> "Listening"

\* derive_device_status
DeriveStatus(d, a, endpoint) ==
  CASE d = Local -> "SelfDevice"
    [] d # Local /\ ~a.current -> "IncompatibleVersion"
    [] d # Local /\ a.current /\ a.avail = "unavailable" -> "Unavailable"
    [] d # Local /\ a.current /\ a.avail # "unavailable" /\ ~a.receiver -> "Discovered"
    [] OTHER -> IF endpoint # None THEN "Reachable"
                ELSE IF ReceiverState(a) = "Listening" THEN "ReceiverListening"
                ELSE "Resolving"

\* discovered_device_from_resolved, with each address it may settle on.
FromResolved(d, a) ==
  { [receiver |-> a.receiver, avail |-> a.avail, current |-> a.current,
     endpoint |-> ep, name |-> a.name, status |-> DeriveStatus(d, a, ep)] :
      ep \in IF a.receiver THEN PreferredIps(a.addrs) ELSE {None} }

\* is_receiver_connectable
Connectable(e) ==
  /\ e # None
  /\ e.receiver /\ e.avail = "available" /\ e.endpoint # None
  /\ e.status = "Reachable"

-----------------------------------------------------------------------------
(* The network and the daemon, outside of this host's code.  Their steps   *)
(* commute with those of a poll, which only takes from the channel: they   *)
(* are taken between polls.                                                *)

\* A host appears, or changes what it announces without a goodbye.
Announce(d, a) ==
  /\ phase = "idle"
  /\ changes < MaxChanges /\ changes' = changes + 1
  /\ d # Local /\ a # air[d]
  /\ air' = [air EXCEPT ![d] = a]
  /\ UNCHANGED <<goodbyes, channel, registry, aged, phase, batch, uiVars>>

\* A host unregisters, with a goodbye, or is cut off, without one.
Leave(d) ==
  /\ phase = "idle"
  /\ changes < MaxChanges /\ changes' = changes + 1
  /\ d # Local /\ air[d] # None
  /\ air' = [air EXCEPT ![d] = None]
  /\ goodbyes' \in {goodbyes, goodbyes \cup {<<d, air[d].name>>}}
  /\ UNCHANGED <<channel, registry, aged, phase, batch, uiVars>>

Queued(r) == phase = "idle" /\ Len(channel) < MaxReports /\ channel' = Append(channel, r)

\* The daemon resolves what a host announces, again and again.
ReportResolved(d) ==
  /\ air[d] # None
  /\ Queued([kind |-> "resolved", dev |-> d, ann |-> air[d]])
  /\ UNCHANGED <<netVars, registry, aged, phase, batch, uiVars>>

\* A goodbye is heard, however late.
ReportRemoved(g) ==
  /\ g \in goodbyes /\ goodbyes' = goodbyes \ {g}
  /\ Queued([kind |-> "removed", dev |-> g[1], name |-> g[2]])
  /\ UNCHANGED <<air, changes, registry, aged, phase, batch, uiVars>>

\* stale_timeout passes without a report; for this host's own entry, which is
\* never offered, it makes no difference.
Age(d) ==
  /\ phase = "idle" /\ d # Local /\ registry[d] # None /\ ~aged[d]
  /\ aged' = [aged EXCEPT ![d] = TRUE]
  /\ UNCHANGED <<netVars, channel, registry, phase, batch, uiVars>>

-----------------------------------------------------------------------------
(* The registry, inside the discovery poll.                                *)

StartPoll ==
  /\ phase = "idle" /\ phase' = "drain"
  /\ batch' = <<>>
  /\ UNCHANGED <<netVars, channel, registry, aged, uiVars>>

Emit(d, e) == batch' = Append(batch, [dev |-> d, entry |-> e])

\* A bug: an update at the same address is taken for a duplicate.
SameAddress(old, merged) == old # None /\ old.endpoint = merged.endpoint

\* materially_same_discovered_device
MateriallySame(old, merged) == old = merged

\* upsert: an event only when the entry is materially another.
Upsert(d, incoming) ==
  LET old    == registry[d]
      merged == IF old = None THEN incoming
                ELSE [incoming EXCEPT !.endpoint = PreferredEndpoint(old.endpoint, @)]
  IN /\ registry' = [registry EXCEPT ![d] = merged]
     /\ aged' = [aged EXCEPT ![d] = FALSE]
     /\ IF MateriallySame(old, merged) THEN UNCHANGED batch ELSE Emit(d, merged)

\* mark_removed_by_fullname
MarkRemoved(d, name) ==
  /\ UNCHANGED aged
  /\ IF registry[d] # None /\ registry[d].name = name
     THEN registry' = [registry EXCEPT ![d] = None] /\ Emit(d, None)
     ELSE UNCHANGED <<registry, batch>>

PollEvent ==
  /\ phase = "drain" /\ channel # <<>> /\ channel' = Tail(channel)
  /\ LET r == Head(channel) IN
     IF r.kind = "resolved"
     THEN \E e \in FromResolved(r.dev, r.ann) : Upsert(r.dev, e)
     ELSE MarkRemoved(r.dev, r.name)
  /\ UNCHANGED <<netVars, phase, uiVars>>

\* A bug: entries are never pruned.
NeverExpired == {}

Expired == {d \in Device : registry[d] # None /\ aged[d] /\ registry[d].status # "Stale"}

Stale(e) == [e EXCEPT !.status = "Stale", !.avail = "unavailable"]

\* prune_stale, in any order of the entries; marked_stale is the status Stale.
PruneStale ==
  /\ phase = "drain" /\ channel = <<>> /\ phase' = "apply"
  /\ registry' = [d \in Device |-> IF d \in Expired THEN Stale(registry[d]) ELSE registry[d]]
  /\ \E order \in SetToSeqs(Expired) :
       batch' = batch \o [i \in DOMAIN order |->
                            [dev |-> order[i], entry |-> Stale(registry[order[i]])]]
  /\ UNCHANGED <<netVars, channel, aged, uiVars>>

-----------------------------------------------------------------------------
(* AppState.                                                               *)

Offered(v) == {d \in Device : Connectable(v[d])}

\* A bug: a selection stays while its device is listed.
ReconciledListed(v, s) ==
  IF s # None /\ v[s] # None THEN {s} ELSE IF Offered(v) = {} THEN {None} ELSE Offered(v)

\* reconcile_selected_receiver
Reconciled(v, s) ==
  IF s \in Offered(v) THEN {s} ELSE IF Offered(v) = {} THEN {None} ELSE Offered(v)

\* apply_discovery_event
ApplyEvent ==
  /\ phase = "apply" /\ batch # <<>> /\ batch' = Tail(batch)
  /\ view' = [view EXCEPT ![Head(batch).dev] = Head(batch).entry]
  /\ chosen' \in Reconciled(view', chosen)
  /\ UNCHANGED <<netVars, channel, registry, aged, phase>>

\* apply_discovery_snapshot ends the poll.
ApplySnapshot ==
  /\ phase = "apply" /\ batch = <<>> /\ phase' = "idle"
  /\ view' = registry
  /\ chosen' \in Reconciled(view', chosen)
  /\ UNCHANGED <<netVars, channel, registry, aged, batch>>

\* select_receiver_device
Select(d) ==
  /\ phase = "idle" /\ d \in Offered(view)
  /\ chosen' = d
  /\ UNCHANGED <<netVars, channel, registry, aged, phase, batch, view>>

DiscoveryPoll == StartPoll \/ PollEvent \/ PruneStale \/ ApplyEvent \/ ApplySnapshot

DiscoveryNext ==
  \/ \E d \in Device : \E a \in Announcement[d] : Announce(d, a)
  \/ \E d \in Device : Leave(d) \/ ReportResolved(d) \/ Age(d) \/ Select(d)
  \/ \E g \in Goodbye : ReportRemoved(g)
  \/ DiscoveryPoll

\* The poll timer fires again and again and a callback ends; what is announced
\* is resolved again and again; a silent host's entry grows old.
DiscoveryFairness ==
  /\ WF_discoveryVars(DiscoveryPoll)
  /\ \A d \in Device \ {Local} :
       SF_discoveryVars(ReportResolved(d)) /\ SF_discoveryVars(Age(d) /\ air[d] = None)

DiscoverySpec == DiscoveryInit /\ [][DiscoveryNext]_discoveryVars /\ DiscoveryFairness

-----------------------------------------------------------------------------
(* Properties.                                                             *)

\* What the selector shows as chosen is a receiver that can be cast to, never
\* this host itself, and nothing is chosen only when there is none: after every
\* single event of a batch, not only at the end of a poll.
SelectionOffered ==
  IF chosen = None THEN Offered(view) = {}
  ELSE chosen \in Offered(view) /\ chosen # Local

\* The events of a poll tell all that changed in the registry: replayed on the
\* displayed list they give the snapshot, so a suppressed duplicate, an entry
\* that went stale and came back, or a removal never leaves the two apart.
EventsTellAll == phase = "apply" /\ batch = <<>> => view = registry

\* What this host ought to offer, for a host whose addresses are usable.
Offers(a) == a.receiver /\ a.avail = "available" /\ a.current

\* Losses and late goodbyes heal: a host that left, with or without a goodbye,
\* is in the end never offered again; a host that stays is, again and again,
\* offered exactly when its announcement says so.
ViewCatchesUp ==
  \A d \in Device \ {Local} :
    /\ <>[](air[d] = None => d \notin Offered(view))
    /\ []<>(air[d] # None /\ PreferredIps(air[d].addrs) # {None}
              => (d \in Offered(view) <=> Offers(air[d])))

\* docs/discovery.md: duplicate announcements for the same device update the
\* existing entry.  An address that replaces another of the same rank without a
\* goodbye that is heard is to be used, again and again, after it is announced.
EndpointFollowsAnnouncement ==
  \A d \in Device \ {Local} :
    []<>(air[d] # None /\ d \in Offered(view) => view[d].endpoint \in PreferredIps(air[d].addrs))

=============================================================================
