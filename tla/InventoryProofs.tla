-------------------------- MODULE InventoryProofs --------------------------
(***************************************************************************)
(* Proofs about what the user interface lists and selects from: capture    *)
(* sources (AudioInventory) and receivers (DeviceRegistry).                *)
(*                                                                         *)
(* Sources: type correctness and what the selection promises, for every    *)
(* set of sources and every bound.  Receivers: type correctness, that the  *)
(* selection can be cast to, and that the events of a poll tell all that   *)
(* changed, for every set of devices, names and announcements.             *)
(***************************************************************************)
EXTENDS AudioInventory, DeviceRegistry,
        FiniteSetTheorems, FunctionTheorems, SequenceTheorems, TLAPS

-----------------------------------------------------------------------------
(* The audio inventory.                                                    *)

IInv == TypeOK /\ SelectionIsListed /\ SelectionIsStored

\* set_audio_sources selects a source that is listed, or none when none is listed
\* (state.rs 77-96).
LEMMA SelectedFacts ==
  ASSUME NEW S \in SUBSET Sources, NEW was \in MaybeSource, NEW s \in Selected(S, was)
  PROVE  /\ s \in MaybeSource
         /\ S # {} => s \in S
BY InventoryAssumption DEF Selected, MaybeSource

\* A save stores what it is given or is refused (persist_current_config).
LEMMA SaveFacts ==
  ASSUME TypeOK, NEW p \in MaybeSource, Save(p)
  PROVE  /\ stored' \in MaybeSource /\ refused' \in BOOLEAN /\ failures' \in 0..MaxFailures
         /\ ~refused' => stored' = p
<1>1. CASE stored' = p /\ refused' = FALSE /\ UNCHANGED failures
  BY <1>1 DEF TypeOK
<1>2. CASE failures < MaxFailures /\ failures' = failures + 1 /\ refused' = TRUE
           /\ UNCHANGED stored
  <2>1. failures' \in 0..MaxFailures
    BY <1>2, InventoryAssumption DEF TypeOK
  <2> QED BY <1>2, <2>1 DEF TypeOK
<1> QED BY <1>1, <1>2 DEF Save

\* A change of the selection that is saved only when it is one.
LEMMA PersistFacts ==
  ASSUME IInv, NEW s \in MaybeSource, Choose(s), Persist(selected' # selected)
  PROVE  /\ stored' \in MaybeSource /\ refused' \in BOOLEAN /\ failures' \in 0..MaxFailures
         /\ ~refused' => stored' = s
<1>1. selected' = s /\ preferred' = s
  BY DEF Choose
<1>2. CASE selected' # selected
  <2>1. Save(s)
    BY <1>1, <1>2 DEF Persist
  <2> QED BY <2>1, SaveFacts DEF IInv
<1>3. CASE selected' = selected
  <2>1. UNCHANGED <<stored, refused, failures>>
    BY <1>3 DEF Persist
  <2>2. preferred = s
    BY <1>1, <1>3 DEF IInv, SelectionIsListed
  <2> QED BY <2>1, <2>2 DEF IInv, TypeOK, SelectionIsStored
<1> QED BY <1>2, <1>3

\* The three together follow from what the steps below establish.
LEMMA NewSelection ==
  ASSUME IInv, NEW s \in MaybeSource, Choose(s),
         stored' \in MaybeSource, refused' \in BOOLEAN, ~refused' => stored' = s,
         listed' # {} => s \in listed'
  PROVE  /\ selected' \in MaybeSource /\ preferred' \in MaybeSource
         /\ SelectionIsListed' /\ SelectionIsStored'
BY DEF Choose, SelectionIsListed, SelectionIsStored

LEMMA InitIInv == Init => IInv
<1> SUFFICES ASSUME Init PROVE IInv
  OBVIOUS
<1>1. 0 \in 0..MaxPlugs /\ 0 \in 0..MaxFailures /\ 0 \in 0..MaxOps
  BY InventoryAssumption
<1>2. results \in Seq(Listing \cup {Error})
  BY DEF Init
<1>3. NoSource \in MaybeSource
  BY DEF MaybeSource
<1>4. TypeOK
  BY <1>1, <1>2, <1>3 DEF Init, TypeOK
<1> QED BY <1>4 DEF Init, IInv, SelectionIsListed, SelectionIsStored

LEMMA StepIInv == IInv /\ [Next]_vars => IInv'
<1> SUFFICES ASSUME IInv, [Next]_vars PROVE IInv'
  OBVIOUS
<1> USE InventoryAssumption
    DEF airVars, pollVars, stateVars, fileVars, mirrorVars, bounds
<1>1. CASE Poll
  BY <1>1 DEF Poll, IInv, TypeOK, SelectionIsListed, SelectionIsStored
<1>2. CASE List
  <2>1. [sources |-> plugged, output |-> output] \in Listing
    BY DEF IInv, TypeOK, Listing
  <2>2. results' \in Seq(Listing \cup {Error}) /\ failures' \in 0..MaxFailures
    BY <1>2, <2>1, AppendProperties DEF List, IInv, TypeOK
  <2> QED BY <1>2, <2>2 DEF List, IInv, TypeOK, SelectionIsListed, SelectionIsStored
<1>3. CASE Listed
  BY <1>3 DEF Listed, IInv, TypeOK, SelectionIsListed, SelectionIsStored
<1>4. CASE ApplyListing
  <2>1. results' \in Seq(Listing \cup {Error}) /\ Head(results) \in Listing \cup {Error}
    BY <1>4 DEF ApplyListing, IInv, TypeOK
  <2>2. CASE Head(results) = Error
    BY <1>4, <2>1, <2>2
       DEF ApplyListing, IInv, TypeOK, SelectionIsListed, SelectionIsStored
  <2>3. CASE Head(results) # Error
    <3> DEFINE new == Head(results)
    <3>1. new \in Listing /\ new.sources \in SUBSET Sources /\ new.output \in BOOLEAN
      BY <2>1, <2>3 DEF Listing
    <3>2. PICK s \in Selected(new.sources, selected) : Choose(s)
      BY <1>4, <2>3 DEF ApplyListing
    <3>3. /\ listed' = new.sources /\ outputSeen' = new.output
          /\ Persist(selected' # selected)
          /\ UNCHANGED <<plugged, output, worker, inFlight, pinned, portable, mirror, plugs, ops>>
      BY <1>4, <2>3 DEF ApplyListing
    <3>4. commands' \in Nat /\ shown' \in {"Idle", "Mirroring", "Error"}
      BY <1>4, <2>3 DEF ApplyListing, IInv, TypeOK
    <3>5. s \in MaybeSource /\ (new.sources # {} => s \in new.sources)
      BY <3>1, <3>2, SelectedFacts DEF IInv, TypeOK
    <3>6. /\ stored' \in MaybeSource /\ refused' \in BOOLEAN /\ failures' \in 0..MaxFailures
          /\ ~refused' => stored' = s
      BY <3>2, <3>3, <3>5, PersistFacts
    <3>7. /\ selected' \in MaybeSource /\ preferred' \in MaybeSource
          /\ SelectionIsListed' /\ SelectionIsStored'
      BY <3>2, <3>3, <3>5, <3>6, NewSelection
    <3>8. TypeOK'
      BY <2>1, <3>1, <3>3, <3>4, <3>6, <3>7 DEF IInv, TypeOK
    <3> QED BY <3>7, <3>8 DEF IInv
  <2> QED BY <2>2, <2>3
<1>5. ASSUME NEW s \in Sources, SelectSource(s) PROVE IInv'
  <2>1. s \in MaybeSource /\ s \in listed /\ listed' = listed /\ Choose(s) /\ Save(s)
    BY <1>5 DEF SelectSource, MaybeSource
  <2>2. /\ stored' \in MaybeSource /\ refused' \in BOOLEAN /\ failures' \in 0..MaxFailures
        /\ ~refused' => stored' = s
    BY <2>1, SaveFacts DEF IInv
  <2>3. /\ selected' \in MaybeSource /\ preferred' \in MaybeSource
        /\ SelectionIsListed' /\ SelectionIsStored'
    BY <2>1, <2>2, NewSelection
  <2>4. TypeOK'
    BY <1>5, <2>2, <2>3 DEF SelectSource, Act, IInv, TypeOK
  <2> QED BY <2>3, <2>4 DEF IInv
<1>6. CASE SelectOutput
  <2>1. Save(preferred) /\ preferred \in MaybeSource
    BY <1>6 DEF SelectOutput, IInv, TypeOK
  <2>2. /\ stored' \in MaybeSource /\ refused' \in BOOLEAN /\ failures' \in 0..MaxFailures
        /\ ~refused' => stored' = preferred
    BY <2>1, SaveFacts DEF IInv
  <2>3. commands' \in Nat /\ shown' \in {"Idle", "Mirroring", "Error"} /\ ops' \in 0..MaxOps
    BY <1>6 DEF SelectOutput, Act, IInv, TypeOK
  <2>4. /\ pinned' \in BOOLEAN
        /\ UNCHANGED <<plugged, output, worker, inFlight, results, listed, outputSeen,
                       selected, preferred, portable, mirror, plugs>>
    BY <1>6 DEF SelectOutput
  <2> QED BY <2>2, <2>3, <2>4 DEF IInv, TypeOK, SelectionIsListed, SelectionIsStored
<1>7. CASE Export
  BY <1>7 DEF Export, Act, IInv, TypeOK, SelectionIsListed, SelectionIsStored
<1>8. CASE Import
  <2>1. PICK s \in Selected(listed, portable) : Choose(s) /\ Save(s)
    BY <1>8 DEF Import
  <2>2. s \in MaybeSource /\ (listed # {} => s \in listed) /\ listed' = listed
    BY <1>8, <2>1, SelectedFacts DEF Import, IInv, TypeOK
  <2>3. /\ stored' \in MaybeSource /\ refused' \in BOOLEAN /\ failures' \in 0..MaxFailures
        /\ ~refused' => stored' = s
    BY <2>1, <2>2, SaveFacts DEF IInv
  <2>4. /\ selected' \in MaybeSource /\ preferred' \in MaybeSource
        /\ SelectionIsListed' /\ SelectionIsStored'
    BY <2>1, <2>2, <2>3, NewSelection
  <2>5. TypeOK'
    BY <1>8, <2>3, <2>4 DEF Import, Act, IInv, TypeOK
  <2> QED BY <2>4, <2>5 DEF IInv
<1>9. CASE StartCast
  BY <1>9 DEF StartCast, Act, IInv, TypeOK, SelectionIsListed, SelectionIsStored
<1>10. CASE StopCast
  BY <1>10 DEF StopCast, Act, IInv, TypeOK, SelectionIsListed, SelectionIsStored
<1>11. CASE MirrorFails
  BY <1>11 DEF MirrorFails, IInv, TypeOK, SelectionIsListed, SelectionIsStored
<1>12. CASE Retarget
  BY <1>12 DEF Retarget, IInv, TypeOK, SelectionIsListed, SelectionIsStored
<1>13. CASE StreamingPoll
  BY <1>13 DEF StreamingPoll, IInv, TypeOK, SelectionIsListed, SelectionIsStored
<1>14. CASE Plug
  <2>1. plugs' \in 0..MaxPlugs
    BY <1>14 DEF Plug, IInv, TypeOK
  <2>2. output' \in BOOLEAN
    BY <1>14 DEF Plug, IInv, TypeOK
  <2>3. plugged' \subseteq Sources
    BY <1>14, Zenon DEF Plug, IInv, TypeOK
  <2> QED BY <1>14, <2>1, <2>2, <2>3 DEF Plug, IInv, TypeOK, SelectionIsListed, SelectionIsStored
<1>15. CASE UNCHANGED vars
  BY <1>15 DEF vars, IInv, TypeOK, SelectionIsListed, SelectionIsStored
<1> QED
  BY <1>1, <1>2, <1>3, <1>4, <1>5, <1>6, <1>7, <1>8, <1>9, <1>10, <1>11, <1>12, <1>13,
     <1>14, <1>15 DEF Next

\* The inductive invariant holds.
THEOREM InvariantHolds == Spec => []IInv
<1> QED BY InitIInv, StepIInv, PTL DEF Spec

\* Every variable keeps its type: no more retargets are handled than were sent
\* (ui.rs 3905-4215).
THEOREM TypeCorrect == Spec => []TypeOK
<1>1. IInv => TypeOK
  BY DEF IInv
<1> QED BY <1>1, InvariantHolds, PTL

\* The flag that keeps the timer from polling is set only while a listing thread is
\* there to clear it: a failed listing does not end the polls (ui.rs 3931-3998).
ListingIsUnderWay == inFlight <=> worker # "none"

\* The poll that sets the flag starts the thread, which clears it as it ends, whatever
\* it found.
THEOREM PollingGoesOn == Spec => []ListingIsUnderWay
<1>1. Init => ListingIsUnderWay
  BY DEF Init, ListingIsUnderWay
<1>2. ListingIsUnderWay /\ [Next]_vars => ListingIsUnderWay'
  <2> SUFFICES ASSUME ListingIsUnderWay, [Next]_vars PROVE ListingIsUnderWay'
    OBVIOUS
  <2>1. CASE Poll \/ List \/ Listed
    BY <2>1 DEF Poll, List, Listed, ListingIsUnderWay
  <2>2. CASE UNCHANGED <<worker, inFlight>>
    BY <2>2 DEF ListingIsUnderWay
  <2>3. Next => Poll \/ List \/ Listed \/ UNCHANGED <<worker, inFlight>>
    BY DEF Next, ApplyListing, SelectSource, SelectOutput, Export, Import, StartCast,
           StopCast, MirrorFails, Retarget, StreamingPoll, Plug, pollVars
  <2> QED BY <2>1, <2>2, <2>3 DEF vars, pollVars
<1> QED BY <1>1, <1>2, PTL DEF Spec

\* The source selected is listed whenever any is, and is the one saved, unless a
\* save was refused (state.rs 77-112, ui.rs 504-538, 4000-4215).
THEOREM SelectionSound == Spec => []SelectionAgrees
<1>1. IInv => SelectionAgrees
  BY DEF IInv, SelectionAgrees
<1> QED BY <1>1, InvariantHolds, PTL

-----------------------------------------------------------------------------
(* The device registry.                                                    *)

\* Known devices are finitely many, though the network may have any number.
KnownAreFinite == IsFiniteSet({d \in Device : registry[d] # None})

QuietBetweenPolls == phase = "idle" => batch = <<>>

\* The event of a device that no later one of the batch replaces.
LastOfDevice(i) == \A j \in DOMAIN batch : j > i => batch[j].dev # batch[i].dev

\* What the events waiting will make of the displayed list is the registry: the
\* last one of a device carries its entry, and a device without one is displayed as
\* it is.
EventsTell ==
  \A d \in Device :
    /\ (\A i \in DOMAIN batch : batch[i].dev # d) => view[d] = registry[d]
    /\ \A i \in DOMAIN batch :
         batch[i].dev = d /\ LastOfDevice(i) => batch[i].entry = registry[d]

\* This host hears itself, and never as a receiver to connect to.
SelfNotConnectable ==
  /\ ~Connectable(registry[Local]) /\ ~Connectable(view[Local])
  /\ \A i \in DOMAIN batch : batch[i].dev = Local => ~Connectable(batch[i].entry)

RegistryInv ==
  /\ KnownAreFinite /\ QuietBetweenPolls /\ EventsTell /\ SelfNotConnectable
  /\ SelectionOffered

DiscoveryIInv == DiscoveryTypeOK /\ RegistryInv

\* An order of a finite set has each of its elements once.
LEMMA OrderFacts ==
  ASSUME NEW S, IsFiniteSet(S), NEW order \in SetToSeqs(S)
  PROVE  /\ order \in Seq(S)
         /\ \A s \in S : \E i \in DOMAIN order : order[i] = s
<1>1. Cardinality(S) \in Nat
  BY FS_CardinalityType
<1>2. /\ order \in [1..Cardinality(S) -> S]
      /\ \A i, j \in 1..Cardinality(S) : i # j => order[i] # order[j]
  BY DEF SetToSeqs
<1>3. order \in Injection(1..Cardinality(S), S)
  BY <1>2 DEF Injection, IsInjective
<1>4. IsFiniteSet(1..Cardinality(S)) /\ Cardinality(1..Cardinality(S)) = Cardinality(S)
  BY <1>1, FS_Interval
<1>5. order \in Surjection(1..Cardinality(S), S)
  BY <1>3, <1>4, FS_Injection
<1> QED BY <1>1, <1>2, <1>5 DEF Surjection

\* A resolved service is an entry; that of this host is no receiver to connect to.
LEMMA ResolvedFacts ==
  ASSUME NEW d \in Device, NEW a \in Announcements, NEW e \in FromResolved(d, a)
  PROVE  e \in Entry /\ (d = Local => e.status = "SelfDevice")
<1>1. PICK ep \in IF a.receiver THEN PreferredIps(a.addrs) ELSE {None} :
        e = [receiver |-> a.receiver, avail |-> a.avail, current |-> a.current,
             endpoint |-> ep, name |-> a.name, status |-> DeriveStatus(d, a, ep)]
  BY DEF FromResolved
<1>2. /\ a.receiver \in BOOLEAN /\ a.avail \in Availability /\ a.current \in BOOLEAN
      /\ a.name \in Names
  BY DEF Announcements
<1>3. ep \in Address \cup {None}
  BY <1>1 DEF PreferredIps, Candidate
<1>4. DeriveStatus(d, a, ep) \in Status /\ (d = Local => DeriveStatus(d, a, ep) = "SelfDevice")
  BY <1>2 DEF DeriveStatus, ReceiverState, Status
<1> QED BY <1>1, <1>2, <1>3, <1>4 DEF Entry

\* Merging a report into an entry keeps its type and takes the report's status.
LEMMA MergeFacts ==
  ASSUME NEW old \in Entry, NEW e \in Entry
  PROVE  LET merged == [e EXCEPT !.endpoint = PreferredEndpoint(old.endpoint, @)]
         IN  merged \in Entry /\ merged.status = e.status
<1>1. PreferredEndpoint(old.endpoint, e.endpoint) \in Address \cup {None}
  BY DEF PreferredEndpoint, Entry
<1> QED BY <1>1 DEF Entry

\* A stale entry is one, and cannot be connected to.
LEMMA StaleFacts ==
  ASSUME NEW e \in Entry
  PROVE  Stale(e) \in Entry /\ Stale(e).status = "Stale"
BY DEF Stale, Entry, Status, Availability

\* Events added to the batch keep it telling the registry, if they are of the
\* devices whose entries change and carry the new ones.
LEMMA TellMore ==
  ASSUME DiscoveryTypeOK, EventsTell, NEW more \in Seq(Event),
         batch' = batch \o more, view' = view,
         \A d \in Device :
           (\A k \in DOMAIN more : more[k].dev # d) => registry'[d] = registry[d],
         \A k \in DOMAIN more : more[k].entry = registry'[more[k].dev]
  PROVE  EventsTell'
<1> DEFINE n == Len(batch)
<1>1. /\ batch \in Seq(Event) /\ n \in Nat /\ DOMAIN batch = 1..n
      /\ Len(more) \in Nat /\ DOMAIN more = 1..Len(more)
      /\ DOMAIN batch' = 1..(n + Len(more))
      /\ \A i \in 1..n : batch'[i] = batch[i]
      /\ \A k \in 1..Len(more) : batch'[n + k] = more[k]
  BY DEF DiscoveryTypeOK
<1> HIDE DEF n
<1>2. \A k \in 1..Len(more) : n + k \in DOMAIN batch' /\ n + k > n
  BY <1>1
<1> SUFFICES ASSUME NEW d \in Device
    PROVE  /\ (\A i \in DOMAIN batch' : batch'[i].dev # d) => view'[d] = registry'[d]
           /\ \A i \in DOMAIN batch' :
                batch'[i].dev = d /\ LastOfDevice(i)' => batch'[i].entry = registry'[d]
  BY DEF EventsTell
<1>3. ASSUME \A i \in DOMAIN batch' : batch'[i].dev # d
      PROVE  view'[d] = registry'[d]
  <2>1. \A i \in DOMAIN batch : batch[i].dev # d
    BY <1>1, <1>3
  <2>2. ASSUME NEW k \in DOMAIN more PROVE more[k].dev # d
    <3>1. n + k \in DOMAIN batch' /\ batch'[n + k] = more[k]
      BY <1>1, <1>2
    <3> QED BY <1>3, <3>1
  <2> QED BY <2>1, <2>2 DEF EventsTell
<1>4. ASSUME NEW i \in DOMAIN batch', batch'[i].dev = d, LastOfDevice(i)'
      PROVE  batch'[i].entry = registry'[d]
  <2>1. CASE i \in 1..n
    <3>1. \A k \in DOMAIN more : more[k].dev # d
      <4> SUFFICES ASSUME NEW k \in DOMAIN more, more[k].dev = d PROVE FALSE
        OBVIOUS
      <4>1. n + k \in DOMAIN batch' /\ n + k > i /\ batch'[n + k] = more[k]
        BY <1>1, <1>2, <2>1
      <4>2. batch'[n + k].dev # batch'[i].dev
        BY <1>4, <4>1 DEF LastOfDevice
      <4> QED BY <1>4, <4>1, <4>2
    <3>2. batch[i].dev = d /\ i \in DOMAIN batch
      BY <1>1, <1>4, <2>1
    <3>3. LastOfDevice(i)
      BY <1>1, <1>4, <2>1 DEF LastOfDevice
    <3>4. batch[i].entry = registry[d]
      BY <3>2, <3>3 DEF EventsTell
    <3> QED BY <1>1, <2>1, <3>1, <3>4
  <2>2. CASE i \notin 1..n
    <3>1. PICK k \in 1..Len(more) : i = n + k
      <4>1. i - n \in 1..Len(more) /\ i = n + (i - n)
        BY <1>1, <2>2
      <4> QED BY <4>1
    <3>2. batch'[i] = more[k] /\ k \in DOMAIN more
      BY <1>1, <3>1
    <3>3. more[k].dev = d
      BY <1>4, <3>2
    <3>4. more[k].entry = registry'[more[k].dev]
      BY <3>2
    <3> QED BY <3>2, <3>3, <3>4
  <2> QED BY <2>1, <2>2
<1> QED BY <1>3, <1>4

\* Added events of this host show no receiver to connect to, if its new entry is none.
LEMMA MoreOfSelf ==
  ASSUME DiscoveryTypeOK, NEW more \in Seq(Event), batch' = batch \o more,
         \A i \in DOMAIN batch : batch[i].dev = Local => ~Connectable(batch[i].entry),
         \A k \in DOMAIN more : more[k].entry = registry'[more[k].dev],
         ~Connectable(registry'[Local])
  PROVE  \A i \in DOMAIN batch' : batch'[i].dev = Local => ~Connectable(batch'[i].entry)
<1> SUFFICES ASSUME NEW i \in DOMAIN batch', batch'[i].dev = Local
             PROVE  ~Connectable(batch'[i].entry)
  OBVIOUS
<1>1. CASE i \in 1..Len(batch)
  <2>1. i \in DOMAIN batch /\ batch'[i] = batch[i]
    BY <1>1 DEF DiscoveryTypeOK
  <2> QED BY <2>1
<1>2. CASE i \notin 1..Len(batch)
  <2>1. PICK k \in DOMAIN more : batch'[i] = more[k]
    <3>1. /\ i - Len(batch) \in DOMAIN more
          /\ batch'[i] = more[i - Len(batch)]
      BY <1>2 DEF DiscoveryTypeOK
    <3> QED BY <3>1
  <2> QED BY <2>1
<1> QED BY <1>1, <1>2

\* Whatever is displayed, the selection is made from it.
LEMMA SelectionFollows ==
  ASSUME RegistryAssumption, NEW v \in [Device -> Entry \cup {None}], ~Connectable(v[Local]),
         NEW s, NEW t \in Reconciled(v, s)
  PROVE  /\ t \in Device \cup {None}
         /\ IF t = None THEN Offered(v) = {} ELSE t \in Offered(v) /\ t # Local
BY DEF Reconciled, Offered, RegistryAssumption

\* The invariant holds before the first poll.
LEMMA InitDiscoveryIInv == DiscoveryInit => DiscoveryIInv
<1> SUFFICES ASSUME DiscoveryInit PROVE DiscoveryIInv
  OBVIOUS
<1>1. PICK a \in Announcement[Local] :
        air = [d \in Device |-> IF d = Local THEN a ELSE None]
  BY DEF DiscoveryInit
<1>2. a \in Announcements
  BY <1>1, RegistryAssumption DEF RegistryAssumption
<1>3. DiscoveryTypeOK
  BY <1>1, <1>2, RegistryAssumption DEF DiscoveryInit, DiscoveryTypeOK, RegistryAssumption
<1>4. {d \in Device : registry[d] # None} = {}
  BY DEF DiscoveryInit
<1>5. KnownAreFinite
  BY <1>4, FS_EmptySet DEF KnownAreFinite
<1>6. Offered(view) = {} /\ ~Connectable(registry[Local]) /\ ~Connectable(view[Local])
  BY RegistryAssumption DEF DiscoveryInit, Offered, Connectable, RegistryAssumption
<1>7. QuietBetweenPolls /\ EventsTell /\ SelfNotConnectable /\ SelectionOffered
  BY <1>6 DEF DiscoveryInit, QuietBetweenPolls, EventsTell, SelfNotConnectable, SelectionOffered
<1> QED BY <1>3, <1>5, <1>7 DEF DiscoveryIInv, RegistryInv

\* Of the network, the daemon's channel and the age of entries the invariant says nothing.
LEMMA NetworkSteps ==
  ASSUME RegistryInv, UNCHANGED <<registry, phase, batch, view, chosen>>
  PROVE  RegistryInv'
BY DEF RegistryInv, KnownAreFinite, QuietBetweenPolls, EventsTell, LastOfDevice,
       SelfNotConnectable, SelectionOffered

LEMMA AnnounceStep ==
  ASSUME DiscoveryIInv, NEW d \in Device, NEW a \in Announcement[d], Announce(d, a)
  PROVE  DiscoveryIInv'
<1>1. a \in Announcements
  BY RegistryAssumption DEF RegistryAssumption
<1>2. RegistryInv'
  BY NetworkSteps DEF DiscoveryIInv, Announce, uiVars
<1>3. DiscoveryTypeOK'
  BY <1>1, RegistryAssumption
     DEF DiscoveryIInv, DiscoveryTypeOK, RegistryAssumption, Announce, uiVars
<1> QED BY <1>2, <1>3 DEF DiscoveryIInv

LEMMA LeaveStep ==
  ASSUME DiscoveryIInv, NEW d \in Device, Leave(d)
  PROVE  DiscoveryIInv'
<1>1. RegistryInv'
  BY NetworkSteps DEF DiscoveryIInv, Leave, uiVars
<1>2. air[d] \in Announcements
  BY DEF DiscoveryIInv, DiscoveryTypeOK, Leave
<1>3. <<d, air[d].name>> \in Goodbye
  BY <1>2 DEF Goodbye, Announcements
<1>4. goodbyes' \subseteq Goodbye /\ air' \in [Device -> Announcements \cup {None}]
  BY <1>3 DEF DiscoveryIInv, DiscoveryTypeOK, Leave
<1>5. changes' \in 0..MaxChanges
  BY RegistryAssumption DEF DiscoveryIInv, DiscoveryTypeOK, Leave, RegistryAssumption
<1>6. DiscoveryTypeOK'
  BY <1>4, <1>5 DEF DiscoveryIInv, DiscoveryTypeOK, Leave, uiVars
<1> QED BY <1>1, <1>6 DEF DiscoveryIInv

LEMMA ReportStep ==
  ASSUME DiscoveryIInv,
         (\E d \in Device : ReportResolved(d)) \/ (\E g \in Goodbye : ReportRemoved(g))
  PROVE  DiscoveryIInv'
<1>1. RegistryInv'
  BY NetworkSteps DEF DiscoveryIInv, ReportResolved, ReportRemoved, Queued, uiVars, netVars
<1>2. ASSUME NEW r \in Report, Queued(r)
      PROVE  channel' \in Seq(Report)
  BY <1>2 DEF Queued, DiscoveryIInv, DiscoveryTypeOK
<1>3. ASSUME NEW d \in Device, ReportResolved(d)
      PROVE  DiscoveryTypeOK'
  <2>1. [kind |-> "resolved", dev |-> d, ann |-> air[d]] \in Report
    BY <1>3 DEF ReportResolved, Report, DiscoveryIInv, DiscoveryTypeOK
  <2>2. channel' \in Seq(Report)
    BY <1>2, <1>3, <2>1 DEF ReportResolved
  <2> QED BY <1>3, <2>2 DEF ReportResolved, Queued, netVars, uiVars, DiscoveryIInv, DiscoveryTypeOK
<1>4. ASSUME NEW g \in Goodbye, ReportRemoved(g)
      PROVE  DiscoveryTypeOK'
  <2>1. [kind |-> "removed", dev |-> g[1], name |-> g[2]] \in Report
    BY DEF Report, Goodbye
  <2>2. channel' \in Seq(Report)
    BY <1>2, <1>4, <2>1 DEF ReportRemoved
  <2> QED BY <1>4, <2>2 DEF ReportRemoved, Queued, uiVars, DiscoveryIInv, DiscoveryTypeOK
<1> QED BY <1>1, <1>3, <1>4 DEF DiscoveryIInv

LEMMA AgeStep ==
  ASSUME DiscoveryIInv, NEW d \in Device, Age(d)
  PROVE  DiscoveryIInv'
<1>1. RegistryInv'
  BY NetworkSteps DEF DiscoveryIInv, Age, uiVars
<1>2. DiscoveryTypeOK'
  BY DEF DiscoveryIInv, DiscoveryTypeOK, Age, uiVars, netVars
<1> QED BY <1>1, <1>2 DEF DiscoveryIInv

LEMMA SelectStep ==
  ASSUME DiscoveryIInv, NEW d \in Device, Select(d)
  PROVE  DiscoveryIInv'
<1>1. d # Local /\ d # None
  BY RegistryAssumption
     DEF Select, Offered, DiscoveryIInv, RegistryInv, SelfNotConnectable, RegistryAssumption
<1>2. SelectionOffered'
  BY <1>1 DEF Select, SelectionOffered, Offered
<1>3. KnownAreFinite' /\ QuietBetweenPolls' /\ EventsTell' /\ SelfNotConnectable'
  BY DEF Select, DiscoveryIInv, RegistryInv, KnownAreFinite, QuietBetweenPolls, EventsTell,
         LastOfDevice, SelfNotConnectable
<1>4. DiscoveryTypeOK'
  BY DEF DiscoveryIInv, DiscoveryTypeOK, Select, netVars
<1> QED BY <1>2, <1>3, <1>4 DEF DiscoveryIInv, RegistryInv

LEMMA StartPollStep ==
  ASSUME DiscoveryIInv, StartPoll
  PROVE  DiscoveryIInv'
<1>1. batch = <<>> /\ batch' = batch
  BY DEF StartPoll, DiscoveryIInv, RegistryInv, QuietBetweenPolls
<1>2. RegistryInv'
  BY <1>1 DEF DiscoveryIInv, StartPoll, uiVars, RegistryInv, KnownAreFinite, QuietBetweenPolls,
              EventsTell, LastOfDevice, SelfNotConnectable, SelectionOffered
<1>3. DiscoveryTypeOK'
  BY <1>1 DEF DiscoveryIInv, DiscoveryTypeOK, StartPoll, uiVars, netVars
<1> QED BY <1>2, <1>3 DEF DiscoveryIInv

\* One event of the daemon: the entry of its device changes and an event tells, or
\* neither, and no other entry does.
LEMMA EventFacts ==
  ASSUME DiscoveryIInv, PollEvent
  PROVE  \E d \in Device, new \in Entry \cup {None} :
           /\ registry' = [registry EXCEPT ![d] = new]
           /\ d = Local => ~Connectable(new)
           /\ \/ new # registry[d] /\ batch' = Append(batch, [dev |-> d, entry |-> new])
              \/ new = registry[d] /\ batch' = batch
           /\ aged' \in [Device -> BOOLEAN]
<1> DEFINE r == Head(channel)
<1>1. r \in Report
  BY DEF PollEvent, DiscoveryIInv, DiscoveryTypeOK
<1>2. CASE r.kind = "resolved"
  <2>1. r.dev \in Device /\ r.ann \in Announcements
    BY <1>1, <1>2 DEF Report
  <2>2. PICK e \in FromResolved(r.dev, r.ann) : Upsert(r.dev, e)
    BY <1>2 DEF PollEvent
  <2>3. e \in Entry /\ (r.dev = Local => e.status = "SelfDevice")
    BY <2>1, <2>2, ResolvedFacts
  <2> DEFINE old == registry[r.dev]
             merged == IF old = None THEN e
                       ELSE [e EXCEPT !.endpoint = PreferredEndpoint(old.endpoint, @)]
  <2>4. merged \in Entry /\ merged.status = e.status
    BY <2>1, <2>3, MergeFacts DEF DiscoveryIInv, DiscoveryTypeOK
  <2>5. /\ registry' = [registry EXCEPT ![r.dev] = merged]
        /\ aged' = [aged EXCEPT ![r.dev] = FALSE]
        /\ IF old = merged THEN batch' = batch
           ELSE batch' = Append(batch, [dev |-> r.dev, entry |-> merged])
    BY <2>2 DEF Upsert, Emit, MateriallySame
  <2>6. r.dev = Local => ~Connectable(merged)
    BY <2>3, <2>4 DEF Connectable
  <2>7. aged' \in [Device -> BOOLEAN]
    BY <2>1, <2>5 DEF DiscoveryIInv, DiscoveryTypeOK
  <2> HIDE DEF merged, r
  <2> QED BY <2>1, <2>4, <2>5, <2>6, <2>7
<1>3. CASE r.kind # "resolved"
  <2>1. r.dev \in Device /\ MarkRemoved(r.dev, r.name)
    BY <1>1, <1>3 DEF Report, PollEvent
  <2>2. ~Connectable(None)
    BY DEF Connectable
  <2>3. aged' \in [Device -> BOOLEAN]
    BY <2>1 DEF MarkRemoved, DiscoveryIInv, DiscoveryTypeOK
  <2>4. CASE registry[r.dev] # None /\ registry[r.dev].name = r.name
    BY <2>1, <2>2, <2>3, <2>4 DEF MarkRemoved, Emit
  <2>5. CASE ~(registry[r.dev] # None /\ registry[r.dev].name = r.name)
    <3>1. registry' = registry /\ batch' = batch
      BY <2>1, <2>5 DEF MarkRemoved
    <3>2. /\ registry' = [registry EXCEPT ![r.dev] = registry[r.dev]]
          /\ registry[r.dev] \in Entry \cup {None}
      BY <2>1, <3>1 DEF DiscoveryIInv, DiscoveryTypeOK
    <3>3. r.dev = Local => ~Connectable(registry[r.dev])
      BY DEF DiscoveryIInv, RegistryInv, SelfNotConnectable
    <3> HIDE DEF r
    <3> QED BY <2>1, <2>3, <3>1, <3>2, <3>3
  <2> QED BY <2>4, <2>5
<1> QED BY <1>2, <1>3

LEMMA PollEventStep ==
  ASSUME DiscoveryIInv, PollEvent
  PROVE  DiscoveryIInv'
<1>1. PICK d \in Device, new \in Entry \cup {None} :
        /\ registry' = [registry EXCEPT ![d] = new]
        /\ d = Local => ~Connectable(new)
        /\ \/ new # registry[d] /\ batch' = Append(batch, [dev |-> d, entry |-> new])
           \/ new = registry[d] /\ batch' = batch
        /\ aged' \in [Device -> BOOLEAN]
  BY EventFacts
<1>2. /\ phase = "drain" /\ phase' = phase /\ channel # <<>> /\ channel' = Tail(channel)
      /\ UNCHANGED <<air, goodbyes, changes, view, chosen>>
  BY DEF PollEvent, netVars, uiVars
<1>3. registry' \in [Device -> Entry \cup {None}] /\ registry'[d] = new
      /\ \A c \in Device \ {d} : registry'[c] = registry[c]
  BY <1>1 DEF DiscoveryIInv, DiscoveryTypeOK
<1>4. PICK more \in Seq(Event) :
        /\ batch' = batch \o more
        /\ \A c \in Device : (\A k \in DOMAIN more : more[k].dev # c) => registry'[c] = registry[c]
        /\ \A k \in DOMAIN more : more[k].entry = registry'[more[k].dev]
  <2>1. CASE new # registry[d] /\ batch' = Append(batch, [dev |-> d, entry |-> new])
    <3> DEFINE ev == [dev |-> d, entry |-> new]
    <3>1. ev \in Event
      BY DEF Event
    <3>2. <<ev>> \in Seq(Event) /\ DOMAIN <<ev>> = {1} /\ <<ev>>[1] = ev
      BY <3>1
    <3>3. batch' = batch \o <<ev>>
      BY <2>1, <3>1 DEF DiscoveryIInv, DiscoveryTypeOK
    <3>4. ev.dev = d /\ ev.entry = new
      OBVIOUS
    <3> DEFINE more == <<ev>>
    <3>5. more \in Seq(Event) /\ batch' = batch \o more
      BY <3>2, <3>3
    <3>6. DOMAIN more = {1} /\ more[1].dev = d /\ more[1].entry = new
      BY <3>2, <3>4
    <3> HIDE DEF ev, more
    <3>7. \A c \in Device : (\A k \in DOMAIN more : more[k].dev # c) => registry'[c] = registry[c]
      BY <1>3, <3>6
    <3>8. \A k \in DOMAIN more : more[k].entry = registry'[more[k].dev]
      BY <1>3, <3>6
    <3> QED BY <3>5, <3>7, <3>8
  <2>2. CASE new = registry[d] /\ batch' = batch
    <3> DEFINE more == <<>>
    <3>1. more \in Seq(Event) /\ DOMAIN more = {}
      OBVIOUS
    <3>2. batch' = batch \o more
      BY <2>2 DEF DiscoveryIInv, DiscoveryTypeOK
    <3>3. \A c \in Device : registry'[c] = registry[c]
      BY <1>3, <2>2
    <3> HIDE DEF more
    <3> QED BY <3>1, <3>2, <3>3
  <2> QED BY <1>1, <2>1, <2>2
<1>5. DiscoveryTypeOK'
  <2>1. batch' \in Seq(Event) /\ channel' \in Seq(Report)
    BY <1>2, <1>4 DEF DiscoveryIInv, DiscoveryTypeOK
  <2> QED BY <1>1, <1>2, <1>3, <2>1 DEF DiscoveryIInv, DiscoveryTypeOK
<1>6. EventsTell'
  BY <1>2, <1>4, TellMore DEF DiscoveryIInv, RegistryInv
<1>7. ~Connectable(registry'[Local])
  BY <1>1, <1>3, RegistryAssumption
     DEF DiscoveryIInv, RegistryInv, SelfNotConnectable, RegistryAssumption
<1>8. SelfNotConnectable'
  BY <1>2, <1>4, <1>7, MoreOfSelf DEF DiscoveryIInv, RegistryInv, SelfNotConnectable
<1>9. KnownAreFinite'
  <2> DEFINE known == {c \in Device : registry[c] # None}
  <2>1. IsFiniteSet(known \cup {d})
    BY FS_AddElement DEF DiscoveryIInv, RegistryInv, KnownAreFinite
  <2>2. {c \in Device : registry'[c] # None} \in SUBSET (known \cup {d})
    BY <1>3
  <2> QED BY <2>1, <2>2, FS_Subset DEF KnownAreFinite
<1>10. QuietBetweenPolls' /\ SelectionOffered'
  BY <1>2 DEF DiscoveryIInv, RegistryInv, QuietBetweenPolls, SelectionOffered
<1> QED BY <1>5, <1>6, <1>8, <1>9, <1>10 DEF DiscoveryIInv, RegistryInv

\* Each entry that went stale has one event, in some order.
LEMMA PruneStep ==
  ASSUME DiscoveryIInv, PruneStale
  PROVE  DiscoveryIInv'
<1>1. PICK order \in SetToSeqs(Expired) :
        batch' = batch \o [i \in DOMAIN order |->
                             [dev |-> order[i], entry |-> Stale(registry[order[i]])]]
  BY DEF PruneStale
<1> DEFINE more == [i \in DOMAIN order |->
                      [dev |-> order[i], entry |-> Stale(registry[order[i]])]]
<1>2. IsFiniteSet(Expired)
  <2>1. Expired \in SUBSET {d \in Device : registry[d] # None}
    BY DEF Expired
  <2> QED BY <2>1, FS_Subset DEF DiscoveryIInv, RegistryInv, KnownAreFinite
<1>3. order \in Seq(Expired) /\ \A d \in Expired : \E i \in DOMAIN order : order[i] = d
  BY <1>2, OrderFacts
<1>4. \A d \in Expired : d \in Device /\ registry[d] \in Entry
                         /\ Stale(registry[d]) \in Entry /\ Stale(registry[d]).status = "Stale"
  BY StaleFacts DEF Expired, DiscoveryIInv, DiscoveryTypeOK
<1>5. /\ registry' = [d \in Device |-> IF d \in Expired THEN Stale(registry[d]) ELSE registry[d]]
      /\ phase' = "apply"
      /\ UNCHANGED <<air, goodbyes, changes, channel, aged, view, chosen>>
  BY DEF PruneStale, netVars, uiVars
<1>6. /\ more \in Seq(Event) /\ DOMAIN more = DOMAIN order
      /\ \A k \in DOMAIN order : /\ order[k] \in Expired /\ more[k].dev = order[k]
                                 /\ more[k].entry = Stale(registry[order[k]])
  <2>1. \A k \in DOMAIN order : order[k] \in Expired
    BY <1>3
  <2>2. \A k \in DOMAIN order :
          [dev |-> order[k], entry |-> Stale(registry[order[k]])] \in Event
    BY <1>4, <2>1 DEF Event
  <2>3. Len(order) \in Nat /\ DOMAIN order = 1..Len(order)
    BY <1>3
  <2>4. more \in Seq(Event)
    BY <2>2, <2>3, IsASeq
  <2> QED BY <2>1, <2>4
<1>7. batch' = batch \o more
  BY <1>1
<1> HIDE DEF more
<1>8. \A d \in Device : (\A k \in DOMAIN more : more[k].dev # d) => registry'[d] = registry[d]
  BY <1>3, <1>5, <1>6
<1>9. \A k \in DOMAIN more : more[k].entry = registry'[more[k].dev]
  BY <1>4, <1>5, <1>6
<1>10. EventsTell'
  BY <1>5, <1>6, <1>7, <1>8, <1>9, TellMore DEF DiscoveryIInv, RegistryInv
<1>11. registry' \in [Device -> Entry \cup {None}]
  BY <1>4, <1>5 DEF DiscoveryIInv, DiscoveryTypeOK
<1>12. DiscoveryTypeOK'
  <2>1. batch' \in Seq(Event)
    BY <1>6, <1>7 DEF DiscoveryIInv, DiscoveryTypeOK
  <2> QED BY <1>5, <1>11, <2>1 DEF DiscoveryIInv, DiscoveryTypeOK
<1>13. ~Connectable(registry'[Local])
  <2>1. Local \in Device
    BY RegistryAssumption DEF RegistryAssumption
  <2>2. CASE Local \in Expired
    BY <1>4, <1>5, <2>1, <2>2 DEF Connectable
  <2>3. CASE Local \notin Expired
    <3>1. registry'[Local] = registry[Local]
      BY <1>5, <2>1, <2>3
    <3> QED BY <3>1 DEF DiscoveryIInv, RegistryInv, SelfNotConnectable
  <2> QED BY <2>2, <2>3
<1>14. SelfNotConnectable'
  BY <1>5, <1>6, <1>7, <1>9, <1>13, MoreOfSelf DEF DiscoveryIInv, RegistryInv, SelfNotConnectable
<1>15. KnownAreFinite'
  <2>1. {d \in Device : registry'[d] # None} \in SUBSET {d \in Device : registry[d] # None}
    BY <1>5 DEF Expired
  <2> QED BY <2>1, FS_Subset DEF DiscoveryIInv, RegistryInv, KnownAreFinite
<1>16. QuietBetweenPolls' /\ SelectionOffered'
  BY <1>5 DEF DiscoveryIInv, RegistryInv, QuietBetweenPolls, SelectionOffered
<1> QED BY <1>10, <1>12, <1>14, <1>15, <1>16 DEF DiscoveryIInv, RegistryInv

\* Replaying one event keeps the rest of the batch telling what is missing.
LEMMA ApplyEventStep ==
  ASSUME DiscoveryIInv, ApplyEvent
  PROVE  DiscoveryIInv'
<1> DEFINE ev == Head(batch)
<1>1. /\ batch \in Seq(Event) /\ batch # <<>> /\ batch' = Tail(batch)
      /\ view' = [view EXCEPT ![ev.dev] = ev.entry]
      /\ chosen' \in Reconciled(view', chosen)
      /\ phase = "apply" /\ phase' = phase
      /\ UNCHANGED <<air, goodbyes, changes, channel, registry, aged>>
  BY DEF ApplyEvent, netVars, DiscoveryIInv, DiscoveryTypeOK
<1>2. /\ Len(batch) \in Nat \ {0} /\ DOMAIN batch = 1..Len(batch)
      /\ batch' \in Seq(Event) /\ DOMAIN batch' = 1..(Len(batch) - 1)
      /\ \A i \in DOMAIN batch' : batch'[i] = batch[i + 1] /\ i + 1 \in DOMAIN batch
      /\ ev = batch[1] /\ 1 \in DOMAIN batch /\ ev \in Event
  BY <1>1
<1>3. ev.dev \in Device /\ ev.entry \in Entry \cup {None}
  BY <1>2 DEF Event
<1> HIDE DEF ev
<1>4. view' \in [Device -> Entry \cup {None}] /\ view'[ev.dev] = ev.entry
      /\ \A d \in Device \ {ev.dev} : view'[d] = view[d]
  BY <1>1, <1>3 DEF DiscoveryIInv, DiscoveryTypeOK
<1>5. EventsTell'
  <2> SUFFICES ASSUME NEW d \in Device
      PROVE  /\ (\A i \in DOMAIN batch' : batch'[i].dev # d) => view'[d] = registry'[d]
             /\ \A i \in DOMAIN batch' :
                  batch'[i].dev = d /\ LastOfDevice(i)' => batch'[i].entry = registry'[d]
    BY DEF EventsTell
  <2>1. ASSUME \A i \in DOMAIN batch' : batch'[i].dev # d
        PROVE  view'[d] = registry'[d]
    <3>1. \A j \in DOMAIN batch : j > 1 => batch[j].dev # d
      <4> SUFFICES ASSUME NEW j \in DOMAIN batch, j > 1 PROVE batch[j].dev # d
        OBVIOUS
      <4>1. j - 1 \in DOMAIN batch' /\ batch'[j - 1] = batch[j]
        BY <1>2
      <4> QED BY <2>1, <4>1
    <3>2. CASE d = ev.dev
      <4>1. LastOfDevice(1)
        BY <1>2, <3>1, <3>2 DEF LastOfDevice
      <4>2. batch[1].entry = registry[d]
        BY <1>2, <3>2, <4>1 DEF DiscoveryIInv, RegistryInv, EventsTell
      <4> QED BY <1>1, <1>2, <1>4, <3>2, <4>2
    <3>3. CASE d # ev.dev
      <4>1. \A j \in DOMAIN batch : batch[j].dev # d
        BY <1>2, <3>1, <3>3
      <4>2. view[d] = registry[d]
        BY <4>1 DEF DiscoveryIInv, RegistryInv, EventsTell
      <4> QED BY <1>1, <1>4, <3>3, <4>2
    <3> QED BY <3>2, <3>3
  <2>2. ASSUME NEW i \in DOMAIN batch', batch'[i].dev = d, LastOfDevice(i)'
        PROVE  batch'[i].entry = registry'[d]
    <3>1. i + 1 \in DOMAIN batch /\ batch[i + 1] = batch'[i] /\ i \in Nat
      BY <1>2
    <3>2. LastOfDevice(i + 1)
      <4> SUFFICES ASSUME NEW j \in DOMAIN batch, j > i + 1 PROVE batch[j].dev # batch[i + 1].dev
        BY DEF LastOfDevice
      <4>1. j - 1 \in DOMAIN batch' /\ batch'[j - 1] = batch[j] /\ j - 1 > i
        BY <1>2, <3>1
      <4> QED BY <2>2, <3>1, <4>1 DEF LastOfDevice
    <3>3. batch[i + 1].entry = registry[d]
      BY <2>2, <3>1, <3>2 DEF DiscoveryIInv, RegistryInv, EventsTell
    <3> QED BY <1>1, <3>1, <3>3
  <2> QED BY <2>1, <2>2
<1>6. Local \in Device
  BY RegistryAssumption DEF RegistryAssumption
<1>7. ~Connectable(view'[Local])
  <2>1. CASE ev.dev = Local
    BY <1>2, <1>4, <2>1 DEF DiscoveryIInv, RegistryInv, SelfNotConnectable
  <2>2. CASE ev.dev # Local
    <3>1. view'[Local] = view[Local]
      BY <1>4, <1>6, <2>2
    <3> QED BY <3>1 DEF DiscoveryIInv, RegistryInv, SelfNotConnectable
  <2> QED BY <2>1, <2>2
<1>8. SelfNotConnectable'
  BY <1>1, <1>2, <1>7 DEF DiscoveryIInv, RegistryInv, SelfNotConnectable
<1>9. chosen' \in Device \cup {None} /\ SelectionOffered'
  BY <1>1, <1>4, <1>7, SelectionFollows, RegistryAssumption DEF SelectionOffered, Offered
<1>10. DiscoveryTypeOK'
  BY <1>1, <1>2, <1>4, <1>9 DEF DiscoveryIInv, DiscoveryTypeOK
<1>11. KnownAreFinite' /\ QuietBetweenPolls'
  BY <1>1 DEF DiscoveryIInv, RegistryInv, KnownAreFinite, QuietBetweenPolls
<1> QED BY <1>5, <1>8, <1>9, <1>10, <1>11 DEF DiscoveryIInv, RegistryInv

\* When the batch is replayed the list and the registry are one already: the
\* snapshot changes nothing.
LEMMA ReplayedIsRegistry ==
  ASSUME DiscoveryIInv, batch = <<>>
  PROVE  view = registry
<1>1. DOMAIN batch = {}
  OBVIOUS
<1>2. \A d \in Device : view[d] = registry[d]
  BY <1>1 DEF DiscoveryIInv, RegistryInv, EventsTell
<1> QED BY <1>2 DEF DiscoveryIInv, DiscoveryTypeOK

LEMMA ApplySnapshotStep ==
  ASSUME DiscoveryIInv, ApplySnapshot
  PROVE  DiscoveryIInv'
<1>1. /\ batch = <<>> /\ batch' = batch /\ phase' = "idle" /\ view' = registry
      /\ chosen' \in Reconciled(view', chosen)
      /\ UNCHANGED <<air, goodbyes, changes, channel, registry, aged>>
  BY DEF ApplySnapshot, netVars
<1>2. view' = view
  BY <1>1, ReplayedIsRegistry
<1>3. ~Connectable(view[Local]) /\ view \in [Device -> Entry \cup {None}]
  BY DEF DiscoveryIInv, RegistryInv, SelfNotConnectable, DiscoveryTypeOK
<1>4. chosen' \in Device \cup {None} /\ SelectionOffered'
  BY <1>1, <1>2, <1>3, SelectionFollows, RegistryAssumption DEF SelectionOffered, Offered
<1>5. DiscoveryTypeOK'
  BY <1>1, <1>2, <1>4 DEF DiscoveryIInv, DiscoveryTypeOK
<1>6. KnownAreFinite' /\ QuietBetweenPolls' /\ EventsTell' /\ SelfNotConnectable'
  BY <1>1, <1>2 DEF DiscoveryIInv, RegistryInv, KnownAreFinite, QuietBetweenPolls,
                    EventsTell, LastOfDevice, SelfNotConnectable
<1> QED BY <1>4, <1>5, <1>6 DEF DiscoveryIInv, RegistryInv

\* Every step of the network, of the daemon, of a poll and of the user preserves the
\* invariant.
LEMMA StepDiscoveryIInv == DiscoveryIInv /\ [DiscoveryNext]_discoveryVars => DiscoveryIInv'
<1> SUFFICES ASSUME DiscoveryIInv, [DiscoveryNext]_discoveryVars PROVE DiscoveryIInv'
  OBVIOUS
<1>1. CASE \E d \in Device : \E a \in Announcement[d] : Announce(d, a)
  BY <1>1, AnnounceStep
<1>2. CASE \E d \in Device : Leave(d) \/ ReportResolved(d) \/ Age(d) \/ Select(d)
  BY <1>2, LeaveStep, ReportStep, AgeStep, SelectStep
<1>3. CASE \E g \in Goodbye : ReportRemoved(g)
  BY <1>3, ReportStep
<1>4. CASE DiscoveryPoll
  BY <1>4, StartPollStep, PollEventStep, PruneStep, ApplyEventStep, ApplySnapshotStep
     DEF DiscoveryPoll
<1>5. CASE UNCHANGED discoveryVars
  <2>1. RegistryInv'
    BY <1>5, NetworkSteps DEF discoveryVars, uiVars, DiscoveryIInv
  <2> QED BY <1>5, <2>1 DEF discoveryVars, netVars, uiVars, DiscoveryIInv, DiscoveryTypeOK
<1> QED BY <1>1, <1>2, <1>3, <1>4, <1>5 DEF DiscoveryNext

\* The inductive invariant holds.
THEOREM DiscoveryInvariantHolds == DiscoverySpec => []DiscoveryIInv
BY InitDiscoveryIInv, StepDiscoveryIInv, PTL DEF DiscoverySpec

\* Every variable keeps its type, for any set of devices, names and announcements
\* (upsert, mark_removed_by_fullname, prune_stale, apply_discovery_event).
THEOREM DiscoveryTypeCorrect == DiscoverySpec => []DiscoveryTypeOK
<1>1. DiscoveryIInv => DiscoveryTypeOK
  BY DEF DiscoveryIInv
<1> QED BY <1>1, DiscoveryInvariantHolds, PTL

\* The selected receiver can be cast to, is never this host, and none is selected
\* only when there is none, after every event (reconcile_selected_receiver).
THEOREM SelectionIsOffered == DiscoverySpec => []SelectionOffered
<1>1. DiscoveryIInv => SelectionOffered
  BY DEF DiscoveryIInv, RegistryInv
<1> QED BY <1>1, DiscoveryInvariantHolds, PTL

\* The events of a poll, replayed one after the other, give the registry
\* (DeviceRegistry::upsert, prune_stale, apply_discovery_event).
THEOREM EventsTellRegistry == DiscoverySpec => []EventsTellAll
<1>1. DiscoveryIInv => EventsTellAll
  BY ReplayedIsRegistry DEF EventsTellAll
<1> QED BY <1>1, DiscoveryInvariantHolds, PTL

\* The snapshot at the end of a poll shows nothing new: the events were enough
\* (apply_discovery_snapshot).
THEOREM SnapshotAddsNothing == DiscoverySpec => [][ApplySnapshot => view' = view]_discoveryVars
<1>1. DiscoveryIInv => [ApplySnapshot => view' = view]_discoveryVars
  BY ReplayedIsRegistry DEF ApplySnapshot
<1> QED BY <1>1, DiscoveryInvariantHolds, PTL DEF DiscoverySpec

=============================================================================
