---------------------------- MODULE AudioInventory ----------------------------
(***************************************************************************)
(* Capture sources and playback outputs as the user interface knows them   *)
(* (ui.rs start_audio_inventory_poll, AppState).  A timer starts a thread  *)
(* that lists what PipeWire has, unless the previous one is still at work; *)
(* a second timer applies what the threads sent; the user, or an imported  *)
(* configuration, selects a source; and the local mirror of a cast, which  *)
(* failed when its output went away, is started again when the output is   *)
(* seen to be back.                                                        *)
(*                                                                         *)
(* A listing is sorted: the default monitor, then the others by kind and   *)
(* name, which the model leaves open.  Of the outputs there is the one the *)
(* user may have chosen, beside the default.  The mirror (LocalMirror) is  *)
(* reduced to whether it plays.  Saving the configuration is one step      *)
(* (AppSession splits it).                                                 *)
(***************************************************************************)
EXTENDS Naturals, Sequences

CONSTANTS Sources,        \* capture sources
          SystemDefault,  \* the default monitor among them
          NoSource, Error,
          MaxPlugs,       \* bound: sources and outputs coming and going
          MaxFailures,    \* bound: listings and saves that fail
          MaxOps,         \* bound: actions of the user
          MaxResults      \* bound: listings sent and not applied

ASSUME InventoryAssumption ==
  /\ SystemDefault \in Sources /\ NoSource \notin Sources
  /\ MaxPlugs \in Nat /\ MaxFailures \in Nat /\ MaxOps \in Nat
  /\ MaxResults \in Nat \ {0}

VARIABLES
  plugged,    \* the sources there are
  output,     \* the chosen output is there
  worker,     \* the listing thread
  inFlight,   \* refresh_in_flight
  results,    \* the channel of the listings
  listed,     \* AppState.audio_sources
  outputSeen, \* AppState.playback_targets has the output
  selected,   \* selected_audio_source_id
  preferred,  \* config.audio.preferred_source_id
  pinned,     \* config.audio.local_playback_target_id is the output
  stored,     \* preferred_source_id in config.toml
  refused,    \* the last save failed
  portable,   \* preferred_source_id in the exported configuration
  mirror,     \* the mirror of the cast
  shown,      \* AppState.streaming.local_mirror
  commands,   \* retargets the sender manager has not handled
  plugs, failures, ops

airVars    == <<plugged, output>>
pollVars   == <<worker, inFlight, results>>
stateVars  == <<listed, outputSeen, selected, preferred, pinned>>
fileVars   == <<stored, refused, portable>>
mirrorVars == <<mirror, shown, commands>>
bounds     == <<plugs, failures, ops>>
vars == <<airVars, pollVars, stateVars, fileVars, mirrorVars, bounds>>

MaybeSource == Sources \cup {NoSource}
Listing == [sources : SUBSET Sources, output : BOOLEAN]

TypeOK ==
  /\ plugged \subseteq Sources /\ output \in BOOLEAN
  /\ worker \in {"none", "listing", "sent"} /\ inFlight \in BOOLEAN
  /\ results \in Seq(Listing \cup {Error})
  /\ listed \subseteq Sources /\ outputSeen \in BOOLEAN /\ pinned \in BOOLEAN
  /\ selected \in MaybeSource /\ preferred \in MaybeSource /\ stored \in MaybeSource
  /\ portable \in MaybeSource /\ refused \in BOOLEAN
  /\ mirror \in {"Idle", "Mirroring", "Error"} /\ shown \in {"Idle", "Mirroring", "Error"}
  /\ commands \in Nat
  /\ plugs \in 0..MaxPlugs /\ failures \in 0..MaxFailures /\ ops \in 0..MaxOps

\* The window has just been built from the saved configuration, and the first
\* listing is under way.
Init ==
  /\ plugged = Sources /\ output = TRUE
  /\ worker = "listing" /\ inFlight = TRUE /\ results = <<>>
  /\ listed = {} /\ outputSeen = FALSE
  /\ stored \in MaybeSource /\ preferred = stored /\ selected = stored
  /\ pinned \in BOOLEAN /\ refused = FALSE /\ portable = NoSource
  /\ mirror = "Idle" /\ shown = "Idle" /\ commands = 0
  /\ plugs = 0 /\ failures = 0 /\ ops = 0

-----------------------------------------------------------------------------
(* Selection.                                                              *)

\* A bug: a selection is kept whether it is listed or not.
SelectedKept(S, was) ==
  IF was # NoSource THEN {was}
  ELSE IF SystemDefault \in S THEN {SystemDefault} ELSE IF S = {} THEN {NoSource} ELSE S

\* set_audio_sources: what may be selected once S is listed and `was' was.
Selected(S, was) ==
  CASE was \in S                           -> {was}
    [] S = {}                              -> {NoSource}
    [] was \notin S /\ SystemDefault \in S -> {SystemDefault}
    [] OTHER                               -> S

\* persist_current_config, which may fail.
Save(preference) ==
  \/ stored' = preference /\ refused' = FALSE /\ UNCHANGED failures
  \/ /\ failures < MaxFailures /\ failures' = failures + 1
     /\ refused' = TRUE /\ UNCHANGED stored

Choose(s) == selected' = s /\ preferred' = s

-----------------------------------------------------------------------------
(* The inventory poll.                                                     *)

\* The timer: skipped while a listing is in flight.
Poll ==
  /\ ~inFlight /\ inFlight' = TRUE /\ worker' = "listing"
  /\ UNCHANGED <<airVars, results, stateVars, fileVars, mirrorVars, bounds>>

\* The thread lists what there is and sends it, or the error.
List ==
  /\ worker = "listing" /\ Len(results) < MaxResults /\ worker' = "sent"
  /\ \/ /\ results' = Append(results, [sources |-> plugged, output |-> output])
        /\ UNCHANGED failures
     \/ /\ failures < MaxFailures /\ failures' = failures + 1
        /\ results' = Append(results, Error)
  /\ UNCHANGED <<airVars, inFlight, stateVars, fileVars, mirrorVars, plugs, ops>>

\* A bug: the flag is cleared only when a listing worked.
ListedKeepsFlag ==
  /\ worker = "sent" /\ worker' = "none"
  /\ inFlight' = (results # <<>> /\ results[Len(results)] = Error)
  /\ UNCHANGED <<airVars, results, stateVars, fileVars, mirrorVars, bounds>>

\* Then it lets the next one start.
Listed ==
  /\ worker = "sent" /\ worker' = "none" /\ inFlight' = FALSE
  /\ UNCHANGED <<airVars, results, stateVars, fileVars, mirrorVars, bounds>>

Available(seen) == ~pinned \/ seen

\* A mirror that failed is started again when its output is seen to return.
Retries(seen) ==
  ~Available(outputSeen) /\ Available(seen) /\ shown = "Error"

\* Only a selection that changed is saved.
Persist(changed) ==
  IF changed THEN Save(preferred') ELSE UNCHANGED <<stored, refused, failures>>

ApplyListing ==
  /\ results # <<>> /\ results' = Tail(results)
  /\ IF Head(results) = Error
     THEN UNCHANGED <<stateVars, stored, refused, failures, mirrorVars>>
     ELSE LET new == Head(results) IN
          /\ \E s \in Selected(new.sources, selected) : Choose(s)
          /\ listed' = new.sources /\ outputSeen' = new.output
          /\ IF Retries(new.output)
             THEN commands' = commands + 1 /\ shown' = mirror
             ELSE UNCHANGED <<commands, shown>>
          /\ Persist(selected' # selected)
          /\ UNCHANGED <<pinned, mirror>>
  /\ UNCHANGED <<airVars, worker, inFlight, portable, plugs, ops>>

-----------------------------------------------------------------------------
(* The user.                                                               *)

Act == ops < MaxOps /\ ops' = ops + 1

\* The source selector offers what is listed.
SelectSource(s) ==
  /\ Act /\ s \in listed \ {selected}
  /\ Choose(s) /\ Save(s)
  /\ UNCHANGED <<airVars, pollVars, listed, outputSeen, pinned, portable, mirrorVars, plugs>>

\* The output selector: to the output or to the default.
SelectOutput ==
  /\ Act
  /\ pinned' = ~pinned
  /\ commands' = IF mirror = "Idle" THEN commands ELSE commands + 1
  /\ shown' = mirror
  /\ Save(preferred)
  /\ UNCHANGED <<airVars, pollVars, listed, outputSeen, selected, preferred, portable, mirror,
                 plugs>>

Export ==
  /\ Act /\ portable' = preferred
  /\ UNCHANGED <<airVars, pollVars, stateVars, stored, refused, mirrorVars, plugs, failures>>

\* apply_imported_config: the imported preference goes through the sources that
\* are listed, and the result is saved.
Import ==
  /\ Act
  /\ \E s \in Selected(listed, portable) : Choose(s) /\ Save(s)
  /\ UNCHANGED <<airVars, pollVars, listed, outputSeen, pinned, portable, mirrorVars, plugs>>

StartCast ==
  /\ Act /\ mirror = "Idle"
  /\ mirror' = IF Available(output) THEN "Mirroring" ELSE "Error"
  /\ shown' = mirror'
  /\ UNCHANGED <<airVars, pollVars, stateVars, fileVars, commands, plugs, failures>>

StopCast ==
  /\ Act /\ mirror # "Idle"
  /\ mirror' = "Idle" /\ shown' = "Idle" /\ commands' = 0
  /\ UNCHANGED <<airVars, pollVars, stateVars, fileVars, plugs, failures>>

-----------------------------------------------------------------------------
(* The mirror, PipeWire and the streaming poll.                            *)

\* The playback process of the mirror ends with its output.
MirrorFails ==
  /\ mirror = "Mirroring" /\ ~Available(output) /\ mirror' = "Error"
  /\ UNCHANGED <<airVars, pollVars, stateVars, fileVars, shown, commands, bounds>>

\* The sender manager starts the mirror again for a retarget.
Retarget ==
  /\ commands > 0 /\ commands' = commands - 1
  /\ mirror' = IF mirror = "Idle" THEN "Idle"
               ELSE IF Available(output) THEN "Mirroring" ELSE "Error"
  /\ UNCHANGED <<airVars, pollVars, stateVars, fileVars, shown, bounds>>

StreamingPoll ==
  /\ shown' = mirror
  /\ UNCHANGED <<airVars, pollVars, stateVars, fileVars, mirror, commands, bounds>>

Plug ==
  /\ plugs < MaxPlugs /\ plugs' = plugs + 1
  /\ \/ output' = ~output /\ UNCHANGED plugged
     \/ /\ \E s \in Sources :
             plugged' = IF s \in plugged THEN plugged \ {s} ELSE plugged \cup {s}
        /\ UNCHANGED output
  /\ UNCHANGED <<pollVars, stateVars, fileVars, mirrorVars, failures, ops>>

Next ==
  \/ Poll \/ List \/ Listed \/ ApplyListing
  \/ \E s \in Sources : SelectSource(s)
  \/ SelectOutput \/ Export \/ Import \/ StartCast \/ StopCast
  \/ MirrorFails \/ Retarget \/ StreamingPoll \/ Plug

\* Timers fire, a listing ends, the manager reads its channel.
Fairness ==
  /\ WF_vars(Poll) /\ WF_vars(List) /\ WF_vars(Listed) /\ WF_vars(ApplyListing)
  /\ WF_vars(Retarget) /\ WF_vars(StreamingPoll) /\ WF_vars(MirrorFails)

Spec == Init /\ [][Next]_vars
FairSpec == Spec /\ Fairness

-----------------------------------------------------------------------------
(* Properties.                                                             *)

\* The next cast captures from a source that is listed, if there is any: also
\* when the selected one was unplugged, or an import names one that is gone.
SelectionIsListed ==
  /\ listed # {} => selected \in listed
  /\ preferred = selected

\* Unless a save was refused, the selected source is the one the next launch
\* restores: whoever changed it has saved it.
SelectionIsStored == ~refused => stored = preferred

\* What is listed, selected, preferred and on disk are written in different places
\* (state.rs 77-112, ui.rs 504-538, 2573-2678, 4000-4215) and agree all the same.
SelectionAgrees == SelectionIsListed /\ SelectionIsStored

\* Sources that come and go are eventually listed, however listings fail and
\* overlap with the timer.
InventoryCatchesUp == <>[](listed = plugged /\ outputSeen = output)

\* The mirror does not stay failed once its output is back.
MirrorComesBack == ~ <>[](mirror = "Error" /\ Available(output))

=============================================================================
