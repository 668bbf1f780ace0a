------------------------------ MODULE AppSession ------------------------------
(***************************************************************************)
(* What the application keeps on disk across its runs: the configuration   *)
(* file (persistence.rs, AppConfig) and the session marker from which the  *)
(* next launch recovers a crash report (DiagnosticsRuntime), in the order  *)
(* main.rs uses them.  A process may die between any two steps.  It is     *)
(* also possible to launch the application while it runs: the second       *)
(* process does all of this before app.run finds the first one, asks it to *)
(* build another window, and ends.                                         *)
(*                                                                         *)
(* A configuration is one choice of the user; the snapshot and the text of *)
(* a report are left out.                                                  *)
(***************************************************************************)
EXTENDS Naturals, Sequences

CONSTANTS Procs,        \* processes of the application
          Choices, Default,
          None,
          MaxLaunches, MaxWindows, MaxFailures, MaxEdits

ASSUME AppAssumption ==
  /\ Default \in Choices /\ None \notin Procs
  /\ MaxLaunches \in Nat /\ MaxWindows \in Nat \ {0}
  /\ MaxFailures \in Nat /\ MaxEdits \in Nat

VARIABLES
  file,         \* config.toml
  marker,       \* the session session-marker.json names, or 0
  pc,           \* what each process does next
  sess,         \* the number of each process's session
  mem,          \* UiLaunchContext.config
  told,         \* the launch diagnostics mention a repair, a fallback or a new file
  out,          \* the configuration being saved
  primary,      \* the process the desktop knows the application by, or None
  windows,      \* the choice each of its windows (AppState.config) holds
  activations,  \* requests for another window
  launches, failures, edits,
  reported,     \* sessions with a recovery report
  \* what happened, for the properties:
  crashed,      \* sessions that ended in no clean way
  unmarked,     \* sessions that ended well but could not remove the marker
  mixed,        \* sessions that overlapped another launch
  committed,    \* the last choice a save completed with
  cut,          \* a save was cut short since
  saved         \* each process's last save completed

disk == <<file, committed, cut>>
ends == <<crashed, unmarked, mixed>>
ui == <<primary, windows, activations>>
bounds == <<launches, failures, edits>>
vars == <<disk, marker, reported, ends, ui, bounds, pc, sess, mem, told, out, saved>>

Sessions == 1..MaxLaunches
Steps == {"off", "discard", "open", "write", "boot", "clear", "start",
          "register", "up", "mark", "remark"}
Contents == [is : {"whole", "outdated"}, choice : Choices]
            \cup [is : {"absent", "empty", "unusable"}]

Whole(c) == [is |-> "whole", choice |-> c]

TypeOK ==
  /\ file \in Contents /\ marker \in Sessions \cup {0}
  /\ pc \in [Procs -> Steps] /\ sess \in [Procs -> Sessions \cup {0}]
  /\ mem \in [Procs -> Choices] /\ out \in [Procs -> Choices]
  /\ told \in [Procs -> BOOLEAN] /\ saved \in [Procs -> BOOLEAN]
  /\ primary \in Procs \cup {None}
  /\ windows \in Seq(Choices) /\ activations \in Nat
  /\ launches \in 0..MaxLaunches /\ failures \in 0..MaxFailures /\ edits \in 0..MaxEdits
  /\ reported \subseteq Sessions /\ crashed \subseteq Sessions
  /\ unmarked \subseteq Sessions /\ mixed \subseteq Sessions
  /\ committed \in Choices /\ cut \in BOOLEAN

Init ==
  /\ file = [is |-> "absent"] /\ committed = Default /\ cut = FALSE
  /\ marker = 0 /\ reported = {}
  /\ crashed = {} /\ unmarked = {} /\ mixed = {}
  /\ primary = None /\ windows = <<>> /\ activations = 0
  /\ launches = 0 /\ failures = 0 /\ edits = 0
  /\ pc = [p \in Procs |-> "off"] /\ sess = [p \in Procs |-> 0]
  /\ mem = [p \in Procs |-> Default] /\ out = [p \in Procs |-> Default]
  /\ told = [p \in Procs |-> FALSE] /\ saved = [p \in Procs |-> TRUE]

Live == {p \in Procs : pc[p] # "off"}

Goto(p, step) == pc' = [pc EXCEPT ![p] = step]

Fail == failures < MaxFailures /\ failures' = failures + 1 /\ UNCHANGED <<launches, edits>>

-----------------------------------------------------------------------------
(* The configuration file.                                                 *)

\* What load_with_report_from_path makes of a file that parses: every missing
\* section has its default.
Reads(f) == IF f.is = "empty" THEN Default ELSE f.choice

\* Where load_startup_config goes from what it finds.
AfterLoad == CASE file.is \in {"whole", "empty"}    -> "boot"
               [] file.is \in {"outdated", "absent"} -> "open"
               [] file.is = "unusable"              -> "discard"

\* A bug: the fallback is silent.
TellsRepairs == file.is = "outdated"

\* Whether the loading is worth a diagnostic of its own.
Tells == file.is \in {"outdated", "absent", "unusable"}

Launch(p) ==
  /\ pc[p] = "off" /\ launches < MaxLaunches
  /\ launches' = launches + 1
  /\ sess' = [sess EXCEPT ![p] = launches + 1]
  /\ mixed' = IF Live = {} THEN mixed
              ELSE mixed \cup {sess[q] : q \in Live} \cup {launches + 1}
  /\ \E c \in {IF file.is \in {"absent", "unusable"} THEN Default ELSE Reads(file)} :
       /\ mem' = [mem EXCEPT ![p] = c]
       /\ out' = [out EXCEPT ![p] = c]
  /\ told' = [told EXCEPT ![p] = Tells]
  /\ saved' = [saved EXCEPT ![p] = TRUE]
  /\ Goto(p, AfterLoad)
  /\ UNCHANGED <<disk, marker, reported, crashed, unmarked, ui, failures, edits>>

\* backup_invalid_config renames the file away, or fails to; the defaults are
\* saved in both cases.
Discard(p) ==
  /\ pc[p] = "discard"
  /\ \/ file' = [is |-> "absent"] /\ UNCHANGED bounds
     \/ Fail /\ UNCHANGED file
  /\ Goto(p, "open")
  /\ UNCHANGED <<committed, cut, marker, reported, ends, ui, sess, mem, told, out, saved>>

\* Where a save returns to.
AfterSave(p) == IF primary = p THEN "up" ELSE "boot"

\* fs::write, first half: open and truncate.
OpenFile(p) ==
  /\ pc[p] = "open"
  /\ \/ /\ file' = [is |-> "empty"] /\ Goto(p, "write")
        /\ UNCHANGED <<bounds, saved>>
     \/ /\ Fail /\ Goto(p, AfterSave(p)) /\ saved' = [saved EXCEPT ![p] = FALSE]
        /\ UNCHANGED file
  /\ UNCHANGED <<committed, cut, marker, reported, ends, ui, sess, mem, told, out>>

\* The second half: write_all.
WriteFile(p) ==
  /\ pc[p] = "write"
  /\ \/ /\ file' = Whole(out[p]) /\ committed' = out[p] /\ cut' = FALSE
        /\ saved' = [saved EXCEPT ![p] = TRUE]
        /\ UNCHANGED bounds
     \/ /\ Fail /\ cut' = TRUE /\ saved' = [saved EXCEPT ![p] = FALSE]
        /\ UNCHANGED <<file, committed>>
  /\ Goto(p, AfterSave(p))
  /\ UNCHANGED <<marker, reported, ends, ui, sess, mem, told, out>>

\* While the application is down another version of it, or an editor, leaves a
\* file that is older, newer or damaged.
EditFile ==
  /\ Live = {} /\ edits < MaxEdits /\ edits' = edits + 1
  /\ \/ file' = [is |-> "unusable"] /\ UNCHANGED committed
     \/ \E c \in Choices : file' = [is |-> "outdated", choice |-> c] /\ committed' = c
  /\ cut' = FALSE
  /\ UNCHANGED <<marker, reported, ends, ui, launches, failures, pc, sess, mem, told, out, saved>>

-----------------------------------------------------------------------------
(* DiagnosticsRuntime::bootstrap and the session.                          *)

\* main expects bootstrap to succeed.
GiveUp(p) == Goto(p, "off") /\ UNCHANGED <<marker, reported>>

\* A bug: a stale marker is removed without a report.
RecoverForgetful(p) ==
  /\ pc[p] = "boot"
  /\ marker' = 0 /\ Goto(p, "start")
  /\ UNCHANGED <<reported, disk, ends, ui, bounds, sess, mem, told, out, saved>>

\* recover_previous_session, up to the report.
Recover(p) ==
  /\ pc[p] = "boot"
  /\ \/ /\ marker # 0 /\ reported' = reported \cup {marker}
        /\ Goto(p, "clear") /\ UNCHANGED <<marker, bounds>>
     \/ /\ marker = 0 /\ Goto(p, "start")
        /\ UNCHANGED <<marker, reported, bounds>>
     \/ Fail /\ GiveUp(p)
  /\ UNCHANGED <<disk, ends, ui, sess, mem, told, out, saved>>

\* The rest of it: a marker that is gone by now is an error.
ClearStale(p) ==
  /\ pc[p] = "clear"
  /\ \/ /\ marker # 0 /\ marker' = 0 /\ Goto(p, "start")
        /\ UNCHANGED <<reported, bounds>>
     \/ marker = 0 /\ GiveUp(p) /\ UNCHANGED bounds
     \/ Fail /\ GiveUp(p)
  /\ UNCHANGED <<disk, ends, ui, sess, mem, told, out, saved>>

\* start_session: persist_snapshot, then the marker by a temporary file and a
\* rename.
StartSession(p) ==
  /\ pc[p] = "start"
  /\ \/ marker' = sess[p] /\ Goto(p, "register") /\ UNCHANGED <<reported, bounds>>
     \/ Fail /\ GiveUp(p)
  /\ UNCHANGED <<disk, ends, ui, sess, mem, told, out, saved>>

\* A bug: the snapshot is persisted, the marker stays.
UnmarkNothing(p) == UNCHANGED <<marker, unmarked, bounds>>

\* mark_clean_shutdown: persist_snapshot may fail before the marker is removed.
Unmark(p) ==
  \/ marker' = 0 /\ UNCHANGED <<unmarked, bounds>>
  \/ Fail /\ unmarked' = unmarked \cup {sess[p]} /\ UNCHANGED marker

-----------------------------------------------------------------------------
(* app.run.                                                                *)

\* The first process becomes the application and builds its window.
Register(p) ==
  /\ pc[p] = "register" /\ primary = None
  /\ primary' = p /\ windows' = <<mem[p]>> /\ activations' = 0
  /\ Goto(p, "up")
  /\ UNCHANGED <<disk, marker, reported, ends, bounds, sess, mem, told, out, saved>>

\* A later one activates the first, and is done.
Forward(p) ==
  /\ pc[p] = "register" /\ primary # None
  /\ activations' = activations + 1
  /\ Goto(p, "remark")
  /\ UNCHANGED <<disk, marker, reported, ends, bounds, primary, windows, sess, mem, told,
                 out, saved>>

\* connect_activate builds another window from the configuration of the launch.
Activate(p) ==
  /\ primary = p /\ pc[p] = "up" /\ activations > 0 /\ Len(windows) < MaxWindows
  /\ activations' = activations - 1
  /\ windows' = Append(windows, mem[p])
  /\ UNCHANGED <<disk, marker, reported, ends, bounds, primary, pc, sess, mem, told, out, saved>>

\* A bug: what is saved is the configuration the application was launched with.
ChangeSaveLaunched(p) ==
  /\ primary = p /\ pc[p] = "up"
  /\ \E w \in DOMAIN windows, c \in Choices :
       c # windows[w] /\ windows' = [windows EXCEPT ![w] = c]
  /\ out' = [out EXCEPT ![p] = mem[p]]
  /\ Goto(p, "open")
  /\ UNCHANGED <<disk, marker, reported, ends, bounds, primary, activations, sess, mem, told, saved>>

\* A control of one window: the setting, then persist_current_config.
ChangeSetting(p) ==
  /\ primary = p /\ pc[p] = "up"
  /\ \E w \in DOMAIN windows, c \in Choices :
       /\ c # windows[w]
       /\ windows' = [windows EXCEPT ![w] = c]
       /\ out' = [out EXCEPT ![p] = c]
  /\ Goto(p, "open")
  /\ UNCHANGED <<disk, marker, reported, ends, bounds, primary, activations, sess, mem, told, saved>>

\* The windows are closed: the shutdown handler runs.
Quit(p) ==
  /\ primary = p /\ pc[p] = "up"
  /\ Goto(p, "mark")
  /\ UNCHANGED <<disk, marker, reported, ends, ui, bounds, sess, mem, told, out, saved>>

Shutdown(p) ==
  /\ pc[p] = "mark"
  /\ Unmark(p)
  /\ primary' = None /\ windows' = <<>> /\ activations' = 0
  /\ Goto(p, "remark")
  /\ UNCHANGED <<disk, reported, crashed, mixed, sess, mem, told, out, saved>>

\* main, after app.run, in a process that was the application and in one that
\* was not.
Finish(p) ==
  /\ pc[p] = "remark"
  /\ Unmark(p)
  /\ Goto(p, "off")
  /\ UNCHANGED <<disk, reported, crashed, mixed, ui, sess, mem, told, out, saved>>

\* The process dies.  Its session had begun when its marker was written, and was
\* over when the shutdown handler had run.
Crash(p) ==
  /\ pc[p] # "off"
  /\ Goto(p, "off")
  /\ crashed' = IF pc[p] \in {"register", "up", "mark"} \/ primary = p
                THEN crashed \cup {sess[p]} ELSE crashed
  /\ cut' = (cut \/ pc[p] = "write")
  /\ IF primary = p THEN primary' = None /\ windows' = <<>> /\ activations' = 0
                    ELSE UNCHANGED ui
  /\ UNCHANGED <<file, committed, marker, reported, unmarked, mixed, bounds, sess, mem, told,
                 out, saved>>

Next ==
  \/ EditFile
  \/ \E p \in Procs :
       \/ Launch(p) \/ Discard(p) \/ OpenFile(p) \/ WriteFile(p)
       \/ Recover(p) \/ ClearStale(p) \/ StartSession(p)
       \/ Register(p) \/ Forward(p) \/ Activate(p) \/ ChangeSetting(p)
       \/ Quit(p) \/ Shutdown(p) \/ Finish(p) \/ Crash(p)

Spec == Init /\ [][Next]_vars

-----------------------------------------------------------------------------
(* Properties.                                                             *)

\* A session that crashed is on record: the marker still names it, or its report
\* is written.  A launch that dies half way through the recovery loses nothing.
\* True of sessions no other launch overlapped.
CrashIsOnRecord ==
  \A s \in crashed \ mixed : marker = s \/ s \in reported

\* Nothing but a crash is reported as one, unless the marker could not be
\* removed, or two launches overlapped.
ReportsAreTrue == reported \ mixed \subseteq crashed \cup unmarked

\* An idle application, launched alone, whose last save was not refused has on
\* disk what its window shows.
DiskFollowsWindow ==
  \A p \in Procs :
    primary = p /\ pc[p] = "up" /\ sess[p] \notin mixed /\ saved[p]
      => /\ file.is \in {"whole", "empty"}
         /\ Reads(file) = windows[1]

\* What a launch alone has loaded is what was last saved, or it says that it is
\* not; but for a save that was cut short.
LaunchRestores ==
  \A p \in Procs :
    pc[p] = "boot" /\ sess[p] \notin mixed => mem[p] = committed \/ told[p] \/ cut

\* The same without the exception: a lost choice is always mentioned.
LossIsTold ==
  \A p \in Procs :
    pc[p] = "boot" /\ sess[p] \notin mixed => mem[p] = committed \/ told[p]

\* docs/developer/diagnostics-and-crash-reports.md:36-39 "On a graceful shutdown, the marker is
\* removed. If the next launch finds a stale marker, SynchroSonic writes an abnormal
\* termination recovery report": a session with a report has crashed, or could not
\* remove its marker.
OnlyCrashesReported == reported \subseteq crashed \cup unmarked

=============================================================================
