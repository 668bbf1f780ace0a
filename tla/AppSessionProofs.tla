--------------------------- MODULE AppSessionProofs ---------------------------
(***************************************************************************)
(* What the application promises of its files, for any number of           *)
(* processes, launches, windows, failing writes and edits of the file.     *)
(*                                                                         *)
(* The invariant has four parts: which process is where and whose launches *)
(* overlapped (Launched), what the marker and the reports say (Recorded),  *)
(* what the configuration file holds (Filed), and what the windows show    *)
(* (Shown).  The last three speak of sessions no other launch overlapped;  *)
(* that such a session's process is the only live one is what makes them   *)
(* inductive.                                                              *)
(***************************************************************************)
EXTENDS AppSession, SequenceTheorems, TLAPS

\* The session of p has begun, and its end is not yet on disk.
Running(p) == pc[p] \in {"register", "up", "mark"} \/ primary = p

\* p is past the recovery.
Recovered(p) == Running(p) \/ pc[p] \in {"start", "remark"}

\* p loads the configuration.
Loading(p) == pc[p] \in {"discard", "open", "write", "boot"} /\ primary # p

\* p has loaded it, and no save is under way.
Settled(p) == \/ pc[p] \in {"clear", "start", "register"}
              \/ pc[p] = "boot"
              \/ primary = p /\ pc[p] \in {"up", "mark"}

PrimaryRuns ==
  /\ primary # None => pc[primary] \in {"up", "open", "write", "mark"}
  /\ \A p \in Procs : pc[p] \in {"up", "mark"} => primary = p

Numbered ==
  /\ marker \in 0..launches /\ launches \in Nat
  /\ crashed \subseteq 1..launches /\ reported \subseteq 1..launches
  /\ \A p \in Procs : pc[p] # "off" => sess[p] \in 1..launches /\ sess[p] \notin crashed
  /\ \A p, q \in Procs : pc[p] # "off" /\ pc[q] # "off" /\ p # q => sess[p] # sess[q]

\* Sessions that were live together are counted as mixed.
Alone ==
  \A p, q \in Procs : pc[p] # "off" /\ pc[q] # "off" /\ p # q => sess[p] \in mixed

Launched == PrimaryRuns /\ Numbered /\ Alone

\* Past its recovery a process meets no marker but its own.
MarkerMet ==
  /\ \A p \in Procs : Recovered(p) => marker \in {0, sess[p]} \cup mixed
  /\ \A p \in Procs : pc[p] = "clear" => marker \in {0} \cup reported \cup mixed

MarkerKept == \A p \in Procs : Running(p) /\ sess[p] \notin mixed => marker = sess[p]

MarkerTrue ==
  marker # 0 /\ marker \notin mixed =>
    marker \in crashed \cup unmarked \/ \E p \in Procs : Running(p) /\ sess[p] = marker

Recorded == MarkerMet /\ MarkerKept /\ MarkerTrue /\ CrashIsOnRecord /\ ReportsAreTrue

FileCommitted == file.is \in {"whole", "outdated"} => file.choice = committed

EmptyIsCut == file.is = "empty" => cut \/ \E p \in Procs : pc[p] = "write"

LoadedCommitted ==
  \A p \in Procs : Loading(p) =>
    /\ out[p] = mem[p]
    /\ sess[p] \notin mixed => mem[p] = committed \/ told[p] \/ cut

Filed == FileCommitted /\ EmptyIsCut /\ LoadedCommitted

OneWindow ==
  primary # None /\ sess[primary] \notin mixed => activations = 0 /\ Len(windows) = 1

SavingShown ==
  primary # None /\ sess[primary] \notin mixed /\ pc[primary] \in {"open", "write"} =>
    out[primary] = windows[1]

OnDisk(p) == file.is \in {"whole", "empty"}
             /\ Reads(file) = IF primary = p THEN windows[1] ELSE mem[p]

DiskIsSettled ==
  \A p \in Procs : Settled(p) /\ sess[p] \notin mixed /\ saved[p] => OnDisk(p)

Shown == OneWindow /\ SavingShown /\ DiskIsSettled

IInv == TypeOK /\ Launched /\ Recorded /\ Filed /\ Shown

-----------------------------------------------------------------------------
(* What a step does to its process.                                        *)

LEMMA ContentFacts ==
  /\ \A f \in Contents :
       /\ f.is \in {"whole", "outdated", "absent", "empty", "unusable"}
       /\ f.is \in {"whole", "outdated"} => f.choice \in Choices
  /\ [is |-> "absent"] \in Contents /\ [is |-> "absent"].is = "absent"
  /\ [is |-> "empty"] \in Contents /\ [is |-> "empty"].is = "empty"
  /\ [is |-> "unusable"] \in Contents /\ [is |-> "unusable"].is = "unusable"
  /\ \A c \in Choices : /\ [is |-> "outdated", choice |-> c] \in Contents
                        /\ [is |-> "outdated", choice |-> c].is = "outdated"
                        /\ [is |-> "outdated", choice |-> c].choice = c
BY DEF Contents

LEMMA WholeFacts ==
  ASSUME NEW c \in Choices
  PROVE  Whole(c) \in Contents /\ Whole(c).is = "whole" /\ Whole(c).choice = c
BY DEF Contents, Whole

\* A launch marks every session it meets, and its own, as mixed.
LEMMA LaunchMixes ==
  ASSUME TypeOK, NEW p \in Procs, Launch(p)
  PROVE  /\ mixed \subseteq mixed'
         /\ \A q \in Procs : pc[q] # "off" => sess[q] \in mixed' /\ launches + 1 \in mixed'
BY DEF Launch, Live

\* Where a launch goes.
LEMMA AfterLoadFacts ==
  ASSUME TypeOK
  PROVE  /\ AfterLoad \in {"boot", "open", "discard"}
         /\ AfterLoad = "boot" <=> file.is \in {"whole", "empty"}
<1>1. file.is \in {"whole", "outdated", "absent", "empty", "unusable"}
  BY ContentFacts DEF TypeOK
<1> QED BY <1>1 DEF AfterLoad

\* What a launch reads is a choice: the one in the file, or the default.
LEMMA LaunchReads ==
  ASSUME TypeOK, NEW p \in Procs, Launch(p)
  PROVE  \E c \in Choices :
           /\ mem' = [mem EXCEPT ![p] = c] /\ out' = [out EXCEPT ![p] = c]
           /\ file.is \in {"whole", "outdated"} => c = file.choice
           /\ file.is = "empty" => c = Default
<1>1. file \in Contents /\ Default \in Choices
  BY AppAssumption DEF TypeOK
<1> QED BY <1>1, ContentFacts DEF Launch, Reads

\* The sessions of live processes have numbers.
LEMMA LiveNumber ==
  ASSUME TypeOK, Launched, NEW p \in Procs, pc[p] # "off"
  PROVE  sess[p] \in Sessions /\ sess[p] \in 1..launches
<1>1. sess[p] \in 1..launches /\ launches \in 0..MaxLaunches
  BY DEF TypeOK, Launched, Numbered
<1> QED BY <1>1, AppAssumption DEF Sessions

\* Every step but EditFile is a step of one process; the others stay where they are.
LEMMA OthersStay ==
  ASSUME TypeOK, NEW p \in Procs, NEW q \in Procs, q # p,
         \/ Launch(p) \/ Discard(p) \/ OpenFile(p) \/ WriteFile(p)
         \/ Recover(p) \/ ClearStale(p) \/ StartSession(p)
         \/ Register(p) \/ Forward(p) \/ Activate(p) \/ ChangeSetting(p)
         \/ Quit(p) \/ Shutdown(p) \/ Finish(p) \/ Crash(p)
  PROVE  /\ pc'[q] = pc[q] /\ sess'[q] = sess[q] /\ mem'[q] = mem[q]
         /\ told'[q] = told[q] /\ out'[q] = out[q] /\ saved'[q] = saved[q]
BY DEF TypeOK, Launch, Discard, OpenFile, WriteFile, Recover, ClearStale, StartSession,
       Register, Forward, Activate, ChangeSetting, Quit, Shutdown, Finish, Crash, Goto, GiveUp

\* Types are kept.
LEMMA TypeStep == TypeOK /\ Launched /\ [Next]_vars => TypeOK'
<1> SUFFICES ASSUME TypeOK, Launched, [Next]_vars PROVE TypeOK'
  OBVIOUS
<1> USE AppAssumption DEF disk, ends, ui, bounds
<1>1. ASSUME NEW p \in Procs, Launch(p) PROVE TypeOK'
  <2>1. file' \in Contents /\ committed' \in Choices /\ cut' \in BOOLEAN
    BY <1>1, ContentFacts, WholeFacts DEF Launch, Goto, AfterLoad, TypeOK, Sessions, Steps
  <2>2. pc' \in [Procs -> Steps] /\ sess' \in [Procs -> Sessions \cup {0}]
    BY <1>1, ContentFacts, WholeFacts DEF Launch, Goto, AfterLoad, TypeOK, Sessions, Steps
  <2>3. /\ mem' \in [Procs -> Choices] /\ out' \in [Procs -> Choices]
        /\ told' \in [Procs -> BOOLEAN] /\ saved' \in [Procs -> BOOLEAN]
    <3>1. PICK c \in Choices : mem' = [mem EXCEPT ![p] = c] /\ out' = [out EXCEPT ![p] = c]
      BY <1>1, LaunchReads
    <3> QED BY <1>1, <3>1 DEF Launch, Goto, Tells, TypeOK
  <2>4. /\ marker' \in Sessions \cup {0} /\ reported' \subseteq Sessions
        /\ crashed' \subseteq Sessions /\ unmarked' \subseteq Sessions /\ mixed' \subseteq Sessions
    <3>1. launches + 1 \in Sessions
      BY <1>1 DEF Launch, TypeOK, Sessions
    <3>2. \A q \in Live : sess[q] \in Sessions
      BY LiveNumber DEF Live
    <3>3. mixed' \subseteq mixed \cup {sess[q] : q \in Live} \cup {launches + 1}
      BY <1>1 DEF Launch
    <3> QED BY <1>1, <3>1, <3>2, <3>3 DEF Launch, TypeOK
  <2>5. primary' \in Procs \cup {None} /\ windows' \in Seq(Choices) /\ activations' \in Nat
    BY <1>1, ContentFacts, WholeFacts DEF Launch, Goto, AfterLoad, TypeOK, Sessions, Steps
  <2>6. launches' \in 0..MaxLaunches /\ failures' \in 0..MaxFailures /\ edits' \in 0..MaxEdits
    BY <1>1, ContentFacts, WholeFacts DEF Launch, Goto, AfterLoad, TypeOK, Sessions, Steps
  <2> QED BY <2>1, <2>2, <2>3, <2>4, <2>5, <2>6 DEF TypeOK
<1>2. ASSUME NEW p \in Procs, Discard(p) PROVE TypeOK'
  <2>1. file' \in Contents /\ committed' \in Choices /\ cut' \in BOOLEAN
    <3>1. file' \in {file, [is |-> "absent"]} /\ UNCHANGED <<committed, cut>>
      BY <1>2 DEF Discard
    <3> QED BY <3>1, ContentFacts DEF TypeOK
  <2>2. pc' \in [Procs -> Steps] /\ sess' \in [Procs -> Sessions \cup {0}]
    BY <1>2, ContentFacts, WholeFacts DEF Discard, Goto, Fail, TypeOK, Sessions, Steps
  <2>3. /\ mem' \in [Procs -> Choices] /\ out' \in [Procs -> Choices]
        /\ told' \in [Procs -> BOOLEAN] /\ saved' \in [Procs -> BOOLEAN]
    BY <1>2, ContentFacts, WholeFacts DEF Discard, Goto, Fail, TypeOK, Sessions, Steps
  <2>4. /\ marker' \in Sessions \cup {0} /\ reported' \subseteq Sessions
        /\ crashed' \subseteq Sessions /\ unmarked' \subseteq Sessions /\ mixed' \subseteq Sessions
    BY <1>2, ContentFacts, WholeFacts DEF Discard, Goto, Fail, TypeOK, Sessions, Steps
  <2>5. primary' \in Procs \cup {None} /\ windows' \in Seq(Choices) /\ activations' \in Nat
    BY <1>2, ContentFacts, WholeFacts DEF Discard, Goto, Fail, TypeOK, Sessions, Steps
  <2>6. launches' \in 0..MaxLaunches /\ failures' \in 0..MaxFailures /\ edits' \in 0..MaxEdits
    BY <1>2, ContentFacts, WholeFacts DEF Discard, Goto, Fail, TypeOK, Sessions, Steps
  <2> QED BY <2>1, <2>2, <2>3, <2>4, <2>5, <2>6 DEF TypeOK
<1>3. ASSUME NEW p \in Procs, OpenFile(p) PROVE TypeOK'
  <2>1. file' \in Contents /\ committed' \in Choices /\ cut' \in BOOLEAN
    <3>1. file' \in {file, [is |-> "empty"]} /\ UNCHANGED <<committed, cut>>
      BY <1>3 DEF OpenFile
    <3> QED BY <3>1, ContentFacts DEF TypeOK
  <2>2. pc' \in [Procs -> Steps] /\ sess' \in [Procs -> Sessions \cup {0}]
    BY <1>3, ContentFacts, WholeFacts DEF OpenFile, Goto, Fail, AfterSave, TypeOK,
       Sessions, Steps
  <2>3. /\ mem' \in [Procs -> Choices] /\ out' \in [Procs -> Choices]
        /\ told' \in [Procs -> BOOLEAN] /\ saved' \in [Procs -> BOOLEAN]
    BY <1>3, ContentFacts, WholeFacts DEF OpenFile, Goto, Fail, AfterSave, TypeOK,
       Sessions, Steps
  <2>4. /\ marker' \in Sessions \cup {0} /\ reported' \subseteq Sessions
        /\ crashed' \subseteq Sessions /\ unmarked' \subseteq Sessions /\ mixed' \subseteq Sessions
    BY <1>3, ContentFacts, WholeFacts DEF OpenFile, Goto, Fail, AfterSave, TypeOK,
       Sessions, Steps
  <2>5. primary' \in Procs \cup {None} /\ windows' \in Seq(Choices) /\ activations' \in Nat
    BY <1>3, ContentFacts, WholeFacts DEF OpenFile, Goto, Fail, AfterSave, TypeOK,
       Sessions, Steps
  <2>6. launches' \in 0..MaxLaunches /\ failures' \in 0..MaxFailures /\ edits' \in 0..MaxEdits
    BY <1>3, ContentFacts, WholeFacts DEF OpenFile, Goto, Fail, AfterSave, TypeOK,
       Sessions, Steps
  <2> QED BY <2>1, <2>2, <2>3, <2>4, <2>5, <2>6 DEF TypeOK
<1>4. ASSUME NEW p \in Procs, WriteFile(p) PROVE TypeOK'
  <2>1. file' \in Contents /\ committed' \in Choices /\ cut' \in BOOLEAN
    <3>1. out[p] \in Choices
      BY DEF TypeOK
    <3>2. file' \in {file, Whole(out[p])} /\ committed' \in {committed, out[p]} /\ cut' \in BOOLEAN
      BY <1>4 DEF WriteFile
    <3> QED BY <3>1, <3>2, WholeFacts DEF TypeOK
  <2>2. pc' \in [Procs -> Steps] /\ sess' \in [Procs -> Sessions \cup {0}]
    BY <1>4, ContentFacts, WholeFacts DEF WriteFile, Goto, Fail, AfterSave, TypeOK,
       Sessions, Steps
  <2>3. /\ mem' \in [Procs -> Choices] /\ out' \in [Procs -> Choices]
        /\ told' \in [Procs -> BOOLEAN] /\ saved' \in [Procs -> BOOLEAN]
    BY <1>4, ContentFacts, WholeFacts DEF WriteFile, Goto, Fail, AfterSave, TypeOK,
       Sessions, Steps
  <2>4. /\ marker' \in Sessions \cup {0} /\ reported' \subseteq Sessions
        /\ crashed' \subseteq Sessions /\ unmarked' \subseteq Sessions /\ mixed' \subseteq Sessions
    BY <1>4, ContentFacts, WholeFacts DEF WriteFile, Goto, Fail, AfterSave, TypeOK,
       Sessions, Steps
  <2>5. primary' \in Procs \cup {None} /\ windows' \in Seq(Choices) /\ activations' \in Nat
    BY <1>4, ContentFacts, WholeFacts DEF WriteFile, Goto, Fail, AfterSave, TypeOK,
       Sessions, Steps
  <2>6. launches' \in 0..MaxLaunches /\ failures' \in 0..MaxFailures /\ edits' \in 0..MaxEdits
    BY <1>4, ContentFacts, WholeFacts DEF WriteFile, Goto, Fail, AfterSave, TypeOK,
       Sessions, Steps
  <2> QED BY <2>1, <2>2, <2>3, <2>4, <2>5, <2>6 DEF TypeOK
<1>5. ASSUME NEW p \in Procs, Recover(p) PROVE TypeOK'
  <2>1. file' \in Contents /\ committed' \in Choices /\ cut' \in BOOLEAN
    BY <1>5, ContentFacts, WholeFacts DEF Recover, Goto, Fail, GiveUp, TypeOK, Sessions,
       Steps
  <2>2. pc' \in [Procs -> Steps] /\ sess' \in [Procs -> Sessions \cup {0}]
    BY <1>5, ContentFacts, WholeFacts DEF Recover, Goto, Fail, GiveUp, TypeOK, Sessions,
       Steps
  <2>3. /\ mem' \in [Procs -> Choices] /\ out' \in [Procs -> Choices]
        /\ told' \in [Procs -> BOOLEAN] /\ saved' \in [Procs -> BOOLEAN]
    BY <1>5, ContentFacts, WholeFacts DEF Recover, Goto, Fail, GiveUp, TypeOK, Sessions,
       Steps
  <2>4. /\ marker' \in Sessions \cup {0} /\ reported' \subseteq Sessions
        /\ crashed' \subseteq Sessions /\ unmarked' \subseteq Sessions /\ mixed' \subseteq Sessions
    BY <1>5, ContentFacts, WholeFacts DEF Recover, Goto, Fail, GiveUp, TypeOK, Sessions,
       Steps
  <2>5. primary' \in Procs \cup {None} /\ windows' \in Seq(Choices) /\ activations' \in Nat
    BY <1>5, ContentFacts, WholeFacts DEF Recover, Goto, Fail, GiveUp, TypeOK, Sessions,
       Steps
  <2>6. launches' \in 0..MaxLaunches /\ failures' \in 0..MaxFailures /\ edits' \in 0..MaxEdits
    BY <1>5, ContentFacts, WholeFacts DEF Recover, Goto, Fail, GiveUp, TypeOK, Sessions,
       Steps
  <2> QED BY <2>1, <2>2, <2>3, <2>4, <2>5, <2>6 DEF TypeOK
<1>6. ASSUME NEW p \in Procs, ClearStale(p) PROVE TypeOK'
  <2>1. file' \in Contents /\ committed' \in Choices /\ cut' \in BOOLEAN
    BY <1>6, ContentFacts, WholeFacts DEF ClearStale, Goto, Fail, GiveUp, TypeOK,
       Sessions, Steps
  <2>2. pc' \in [Procs -> Steps] /\ sess' \in [Procs -> Sessions \cup {0}]
    BY <1>6, ContentFacts, WholeFacts DEF ClearStale, Goto, Fail, GiveUp, TypeOK,
       Sessions, Steps
  <2>3. /\ mem' \in [Procs -> Choices] /\ out' \in [Procs -> Choices]
        /\ told' \in [Procs -> BOOLEAN] /\ saved' \in [Procs -> BOOLEAN]
    BY <1>6, ContentFacts, WholeFacts DEF ClearStale, Goto, Fail, GiveUp, TypeOK,
       Sessions, Steps
  <2>4. /\ marker' \in Sessions \cup {0} /\ reported' \subseteq Sessions
        /\ crashed' \subseteq Sessions /\ unmarked' \subseteq Sessions /\ mixed' \subseteq Sessions
    BY <1>6, ContentFacts, WholeFacts DEF ClearStale, Goto, Fail, GiveUp, TypeOK,
       Sessions, Steps
  <2>5. primary' \in Procs \cup {None} /\ windows' \in Seq(Choices) /\ activations' \in Nat
    BY <1>6, ContentFacts, WholeFacts DEF ClearStale, Goto, Fail, GiveUp, TypeOK,
       Sessions, Steps
  <2>6. launches' \in 0..MaxLaunches /\ failures' \in 0..MaxFailures /\ edits' \in 0..MaxEdits
    BY <1>6, ContentFacts, WholeFacts DEF ClearStale, Goto, Fail, GiveUp, TypeOK,
       Sessions, Steps
  <2> QED BY <2>1, <2>2, <2>3, <2>4, <2>5, <2>6 DEF TypeOK
<1>7. ASSUME NEW p \in Procs, StartSession(p) PROVE TypeOK'
  <2>1. file' \in Contents /\ committed' \in Choices /\ cut' \in BOOLEAN
    BY <1>7, ContentFacts, WholeFacts DEF StartSession, Goto, Fail, GiveUp, TypeOK,
       Sessions, Steps
  <2>2. pc' \in [Procs -> Steps] /\ sess' \in [Procs -> Sessions \cup {0}]
    BY <1>7, ContentFacts, WholeFacts DEF StartSession, Goto, Fail, GiveUp, TypeOK,
       Sessions, Steps
  <2>3. /\ mem' \in [Procs -> Choices] /\ out' \in [Procs -> Choices]
        /\ told' \in [Procs -> BOOLEAN] /\ saved' \in [Procs -> BOOLEAN]
    BY <1>7, ContentFacts, WholeFacts DEF StartSession, Goto, Fail, GiveUp, TypeOK,
       Sessions, Steps
  <2>4. /\ marker' \in Sessions \cup {0} /\ reported' \subseteq Sessions
        /\ crashed' \subseteq Sessions /\ unmarked' \subseteq Sessions /\ mixed' \subseteq Sessions
    <3>1. sess[p] \in Sessions \cup {0}
      BY DEF TypeOK
    <3> QED BY <1>7, <3>1 DEF StartSession, GiveUp, TypeOK
  <2>5. primary' \in Procs \cup {None} /\ windows' \in Seq(Choices) /\ activations' \in Nat
    BY <1>7, ContentFacts, WholeFacts DEF StartSession, Goto, Fail, GiveUp, TypeOK,
       Sessions, Steps
  <2>6. launches' \in 0..MaxLaunches /\ failures' \in 0..MaxFailures /\ edits' \in 0..MaxEdits
    BY <1>7, ContentFacts, WholeFacts DEF StartSession, Goto, Fail, GiveUp, TypeOK,
       Sessions, Steps
  <2> QED BY <2>1, <2>2, <2>3, <2>4, <2>5, <2>6 DEF TypeOK
<1>8. ASSUME NEW p \in Procs, Register(p) PROVE TypeOK'
  BY <1>8, ContentFacts, WholeFacts DEF Register, Goto, TypeOK, Sessions, Steps
<1>9. ASSUME NEW p \in Procs, Forward(p) PROVE TypeOK'
  BY <1>9, ContentFacts, WholeFacts DEF Forward, Goto, TypeOK, Sessions, Steps
<1>10. ASSUME NEW p \in Procs, Activate(p) PROVE TypeOK'
  BY <1>10, ContentFacts, WholeFacts DEF Activate, Goto, TypeOK, Sessions, Steps
<1>11. ASSUME NEW p \in Procs, ChangeSetting(p) PROVE TypeOK'
  BY <1>11, ContentFacts, WholeFacts DEF ChangeSetting, Goto, TypeOK, Sessions, Steps
<1>12. ASSUME NEW p \in Procs, Quit(p) PROVE TypeOK'
  BY <1>12, ContentFacts, WholeFacts DEF Quit, Goto, TypeOK, Sessions, Steps
<1>13. ASSUME NEW p \in Procs, Shutdown(p) PROVE TypeOK'
  <2>1. file' \in Contents /\ committed' \in Choices /\ cut' \in BOOLEAN
    BY <1>13, ContentFacts, WholeFacts DEF Shutdown, Goto, Unmark, Fail, TypeOK, Sessions,
       Steps
  <2>2. pc' \in [Procs -> Steps] /\ sess' \in [Procs -> Sessions \cup {0}]
    BY <1>13, ContentFacts, WholeFacts DEF Shutdown, Goto, Unmark, Fail, TypeOK, Sessions,
       Steps
  <2>3. /\ mem' \in [Procs -> Choices] /\ out' \in [Procs -> Choices]
        /\ told' \in [Procs -> BOOLEAN] /\ saved' \in [Procs -> BOOLEAN]
    BY <1>13, ContentFacts, WholeFacts DEF Shutdown, Goto, Unmark, Fail, TypeOK, Sessions,
       Steps
  <2>4. /\ marker' \in Sessions \cup {0} /\ reported' \subseteq Sessions
        /\ crashed' \subseteq Sessions /\ unmarked' \subseteq Sessions /\ mixed' \subseteq Sessions
    <3>1. sess[p] \in Sessions
      BY <1>13, LiveNumber DEF Shutdown
    <3> QED BY <1>13, <3>1 DEF Shutdown, Unmark, TypeOK
  <2>5. primary' \in Procs \cup {None} /\ windows' \in Seq(Choices) /\ activations' \in Nat
    BY <1>13, ContentFacts, WholeFacts DEF Shutdown, Goto, Unmark, Fail, TypeOK, Sessions,
       Steps
  <2>6. launches' \in 0..MaxLaunches /\ failures' \in 0..MaxFailures /\ edits' \in 0..MaxEdits
    BY <1>13, ContentFacts, WholeFacts DEF Shutdown, Goto, Unmark, Fail, TypeOK, Sessions,
       Steps
  <2> QED BY <2>1, <2>2, <2>3, <2>4, <2>5, <2>6 DEF TypeOK
<1>14. ASSUME NEW p \in Procs, Finish(p) PROVE TypeOK'
  <2>1. file' \in Contents /\ committed' \in Choices /\ cut' \in BOOLEAN
    BY <1>14, ContentFacts, WholeFacts DEF Finish, Goto, Unmark, Fail, TypeOK, Sessions,
       Steps
  <2>2. pc' \in [Procs -> Steps] /\ sess' \in [Procs -> Sessions \cup {0}]
    BY <1>14, ContentFacts, WholeFacts DEF Finish, Goto, Unmark, Fail, TypeOK, Sessions,
       Steps
  <2>3. /\ mem' \in [Procs -> Choices] /\ out' \in [Procs -> Choices]
        /\ told' \in [Procs -> BOOLEAN] /\ saved' \in [Procs -> BOOLEAN]
    BY <1>14, ContentFacts, WholeFacts DEF Finish, Goto, Unmark, Fail, TypeOK, Sessions,
       Steps
  <2>4. /\ marker' \in Sessions \cup {0} /\ reported' \subseteq Sessions
        /\ crashed' \subseteq Sessions /\ unmarked' \subseteq Sessions /\ mixed' \subseteq Sessions
    <3>1. sess[p] \in Sessions
      BY <1>14, LiveNumber DEF Finish
    <3> QED BY <1>14, <3>1 DEF Finish, Unmark, TypeOK
  <2>5. primary' \in Procs \cup {None} /\ windows' \in Seq(Choices) /\ activations' \in Nat
    BY <1>14, ContentFacts, WholeFacts DEF Finish, Goto, Unmark, Fail, TypeOK, Sessions,
       Steps
  <2>6. launches' \in 0..MaxLaunches /\ failures' \in 0..MaxFailures /\ edits' \in 0..MaxEdits
    BY <1>14, ContentFacts, WholeFacts DEF Finish, Goto, Unmark, Fail, TypeOK, Sessions,
       Steps
  <2> QED BY <2>1, <2>2, <2>3, <2>4, <2>5, <2>6 DEF TypeOK
<1>15. ASSUME NEW p \in Procs, Crash(p) PROVE TypeOK'
  <2>1. file' \in Contents /\ committed' \in Choices /\ cut' \in BOOLEAN
    BY <1>15, ContentFacts, WholeFacts DEF Crash, Goto, TypeOK, Sessions, Steps
  <2>2. pc' \in [Procs -> Steps] /\ sess' \in [Procs -> Sessions \cup {0}]
    BY <1>15, ContentFacts, WholeFacts DEF Crash, Goto, TypeOK, Sessions, Steps
  <2>3. /\ mem' \in [Procs -> Choices] /\ out' \in [Procs -> Choices]
        /\ told' \in [Procs -> BOOLEAN] /\ saved' \in [Procs -> BOOLEAN]
    BY <1>15, ContentFacts, WholeFacts DEF Crash, Goto, TypeOK, Sessions, Steps
  <2>4. /\ marker' \in Sessions \cup {0} /\ reported' \subseteq Sessions
        /\ crashed' \subseteq Sessions /\ unmarked' \subseteq Sessions /\ mixed' \subseteq Sessions
    <3>1. sess[p] \in Sessions
      BY <1>15, LiveNumber DEF Crash
    <3> QED BY <1>15, <3>1 DEF Crash, TypeOK
  <2>5. primary' \in Procs \cup {None} /\ windows' \in Seq(Choices) /\ activations' \in Nat
    <3>1. windows' \in {windows, <<>>} /\ activations' \in {activations, 0} /\ primary' \in {primary, None}
      BY <1>15 DEF Crash
    <3>2. <<>> \in Seq(Choices) /\ 0 \in Nat
      OBVIOUS
    <3> QED BY <3>1, <3>2 DEF TypeOK
  <2>6. launches' \in 0..MaxLaunches /\ failures' \in 0..MaxFailures /\ edits' \in 0..MaxEdits
    BY <1>15, ContentFacts, WholeFacts DEF Crash, Goto, TypeOK, Sessions, Steps
  <2> QED BY <2>1, <2>2, <2>3, <2>4, <2>5, <2>6 DEF TypeOK
<1>16. CASE EditFile
  <2>1. file' \in Contents /\ committed' \in Choices /\ cut' \in BOOLEAN
    <3>1. CASE file' = [is |-> "unusable"] /\ UNCHANGED committed
      BY <1>16, <3>1, ContentFacts DEF EditFile, TypeOK
    <3>2. ASSUME NEW c \in Choices, file' = [is |-> "outdated", choice |-> c], committed' = c
          PROVE  file' \in Contents /\ committed' \in Choices
      BY <3>2, ContentFacts
    <3> QED BY <1>16, <3>1, <3>2 DEF EditFile
  <2>2. pc' \in [Procs -> Steps] /\ sess' \in [Procs -> Sessions \cup {0}]
    BY <1>16, ContentFacts, WholeFacts DEF EditFile, Goto, TypeOK, Sessions, Steps
  <2>3. /\ mem' \in [Procs -> Choices] /\ out' \in [Procs -> Choices]
        /\ told' \in [Procs -> BOOLEAN] /\ saved' \in [Procs -> BOOLEAN]
    BY <1>16, ContentFacts, WholeFacts DEF EditFile, Goto, TypeOK, Sessions, Steps
  <2>4. /\ marker' \in Sessions \cup {0} /\ reported' \subseteq Sessions
        /\ crashed' \subseteq Sessions /\ unmarked' \subseteq Sessions /\ mixed' \subseteq Sessions
    BY <1>16, ContentFacts, WholeFacts DEF EditFile, Goto, TypeOK, Sessions, Steps
  <2>5. primary' \in Procs \cup {None} /\ windows' \in Seq(Choices) /\ activations' \in Nat
    BY <1>16, ContentFacts, WholeFacts DEF EditFile, Goto, TypeOK, Sessions, Steps
  <2>6. launches' \in 0..MaxLaunches /\ failures' \in 0..MaxFailures /\ edits' \in 0..MaxEdits
    BY <1>16, ContentFacts, WholeFacts DEF EditFile, Goto, TypeOK, Sessions, Steps
  <2> QED BY <2>1, <2>2, <2>3, <2>4, <2>5, <2>6 DEF TypeOK
<1>17. CASE UNCHANGED vars
  BY <1>17 DEF vars, TypeOK
<1> QED
  BY <1>1, <1>2, <1>3, <1>4, <1>5, <1>6, <1>7, <1>8, <1>9, <1>10, <1>11, <1>12, <1>13,
     <1>14, <1>15, <1>16, <1>17 DEF Next

\* Who runs, with which number, and whether alone.
LEMMA LaunchedStep == TypeOK /\ Launched /\ [Next]_vars => Launched'
<1> SUFFICES ASSUME TypeOK, Launched, [Next]_vars PROVE Launched'
  OBVIOUS
<1> USE AppAssumption DEF disk, ends, ui, bounds
<1>1. ASSUME NEW p \in Procs, Launch(p) PROVE Launched'
  <2>1. PrimaryRuns'
    <3>1. pc'[p] \in {"boot", "open", "discard"} /\ primary' = primary /\ primary # p
      BY <1>1, AfterLoadFacts DEF Launch, Goto, TypeOK, Launched, PrimaryRuns
    <3>2. \A q \in Procs : q # p => pc'[q] = pc[q]
      BY <1>1, OthersStay
    <3>3. primary # None => primary \in Procs
      BY DEF TypeOK
    <3> QED BY <3>1, <3>2, <3>3 DEF Launched, PrimaryRuns
  <2>2. Numbered'
    BY <1>1, OthersStay, LaunchMixes DEF Launch, Goto, AfterLoad, TypeOK, Steps, Launched,
       Numbered
  <2>3. Alone'
    BY <1>1, OthersStay, LaunchMixes DEF Launch, Goto, AfterLoad, TypeOK, Steps, Launched,
       Alone
  <2> QED BY <2>1, <2>2, <2>3 DEF Launched
<1>2. ASSUME NEW p \in Procs, Discard(p) PROVE Launched'
  BY <1>2, OthersStay DEF Discard, Goto, Fail, TypeOK, Steps, Launched, PrimaryRuns,
     Numbered, Alone
<1>3. ASSUME NEW p \in Procs, OpenFile(p) PROVE Launched'
  <2>1. PrimaryRuns'
    BY <1>3, OthersStay DEF OpenFile, Goto, Fail, AfterSave, TypeOK, Steps, Launched,
       PrimaryRuns
  <2>2. Numbered'
    BY <1>3, OthersStay DEF OpenFile, Goto, Fail, AfterSave, TypeOK, Steps, Launched,
       Numbered
  <2>3. Alone'
    BY <1>3, OthersStay DEF OpenFile, Goto, Fail, AfterSave, TypeOK, Steps, Launched, Alone
  <2> QED BY <2>1, <2>2, <2>3 DEF Launched
<1>4. ASSUME NEW p \in Procs, WriteFile(p) PROVE Launched'
  <2>1. PrimaryRuns'
    BY <1>4, OthersStay DEF WriteFile, Goto, Fail, AfterSave, TypeOK, Steps, Launched,
       PrimaryRuns
  <2>2. Numbered'
    BY <1>4, OthersStay DEF WriteFile, Goto, Fail, AfterSave, TypeOK, Steps, Launched,
       Numbered
  <2>3. Alone'
    BY <1>4, OthersStay DEF WriteFile, Goto, Fail, AfterSave, TypeOK, Steps, Launched, Alone
  <2> QED BY <2>1, <2>2, <2>3 DEF Launched
<1>5. ASSUME NEW p \in Procs, Recover(p) PROVE Launched'
  <2>1. PrimaryRuns'
    BY <1>5, OthersStay DEF Recover, Goto, Fail, GiveUp, TypeOK, Steps, Launched,
       PrimaryRuns
  <2>2. Numbered'
    <3>1. sess[p] \in 1..launches /\ sess' = sess
      BY <1>5, LiveNumber DEF Recover
    <3>2. marker' = marker /\ reported' \subseteq reported \cup ({marker} \ {0})
          /\ crashed' = crashed /\ launches' = launches /\ pc[p] # "off"
      BY <1>5 DEF Recover, GiveUp, Fail
    <3>3. marker' \in 0..launches /\ reported' \subseteq 1..launches /\ launches \in Nat
      BY <3>1, <3>2 DEF Launched, Numbered
    <3> QED BY <1>5, <3>1, <3>2, <3>3, OthersStay DEF Launched, Numbered
  <2>3. Alone'
    BY <1>5, OthersStay DEF Recover, Goto, Fail, GiveUp, TypeOK, Steps, Launched, Alone
  <2> QED BY <2>1, <2>2, <2>3 DEF Launched
<1>6. ASSUME NEW p \in Procs, ClearStale(p) PROVE Launched'
  <2>1. PrimaryRuns'
    BY <1>6, OthersStay DEF ClearStale, Goto, Fail, GiveUp, TypeOK, Steps, Launched,
       PrimaryRuns
  <2>2. Numbered'
    <3>1. sess[p] \in 1..launches /\ sess' = sess
      BY <1>6, LiveNumber DEF ClearStale
    <3>2. marker' \in {marker, 0} /\ reported' \subseteq reported \cup ({marker} \ {0})
          /\ crashed' = crashed /\ launches' = launches /\ pc[p] # "off"
      BY <1>6 DEF ClearStale, GiveUp, Fail
    <3>3. marker' \in 0..launches /\ reported' \subseteq 1..launches /\ launches \in Nat
      BY <3>1, <3>2 DEF Launched, Numbered
    <3> QED BY <1>6, <3>1, <3>2, <3>3, OthersStay DEF Launched, Numbered
  <2>3. Alone'
    BY <1>6, OthersStay DEF ClearStale, Goto, Fail, GiveUp, TypeOK, Steps, Launched, Alone
  <2> QED BY <2>1, <2>2, <2>3 DEF Launched
<1>7. ASSUME NEW p \in Procs, StartSession(p) PROVE Launched'
  <2>1. PrimaryRuns'
    BY <1>7, OthersStay DEF StartSession, Goto, Fail, GiveUp, TypeOK, Steps, Launched,
       PrimaryRuns
  <2>2. Numbered'
    <3>1. sess[p] \in 1..launches /\ sess' = sess
      BY <1>7, LiveNumber DEF StartSession
    <3>2. marker' \in {marker, sess[p]} /\ reported' \subseteq reported \cup ({marker} \ {0})
          /\ crashed' = crashed /\ launches' = launches /\ pc[p] # "off"
      BY <1>7 DEF StartSession, GiveUp, Fail
    <3>3. marker' \in 0..launches /\ reported' \subseteq 1..launches /\ launches \in Nat
      BY <3>1, <3>2 DEF Launched, Numbered
    <3> QED BY <1>7, <3>1, <3>2, <3>3, OthersStay DEF Launched, Numbered
  <2>3. Alone'
    BY <1>7, OthersStay DEF StartSession, Goto, Fail, GiveUp, TypeOK, Steps, Launched, Alone
  <2> QED BY <2>1, <2>2, <2>3 DEF Launched
<1>8. ASSUME NEW p \in Procs, Register(p) PROVE Launched'
  BY <1>8, OthersStay DEF Register, Goto, TypeOK, Steps, Launched, PrimaryRuns, Numbered,
     Alone
<1>9. ASSUME NEW p \in Procs, Forward(p) PROVE Launched'
  <2>1. PrimaryRuns'
    BY <1>9, OthersStay DEF Forward, Goto, TypeOK, Steps, Launched, PrimaryRuns
  <2>2. Numbered'
    BY <1>9, OthersStay DEF Forward, Goto, TypeOK, Steps, Launched, Numbered
  <2>3. Alone'
    BY <1>9, OthersStay DEF Forward, Goto, TypeOK, Steps, Launched, Alone
  <2> QED BY <2>1, <2>2, <2>3 DEF Launched
<1>10. ASSUME NEW p \in Procs, Activate(p) PROVE Launched'
  BY <1>10, OthersStay DEF Activate, Goto, TypeOK, Steps, Launched, PrimaryRuns, Numbered,
     Alone
<1>11. ASSUME NEW p \in Procs, ChangeSetting(p) PROVE Launched'
  BY <1>11, OthersStay DEF ChangeSetting, Goto, TypeOK, Steps, Launched, PrimaryRuns,
     Numbered, Alone
<1>12. ASSUME NEW p \in Procs, Quit(p) PROVE Launched'
  BY <1>12, OthersStay DEF Quit, Goto, TypeOK, Steps, Launched, PrimaryRuns, Numbered, Alone
<1>13. ASSUME NEW p \in Procs, Shutdown(p) PROVE Launched'
  <2>1. PrimaryRuns'
    BY <1>13, OthersStay DEF Shutdown, Goto, Unmark, Fail, TypeOK, Steps, Launched,
       PrimaryRuns
  <2>2. Numbered'
    BY <1>13, OthersStay DEF Shutdown, Goto, Unmark, Fail, TypeOK, Steps, Launched, Numbered
  <2>3. Alone'
    BY <1>13, OthersStay DEF Shutdown, Goto, Unmark, Fail, TypeOK, Steps, Launched, Alone
  <2> QED BY <2>1, <2>2, <2>3 DEF Launched
<1>14. ASSUME NEW p \in Procs, Finish(p) PROVE Launched'
  <2>1. PrimaryRuns'
    BY <1>14, OthersStay DEF Finish, Goto, Unmark, Fail, TypeOK, Steps, Launched,
       PrimaryRuns
  <2>2. Numbered'
    BY <1>14, OthersStay DEF Finish, Goto, Unmark, Fail, TypeOK, Steps, Launched, Numbered
  <2>3. Alone'
    BY <1>14, OthersStay DEF Finish, Goto, Unmark, Fail, TypeOK, Steps, Launched, Alone
  <2> QED BY <2>1, <2>2, <2>3 DEF Launched
<1>15. ASSUME NEW p \in Procs, Crash(p) PROVE Launched'
  <2>1. PrimaryRuns'
    BY <1>15, OthersStay DEF Crash, Goto, TypeOK, Steps, Launched, PrimaryRuns
  <2>2. Numbered'
    BY <1>15, OthersStay DEF Crash, Goto, TypeOK, Steps, Launched, Numbered
  <2>3. Alone'
    BY <1>15, OthersStay DEF Crash, Goto, TypeOK, Steps, Launched, Alone
  <2> QED BY <2>1, <2>2, <2>3 DEF Launched
<1>16. CASE EditFile
  BY <1>16 DEF EditFile, TypeOK, Launched, PrimaryRuns, Numbered, Alone
<1>17. CASE UNCHANGED vars
  BY <1>17 DEF vars, Launched, PrimaryRuns, Numbered, Alone
<1> QED
  BY <1>1, <1>2, <1>3, <1>4, <1>5, <1>6, <1>7, <1>8, <1>9, <1>10, <1>11, <1>12, <1>13,
     <1>14, <1>15, <1>16, <1>17 DEF Next

\* The marker and the reports.
LEMMA RecordedStep == TypeOK /\ Launched /\ Recorded /\ [Next]_vars => Recorded'
<1> SUFFICES ASSUME TypeOK, Launched, Recorded, [Next]_vars PROVE Recorded'
  OBVIOUS
<1> USE AppAssumption DEF disk, ends, ui, bounds
<1>1. ASSUME NEW p \in Procs,
             \/ Discard(p) \/ OpenFile(p) \/ WriteFile(p) \/ Register(p) \/ Activate(p)
             \/ ChangeSetting(p) \/ Quit(p)
      PROVE  Recorded'
  <2>1. UNCHANGED <<marker, reported, crashed, unmarked, mixed, sess>>
    BY <1>1 DEF Discard, OpenFile, WriteFile, Register, Activate, ChangeSetting, Quit
  <2>2. ASSUME NEW q \in Procs
        PROVE  /\ Running(q)' = Running(q) /\ Recovered(q)' = Recovered(q)
               /\ pc'[q] = "clear" <=> pc[q] = "clear"
    BY <1>1 DEF Discard, OpenFile, WriteFile, Register, Activate, ChangeSetting, Quit,
                AfterSave, Goto, TypeOK, Launched, PrimaryRuns, Running, Recovered
  <2> QED BY <2>1, <2>2 DEF Recorded, MarkerMet, MarkerKept, MarkerTrue, CrashIsOnRecord,
                            ReportsAreTrue
<1>2. ASSUME NEW p \in Procs, Launch(p) PROVE Recorded'
  <2>0. \A q \in Procs \ {p} :
          /\ pc'[q] = pc[q] /\ sess'[q] = sess[q] /\ mem'[q] = mem[q]
          /\ told'[q] = told[q] /\ out'[q] = out[q] /\ saved'[q] = saved[q]
    BY <1>2, OthersStay
  <2>1. MarkerMet'
    <3>1. pc'[p] \in {"boot", "open", "discard"} /\ primary' = primary /\ primary # p
      BY <1>2, AfterLoadFacts DEF Launch, Goto, TypeOK, Launched, PrimaryRuns
    <3>2. marker' = marker /\ reported' = reported /\ mixed \subseteq mixed'
      BY <1>2, LaunchMixes DEF Launch
    <3> QED BY <2>0, <3>1, <3>2 DEF Recorded, MarkerMet, Recovered, Running
  <2>2. MarkerKept'
    <3>1. pc'[p] \in {"boot", "open", "discard"} /\ primary' = primary /\ primary # p
      BY <1>2, AfterLoadFacts DEF Launch, Goto, TypeOK, Launched, PrimaryRuns
    <3>2. marker' = marker /\ mixed \subseteq mixed'
      BY <1>2, LaunchMixes DEF Launch
    <3> QED BY <2>0, <3>1, <3>2 DEF Recorded, MarkerKept, Running
  <2>3. MarkerTrue'
    BY <1>2, <2>0, LaunchMixes DEF Launch, Goto, AfterLoad, TypeOK, Launched, PrimaryRuns,
       Numbered, Alone, Recorded, MarkerTrue, Running
  <2>4. CrashIsOnRecord'
    BY <1>2, <2>0, LaunchMixes DEF Launch, Goto, AfterLoad, TypeOK, Launched, PrimaryRuns,
       Numbered, Alone, Recorded, CrashIsOnRecord, MarkerMet, MarkerKept, Recovered,
       Running
  <2>5. ReportsAreTrue'
    BY <1>2, <2>0, LaunchMixes DEF Launch, Goto, AfterLoad, TypeOK, Launched, PrimaryRuns,
       Numbered, Alone, Recorded, ReportsAreTrue, MarkerTrue, Running
  <2> QED BY <2>1, <2>2, <2>3, <2>4, <2>5 DEF Recorded
<1>3. ASSUME NEW p \in Procs, Recover(p) PROVE Recorded'
  <2>0. \A q \in Procs \ {p} :
          /\ pc'[q] = pc[q] /\ sess'[q] = sess[q] /\ mem'[q] = mem[q]
          /\ told'[q] = told[q] /\ out'[q] = out[q] /\ saved'[q] = saved[q]
    BY <1>3, OthersStay
  <2>1. MarkerMet'
    BY <1>3, <2>0 DEF Recover, Goto, Fail, GiveUp, TypeOK, Launched, PrimaryRuns,
       Numbered, Alone, Recorded, MarkerMet, Recovered, Running
  <2>2. MarkerKept'
    BY <1>3, <2>0 DEF Recover, Goto, Fail, GiveUp, TypeOK, Launched, PrimaryRuns,
       Numbered, Alone, Recorded, MarkerKept, MarkerMet, Recovered, Running
  <2>3. MarkerTrue'
    BY <1>3, <2>0 DEF Recover, Goto, Fail, GiveUp, TypeOK, Launched, PrimaryRuns,
       Numbered, Alone, Recorded, MarkerTrue, Running
  <2>4. CrashIsOnRecord'
    BY <1>3, <2>0 DEF Recover, Goto, Fail, GiveUp, TypeOK, Launched, PrimaryRuns,
       Numbered, Alone, Recorded, CrashIsOnRecord, MarkerMet, MarkerKept, Recovered,
       Running
  <2>5. ReportsAreTrue'
    <3>1. /\ reported' \subseteq reported \cup ({marker} \ {0}) /\ pc[p] = "boot"
          /\ UNCHANGED <<crashed, unmarked, mixed>>
      BY <1>3 DEF Recover, GiveUp, Fail
    <3>2. ASSUME marker # 0, marker \notin mixed PROVE marker \in crashed \cup unmarked
      <4>1. ASSUME NEW q \in Procs, Running(q), sess[q] = marker PROVE FALSE
        <5>1. pc[q] # "off" /\ q # p
          BY <3>1, <4>1 DEF Running, TypeOK, Launched, PrimaryRuns
        <5>2. sess[q] \in mixed
          BY <3>1, <5>1 DEF Launched, Alone
        <5> QED BY <3>2, <4>1, <5>2
      <4> QED BY <3>2, <4>1 DEF Recorded, MarkerTrue
    <3> QED BY <3>1, <3>2 DEF Recorded, ReportsAreTrue
  <2> QED BY <2>1, <2>2, <2>3, <2>4, <2>5 DEF Recorded
<1>4. ASSUME NEW p \in Procs, ClearStale(p) PROVE Recorded'
  <2>0. \A q \in Procs \ {p} :
          /\ pc'[q] = pc[q] /\ sess'[q] = sess[q] /\ mem'[q] = mem[q]
          /\ told'[q] = told[q] /\ out'[q] = out[q] /\ saved'[q] = saved[q]
    BY <1>4, OthersStay
  <2>1. MarkerMet'
    BY <1>4, <2>0 DEF ClearStale, Goto, Fail, GiveUp, TypeOK, Launched, PrimaryRuns,
       Numbered, Alone, Recorded, MarkerMet, Recovered, Running
  <2>2. MarkerKept'
    BY <1>4, <2>0 DEF ClearStale, Goto, Fail, GiveUp, TypeOK, Launched, PrimaryRuns,
       Numbered, Alone, Recorded, MarkerKept, MarkerMet, Recovered, Running
  <2>3. MarkerTrue'
    BY <1>4, <2>0 DEF ClearStale, Goto, Fail, GiveUp, TypeOK, Launched, PrimaryRuns,
       Numbered, Alone, Recorded, MarkerTrue, Running
  <2>4. CrashIsOnRecord'
    BY <1>4, <2>0 DEF ClearStale, Goto, Fail, GiveUp, TypeOK, Launched, PrimaryRuns,
       Numbered, Alone, Recorded, CrashIsOnRecord, MarkerMet, MarkerKept, Recovered,
       Running
  <2>5. ReportsAreTrue'
    BY <1>4, <2>0 DEF ClearStale, Goto, Fail, GiveUp, TypeOK, Launched, PrimaryRuns,
       Numbered, Alone, Recorded, ReportsAreTrue, MarkerTrue, Running
  <2> QED BY <2>1, <2>2, <2>3, <2>4, <2>5 DEF Recorded
<1>5. ASSUME NEW p \in Procs, StartSession(p) PROVE Recorded'
  <2>0. \A q \in Procs \ {p} :
          /\ pc'[q] = pc[q] /\ sess'[q] = sess[q] /\ mem'[q] = mem[q]
          /\ told'[q] = told[q] /\ out'[q] = out[q] /\ saved'[q] = saved[q]
    BY <1>5, OthersStay
  <2>1. MarkerMet'
    BY <1>5, <2>0 DEF StartSession, Goto, Fail, GiveUp, TypeOK, Launched, PrimaryRuns,
       Numbered, Alone, Recorded, MarkerMet, Recovered, Running
  <2>2. MarkerKept'
    BY <1>5, <2>0 DEF StartSession, Goto, Fail, GiveUp, TypeOK, Launched, PrimaryRuns,
       Numbered, Alone, Recorded, MarkerKept, MarkerMet, Recovered, Running
  <2>3. MarkerTrue'
    BY <1>5, <2>0 DEF StartSession, Goto, Fail, GiveUp, TypeOK, Launched, PrimaryRuns,
       Numbered, Alone, Recorded, MarkerTrue, Running
  <2>4. CrashIsOnRecord'
    BY <1>5, <2>0 DEF StartSession, Goto, Fail, GiveUp, TypeOK, Launched, PrimaryRuns,
       Numbered, Alone, Recorded, CrashIsOnRecord, MarkerMet, MarkerKept, Recovered,
       Running
  <2>5. ReportsAreTrue'
    BY <1>5, <2>0 DEF StartSession, Goto, Fail, GiveUp, TypeOK, Launched, PrimaryRuns,
       Numbered, Alone, Recorded, ReportsAreTrue, MarkerTrue, Running
  <2> QED BY <2>1, <2>2, <2>3, <2>4, <2>5 DEF Recorded
<1>6. ASSUME NEW p \in Procs, Forward(p) PROVE Recorded'
  <2>0. \A q \in Procs \ {p} :
          /\ pc'[q] = pc[q] /\ sess'[q] = sess[q] /\ mem'[q] = mem[q]
          /\ told'[q] = told[q] /\ out'[q] = out[q] /\ saved'[q] = saved[q]
    BY <1>6, OthersStay
  <2>1. MarkerMet'
    BY <1>6, <2>0 DEF Forward, Goto, TypeOK, Launched, PrimaryRuns, Numbered, Alone,
       Recorded, MarkerMet, Recovered, Running
  <2>2. MarkerKept'
    BY <1>6, <2>0 DEF Forward, Goto, TypeOK, Launched, PrimaryRuns, Numbered, Alone,
       Recorded, MarkerKept, MarkerMet, Recovered, Running
  <2>3. MarkerTrue'
    BY <1>6, <2>0 DEF Forward, Goto, TypeOK, Launched, PrimaryRuns, Numbered, Alone,
       Recorded, MarkerTrue, Running
  <2>4. CrashIsOnRecord'
    BY <1>6, <2>0 DEF Forward, Goto, TypeOK, Launched, PrimaryRuns, Numbered, Alone,
       Recorded, CrashIsOnRecord, MarkerMet, MarkerKept, Recovered, Running
  <2>5. ReportsAreTrue'
    BY <1>6, <2>0 DEF Forward, Goto, TypeOK, Launched, PrimaryRuns, Numbered, Alone,
       Recorded, ReportsAreTrue, MarkerTrue, Running
  <2> QED BY <2>1, <2>2, <2>3, <2>4, <2>5 DEF Recorded
<1>7. ASSUME NEW p \in Procs, Shutdown(p) PROVE Recorded'
  <2>0. \A q \in Procs \ {p} :
          /\ pc'[q] = pc[q] /\ sess'[q] = sess[q] /\ mem'[q] = mem[q]
          /\ told'[q] = told[q] /\ out'[q] = out[q] /\ saved'[q] = saved[q]
    BY <1>7, OthersStay
  <2>1. MarkerMet'
    BY <1>7, <2>0 DEF Shutdown, Goto, Unmark, Fail, TypeOK, Launched, PrimaryRuns,
       Numbered, Alone, Recorded, MarkerMet, Recovered, Running
  <2>2. MarkerKept'
    BY <1>7, <2>0 DEF Shutdown, Goto, Unmark, Fail, TypeOK, Launched, PrimaryRuns,
       Numbered, Alone, Recorded, MarkerKept, MarkerMet, Recovered, Running
  <2>3. MarkerTrue'
    BY <1>7, <2>0 DEF Shutdown, Goto, Unmark, Fail, TypeOK, Launched, PrimaryRuns,
       Numbered, Alone, Recorded, MarkerTrue, Running
  <2>4. CrashIsOnRecord'
    BY <1>7, <2>0 DEF Shutdown, Goto, Unmark, Fail, TypeOK, Launched, PrimaryRuns,
       Numbered, Alone, Recorded, CrashIsOnRecord, MarkerMet, MarkerKept, Recovered,
       Running
  <2>5. ReportsAreTrue'
    BY <1>7, <2>0 DEF Shutdown, Goto, Unmark, Fail, TypeOK, Launched, PrimaryRuns,
       Numbered, Alone, Recorded, ReportsAreTrue, MarkerTrue, Running
  <2> QED BY <2>1, <2>2, <2>3, <2>4, <2>5 DEF Recorded
<1>8. ASSUME NEW p \in Procs, Finish(p) PROVE Recorded'
  <2>0. \A q \in Procs \ {p} :
          /\ pc'[q] = pc[q] /\ sess'[q] = sess[q] /\ mem'[q] = mem[q]
          /\ told'[q] = told[q] /\ out'[q] = out[q] /\ saved'[q] = saved[q]
    BY <1>8, OthersStay
  <2>1. MarkerMet'
    BY <1>8, <2>0 DEF Finish, Goto, Unmark, Fail, TypeOK, Launched, PrimaryRuns, Numbered,
       Alone, Recorded, MarkerMet, Recovered, Running
  <2>2. MarkerKept'
    BY <1>8, <2>0 DEF Finish, Goto, Unmark, Fail, TypeOK, Launched, PrimaryRuns, Numbered,
       Alone, Recorded, MarkerKept, MarkerMet, Recovered, Running
  <2>3. MarkerTrue'
    BY <1>8, <2>0 DEF Finish, Goto, Unmark, Fail, TypeOK, Launched, PrimaryRuns, Numbered,
       Alone, Recorded, MarkerTrue, Running
  <2>4. CrashIsOnRecord'
    BY <1>8, <2>0 DEF Finish, Goto, Unmark, Fail, TypeOK, Launched, PrimaryRuns, Numbered,
       Alone, Recorded, CrashIsOnRecord, MarkerMet, MarkerKept, Recovered, Running
  <2>5. ReportsAreTrue'
    BY <1>8, <2>0 DEF Finish, Goto, Unmark, Fail, TypeOK, Launched, PrimaryRuns, Numbered,
       Alone, Recorded, ReportsAreTrue, MarkerTrue, Running
  <2> QED BY <2>1, <2>2, <2>3, <2>4, <2>5 DEF Recorded
<1>9. ASSUME NEW p \in Procs, Crash(p) PROVE Recorded'
  <2>0. \A q \in Procs \ {p} :
          /\ pc'[q] = pc[q] /\ sess'[q] = sess[q] /\ mem'[q] = mem[q]
          /\ told'[q] = told[q] /\ out'[q] = out[q] /\ saved'[q] = saved[q]
    BY <1>9, OthersStay
  <2>1. MarkerMet'
    BY <1>9, <2>0 DEF Crash, Goto, TypeOK, Launched, PrimaryRuns, Numbered, Alone,
       Recorded, MarkerMet, Recovered, Running
  <2>2. MarkerKept'
    BY <1>9, <2>0 DEF Crash, Goto, TypeOK, Launched, PrimaryRuns, Numbered, Alone,
       Recorded, MarkerKept, MarkerMet, Recovered, Running
  <2>3. MarkerTrue'
    BY <1>9, <2>0 DEF Crash, Goto, TypeOK, Launched, PrimaryRuns, Numbered, Alone,
       Recorded, MarkerTrue, Running
  <2>4. CrashIsOnRecord'
    BY <1>9, <2>0 DEF Crash, Goto, TypeOK, Launched, PrimaryRuns, Numbered, Alone,
       Recorded, CrashIsOnRecord, MarkerMet, MarkerKept, Recovered, Running
  <2>5. ReportsAreTrue'
    BY <1>9, <2>0 DEF Crash, Goto, TypeOK, Launched, PrimaryRuns, Numbered, Alone,
       Recorded, ReportsAreTrue, MarkerTrue, Running
  <2> QED BY <2>1, <2>2, <2>3, <2>4, <2>5 DEF Recorded
<1>10. CASE EditFile
  BY <1>10 DEF EditFile, Recorded, MarkerMet, MarkerKept, MarkerTrue, CrashIsOnRecord,
     ReportsAreTrue, Recovered, Running
<1>11. CASE UNCHANGED vars
  BY <1>11 DEF vars, Recorded, MarkerMet, MarkerKept, MarkerTrue, CrashIsOnRecord,
     ReportsAreTrue, Recovered, Running
<1> QED
  BY <1>1, <1>2, <1>3, <1>4, <1>5, <1>6, <1>7, <1>8, <1>9, <1>10, <1>11 DEF Next

\* What the file holds.
LEMMA FiledStep == TypeOK /\ Launched /\ Filed /\ [Next]_vars => Filed'
<1> SUFFICES ASSUME TypeOK, Launched, Filed, [Next]_vars PROVE Filed'
  OBVIOUS
<1> USE AppAssumption DEF disk, ends, ui, bounds
<1>1. ASSUME NEW p \in Procs,
             \/ Recover(p) \/ ClearStale(p) \/ StartSession(p) \/ Register(p) \/ Forward(p)
             \/ Activate(p) \/ ChangeSetting(p) \/ Quit(p) \/ Shutdown(p) \/ Finish(p)
      PROVE  Filed'
  <2>1. UNCHANGED <<file, committed, cut, mixed, sess, mem, told>>
    BY <1>1 DEF Recover, ClearStale, StartSession, Register, Forward, Activate,
       ChangeSetting,
                Quit, Shutdown, Finish, Unmark, Fail
  <2>2. ASSUME NEW q \in Procs
        PROVE  /\ pc[q] = "write" => pc'[q] = "write"
               /\ Loading(q)' => Loading(q) /\ out'[q] = out[q]
    BY <1>1 DEF Recover, ClearStale, StartSession, Register, Forward, Activate,
       ChangeSetting,
                Quit, Shutdown, Finish, GiveUp, Goto, TypeOK, Launched, PrimaryRuns, Loading
  <2> QED BY <2>1, <2>2 DEF Filed, FileCommitted, EmptyIsCut, LoadedCommitted
<1>2. ASSUME NEW p \in Procs, Launch(p) PROVE Filed'
  <2>0. \A q \in Procs \ {p} :
          /\ pc'[q] = pc[q] /\ sess'[q] = sess[q] /\ mem'[q] = mem[q]
          /\ told'[q] = told[q] /\ out'[q] = out[q] /\ saved'[q] = saved[q]
    BY <1>2, OthersStay
  <2>1. FileCommitted'
    BY <1>2, <2>0, ContentFacts, WholeFacts, LaunchMixes DEF Launch, Goto, AfterLoad,
       TypeOK, Launched, PrimaryRuns, Alone, Filed, FileCommitted, LoadedCommitted,
       Loading
  <2>2. EmptyIsCut'
    BY <1>2, <2>0, ContentFacts, WholeFacts, LaunchMixes DEF Launch, Goto, AfterLoad,
       TypeOK, Launched, PrimaryRuns, Alone, Filed, EmptyIsCut
  <2>3. LoadedCommitted'
    <3>1. PICK c \in Choices :
            /\ mem' = [mem EXCEPT ![p] = c] /\ out' = [out EXCEPT ![p] = c]
            /\ file.is \in {"whole", "outdated"} => c = file.choice
            /\ file.is = "empty" => c = Default
      BY <1>2, LaunchReads
    <3>2. mem'[p] = c /\ out'[p] = c /\ sess'[p] = launches + 1
          /\ told'[p] = (file.is \in {"outdated", "absent", "unusable"})
      BY <1>2, <3>1 DEF Launch, Tells, TypeOK
    <3>3. primary' = primary /\ committed' = committed /\ cut' = cut /\ mixed \subseteq mixed'
      BY <1>2, LaunchMixes DEF Launch
    <3>4. sess'[p] \notin mixed' => c = committed \/ told'[p] \/ cut
      <4>1. CASE file.is \in {"outdated", "absent", "unusable"}
        BY <3>2, <4>1
      <4>2. CASE file.is = "whole"
        BY <3>1, <4>2 DEF Filed, FileCommitted
      <4>3. CASE file.is = "empty"
        <5>1. ASSUME NEW q \in Procs, pc[q] = "write" PROVE launches + 1 \in mixed'
          BY <1>2, <5>1, LaunchMixes
        <5> QED BY <3>2, <4>3, <5>1 DEF Filed, EmptyIsCut
      <4> QED BY <4>1, <4>2, <4>3, ContentFacts DEF TypeOK
    <3>5. \A q \in Procs \ {p} : Loading(q)' = Loading(q)
      BY <2>0, <3>3 DEF Loading
    <3>6. out'[p] = mem'[p] /\ (sess'[p] \notin mixed' => mem'[p] = committed' \/ told'[p] \/ cut')
      BY <3>2, <3>3, <3>4
    <3>7. ASSUME NEW q \in Procs \ {p}, Loading(q)'
          PROVE  /\ out'[q] = mem'[q]
                 /\ sess'[q] \notin mixed' => mem'[q] = committed' \/ told'[q] \/ cut'
      BY <2>0, <3>3, <3>5, <3>7 DEF Filed, LoadedCommitted
    <3> QED BY <3>6, <3>7 DEF LoadedCommitted
  <2> QED BY <2>1, <2>2, <2>3 DEF Filed
<1>3. ASSUME NEW p \in Procs, Discard(p) PROVE Filed'
  <2>0. \A q \in Procs \ {p} :
          /\ pc'[q] = pc[q] /\ sess'[q] = sess[q] /\ mem'[q] = mem[q]
          /\ told'[q] = told[q] /\ out'[q] = out[q] /\ saved'[q] = saved[q]
    BY <1>3, OthersStay
  <2>1. FileCommitted'
    BY <1>3, <2>0, ContentFacts, WholeFacts DEF Discard, Goto, Fail, TypeOK, Launched,
       PrimaryRuns, Alone, Filed, FileCommitted, LoadedCommitted, Loading
  <2>2. EmptyIsCut'
    BY <1>3, <2>0, ContentFacts, WholeFacts DEF Discard, Goto, Fail, TypeOK, Launched,
       PrimaryRuns, Alone, Filed, EmptyIsCut
  <2>3. LoadedCommitted'
    BY <1>3, <2>0, ContentFacts, WholeFacts DEF Discard, Goto, Fail, TypeOK, Launched,
       PrimaryRuns, Alone, Filed, LoadedCommitted, FileCommitted, EmptyIsCut, Loading
  <2> QED BY <2>1, <2>2, <2>3 DEF Filed
<1>4. ASSUME NEW p \in Procs, OpenFile(p) PROVE Filed'
  <2>0. \A q \in Procs \ {p} :
          /\ pc'[q] = pc[q] /\ sess'[q] = sess[q] /\ mem'[q] = mem[q]
          /\ told'[q] = told[q] /\ out'[q] = out[q] /\ saved'[q] = saved[q]
    BY <1>4, OthersStay
  <2>1. FileCommitted'
    BY <1>4, <2>0, ContentFacts, WholeFacts DEF OpenFile, Goto, Fail, AfterSave, TypeOK,
       Launched, PrimaryRuns, Alone, Filed, FileCommitted, LoadedCommitted, Loading
  <2>2. EmptyIsCut'
    BY <1>4, <2>0, ContentFacts, WholeFacts DEF OpenFile, Goto, Fail, AfterSave, TypeOK,
       Launched, PrimaryRuns, Alone, Filed, EmptyIsCut
  <2>3. LoadedCommitted'
    BY <1>4, <2>0, ContentFacts, WholeFacts DEF OpenFile, Goto, Fail, AfterSave, TypeOK,
       Launched, PrimaryRuns, Alone, Filed, LoadedCommitted, FileCommitted, EmptyIsCut,
       Loading
  <2> QED BY <2>1, <2>2, <2>3 DEF Filed
<1>5. ASSUME NEW p \in Procs, WriteFile(p) PROVE Filed'
  <2>0. \A q \in Procs \ {p} :
          /\ pc'[q] = pc[q] /\ sess'[q] = sess[q] /\ mem'[q] = mem[q]
          /\ told'[q] = told[q] /\ out'[q] = out[q] /\ saved'[q] = saved[q]
    BY <1>5, OthersStay
  <2>1. FileCommitted'
    BY <1>5, <2>0, ContentFacts, WholeFacts DEF WriteFile, Goto, Fail, AfterSave, TypeOK,
       Launched, PrimaryRuns, Alone, Filed, FileCommitted, LoadedCommitted, Loading
  <2>2. EmptyIsCut'
    BY <1>5, <2>0, ContentFacts, WholeFacts DEF WriteFile, Goto, Fail, AfterSave, TypeOK,
       Launched, PrimaryRuns, Alone, Filed, EmptyIsCut
  <2>3. LoadedCommitted'
    BY <1>5, <2>0, ContentFacts, WholeFacts DEF WriteFile, Goto, Fail, AfterSave, TypeOK,
       Launched, PrimaryRuns, Alone, Filed, LoadedCommitted, FileCommitted, EmptyIsCut,
       Loading
  <2> QED BY <2>1, <2>2, <2>3 DEF Filed
<1>6. ASSUME NEW p \in Procs, Crash(p) PROVE Filed'
  <2>0. \A q \in Procs \ {p} :
          /\ pc'[q] = pc[q] /\ sess'[q] = sess[q] /\ mem'[q] = mem[q]
          /\ told'[q] = told[q] /\ out'[q] = out[q] /\ saved'[q] = saved[q]
    BY <1>6, OthersStay
  <2>1. FileCommitted'
    BY <1>6, <2>0, ContentFacts, WholeFacts DEF Crash, Goto, TypeOK, Launched,
       PrimaryRuns, Alone, Filed, FileCommitted, LoadedCommitted, Loading
  <2>2. EmptyIsCut'
    BY <1>6, <2>0, ContentFacts, WholeFacts DEF Crash, Goto, TypeOK, Launched,
       PrimaryRuns, Alone, Filed, EmptyIsCut
  <2>3. LoadedCommitted'
    BY <1>6, <2>0, ContentFacts, WholeFacts DEF Crash, Goto, TypeOK, Launched,
       PrimaryRuns, Alone, Filed, LoadedCommitted, FileCommitted, EmptyIsCut, Loading
  <2> QED BY <2>1, <2>2, <2>3 DEF Filed
<1>7. CASE EditFile
  <2>1. \A q \in Procs : ~Loading(q)
    BY <1>7 DEF EditFile, Live, Loading
  <2>2. pc' = pc /\ primary' = primary
    BY <1>7 DEF EditFile
  <2>3. \A q \in Procs : ~Loading(q)'
    BY <2>1, <2>2 DEF Loading
  <2>4. file'.is \in {"unusable", "outdated"} /\ (file'.is = "outdated" => file'.choice = committed')
    BY <1>7, ContentFacts DEF EditFile
  <2> QED BY <2>3, <2>4 DEF Filed, FileCommitted, EmptyIsCut, LoadedCommitted
<1>8. CASE UNCHANGED vars
  BY <1>8 DEF vars, Filed, FileCommitted, EmptyIsCut, LoadedCommitted, Loading
<1> QED
  BY <1>1, <1>2, <1>3, <1>4, <1>5, <1>6, <1>7, <1>8 DEF Next

\* What the windows show.
LEMMA ShownStep == TypeOK /\ Launched /\ Filed /\ Shown /\ [Next]_vars => Shown'
<1> SUFFICES ASSUME TypeOK, Launched, Filed, Shown, [Next]_vars PROVE Shown'
  OBVIOUS
<1> USE AppAssumption DEF disk, ends, ui, bounds
<1>1. ASSUME NEW p \in Procs,
             \/ Recover(p) \/ ClearStale(p) \/ StartSession(p) \/ Quit(p) \/ Shutdown(p)
             \/ Finish(p)
      PROVE  Shown'
  <2>1. /\ UNCHANGED <<file, mixed, sess, mem, out, saved>>
        /\ \/ UNCHANGED <<primary, windows, activations>>
           \/ primary' = None
    BY <1>1 DEF Recover, ClearStale, StartSession, Quit, Shutdown, Finish
  <2>2. ASSUME NEW q \in Procs
        PROVE  /\ Settled(q)' => Settled(q) /\ (primary = q <=> primary' = q)
               /\ pc'[q] \in {"open", "write"} => pc[q] = pc'[q]
    BY <1>1 DEF Recover, ClearStale, StartSession, Quit, Shutdown, Finish, GiveUp, Goto,
                TypeOK, Launched, PrimaryRuns, Settled
  <2>3. primary' # None => UNCHANGED <<primary, windows, activations>> /\ primary \in Procs
    BY <2>1 DEF TypeOK
  <2> QED BY <2>1, <2>2, <2>3 DEF Shown, OneWindow, SavingShown, DiskIsSettled, OnDisk, Reads
<1>2. ASSUME NEW p \in Procs, Launch(p) PROVE Shown'
  <2>0. \A q \in Procs \ {p} :
          /\ pc'[q] = pc[q] /\ sess'[q] = sess[q] /\ mem'[q] = mem[q]
          /\ told'[q] = told[q] /\ out'[q] = out[q] /\ saved'[q] = saved[q]
    BY <1>2, OthersStay
  <2>1. OneWindow'
    BY <1>2, <2>0, ContentFacts, WholeFacts, LaunchMixes DEF Launch, Goto, AfterLoad,
       TypeOK, Launched, PrimaryRuns, Alone, Filed, Shown, OneWindow
  <2>2. SavingShown'
    BY <1>2, <2>0, ContentFacts, WholeFacts, LaunchMixes DEF Launch, Goto, AfterLoad,
       TypeOK, Launched, PrimaryRuns, Alone, Filed, Shown, SavingShown, OneWindow
  <2>3. DiskIsSettled'
    BY <1>2, <2>0, ContentFacts, WholeFacts, LaunchMixes DEF Launch, Goto, AfterLoad,
       TypeOK, Launched, PrimaryRuns, Alone, Filed, Shown, DiskIsSettled, SavingShown,
       OneWindow, Settled, OnDisk, Reads, LoadedCommitted, Loading
  <2> QED BY <2>1, <2>2, <2>3 DEF Shown
<1>3. ASSUME NEW p \in Procs, Discard(p) PROVE Shown'
  <2>0. \A q \in Procs \ {p} :
          /\ pc'[q] = pc[q] /\ sess'[q] = sess[q] /\ mem'[q] = mem[q]
          /\ told'[q] = told[q] /\ out'[q] = out[q] /\ saved'[q] = saved[q]
    BY <1>3, OthersStay
  <2>1. OneWindow'
    BY <1>3, <2>0, ContentFacts, WholeFacts DEF Discard, Goto, Fail, TypeOK, Launched,
       PrimaryRuns, Alone, Filed, Shown, OneWindow
  <2>2. SavingShown'
    BY <1>3, <2>0, ContentFacts, WholeFacts DEF Discard, Goto, Fail, TypeOK, Launched,
       PrimaryRuns, Alone, Filed, Shown, SavingShown, OneWindow
  <2>3. DiskIsSettled'
    BY <1>3, <2>0, ContentFacts, WholeFacts DEF Discard, Goto, Fail, TypeOK, Launched,
       PrimaryRuns, Alone, Filed, Shown, DiskIsSettled, SavingShown, OneWindow, Settled,
       OnDisk, Reads, LoadedCommitted, Loading
  <2> QED BY <2>1, <2>2, <2>3 DEF Shown
<1>4. ASSUME NEW p \in Procs, OpenFile(p) PROVE Shown'
  <2>0. \A q \in Procs \ {p} :
          /\ pc'[q] = pc[q] /\ sess'[q] = sess[q] /\ mem'[q] = mem[q]
          /\ told'[q] = told[q] /\ out'[q] = out[q] /\ saved'[q] = saved[q]
    BY <1>4, OthersStay
  <2>1. OneWindow'
    BY <1>4, <2>0, ContentFacts, WholeFacts DEF OpenFile, Goto, Fail, AfterSave, TypeOK,
       Launched, PrimaryRuns, Alone, Filed, Shown, OneWindow
  <2>2. SavingShown'
    BY <1>4, <2>0, ContentFacts, WholeFacts DEF OpenFile, Goto, Fail, AfterSave, TypeOK,
       Launched, PrimaryRuns, Alone, Filed, Shown, SavingShown, OneWindow
  <2>3. DiskIsSettled'
    BY <1>4, <2>0, ContentFacts, WholeFacts DEF OpenFile, Goto, Fail, AfterSave, TypeOK,
       Launched, PrimaryRuns, Alone, Filed, Shown, DiskIsSettled, SavingShown, OneWindow,
       Settled, OnDisk, Reads, LoadedCommitted, Loading
  <2> QED BY <2>1, <2>2, <2>3 DEF Shown
<1>5. ASSUME NEW p \in Procs, WriteFile(p) PROVE Shown'
  <2>0. \A q \in Procs \ {p} :
          /\ pc'[q] = pc[q] /\ sess'[q] = sess[q] /\ mem'[q] = mem[q]
          /\ told'[q] = told[q] /\ out'[q] = out[q] /\ saved'[q] = saved[q]
    BY <1>5, OthersStay
  <2>1. OneWindow'
    BY <1>5, <2>0, ContentFacts, WholeFacts DEF WriteFile, Goto, Fail, AfterSave, TypeOK,
       Launched, PrimaryRuns, Alone, Filed, Shown, OneWindow
  <2>2. SavingShown'
    BY <1>5, <2>0, ContentFacts, WholeFacts DEF WriteFile, Goto, Fail, AfterSave, TypeOK,
       Launched, PrimaryRuns, Alone, Filed, Shown, SavingShown, OneWindow
  <2>3. DiskIsSettled'
    BY <1>5, <2>0, ContentFacts, WholeFacts DEF WriteFile, Goto, Fail, AfterSave, TypeOK,
       Launched, PrimaryRuns, Alone, Filed, Shown, DiskIsSettled, SavingShown, OneWindow,
       Settled, OnDisk, Reads, LoadedCommitted, Loading
  <2> QED BY <2>1, <2>2, <2>3 DEF Shown
<1>6. ASSUME NEW p \in Procs, Register(p) PROVE Shown'
  <2>0. \A q \in Procs \ {p} :
          /\ pc'[q] = pc[q] /\ sess'[q] = sess[q] /\ mem'[q] = mem[q]
          /\ told'[q] = told[q] /\ out'[q] = out[q] /\ saved'[q] = saved[q]
    BY <1>6, OthersStay
  <2>1. OneWindow'
    BY <1>6, <2>0, ContentFacts, WholeFacts DEF Register, Goto, TypeOK, Launched,
       PrimaryRuns, Alone, Filed, Shown, OneWindow
  <2>2. SavingShown'
    BY <1>6, <2>0, ContentFacts, WholeFacts DEF Register, Goto, TypeOK, Launched,
       PrimaryRuns, Alone, Filed, Shown, SavingShown, OneWindow
  <2>3. DiskIsSettled'
    BY <1>6, <2>0, ContentFacts, WholeFacts DEF Register, Goto, TypeOK, Launched,
       PrimaryRuns, Alone, Filed, Shown, DiskIsSettled, SavingShown, OneWindow, Settled,
       OnDisk, Reads, LoadedCommitted, Loading
  <2> QED BY <2>1, <2>2, <2>3 DEF Shown
<1>7. ASSUME NEW p \in Procs, Forward(p) PROVE Shown'
  <2>0. \A q \in Procs \ {p} :
          /\ pc'[q] = pc[q] /\ sess'[q] = sess[q] /\ mem'[q] = mem[q]
          /\ told'[q] = told[q] /\ out'[q] = out[q] /\ saved'[q] = saved[q]
    BY <1>7, OthersStay
  <2>1. OneWindow'
    BY <1>7, <2>0, ContentFacts, WholeFacts DEF Forward, Goto, TypeOK, Launched,
       PrimaryRuns, Alone, Filed, Shown, OneWindow
  <2>2. SavingShown'
    BY <1>7, <2>0, ContentFacts, WholeFacts DEF Forward, Goto, TypeOK, Launched,
       PrimaryRuns, Alone, Filed, Shown, SavingShown, OneWindow
  <2>3. DiskIsSettled'
    BY <1>7, <2>0, ContentFacts, WholeFacts DEF Forward, Goto, TypeOK, Launched,
       PrimaryRuns, Alone, Filed, Shown, DiskIsSettled, SavingShown, OneWindow, Settled,
       OnDisk, Reads, LoadedCommitted, Loading
  <2> QED BY <2>1, <2>2, <2>3 DEF Shown
<1>8. ASSUME NEW p \in Procs, Activate(p) PROVE Shown'
  <2>0. \A q \in Procs \ {p} :
          /\ pc'[q] = pc[q] /\ sess'[q] = sess[q] /\ mem'[q] = mem[q]
          /\ told'[q] = told[q] /\ out'[q] = out[q] /\ saved'[q] = saved[q]
    BY <1>8, OthersStay
  <2>1. OneWindow'
    BY <1>8, <2>0, ContentFacts, WholeFacts DEF Activate, Goto, TypeOK, Launched,
       PrimaryRuns, Alone, Filed, Shown, OneWindow
  <2>2. SavingShown'
    BY <1>8, <2>0, ContentFacts, WholeFacts DEF Activate, Goto, TypeOK, Launched,
       PrimaryRuns, Alone, Filed, Shown, SavingShown, OneWindow
  <2>3. DiskIsSettled'
    BY <1>8, <2>0, ContentFacts, WholeFacts DEF Activate, Goto, TypeOK, Launched,
       PrimaryRuns, Alone, Filed, Shown, DiskIsSettled, SavingShown, OneWindow, Settled,
       OnDisk, Reads, LoadedCommitted, Loading
  <2> QED BY <2>1, <2>2, <2>3 DEF Shown
<1>9. ASSUME NEW p \in Procs, ChangeSetting(p) PROVE Shown'
  <2>0. \A q \in Procs \ {p} :
          /\ pc'[q] = pc[q] /\ sess'[q] = sess[q] /\ mem'[q] = mem[q]
          /\ told'[q] = told[q] /\ out'[q] = out[q] /\ saved'[q] = saved[q]
    BY <1>9, OthersStay
  <2>1. OneWindow'
    BY <1>9, <2>0, ContentFacts, WholeFacts DEF ChangeSetting, Goto, TypeOK, Launched,
       PrimaryRuns, Alone, Filed, Shown, OneWindow
  <2>2. SavingShown'
    BY <1>9, <2>0, ContentFacts, WholeFacts DEF ChangeSetting, Goto, TypeOK, Launched,
       PrimaryRuns, Alone, Filed, Shown, SavingShown, OneWindow
  <2>3. DiskIsSettled'
    BY <1>9, <2>0, ContentFacts, WholeFacts DEF ChangeSetting, Goto, TypeOK, Launched,
       PrimaryRuns, Alone, Filed, Shown, DiskIsSettled, SavingShown, OneWindow, Settled,
       OnDisk, Reads, LoadedCommitted, Loading
  <2> QED BY <2>1, <2>2, <2>3 DEF Shown
<1>10. ASSUME NEW p \in Procs, Crash(p) PROVE Shown'
  <2>0. \A q \in Procs \ {p} :
          /\ pc'[q] = pc[q] /\ sess'[q] = sess[q] /\ mem'[q] = mem[q]
          /\ told'[q] = told[q] /\ out'[q] = out[q] /\ saved'[q] = saved[q]
    BY <1>10, OthersStay
  <2>1. OneWindow'
    BY <1>10, <2>0, ContentFacts, WholeFacts DEF Crash, Goto, TypeOK, Launched,
       PrimaryRuns, Alone, Filed, Shown, OneWindow
  <2>2. SavingShown'
    BY <1>10, <2>0, ContentFacts, WholeFacts DEF Crash, Goto, TypeOK, Launched,
       PrimaryRuns, Alone, Filed, Shown, SavingShown, OneWindow
  <2>3. DiskIsSettled'
    BY <1>10, <2>0, ContentFacts, WholeFacts DEF Crash, Goto, TypeOK, Launched,
       PrimaryRuns, Alone, Filed, Shown, DiskIsSettled, SavingShown, OneWindow, Settled,
       OnDisk, Reads, LoadedCommitted, Loading
  <2> QED BY <2>1, <2>2, <2>3 DEF Shown
<1>11. CASE EditFile
  <2>1. \A q \in Procs : ~Settled(q)
    BY <1>11 DEF EditFile, Live, Settled
  <2>2. pc' = pc /\ primary' = primary /\ \A q \in Procs : pc[q] = "off"
    BY <1>11 DEF EditFile, Live
  <2>3. \A q \in Procs : ~Settled(q)'
    BY <2>1, <2>2 DEF Settled
  <2>4. primary' = None
    BY <2>2 DEF TypeOK, Launched, PrimaryRuns
  <2> QED BY <2>3, <2>4 DEF Shown, OneWindow, SavingShown, DiskIsSettled
<1>12. CASE UNCHANGED vars
  BY <1>12 DEF vars, Shown, OneWindow, SavingShown, DiskIsSettled, Settled, OnDisk, Reads
<1> QED
  BY <1>1, <1>2, <1>3, <1>4, <1>5, <1>6, <1>7, <1>8, <1>9, <1>10, <1>11, <1>12 DEF Next

-----------------------------------------------------------------------------
(* The theorems.                                                           *)

LEMMA InitIInv == Init => IInv
<1> SUFFICES ASSUME Init PROVE IInv
  OBVIOUS
<1>1. /\ 0 \in 0..MaxLaunches /\ 0 \in 0..MaxFailures /\ 0 \in 0..MaxEdits
      /\ Default \in Choices
  BY AppAssumption
<1>2. <<>> \in Seq(Choices) /\ file \in Contents /\ file.is = "absent"
  BY ContentFacts DEF Init
<1>3. TypeOK
  BY <1>1, <1>2 DEF Init, TypeOK, Steps, Sessions
<1>4. Launched
  BY DEF Init, Launched, PrimaryRuns, Numbered, Alone
<1>5. Recorded
  BY AppAssumption
     DEF Init, Recorded, MarkerMet, MarkerKept, MarkerTrue, CrashIsOnRecord, ReportsAreTrue,
         Recovered, Running
<1>6. Filed /\ Shown
  BY <1>2, AppAssumption
     DEF Init, Filed, FileCommitted, EmptyIsCut, LoadedCommitted, Loading, Shown, OneWindow,
         SavingShown, DiskIsSettled, Settled
<1> QED BY <1>3, <1>4, <1>5, <1>6 DEF IInv

\* The inductive invariant holds.
THEOREM InvariantHolds == Spec => []IInv
<1>1. IInv /\ [Next]_vars => IInv'
  BY TypeStep, LaunchedStep, RecordedStep, FiledStep, ShownStep DEF IInv
<1> QED BY InitIInv, <1>1, PTL DEF Spec

\* Every variable keeps its type, for any number of processes and launches.
THEOREM TypeCorrect == Spec => []TypeOK
<1>1. IInv => TypeOK
  BY DEF IInv
<1> QED BY <1>1, InvariantHolds, PTL

\* The session of every crash is named by the marker or by a report, whichever steps
\* of the recovery the next launches die in (diagnostics.rs 872-907, 1043-1071).
THEOREM CrashesRecorded == Spec => []CrashIsOnRecord
<1>1. IInv => CrashIsOnRecord
  BY DEF IInv, Recorded
<1> QED BY <1>1, InvariantHolds, PTL

\* No session that ended well is reported (mark_clean_shutdown).
THEOREM ReportsTrue == Spec => []ReportsAreTrue
<1>1. IInv => ReportsAreTrue
  BY DEF IInv, Recorded
<1> QED BY <1>1, InvariantHolds, PTL

\* An idle application has on disk what it shows (ui.rs persist_current_config
\* 504-538).
THEOREM DiskIsWindow == Spec => []DiskFollowsWindow
<1>1. IInv => DiskFollowsWindow
  <2> SUFFICES ASSUME IInv, NEW p \in Procs, primary = p, pc[p] = "up", sess[p] \notin mixed,
                      saved[p]
               PROVE  file.is \in {"whole", "empty"} /\ Reads(file) = windows[1]
    BY DEF DiskFollowsWindow
  <2>1. Settled(p)
    BY DEF Settled
  <2> QED BY <2>1 DEF IInv, Shown, DiskIsSettled, OnDisk
<1> QED BY <1>1, InvariantHolds, PTL

\* A launch restores the last choice, or says that it does not, unless a save was cut
\* short (persistence.rs 79-149, config.rs 57-97).
THEOREM LaunchLoadsCommitted == Spec => []LaunchRestores
<1>1. IInv => LaunchRestores
  <2> SUFFICES ASSUME IInv, NEW p \in Procs, pc[p] = "boot", sess[p] \notin mixed
               PROVE  mem[p] = committed \/ told[p] \/ cut
    BY DEF LaunchRestores
  <2>1. primary # p
    BY AppAssumption DEF IInv, TypeOK, Launched, PrimaryRuns
  <2>2. Loading(p)
    BY <2>1 DEF Loading
  <2> QED BY <2>2 DEF IInv, Filed, LoadedCommitted
<1> QED BY <1>1, InvariantHolds, PTL
===============================================================================
