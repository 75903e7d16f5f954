------------------------------ MODULE DeskProofs ------------------------------
(***************************************************************************)
(* The VS Code extension keeps its word; the archive of a simulator workspace  *)
(* opens again as what it was; and with the proofs of the other parts, every   *)
(* part of the desk keeps its types and its promises while all of them move.   *)
(***************************************************************************)
EXTENDS Desk, SimulatorProofs, SiteProofs, FiniteSetTheorems, SequenceTheorems, TLAPS

-----------------------------------------------------------------------------
(* The extension *)


Top       == Tops \cup {NoTop}
Run       == [id : Nat, file : Files, untitled : BOOLEAN, stage : {"saving", "starting", "running"}]
Picking   == [id : Nat, root : Roots, stage : {"tops", "pick"}, seen : [Roots -> Top], of : SUBSET Tops]
WaveFile  == [stamp : Nat, content : Nat]
Simulation == [id : Nat, folder : Folders, seen : [Waves -> WaveFile], wrote : SUBSET Waves]

RunTypes ==
  /\ active \in Files \cup {NoFile} /\ calls \in 0..MaxCalls
  /\ runs \subseteq Run /\ problems \in [Files -> SUBSET Errors] /\ reported \in [Files -> SUBSET Errors]
TopTypes ==
  /\ memory \in [Roots -> Top] /\ picks \subseteq Picking /\ answered \in Top \cup {"auto"}
SimTypes ==
  /\ disk \in [Folders -> [Waves -> WaveFile]] /\ clock \in Nat /\ sims \subseteq Simulation
  /\ opened.wave \in Waves \cup {NoFile}

\* What differs from the start of a simulation was written since it started.
ChangesAreWritten ==
  \A s \in sims : \A w \in Waves : disk[s.folder][w] # s.seen[w] => w \in s.wrote

-----------------------------------------------------------------------------
(* The linter's path *)

Shims  == {Shim(1), Shim(2)}
Users == {Unset, Empty, Own}
Ownership == [value : Shims, previous : {Unset, Empty}]

LinterTypes ==
  /\ setting \in Users \cup Shims /\ before \in Users /\ installed \in {1, 2} /\ torn \in BOOLEAN
  /\ owned \in Ownership \cup {NotOwned} /\ recording \subseteq Ownership \cup {NotOwned}

\* Between commands: what is set is the user's, or what this extension wrote
\* over it and remembers.
SettledIn ==
  recording = {} =>
    /\ setting \in {Unset, Empty} => setting = before
    /\ (owned # NotOwned /\ setting = owned.value) => owned.previous = before
\* Between the two writes of the only command: the setting is there already.
HalfWay(o) ==
  /\ recording = {o}
  /\ IF o = NotOwned THEN setting = before ELSE setting = o.value /\ o.previous = before
LinterInv == LinterTypes /\ (~torn => SettledIn /\ \A o \in recording : HalfWay(o))

EditorInv ==
  /\ RunTypes /\ TopTypes /\ SimTypes /\ ProblemsOfOneRun /\ ChangesAreWritten /\ OpenedIsNew
  /\ LinterInv

-----------------------------------------------------------------------------
LEMMA RootsAreFolders ==
  /\ \A d \in Folders : RootOf(d) \in Folders /\ RootOf(d) \in Roots
  /\ \A f \in Files : FolderOf[f] \in Folders
<1>1. \A d \in Folders : Up(d) \in Folders
  BY EditorAssumption DEF Up
<1>2. \A d \in Folders : RootOf(d) \in Folders
  BY <1>1 DEF RootOf
<1>3. QED
  BY <1>2, EditorAssumption DEF Roots

LEMMA PathsDiffer ==
  /\ Users \cap Shims = {} /\ Unset # Empty /\ Unset # Own /\ Empty # Own /\ NotOwned \notin Ownership
  /\ \A o \in Ownership : o.value \in Shims /\ o.previous \in {Unset, Empty}
  /\ NotOwned.value \notin Shims
<1>1. /\ Unset[1] = "unset" /\ Empty[1] = "" /\ Own[1] = "own"
      /\ Shim(1)[1] = "shim" /\ Shim(2)[1] = "shim"
  BY DEF Unset, Empty, Own, Shim
<1>2. Users \cap Shims = {} /\ Unset # Empty /\ Unset # Own /\ Empty # Own
  BY <1>1 DEF Users, Shims
<1>3. NotOwned.value = Unset
  BY DEF NotOwned
<1>4. NotOwned \notin Ownership
  BY <1>2, <1>3 DEF Ownership, Users
<1>5. QED
  BY <1>2, <1>3, <1>4 DEF Ownership, Users

-----------------------------------------------------------------------------
LEMMA InvHoldsFirst == EditorInit => EditorInv
<1> SUFFICES ASSUME EditorInit PROVE EditorInv
  OBVIOUS
<1>1. RunTypes /\ ProblemsOfOneRun
  <2>1. NoProblems \in [Files -> SUBSET Errors]
    BY DEF NoProblems
  <2>2. 0 \in 0..MaxCalls
    BY EditorAssumption
  <2>3. QED
    BY <2>1, <2>2 DEF EditorInit, RunTypes, ProblemsOfOneRun
<1>2. TopTypes
  BY DEF EditorInit, TopTypes, Top
<1>3. SimTypes /\ ChangesAreWritten /\ OpenedIsNew
  BY DEF EditorInit, SimTypes, ChangesAreWritten, OpenedIsNew, WaveFile
<1>4. LinterInv
  <2>1. LinterTypes
    BY DEF EditorInit, LinterTypes, Users
  <2>2. QED
    BY <2>1, PathsDiffer DEF EditorInit, LinterInv, SettledIn, HalfWay, Users
<1>5. QED
  BY <1>1, <1>2, <1>3, <1>4 DEF EditorInv

LEMMA CallCounts == ASSUME Call, RunTypes PROVE calls' \in 0..MaxCalls /\ calls \in Nat
BY EditorAssumption DEF Call, RunTypes

LEMMA RunStepKeeps ==
  ASSUME EditorInv, RunStep
  PROVE  RunTypes' /\ ProblemsOfOneRun'
<1>1. RunTypes /\ ProblemsOfOneRun
  BY DEF EditorInv
<1>2. CASE \E f \in Files \cup {NoFile} : f # active /\ Switch(f) /\ Call
  BY <1>1, <1>2, CallCounts DEF RunTypes, ProblemsOfOneRun, Switch
<1>3. ASSUME NEW unsaved \in BOOLEAN, NEW untitled \in BOOLEAN, PressRun(unsaved, untitled)
      PROVE  RunTypes' /\ ProblemsOfOneRun'
  <2> DEFINE new == [id |-> calls, file |-> active, untitled |-> untitled,
                     stage |-> IF unsaved \/ untitled THEN "saving" ELSE "starting"]
  <2>1. new \in Run
    BY <1>1, <1>3, CallCounts DEF PressRun, RunTypes, Run
  <2>2. runs' = runs \cup {new} /\ UNCHANGED <<active, problems, reported>> /\ Call
    BY <1>3 DEF PressRun
  <2> HIDE DEF new
  <2>3. QED
    BY <1>1, <2>1, <2>2, CallCounts DEF RunTypes, ProblemsOfOneRun, NoProblems
<1>4. ASSUME NEW r \in runs, NEW ok \in BOOLEAN, Saved(r, ok)
      PROVE  RunTypes' /\ ProblemsOfOneRun'
  <2> DEFINE file == IF r.untitled THEN active ELSE r.file
             new  == [r EXCEPT !.file = file, !.stage = "starting"]
  <2>1. file # NoFile => new \in Run
    BY <1>1 DEF RunTypes, Run
  <2>2. runs' \subseteq runs \cup (IF file # NoFile THEN {new} ELSE {})
    BY <1>4 DEF Saved
  <2>3. UNCHANGED <<active, problems, reported, calls>>
    BY <1>4 DEF Saved
  <2> HIDE DEF new, file
  <2>4. QED
    BY <1>1, <2>1, <2>2, <2>3 DEF RunTypes, ProblemsOfOneRun, NoProblems
<1>5. ASSUME NEW r \in runs, TerminalOpens(r)
      PROVE  RunTypes' /\ ProblemsOfOneRun'
  <2> DEFINE new == [r EXCEPT !.stage = "running"]
  <2>1. new \in Run
    BY <1>1 DEF RunTypes, Run
  <2>2. runs' \subseteq runs \cup {new} /\ problems' = NoProblems /\ UNCHANGED <<active, reported, calls>>
    BY <1>5 DEF TerminalOpens
  <2> HIDE DEF new
  <2>3. QED
    BY <1>1, <2>1, <2>2 DEF RunTypes, ProblemsOfOneRun, NoProblems
<1>6. ASSUME NEW r \in runs, NEW place \in Files, NEW es \in SUBSET Errors, Finished(r, place, es)
      PROVE  RunTypes' /\ ProblemsOfOneRun'
  <2>1. InFile(place, es) \in [Files -> SUBSET Errors]
    BY DEF InFile, NoProblems
  <2>2. /\ runs' \subseteq runs /\ problems' = InFile(place, es) /\ reported' = InFile(place, es)
        /\ UNCHANGED <<active, calls>>
    BY <1>6 DEF Finished, Publish
  <2>3. QED
    BY <1>1, <2>1, <2>2 DEF RunTypes, ProblemsOfOneRun
<1>7. QED
  BY <1>2, <1>3, <1>4, <1>5, <1>6 DEF RunStep

-----------------------------------------------------------------------------
LEMMA MemoryWriteKeeps ==
  ASSUME TopTypes, NEW seen \in [Roots -> Top], NEW root \in Roots, NEW top \in Top, Write(seen, root, top)
  PROVE  memory' \in [Roots -> Top]
BY DEF Write, TopTypes

LEMMA TopStepKeeps ==
  ASSUME EditorInv, TopStep
  PROVE  TopTypes' /\ calls' \in 0..MaxCalls
<1>1. RunTypes /\ TopTypes /\ NoTop \in Top /\ Tops \subseteq Top
  BY DEF EditorInv, Top
<1>2. ASSUME NEW f \in Files, PickTop(f)
      PROVE  TopTypes' /\ calls' \in 0..MaxCalls
  <2> DEFINE new == [id |-> calls, root |-> RootOf(FolderOf[f]), stage |-> "tops", seen |-> memory, of |-> {}]
  <2>1. new \in Picking
    BY <1>1, <1>2, CallCounts, RootsAreFolders DEF PickTop, TopTypes, Picking
  <2>2. picks' = picks \cup {new} /\ UNCHANGED <<memory, answered>> /\ Call
    BY <1>2 DEF PickTop
  <2> HIDE DEF new
  <2>3. QED
    BY <1>1, <2>1, <2>2, CallCounts DEF TopTypes
<1>3. ASSUME NEW f \in Files, ForgetTop(f)
      PROVE  TopTypes' /\ calls' \in 0..MaxCalls
  <2>1. memory' \in [Roots -> Top]
    BY <1>1, <1>3, MemoryWriteKeeps, RootsAreFolders DEF ForgetTop, TopTypes
  <2>2. QED
    BY <1>1, <1>3, <2>1, CallCounts DEF ForgetTop, TopTypes
<1>4. ASSUME NEW p \in picks, TopsFail(p) \/ Escape(p) \/ \E top \in Tops : Pick(p, top)
      PROVE  TopTypes' /\ calls' \in 0..MaxCalls
  <2>1. p.root \in Roots /\ p.seen \in [Roots -> Top]
    BY <1>1 DEF TopTypes, Picking
  <2>2. memory' \in [Roots -> Top]
    BY <1>1, <1>4, <2>1, MemoryWriteKeeps DEF TopsFail, Escape, Pick, TopTypes
  <2>3. picks' \subseteq picks /\ answered' \in Top \cup {"auto"} /\ calls' = calls
    BY <1>1, <1>4 DEF TopsFail, Escape, Pick
  <2>4. QED
    BY <1>1, <2>2, <2>3 DEF TopTypes, RunTypes
<1>5. ASSUME NEW p \in picks, NEW of \in SUBSET Tops, TopsAnswer(p, of)
      PROVE  TopTypes' /\ calls' \in 0..MaxCalls
  <2> DEFINE new == [p EXCEPT !.stage = "pick", !.seen = memory, !.of = of]
  <2>1. new \in Picking /\ p.root \in Roots
    BY <1>1 DEF TopTypes, Picking
  <2>2. calls' = calls /\ answered' \in Top \cup {"auto"} /\ picks' \subseteq picks \cup {new}
    BY <1>1, <1>5 DEF TopsAnswer, TopTypes
  <2>3. memory' \in [Roots -> Top]
    BY <1>1, <1>5, <2>1, MemoryWriteKeeps DEF TopsAnswer, TopTypes
  <2> HIDE DEF new
  <2>4. QED
    BY <1>1, <2>1, <2>2, <2>3 DEF TopTypes, RunTypes
<1>6. QED
  BY <1>2, <1>3, <1>4, <1>5 DEF TopStep

-----------------------------------------------------------------------------
LEMMA LinterStepKeeps ==
  ASSUME EditorInv, LinterStep
  PROVE  LinterInv' /\ calls' \in 0..MaxCalls
<1>1. RunTypes /\ LinterInv /\ LinterTypes
  BY DEF EditorInv, LinterInv
<1>2. ASSUME SetupLinter, calls' \in 0..MaxCalls
      PROVE  LinterInv' /\ calls' \in 0..MaxCalls
  <2> DEFINE new == [value |-> Shim(installed), previous |-> Plan.previous]
  <2>1. /\ Plan.previous \in {Unset, Empty}
        /\ \/ owned # NotOwned /\ setting = owned.value /\ Plan.previous = owned.previous
           \/ setting \in {Unset, Empty} /\ Plan.previous = setting
    BY <1>1, <1>2, PathsDiffer DEF SetupLinter, Plan, LinterTypes
  <2>2. new \in Ownership /\ Shim(installed) \in Shims
    BY <1>1, <2>1 DEF LinterTypes, Ownership, Shims
  <2>3. /\ setting' = Shim(installed) /\ recording' = recording \cup {new} /\ torn' = (torn \/ recording # {})
        /\ UNCHANGED <<owned, installed, before>> /\ new.value = Shim(installed) /\ new.previous = Plan.previous
    BY <1>2 DEF SetupLinter
  <2> HIDE DEF new
  <2>4. LinterTypes'
    BY <1>1, <2>2, <2>3 DEF LinterTypes
  <2>5. ASSUME ~torn'
        PROVE  recording = {} /\ Plan.previous = before
    BY <1>1, <2>1, <2>3, <2>5 DEF LinterInv, SettledIn, LinterTypes
  <2>6. ASSUME ~torn'
        PROVE  SettledIn' /\ \A o \in recording' : HalfWay(o)'
    BY <2>2, <2>3, <2>5, <2>6, PathsDiffer DEF SettledIn, HalfWay
  <2>7. QED
    BY <1>2, <2>4, <2>6 DEF LinterInv
<1>3. ASSUME RemoveLinter
      PROVE  LinterInv' /\ calls' \in 0..MaxCalls
  <2>1. LinterTypes'
    BY <1>1, <1>3, PathsDiffer DEF RemoveLinter, LinterTypes, Ownership, Users
  <2>2. ASSUME ~torn'
        PROVE  SettledIn' /\ \A o \in recording' : HalfWay(o)'
    BY <1>1, <1>3, <2>2, PathsDiffer DEF RemoveLinter, LinterInv, LinterTypes, SettledIn, HalfWay
  <2>3. QED
    BY <1>1, <1>3, <2>1, <2>2, CallCounts DEF RemoveLinter, LinterInv
<1>4. ASSUME NEW o \in recording, Recorded(o)
      PROVE  LinterInv' /\ calls' \in 0..MaxCalls
  <2>1. LinterTypes' /\ calls' = calls /\ UNCHANGED <<setting, before, torn>>
    BY <1>1, <1>4 DEF Recorded, LinterTypes
  <2>2. ASSUME ~torn'
        PROVE  SettledIn' /\ recording' = {}
    <3>1. recording' = {} /\ owned' = o /\ HalfWay(o)
      BY <1>1, <1>4, <2>1, <2>2 DEF Recorded, LinterInv, HalfWay
    <3>2. CASE o = NotOwned
      BY <2>1, <3>1, <3>2 DEF HalfWay, SettledIn
    <3>3. CASE o # NotOwned
      <4>1. o.value \in Shims /\ setting = o.value /\ o.previous = before
        BY <1>1, <3>1, <3>3, PathsDiffer DEF HalfWay, LinterTypes
      <4>2. QED
        BY <2>1, <3>1, <4>1, PathsDiffer DEF SettledIn, Users
    <3>4. QED
      BY <3>1, <3>2, <3>3
  <2>3. QED
    BY <1>1, <2>1, <2>2 DEF LinterInv, RunTypes
<1>5. ASSUME WindowCloses
      PROVE  LinterInv' /\ calls' \in 0..MaxCalls
  BY <1>1, <1>5 DEF WindowCloses, LinterInv, LinterTypes, RunTypes
<1>6. ASSUME Upgrade
      PROVE  LinterInv' /\ calls' \in 0..MaxCalls
  BY <1>1, <1>6 DEF Upgrade, LinterInv, LinterTypes, RunTypes, SettledIn, HalfWay
<1>7. ASSUME UNCHANGED <<setting, owned, installed, recording, before, torn>>, calls' \in 0..MaxCalls
      PROVE  LinterInv' /\ calls' \in 0..MaxCalls
  BY <1>1, <1>7 DEF LinterInv, LinterTypes, SettledIn, HalfWay
<1>8. ASSUME NEW v \in {Unset, Empty, Own}, UserSets(v)
      PROVE  LinterInv' /\ calls' \in 0..MaxCalls
  <2>1. LinterTypes' /\ recording' = {} /\ setting' \notin Shims /\ setting' = before'
    BY <1>1, <1>8, PathsDiffer DEF UserSets, LinterTypes, Users
  <2>2. SettledIn'
    BY <2>1, PathsDiffer DEF SettledIn, LinterTypes
  <2>3. QED
    BY <1>1, <1>8, <2>1, <2>2, CallCounts DEF UserSets, LinterInv
<1>9. QED
  <2>1. CASE Call /\ SetupLinter
    BY <1>1, <1>2, <2>1, CallCounts
  <2>2. ASSUME OfferLinter
        PROVE  LinterInv' /\ calls' \in 0..MaxCalls
    BY <1>1, <1>7, <2>2, CallCounts DEF OfferLinter
  <2>3. ASSUME NEW answer \in {"Set up", "Not now", "closed"}, AnswerLinter(answer)
        PROVE  LinterInv' /\ calls' \in 0..MaxCalls
    BY <1>1, <1>2, <1>7, <2>3 DEF AnswerLinter, RunTypes
  <2>4. QED
    BY <1>3, <1>4, <1>5, <1>6, <1>8, <2>1, <2>2, <2>3 DEF LinterStep

-----------------------------------------------------------------------------
LEMMA SimStepKeeps ==
  ASSUME EditorInv, SimStep
  PROVE  SimTypes' /\ ChangesAreWritten' /\ OpenedIsNew' /\ calls' \in 0..MaxCalls /\ active' \in Files \cup {NoFile}
<1>1. /\ RunTypes /\ SimTypes /\ ChangesAreWritten /\ OpenedIsNew
      /\ active \in Files \cup {NoFile} /\ calls \in 0..MaxCalls
  BY DEF EditorInv, RunTypes
<1> DEFINE OffersKept == SimTypes' /\ ChangesAreWritten' /\ OpenedIsNew'
<1>2. ASSUME NEW kind \in {"cli", "make"}, SimStarts(kind)
      PROVE  OffersKept /\ active' = active /\ Call
  <2> DEFINE folder == SimFolder(active, kind)
             new == [id |-> calls, folder |-> folder, seen |-> disk[folder], wrote |-> {}]
  <2>1. folder \in Folders
    BY <1>1, <1>2, RootsAreFolders DEF SimStarts, SimFolder
  <2>2. new \in Simulation /\ new.folder = folder /\ new.seen = disk[folder]
    BY <1>1, <1>2, <2>1, CallCounts DEF SimStarts, SimTypes, Simulation
  <2>3. sims' = sims \cup {new} /\ UNCHANGED <<active, disk, clock, opened>> /\ Call
    BY <1>2 DEF SimStarts
  <2> HIDE DEF new, folder
  <2>4. SimTypes' /\ OpenedIsNew'
    BY <1>1, <2>2, <2>3 DEF SimTypes, OpenedIsNew
  <2>5. ChangesAreWritten'
    BY <1>1, <2>2, <2>3 DEF ChangesAreWritten
  <2>6. QED
    BY <2>3, <2>4, <2>5
<1>3. ASSUME NEW s \in sims, NEW w \in Waves, NEW content \in 1..2, SimWrites(s, w, content)
      PROVE  OffersKept /\ active' = active /\ Call
  <2> DEFINE file == [stamp |-> clock, content |-> content]
             After(q) == [q EXCEPT !.wrote = IF q.folder = s.folder /\ file # disk[s.folder][w] THEN q.wrote \cup {w} ELSE q.wrote]
  <2>1. file \in WaveFile /\ s \in Simulation /\ s.folder \in Folders
    BY <1>1 DEF SimTypes, Simulation, WaveFile
  <2>2. /\ disk' = [disk EXCEPT ![s.folder][w] = file] /\ sims' = {After(q) : q \in sims}
        /\ UNCHANGED <<active, clock, opened>> /\ Call
    BY <1>3 DEF SimWrites
  <2>3. /\ disk' \in [Folders -> [Waves -> WaveFile]]
        /\ \A d \in Folders : \A u \in Waves :
             disk'[d][u] = IF d = s.folder /\ u = w THEN file ELSE disk[d][u]
    <3> HIDE DEF file
    <3>1. QED
      BY <1>1, <2>1, <2>2 DEF SimTypes
  <2>4. \A q \in sims : /\ After(q) \in Simulation /\ After(q).folder = q.folder /\ After(q).seen = q.seen
                        /\ q.wrote \subseteq After(q).wrote
                        /\ q.folder = s.folder /\ file # disk[s.folder][w] => w \in After(q).wrote
    <3> HIDE DEF file
    <3>1. QED
      BY <1>1 DEF SimTypes, Simulation
  <2> HIDE DEF After, file
  <2>5. SimTypes' /\ OpenedIsNew'
    BY <1>1, <2>2, <2>3, <2>4 DEF SimTypes, OpenedIsNew
  <2>6. ASSUME NEW t \in sims', NEW u \in Waves, disk'[t.folder][u] # t.seen[u]
        PROVE  u \in t.wrote
    <3>1. PICK q \in sims : t = After(q)
      BY <2>2
    <3>2. q.folder \in Folders /\ t.folder = q.folder /\ t.seen = q.seen
      BY <1>1, <2>4, <3>1 DEF SimTypes, Simulation
    <3>3. CASE disk'[q.folder][u] = disk[q.folder][u]
      BY <1>1, <2>4, <2>6, <3>1, <3>2, <3>3 DEF ChangesAreWritten
    <3>4. CASE disk'[q.folder][u] # disk[q.folder][u]
      BY <2>3, <2>4, <3>1, <3>2, <3>4
    <3>5. QED
      BY <3>3, <3>4
  <2>7. ChangesAreWritten'
    BY <2>6 DEF ChangesAreWritten
  <2>8. QED
    BY <2>2, <2>5, <2>7
<1>4. ASSUME NEW s \in sims, NEW ok \in BOOLEAN, SimEnds(s, ok)
      PROVE  OffersKept /\ active' = active /\ calls' = calls
  <2>1. /\ sims' \subseteq sims /\ UNCHANGED <<active, disk, clock, calls>>
        /\ \/ opened' = [sim |-> s, wave |-> NoFile]
           \/ \E w \in Fresh(s) : opened' = [sim |-> s, wave |-> w]
    BY <1>4 DEF SimEnds
  <2>2. \A w \in Fresh(s) : w \in Waves /\ w \in s.wrote
    BY <1>1 DEF Fresh, ChangesAreWritten
  <2>3. QED
    BY <1>1, <2>1, <2>2 DEF SimTypes, ChangesAreWritten, OpenedIsNew
<1>5. ASSUME UNCHANGED <<disk, sims, opened>>, clock' \in Nat
      PROVE  OffersKept
  BY <1>1, <1>5 DEF SimTypes, ChangesAreWritten, OpenedIsNew
<1>6. QED
  <2>1. CASE \E f \in Files \cup {NoFile} : f # active /\ SimSwitch(f)
    <3>1. UNCHANGED <<disk, sims, opened, clock>> /\ Call /\ active' \in Files \cup {NoFile}
      BY <2>1 DEF SimSwitch, simVars
    <3>2. QED
      BY <1>1, <1>5, <3>1, CallCounts DEF SimTypes
  <2>2. CASE DiskTick
    <3>1. UNCHANGED <<disk, sims, opened, calls, active>> /\ clock' \in Nat
      BY <1>1, <2>2 DEF DiskTick, SimTypes
    <3>2. QED
      BY <1>1, <1>5, <3>1
  <2>3. QED
    BY <1>1, <1>2, <1>3, <1>4, <2>1, <2>2, CallCounts DEF SimStep

-----------------------------------------------------------------------------
LEMMA InvStaysInductive == EditorInv /\ [EditorNext]_editorVars => EditorInv'
<1> SUFFICES ASSUME EditorInv, [EditorNext]_editorVars PROVE EditorInv'
  OBVIOUS
<1>1. ASSUME UNCHANGED runVars, calls' \in 0..MaxCalls PROVE RunTypes' /\ ProblemsOfOneRun'
  BY <1>1 DEF EditorInv, RunTypes, ProblemsOfOneRun, runVars
<1>2. ASSUME UNCHANGED <<runs, problems, reported>>, calls' \in 0..MaxCalls, active' \in Files \cup {NoFile}
      PROVE  RunTypes' /\ ProblemsOfOneRun'
  BY <1>2 DEF EditorInv, RunTypes, ProblemsOfOneRun
<1>3. ASSUME UNCHANGED topVars PROVE TopTypes'
  BY <1>3 DEF EditorInv, TopTypes, topVars
<1>4. ASSUME UNCHANGED linterVars PROVE LinterInv'
  BY <1>4 DEF EditorInv, LinterInv, LinterTypes, SettledIn, HalfWay, linterVars
<1>5. ASSUME UNCHANGED simVars PROVE SimTypes' /\ ChangesAreWritten' /\ OpenedIsNew'
  BY <1>5 DEF EditorInv, SimTypes, ChangesAreWritten, OpenedIsNew, simVars
<1>6. CASE RunStep
  BY <1>3, <1>4, <1>5, <1>6, RunStepKeeps DEF RunStep, EditorInv
<1>7. CASE TopStep
  BY <1>1, <1>4, <1>5, <1>7, TopStepKeeps DEF TopStep, EditorInv
<1>8. CASE LinterStep
  BY <1>1, <1>3, <1>5, <1>8, LinterStepKeeps DEF LinterStep, EditorInv
<1>9. CASE SimStep
  BY <1>2, <1>3, <1>4, <1>9, SimStepKeeps DEF SimStep, EditorInv
<1>10. CASE DesignStep
  <2>1. calls' \in 0..MaxCalls
    BY <1>10, CallCounts
    DEF DesignStep, OfferStarter, PressNewDesign, AnswerStarter, UserWrites, UserDeletes, EditorInv, RunTypes
  <2>2. QED
    BY <1>1, <1>3, <1>4, <1>5, <1>10, <2>1 DEF DesignStep, EditorInv
<1>11. CASE UNCHANGED editorVars
  BY <1>1, <1>3, <1>4, <1>5, <1>11 DEF editorVars, EditorInv, RunTypes
<1>12. QED
  BY <1>6, <1>7, <1>8, <1>9, <1>10, <1>11 DEF EditorNext

(* The invariant that carries both results below: a wave that a run has not  *)
(* seen is one it wrote, and a linter command is settled or half way.         *)
THEOREM EditorInvHolds == EditorSpec => []EditorInv
<1>1. EditorInit => EditorInv
  BY InvHoldsFirst
<1>2. EditorInv /\ [EditorNext]_editorVars => EditorInv'
  BY InvStaysInductive
<1>3. QED
  BY <1>1, <1>2, PTL DEF EditorSpec

(* Whatever the commands, answers and files, the extension's state is what its *)
(* code can have written: memory, problems and the owner of the linter's path. *)
THEOREM EditorTypeCorrect == EditorSpec => []EditorTypeOK
<1>1. EditorInv => EditorTypeOK
  <2> SUFFICES ASSUME EditorInv PROVE EditorTypeOK
    OBVIOUS
  <2>1. RunTypes /\ TopTypes /\ SimTypes /\ LinterTypes
    BY DEF EditorInv, LinterInv
  <2>2. \A r \in runs : r.stage \in {"saving", "starting", "running"} /\ r.file \in Files
    BY <2>1 DEF RunTypes, Run
  <2>3. {setting, before, owned.value, owned.previous} \subseteq {Unset, Empty, Own, Shim(1), Shim(2)}
    BY <2>1 DEF LinterTypes, Users, Shims, Ownership, NotOwned
  <2>4. QED
    BY <2>1, <2>2, <2>3 DEF EditorTypeOK, RunTypes, TopTypes, SimTypes, Top
<1>2. QED
  BY <1>1, EditorInvHolds, PTL

(* No error of an earlier run stays beside those of the last, no waveform is     *)
(* opened that was not written since its own simulation started in the folder it *)
(* ran in, and what stopping the linter would put back is what the user had:    *)
(* however many runs, simulations and commands overlap (extension.js).           *)
THEOREM EditorKeepsItsWordHolds == EditorSpec => []EditorKeepsItsWord
<1>1. EditorInv => EditorKeepsItsWord
  <2> SUFFICES ASSUME EditorInv PROVE EditorKeepsItsWord
    OBVIOUS
  <2>1. PreviousIsUsers
    BY PathsDiffer DEF EditorInv, LinterInv, LinterTypes, SettledIn, PreviousIsUsers
  <2>2. QED
    BY <2>1 DEF EditorInv, EditorKeepsItsWord
<1>2. QED
  BY <1>1, EditorInvHolds, PTL

-----------------------------------------------------------------------------
(* The project.  Two lists of records mean the same when they hold the same files
   with the same contents and agree on which of them are for the board: first what
   a resolution finds in terms of the definitions' places, then what an import
   takes, then the archive with a project file and the one without. *)

-----------------------------------------------------------------------------
(* The definitions in the files *)

Workable(fs) == fs \in Seq(Records) /\ Apart(fs)
Module == [name : ModuleNames, tb : BOOLEAN, uses : SUBSET ModuleNames]

LEMMA RecordFacts ==
  ASSUME NEW fs, Workable(fs)
  PROVE  /\ Len(fs) \in Nat /\ DOMAIN fs = 1..Len(fs)
         /\ \A i \in DOMAIN fs : /\ fs[i] \in Records /\ fs[i].path \in Names /\ fs[i].usage \in Usages
                                 /\ fs[i].mods \in Seq(Module) /\ DOMAIN fs[i].mods \subseteq Nat
                                 /\ \A j \in DOMAIN fs[i].mods : fs[i].mods[j] \in Module
<1>1. Len(fs) \in Nat /\ DOMAIN fs = 1..Len(fs) /\ \A i \in DOMAIN fs : fs[i] \in Records
  BY LenProperties, ElementOfSeq DEF Workable
<1>2. \A x \in Contents \cup {<<>>} : x \in Seq(Module)
  BY ProjectAssumption, EmptySeq DEF Module
<1>3. \A x \in Seq(Module) : DOMAIN x = 1..Len(x) /\ Len(x) \in Nat /\ \A j \in 1..Len(x) : x[j] \in Module
  BY LenProperties, ElementOfSeq
<1>4. ASSUME NEW f \in Records
      PROVE  /\ f.path \in Names /\ f.usage \in Usages /\ f.mods \in Seq(Module) /\ DOMAIN f.mods \subseteq Nat
             /\ \A j \in DOMAIN f.mods : f.mods[j] \in Module
  <2>1. f.path \in Names /\ f.usage \in Usages /\ f.mods \in Contents \cup {<<>>}
    BY DEF Records
  <2>2. f.mods \in Seq(Module)
    BY <1>2, <2>1
  <2>3. DOMAIN f.mods = 1..Len(f.mods) /\ Len(f.mods) \in Nat /\ \A j \in 1..Len(f.mods) : f.mods[j] \in Module
    BY <1>3, <2>2
  <2>4. QED
    BY <2>1, <2>2, <2>3
<1>5. QED
  BY <1>1, <1>4

\* A module and what is said of it.
LEMMA ModuleFacts == ASSUME NEW m \in Module PROVE m.name \in ModuleNames /\ m.tb \in BOOLEAN /\ m.uses \subseteq ModuleNames
BY DEF Module

Everywhere(fs) == Definitions(fs, DOMAIN fs)

LEMMA DefinitionIs ==
  ASSUME NEW fs, NEW here, NEW a
  PROVE  a \in Definitions(fs, here) <=>
           /\ a = <<a[1], a[2]>> /\ a[1] \in here /\ IsSource(fs[a[1]]) /\ a[2] \in DOMAIN fs[a[1]].mods
<1>1. ASSUME a \in Definitions(fs, here)
      PROVE  a = <<a[1], a[2]>> /\ a[1] \in here /\ IsSource(fs[a[1]]) /\ a[2] \in DOMAIN fs[a[1]].mods
  <2>1. PICK i \in {k \in here : IsSource(fs[k])} : a \in {i} \X DOMAIN fs[i].mods
    BY <1>1 DEF Definitions
  <2>2. a = <<a[1], a[2]>> /\ a[1] = i /\ a[2] \in DOMAIN fs[i].mods
    BY <2>1
  <2>3. QED
    BY <2>1, <2>2
<1>2. ASSUME a = <<a[1], a[2]>>, a[1] \in here, IsSource(fs[a[1]]), a[2] \in DOMAIN fs[a[1]].mods
      PROVE  a \in Definitions(fs, here)
  <2>1. a \in {a[1]} \X DOMAIN fs[a[1]].mods
    BY <1>2
  <2>2. a[1] \in {k \in here : IsSource(fs[k])}
    BY <1>2
  <2>3. QED
    BY <2>1, <2>2 DEF Definitions
<1>3. QED
  BY <1>1, <1>2

LEMMA DefinitionFacts ==
  ASSUME NEW fs, Workable(fs), NEW a \in Everywhere(fs)
  PROVE  /\ a = <<a[1], a[2]>> /\ a[1] \in DOMAIN fs /\ a[1] \in Nat /\ a[2] \in Nat
         /\ IsSource(fs[a[1]]) /\ a[2] \in DOMAIN fs[a[1]].mods
         /\ ModAt(fs, a) \in Module /\ ModAt(fs, a).name \in ModuleNames /\ ModAt(fs, a).tb \in BOOLEAN
<1>1. a = <<a[1], a[2]>> /\ a[1] \in DOMAIN fs /\ IsSource(fs[a[1]]) /\ a[2] \in DOMAIN fs[a[1]].mods
  BY DefinitionIs DEF Everywhere
<1>2. a[1] \in Nat /\ a[2] \in Nat /\ fs[a[1]].mods[a[2]] \in Module
  BY <1>1, RecordFacts
<1>3. QED
  BY <1>1, <1>2, ModuleFacts DEF ModAt

LEMMA Narrower == ASSUME NEW fs, NEW here \in SUBSET DOMAIN fs PROVE Definitions(fs, here) \subseteq Everywhere(fs)
<1>1. ASSUME NEW a \in Definitions(fs, here) PROVE a \in Everywhere(fs)
  <2>1. a = <<a[1], a[2]>> /\ a[1] \in here /\ IsSource(fs[a[1]]) /\ a[2] \in DOMAIN fs[a[1]].mods
    BY DefinitionIs
  <2>2. QED
    BY <2>1, DefinitionIs DEF Everywhere
<1>2. QED
  BY <1>1

\* Two places are one, or one comes before the other.
LEMMA BeforeOrders ==
  ASSUME NEW a, NEW b, a = <<a[1], a[2]>>, b = <<b[1], b[2]>>, a[1] \in Nat, a[2] \in Nat, b[1] \in Nat, b[2] \in Nat
  PROVE  (a = b \/ Before(a, b) \/ Before(b, a)) /\ ~Before(a, a)
<1>1. a[1] = b[1] /\ a[2] = b[2] => a = b
  OBVIOUS
<1>2. QED
  BY <1>1 DEF Before

\* No module of the files at `here` is defined twice.
Once(fs, here) == \A a, b \in Definitions(fs, here) : ModAt(fs, a).name = ModAt(fs, b).name => a = b

LEMMA OnceKeepsAll ==
  ASSUME NEW fs, Workable(fs), NEW here \in SUBSET DOMAIN fs
  PROVE  Firsts(fs, Definitions(fs, here)) = Definitions(fs, here) <=> Once(fs, here)
<1> DEFINE all == Definitions(fs, here)
<1>1. \A a \in all : a = <<a[1], a[2]>> /\ a[1] \in Nat /\ a[2] \in Nat
  BY Narrower, DefinitionFacts
<1>2. \A a, b \in all : (a = b \/ Before(a, b) \/ Before(b, a)) /\ ~Before(a, a)
  BY <1>1, BeforeOrders
<1> HIDE DEF all
<1>3. Firsts(fs, all) = all <=> \A a, b \in all : Before(b, a) => ModAt(fs, b).name # ModAt(fs, a).name
  BY DEF Firsts
<1>4. (\A a, b \in all : Before(b, a) => ModAt(fs, b).name # ModAt(fs, a).name)
        <=> \A a, b \in all : ModAt(fs, a).name = ModAt(fs, b).name => a = b
  BY <1>2
<1>5. QED
  BY <1>3, <1>4 DEF Once, all

LEMMA OnceNarrower ==
  ASSUME NEW fs, NEW here \in SUBSET DOMAIN fs, Once(fs, DOMAIN fs)
  PROVE  Once(fs, here)
BY Narrower DEF Once, Everywhere

LEMMA ParsesOnce ==
  ASSUME NEW fs, Workable(fs), NEW here \in SUBSET DOMAIN fs, Once(fs, DOMAIN fs)
  PROVE  ~ParseModules(fs, here).twice /\ ParseModules(fs, here).mods = Kept(fs, Definitions(fs, here))
<1>1. Firsts(fs, Definitions(fs, here)) = Definitions(fs, here)
  BY OnceNarrower, OnceKeepsAll
<1>2. QED
  BY <1>1 DEF ParseModules

LEMMA NotTwiceIsOnce ==
  ASSUME NEW fs, Workable(fs), ~ParseModules(fs, DOMAIN fs).twice
  PROVE  Once(fs, DOMAIN fs)
<1>1. Firsts(fs, Definitions(fs, DOMAIN fs)) = Definitions(fs, DOMAIN fs)
  BY DEF ParseModules
<1>2. QED
  BY <1>1, OnceKeepsAll

\* What is kept of a definition.
NamesAt(fs, all) == {ModAt(fs, b).name : b \in all}
KeptOf(fs, all, a) ==
  [name |-> ModAt(fs, a).name, tb |-> ModAt(fs, a).tb, file |-> fs[a[1]].path, at |-> a,
   uses |-> (ModAt(fs, a).uses \cap NamesAt(fs, all)) \ {ModAt(fs, a).name}]
LEMMA KeptIs == ASSUME NEW fs, NEW all PROVE Kept(fs, all) = {KeptOf(fs, all, a) : a \in all}
BY DEF Kept, KeptOf, NamesAt

LEMMA KeptFields ==
  ASSUME NEW fs, NEW all, NEW a
  PROVE  /\ KeptOf(fs, all, a).name = ModAt(fs, a).name /\ KeptOf(fs, all, a).tb = ModAt(fs, a).tb
         /\ KeptOf(fs, all, a).file = fs[a[1]].path /\ KeptOf(fs, all, a).at = a
         /\ KeptOf(fs, all, a).uses = (ModAt(fs, a).uses \cap NamesAt(fs, all)) \ {ModAt(fs, a).name}
BY DEF KeptOf

-----------------------------------------------------------------------------
(* What a resolution finds *)

DesignPlaces(fs) == {i \in DOMAIN fs : InDesign(fs[i])}
DesignFound(fs)  == {m \in Kept(fs, Definitions(fs, DesignPlaces(fs))) : ~m.tb}
BenchesOf(fs) == {m \in Kept(fs, Everywhere(fs)) : m.tb /\ InSim(fs[m.at[1]])}
TopIn(fs, prefer) ==
  IF DesignFound(fs) = {} THEN NoName ELSE TopOf(DesignFound(fs), RootsOf(DesignFound(fs)), XdcsOf(fs), prefer)

LEMMA ResolvesOnce ==
  ASSUME NEW fs, Workable(fs), Once(fs, DOMAIN fs), NEW prefer
  PROVE  Resolve(fs, prefer)
           = ResolvedTo(DesignFound(fs), BenchesOf(fs), TopIn(fs, prefer), FALSE, XdcsOf(fs), prefer)
<1> DEFINE all == ParseModules(fs, DOMAIN fs)
           ofBoard == ParseModules(fs, DesignPlaces(fs))
<1>1. ~all.twice /\ all.mods = Kept(fs, Everywhere(fs))
  BY ParsesOnce DEF Everywhere
<1>2. ~ofBoard.twice /\ ofBoard.mods = Kept(fs, Definitions(fs, DesignPlaces(fs)))
  <2>1. DesignPlaces(fs) \in SUBSET DOMAIN fs
    BY DEF DesignPlaces
  <2>2. QED
    BY <2>1, ParsesOnce
<1>3. all.twice = FALSE
  BY <1>1 DEF ParseModules
<1> DEFINE design == {m \in ofBoard.mods : ~m.tb}
           tbs == {m \in all.mods : m.tb /\ InSim(fs[m.at[1]])}
           top == IF ofBoard.twice \/ design = {} THEN NoName ELSE TopOf(design, RootsOf(design), XdcsOf(fs), prefer)
<1>4. Resolve(fs, prefer) = ResolvedTo(design, tbs, top, all.twice, XdcsOf(fs), prefer)
  BY DEF Resolve, DesignPlaces
<1> HIDE DEF all, ofBoard
<1>5. design = DesignFound(fs) /\ tbs = BenchesOf(fs)
  BY <1>1, <1>2 DEF DesignFound, BenchesOf
<1>6. top = TopIn(fs, prefer)
  BY <1>2, <1>5 DEF TopIn
<1> HIDE DEF design, tbs, top
<1>7. QED
  BY <1>3, <1>4, <1>5, <1>6

LEMMA ResolvedFields ==
  ASSUME NEW design, NEW tbs, NEW top, NEW twice, NEW xdcs, NEW prefer
  PROVE  LET r == ResolvedTo(design, tbs, top, twice, xdcs, prefer) IN
         /\ r.error = (top = NoName) /\ r.roots = RootsOf(design) /\ r.tbs = {m.name : m \in tbs} /\ r.top = top
         /\ r.tbError = (twice \/ (prefer.project /\ prefer.tb # NoName /\ prefer.tb \notin {m.name : m \in tbs}))
         /\ top # NoName => /\ r.topFile = (CHOOSE m \in design : m.name = top).file
                            /\ r.tb = BenchOf(tbs, top, prefer) /\ r.xdc = PinsOf(xdcs, top, prefer)
BY DEF ResolvedTo

LEMMA SettledIsOnce ==
  ASSUME NEW fs, Workable(fs), NEW prefer, ~Resolve(fs, prefer).tbError
  PROVE  Once(fs, DOMAIN fs)
<1> DEFINE all == ParseModules(fs, DOMAIN fs)
           ofBoard == ParseModules(fs, {i \in DOMAIN fs : InDesign(fs[i])})
           design == {m \in ofBoard.mods : ~m.tb}
           tbs == {m \in all.mods : m.tb /\ InSim(fs[m.at[1]])}
           top == IF ofBoard.twice \/ design = {} THEN NoName ELSE TopOf(design, RootsOf(design), XdcsOf(fs), prefer)
<1>1. Resolve(fs, prefer) = ResolvedTo(design, tbs, top, all.twice, XdcsOf(fs), prefer)
  BY DEF Resolve
<1> HIDE DEF design, tbs, top
<1>4. all.twice \in BOOLEAN
  BY DEF ParseModules
<1> DEFINE w == all.twice
           r == ResolvedTo(design, tbs, top, w, XdcsOf(fs), prefer)
           z == prefer.project /\ prefer.tb # NoName /\ prefer.tb \notin {m.name : m \in tbs}
<1> HIDE DEF all
<1>5. r.tbError = (w \/ z)
  BY DEF ResolvedTo
<1>6. ~r.tbError
  BY <1>1
<1>2. ~all.twice
  <2>1. w \in BOOLEAN
    BY <1>4
  <2> HIDE DEF r, z, w
  <2>2. ~(w \/ z)
    BY <1>5, <1>6
  <2>3. ~w
    BY <2>2
  <2>4. QED
    BY <2>3 DEF w
<1>3. QED
  BY <1>2, NotTwiceIsOnce DEF all

\* A file a run on the board compiles: one of the design with something for the board or
\* with nothing in it.
ForBoard(f) ==
  /\ IsSource(f) /\ InDesign(f)
  /\ (DOMAIN f.mods = {} \/ \E j \in DOMAIN f.mods : ~f.mods[j].tb)

LEMMA OnlyBenchIs ==
  ASSUME NEW fs, Workable(fs), Once(fs, DOMAIN fs), NEW i \in DOMAIN fs, IsSource(fs[i])
  PROVE  OnlyBench(fs, fs[i]) <=> ~ForBoard(fs[i])
<1> DEFINE all == Everywhere(fs)
           ms == {m \in ParseModules(fs, DOMAIN fs).mods : m.file = fs[i].path}
           mine == {KeptOf(fs, all, <<i, j>>) : j \in DOMAIN fs[i].mods}
<1>1. ParseModules(fs, DOMAIN fs).mods = {KeptOf(fs, all, a) : a \in all}
  BY ParsesOnce, KeptIs DEF Everywhere
<1>2. \A j \in DOMAIN fs[i].mods : <<i, j>> \in all
  BY DefinitionIs DEF Everywhere
<1>3. \A a \in all : fs[a[1]].path = fs[i].path => \E j \in DOMAIN fs[i].mods : a = <<i, j>>
  <2> SUFFICES ASSUME NEW a \in all, fs[a[1]].path = fs[i].path PROVE \E j \in DOMAIN fs[i].mods : a = <<i, j>>
    OBVIOUS
  <2>1. a = <<a[1], a[2]>> /\ a[1] \in DOMAIN fs /\ a[2] \in DOMAIN fs[a[1]].mods
    BY DefinitionFacts
  <2>2. a[1] = i
    BY <2>1 DEF Workable, Apart
  <2>3. QED
    BY <2>1, <2>2
<1>4. ms = mine
  <2>1. \A a \in all : KeptOf(fs, all, a).file = fs[a[1]].path
    BY KeptFields
  <2>2. \A j \in DOMAIN fs[i].mods : <<i, j>>[1] = i
    OBVIOUS
  <2> HIDE DEF all
  <2>3. ASSUME NEW m \in ms PROVE m \in mine
    <3>1. PICK a \in all : m = KeptOf(fs, all, a)
      BY <1>1
    <3>2. fs[a[1]].path = fs[i].path
      BY <2>1, <3>1
    <3>3. QED
      BY <1>3, <3>1, <3>2
  <2>4. ASSUME NEW m \in mine PROVE m \in ms
    <3>1. PICK j \in DOMAIN fs[i].mods : m = KeptOf(fs, all, <<i, j>>)
      OBVIOUS
    <3>2. m.file = fs[i].path
      BY <1>2, <2>1, <2>2, <3>1
    <3>3. QED
      BY <1>1, <1>2, <3>1, <3>2
  <2>5. QED
    BY <2>3, <2>4
<1>5. \A j \in DOMAIN fs[i].mods : KeptOf(fs, all, <<i, j>>).tb = fs[i].mods[j].tb
  <2>1. \A j \in DOMAIN fs[i].mods : ModAt(fs, <<i, j>>) = fs[i].mods[j]
    BY DEF ModAt
  <2>2. QED
    BY <2>1, KeptFields
<1> HIDE DEF all
<1>6. OnlyBench(fs, fs[i]) <=> ~InDesign(fs[i]) \/ (ms # {} /\ \A m \in ms : m.tb)
  BY DEF OnlyBench
<1> HIDE DEF ms
<1>7. mine # {} <=> DOMAIN fs[i].mods # {}
  OBVIOUS
<1>8. (\A m \in mine : m.tb) <=> \A j \in DOMAIN fs[i].mods : fs[i].mods[j].tb
  BY <1>5
<1> HIDE DEF mine
<1>9. QED
  BY <1>4, <1>6, <1>7, <1>8 DEF ForBoard

LEMMA DesignFilesAre ==
  ASSUME NEW fs, Workable(fs), Once(fs, DOMAIN fs)
  PROVE  /\ DesignFiles(fs) = {fs[i].path : i \in {k \in DOMAIN fs : ForBoard(fs[k])}}
         /\ BenchFiles(fs) = {fs[i].path : i \in {k \in DOMAIN fs : IsSource(fs[k]) /\ ~ForBoard(fs[k])}}
<1>1. ToSet(fs) = {fs[i] : i \in DOMAIN fs}
  BY DEF ToSet
<1>2. \A i \in DOMAIN fs : IsSource(fs[i]) => (OnlyBench(fs, fs[i]) <=> ~ForBoard(fs[i]))
  BY OnlyBenchIs
<1>3. \A f : ForBoard(f) => IsSource(f)
  BY DEF ForBoard
<1>4. DesignFiles(fs) = {fs[i].path : i \in {k \in DOMAIN fs : ForBoard(fs[k])}}
  BY <1>1, <1>2, <1>3 DEF DesignFiles
<1>5. BenchFiles(fs) = {fs[i].path : i \in {k \in DOMAIN fs : IsSource(fs[k]) /\ ~ForBoard(fs[k])}}
  BY <1>1, <1>2, <1>3 DEF BenchFiles
<1>6. QED
  BY <1>4, <1>5

-----------------------------------------------------------------------------
(* The choices *)

LEMMA RootsAreNames == ASSUME NEW design PROVE \A n \in RootsOf(design) : \E m \in design : m.name = n
BY DEF RootsOf

LEMMA TopIsDesign ==
  ASSUME NEW design, NEW xdcs, NEW prefer, TopOf(design, RootsOf(design), xdcs, prefer) # NoName
  PROVE  \E m \in design : m.name = TopOf(design, RootsOf(design), xdcs, prefer)
<1> DEFINE roots == RootsOf(design)
           top == TopOf(design, roots, xdcs, prefer)
           byStem == {n \in roots : \E x \in xdcs : StemOf[x] = n}
<1>1. CASE prefer.project /\ prefer.top # NoName
  BY <1>1 DEF TopOf
<1>2. CASE ~(prefer.project /\ prefer.top # NoName)
  <2>1. top = IF Single(roots) THEN CHOOSE n \in roots : TRUE
              ELSE IF prefer.top \in roots THEN prefer.top
              ELSE IF Single(byStem) THEN CHOOSE n \in byStem : TRUE ELSE NoName
    BY <1>2 DEF TopOf
  <2>2. Single(roots) => (CHOOSE n \in roots : TRUE) \in roots
    BY DEF Single
  <2>3. Single(byStem) => (CHOOSE n \in byStem : TRUE) \in roots
    BY DEF Single
  <2> HIDE DEF roots, byStem, top
  <2>4. top \in roots \/ top = NoName
    BY <2>1, <2>2, <2>3
  <2>5. QED
    BY <2>4, RootsAreNames DEF roots, top
<1>3. QED
  BY <1>1, <1>2

LEMMA TopPinned ==
  ASSUME NEW design, NEW roots, NEW xdcs, NEW prefer, prefer.project, prefer.top # NoName,
         NEW m \in design, m.name = prefer.top
  PROVE  TopOf(design, roots, xdcs, prefer) = prefer.top
BY DEF TopOf

LEMMA TopPinnedOnly ==
  ASSUME NEW design, NEW roots, NEW xdcs, NEW prefer, prefer.project, prefer.top # NoName,
         TopOf(design, roots, xdcs, prefer) # NoName
  PROVE  TopOf(design, roots, xdcs, prefer) = prefer.top
BY DEF TopOf

\* Of several definitions one is the first.
Placed(tbs) == \A m \in tbs : m.at = <<m.at[1], m.at[2]>> /\ m.at[1] \in Nat /\ m.at[2] \in Nat
LEMMA FirstOfSome ==
  ASSUME NEW tbs, Placed(tbs), tbs # {}
  PROVE  \E m \in tbs : \A n \in tbs : ~Before(n.at, m.at)
<1> DEFINE I == {m.at[1] : m \in tbs}
<1>1. I \in SUBSET Nat /\ I # {}
  BY DEF Placed
<1>2. PICK i \in I : \A k \in I : i <= k
  BY <1>1, LeastOne
<1> DEFINE J == {m.at[2] : m \in {n \in tbs : n.at[1] = i}}
<1>3. J \in SUBSET Nat /\ J # {}
  <2>1. \E m \in tbs : m.at[1] = i
    BY <1>2
  <2>2. QED
    BY <2>1 DEF Placed
<1>4. PICK j \in J : \A k \in J : j <= k
  BY <1>3, LeastOne
<1>5. PICK m \in tbs : m.at[1] = i /\ m.at[2] = j
  BY <1>4
<1>6. ASSUME NEW n \in tbs, Before(n.at, m.at) PROVE FALSE
  <2>1. n.at[1] \in I /\ n.at[1] \in Nat /\ i \in Nat /\ i <= n.at[1]
    BY <1>1, <1>2 DEF Placed
  <2>2. CASE n.at[1] = i
    <3>1. n.at[2] \in J /\ n.at[2] \in Nat /\ j \in Nat /\ j <= n.at[2]
      BY <1>3, <1>4, <2>2 DEF Placed
    <3> HIDE DEF I, J
    <3>2. QED
      BY <1>5, <1>6, <2>1, <2>2, <3>1 DEF Before
  <2>3. CASE n.at[1] # i
    <3> HIDE DEF I, J
    <3>1. QED
      BY <1>5, <1>6, <2>1, <2>3 DEF Before
  <2>4. QED
    BY <2>2, <2>3
<1>7. QED
  BY <1>5, <1>6

BenchNames(tbs) == {m.name : m \in tbs}
LEMMA BenchIs ==
  ASSUME NEW tbs, Placed(tbs), NoName \notin BenchNames(tbs), NEW top, NEW prefer
  PROVE  LET b == BenchOf(tbs, top, prefer) IN
         /\ b \in BenchNames(tbs) \cup {NoName}
         /\ b = NoName => /\ prefer.tb \notin BenchNames(tbs) /\ ~Single(tbs)
                          /\ \A m \in tbs : top \notin m.uses
         /\ prefer.tb \in BenchNames(tbs) => b = prefer.tb
<1> DEFINE using == {m \in tbs : top \in m.uses}
           b == BenchOf(tbs, top, prefer)
           one == CHOOSE m \in using : \A n \in using : ~Before(n.at, m.at)
           only == CHOOSE m \in tbs : TRUE
<1>1. b = IF prefer.tb \in BenchNames(tbs) THEN prefer.tb
          ELSE IF using # {} THEN one.name
          ELSE IF Single(tbs) THEN only.name ELSE NoName
  <2>1. (\E m \in tbs : m.name = prefer.tb) <=> prefer.tb \in BenchNames(tbs)
    BY DEF BenchNames
  <2>2. QED
    BY <2>1 DEF BenchOf
<1>2. using # {} => one \in tbs
  <2>1. Placed(using)
    BY DEF Placed
  <2> HIDE DEF using
  <2>2. using # {} => one \in using
    BY <2>1, FirstOfSome
  <2>3. QED
    BY <2>2 DEF using
<1>3. Single(tbs) => only \in tbs
  BY DEF Single
<1> HIDE DEF one, only
<1>4. using # {} => one.name \in BenchNames(tbs)
  BY <1>2 DEF BenchNames
<1>5. Single(tbs) => only.name \in BenchNames(tbs)
  BY <1>3 DEF BenchNames
<1>6. using = {} <=> \A m \in tbs : top \notin m.uses
  OBVIOUS
<1> HIDE DEF using, b
<1>7. /\ b \in BenchNames(tbs) \cup {NoName}
      /\ b = NoName => prefer.tb \notin BenchNames(tbs) /\ ~Single(tbs) /\ using = {}
      /\ prefer.tb \in BenchNames(tbs) => b = prefer.tb
  BY <1>1, <1>4, <1>5
<1>8. QED
  BY <1>6, <1>7 DEF b

\* Benches found again: the same names, each once, with the same uses.
SameBenches(one, two) ==
  /\ BenchNames(one) = BenchNames(two)
  /\ \A m, n \in one : m.name = n.name => m = n
  /\ \A m, n \in two : m.name = n.name => m = n
  /\ \A m \in one, n \in two : m.name = n.name => m.uses = n.uses

LEMMA SameSingle == ASSUME NEW one, NEW two, SameBenches(one, two) PROVE Single(one) <=> Single(two)
<1>1. \A m \in one : \E n \in two : n.name = m.name
  BY DEF SameBenches, BenchNames
<1>2. \A n \in two : \E m \in one : n.name = m.name
  BY DEF SameBenches, BenchNames
<1>3. ASSUME NEW x \in one, one = {x} PROVE Single(two)
  <2>1. PICK n \in two : n.name = x.name
    BY <1>1
  <2>2. \A k \in two : k = n
    BY <1>2, <1>3, <2>1 DEF SameBenches
  <2>3. QED
    BY <2>2 DEF Single
<1>4. ASSUME NEW x \in two, two = {x} PROVE Single(one)
  <2>1. PICK n \in one : n.name = x.name
    BY <1>2
  <2>2. \A k \in one : k = n
    BY <1>1, <1>4, <2>1 DEF SameBenches
  <2>3. QED
    BY <2>2 DEF Single
<1>5. QED
  BY <1>3, <1>4 DEF Single

\* A bench that was chosen is chosen again when it is asked for, and none is when none was.
LEMMA BenchAgain ==
  ASSUME NEW one, NEW two, SameBenches(one, two), Placed(one), Placed(two), NoName \notin BenchNames(one),
         NEW top, NEW p, NEW q, q.tb = BenchOf(one, top, p)
  PROVE  BenchOf(two, top, q) = BenchOf(one, top, p)
<1> DEFINE b == BenchOf(one, top, p)
           c == BenchOf(two, top, q)
           names == BenchNames(one)
<1>1. names = BenchNames(two) /\ NoName \notin BenchNames(two)
  BY DEF SameBenches
<1>2. /\ b \in names \cup {NoName}
      /\ b = NoName => p.tb \notin names /\ ~Single(one) /\ \A m \in one : top \notin m.uses
  BY BenchIs
<1>3. q.tb \in BenchNames(two) => c = q.tb
  BY <1>1, BenchIs
<1>4. CASE b \in names
  BY <1>1, <1>3, <1>4
<1>5. CASE b = NoName
  <2>1. ~Single(two)
    BY <1>2, <1>5, SameSingle
  <2>2. \A n \in two : top \notin n.uses
    <3> SUFFICES ASSUME NEW n \in two PROVE top \notin n.uses
      OBVIOUS
    <3>1. n.name \in names
      BY <1>1 DEF BenchNames
    <3>2. PICK m \in one : m.name = n.name
      BY <3>1 DEF BenchNames
    <3>3. m.uses = n.uses
      BY <3>2 DEF SameBenches
    <3>4. QED
      BY <1>2, <1>5, <3>3
  <2>3. ~\E m \in two : m.name = q.tb
    BY <1>1, <1>5 DEF BenchNames
  <2>4. c = NoName
    BY <2>1, <2>2, <2>3 DEF BenchOf
  <2>5. QED
    BY <1>5, <2>4
<1>6. QED
  BY <1>2, <1>4, <1>5

LEMMA PinsIs ==
  ASSUME NEW xdcs, NoName \notin xdcs, NEW top, NEW prefer
  PROVE  LET x == PinsOf(xdcs, top, prefer) IN
         /\ x \in xdcs \cup {NoName}
         /\ x = NoName => ~Single(xdcs) /\ prefer.xdc \notin xdcs /\ ~Single({y \in xdcs : StemOf[y] = top})
<1> DEFINE named == {y \in xdcs : StemOf[y] = top}
           x == PinsOf(xdcs, top, prefer)
<1>1. x = IF Single(xdcs) THEN CHOOSE y \in xdcs : TRUE
          ELSE IF prefer.xdc \in xdcs THEN prefer.xdc
          ELSE IF Single(named) THEN CHOOSE y \in named : TRUE ELSE NoName
  BY DEF PinsOf
<1>2. Single(xdcs) => (CHOOSE y \in xdcs : TRUE) \in xdcs
  BY DEF Single
<1>3. Single(named) => (CHOOSE y \in named : TRUE) \in xdcs
  BY DEF Single
<1> HIDE DEF named, x
<1>4. x \in xdcs \cup {NoName} /\ (x = NoName => ~Single(xdcs) /\ prefer.xdc \notin xdcs /\ ~Single(named))
  BY <1>1, <1>2, <1>3
<1>5. QED
  BY <1>4 DEF x, named

\* What was picked is there alone; when nothing was, all are there and nothing is picked.
LEMMA PinsAgain ==
  ASSUME NEW xdcs, NoName \notin xdcs, NEW top, NEW p, NEW q, NEW now,
         now = IF PinsOf(xdcs, top, p) # NoName THEN {PinsOf(xdcs, top, p)} ELSE xdcs,
         q.xdc = IF Single(now) THEN CHOOSE x \in now : TRUE ELSE NoName
  PROVE  PinsOf(now, top, q) = PinsOf(xdcs, top, p)
<1> DEFINE x == PinsOf(xdcs, top, p)
<1>1. /\ x \in xdcs \cup {NoName}
      /\ x = NoName => ~Single(xdcs) /\ p.xdc \notin xdcs /\ ~Single({y \in xdcs : StemOf[y] = top})
  BY PinsIs
<1>2. CASE x # NoName
  <2> HIDE DEF x
  <2>1. now = {x}
    BY <1>2 DEF x
  <2>2. Single(now) /\ (CHOOSE y \in now : TRUE) = x
    BY <2>1 DEF Single
  <2>3. QED
    BY <2>2 DEF PinsOf, x
<1>3. CASE x = NoName
  <2>1. now = xdcs
    BY <1>3
  <2>2. q.xdc = NoName
    BY <1>1, <1>3, <2>1
  <2>3. PinsOf(now, top, q) = NoName
    BY <1>1, <1>3, <2>1, <2>2 DEF PinsOf
  <2>4. QED
    BY <1>3, <2>3
<1>4. QED
  BY <1>2, <1>3

-----------------------------------------------------------------------------
(* Files taken again, with other uses *)

\* g has the files of fs whose path is in use, with the uses U says.
Takes(g, fs, U) ==
  /\ Workable(g)
  /\ \A k \in DOMAIN g : \E i \in DOMAIN fs :
       g[k].path = fs[i].path /\ g[k].mods = fs[i].mods /\ g[k].path \in DOMAIN U /\ g[k].usage = U[g[k].path]
  /\ \A i \in DOMAIN fs : fs[i].path \in DOMAIN U => \E k \in DOMAIN g : g[k].path = fs[i].path
TakesSources(g, fs, U) == Takes(g, fs, U) /\ \A i \in DOMAIN fs : IsSource(fs[i]) => fs[i].path \in DOMAIN U

LEMMA TakesEach ==
  ASSUME NEW fs, Workable(fs), NEW g, NEW U, Takes(g, fs, U), NEW k \in DOMAIN g, NEW i \in DOMAIN fs, g[k].path = fs[i].path
  PROVE  g[k].mods = fs[i].mods /\ g[k].usage = U[fs[i].path] /\ (IsSource(g[k]) <=> IsSource(fs[i]))
<1>1. PICK j \in DOMAIN fs : g[k].path = fs[j].path /\ g[k].mods = fs[j].mods /\ g[k].usage = U[g[k].path]
  BY DEF Takes
<1>2. j = i
  BY <1>1 DEF Workable, Apart
<1>3. QED
  BY <1>1, <1>2 DEF IsSource

\* The same definition in both.
Matches(fs, a, g, b) == fs[a[1]].path = g[b[1]].path /\ a[2] = b[2] /\ ModAt(fs, a) = ModAt(g, b)

LEMMA MatchesBack ==
  ASSUME NEW fs, Workable(fs), NEW g, NEW U, Takes(g, fs, U), NEW b \in Everywhere(g)
  PROVE  \E a \in Everywhere(fs) : Matches(fs, a, g, b)
<1>1. b = <<b[1], b[2]>> /\ b[1] \in DOMAIN g /\ IsSource(g[b[1]]) /\ b[2] \in DOMAIN g[b[1]].mods
  BY DefinitionFacts DEF Takes
<1>2. PICK i \in DOMAIN fs : g[b[1]].path = fs[i].path
  BY <1>1 DEF Takes
<1>3. g[b[1]].mods = fs[i].mods /\ IsSource(fs[i])
  BY <1>1, <1>2, TakesEach
<1> DEFINE a == <<i, b[2]>>
<1>4. a \in Everywhere(fs)
  BY <1>1, <1>3, DefinitionIs DEF Everywhere
<1>5. Matches(fs, a, g, b)
  BY <1>2, <1>3 DEF Matches, ModAt
<1>6. QED
  BY <1>4, <1>5

LEMMA MatchesForth ==
  ASSUME NEW fs, Workable(fs), NEW g, NEW U, TakesSources(g, fs, U), NEW a \in Everywhere(fs)
  PROVE  \E b \in Everywhere(g) : Matches(fs, a, g, b)
<1>1. a = <<a[1], a[2]>> /\ a[1] \in DOMAIN fs /\ IsSource(fs[a[1]]) /\ a[2] \in DOMAIN fs[a[1]].mods
  BY DefinitionFacts
<1>2. Takes(g, fs, U) /\ fs[a[1]].path \in DOMAIN U
  BY <1>1 DEF TakesSources
<1>3. PICK k \in DOMAIN g : g[k].path = fs[a[1]].path
  BY <1>1, <1>2 DEF Takes
<1>4. g[k].mods = fs[a[1]].mods /\ IsSource(g[k])
  BY <1>1, <1>2, <1>3, TakesEach
<1> DEFINE b == <<k, a[2]>>
<1>5. b \in Everywhere(g)
  BY <1>1, <1>4, DefinitionIs DEF Everywhere
<1>6. Matches(fs, a, g, b)
  BY <1>3, <1>4 DEF Matches, ModAt
<1>7. QED
  BY <1>5, <1>6

LEMMA OnceAgain ==
  ASSUME NEW fs, Workable(fs), Once(fs, DOMAIN fs), NEW g, NEW U, Takes(g, fs, U)
  PROVE  Once(g, DOMAIN g)
<1> SUFFICES ASSUME NEW b \in Everywhere(g), NEW c \in Everywhere(g), ModAt(g, b).name = ModAt(g, c).name
             PROVE  b = c
  BY DEF Once, Everywhere
<1>1. PICK a \in Everywhere(fs) : Matches(fs, a, g, b)
  BY MatchesBack
<1>2. PICK d \in Everywhere(fs) : Matches(fs, d, g, c)
  BY MatchesBack
<1>3. a = d
  BY <1>1, <1>2 DEF Matches, Once, Everywhere
<1>4. /\ b = <<b[1], b[2]>> /\ b[1] \in DOMAIN g /\ c = <<c[1], c[2]>> /\ c[1] \in DOMAIN g
  BY DefinitionFacts DEF Takes
<1>5. b[1] = c[1] /\ b[2] = c[2]
  BY <1>1, <1>2, <1>3, <1>4 DEF Matches, Takes, Workable, Apart
<1>6. QED
  BY <1>4, <1>5

LEMMA NamesAgain ==
  ASSUME NEW fs, Workable(fs), NEW g, NEW U, TakesSources(g, fs, U)
  PROVE  NamesAt(g, Everywhere(g)) = NamesAt(fs, Everywhere(fs))
<1>1. \A a \in Everywhere(fs) : \E b \in Everywhere(g) : ModAt(fs, a) = ModAt(g, b)
  BY MatchesForth DEF Matches
<1>2. \A b \in Everywhere(g) : \E a \in Everywhere(fs) : ModAt(fs, a) = ModAt(g, b)
  BY MatchesBack DEF Matches, TakesSources
<1>3. ASSUME NEW n \in NamesAt(g, Everywhere(g)) PROVE n \in NamesAt(fs, Everywhere(fs))
  BY <1>2 DEF NamesAt
<1>4. ASSUME NEW n \in NamesAt(fs, Everywhere(fs)) PROVE n \in NamesAt(g, Everywhere(g))
  BY <1>1 DEF NamesAt
<1>5. QED
  BY <1>3, <1>4

LEMMA KeptAgain ==
  ASSUME NEW fs, Workable(fs), NEW g, NEW U, TakesSources(g, fs, U), NEW a, NEW b, Matches(fs, a, g, b)
  PROVE  LET m == KeptOf(fs, Everywhere(fs), a)
             n == KeptOf(g, Everywhere(g), b)
         IN  m.name = n.name /\ m.tb = n.tb /\ m.file = n.file /\ m.uses = n.uses
<1> DEFINE m == KeptOf(fs, Everywhere(fs), a)
           n == KeptOf(g, Everywhere(g), b)
<1>1. ModAt(fs, a) = ModAt(g, b) /\ fs[a[1]].path = g[b[1]].path
  BY DEF Matches
<1>2. NamesAt(fs, Everywhere(fs)) = NamesAt(g, Everywhere(g))
  BY NamesAgain
<1>3. /\ m.name = ModAt(fs, a).name /\ m.tb = ModAt(fs, a).tb /\ m.file = fs[a[1]].path
      /\ m.uses = (ModAt(fs, a).uses \cap NamesAt(fs, Everywhere(fs))) \ {ModAt(fs, a).name}
  BY KeptFields
<1>4. /\ n.name = ModAt(g, b).name /\ n.tb = ModAt(g, b).tb /\ n.file = g[b[1]].path
      /\ n.uses = (ModAt(g, b).uses \cap NamesAt(g, Everywhere(g))) \ {ModAt(g, b).name}
  BY KeptFields
<1> HIDE DEF m, n
<1>5. QED
  BY <1>1, <1>2, <1>3, <1>4 DEF m, n

-----------------------------------------------------------------------------
(* Benches *)

AllSimulate(fs) == \A i \in DOMAIN fs : IsSource(fs[i]) => InSim(fs[i])
BenchAt(fs, a) == a \in Everywhere(fs) /\ ModAt(fs, a).tb

LEMMA BenchesAre ==
  ASSUME NEW fs, Workable(fs), AllSimulate(fs)
  PROVE  \A m : m \in BenchesOf(fs) <=> \E a : BenchAt(fs, a) /\ m = KeptOf(fs, Everywhere(fs), a)
<1>1. \A a \in Everywhere(fs) : InSim(fs[a[1]])
  BY DefinitionFacts DEF AllSimulate
<1>2. \A a : KeptOf(fs, Everywhere(fs), a).at = a /\ KeptOf(fs, Everywhere(fs), a).tb = ModAt(fs, a).tb
  BY KeptFields
<1>3. Kept(fs, Everywhere(fs)) = {KeptOf(fs, Everywhere(fs), a) : a \in Everywhere(fs)}
  BY KeptIs
<1> SUFFICES ASSUME NEW m PROVE m \in BenchesOf(fs) <=> \E a : BenchAt(fs, a) /\ m = KeptOf(fs, Everywhere(fs), a)
  OBVIOUS
<1>4. ASSUME m \in BenchesOf(fs) PROVE \E a : BenchAt(fs, a) /\ m = KeptOf(fs, Everywhere(fs), a)
  <2>1. m \in Kept(fs, Everywhere(fs)) /\ m.tb
    BY <1>4 DEF BenchesOf
  <2>2. PICK a \in Everywhere(fs) : m = KeptOf(fs, Everywhere(fs), a)
    BY <1>3, <2>1
  <2>3. ModAt(fs, a).tb
    BY <1>2, <2>1, <2>2
  <2>4. QED
    BY <2>2, <2>3 DEF BenchAt
<1>5. ASSUME NEW a, BenchAt(fs, a), m = KeptOf(fs, Everywhere(fs), a) PROVE m \in BenchesOf(fs)
  <2>1. a \in Everywhere(fs) /\ ModAt(fs, a).tb
    BY <1>5 DEF BenchAt
  <2>2. m \in Kept(fs, Everywhere(fs)) /\ m.at = a /\ m.tb = ModAt(fs, a).tb
    BY <1>2, <1>3, <1>5, <2>1
  <2>3. QED
    BY <1>1, <2>1, <2>2 DEF BenchesOf
<1>6. QED
  BY <1>4, <1>5

LEMMA BenchesPlaced ==
  ASSUME NEW fs, Workable(fs), AllSimulate(fs)
  PROVE  Placed(BenchesOf(fs)) /\ NoName \notin BenchNames(BenchesOf(fs))
<1>1. ASSUME NEW m \in BenchesOf(fs)
      PROVE  m.at = <<m.at[1], m.at[2]>> /\ m.at[1] \in Nat /\ m.at[2] \in Nat /\ m.name # NoName
  <2>1. PICK a : BenchAt(fs, a) /\ m = KeptOf(fs, Everywhere(fs), a)
    BY BenchesAre
  <2>2. m.at = a /\ m.name = ModAt(fs, a).name /\ a \in Everywhere(fs)
    BY <2>1, KeptFields DEF BenchAt
  <2>3. QED
    BY <2>2, DefinitionFacts, ProjectAssumption
<1>2. QED
  BY <1>1 DEF Placed, BenchNames

LEMMA BenchesApart ==
  ASSUME NEW fs, Workable(fs), AllSimulate(fs), Once(fs, DOMAIN fs)
  PROVE  \A m, n \in BenchesOf(fs) : m.name = n.name => m = n
<1> SUFFICES ASSUME NEW m \in BenchesOf(fs), NEW n \in BenchesOf(fs), m.name = n.name PROVE m = n
  OBVIOUS
<1>1. PICK a : BenchAt(fs, a) /\ m = KeptOf(fs, Everywhere(fs), a)
  BY BenchesAre
<1>2. PICK b : BenchAt(fs, b) /\ n = KeptOf(fs, Everywhere(fs), b)
  BY BenchesAre
<1>3. a = b
  BY <1>1, <1>2, KeptFields DEF Once, Everywhere, BenchAt
<1>4. QED
  BY <1>1, <1>2, <1>3

LEMMA BenchesAgain ==
  ASSUME NEW fs, Workable(fs), Once(fs, DOMAIN fs), AllSimulate(fs),
         NEW g, NEW U, TakesSources(g, fs, U), AllSimulate(g)
  PROVE  SameBenches(BenchesOf(fs), BenchesOf(g))
<1>0. Takes(g, fs, U) /\ Workable(g) /\ Once(g, DOMAIN g)
  BY OnceAgain DEF TakesSources, Takes
<1>1. ASSUME NEW m \in BenchesOf(fs) PROVE \E n \in BenchesOf(g) : n.name = m.name /\ n.uses = m.uses
  <2>1. PICK a : BenchAt(fs, a) /\ m = KeptOf(fs, Everywhere(fs), a)
    BY BenchesAre
  <2>2. PICK b \in Everywhere(g) : Matches(fs, a, g, b)
    BY <2>1, MatchesForth DEF BenchAt
  <2> DEFINE n == KeptOf(g, Everywhere(g), b)
  <2>3. m.name = n.name /\ m.uses = n.uses
    BY <2>1, <2>2, KeptAgain
  <2>4. BenchAt(g, b)
    BY <2>1, <2>2 DEF BenchAt, Matches
  <2>5. n \in BenchesOf(g)
    BY <1>0, <2>4, BenchesAre
  <2> HIDE DEF n
  <2>6. QED
    BY <2>3, <2>5
<1>2. ASSUME NEW n \in BenchesOf(g) PROVE \E m \in BenchesOf(fs) : n.name = m.name /\ n.uses = m.uses
  <2>1. PICK b : BenchAt(g, b) /\ n = KeptOf(g, Everywhere(g), b)
    BY <1>0, BenchesAre
  <2>2. PICK a \in Everywhere(fs) : Matches(fs, a, g, b)
    BY <1>0, <2>1, MatchesBack DEF BenchAt
  <2> DEFINE m == KeptOf(fs, Everywhere(fs), a)
  <2>3. m.name = n.name /\ m.uses = n.uses
    BY <2>1, <2>2, KeptAgain
  <2>4. BenchAt(fs, a)
    BY <2>1, <2>2 DEF BenchAt, Matches
  <2>5. m \in BenchesOf(fs)
    BY <2>4, BenchesAre
  <2> HIDE DEF m
  <2>6. QED
    BY <2>3, <2>5
<1>3. BenchNames(BenchesOf(fs)) = BenchNames(BenchesOf(g))
  <2>1. \A x \in BenchNames(BenchesOf(fs)) : x \in BenchNames(BenchesOf(g))
    BY <1>1 DEF BenchNames
  <2>2. \A x \in BenchNames(BenchesOf(g)) : x \in BenchNames(BenchesOf(fs))
    BY <1>2 DEF BenchNames
  <2>3. QED
    BY <2>1, <2>2
<1>4. \A m, n \in BenchesOf(fs) : m.name = n.name => m = n
  BY BenchesApart
<1>5. \A m, n \in BenchesOf(g) : m.name = n.name => m = n
  BY <1>0, BenchesApart
<1>6. \A m \in BenchesOf(fs), n \in BenchesOf(g) : m.name = n.name => m.uses = n.uses
  BY <1>1, <1>5
<1>7. QED
  BY <1>3, <1>4, <1>5, <1>6 DEF SameBenches

-----------------------------------------------------------------------------
(* Designs *)

\* A definition the board gets.
DesignAt(fs, a) == a \in Everywhere(fs) /\ ForBoard(fs[a[1]]) /\ ~ModAt(fs, a).tb
OfDesign(fs, a) == KeptOf(fs, Definitions(fs, DesignPlaces(fs)), a)

LEMMA DesignIs ==
  ASSUME NEW fs, Workable(fs)
  PROVE  \A m : m \in DesignFound(fs) <=> \E a : DesignAt(fs, a) /\ m = OfDesign(fs, a)
<1> DEFINE all == Definitions(fs, DesignPlaces(fs))
<1>1. \A a \in Everywhere(fs) : ~ModAt(fs, a).tb => (ForBoard(fs[a[1]]) <=> InDesign(fs[a[1]]))
  BY DefinitionFacts DEF ForBoard, ModAt
<1>2. \A a : a \in all <=> a \in Everywhere(fs) /\ InDesign(fs[a[1]])
  BY DefinitionIs DEF DesignPlaces, Everywhere
<1>3. \A a : OfDesign(fs, a).tb = ModAt(fs, a).tb
  BY KeptFields DEF OfDesign
<1>4. Kept(fs, all) = {OfDesign(fs, a) : a \in all}
  BY KeptIs DEF OfDesign
<1> HIDE DEF all
<1> SUFFICES ASSUME NEW m PROVE m \in DesignFound(fs) <=> \E a : DesignAt(fs, a) /\ m = OfDesign(fs, a)
  OBVIOUS
<1>5. DesignFound(fs) = {x \in Kept(fs, all) : ~x.tb}
  BY DEF DesignFound, all
<1>6. ASSUME m \in DesignFound(fs) PROVE \E a : DesignAt(fs, a) /\ m = OfDesign(fs, a)
  <2>1. m \in Kept(fs, all) /\ ~m.tb
    BY <1>5, <1>6
  <2>2. PICK a \in all : m = OfDesign(fs, a)
    BY <1>4, <2>1
  <2>3. ~ModAt(fs, a).tb
    BY <1>3, <2>1, <2>2
  <2>4. QED
    BY <1>1, <1>2, <2>2, <2>3 DEF DesignAt
<1>7. ASSUME NEW a, DesignAt(fs, a), m = OfDesign(fs, a) PROVE m \in DesignFound(fs)
  <2>1. a \in Everywhere(fs) /\ ForBoard(fs[a[1]]) /\ ~ModAt(fs, a).tb
    BY <1>7 DEF DesignAt
  <2>2. m \in Kept(fs, all)
    BY <1>1, <1>2, <1>4, <1>7, <2>1
  <2>3. m.tb = ModAt(fs, a).tb
    BY <1>3, <1>7
  <2>4. QED
    BY <1>5, <2>1, <2>2, <2>3
<1>8. QED
  BY <1>6, <1>7

LEMMA DesignFacts ==
  ASSUME NEW fs, Workable(fs), Once(fs, DOMAIN fs)
  PROVE  /\ \A m, n \in DesignFound(fs) : m.name = n.name => m = n
         /\ \A m \in DesignFound(fs) : m.name \in ModuleNames /\ m.name # NoName /\ m.file \in DesignFiles(fs)
<1>1. ASSUME NEW m \in DesignFound(fs), NEW n \in DesignFound(fs), m.name = n.name PROVE m = n
  <2>1. PICK a : DesignAt(fs, a) /\ m = OfDesign(fs, a)
    BY DesignIs
  <2>2. PICK b : DesignAt(fs, b) /\ n = OfDesign(fs, b)
    BY DesignIs
  <2>3. ModAt(fs, a).name = ModAt(fs, b).name
    BY <1>1, <2>1, <2>2, KeptFields DEF OfDesign
  <2>4. a = b
    BY <2>1, <2>2, <2>3 DEF Once, Everywhere, DesignAt
  <2>5. QED
    BY <2>1, <2>2, <2>4
<1>2. ASSUME NEW m \in DesignFound(fs) PROVE m.name \in ModuleNames /\ m.name # NoName /\ m.file \in DesignFiles(fs)
  <2>1. PICK a : DesignAt(fs, a) /\ m = OfDesign(fs, a)
    BY DesignIs
  <2>2. m.name = ModAt(fs, a).name /\ m.file = fs[a[1]].path
    BY <2>1, KeptFields DEF OfDesign
  <2>3. a \in Everywhere(fs) /\ ForBoard(fs[a[1]])
    BY <2>1 DEF DesignAt
  <2>4. a[1] \in DOMAIN fs /\ ModAt(fs, a).name \in ModuleNames
    BY <2>3, DefinitionFacts
  <2>5. fs[a[1]].path \in DesignFiles(fs)
    BY <2>3, <2>4, DesignFilesAre
  <2>6. QED
    BY <2>2, <2>4, <2>5, ProjectAssumption
<1>3. QED
  BY <1>1, <1>2

\* The files of the board stay those of the board.
SameBoard(g, fs) ==
  /\ \A k \in DOMAIN g, i \in DOMAIN fs : g[k].path = fs[i].path => (ForBoard(g[k]) <=> ForBoard(fs[i]))
\* The same modules in the same files.
SameModules(one, two) ==
  /\ \A m \in one : \E n \in two : n.name = m.name /\ n.file = m.file
  /\ \A n \in two : \E m \in one : m.name = n.name /\ m.file = n.file
  /\ \A m, n \in two : m.name = n.name => m = n

LEMMA DesignAgain ==
  ASSUME NEW fs, Workable(fs), Once(fs, DOMAIN fs), NEW g, NEW U, TakesSources(g, fs, U), SameBoard(g, fs)
  PROVE  SameModules(DesignFound(fs), DesignFound(g)) /\ DesignFiles(g) = DesignFiles(fs)
<1>0. Takes(g, fs, U) /\ Workable(g) /\ Once(g, DOMAIN g)
  BY OnceAgain DEF TakesSources, Takes
<1>1. ASSUME NEW m \in DesignFound(fs) PROVE \E n \in DesignFound(g) : n.name = m.name /\ n.file = m.file
  <2>1. PICK a : DesignAt(fs, a) /\ m = OfDesign(fs, a)
    BY DesignIs
  <2>2. PICK b \in Everywhere(g) : Matches(fs, a, g, b)
    BY <2>1, MatchesForth DEF DesignAt
  <2>3. a[1] \in DOMAIN fs /\ b[1] \in DOMAIN g
    BY <1>0, <2>1, <2>2, DefinitionFacts DEF DesignAt
  <2>4. DesignAt(g, b)
    BY <2>1, <2>2, <2>3 DEF DesignAt, Matches, SameBoard
  <2> DEFINE n == OfDesign(g, b)
  <2>5. n \in DesignFound(g)
    BY <1>0, <2>4, DesignIs
  <2>6. n.name = ModAt(g, b).name /\ n.file = g[b[1]].path
    BY KeptFields DEF OfDesign
  <2>7. m.name = ModAt(fs, a).name /\ m.file = fs[a[1]].path
    BY <2>1, KeptFields DEF OfDesign
  <2> HIDE DEF n
  <2>8. QED
    BY <2>2, <2>5, <2>6, <2>7 DEF Matches
<1>2. ASSUME NEW n \in DesignFound(g) PROVE \E m \in DesignFound(fs) : m.name = n.name /\ m.file = n.file
  <2>1. PICK b : DesignAt(g, b) /\ n = OfDesign(g, b)
    BY <1>0, DesignIs
  <2>2. PICK a \in Everywhere(fs) : Matches(fs, a, g, b)
    BY <1>0, <2>1, MatchesBack DEF DesignAt
  <2>3. a[1] \in DOMAIN fs /\ b[1] \in DOMAIN g
    BY <1>0, <2>1, <2>2, DefinitionFacts DEF DesignAt
  <2>4. DesignAt(fs, a)
    BY <2>1, <2>2, <2>3 DEF DesignAt, Matches, SameBoard
  <2> DEFINE m == OfDesign(fs, a)
  <2>5. m \in DesignFound(fs)
    BY <2>4, DesignIs
  <2>6. n.name = ModAt(g, b).name /\ n.file = g[b[1]].path
    BY <2>1, KeptFields DEF OfDesign
  <2>7. m.name = ModAt(fs, a).name /\ m.file = fs[a[1]].path
    BY KeptFields DEF OfDesign
  <2> HIDE DEF m
  <2>8. QED
    BY <2>2, <2>5, <2>6, <2>7 DEF Matches
<1>3. \A m, n \in DesignFound(g) : m.name = n.name => m = n
  BY <1>0, DesignFacts
<1>4. ASSUME NEW p \in DesignFiles(g) PROVE p \in DesignFiles(fs)
  <2>1. PICK k \in DOMAIN g : ForBoard(g[k]) /\ p = g[k].path
    BY <1>0, DesignFilesAre
  <2>2. PICK i \in DOMAIN fs : g[k].path = fs[i].path
    BY <1>0 DEF Takes
  <2>3. ForBoard(fs[i])
    BY <2>1, <2>2 DEF SameBoard
  <2>4. QED
    BY <2>1, <2>2, <2>3, DesignFilesAre
<1>5. ASSUME NEW p \in DesignFiles(fs) PROVE p \in DesignFiles(g)
  <2>1. PICK i \in DOMAIN fs : ForBoard(fs[i]) /\ p = fs[i].path
    BY DesignFilesAre
  <2>2. fs[i].path \in DOMAIN U
    BY <2>1 DEF TakesSources, ForBoard
  <2>3. PICK k \in DOMAIN g : g[k].path = fs[i].path
    BY <1>0, <2>2 DEF Takes
  <2>4. ForBoard(g[k])
    BY <2>1, <2>3 DEF SameBoard
  <2>5. QED
    BY <1>0, <2>1, <2>3, <2>4, DesignFilesAre
<1>6. QED
  BY <1>1, <1>2, <1>3, <1>4, <1>5 DEF SameModules

\* The file of a top.
FileOfTop(design, top) == (CHOOSE m \in design : m.name = top).file
LEMMA FileAgain ==
  ASSUME NEW one, NEW two, SameModules(one, two), NEW m \in one, \A n \in one : n.name = m.name => n = m
  PROVE  FileOfTop(one, m.name) = m.file /\ FileOfTop(two, m.name) = m.file /\ \E n \in two : n.name = m.name
<1>1. PICK n \in two : n.name = m.name /\ n.file = m.file
  BY DEF SameModules
<1>2. (CHOOSE x \in one : x.name = m.name) = m
  OBVIOUS
<1>3. \A x \in two : x.name = m.name => x = n
  BY <1>1 DEF SameModules
<1>4. (CHOOSE x \in two : x.name = m.name) = n
  BY <1>1, <1>3
<1>5. QED
  BY <1>1, <1>2, <1>4 DEF FileOfTop

-----------------------------------------------------------------------------
(* A folder, as it is read *)

LEMMA FunctionIsSeq == ASSUME NEW S, NEW n \in Nat, NEW f \in [1..n -> S] PROVE f \in Seq(S) /\ Len(f) = n
<1>1. f \in UNION {[1..k -> S] : k \in Nat}
  OBVIOUS
<1>2. f \in Seq(S)
  BY <1>1, SeqDef
<1>3. QED
  BY <1>2, LenProperties

LEMMA UsedAs ==
  ASSUME NEW f \in Records, NEW u \in Usages
  PROVE  LET g == [f EXCEPT !.usage = u] IN g \in Records /\ g.path = f.path /\ g.mods = f.mods /\ g.usage = u
BY DEF Records

\* Every file once, in some order.
Listing(order, fs) ==
  /\ order \in [DOMAIN fs -> DOMAIN fs]
  /\ \A i, j \in DOMAIN fs : order[i] = order[j] => i = j
  /\ \A j \in DOMAIN fs : \E i \in DOMAIN fs : order[i] = j

LEMMA OrdersList == ASSUME NEW fs, Workable(fs), NEW order \in Orders(Len(fs)) PROVE Listing(order, fs)
<1> DEFINE n == Len(fs)
<1>1. n \in Nat /\ DOMAIN fs = 1..n
  BY RecordFacts
<1> HIDE DEF n
<1>2. CASE order = [k \in 1..n |-> n + 1 - k]
  <2>1. order \in [1..n -> 1..n] /\ \A i, j \in 1..n : order[i] = order[j] => i = j
    BY <1>1, <1>2
  <2>2. ASSUME NEW j \in 1..n PROVE \E i \in 1..n : order[i] = j
    <3>1. n + 1 - j \in 1..n /\ n + 1 - (n + 1 - j) = j
      BY <1>1
    <3>2. QED
      BY <1>2, <3>1
  <2>3. QED
    BY <1>1, <2>1, <2>2 DEF Listing
<1>3. ASSUME NEW i \in 1..n, NEW j \in 1..n, order = [k \in 1..n |-> IF k = i THEN j ELSE IF k = j THEN i ELSE k]
      PROVE  Listing(order, fs)
  <2>1. order \in [1..n -> 1..n] /\ (\A k, l \in 1..n : order[k] = order[l] => k = l) /\ \A k \in 1..n : order[order[k]] = k
    BY <1>3
  <2>2. \A k \in 1..n : \E l \in 1..n : order[l] = k
    BY <2>1
  <2>3. QED
    BY <1>1, <2>1, <2>2 DEF Listing
<1>4. QED
  BY <1>2, <1>3 DEF Orders, n

\* The files of fs in that order, without uses.
FolderRead(fs, order) == [i \in DOMAIN fs |-> [fs[order[i]] EXCEPT !.usage = NoUse]]

LEMMA ReadFacts ==
  ASSUME NEW fs, Workable(fs), NEW order, Listing(order, fs)
  PROVE  /\ Workable(FolderRead(fs, order)) /\ DOMAIN FolderRead(fs, order) = DOMAIN fs
         /\ \A i \in DOMAIN fs : LET f == FolderRead(fs, order)[i] IN
              f.path = fs[order[i]].path /\ f.mods = fs[order[i]].mods /\ f.usage = NoUse
<1> DEFINE g == FolderRead(fs, order)
           n == Len(fs)
<1>0. n \in Nat /\ DOMAIN fs = 1..n /\ \A i \in DOMAIN fs : fs[i] \in Records
  BY RecordFacts
<1>1. NoUse \in Usages
  BY DEF Usages
<1>2. \A i \in DOMAIN fs : order[i] \in DOMAIN fs
  BY DEF Listing
<1>3. ASSUME NEW i \in DOMAIN fs
      PROVE  g[i] \in Records /\ g[i].path = fs[order[i]].path /\ g[i].mods = fs[order[i]].mods /\ g[i].usage = NoUse
  <2>1. fs[order[i]] \in Records
    BY <1>0, <1>2
  <2>2. g[i] = [fs[order[i]] EXCEPT !.usage = NoUse]
    BY DEF FolderRead
  <2> HIDE DEF g
  <2>3. QED
    BY <1>1, <2>1, <2>2, UsedAs
<1>4. g \in [DOMAIN fs -> Records] /\ DOMAIN g = DOMAIN fs
  BY <1>3 DEF FolderRead
<1> HIDE DEF g, n
<1>5. g \in Seq(Records)
  BY <1>0, <1>4, FunctionIsSeq
<1>6. ASSUME NEW i \in DOMAIN g, NEW j \in DOMAIN g, g[i].path = g[j].path PROVE i = j
  <2>1. fs[order[i]].path = fs[order[j]].path /\ order[i] \in DOMAIN fs /\ order[j] \in DOMAIN fs
    BY <1>2, <1>3, <1>4, <1>6
  <2>2. order[i] = order[j]
    BY <2>1 DEF Workable, Apart
  <2>3. QED
    BY <1>4, <2>2 DEF Listing
<1>7. Workable(g)
  BY <1>5, <1>6 DEF Workable, Apart
<1>8. QED
  BY <1>3, <1>4, <1>7 DEF g

\* What a selection keeps of a folder.
Chosen(fs, U)     == Only(fs, {f \in ToSet(fs) : f.path \in DOMAIN U})
WithUses(kept, U) == [i \in DOMAIN kept |-> [kept[i] EXCEPT !.usage = U[kept[i].path]]]

LEMMA ChosenTakes ==
  ASSUME NEW fs, Workable(fs), NEW U, \A p \in DOMAIN U : U[p] \in Usages
  PROVE  /\ Takes(WithUses(Chosen(fs, U), U), fs, U)
         /\ (\E i \in DOMAIN fs : fs[i].path \in DOMAIN U) => Chosen(fs, U) # <<>>
<1> DEFINE S == {f \in ToSet(fs) : f.path \in DOMAIN U}
           q == Chosen(fs, U)
           g == WithUses(q, U)
           n == Len(fs)
<1>0. n \in Nat /\ DOMAIN fs = 1..n /\ fs \in Seq(Records) /\ \A i \in DOMAIN fs : fs[i] \in Records
  BY RecordFacts DEF Workable
<1>1. q \in Seq(Records) /\ Picks(q, fs, S, n)
  BY <1>0, OnlyPicks DEF Chosen
<1>2. PICK at : PicksBy(at, q, fs, S, n)
  BY <1>1 DEF Picks
<1>3. Len(q) \in Nat /\ DOMAIN q = 1..Len(q) /\ \A k \in 1..Len(q) : q[k] \in Records
  BY <1>1, LenProperties, ElementOfSeq
<1>4. \A f : f \in S => f.path \in DOMAIN U
  OBVIOUS
<1>5. \A i \in DOMAIN fs : fs[i].path \in DOMAIN U => fs[i] \in S
  BY DEF ToSet
<1> HIDE DEF S, q, n
<1>6. ASSUME NEW k \in DOMAIN q
      PROVE  /\ at[k] \in DOMAIN fs /\ q[k] = fs[at[k]] /\ q[k].path \in DOMAIN U
             /\ g[k] \in Records /\ g[k].path = q[k].path /\ g[k].mods = q[k].mods /\ g[k].usage = U[q[k].path]
  <2>1. at[k] \in DOMAIN fs /\ q[k] = fs[at[k]] /\ q[k] \in S
    BY <1>0, <1>2, <1>3 DEF PicksBy
  <2>2. q[k] \in Records /\ U[q[k].path] \in Usages
    BY <1>3, <1>4, <2>1
  <2>3. g[k] = [q[k] EXCEPT !.usage = U[q[k].path]]
    BY DEF WithUses
  <2> HIDE DEF g
  <2>4. g[k] \in Records /\ g[k].path = q[k].path /\ g[k].mods = q[k].mods /\ g[k].usage = U[q[k].path]
    BY <2>2, <2>3, UsedAs
  <2>5. QED
    BY <1>4, <2>1, <2>4
<1>7. g \in [DOMAIN q -> Records] /\ DOMAIN g = DOMAIN q
  BY <1>6 DEF WithUses
<1> HIDE DEF g
<1>8. g \in Seq(Records)
  BY <1>3, <1>7, FunctionIsSeq
<1>9. ASSUME NEW i \in DOMAIN g, NEW j \in DOMAIN g, g[i].path = g[j].path PROVE i = j
  <2>1. at[i] \in DOMAIN fs /\ at[j] \in DOMAIN fs /\ fs[at[i]].path = fs[at[j]].path
    BY <1>6, <1>7, <1>9
  <2>2. at[i] = at[j]
    BY <2>1 DEF Workable, Apart
  <2>3. i \in 1..Len(q) /\ j \in 1..Len(q) /\ at[i] \in Int
    BY <1>0, <1>3, <1>7, <2>1
  <2>4. ~(i < j) /\ ~(j < i)
    BY <1>2, <2>2, <2>3 DEF PicksBy
  <2>5. QED
    BY <1>3, <2>3, <2>4
<1>10. ASSUME NEW i \in DOMAIN fs, fs[i].path \in DOMAIN U
       PROVE  \E k \in DOMAIN q : q[k] = fs[i]
  <2>1. PICK k \in 1..Len(q) : at[k] = i
    BY <1>0, <1>2, <1>5, <1>10 DEF PicksBy
  <2>2. QED
    BY <1>3, <1>6, <2>1
<1>11. Takes(g, fs, U)
  <2>1. ASSUME NEW k \in DOMAIN g
        PROVE  \E i \in DOMAIN fs : g[k].path = fs[i].path /\ g[k].mods = fs[i].mods
                                    /\ g[k].path \in DOMAIN U /\ g[k].usage = U[g[k].path]
    <3>1. at[k] \in DOMAIN fs /\ g[k].path = fs[at[k]].path /\ g[k].mods = fs[at[k]].mods
          /\ g[k].path \in DOMAIN U /\ g[k].usage = U[g[k].path]
      BY <1>6, <1>7
    <3>2. QED
      BY <3>1
  <2>2. ASSUME NEW i \in DOMAIN fs, fs[i].path \in DOMAIN U PROVE \E k \in DOMAIN g : g[k].path = fs[i].path
    BY <1>6, <1>7, <1>10, <2>2
  <2>3. Workable(g)
    BY <1>8, <1>9 DEF Workable, Apart
  <2>4. QED
    BY <2>1, <2>2, <2>3 DEF Takes
<1>12. (\E i \in DOMAIN fs : fs[i].path \in DOMAIN U) => q # <<>>
  <2>1. DOMAIN <<>> = {}
    OBVIOUS
  <2>2. QED
    BY <1>10, <2>1
<1>13. QED
  BY <1>11, <1>12 DEF g, q

\* Taken from a folder that was read is taken from the files themselves.
LEMMA TakesRead ==
  ASSUME NEW fs, Workable(fs), NEW order, Listing(order, fs), NEW g, NEW U, Takes(g, FolderRead(fs, order), U)
  PROVE  Takes(g, fs, U)
<1> DEFINE d == FolderRead(fs, order)
<1>1. /\ DOMAIN d = DOMAIN fs /\ \A i \in DOMAIN fs : order[i] \in DOMAIN fs
      /\ \A i \in DOMAIN fs : d[i].path = fs[order[i]].path /\ d[i].mods = fs[order[i]].mods
  BY ReadFacts DEF Listing
<1>2. \A j \in DOMAIN fs : \E i \in DOMAIN fs : order[i] = j
  BY DEF Listing
<1> HIDE DEF d
<1>3. Takes(g, d, U)
  BY DEF d
<1>4. ASSUME NEW k \in DOMAIN g
      PROVE  \E i \in DOMAIN fs :
               g[k].path = fs[i].path /\ g[k].mods = fs[i].mods /\ g[k].path \in DOMAIN U /\ g[k].usage = U[g[k].path]
  <2>1. PICK j \in DOMAIN d :
          g[k].path = d[j].path /\ g[k].mods = d[j].mods /\ g[k].path \in DOMAIN U /\ g[k].usage = U[g[k].path]
    BY <1>3 DEF Takes
  <2>2. QED
    BY <1>1, <2>1
<1>5. ASSUME NEW i \in DOMAIN fs, fs[i].path \in DOMAIN U PROVE \E k \in DOMAIN g : g[k].path = fs[i].path
  <2>1. PICK j \in DOMAIN fs : order[j] = i
    BY <1>2
  <2>2. PICK k \in DOMAIN g : g[k].path = d[j].path
    BY <1>1, <1>3, <1>5, <2>1 DEF Takes
  <2>3. QED
    BY <1>1, <2>1, <2>2
<1>6. QED
  BY <1>3, <1>4, <1>5 DEF Takes

-----------------------------------------------------------------------------
(* Selections *)

TopNames == ModuleNames \cup {NoName} \cup ProjectTops
ChoiceType == [project : BOOLEAN, top : TopNames, tb : TopNames, xdc : Names \cup {NoName}]
\* Every source takes part in simulation.
UsesFit(U) == \A p \in DOMAIN U : U[p] \in Usages /\ (KindOf[p] = "source" => U[p] = NoUse \/ "simulation" \in U[p])

Mentioned(project) == UNION {Listed(project, t) : t \in Types}
Loose(project, available) == {p \in available : KindOf[p] = "header"} \ Mentioned(project)
ProjectUse(project, available) ==
  [p \in Mentioned(project) \cup Loose(project, available) |->
     IF p \in Listed(project, "DesignSrcs") \cup Loose(project, available) THEN {"design", "simulation"}
     ELSE IF p \in Listed(project, "SimulationSrcs") THEN {"simulation"} ELSE {}]
ProjectChoice(project) ==
  [project |-> TRUE, top |-> TopOption(project, "DesignSrcs"), tb |-> TopOption(project, "SimulationSrcs"),
   xdc |-> IF Single(Listed(project, "Constrs")) THEN CHOOSE x \in Listed(project, "Constrs") : TRUE ELSE NoName]
Refuses(project, available) ==
  \/ \E t \in Types : HasSet(project, t) /\ ~Single(ActiveSets(project, t))
  \/ ~(Mentioned(project) \subseteq available)

LEMMA VivadoIs ==
  ASSUME NEW project, NEW available
  PROVE  VivadoSelection(project, available) =
           IF Refuses(project, available) THEN Rejected
           ELSE [fails |-> FALSE, usage |-> ProjectUse(project, available), prefer |-> ProjectChoice(project)]
BY DEF VivadoSelection, Refuses, ProjectUse, ProjectChoice, Loose, Mentioned

LEMMA SomeUses ==
  /\ {"design", "simulation"} \in Usages /\ {"simulation"} \in Usages /\ {} \in Usages /\ NoUse \in Usages
  /\ {"simulation"} # NoUse /\ "design" \notin {"simulation"}
BY DEF Usages, NoUse

LEMMA ListedIs ==
  ASSUME NEW project, NEW type, NEW p \in Listed(project, type)
  PROVE  (KindOf[p] = "xdc") <=> (type = "Constrs")
BY DEF Listed

LEMMA VivadoFits ==
  ASSUME NEW project \in Projects, NEW available \in SUBSET Names, ~Refuses(project, available)
  PROVE  UsesFit(ProjectUse(project, available)) /\ ProjectChoice(project) \in ChoiceType
<1> DEFINE U == ProjectUse(project, available)
<1>1. ASSUME NEW p \in DOMAIN U PROVE U[p] \in Usages /\ (KindOf[p] = "source" => U[p] = NoUse \/ "simulation" \in U[p])
  <2>1. p \in Mentioned(project) \cup Loose(project, available)
    BY DEF ProjectUse
  <2>2. U[p] = IF p \in Listed(project, "DesignSrcs") \cup Loose(project, available) THEN {"design", "simulation"}
               ELSE IF p \in Listed(project, "SimulationSrcs") THEN {"simulation"} ELSE {}
    BY <2>1 DEF ProjectUse
  <2> HIDE DEF U
  <2>3. p \in Mentioned(project) =>
          p \in Listed(project, "DesignSrcs") \/ p \in Listed(project, "SimulationSrcs") \/ p \in Listed(project, "Constrs")
    BY DEF Mentioned, Types
  <2>4. p \in Listed(project, "Constrs") => KindOf[p] # "source"
    BY ListedIs
  <2>5. QED
    BY <2>1, <2>2, <2>3, <2>4, SomeUses
<1>2. \A t \in Types : TopOption(project, t) \in TopNames
  <2> SUFFICES ASSUME NEW t \in Types, HasSet(project, t) PROVE ActiveSet(project, t).top \in TopNames
    BY DEF TopOption, TopNames
  <2>1. Single(ActiveSets(project, t))
    BY DEF Refuses
  <2>2. ActiveSet(project, t) \in ActiveSets(project, t)
    BY <2>1 DEF Single, ActiveSet
  <2>3. ActiveSets(project, t) \subseteq project.sets
    BY DEF ActiveSets
  <2>4. QED
    BY <2>2, <2>3 DEF TopNames, ProjectTops
<1>3. Listed(project, "Constrs") \subseteq Names
  BY DEF Refuses, Mentioned, Types
<1>4. (IF Single(Listed(project, "Constrs")) THEN CHOOSE x \in Listed(project, "Constrs") : TRUE ELSE NoName)
        \in Names \cup {NoName}
  BY <1>3 DEF Single
<1>5. ProjectChoice(project) \in ChoiceType
  <2>1. "DesignSrcs" \in Types /\ "SimulationSrcs" \in Types
    BY DEF Types
  <2>2. QED
    BY <1>2, <1>4, <2>1 DEF ProjectChoice, ChoiceType
<1>6. QED
  BY <1>1, <1>5 DEF UsesFit

LEMMA LayoutFits ==
  ASSUME NEW available \in SUBSET Names
  PROVE  LET s == LayoutSelection(available) IN ~s.fails /\ UsesFit(s.usage) /\ s.prefer \in ChoiceType
<1> DEFINE s == LayoutSelection(available)
           D == {q \in available : \/ SrcsSet[q] = "sources_1" /\ KindOf[q] \in {"source", "header"}
                                   \/ SrcsSet[q] = "sim_1" /\ KindOf[q] \in {"source", "header"}
                                   \/ SrcsSet[q] = "constrs_1" /\ KindOf[q] \in {"xdc"}}
           U == [p \in D |-> IF SrcsSet[p] = "sources_1" THEN {"design", "simulation"}
                             ELSE IF SrcsSet[p] = "sim_1" THEN {"simulation"} ELSE {}]
<1>1. s = [fails |-> FALSE, usage |-> U, prefer |-> [NoPick EXCEPT !.project = TRUE]]
  BY DEF LayoutSelection
<1>2. [NoPick EXCEPT !.project = TRUE] \in ChoiceType
  BY DEF NoPick, ChoiceType, TopNames
<1>3. UsesFit(U)
  <2>1. ASSUME NEW p \in D, SrcsSet[p] # "sources_1", SrcsSet[p] # "sim_1" PROVE KindOf[p] # "source"
    BY <2>1
  <2>2. QED
    BY <2>1, SomeUses DEF UsesFit
<1>4. QED
  BY <1>1, <1>2, <1>3

\* The selection of an import.
SelectionOf(fs, project) ==
  LET available == {f.path : f \in ToSet(fs)} IN
  IF project # NoProject THEN VivadoSelection(project, available)
  ELSE IF \E p \in available : SrcsSet[p] \in {"sources_1", "constrs_1", "sim_1"} THEN LayoutSelection(available)
  ELSE [fails |-> FALSE, usage |-> [p \in available |-> NoUse], prefer |-> NoPick]

LEMMA ImportIs ==
  ASSUME NEW fs, NEW project
  PROVE  LET s == SelectionOf(fs, project) IN
         Import(fs, project) =
           IF s.fails \/ Chosen(fs, s.usage) = <<>> THEN Rejected
           ELSE [fails |-> FALSE, prefer |-> s.prefer, files |-> WithUses(Chosen(fs, s.usage), s.usage)]
BY DEF Import, SelectionOf, Chosen, WithUses

LEMMA PathsAre ==
  ASSUME NEW fs, Workable(fs)
  PROVE  {f.path : f \in ToSet(fs)} \in SUBSET Names /\ {f.path : f \in ToSet(fs)} = {fs[i].path : i \in DOMAIN fs}
<1>1. ToSet(fs) = {fs[i] : i \in DOMAIN fs}
  BY DEF ToSet
<1>2. \A i \in DOMAIN fs : fs[i].path \in Names
  BY RecordFacts
<1>3. QED
  BY <1>1, <1>2

LEMMA SelectionFits ==
  ASSUME NEW fs, Workable(fs), NEW project \in Projects \cup {NoProject}, ~SelectionOf(fs, project).fails
  PROVE  LET s == SelectionOf(fs, project) IN UsesFit(s.usage) /\ s.prefer \in ChoiceType
<1> DEFINE available == {f.path : f \in ToSet(fs)}
           s == SelectionOf(fs, project)
<1>1. available \in SUBSET Names
  BY PathsAre
<1> HIDE DEF available
<1>2. CASE project # NoProject
  <2>1. s = VivadoSelection(project, available)
    BY <1>2 DEF SelectionOf, available
  <2>2. project \in Projects
    BY <1>2
  <2>3. ~Refuses(project, available)
    BY <2>1, VivadoIs DEF Rejected
  <2>4. s.usage = ProjectUse(project, available) /\ s.prefer = ProjectChoice(project)
    BY <2>1, <2>3, VivadoIs
  <2> HIDE DEF s
  <2>5. QED
    BY <1>1, <2>2, <2>3, <2>4, VivadoFits DEF s
<1>3. CASE project = NoProject
  <2>1. CASE \E p \in available : SrcsSet[p] \in {"sources_1", "constrs_1", "sim_1"}
    <3>1. s = LayoutSelection(available)
      BY <1>3, <2>1 DEF SelectionOf, available
    <3>2. QED
      BY <1>1, <3>1, LayoutFits
  <2>2. CASE ~\E p \in available : SrcsSet[p] \in {"sources_1", "constrs_1", "sim_1"}
    <3>1. s = [fails |-> FALSE, usage |-> [p \in available |-> NoUse], prefer |-> NoPick]
      BY <1>3, <2>2 DEF SelectionOf, available
    <3>2. UsesFit([p \in available |-> NoUse])
      BY SomeUses DEF UsesFit
    <3>3. NoPick \in ChoiceType
      BY DEF NoPick, ChoiceType, TopNames
    <3>4. QED
      BY <3>1, <3>2, <3>3
  <2>3. QED
    BY <2>1, <2>2
<1>4. QED
  BY <1>2, <1>3

\* An import that does not fail gives files that can be worked with.
LEMMA ImportFits ==
  ASSUME NEW fs, Workable(fs), NEW project \in Projects \cup {NoProject}, ~Import(fs, project).fails
  PROVE  LET o == Import(fs, project) IN Workable(o.files) /\ AllSimulate(o.files) /\ o.prefer \in ChoiceType
<1> DEFINE s == SelectionOf(fs, project)
           g == WithUses(Chosen(fs, s.usage), s.usage)
<1>1. Import(fs, project) = IF s.fails \/ Chosen(fs, s.usage) = <<>> THEN Rejected
                            ELSE [fails |-> FALSE, prefer |-> s.prefer, files |-> g]
  BY ImportIs
<1> HIDE DEF g
<1>2. ~(s.fails \/ Chosen(fs, s.usage) = <<>>)
  BY <1>1 DEF Rejected
<1>3. Import(fs, project).files = g /\ Import(fs, project).prefer = s.prefer
  BY <1>1, <1>2
<1>4. UsesFit(s.usage) /\ s.prefer \in ChoiceType
  BY <1>2, SelectionFits
<1> HIDE DEF s
<1>5. Takes(g, fs, s.usage)
  BY <1>4, ChosenTakes DEF UsesFit, g
<1>6. AllSimulate(g)
  BY <1>4, <1>5 DEF AllSimulate, Takes, UsesFit, InSim, IsSource
<1>7. QED
  BY <1>3, <1>4, <1>5, <1>6 DEF Takes

-----------------------------------------------------------------------------
(* A project file with the three sets *)

ThreeSets(project, d, c, s) ==
  /\ project.sets = {d, c, s}
  /\ d.type = "DesignSrcs" /\ c.type = "Constrs" /\ s.type = "SimulationSrcs"
  /\ project.wanted = [t \in Types |-> CASE t = "DesignSrcs" -> d.name [] t = "Constrs" -> c.name [] OTHER -> s.name]
  /\ d.name # NoName /\ c.name # NoName /\ s.name # NoName
SetOf(d, c, s, type) == IF type = "DesignSrcs" THEN d ELSE IF type = "Constrs" THEN c ELSE s
FilesOf(set, type) ==
  {f.path : f \in {g \in set.files : g.enabled /\ (KindOf[g.path] = "xdc") = (type = "Constrs")}}

LEMMA ThreeSetsAre ==
  ASSUME NEW project, NEW d, NEW c, NEW s, ThreeSets(project, d, c, s), NEW type \in Types
  PROVE  /\ HasSet(project, type) /\ Single(ActiveSets(project, type))
         /\ TopOption(project, type) = SetOf(d, c, s, type).top
         /\ Listed(project, type) = FilesOf(SetOf(d, c, s, type), type)
<1> DEFINE mine == SetOf(d, c, s, type)
<1>1. /\ project.sets = {d, c, s} /\ d.type = "DesignSrcs" /\ c.type = "Constrs" /\ s.type = "SimulationSrcs"
      /\ type \in {"DesignSrcs", "Constrs", "SimulationSrcs"}
  BY DEF ThreeSets, Types
<1>2. project.wanted[type] = mine.name /\ mine.name # NoName
  <2>1. project.wanted[type] = CASE type = "DesignSrcs" -> d.name [] type = "Constrs" -> c.name [] OTHER -> s.name
    BY DEF ThreeSets
  <2>2. d.name # NoName /\ c.name # NoName /\ s.name # NoName
    BY DEF ThreeSets
  <2>3. QED
    BY <1>1, <2>1, <2>2 DEF SetOf
<1>3. \A x \in project.sets : x.type = type <=> x = mine
  BY <1>1 DEF SetOf
<1>4. mine \in project.sets
  BY <1>1 DEF SetOf
<1> HIDE DEF mine
<1>5. {x \in project.sets : x.type = type} = {mine}
  BY <1>3, <1>4
<1>6. ActiveSets(project, type) = {x \in {mine} : x.name = mine.name}
  BY <1>2, <1>5 DEF ActiveSets
<1>7. ActiveSets(project, type) = {mine}
  BY <1>6
<1>8. Single(ActiveSets(project, type)) /\ ActiveSet(project, type) = mine
  BY <1>7 DEF Single, ActiveSet
<1>9. HasSet(project, type)
  BY <1>3, <1>4 DEF HasSet
<1>10. TopOption(project, type) = mine.top
  BY <1>8, <1>9 DEF TopOption
<1>11. Listed(project, type) = FilesOf(mine, type)
  BY <1>8, <1>9 DEF Listed, FilesOf
<1>12. QED
  BY <1>8, <1>9, <1>10, <1>11 DEF mine

LEMMA SetFields ==
  ASSUME NEW name, NEW type, NEW paths, NEW top
  PROVE  /\ FileSet(name, type, paths, top).name = name /\ FileSet(name, type, paths, top).type = type
         /\ FileSet(name, type, paths, top).top = top
BY DEF FileSet

LEMMA SetFiles ==
  ASSUME NEW name, NEW type, NEW paths, NEW top, NEW wanted
  PROVE  FilesOf(FileSet(name, type, paths, top), wanted)
           = {p \in paths : (KindOf[p] = "xdc") <=> (wanted = "Constrs")}
<1> DEFINE x == FileSet(name, type, paths, top)
<1>1. x.files = {[path |-> p, enabled |-> TRUE] : p \in paths}
  BY DEF FileSet
<1> HIDE DEF x
<1>2. ASSUME NEW q \in FilesOf(x, wanted) PROVE q \in {p \in paths : (KindOf[p] = "xdc") <=> (wanted = "Constrs")}
  <2>1. PICK f \in x.files : q = f.path /\ (KindOf[f.path] = "xdc") = (wanted = "Constrs")
    BY DEF FilesOf
  <2>2. QED
    BY <1>1, <2>1
<1>3. ASSUME NEW p \in paths, (KindOf[p] = "xdc") <=> (wanted = "Constrs") PROVE p \in FilesOf(x, wanted)
  <2> DEFINE f == [path |-> p, enabled |-> TRUE]
  <2>1. f \in x.files /\ f.path = p /\ f.enabled
    BY <1>1
  <2> HIDE DEF f
  <2>2. (KindOf[f.path] = "xdc") = (wanted = "Constrs")
    BY <1>3, <2>1
  <2>3. QED
    BY <2>1, <2>2 DEF FilesOf
<1>4. QED
  BY <1>1, <1>2, <1>3 DEF x

\* What the archive writes.
Pinned(prefer, mine, found) == IF prefer.project /\ mine # NoName THEN mine ELSE found

LEMMA ArchiveIs ==
  ASSUME NEW fs, Workable(fs), Once(fs, DOMAIN fs), NEW prefer, NeedsProject(fs, Resolve(fs, prefer))
  PROVE  LET project == ArchiveProject(fs, prefer)
             r == Resolve(fs, prefer)
         IN  /\ project # NoProject
             /\ \A t \in Types : HasSet(project, t) => Single(ActiveSets(project, t))
             /\ TopOption(project, "DesignSrcs") = Pinned(prefer, prefer.top, r.top)
             /\ TopOption(project, "SimulationSrcs") = Pinned(prefer, prefer.tb, r.tb)
             /\ Listed(project, "DesignSrcs") = {p \in DesignFiles(fs) : KindOf[p] # "xdc"}
             /\ Listed(project, "SimulationSrcs") = {p \in BenchFiles(fs) : KindOf[p] # "xdc"}
             /\ Listed(project, "Constrs") = {p \in ManifestPicks(fs, r) : KindOf[p] = "xdc"}
<1> DEFINE r == Resolve(fs, prefer)
           project == ArchiveProject(fs, prefer)
           d == FileSet("sources_1", "DesignSrcs", DesignFiles(fs), Pinned(prefer, prefer.top, r.top))
           c == FileSet("constrs_1", "Constrs", ManifestPicks(fs, r), NoName)
           s == FileSet("sim_1", "SimulationSrcs", BenchFiles(fs), Pinned(prefer, prefer.tb, r.tb))
<1>1. project = [wanted |-> [t \in Types |-> CASE t = "DesignSrcs" -> "sources_1" [] t = "Constrs" -> "constrs_1" [] OTHER -> "sim_1"],
                 sets |-> {d, c, s}]
  BY DEF ArchiveProject, Pinned
<1> HIDE DEF r
<1>2. d.name = "sources_1" /\ c.name = "constrs_1" /\ s.name = "sim_1"
  BY SetFields
<1>3. d.type = "DesignSrcs" /\ c.type = "Constrs" /\ s.type = "SimulationSrcs"
  BY SetFields
<1>4. d.top = Pinned(prefer, prefer.top, r.top) /\ s.top = Pinned(prefer, prefer.tb, r.tb)
  BY SetFields
<1>5. /\ FilesOf(d, "DesignSrcs") = {p \in DesignFiles(fs) : KindOf[p] # "xdc"}
      /\ FilesOf(c, "Constrs") = {p \in ManifestPicks(fs, r) : KindOf[p] = "xdc"}
      /\ FilesOf(s, "SimulationSrcs") = {p \in BenchFiles(fs) : KindOf[p] # "xdc"}
  BY SetFiles
<1> HIDE DEF d, c, s, project
<1>6. project.sets = {d, c, s} /\ project # NoProject
  BY <1>1 DEF NoProject
<1>7. ThreeSets(project, d, c, s)
  BY <1>1, <1>2, <1>3, <1>6 DEF ThreeSets, NoName
<1>8. /\ SetOf(d, c, s, "DesignSrcs") = d /\ SetOf(d, c, s, "Constrs") = c /\ SetOf(d, c, s, "SimulationSrcs") = s
      /\ "DesignSrcs" \in Types /\ "Constrs" \in Types /\ "SimulationSrcs" \in Types
  BY DEF SetOf, Types
<1>9. /\ TopOption(project, "DesignSrcs") = d.top /\ Listed(project, "DesignSrcs") = FilesOf(d, "DesignSrcs")
      /\ TopOption(project, "SimulationSrcs") = s.top /\ Listed(project, "SimulationSrcs") = FilesOf(s, "SimulationSrcs")
      /\ Listed(project, "Constrs") = FilesOf(c, "Constrs")
  BY <1>7, <1>8, ThreeSetsAre
<1>10. \A t \in Types : Single(ActiveSets(project, t))
  BY <1>7, ThreeSetsAre
<1>11. QED
  BY <1>4, <1>5, <1>6, <1>9, <1>10 DEF project, r

-----------------------------------------------------------------------------
(* A settled choice *)

LEMMA XdcsAre ==
  ASSUME NEW fs, Workable(fs)
  PROVE  /\ XdcsOf(fs) = {fs[i].path : i \in {k \in DOMAIN fs : KindOf[fs[k].path] = "xdc"}}
         /\ NoName \notin XdcsOf(fs) /\ XdcsOf(fs) \subseteq Names
<1>1. ToSet(fs) = {fs[i] : i \in DOMAIN fs}
  BY DEF ToSet
<1>2. XdcsOf(fs) = {fs[i].path : i \in {k \in DOMAIN fs : KindOf[fs[k].path] = "xdc"}}
  BY <1>1 DEF XdcsOf
<1>3. \A i \in DOMAIN fs : fs[i].path \in Names
  BY RecordFacts
<1>4. QED
  BY <1>2, <1>3, ProjectAssumption

SettledFor(fs, prefer) == Workable(fs) /\ AllSimulate(fs) /\ ~Resolve(fs, prefer).error /\ ~Resolve(fs, prefer).tbError

LEMMA SettledFacts ==
  ASSUME NEW fs, NEW prefer, SettledFor(fs, prefer)
  PROVE  LET r == Resolve(fs, prefer) IN
         /\ Once(fs, DOMAIN fs) /\ r.top # NoName /\ DesignFound(fs) # {}
         /\ r.top = TopOf(DesignFound(fs), RootsOf(DesignFound(fs)), XdcsOf(fs), prefer)
         /\ \E m \in DesignFound(fs) : m.name = r.top
         /\ r.topFile = FileOfTop(DesignFound(fs), r.top) /\ r.topFile \in DesignFiles(fs)
         /\ r.tb = BenchOf(BenchesOf(fs), r.top, prefer) /\ r.xdc = PinsOf(XdcsOf(fs), r.top, prefer)
         /\ r.roots = RootsOf(DesignFound(fs)) /\ r.tbs = BenchNames(BenchesOf(fs))
         /\ prefer.project /\ prefer.tb # NoName => prefer.tb \in BenchNames(BenchesOf(fs))
<1> DEFINE r == Resolve(fs, prefer)
           design == DesignFound(fs)
           tbs == BenchesOf(fs)
           top == TopIn(fs, prefer)
           xdcs == XdcsOf(fs)
<1>1. Workable(fs) /\ Once(fs, DOMAIN fs) /\ ~r.error /\ ~r.tbError
  BY SettledIsOnce DEF SettledFor
<1>2. r = ResolvedTo(design, tbs, top, FALSE, xdcs, prefer)
  BY <1>1, ResolvesOnce
<1> HIDE DEF r, design, tbs, top, xdcs
<1>3. /\ r.error = (top = NoName) /\ r.top = top /\ r.roots = RootsOf(design) /\ r.tbs = BenchNames(tbs)
      /\ top # NoName => /\ r.topFile = FileOfTop(design, top)
                         /\ r.tb = BenchOf(tbs, top, prefer) /\ r.xdc = PinsOf(xdcs, top, prefer)
  BY <1>2 DEF ResolvedTo, FileOfTop, BenchNames
<1>4. top # NoName
  BY <1>1, <1>3
<1>5. design # {} /\ top = TopOf(design, RootsOf(design), xdcs, prefer)
  BY <1>4 DEF TopIn, top, design, xdcs
<1>6. PICK m \in design : m.name = top
  BY <1>4, <1>5, TopIsDesign
<1>7. (CHOOSE n \in design : n.name = top) = m
  BY <1>1, <1>6, DesignFacts DEF design
<1>8. r.topFile \in DesignFiles(fs)
  BY <1>1, <1>3, <1>4, <1>7, DesignFacts DEF FileOfTop, design
<1>9. prefer.project /\ prefer.tb # NoName => prefer.tb \in BenchNames(tbs)
  <2> DEFINE z == prefer.project /\ prefer.tb # NoName /\ prefer.tb \notin BenchNames(tbs)
  <2>1. r.tbError = (FALSE \/ z)
    BY <1>2 DEF ResolvedTo, BenchNames
  <2> HIDE DEF z
  <2>2. ~z
    BY <1>1, <2>1
  <2>3. QED
    BY <2>2 DEF z
<1>10. QED
  BY <1>1, <1>3, <1>4, <1>5, <1>6, <1>8, <1>9 DEF r, design, tbs, top, xdcs

-----------------------------------------------------------------------------
(* The archive with a project file *)

\* What the uses of the written project are.
LEMMA ArchiveUses ==
  ASSUME NEW fs, NEW prefer, SettledFor(fs, prefer), NeedsProject(fs, Resolve(fs, prefer)),
         NEW available, available = {fs[i].path : i \in DOMAIN fs}
  PROVE  LET project == ArchiveProject(fs, prefer)
             pinned == ManifestPicks(fs, Resolve(fs, prefer))
             U == ProjectUse(project, available)
         IN  /\ ~Refuses(project, available) /\ Listed(project, "Constrs") = pinned
             /\ \A i \in DOMAIN fs : IsSource(fs[i]) => fs[i].path \in DOMAIN U
             /\ \A p \in DOMAIN U : U[p] \in Usages
             /\ \A p \in DOMAIN U : KindOf[p] = "xdc" <=> p \in pinned
             /\ pinned \subseteq DOMAIN U
             /\ \A p \in DOMAIN U : KindOf[p] = "source" =>
                  /\ U[p] # NoUse /\ "simulation" \in U[p]
                  /\ "design" \in U[p] <=> p \in DesignFiles(fs)
<1> DEFINE r == Resolve(fs, prefer)
           project == ArchiveProject(fs, prefer)
           pinned == ManifestPicks(fs, r)
           U == ProjectUse(project, available)
           loose == Loose(project, available)
           D == DesignFiles(fs)
           B == BenchFiles(fs)
<1>1. Workable(fs) /\ Once(fs, DOMAIN fs) /\ r.top # NoName /\ r.xdc = PinsOf(XdcsOf(fs), r.top, prefer)
  BY SettledFacts DEF SettledFor
<1>2. pinned \subseteq XdcsOf(fs)
  <2>1. NoName \notin XdcsOf(fs)
    BY <1>1, XdcsAre
  <2>2. PinsOf(XdcsOf(fs), r.top, prefer) \in XdcsOf(fs) \cup {NoName}
    BY <2>1, PinsIs
  <2> HIDE DEF r
  <2>3. pinned = IF r.xdc # NoName THEN {r.xdc} ELSE XdcsOf(fs)
    BY DEF ManifestPicks
  <2>4. QED
    BY <1>1, <2>2, <2>3
<1>3. /\ D = {fs[i].path : i \in {k \in DOMAIN fs : ForBoard(fs[k])}}
      /\ B = {fs[i].path : i \in {k \in DOMAIN fs : IsSource(fs[k]) /\ ~ForBoard(fs[k])}}
  BY <1>1, DesignFilesAre
<1>4. \A p \in D \cup B : KindOf[p] = "source"
  BY <1>3 DEF ForBoard, IsSource
<1>5. \A p \in pinned : KindOf[p] = "xdc"
  BY <1>1, <1>2, XdcsAre
<1>6. /\ \A t \in Types : HasSet(project, t) => Single(ActiveSets(project, t))
      /\ Listed(project, "DesignSrcs") = {p \in D : KindOf[p] # "xdc"}
      /\ Listed(project, "SimulationSrcs") = {p \in B : KindOf[p] # "xdc"}
      /\ Listed(project, "Constrs") = {p \in pinned : KindOf[p] = "xdc"}
  BY <1>1, ArchiveIs
<1>7. D \subseteq available /\ B \subseteq available /\ pinned \subseteq available
  BY <1>1, <1>2, <1>3, XdcsAre
<1>8. \A i \in DOMAIN fs : IsSource(fs[i]) => fs[i].path \in D \cup B
  BY <1>3
<1> HIDE DEF D, B, pinned, project
<1>9. Listed(project, "DesignSrcs") = D /\ Listed(project, "SimulationSrcs") = B /\ Listed(project, "Constrs") = pinned
  BY <1>4, <1>5, <1>6
<1>10. Mentioned(project) = D \cup B \cup pinned
  BY <1>9 DEF Mentioned, Types
<1>11. ~Refuses(project, available)
  BY <1>6, <1>7, <1>10 DEF Refuses
<1>12. \A p \in loose : KindOf[p] = "header"
  BY DEF Loose
<1>13. /\ DOMAIN U = D \cup B \cup pinned \cup loose
       /\ \A p \in DOMAIN U : U[p] = IF p \in D \cup loose THEN {"design", "simulation"}
                                     ELSE IF p \in B THEN {"simulation"} ELSE {}
  BY <1>9, <1>10 DEF ProjectUse
<1> HIDE DEF U, loose
<1>14. \A p \in DOMAIN U : U[p] \in Usages
  BY <1>13, SomeUses
<1>15. \A p \in DOMAIN U : KindOf[p] = "xdc" <=> p \in pinned
  BY <1>4, <1>5, <1>12, <1>13
<1>16. ASSUME NEW p \in DOMAIN U, KindOf[p] = "source"
       PROVE  U[p] # NoUse /\ "simulation" \in U[p] /\ ("design" \in U[p] <=> p \in D)
  <2>1. p \in D \/ p \in B
    BY <1>5, <1>12, <1>13, <1>16
  <2>2. CASE p \in D
    <3>1. U[p] = {"design", "simulation"}
      BY <1>13, <2>2
    <3>2. QED
      BY <2>2, <3>1 DEF NoUse
  <2>3. CASE p \notin D
    <3>1. p \notin loose
      BY <1>12, <1>16
    <3>2. U[p] = {"simulation"}
      BY <1>13, <2>1, <2>3, <3>1
    <3>3. QED
      BY <2>3, <3>2 DEF NoUse
  <2>4. QED
    BY <2>2, <2>3
<1>17. \A i \in DOMAIN fs : IsSource(fs[i]) => fs[i].path \in DOMAIN U
  BY <1>8, <1>13
<1>18. pinned \subseteq DOMAIN U
  BY <1>13
<1>19. QED
  BY <1>9, <1>11, <1>14, <1>15, <1>16, <1>17, <1>18 DEF U, pinned, project, D

LEMMA PinnedAre ==
  ASSUME NEW fs, NEW prefer, SettledFor(fs, prefer)
  PROVE  /\ Pinned(prefer, prefer.top, Resolve(fs, prefer).top) = Resolve(fs, prefer).top
         /\ Pinned(prefer, prefer.tb, Resolve(fs, prefer).tb) = Resolve(fs, prefer).tb
<1> DEFINE r == Resolve(fs, prefer)
           tbs == BenchesOf(fs)
<1>1. /\ r.top # NoName /\ r.top = TopOf(DesignFound(fs), RootsOf(DesignFound(fs)), XdcsOf(fs), prefer)
      /\ r.tb = BenchOf(tbs, r.top, prefer)
      /\ prefer.project /\ prefer.tb # NoName => prefer.tb \in BenchNames(tbs)
  BY SettledFacts
<1>2. Placed(tbs) /\ NoName \notin BenchNames(tbs)
  BY BenchesPlaced DEF SettledFor
<1> HIDE DEF r, tbs
<1>3. Pinned(prefer, prefer.top, r.top) = r.top
  BY <1>1, TopPinnedOnly DEF Pinned
<1>4. prefer.tb \in BenchNames(tbs) => r.tb = prefer.tb
  BY <1>1, <1>2, BenchIs
<1>5. Pinned(prefer, prefer.tb, r.tb) = r.tb
  BY <1>1, <1>4 DEF Pinned
<1>6. QED
  BY <1>3, <1>5 DEF r


\* A resolution means as much as its parts.
SameMeaning(fs, prefer, g, q) ==
  /\ MeansTheSame(Resolve(fs, prefer), Resolve(g, q)) /\ DesignFiles(g) = DesignFiles(fs)

LEMMA PartsMean ==
  ASSUME NEW fs, NEW prefer, SettledFor(fs, prefer), NEW g, NEW U, TakesSources(g, fs, U), NEW q,
         SameBoard(g, fs),
         TopIn(g, q) = Resolve(fs, prefer).top,
         BenchOf(BenchesOf(g), Resolve(fs, prefer).top, q) = Resolve(fs, prefer).tb,
         PinsOf(XdcsOf(g), Resolve(fs, prefer).top, q) = Resolve(fs, prefer).xdc
  PROVE  SameMeaning(fs, prefer, g, q)
<1> DEFINE r == Resolve(fs, prefer)
           s == Resolve(g, q)
           top == TopIn(g, q)
           one == DesignFound(fs)
           two == DesignFound(g)
           tbs == BenchesOf(g)
           xdcs == XdcsOf(g)
<1>1. /\ Workable(fs) /\ Once(fs, DOMAIN fs) /\ r.top # NoName /\ (\E m \in one : m.name = r.top)
      /\ r.topFile = FileOfTop(one, r.top)
  BY SettledFacts DEF SettledFor
<1>2. Takes(g, fs, U) /\ Workable(g) /\ Once(g, DOMAIN g)
  BY <1>1, OnceAgain DEF TakesSources, Takes
<1>3. SameModules(one, two) /\ DesignFiles(g) = DesignFiles(fs)
  BY <1>1, DesignAgain
<1>4. s = ResolvedTo(two, tbs, top, FALSE, xdcs, q)
  BY <1>2, ResolvesOnce
<1>5. PICK m \in one : m.name = r.top
  BY <1>1
<1>6. \A n \in one : n.name = m.name => n = m
  BY <1>1, DesignFacts
<1>7. top = r.top /\ BenchOf(tbs, r.top, q) = r.tb /\ PinsOf(xdcs, r.top, q) = r.xdc
  OBVIOUS
<1> HIDE DEF r, s, one, two, tbs, xdcs, top
<1>8. FileOfTop(one, m.name) = m.file /\ FileOfTop(two, m.name) = m.file
  BY <1>3, <1>6, FileAgain
<1>9. /\ s.top = top
      /\ top # NoName => /\ s.topFile = FileOfTop(two, top) /\ s.tb = BenchOf(tbs, top, q) /\ s.xdc = PinsOf(xdcs, top, q)
  BY <1>4 DEF ResolvedTo, FileOfTop
<1>10. s.top = r.top /\ s.topFile = r.topFile /\ s.tb = r.tb /\ s.xdc = r.xdc
  BY <1>1, <1>5, <1>7, <1>8, <1>9
<1>11. MeansTheSame(r, s)
  BY <1>10 DEF MeansTheSame
<1>12. QED
  BY <1>3, <1>11 DEF SameMeaning, r, s

OpensSame(again, fs, prefer) == ~again.fails /\ SameMeaning(fs, prefer, again.files, again.prefer)

\* The archive with a project file means the same.
LEMMA ProjectReopens ==
  ASSUME NEW fs, NEW prefer, SettledFor(fs, prefer), NeedsProject(fs, Resolve(fs, prefer)), NEW order, Listing(order, fs)
  PROVE  OpensSame(Import(FolderRead(fs, order), ArchiveProject(fs, prefer)), fs, prefer)
<1> DEFINE r == Resolve(fs, prefer)
           project == ArchiveProject(fs, prefer)
           pinned == ManifestPicks(fs, r)
           d == FolderRead(fs, order)
           available == {f.path : f \in ToSet(d)}
           sel == SelectionOf(d, project)
           U == ProjectUse(project, available)
           q == ProjectChoice(project)
           g == WithUses(Chosen(d, U), U)
<1>1. /\ Workable(fs) /\ AllSimulate(fs) /\ Once(fs, DOMAIN fs) /\ r.top # NoName /\ r.topFile \in DesignFiles(fs)
      /\ (\E m \in DesignFound(fs) : m.name = r.top)
      /\ r.tb = BenchOf(BenchesOf(fs), r.top, prefer) /\ r.xdc = PinsOf(XdcsOf(fs), r.top, prefer)
  BY SettledFacts DEF SettledFor
<1>2. /\ Workable(d) /\ DOMAIN d = DOMAIN fs
      /\ \A i \in DOMAIN fs : d[i].path = fs[order[i]].path
  BY <1>1, ReadFacts
<1>3. available = {fs[i].path : i \in DOMAIN fs}
  <2>1. available = {d[i].path : i \in DOMAIN fs}
    BY <1>2, PathsAre
  <2>2. (\A i \in DOMAIN fs : order[i] \in DOMAIN fs) /\ \A j \in DOMAIN fs : \E i \in DOMAIN fs : order[i] = j
    BY DEF Listing
  <2> HIDE DEF available, d
  <2>3. ASSUME NEW x \in available PROVE \E j \in DOMAIN fs : fs[j].path = x
    <3>1. PICK i \in DOMAIN fs : d[i].path = x
      BY <2>1
    <3>2. d[i].path = fs[order[i]].path
      BY <1>2
    <3>3. order[i] \in DOMAIN fs
      BY <2>2
    <3>4. QED
      BY <3>1, <3>2, <3>3
  <2>4. ASSUME NEW j \in DOMAIN fs PROVE fs[j].path \in available
    <3>1. PICK i \in DOMAIN fs : order[i] = j
      BY <2>2
    <3>2. d[i].path = fs[j].path
      BY <1>2, <3>1
    <3>3. QED
      BY <2>1, <3>2
  <2>5. QED
    BY <2>3, <2>4
<1>4. /\ project # NoProject /\ TopOption(project, "DesignSrcs") = Pinned(prefer, prefer.top, r.top)
      /\ TopOption(project, "SimulationSrcs") = Pinned(prefer, prefer.tb, r.tb)
  BY <1>1, ArchiveIs
<1> HIDE DEF available, project, d
<1>5. /\ ~Refuses(project, available) /\ Listed(project, "Constrs") = pinned
      /\ \A i \in DOMAIN fs : IsSource(fs[i]) => fs[i].path \in DOMAIN U
      /\ \A p \in DOMAIN U : U[p] \in Usages
      /\ \A p \in DOMAIN U : KindOf[p] = "xdc" <=> p \in pinned
      /\ pinned \subseteq DOMAIN U
      /\ \A p \in DOMAIN U : KindOf[p] = "source" =>
           U[p] # NoUse /\ "simulation" \in U[p] /\ ("design" \in U[p] <=> p \in DesignFiles(fs))
  BY <1>3, ArchiveUses DEF project
<1>6. sel = [fails |-> FALSE, usage |-> U, prefer |-> q]
  BY <1>4, <1>5, VivadoIs DEF SelectionOf, available
<1>7. Pinned(prefer, prefer.top, r.top) = r.top /\ Pinned(prefer, prefer.tb, r.tb) = r.tb
  BY PinnedAre
<1>8. /\ q.project /\ q.top = r.top /\ q.tb = r.tb
      /\ q.xdc = IF Single(pinned) THEN CHOOSE x \in pinned : TRUE ELSE NoName
  <2> HIDE DEF U, g, sel, r, pinned
  <2>1. /\ q.project /\ q.top = TopOption(project, "DesignSrcs") /\ q.tb = TopOption(project, "SimulationSrcs")
        /\ q.xdc = IF Single(Listed(project, "Constrs")) THEN CHOOSE x \in Listed(project, "Constrs") : TRUE ELSE NoName
    BY DEF ProjectChoice
  <2> HIDE DEF q
  <2>2. QED
    BY <1>4, <1>5, <1>7, <2>1
<1> HIDE DEF U, q, g, sel, r, pinned
<1>9. Takes(g, d, U) /\ ((\E i \in DOMAIN d : d[i].path \in DOMAIN U) => Chosen(d, U) # <<>>)
  BY <1>2, <1>5, ChosenTakes DEF g
<1>10. Takes(g, fs, U)
  BY <1>1, <1>9, TakesRead DEF d
<1>11. Chosen(d, U) # <<>>
  <2>1. PICK i \in DOMAIN fs : ForBoard(fs[i]) /\ r.topFile = fs[i].path
    BY <1>1, DesignFilesAre
  <2>2. fs[i].path \in DOMAIN U
    BY <1>5, <2>1 DEF ForBoard
  <2>3. PICK j \in DOMAIN fs : order[j] = i
    BY DEF Listing
  <2>4. QED
    BY <1>2, <1>9, <2>2, <2>3
<1>12. Import(d, project) = [fails |-> FALSE, prefer |-> q, files |-> g]
  <2>1. Import(d, project) = IF sel.fails \/ Chosen(d, sel.usage) = <<>> THEN Rejected
                             ELSE [fails |-> FALSE, prefer |-> sel.prefer, files |-> WithUses(Chosen(d, sel.usage), sel.usage)]
    BY ImportIs DEF sel
  <2>2. ~sel.fails /\ sel.usage = U /\ sel.prefer = q
    BY <1>6
  <2>3. QED
    BY <1>11, <2>1, <2>2 DEF g
<1>13. TakesSources(g, fs, U)
  BY <1>5, <1>10 DEF TakesSources
<1>14. ASSUME NEW k \in DOMAIN g, NEW i \in DOMAIN fs, g[k].path = fs[i].path
       PROVE  ForBoard(g[k]) <=> ForBoard(fs[i])
  <2>1. g[k].mods = fs[i].mods /\ g[k].usage = U[fs[i].path] /\ (IsSource(g[k]) <=> IsSource(fs[i]))
    BY <1>1, <1>10, <1>14, TakesEach
  <2>2. CASE ~IsSource(fs[i])
    BY <2>1, <2>2 DEF ForBoard
  <2>3. CASE IsSource(fs[i])
    <3>1. fs[i].path \in DOMAIN U /\ KindOf[fs[i].path] = "source"
      BY <1>5, <2>3 DEF IsSource
    <3>2. InDesign(g[k]) <=> fs[i].path \in DesignFiles(fs)
      BY <1>5, <2>1, <3>1 DEF InDesign
    <3>3. fs[i].path \in DesignFiles(fs) <=> ForBoard(fs[i])
      <4>1. fs[i].path \in DesignFiles(fs) <=> \E j \in DOMAIN fs : ForBoard(fs[j]) /\ fs[i].path = fs[j].path
        BY <1>1, DesignFilesAre
      <4>2. \A j \in DOMAIN fs : fs[i].path = fs[j].path => i = j
        BY <1>1 DEF Workable, Apart
      <4>3. QED
        BY <4>1, <4>2
    <3>4. QED
      BY <2>1, <2>3, <3>2, <3>3 DEF ForBoard
  <2>4. QED
    BY <2>2, <2>3
<1>15. SameBoard(g, fs)
  BY <1>14 DEF SameBoard
<1>16. AllSimulate(g) /\ Workable(g)
  <2>1. ASSUME NEW k \in DOMAIN g, IsSource(g[k]) PROVE InSim(g[k])
    <3>1. g[k].path \in DOMAIN U /\ g[k].usage = U[g[k].path] /\ KindOf[g[k].path] = "source"
      BY <1>10, <2>1 DEF Takes, IsSource
    <3>2. QED
      BY <1>5, <3>1 DEF InSim
  <2>2. QED
    BY <1>10, <2>1 DEF AllSimulate, Takes
<1>17. XdcsOf(g) = pinned
  <2>1. XdcsOf(g) = {g[k].path : k \in {l \in DOMAIN g : KindOf[g[l].path] = "xdc"}}
    BY <1>16, XdcsAre
  <2>2. \A k \in DOMAIN g : g[k].path \in DOMAIN U
    BY <1>10 DEF Takes
  <2>3. \A x \in XdcsOf(g) : x \in pinned
    BY <1>5, <2>1, <2>2
  <2>4. ASSUME NEW x \in pinned PROVE x \in XdcsOf(g)
    <3>1. x \in DOMAIN U /\ KindOf[x] = "xdc"
      BY <1>5
    <3>2. PICK i \in DOMAIN fs : fs[i].path = x
      <4>1. x \in available
        BY <1>5, <3>1 DEF Refuses, Mentioned, Types
      <4>2. QED
        BY <1>3, <4>1
    <3>3. PICK k \in DOMAIN g : g[k].path = x
      BY <1>10, <3>1, <3>2 DEF Takes
    <3>4. QED
      BY <2>1, <3>1, <3>3
  <2>5. QED
    BY <2>3, <2>4
<1>18. TopIn(g, q) = r.top
  <2>1. SameModules(DesignFound(fs), DesignFound(g))
    BY <1>1, <1>13, <1>15, DesignAgain
  <2>2. PICK n \in DesignFound(g) : n.name = r.top
    BY <1>1, <2>1 DEF SameModules
  <2>3. TopOf(DesignFound(g), RootsOf(DesignFound(g)), XdcsOf(g), q) = r.top
    BY <1>1, <1>8, <2>2, TopPinned
  <2>4. QED
    BY <2>2, <2>3 DEF TopIn
<1>19. BenchOf(BenchesOf(g), r.top, q) = r.tb
  <2>1. SameBenches(BenchesOf(fs), BenchesOf(g))
    BY <1>1, <1>13, <1>16, BenchesAgain
  <2>2. Placed(BenchesOf(fs)) /\ Placed(BenchesOf(g)) /\ NoName \notin BenchNames(BenchesOf(fs))
    BY <1>1, <1>16, BenchesPlaced
  <2>3. QED
    BY <1>1, <1>8, <2>1, <2>2, BenchAgain
<1>20. PinsOf(XdcsOf(g), r.top, q) = r.xdc
  <2>1. NoName \notin XdcsOf(fs)
    BY <1>1, XdcsAre
  <2>2. pinned = IF PinsOf(XdcsOf(fs), r.top, prefer) # NoName THEN {PinsOf(XdcsOf(fs), r.top, prefer)} ELSE XdcsOf(fs)
    BY <1>1 DEF ManifestPicks, pinned
  <2>3. QED
    BY <1>1, <1>8, <1>17, <2>1, <2>2, PinsAgain
<1>21. SameMeaning(fs, prefer, g, q)
  BY <1>13, <1>15, <1>18, <1>19, <1>20, PartsMean DEF r
<1>22. QED
  BY <1>12, <1>21 DEF OpensSame, d, project

-----------------------------------------------------------------------------
(* The archive without a project file *)

LEMMA NotSeveral == ASSUME NEW S, ~Several(S), NEW x \in S PROVE S = {x} /\ Single(S)
BY DEF Several, Single

LEMMA BenchOfFew ==
  ASSUME NEW tbs, Placed(tbs), NoName \notin BenchNames(tbs), ~Several(BenchNames(tbs)),
         \A m, n \in tbs : m.name = n.name => m = n, NEW top, NEW prefer
  PROVE  \/ BenchNames(tbs) = {} /\ BenchOf(tbs, top, prefer) = NoName
         \/ BenchNames(tbs) = {BenchOf(tbs, top, prefer)}
<1> DEFINE b == BenchOf(tbs, top, prefer)
<1>1. b \in BenchNames(tbs) \cup {NoName} /\ (b = NoName => ~Single(tbs))
  BY BenchIs
<1> HIDE DEF b
<1>2. CASE b \in BenchNames(tbs)
  BY <1>2, NotSeveral DEF b
<1>3. CASE b = NoName
  <2>1. ASSUME NEW m \in tbs PROVE FALSE
    <3>1. \A n \in tbs : n.name = m.name
      BY DEF Several, BenchNames
    <3>2. tbs = {m}
      BY <3>1
    <3>3. QED
      BY <1>1, <1>3, <3>2 DEF Single
  <2>2. BenchNames(tbs) = {}
    BY <2>1 DEF BenchNames
  <2>3. QED
    BY <1>3, <2>2 DEF b
<1>4. QED
  BY <1>1, <1>2, <1>3

LEMMA BenchOfFewAgain ==
  ASSUME NEW one, NEW two, SameBenches(one, two), Placed(one), Placed(two), NoName \notin BenchNames(one),
         ~Several(BenchNames(one)), NEW top, NEW p, NEW q
  PROVE  BenchOf(two, top, q) = BenchOf(one, top, p)
<1>1. BenchNames(one) = BenchNames(two)
  BY DEF SameBenches
<1>2. /\ \A m, n \in one : m.name = n.name => m = n
      /\ \A m, n \in two : m.name = n.name => m = n
  BY DEF SameBenches
<1>3. \/ BenchNames(one) = {} /\ BenchOf(one, top, p) = NoName
      \/ BenchNames(one) = {BenchOf(one, top, p)}
  BY <1>2, BenchOfFew
<1>4. \/ BenchNames(two) = {} /\ BenchOf(two, top, q) = NoName
      \/ BenchNames(two) = {BenchOf(two, top, q)}
  BY <1>1, <1>2, BenchOfFew
<1>5. QED
  BY <1>1, <1>3, <1>4

LEMMA PinsOfFew ==
  ASSUME NEW xdcs, NoName \notin xdcs, ~Several(xdcs), NEW top, NEW p, NEW q
  PROVE  PinsOf(xdcs, top, q) = PinsOf(xdcs, top, p)
<1>1. CASE xdcs = {}
  <2>1. PinsOf(xdcs, top, q) = NoName /\ PinsOf(xdcs, top, p) = NoName
    BY <1>1, PinsIs
  <2>2. QED
    BY <2>1
<1>2. CASE xdcs # {}
  <2>1. Single(xdcs)
    BY <1>2, NotSeveral
  <2>2. QED
    BY <2>1 DEF PinsOf
<1>3. QED
  BY <1>1, <1>2

LEMMA TopOfFew ==
  ASSUME NEW design, NEW xdcs, NEW prefer, ~prefer.project, ~Several(RootsOf(design)), NEW top,
         top = TopOf(design, RootsOf(design), xdcs, prefer), top # NoName
  PROVE  RootsOf(design) = {top}
<1> DEFINE roots == RootsOf(design)
           byStem == {n \in roots : \E x \in xdcs : StemOf[x] = n}
<1>1. top = IF Single(roots) THEN CHOOSE n \in roots : TRUE
            ELSE IF prefer.top \in roots THEN prefer.top
            ELSE IF Single(byStem) THEN CHOOSE n \in byStem : TRUE ELSE NoName
  BY DEF TopOf
<1>2. Single(roots) => (CHOOSE n \in roots : TRUE) \in roots
  BY DEF Single
<1>3. Single(byStem) => (CHOOSE n \in byStem : TRUE) \in roots
  BY DEF Single
<1> HIDE DEF roots, byStem
<1>4. top \in roots
  BY <1>1, <1>2, <1>3
<1>5. QED
  BY <1>4, NotSeveral DEF roots

LEMMA OnlyRoot ==
  ASSUME NEW design, NEW xdcs, NEW top
  PROVE  TopOf(design, {top}, xdcs, NoPick) = top
<1>1. Single({top}) /\ (CHOOSE n \in {top} : TRUE) = top
  BY DEF Single
<1>2. ~NoPick.project
  BY DEF NoPick
<1>3. QED
  BY <1>1, <1>2 DEF TopOf

LEMMA SameRoots ==
  ASSUME NEW one, NEW two,
         \A m \in one : \E n \in two : n.name = m.name /\ n.uses = m.uses,
         \A n \in two : \E m \in one : n.name = m.name /\ n.uses = m.uses
  PROVE  RootsOf(one) = RootsOf(two)
<1>1. ASSUME NEW x \in RootsOf(one) PROVE x \in RootsOf(two)
  <2>1. PICK m \in one : m.name = x /\ \A e \in one : x \notin e.uses
    BY DEF RootsOf
  <2>2. PICK n \in two : n.name = x
    BY <2>1
  <2>3. \A e \in two : x \notin e.uses
    BY <2>1
  <2>4. QED
    BY <2>2, <2>3 DEF RootsOf
<1>2. ASSUME NEW x \in RootsOf(two) PROVE x \in RootsOf(one)
  <2>1. PICK m \in two : m.name = x /\ \A e \in two : x \notin e.uses
    BY DEF RootsOf
  <2>2. PICK n \in one : n.name = x
    BY <2>1
  <2>3. \A e \in one : x \notin e.uses
    BY <2>1
  <2>4. QED
    BY <2>2, <2>3 DEF RootsOf
<1>3. QED
  BY <1>1, <1>2

\* Plain files: what the board gets are the modules that are no benches.
AllPlain(fs) == \A i \in DOMAIN fs : fs[i].usage = NoUse

LEMMA PlainDesign ==
  ASSUME NEW fs, Workable(fs), AllPlain(fs)
  PROVE  /\ \A a \in Everywhere(fs) : DesignAt(fs, a) <=> ~ModAt(fs, a).tb
         /\ \A a : OfDesign(fs, a) = KeptOf(fs, Everywhere(fs), a)
<1>1. \A i \in DOMAIN fs : InDesign(fs[i])
  BY DEF AllPlain, InDesign
<1>2. DesignPlaces(fs) = DOMAIN fs
  BY <1>1 DEF DesignPlaces
<1>3. \A a \in Everywhere(fs) : ~ModAt(fs, a).tb => ForBoard(fs[a[1]])
  BY <1>1, DefinitionFacts DEF ForBoard, ModAt
<1>4. QED
  BY <1>2, <1>3 DEF DesignAt, OfDesign, Everywhere

LEMMA PlainRoots ==
  ASSUME NEW fs, Workable(fs), AllPlain(fs), NEW g, NEW U, TakesSources(g, fs, U), AllPlain(g)
  PROVE  RootsOf(DesignFound(fs)) = RootsOf(DesignFound(g))
<1>0. Takes(g, fs, U) /\ Workable(g)
  BY DEF TakesSources, Takes
<1>1. ASSUME NEW m \in DesignFound(fs) PROVE \E n \in DesignFound(g) : n.name = m.name /\ n.uses = m.uses
  <2>1. PICK a : DesignAt(fs, a) /\ m = OfDesign(fs, a)
    BY DesignIs
  <2>2. a \in Everywhere(fs) /\ m = KeptOf(fs, Everywhere(fs), a)
    BY <2>1, PlainDesign DEF DesignAt
  <2>3. PICK b \in Everywhere(g) : Matches(fs, a, g, b)
    BY <2>2, MatchesForth
  <2> DEFINE n == KeptOf(g, Everywhere(g), b)
  <2>4. m.name = n.name /\ m.uses = n.uses
    BY <2>2, <2>3, KeptAgain
  <2>5. DesignAt(g, b)
    BY <1>0, <2>1, <2>3, PlainDesign DEF DesignAt, Matches
  <2>6. n = OfDesign(g, b)
    BY <1>0, PlainDesign
  <2>7. n \in DesignFound(g)
    BY <1>0, <2>5, <2>6, DesignIs
  <2> HIDE DEF n
  <2>8. QED
    BY <2>4, <2>7
<1>2. ASSUME NEW n \in DesignFound(g) PROVE \E m \in DesignFound(fs) : n.name = m.name /\ n.uses = m.uses
  <2>1. PICK b : DesignAt(g, b) /\ n = OfDesign(g, b)
    BY <1>0, DesignIs
  <2>2. b \in Everywhere(g) /\ n = KeptOf(g, Everywhere(g), b)
    BY <1>0, <2>1, PlainDesign DEF DesignAt
  <2>3. PICK a \in Everywhere(fs) : Matches(fs, a, g, b)
    BY <1>0, <2>2, MatchesBack
  <2> DEFINE m == KeptOf(fs, Everywhere(fs), a)
  <2>4. m.name = n.name /\ m.uses = n.uses
    BY <2>2, <2>3, KeptAgain
  <2>5. DesignAt(fs, a)
    BY <1>0, <2>1, <2>3, PlainDesign DEF DesignAt, Matches
  <2>6. m = OfDesign(fs, a)
    BY PlainDesign
  <2>7. m \in DesignFound(fs)
    BY <2>5, <2>6, DesignIs
  <2> HIDE DEF m
  <2>8. QED
    BY <2>4, <2>7
<1>3. QED
  BY <1>1, <1>2, SameRoots

\* The archive that is a plain folder means the same.
LEMMA FolderReopens ==
  ASSUME NEW fs, NEW prefer, SettledFor(fs, prefer), ~NeedsProject(fs, Resolve(fs, prefer)), ~prefer.project,
         NEW order, Listing(order, fs)
  PROVE  OpensSame(Import(FolderRead(fs, order), ArchiveProject(fs, prefer)), fs, prefer)
<1> DEFINE r == Resolve(fs, prefer)
           d == FolderRead(fs, order)
           available == {f.path : f \in ToSet(d)}
           sel == SelectionOf(d, NoProject)
           U == [p \in available |-> NoUse]
           g == WithUses(Chosen(d, U), U)
<1>1. /\ Workable(fs) /\ AllSimulate(fs) /\ Once(fs, DOMAIN fs) /\ r.top # NoName /\ r.topFile \in DesignFiles(fs)
      /\ (\E m \in DesignFound(fs) : m.name = r.top)
      /\ r.tb = BenchOf(BenchesOf(fs), r.top, prefer) /\ r.xdc = PinsOf(XdcsOf(fs), r.top, prefer)
      /\ r.top = TopOf(DesignFound(fs), RootsOf(DesignFound(fs)), XdcsOf(fs), prefer)
      /\ r.roots = RootsOf(DesignFound(fs)) /\ r.tbs = BenchNames(BenchesOf(fs))
  BY SettledFacts DEF SettledFor
<1>2. /\ Workable(d) /\ DOMAIN d = DOMAIN fs
      /\ \A i \in DOMAIN fs : d[i].path = fs[order[i]].path
      /\ \A i \in DOMAIN fs : order[i] \in DOMAIN fs
      /\ \A j \in DOMAIN fs : \E i \in DOMAIN fs : order[i] = j
  BY <1>1, ReadFacts DEF Listing
<1>3. available = {d[i].path : i \in DOMAIN d} /\ available \in SUBSET Names
  BY <1>2, PathsAre
<1>4. ToSet(fs) = {fs[i] : i \in DOMAIN fs}
  BY DEF ToSet
<1>5. /\ \A i \in DOMAIN fs : fs[i].path \notin Nested /\ fs[i].usage = NoUse
      /\ ~Several(r.roots) /\ ~Several(r.tbs) /\ ~Several(XdcsOf(fs))
  BY <1>4 DEF NeedsProject
<1>6. ArchiveProject(fs, prefer) = NoProject
  BY DEF ArchiveProject
<1> HIDE DEF available, d, r
<1>7. \A p \in available : SrcsSet[p] = NoName
  <2>1. ASSUME NEW p \in available PROVE p \notin Nested
    <3>1. PICK i \in DOMAIN d : p = d[i].path
      BY <1>3
    <3>2. d[i].path = fs[order[i]].path /\ order[i] \in DOMAIN fs
      BY <1>2
    <3>3. QED
      BY <1>5, <3>1, <3>2
  <2>2. QED
    BY <1>3, <2>1, ProjectAssumption
<1>8. sel = [fails |-> FALSE, usage |-> U, prefer |-> NoPick]
  BY <1>7 DEF SelectionOf, available, NoName
<1>9. \A p \in DOMAIN U : U[p] \in Usages
  BY SomeUses
<1>10. DOMAIN U = available /\ \A p \in available : U[p] = NoUse
  OBVIOUS
<1> HIDE DEF U, g, sel
<1>11. Takes(g, d, U) /\ ((\E i \in DOMAIN d : d[i].path \in DOMAIN U) => Chosen(d, U) # <<>>)
  BY <1>2, <1>9, ChosenTakes DEF g
<1>12. Takes(g, fs, U)
  BY <1>1, <1>11, TakesRead DEF d
<1>13. \A i \in DOMAIN fs : fs[i].path \in DOMAIN U
  <2> SUFFICES ASSUME NEW j \in DOMAIN fs PROVE fs[j].path \in DOMAIN U
    OBVIOUS
  <2>1. PICK i \in DOMAIN fs : order[i] = j
    BY <1>2
  <2>2. QED
    BY <1>2, <1>3, <1>10, <2>1
<1>14. Chosen(d, U) # <<>>
  <2>1. PICK i \in DOMAIN fs : r.topFile = fs[i].path
    BY <1>1, DesignFilesAre
  <2>2. d[i].path \in DOMAIN U
    BY <1>2, <1>13
  <2>3. QED
    BY <1>2, <1>11, <2>2
<1>15. Import(d, NoProject) = [fails |-> FALSE, prefer |-> NoPick, files |-> g]
  <2>1. Import(d, NoProject) = IF sel.fails \/ Chosen(d, sel.usage) = <<>> THEN Rejected
                               ELSE [fails |-> FALSE, prefer |-> sel.prefer, files |-> WithUses(Chosen(d, sel.usage), sel.usage)]
    BY ImportIs DEF sel
  <2>2. ~sel.fails /\ sel.usage = U /\ sel.prefer = NoPick
    BY <1>8
  <2>3. QED
    BY <1>14, <2>1, <2>2 DEF g
<1>16. TakesSources(g, fs, U) /\ Workable(g)
  BY <1>12, <1>13 DEF TakesSources, Takes
<1>17. AllPlain(fs) /\ AllPlain(g)
  BY <1>5, <1>10, <1>12 DEF AllPlain, Takes
<1>18. AllSimulate(g)
  BY <1>17 DEF AllSimulate, AllPlain, InSim
<1>19. SameBoard(g, fs)
  <2>1. ASSUME NEW k \in DOMAIN g, NEW i \in DOMAIN fs, g[k].path = fs[i].path
        PROVE  ForBoard(g[k]) <=> ForBoard(fs[i])
    <3>1. g[k].mods = fs[i].mods /\ (IsSource(g[k]) <=> IsSource(fs[i]))
      BY <1>1, <1>12, <2>1, TakesEach
    <3>2. InDesign(g[k]) /\ InDesign(fs[i])
      BY <1>17 DEF AllPlain, InDesign
    <3>3. QED
      BY <3>1, <3>2 DEF ForBoard
  <2>2. QED
    BY <2>1 DEF SameBoard
<1>20. XdcsOf(g) = XdcsOf(fs) /\ NoName \notin XdcsOf(fs)
  <2>1. /\ XdcsOf(g) = {g[k].path : k \in {l \in DOMAIN g : KindOf[g[l].path] = "xdc"}}
        /\ XdcsOf(fs) = {fs[k].path : k \in {l \in DOMAIN fs : KindOf[fs[l].path] = "xdc"}}
    BY <1>1, <1>16, XdcsAre
  <2>2. \A k \in DOMAIN g : \E i \in DOMAIN fs : g[k].path = fs[i].path
    BY <1>12 DEF Takes
  <2>3. \A i \in DOMAIN fs : \E k \in DOMAIN g : g[k].path = fs[i].path
    BY <1>12, <1>13 DEF Takes
  <2>4. \A x \in XdcsOf(g) : x \in XdcsOf(fs)
    BY <2>1, <2>2
  <2>5. \A x \in XdcsOf(fs) : x \in XdcsOf(g)
    BY <2>1, <2>3
  <2>6. QED
    BY <1>1, <2>4, <2>5, XdcsAre
<1>21. TopIn(g, NoPick) = r.top
  <2>1. SameModules(DesignFound(fs), DesignFound(g))
    BY <1>1, <1>16, <1>19, DesignAgain
  <2>2. PICK n \in DesignFound(g) : n.name = r.top
    BY <1>1, <2>1 DEF SameModules
  <2>3. RootsOf(DesignFound(fs)) = {r.top}
    BY <1>1, <1>5, TopOfFew
  <2>4. RootsOf(DesignFound(g)) = {r.top}
    BY <1>1, <1>16, <1>17, <2>3, PlainRoots
  <2>5. TopOf(DesignFound(g), {r.top}, XdcsOf(g), NoPick) = r.top
    BY OnlyRoot
  <2>6. QED
    BY <2>2, <2>4, <2>5 DEF TopIn
<1>22. BenchOf(BenchesOf(g), r.top, NoPick) = r.tb
  <2>1. SameBenches(BenchesOf(fs), BenchesOf(g))
    BY <1>1, <1>16, <1>18, BenchesAgain
  <2>2. Placed(BenchesOf(fs)) /\ Placed(BenchesOf(g)) /\ NoName \notin BenchNames(BenchesOf(fs))
    BY <1>1, <1>16, <1>18, BenchesPlaced
  <2>3. QED
    BY <1>1, <1>5, <2>1, <2>2, BenchOfFewAgain
<1>23. PinsOf(XdcsOf(g), r.top, NoPick) = r.xdc
  BY <1>1, <1>5, <1>20, PinsOfFew
<1>24. SameMeaning(fs, prefer, g, NoPick)
  BY <1>16, <1>19, <1>21, <1>22, <1>23, PartsMean DEF r
<1>25. QED
  BY <1>6, <1>15, <1>24 DEF OpensSame, d

-----------------------------------------------------------------------------
(* The steps *)

\* One record a path, each source in the simulation: no selection leaves a source out of
\* it, so the benches do not depend on what an import says of the design.
ProjectInv == Workable(lab) /\ AllSimulate(lab) /\ choice \in ChoiceType

LEMMA ProjectStarts == ASSUME ProjectInit PROVE ProjectInv
<1>1. lab \in Seq(Records) /\ Apart(lab) /\ \A i \in DOMAIN lab : lab[i].usage = NoUse
  BY ProjectAssumption DEF ProjectInit
<1>2. choice \in ChoiceType
  BY DEF ProjectInit, NoPick, ChoiceType, TopNames
<1>3. QED
  BY <1>1, <1>2 DEF ProjectInv, Workable, AllSimulate, InSim

LEMMA OpenFolderKeeps ==
  ASSUME ProjectInv, NEW project \in Projects \cup {NoProject},
         OpenFolder([i \in DOMAIN lab |-> [lab[i] EXCEPT !.usage = NoUse]], project)
  PROVE  ProjectInv'
<1> DEFINE as == [i \in DOMAIN lab |-> i]
           d == FolderRead(lab, as)
           fresh == Import(d, project)
<1>1. d = [i \in DOMAIN lab |-> [lab[i] EXCEPT !.usage = NoUse]]
  BY DEF FolderRead
<1>2. Workable(d)
  <2>1. Listing(as, lab)
    BY DEF Listing
  <2>2. QED
    BY <2>1, ReadFacts DEF ProjectInv
<1>3. IF fresh.fails THEN UNCHANGED <<lab, choice>> ELSE lab' = fresh.files /\ choice' = fresh.prefer
  BY <1>1 DEF OpenFolder
<1> HIDE DEF d
<1>4. CASE fresh.fails
  BY <1>3, <1>4 DEF ProjectInv
<1>5. CASE ~fresh.fails
  <2>1. Workable(fresh.files) /\ AllSimulate(fresh.files) /\ fresh.prefer \in ChoiceType
    BY <1>2, <1>5, ImportFits
  <2> HIDE DEF fresh
  <2>2. lab' = fresh.files /\ choice' = fresh.prefer
    BY <1>3, <1>5
  <2>3. QED
    BY <2>1, <2>2 DEF ProjectInv
<1>6. QED
  BY <1>4, <1>5

\* A source that is added is a file of its own, and plain.
LEMMA AddSourceKeeps ==
  ASSUME ProjectInv, NEW p \in Names, NEW mods \in Contents, AddSource(p, mods)
  PROVE  ProjectInv'
<1> DEFINE f == [path |-> p, mods |-> IF KindOf[p] = "source" THEN mods ELSE <<>>, usage |-> NoUse]
           n == Len(lab)
<1>0. n \in Nat /\ DOMAIN lab = 1..n /\ lab \in Seq(Records) /\ Apart(lab) /\ AllSimulate(lab)
  BY RecordFacts DEF ProjectInv, Workable
<1>1. f \in Records /\ f.path = p /\ f.usage = NoUse
  BY DEF Records, Usages
<1>2. lab' = Append(lab, f) /\ choice' = choice /\ \A i \in DOMAIN lab : lab[i].path # p
  BY DEF AddSource, PathsIn, ToSet
<1> HIDE DEF f
<1>3. /\ lab' \in Seq(Records) /\ Len(lab') = n + 1
      /\ (\A i \in 1..n : lab'[i] = lab[i]) /\ lab'[n + 1] = f
  BY <1>0, <1>1, <1>2, AppendProperties
<1> HIDE DEF n
<1>4. DOMAIN lab' = 1..(n + 1)
  BY <1>3, LenProperties
<1>5. ASSUME NEW i \in DOMAIN lab', NEW j \in DOMAIN lab', lab'[i].path = lab'[j].path PROVE i = j
  <2>1. CASE i \in 1..n /\ j \in 1..n
    BY <1>0, <1>3, <1>5, <2>1 DEF Apart
  <2>2. CASE i = n + 1 /\ j \in 1..n
    BY <1>0, <1>1, <1>2, <1>3, <1>5, <2>2
  <2>3. CASE i \in 1..n /\ j = n + 1
    BY <1>0, <1>1, <1>2, <1>3, <1>5, <2>3
  <2>4. QED
    BY <1>0, <1>4, <2>1, <2>2, <2>3
<1>6. ASSUME NEW i \in DOMAIN lab', IsSource(lab'[i]) PROVE InSim(lab'[i])
  <2>1. CASE i \in 1..n
    BY <1>0, <1>3, <1>6, <2>1 DEF AllSimulate
  <2>2. CASE i = n + 1
    BY <1>1, <1>3, <2>2 DEF InSim
  <2>3. QED
    BY <1>0, <1>4, <2>1, <2>2
<1>7. QED
  BY <1>2, <1>3, <1>5, <1>6 DEF ProjectInv, Workable, Apart, AllSimulate

\* One record changed.
LEMMA OneChanged ==
  ASSUME NEW fs, Workable(fs), AllSimulate(fs), NEW i \in DOMAIN fs, NEW f \in Records, NEW g,
         g = [fs EXCEPT ![i] = f],
         \A j \in DOMAIN fs : fs[j].path = f.path => j = i, KindOf[f.path] = KindOf[fs[i].path], f.usage = fs[i].usage
  PROVE  Workable(g) /\ AllSimulate(g)
<1>0. Len(fs) \in Nat /\ DOMAIN fs = 1..Len(fs) /\ fs \in Seq(Records)
  BY RecordFacts DEF Workable
<1>1. g \in Seq(Records) /\ DOMAIN g = DOMAIN fs
  BY <1>0, ExceptSeq
<1>2. g[i] = f /\ \A j \in DOMAIN fs : j # i => g[j] = fs[j]
  OBVIOUS
<1>3. Apart(g)
  BY <1>1, <1>2 DEF Workable, Apart
<1>4. AllSimulate(g)
  BY <1>1, <1>2 DEF AllSimulate, IsSource, InSim
<1>5. QED
  BY <1>1, <1>3, <1>4 DEF Workable

LEMMA RewriteKeeps ==
  ASSUME ProjectInv, NEW i \in DOMAIN lab, NEW mods \in Contents, Rewrite(i, mods)
  PROVE  ProjectInv'
<1> DEFINE f == [lab[i] EXCEPT !.mods = mods]
<1>1. Workable(lab) /\ AllSimulate(lab) /\ lab[i] \in Records
  BY RecordFacts DEF ProjectInv
<1>2. f \in Records /\ f.path = lab[i].path /\ f.usage = lab[i].usage
  BY <1>1 DEF Records
<1>3. lab' = [lab EXCEPT ![i] = f] /\ choice' = choice
  BY DEF Rewrite
<1> HIDE DEF f
<1>4. \A j \in DOMAIN lab : lab[j].path = f.path => j = i
  BY <1>1, <1>2 DEF Workable, Apart
<1>5. Workable(lab') /\ AllSimulate(lab')
  BY <1>1, <1>2, <1>3, <1>4, OneChanged
<1>6. QED
  BY <1>3, <1>5 DEF ProjectInv

LEMMA MoveKeeps ==
  ASSUME ProjectInv, NEW i \in DOMAIN lab, NEW p \in Names, Move(i, p)
  PROVE  ProjectInv'
<1> DEFINE f == [lab[i] EXCEPT !.path = p]
<1>1. Workable(lab) /\ AllSimulate(lab) /\ lab[i] \in Records /\ choice \in ChoiceType
  BY RecordFacts DEF ProjectInv
<1>2. f \in Records /\ f.path = p /\ f.usage = lab[i].usage
  BY <1>1 DEF Records
<1>3. /\ lab' = [lab EXCEPT ![i] = f] /\ KindOf[p] = KindOf[lab[i].path]
      /\ \A j \in DOMAIN lab : lab[j].path # p
      /\ choice' = [choice EXCEPT !.xdc = IF @ = lab[i].path THEN p ELSE @]
  BY DEF Move, PathsIn, ToSet
<1> HIDE DEF f
<1>4. Workable(lab') /\ AllSimulate(lab')
  <2>1. (\A j \in DOMAIN lab : lab[j].path = f.path => j = i) /\ KindOf[f.path] = KindOf[lab[i].path]
    BY <1>2, <1>3
  <2>2. lab' = [lab EXCEPT ![i] = f]
    BY <1>3
  <2>3. QED
    BY <1>1, <1>2, <2>1, <2>2, OneChanged
<1>5. choice' \in ChoiceType
  BY <1>1, <1>3 DEF ChoiceType
<1>6. QED
  BY <1>4, <1>5 DEF ProjectInv

\* What is left when one record goes.
LEMMA OneDropped ==
  ASSUME NEW fs, Workable(fs), AllSimulate(fs), NEW i \in DOMAIN fs
  PROVE  Workable(RemoveAt(fs, i)) /\ AllSimulate(RemoveAt(fs, i))
<1> DEFINE n == Len(fs)
           a == SubSeq(fs, 1, i - 1)
           b == SubSeq(fs, i + 1, n)
           g == a \o b
           from == [j \in 1..(n - 1) |-> IF j < i THEN j ELSE j + 1]
<1>0. n \in Nat /\ DOMAIN fs = 1..n /\ fs \in Seq(Records) /\ i \in 1..n
  BY RecordFacts DEF Workable
<1>1. /\ a \in Seq(Records) /\ Len(a) = i - 1
      /\ \A j \in 1..(i - 1) : a[j] = fs[j]
  <2>1. 1 \in 1..n + 1 /\ i - 1 \in 0..n /\ 1 <= i - 1 + 1 /\ (i - 1) - 1 + 1 = i - 1
    BY <1>0
  <2> HIDE DEF n
  <2>2. /\ a \in Seq(Records) /\ Len(a) = (i - 1) - 1 + 1
        /\ \A j \in 1..(i - 1) - 1 + 1 : a[j] = fs[1 + j - 1]
    BY <1>0, <2>1, CutKeeps DEF n
  <2> HIDE DEF a
  <2>3. QED
    BY <1>0, <2>1, <2>2
<1>2. /\ b \in Seq(Records) /\ Len(b) = n - i
      /\ \A j \in 1..(n - i) : b[j] = fs[i + j]
  <2>1. i + 1 \in 1..n + 1 /\ n \in 0..n /\ i + 1 <= n + 1 /\ n - (i + 1) + 1 = n - i
    BY <1>0
  <2> HIDE DEF n
  <2>2. /\ b \in Seq(Records) /\ Len(b) = n - (i + 1) + 1
        /\ \A j \in 1..n - (i + 1) + 1 : b[j] = fs[(i + 1) + j - 1]
    BY <1>0, <2>1, CutKeeps DEF n
  <2> HIDE DEF b
  <2>3. ASSUME NEW j \in 1..(n - i) PROVE b[j] = fs[i + j]
    <3>1. j \in 1..n - (i + 1) + 1 /\ (i + 1) + j - 1 = i + j
      BY <1>0, <2>1
    <3>2. QED
      BY <2>2, <3>1
  <2>4. QED
    BY <2>1, <2>2, <2>3
<1> HIDE DEF a, b, n
<1>3. /\ g \in Seq(Records) /\ Len(g) = Len(a) + Len(b)
      /\ \A j \in 1..Len(a) + Len(b) : g[j] = IF j <= Len(a) THEN a[j] ELSE b[j - Len(a)]
  BY <1>1, <1>2, ConcatProperties
<1> HIDE DEF g
<1>4. Len(g) = n - 1 /\ DOMAIN g = 1..(n - 1)
  BY <1>0, <1>1, <1>2, <1>3, LenProperties
<1>5. ASSUME NEW j \in 1..(n - 1) PROVE g[j] = fs[from[j]] /\ from[j] \in 1..n
  <2>1. CASE j < i
    BY <1>0, <1>1, <1>2, <1>3, <2>1
  <2>2. CASE ~(j < i)
    <3>1. j - (i - 1) \in 1..(n - i) /\ ~(j <= Len(a)) /\ j \in 1..Len(a) + Len(b)
      BY <1>0, <1>1, <1>2, <2>2
    <3>2. g[j] = b[j - (i - 1)]
      BY <1>1, <1>3, <3>1
    <3>3. b[j - (i - 1)] = fs[i + (j - (i - 1))]
      BY <1>2, <3>1
    <3>4. i + (j - (i - 1)) = j + 1
      BY <1>0
    <3>5. QED
      BY <1>0, <2>2, <3>2, <3>3, <3>4
  <2>3. QED
    BY <2>1, <2>2
<1>6. \A j, k \in 1..(n - 1) : from[j] = from[k] => j = k
  BY <1>0
<1> HIDE DEF from
<1>7. Apart(g)
  BY <1>0, <1>4, <1>5, <1>6 DEF Workable, Apart
<1>8. AllSimulate(g)
  BY <1>0, <1>4, <1>5 DEF AllSimulate
<1>9. RemoveAt(fs, i) = g
  BY DEF RemoveAt, g, a, b, n
<1>10. QED
  BY <1>3, <1>7, <1>8, <1>9 DEF Workable

LEMMA DropKeeps ==
  ASSUME ProjectInv, NEW i \in DOMAIN lab, Drop(i)
  PROVE  ProjectInv'
<1>1. Workable(lab) /\ AllSimulate(lab) /\ choice \in ChoiceType
  BY DEF ProjectInv
<1>2. lab' = RemoveAt(lab, i) /\ choice' = [choice EXCEPT !.xdc = IF @ = lab[i].path THEN NoName ELSE @]
  BY DEF Drop
<1>3. Workable(lab') /\ AllSimulate(lab')
  BY <1>1, <1>2, OneDropped
<1>4. choice' \in ChoiceType
  BY <1>1, <1>2 DEF ChoiceType
<1>5. QED
  BY <1>3, <1>4 DEF ProjectInv

LEMMA ResolvedNames ==
  ASSUME NEW fs, Workable(fs), NEW prefer
  PROVE  Resolve(fs, prefer).roots \subseteq ModuleNames /\ Resolve(fs, prefer).tbs \subseteq ModuleNames
<1> DEFINE here == {i \in DOMAIN fs : InDesign(fs[i])}
           all == ParseModules(fs, DOMAIN fs)
           ofBoard == ParseModules(fs, here)
           design == {m \in ofBoard.mods : ~m.tb}
           tbs == {m \in all.mods : m.tb /\ InSim(fs[m.at[1]])}
           top == IF ofBoard.twice \/ design = {} THEN NoName ELSE TopOf(design, RootsOf(design), XdcsOf(fs), prefer)
<1>1. Resolve(fs, prefer) = ResolvedTo(design, tbs, top, all.twice, XdcsOf(fs), prefer)
  BY DEF Resolve
<1>2. ASSUME NEW where \in SUBSET DOMAIN fs, NEW m \in ParseModules(fs, where).mods PROVE m.name \in ModuleNames
  <2>1. ParseModules(fs, where).mods = Kept(fs, Firsts(fs, Definitions(fs, where)))
    BY DEF ParseModules
  <2>2. PICK a \in Firsts(fs, Definitions(fs, where)) : m = KeptOf(fs, Firsts(fs, Definitions(fs, where)), a)
    BY <2>1, KeptIs
  <2>3. a \in Everywhere(fs)
    BY <2>2, Narrower DEF Firsts
  <2>4. m.name = ModAt(fs, a).name
    BY <2>2, KeptFields
  <2>5. QED
    BY <2>3, <2>4, DefinitionFacts
<1>3. here \in SUBSET DOMAIN fs /\ DOMAIN fs \in SUBSET DOMAIN fs
  OBVIOUS
<1>4. \A m \in ofBoard.mods : m.name \in ModuleNames
  BY <1>2, <1>3
<1>5. \A m \in all.mods : m.name \in ModuleNames
  BY <1>2, <1>3
<1> HIDE DEF all, ofBoard
<1>6. RootsOf(design) \subseteq ModuleNames
  BY <1>4 DEF RootsOf
<1>7. {m.name : m \in tbs} \subseteq ModuleNames
  BY <1>5
<1> HIDE DEF design, tbs, top
<1>8. Resolve(fs, prefer).roots = RootsOf(design) /\ Resolve(fs, prefer).tbs = {m.name : m \in tbs}
  BY <1>1 DEF ResolvedTo
<1>9. QED
  BY <1>6, <1>7, <1>8

LEMMA PickRoleKeeps ==
  ASSUME ProjectInv, NEW role \in {"top", "tb", "xdc"}, NEW v, PickRole(role, v)
  PROVE  ProjectInv'
<1> DEFINE r == Resolve(lab, choice)
<1>1. /\ lab' = lab /\ choice' = [choice EXCEPT ![role] = v]
      /\ v \in (CASE role = "top" -> r.roots [] role = "tb" -> r.tbs [] OTHER -> XdcsOf(lab))
  BY DEF PickRole
<1>2. r.roots \subseteq ModuleNames /\ r.tbs \subseteq ModuleNames /\ XdcsOf(lab) \subseteq Names
  BY ResolvedNames, XdcsAre DEF ProjectInv
<1> HIDE DEF r
<1>3. choice \in ChoiceType
  BY DEF ProjectInv
<1>4. choice' \in ChoiceType
  <2>1. CASE role = "top"
    <3>1. v \in TopNames
      BY <1>1, <1>2, <2>1 DEF TopNames
    <3>2. choice' = [choice EXCEPT !.top = v]
      BY <1>1, <2>1
    <3>3. QED
      BY <1>3, <3>1, <3>2 DEF ChoiceType
  <2>2. CASE role = "tb"
    <3>1. v \in TopNames
      BY <1>1, <1>2, <2>2 DEF TopNames
    <3>2. choice' = [choice EXCEPT !.tb = v]
      BY <1>1, <2>2
    <3>3. QED
      BY <1>3, <3>1, <3>2 DEF ChoiceType
  <2>3. CASE role = "xdc"
    <3>1. v \in Names
      BY <1>1, <1>2, <2>3
    <3>2. choice' = [choice EXCEPT !.xdc = v]
      BY <1>1, <2>3
    <3>3. QED
      BY <1>3, <3>1, <3>2 DEF ChoiceType
  <2>4. QED
    BY <2>1, <2>2, <2>3
<1>5. QED
  BY <1>1, <1>4 DEF ProjectInv

LEMMA ProjectKeeps == ProjectInv /\ [ProjectStep]_projectVars => ProjectInv'
<1> SUFFICES ASSUME ProjectInv, [ProjectStep]_projectVars PROVE ProjectInv'
  OBVIOUS
<1>1. ASSUME NEW project \in Projects \cup {NoProject},
             OpenFolder([i \in DOMAIN lab |-> [lab[i] EXCEPT !.usage = NoUse]], project)
      PROVE  ProjectInv'
  BY <1>1, OpenFolderKeeps
<1>2. ASSUME NEW p \in Names, NEW mods \in Contents, AddSource(p, mods) PROVE ProjectInv'
  BY <1>2, AddSourceKeeps
<1>3. ASSUME NEW i \in DOMAIN lab, NEW mods \in Contents, Rewrite(i, mods) PROVE ProjectInv'
  BY <1>3, RewriteKeeps
<1>4. ASSUME NEW i \in DOMAIN lab, NEW p \in Names, Move(i, p) PROVE ProjectInv'
  BY <1>4, MoveKeeps
<1>5. ASSUME NEW i \in DOMAIN lab, Drop(i) PROVE ProjectInv'
  BY <1>5, DropKeeps
<1>6. ASSUME NEW role \in {"top", "tb", "xdc"}, NEW v \in ModuleNames \cup Names, PickRole(role, v) PROVE ProjectInv'
  BY <1>6, PickRoleKeeps
<1>7. CASE UNCHANGED projectVars
  BY <1>7 DEF ProjectInv, projectVars
<1>8. QED
  BY <1>1, <1>2, <1>3, <1>4, <1>5, <1>6, <1>7 DEF ProjectStep

LEMMA ProjectInvHolds == ProjectSpec => []ProjectInv
<1>1. ProjectInit => ProjectInv
  BY ProjectStarts
<1>2. QED
  BY <1>1, ProjectKeeps, PTL DEF ProjectSpec

(* The records stay one for a path and the choice a choice, whatever is opened,  *)
(* added, written, moved, dropped or picked (project.js).                        *)
THEOREM ProjectTypes == ProjectSpec => []ProjectTypeOK
<1>1. ProjectInv => ProjectTypeOK
  BY DEF ProjectInv, ProjectTypeOK, Workable, ChoiceType, TopNames
<1>2. QED
  BY <1>1, ProjectInvHolds, PTL

\* However the folder lists them: Listing says that an order names each record once.
LEMMA ReopensAt ==
  ASSUME Workable(lab), AllSimulate(lab), SettledFor(lab, choice),
         NeedsProject(lab, Resolve(lab, choice)) \/ ~choice.project,
         NEW order, Listing(order, lab)
  PROVE  OpensAs(Reopened(lab, choice, order), Resolve(lab, choice))
<1> DEFINE again == Import(FolderRead(lab, order), ArchiveProject(lab, choice))
<1>1. OpensSame(again, lab, choice)
  BY ProjectReopens, FolderReopens
<1>2. Reopened(lab, choice, order) = again
  BY DEF Reopened, FolderRead
<1> HIDE DEF again
<1>3. QED
  BY <1>1, <1>2 DEF OpensSame, SameMeaning, OpensAs

LEMMA ReopensHere ==
  ASSUME Workable(lab), AllSimulate(lab)
  PROVE  ArchiveReopensTheSame
<1> DEFINE r == Resolve(lab, choice)
<1> SUFFICES ASSUME ~r.error, ~r.tbError
             PROVE  /\ r.topFile \in DesignFiles(lab)
                    /\ (NeedsProject(lab, r) \/ ~choice.project) =>
                         \A order \in Orders(Len(lab)) : OpensAs(Reopened(lab, choice, order), r)
  BY DEF ArchiveReopensTheSame, SettledReopens
<1>1. SettledFor(lab, choice)
  BY DEF SettledFor
<1>2. r.topFile \in DesignFiles(lab)
  BY <1>1, SettledFacts
<1>3. ASSUME NeedsProject(lab, r) \/ ~choice.project, NEW order \in Orders(Len(lab))
      PROVE  OpensAs(Reopened(lab, choice, order), r)
  BY <1>1, <1>3, OrdersList, ReopensAt
<1>4. QED
  BY <1>2, <1>3

(* The archive of a workspace whose choice is settled, unpacked where the files   *)
(* are listed in any of the orders, opens as the same top, in the same file, the  *)
(* same testbench and constraints, with the same files for the board: for every   *)
(* set of files, contents and projects and any number of changes.                *)
THEOREM ArchiveReopens == ProjectSpec => []ArchiveReopensTheSame
<1>1. ProjectInv => ArchiveReopensTheSame
  BY ReopensHere DEF ProjectInv
<1>2. QED
  BY <1>1, ProjectInvHolds, PTL

\* The same for every order, not only those that TLC can try.
ReopensInAnyOrder ==
  LET r == Resolve(lab, choice) IN
  ~r.error /\ ~r.tbError /\ (NeedsProject(lab, r) \/ ~choice.project) =>
    \A order \in [DOMAIN lab -> DOMAIN lab] : Listing(order, lab) => OpensAs(Reopened(lab, choice, order), r)

(* However the folder lists the files of the archive (entriesFromFileList takes them *)
(* as they come), it opens as the workspace that was saved.                       *)
THEOREM ArchiveReopensInAnyOrder == ProjectSpec => []ReopensInAnyOrder
<1>1. ProjectInv => ReopensInAnyOrder
  BY ReopensAt DEF ProjectInv, ReopensInAnyOrder, SettledFor
<1>2. QED
  BY <1>1, ProjectInvHolds, PTL

-----------------------------------------------------------------------------
(* The parts side by side *)

\* A step of the desk is a step of one part, and the others stay as they are.
LEMMA DeskMoves ==
  ASSUME DeskNext
  PROVE  /\ EditorNext \/ UNCHANGED editorVars
         /\ WorkspaceStep \/ UNCHANGED workspaceVars
         /\ ProjectStep \/ UNCHANGED projectVars
         /\ BoardStep \/ UNCHANGED boardVars
         /\ BuildStep \/ UNCHANGED buildVars
         /\ SiteStep \/ UNCHANGED site
         /\ SwitchStep \/ PageStep \/ UNCHANGED homeVars
         /\ StageStep \/ UNCHANGED stageVars
         /\ LinksStep \/ UNCHANGED linkVars
<1>1. DeskStep
  BY DEF DeskNext
<1>2. part \in Commands => EditorNext
  BY <1>1 DEF DeskStep, Commands, EditorNext
<1>3. part \notin Commands => UNCHANGED editorVars
  BY DEF DeskNext, Rest
<1>4. EditorNext \/ UNCHANGED editorVars
  BY <1>2, <1>3
<1>5. WorkspaceStep \/ UNCHANGED workspaceVars
  BY <1>1 DEF DeskStep, DeskNext, Rest
<1>6. ProjectStep \/ UNCHANGED projectVars
  BY <1>1 DEF DeskStep, DeskNext, Rest
<1>7. BoardStep \/ UNCHANGED boardVars
  BY <1>1 DEF DeskStep, DeskNext, Rest
<1>8. BuildStep \/ UNCHANGED buildVars
  BY <1>1 DEF DeskStep, DeskNext, Rest
<1>9. SiteStep \/ UNCHANGED site
  BY <1>1 DEF DeskStep, DeskNext, Rest
<1>10. SwitchStep \/ PageStep \/ UNCHANGED homeVars
  BY <1>1 DEF DeskStep, DeskNext, Rest
<1>11. StageStep \/ UNCHANGED stageVars
  BY <1>1 DEF DeskStep, DeskNext, Rest
<1>12. LinksStep \/ UNCHANGED linkVars
  BY <1>1 DEF DeskStep, DeskNext, Rest
<1>13. QED
  BY <1>4, <1>5, <1>6, <1>7, <1>8, <1>9, <1>10, <1>11, <1>12

\* The parts share no variable: what one of them does, the others do not see.  The desk
\* is therefore a behaviour of every part of it.
THEOREM DeskRunsItsParts ==
  DeskSpec => /\ EditorSpec /\ WorkspaceSpec /\ ProjectSpec /\ BoardSpec /\ BuildSpec
              /\ SiteSpec /\ HomePageSpec /\ LinksSpec
<1>1. DeskInit => /\ EditorInit /\ WorkspaceInit /\ ProjectInit /\ BoardInit /\ BuildInit
                  /\ SiteInit /\ HomeInit /\ StageInit /\ LinksInit
  BY DEF DeskInit
<1>2. [DeskNext]_deskVars =>
        /\ [EditorNext]_editorVars /\ [WorkspaceStep]_workspaceVars /\ [ProjectStep]_projectVars
        /\ [BoardStep]_boardVars /\ [BuildStep]_buildVars /\ [SiteStep]_site
        /\ [SwitchStep \/ PageStep]_homeVars /\ [StageStep]_stageVars /\ [LinksStep]_linkVars
  <2>1. CASE DeskNext
    BY <2>1, DeskMoves
  <2>2. CASE UNCHANGED deskVars
    BY <2>2 DEF deskVars
  <2>3. QED
    BY <2>1, <2>2
<1>3. QED
  BY <1>1, <1>2, PTL DEF DeskSpec, EditorSpec, WorkspaceSpec, ProjectSpec, BoardSpec, BuildSpec, SiteSpec,
                         HomePageSpec, HomeSpec, StageSpec, LinksSpec

\* Each part keeps its types while all of them move: runs, top modules, linter and
\* waveforms of the extension, the files and the choice of the simulator, its board and
\* its build workers, the account page, and the home page's board and stage.
THEOREM DeskTypes == DeskSpec => []DeskTypeOK
<1>1. /\ EditorSpec => []EditorTypeOK
      /\ WorkspaceSpec => []WorkspaceTypeOK
      /\ ProjectSpec => []ProjectTypeOK
      /\ BoardSpec => []BoardTypeOK
      /\ BuildSpec => []BuildTypeOK
      /\ SiteSpec => []SiteTypeOK
      /\ HomeSpec => []HomeTypeOK
      /\ StageSpec => []StageTypeOK
  BY EditorTypeCorrect, WorkspaceTypeCorrect, ProjectTypes, BoardTypeCorrect, BuildTypeCorrect,
     SiteTypeCorrect, HomeTypeCorrect, StageTypeCorrect
<1>2. HomePageSpec => HomeSpec /\ StageSpec
  BY DEF HomePageSpec
<1>3. QED
  BY <1>1, <1>2, DeskRunsItsParts, PTL DEF DeskTypeOK

\* Each part keeps its promise while all of them move.
THEOREM DeskKeepsItsPromises ==
  DeskSpec => [](/\ EditorKeepsItsWord /\ EditsAreKept /\ ArchiveReopensTheSame /\ CircuitSeesTheBoard
                 /\ RunnableMeansValidated /\ SiteKeepsFaith /\ HomeTellsOneStory /\ CodeAndBoardAgree)
<1>1. /\ EditorSpec => []EditorKeepsItsWord
      /\ WorkspaceSpec => []EditsAreKept
      /\ ProjectSpec => []ArchiveReopensTheSame
      /\ BoardSpec => []CircuitSeesTheBoard
      /\ BuildSpec => []RunnableMeansValidated
      /\ SiteSpec => []SiteKeepsFaith
      /\ HomePageSpec => []HomeTellsOneStory
      /\ LinksSpec => []CodeAndBoardAgree
  BY EditorKeepsItsWordHolds, EditsAreKeptHolds, ArchiveReopens, CircuitSeesTheBoardHolds,
     RunnableMeansValidatedHolds, SiteKeepsFaithHolds, HomeTellsOneStoryHolds, CodeAndBoardAgreeHolds
<1>2. QED
  BY <1>1, DeskRunsItsParts, PTL
=============================================================================
