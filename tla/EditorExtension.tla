--------------------------- MODULE EditorExtension ----------------------------
(***************************************************************************)
(* The VS Code extension (extension.js).  Five parts of it keep state, each   *)
(* with its own step: `Run on Basys3` and the one collection of problems all  *)
(* runs share (RunStep), the top module remembered per project (TopStep),     *)
(* the ownership of verilog.linting.path (LinterStep), the waveform opened    *)
(* after a simulation (SimStep) and the first design of an empty folder       *)
(* (DesignStep).  What the extension awaits (a dialog, a command, a write of  *)
(* VS Code's storage) splits a handler in two actions.                        *)
(***************************************************************************)
EXTENDS Naturals, FiniteSets, Sequences

CONSTANTS Folders,     \* folders of the workspace
          Above,       \* the folder each lies in; the top lies in itself
          XprCount,    \* project files in each
          HasSources,  \* those with a <name>.srcs/sources_1 folder
          InSources,   \* those that are a <name>.srcs folder or lie in one
          Files,       \* design files; each lies in a folder: FolderOf
          FolderOf, Errors, Tops, Waves, MaxCalls

NoFile == "no file"
NoTop  == "no top"

ASSUME EditorAssumption ==
  /\ Above \in [Folders -> Folders] /\ XprCount \in [Folders -> Nat]
  /\ HasSources \subseteq Folders /\ InSources \subseteq Folders
  /\ FolderOf \in [Files -> Folders]
  /\ NoFile \notin Files /\ NoTop \notin Tops /\ MaxCalls \in Nat

VARIABLES active,    \* the file of the active editor
          calls,     \* commands given so far
          runs,      \* runs not ended: [file, stage, errors]
          problems,  \* file -> errors shown there
          reported,  \* files and errors of the run that ended last
          memory,    \* root -> top, in VS Code's workspace state
          picks,     \* calls of pickTop not ended
          answered,  \* what the last call of pickTop gave the task
          setting, owned, installed, lintOffer, recording, \* the linter's path, below
          before,    \* what the user had there (history)
          torn,      \* a window was closed, or a command given, between two writes (history)
          disk,      \* folder -> wave file -> [stamp, content], 0 when there is none
          clock, sims, opened,
          inFolder,   \* file of the opened folder -> who wrote it, "" for none
          offer      \* the question about an empty folder: asked, or put away

runVars    == <<active, runs, problems, reported>>
topVars    == <<memory, picks, answered>>
linterVars == <<setting, owned, installed, lintOffer, recording, before, torn>>
simVars    == <<disk, clock, sims, opened>>
designVars == <<inFolder, offer>>
editorVars == <<runVars, topVars, linterVars, simVars, designVars, calls>>

Call == calls < MaxCalls /\ calls' = calls + 1

-----------------------------------------------------------------------------
(* Run on Basys3 *)

Switch(f) == active' = f /\ UNCHANGED <<runs, problems, reported>>

NoProblems == [f \in Files |-> {}]
InFile(f, es) == [NoProblems EXCEPT ![f] = es]

\* The command: an edited or unnamed document is saved first, which is awaited.
PressRun(dirty, untitled) ==
  /\ Call /\ active # NoFile
  /\ runs' = runs \cup {[id |-> calls, file |-> active, untitled |-> untitled,
                         stage |-> IF dirty \/ untitled THEN "saving" ELSE "starting"]}
  /\ UNCHANGED <<active, problems, reported>>

\* The document may not be saved; an unnamed one is then the active editor's.
Saved(r, ok) ==
  LET file == IF r.untitled THEN active ELSE r.file IN
  /\ r.stage = "saving"
  /\ runs' = (runs \ {r}) \cup
       IF ok /\ file # NoFile THEN {[r EXCEPT !.file = file, !.stage = "starting"]} ELSE {}
  /\ UNCHANGED <<active, problems, reported, calls>>

\* The terminal opens: the problems of every earlier run are cleared.
TerminalOpens(r) ==
  /\ r.stage = "starting"
  /\ problems' = NoProblems
  /\ runs' = (runs \ {r}) \cup {[r EXCEPT !.stage = "running"]}
  /\ UNCHANGED <<active, reported, calls>>

\* The command ended, was killed with its terminal, or could not start: finish.
PublishAdding(ps) == [f \in Files |-> problems[f] \cup ps[f]]  \* mutant: the collection is not cleared
Publish(ps) == ps
Finished(r, place, es) ==
  /\ r.stage = "running"
  /\ runs' = runs \ {r}
  /\ problems' = Publish(InFile(place, es)) /\ reported' = InFile(place, es)
  /\ UNCHANGED <<active, calls>>

RunStep ==
  /\ \/ \E f \in Files \cup {NoFile} : f # active /\ Switch(f) /\ Call
     \/ \E dirty, untitled \in BOOLEAN : PressRun(dirty, untitled)
     \/ \E r \in runs :
          \/ \E ok \in BOOLEAN : Saved(r, ok)
          \/ TerminalOpens(r)
          \/ \E place \in Files, es \in SUBSET Errors : Finished(r, place, es)
  /\ UNCHANGED <<topVars, linterVars, simVars, designVars>>

-----------------------------------------------------------------------------
(* The top module *)

\* The walk up to the project root, six folders at most; two project files are an
\* error, and the folder itself stands for its root then.
Holds(d) == XprCount[d] = 1 \/ (XprCount[d] = 0 /\ d \in HasSources)
Up(d)    == IF XprCount[d] = 0 /\ d \notin HasSources /\ d \in InSources THEN Above[d] ELSE d
RootOf(folder) == LET end == Up(Up(Up(Up(Up(Up(folder)))))) IN IF Holds(end) THEN end ELSE folder
Roots == {RootOf(d) : d \in Folders}

\* What is written is what was read before, with one key set or dropped: the
\* storage may hand out its own object or a copy, so it was read then or is as now.
Write(seen, root, top) == \E m \in {seen, memory} : memory' = [m EXCEPT ![root] = top]

PickTop(f) ==
  /\ Call
  /\ picks' = picks \cup {[id |-> calls, root |-> RootOf(FolderOf[f]), stage |-> "tops", seen |-> memory, of |-> {}]}
  /\ UNCHANGED <<memory, answered>>

\* `dewfpga tops` answered; with one candidate or none the command decides itself.
TopsFail(p) ==
  /\ p.stage = "tops" /\ picks' = picks \ {p} /\ answered' = NoTop /\ UNCHANGED <<memory, calls>>
TopsAnswer(p, of) ==
  /\ p.stage = "tops" /\ UNCHANGED calls
  /\ IF Cardinality(of) < 2
     THEN /\ picks' = picks \ {p} /\ answered' = "auto"
          /\ IF memory[p.root] # NoTop THEN Write(memory, p.root, NoTop) ELSE UNCHANGED memory
     ELSE /\ picks' = (picks \ {p}) \cup {[p EXCEPT !.stage = "pick", !.seen = memory, !.of = of]}
          /\ UNCHANGED <<memory, answered>>

\* The choice is written over what was read before the dialog opened.
Stale(p)  == p.seen[p.root] # NoTop /\ p.seen[p.root] \notin p.of
Pick(p, top) ==
  /\ p.stage = "pick" /\ top \in p.of /\ picks' = picks \ {p} /\ answered' = top
  /\ Write(p.seen, p.root, top) /\ UNCHANGED calls
Escape(p) ==
  /\ p.stage = "pick" /\ picks' = picks \ {p} /\ answered' = NoTop /\ UNCHANGED calls
  /\ IF Stale(p) THEN Write(p.seen, p.root, NoTop) ELSE UNCHANGED memory
ForgetTop(f) ==
  /\ Call /\ UNCHANGED <<picks, answered>>
  /\ Write(memory, RootOf(FolderOf[f]), NoTop)

TopStep ==
  /\ \/ \E f \in Files : PickTop(f) \/ ForgetTop(f)
     \/ \E p \in picks :
          \/ TopsFail(p) \/ Escape(p)
          \/ \E of \in SUBSET Tops : TopsAnswer(p, of)
          \/ \E top \in Tops : Pick(p, top)
  /\ UNCHANGED <<runVars, linterVars, simVars, designVars>>

-----------------------------------------------------------------------------
(* The linter's path in the user settings: unset, "", the user's own, or the   *)
(* folder of an installed version of this extension.                         *)

Shim(v) == <<"shim", v>>
Unset == <<"unset">>
Empty == <<"">>
Own   == <<"own">>
NotOwned == [value |-> Unset, previous |-> Unset]

Plan ==
  IF owned # NotOwned /\ setting = owned.value
  THEN IF setting = Shim(installed) THEN [action |-> "already"]
       ELSE [action |-> "set", previous |-> owned.previous]
  ELSE IF setting \in {Unset, Empty} THEN [action |-> "set", previous |-> setting]
  ELSE [action |-> "left alone"]

\* Two writes, one after the other: the setting, then who owns it.  A command given
\* between them sees the setting of the one and the owner of an earlier one.
SetupLinter ==
  /\ Plan.action = "set"
  /\ setting' = Shim(installed)
  /\ recording' = recording \cup {[value |-> Shim(installed), previous |-> Plan.previous]}
  /\ torn' = (torn \/ recording # {}) /\ UNCHANGED <<owned, installed, before>>
RemoveLinter ==
  /\ Call /\ owned # NotOwned
  /\ IF setting = owned.value
     THEN /\ setting' = owned.previous /\ recording' = recording \cup {NotOwned} /\ UNCHANGED owned
     ELSE /\ owned' = NotOwned /\ UNCHANGED <<setting, recording>>
  /\ torn' = (torn \/ recording # {}) /\ UNCHANGED <<installed, lintOffer, before>>
Recorded(o) ==
  /\ recording' = recording \ {o} /\ owned' = o
  /\ UNCHANGED <<setting, installed, lintOffer, before, torn, calls>>
\* The window is closed between the two writes.
WindowCloses ==
  /\ recording # {} /\ recording' = {} /\ torn' = TRUE
  /\ UNCHANGED <<setting, owned, installed, lintOffer, before, calls>>

\* Asked only when a setup would write, and never again after `Not now`.  What is
\* there when the answer comes decides what is written.
OfferLinter ==
  /\ Call /\ owned = NotOwned /\ lintOffer = "idle" /\ setting \in {Unset, Empty}
  /\ lintOffer' = "asked" /\ UNCHANGED <<setting, owned, installed, recording, before, torn>>
AnswerLinter(answer) ==
  /\ lintOffer = "asked" /\ UNCHANGED calls
  /\ lintOffer' = IF answer = "Not now" THEN "never" ELSE "idle"
  /\ IF answer = "Set up" /\ Plan.action = "set" THEN SetupLinter
     ELSE UNCHANGED <<setting, owned, installed, recording, before, torn>>
\* Not in the instant between the two writes.
UserSets(v) ==
  /\ Call /\ recording = {} /\ setting' = v /\ before' = v /\ UNCHANGED <<owned, installed, lintOffer, recording, torn>>
\* The folder of the extension carries its version.
Upgrade ==
  /\ installed = 1 /\ recording = {} /\ installed' = 2
  /\ UNCHANGED <<setting, owned, lintOffer, recording, before, torn, calls>>

LinterStep ==
  /\ \/ Call /\ SetupLinter /\ UNCHANGED lintOffer
     \/ RemoveLinter \/ WindowCloses \/ Upgrade \/ OfferLinter
     \/ \E o \in recording : Recorded(o)
     \/ \E answer \in {"Set up", "Not now", "closed"} : AnswerLinter(answer)
     \/ \E v \in {Unset, Empty, Own} : v # setting /\ UserSets(v)
  /\ UNCHANGED <<runVars, topVars, simVars, designVars>>

-----------------------------------------------------------------------------
(* The waveform of a simulation *)

\* `dewfpga sim` works in the project root, `make sim` where it is started.
SimFolder(f, kind) == IF kind = "cli" THEN RootOf(FolderOf[f]) ELSE FolderOf[f]

\* The folder is resolved and its files are recorded when the task starts.
SimStarts(kind) ==
  LET folder == SimFolder(active, kind) IN
  /\ Call /\ active # NoFile
  /\ sims' = sims \cup {[id |-> calls, folder |-> folder, seen |-> disk[folder], wrote |-> {}]}
  /\ UNCHANGED <<active, disk, clock, opened>>
SimSwitch(f) == Call /\ active' = f /\ UNCHANGED simVars

\* The simulator writes a file; two writes may carry the same time stamp.
SimWrites(s, w, content) ==
  LET file == [stamp |-> clock, content |-> content] IN
  /\ Call /\ disk' = [disk EXCEPT ![s.folder][w] = file]
  /\ sims' = {[q EXCEPT !.wrote = IF q.folder = s.folder /\ file # disk[s.folder][w] THEN @ \cup {w} ELSE @] : q \in sims}
  /\ UNCHANGED <<active, clock, opened>>
DiskTick == clock < 2 /\ clock' = clock + 1 /\ UNCHANGED <<active, disk, sims, opened, calls>>

\* New or changed since the start; the newest, then the first by name.
Fresh(s) == {w \in Waves : disk[s.folder][w].stamp > 0 /\ disk[s.folder][w] # s.seen[w]}
SimEnds(s, ok) ==
  /\ sims' = sims \ {s}
  /\ IF ~ok \/ Fresh(s) = {} THEN opened' = [sim |-> s, wave |-> NoFile]
     ELSE \E w \in Fresh(s) :
            /\ \A u \in Fresh(s) : disk[s.folder][u].stamp <= disk[s.folder][w].stamp
            /\ opened' = [sim |-> s, wave |-> w]
  /\ UNCHANGED <<active, disk, clock, calls>>

SimStep ==
  /\ \/ \E kind \in {"cli", "make"} : SimStarts(kind)
     \/ \E f \in Files \cup {NoFile} : f # active /\ SimSwitch(f)
     \/ \E s \in sims :
          \/ \E w \in Waves, content \in 1..2 : SimWrites(s, w, content)
          \/ \E ok \in BOOLEAN : SimEnds(s, ok)
     \/ DiskTick
  /\ UNCHANGED <<runs, problems, reported, topVars, linterVars, designVars>>

-----------------------------------------------------------------------------
(* The first design of an empty folder *)

Starter == {"top.sv", "AGENTS.md", "CLAUDE.md"}
FolderFiles == Starter \cup {"notes.txt"}

\* A dotfile does not count: the folder is empty without any of these.
IsEmptyFolder == \A n \in FolderFiles : inFolder[n] = ""

\* The agent's files are copied when the command line is found.  One that is
\* there already is never written over; with a top.sv nothing is written.
Missing(cli) == {n \in IF cli THEN Starter ELSE {"top.sv"} : inFolder[n] = ""}
NewDesign(cli) ==
  inFolder' = IF inFolder["top.sv"] # "" THEN inFolder
             ELSE [n \in FolderFiles |-> IF n \in Missing(cli) THEN "dewfpga" ELSE inFolder[n]]

OfferStarter == Call /\ offer = "idle" /\ IsEmptyFolder /\ offer' = "asked" /\ UNCHANGED inFolder
AnswerStarter(answer) ==
  /\ offer = "asked" /\ UNCHANGED calls
  /\ offer' = IF answer = "Never" THEN "never" ELSE "idle"
  /\ IF answer = "Create" THEN \E cli \in BOOLEAN : NewDesign(cli) ELSE UNCHANGED inFolder
PressNewDesign == Call /\ (\E cli \in BOOLEAN : NewDesign(cli)) /\ UNCHANGED offer
UserWrites(n) == Call /\ inFolder' = [inFolder EXCEPT ![n] = "user"] /\ UNCHANGED offer
UserDeletes(n) == Call /\ inFolder' = [inFolder EXCEPT ![n] = ""] /\ UNCHANGED offer

DesignStep ==
  /\ \/ OfferStarter \/ PressNewDesign
     \/ \E answer \in {"Create", "Never", "closed"} : AnswerStarter(answer)
     \/ \E n \in FolderFiles : UserWrites(n) \/ (inFolder[n] # "" /\ UserDeletes(n))
  /\ UNCHANGED <<runVars, topVars, linterVars, simVars>>

-----------------------------------------------------------------------------
EditorInit ==
  /\ active \in Files /\ calls = 0
  /\ runs = {} /\ problems = NoProblems /\ reported = NoProblems
  /\ memory = [r \in Roots |-> NoTop] /\ picks = {} /\ answered = NoTop
  /\ setting \in {Unset, Empty, Own} /\ before = setting
  /\ owned = NotOwned /\ installed = 1 /\ lintOffer = "idle" /\ recording = {} /\ torn = FALSE
  /\ disk = [d \in Folders |-> [w \in Waves |-> [stamp |-> 0, content |-> 0]]]
  /\ clock = 1 /\ sims = {} /\ opened = [wave |-> NoFile]
  /\ inFolder = [n \in FolderFiles |-> ""] /\ offer = "idle"

EditorNext == RunStep \/ TopStep \/ LinterStep \/ SimStep \/ DesignStep
EditorSpec == EditorInit /\ [][EditorNext]_editorVars

-----------------------------------------------------------------------------
(* Properties *)

EditorTypeOK ==
  /\ active \in Files \cup {NoFile} /\ calls \in 0..MaxCalls
  /\ \A r \in runs : r.stage \in {"saving", "starting", "running"} /\ r.file \in Files
  /\ problems \in [Files -> SUBSET Errors]
  /\ memory \in [Roots -> Tops \cup {NoTop}] /\ answered \in Tops \cup {NoTop, "auto"}
  /\ {setting, before, owned.value, owned.previous} \subseteq {Unset, Empty, Own, Shim(1), Shim(2)}
  /\ opened.wave \in Waves \cup {NoFile}

\* The problems shown are those of the run that ended last, or none.
ProblemsOfOneRun == problems \in {NoProblems, reported}

\* A wave that is opened was written since its own simulation started, in the
\* folder that one ran in.
OpenedIsNew == opened.wave # NoFile => opened.wave \in opened.sim.wrote

\* While the extension owns the setting, what it would put back is the user's,
\* and never a path of its own; only a torn pair of writes may mix unset with "".
PreviousIsUsers ==
  (owned # NotOwned /\ setting = owned.value /\ recording = {}) =>
    /\ owned.previous \in {Unset, Empty}
    /\ torn \/ owned.previous = before

(* The editor keeps its word, whatever overlaps: no error of an earlier run is *)
(* left beside those of the last one, no old waveform is opened, and removing *)
(* the linter, also after an update of the extension, restores the user's own. *)
EditorKeepsItsWord == ProblemsOfOneRun /\ OpenedIsNew /\ PreviousIsUsers
=============================================================================
