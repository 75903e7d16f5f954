---------------------------- MODULE SimWorkspace ------------------------------
(***************************************************************************)
(* The files of the browser simulator and their persistence (files.js,        *)
(* workspace.js, main.js): the tabs, what is saved in the browser 400 ms       *)
(* after the last change and when the page hides, a write that fails, the     *)
(* share link, replacing the workspace, and the next boot.                    *)
(***************************************************************************)
EXTENDS Naturals, FiniteSets, SequencesExt

CONSTANTS Paths, Sources, Constraints,  \* the names the user gives, those of each kind
          Texts, Blank, Big, Typed,     \* Big exceeds the 1 MiB a file may have; Typed are the student's
          Examples, Labs,            \* what the page brings along and what the user opens: sequences of records
          MaxFiles, MaxDeeds

None      == "none"
NoWork    == [files |-> <<>>]  \* no link, nothing saved
NoBoot    == [from |-> None]
NoReplace == [asked |-> TRUE, dropped |-> {}]

VARIABLES files,     \* the tabs in order: [path, text, raw], raw while its bytes are as they were read
          shown,     \* the open file
          preferXdc, \* the constraints file the student picked
          imported, pane,
          dirty, saveTimer, failed, saved,    \* workspace.js
          hash,      \* the address: what a share link carries, or None
          boot,      \* how the page came up last (history)
          asked,     \* whether the last replacement asked, and what it dropped (history)
          deeds

workspaceVars == <<files, shown, preferXdc, imported, pane, dirty, saveTimer, failed, saved, hash, boot, asked, deeds>>

Deed == deeds < MaxDeeds /\ deeds' = deeds + 1
\* What a boot and a replacement did is remembered for one step.
Calm == boot' = NoBoot /\ asked' = NoReplace

PathsOf(fs)  == {fs[i].path : i \in DOMAIN fs}
At(fs, p)    == CHOOSE i \in DOMAIN fs : fs[i].path = p
Kind(p)      == IF p \in Constraints THEN "xdc" ELSE "source"

\* validateImport: number, size and names of the files; all of them or none.  (The
\* 8 MiB they may have together are left out.)
ValidUncounted(fs) ==  \* mutant: any number of files
  fs # <<>> /\ Cardinality(PathsOf(fs)) = Len(fs) /\ \A i \in DOMAIN fs : fs[i].text # Big
Valid(fs) ==
  /\ Len(fs) \in 1..MaxFiles
  /\ Cardinality(PathsOf(fs)) = Len(fs)
  /\ \A i \in DOMAIN fs : fs[i].text # Big

\* What the page brings along is valid; what the user opens is checked.
FileTab == [path : Paths, text : Texts, raw : BOOLEAN]
ASSUME WorkspaceAssumption ==
  /\ Sources \subseteq Paths /\ Blank \in Texts /\ MaxFiles \in Nat
  /\ \A fs \in Examples \cup Labs : fs \in Seq(FileTab)
  /\ \A e \in Examples : Valid(e)

-----------------------------------------------------------------------------
(* The saved workspace *)

Snapshot == [files |-> files, active |-> shown, xdc |-> preferXdc, imported |-> imported]

Schedule == dirty' = TRUE /\ saveTimer' = TRUE

\* write(): nothing when clean; a write that fails leaves it dirty, and says so.
SaveClears(ok) ==  \* mutant: the record counts as saved before it is
  /\ saveTimer' = FALSE /\ dirty' = FALSE
  /\ IF ~dirty THEN UNCHANGED <<saved, failed>>
     ELSE IF ok THEN saved' = Snapshot /\ failed' = FALSE ELSE failed' = TRUE /\ UNCHANGED saved
WriteOut(ok) ==
  /\ saveTimer' = FALSE
  /\ IF ~dirty THEN UNCHANGED <<saved, failed, dirty>>
     ELSE IF ok THEN saved' = Snapshot /\ failed' = FALSE /\ dirty' = FALSE
     ELSE failed' = TRUE /\ UNCHANGED <<saved, dirty>>

\* 400 ms passed; or the page hides, or a run begins (flush).
TimerFires(ok) == saveTimer /\ WriteOut(ok) /\ Calm /\ UNCHANGED <<files, shown, preferXdc, imported, pane, hash, deeds>>
Flush(ok)      == dirty /\ WriteOut(ok) /\ Calm /\ UNCHANGED <<files, shown, preferXdc, imported, pane, hash, deeds>>

-----------------------------------------------------------------------------
(* The tabs *)

Changed == Schedule /\ Calm /\ Deed /\ UNCHANGED <<imported, pane, failed, saved, hash>>

Edit(p, t) ==
  /\ p \in PathsOf(files) /\ files[At(files, p)].text # t
  /\ files' = [files EXCEPT ![At(files, p)] = [@ EXCEPT !.text = t, !.raw = FALSE]]
  /\ Changed /\ UNCHANGED <<shown, preferXdc>>

\* `+ file`: the first free name, placed after the open file.
Add(p) ==
  LET record == [path |-> p, text |-> Blank, raw |-> FALSE]
      all    == Append(files, record) IN
  /\ p \in Sources \ PathsOf(files) /\ Valid(all)
  /\ files' = InsertAt(files, At(files, shown) + 1, record)
  /\ shown' = p /\ Changed /\ UNCHANGED preferXdc

\* Only the open file, and never the last one.
RemoveFile ==
  LET rest == RemoveAt(files, At(files, shown)) IN
  /\ Len(files) > 1 /\ files' = rest /\ shown' = rest[1].path
  /\ preferXdc' = IF preferXdc = shown THEN None ELSE preferXdc
  /\ Changed

\* The place, the text and, within a kind, the original bytes stay; the picked
\* constraints file keeps its choice under the new name.
Rename(from, to) ==
  LET i     == At(files, from)
      moved == [files EXCEPT ![i] = [@ EXCEPT !.path = to, !.raw = files[i].raw /\ Kind(from) = Kind(to)]] IN
  /\ from \in PathsOf(files) /\ to \notin PathsOf(files) /\ Valid(moved)
  /\ files' = moved /\ shown' = IF shown = from THEN to ELSE shown
  /\ preferXdc' = IF preferXdc = from THEN to ELSE preferXdc
  /\ Changed

Show(p) == p \in PathsOf(files) \ {shown} /\ shown' = p /\ Changed /\ UNCHANGED <<files, preferXdc>>
PickXdc(p) ==
  /\ p \in PathsOf(files) \cap Constraints /\ Cardinality(PathsOf(files) \cap Constraints) > 1
  /\ preferXdc' = p /\ Changed /\ UNCHANGED <<files, shown>>

\* What was there is written first, then the change is scheduled; the open
\* file may follow the view (testbench or top).
SetView(v, p, ok) ==
  /\ v # pane /\ p \in PathsOf(files) /\ pane' = v /\ shown' = p
  /\ IF dirty /\ ok THEN saved' = Snapshot /\ failed' = FALSE
     ELSE IF dirty THEN failed' = TRUE /\ UNCHANGED saved ELSE UNCHANGED <<saved, failed>>
  /\ Schedule /\ Calm /\ Deed /\ UNCHANGED <<files, preferXdc, imported, hash>>

-----------------------------------------------------------------------------
(* Replacing, sharing, booting *)

\* An import or an example.  It asks when the workspace was imported, or a text
\* was edited; the address loses its link.
OnlyXdc(fs) == LET xdcs == PathsOf(fs) \cap Constraints IN IF Cardinality(xdcs) = 1 THEN xdcs ELSE {}
NonEmpty == imported \/ \E i \in DOMAIN files : ~files[i].raw /\ files[i].text # Blank
Replace(fs, example, ok, yes) ==
  /\ Valid(fs) /\ Deed /\ boot' = NoBoot
  /\ IF NonEmpty /\ ~yes
     THEN asked' = NoReplace /\ UNCHANGED <<files, shown, preferXdc, imported, pane, dirty, saveTimer, failed, saved, hash>>
     ELSE /\ files' = fs /\ shown' = fs[1].path /\ imported' = ~example /\ hash' = NoWork
          /\ preferXdc' \in {None} \cup IF example THEN {} ELSE OnlyXdc(fs)
          /\ IF dirty /\ ok THEN saved' = Snapshot /\ failed' = FALSE
             ELSE IF dirty THEN failed' = TRUE /\ UNCHANGED saved ELSE UNCHANGED <<saved, failed>>
          /\ asked' = [asked |-> NonEmpty, dropped |-> {files[i].text : i \in DOMAIN files}]
          /\ Schedule /\ UNCHANGED pane

\* Share puts the workspace in the address; edits leave it there.
Share == Deed /\ hash' = Snapshot /\ Calm
  /\ UNCHANGED <<files, shown, preferXdc, imported, pane, dirty, saveTimer, failed, saved>>

\* What was saved or shared comes back as bytes; an example does not.
Restored(snap) == [snap EXCEPT !.files = [i \in DOMAIN snap.files |-> [snap.files[i] EXCEPT !.raw = TRUE]]]
Opened(e)      == [files |-> e, active |-> e[1].path, xdc |-> None, imported |-> FALSE]
Words(fs)      == [i \in DOMAIN fs |-> <<fs[i].path, fs[i].text>>]

\* What is loaded counts as a change, and showing the first view writes it at once.
Boot(from, snap, was, ok) ==
  /\ files' = snap.files /\ shown' = snap.active /\ preferXdc' = snap.xdc /\ imported' = snap.imported
  /\ IF ok THEN saved' = snap ELSE saved' = was
  /\ failed' = ~ok /\ dirty' = TRUE /\ saveTimer' = TRUE
  /\ boot' = [from |-> from, kept |-> Words(snap.files) = Words(files), written |-> was = Snapshot,
              fits |-> \A i \in DOMAIN files : files[i].text # Big]
  /\ asked' = NoReplace

\* The address first, then what was saved, then an example.  The page that goes
\* wrote before, unless it crashed or that write failed.
Reload(written, ok) ==
  LET was    == IF dirty /\ written THEN Snapshot ELSE saved
      opens(snap) == Valid(snap.files) IN
  /\ Deed /\ UNCHANGED <<pane, hash>>
  /\ IF opens(hash) THEN Boot("link", [Restored(hash) EXCEPT !.imported = TRUE], was, ok)
     ELSE IF opens(was) THEN Boot("saved", Restored(was), was, ok)
     ELSE \E e \in Examples : Boot("example", Opened(e), was, ok)

WorkspaceStep ==
  \/ \E p \in Paths : \/ \E t \in Texts : Edit(p, t)
                      \/ \E q \in Paths : Rename(p, q)
                      \/ Add(p) \/ Show(p) \/ PickXdc(p)
  \/ RemoveFile \/ Share
  \/ \E ok \in BOOLEAN :
       \/ TimerFires(ok) \/ Flush(ok)
       \/ \E v \in {"board", "tb"}, p \in Paths : SetView(v, p, ok)
       \/ \E e \in Examples, yes \in BOOLEAN : Replace(e, TRUE, ok, yes)
       \/ \E e \in Labs, yes \in BOOLEAN : Replace(e, FALSE, ok, yes)
       \/ \E written \in BOOLEAN : Reload(written, ok)

WorkspaceInit ==
  /\ \E e \in Examples : files = e /\ shown = e[1].path
  /\ preferXdc = None /\ imported = FALSE /\ pane = "board"
  /\ dirty = TRUE /\ saveTimer = TRUE /\ failed = FALSE /\ saved = Snapshot
  /\ hash = NoWork /\ boot = NoBoot /\ asked = NoReplace /\ deeds = 0

WorkspaceSpec == WorkspaceInit /\ [][WorkspaceStep]_workspaceVars

-----------------------------------------------------------------------------
(* Properties *)

WorkspaceTypeOK ==
  /\ \A i \in DOMAIN files : files[i].path \in Paths /\ files[i].text \in Texts /\ files[i].raw \in BOOLEAN
  /\ Len(files) \in 1..MaxFiles /\ Cardinality(PathsOf(files)) = Len(files)
  /\ {dirty, saveTimer, failed, imported} \subseteq BOOLEAN

(* The student's work is kept: what is not in the browser's storage is about   *)
(* to be written, or the page says that it could not be.  A boot without a     *)
(* link shows what was written, unless a file had grown past 1 MiB: then it    *)
(* does not (WrittenComesBack).  And the chosen constraints file is one of     *)
(* the workspace's, whatever was renamed, removed or replaced.                *)
EditsAreKept ==
  /\ saved # Snapshot => dirty
  /\ dirty => saveTimer \/ failed
  /\ boot.from \in {"saved", "example"} /\ boot.written /\ boot.fits => boot.kept
  /\ shown \in PathsOf(files) /\ preferXdc \in PathsOf(files) \cup {None}

(* The same of every workspace that was written.  Not so: an edit may take a   *)
(* file past the limit, which the save does not check and the next boot does   *)
(* (validateImport); the example it opens instead is then saved over it.       *)
WrittenComesBack == boot.from \in {"saved", "example"} /\ boot.written => boot.kept

(* `reload keeps the student's files, the edit included`: what was written as  *)
(* the page went is what the next page shows.  Not so after Share.            *)
ReloadKeepsEdits == boot # NoBoot /\ boot.written => boot.kept

(* `confirmation asked before replacing a non-empty workspace`: an edit is     *)
(* only dropped when the user said so.  Not so after a reload.                *)
AsksBeforeReplacing == ~asked.asked => asked.dropped \cap Typed = {}
=============================================================================
