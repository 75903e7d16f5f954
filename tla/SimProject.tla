----------------------------- MODULE SimProject -------------------------------
(***************************************************************************)
(* What the files of the browser simulator mean (project.js): the modules in  *)
(* them, the top, testbench and constraints that are chosen, the import of a  *)
(* folder with or without a Vivado project, and the archive that takes a      *)
(* workspace back to the command line.                                       *)
(***************************************************************************)
EXTENDS Filtered, SequencesExt

CONSTANTS Names,       \* paths a file may have
          KindOf,      \* path -> "source", "header" or "xdc"
          Nested,      \* paths with a folder
          StemOf,      \* path -> its last part without the extension
          SrcsSet,     \* path -> its set below a <name>.srcs folder, or NoName
          Contents,    \* what a source may hold: sequences of [name, tb, uses]
          Projects,    \* Vivado projects that may lie in a folder
          Starts,      \* what a page may open with: sequences of [path, mods, usage]
          MaxChanges

NoName == "-"
NoUse  == {"everything"}  \* of a record that carries no usage
NoProject == [sets |-> {}]
NoPick == [project |-> FALSE, top |-> NoName, tb |-> NoName, xdc |-> NoName]

ModuleNames == {m.name : m \in UNION {ToSet(c) : c \in Contents}}
Usages  == {NoUse} \cup SUBSET {"design", "simulation"}
Records == [path : Names, mods : Contents \cup {<<>>}, usage : Usages]
Apart(fs) == \A i, j \in DOMAIN fs : fs[i].path = fs[j].path => i = j

\* Paths have an extension and modules are identifiers; the sets of a project lie in
\* folders; a page opens with plain files, no two of a path.
ASSUME ProjectAssumption ==
  /\ Contents \subseteq Seq([name : ModuleNames, tb : BOOLEAN, uses : SUBSET ModuleNames])
  /\ NoName \notin Names \cup ModuleNames
  /\ \A p \in Names : SrcsSet[p] # NoName => p \in Nested
  /\ \A fs \in Starts : fs \in Seq(Records) /\ Apart(fs) /\ \A i \in DOMAIN fs : fs[i].usage = NoUse

VARIABLES lab,      \* the records in order: [path, mods, usage]
          choice,   \* prefer
          edits
projectVars == <<lab, choice, edits>>

-----------------------------------------------------------------------------
(* Modules *)

\* What the code asks of lists whose order does not matter.
Single(S)  == \E x \in S : S = {x}
Several(S) == \E x, y \in S : x # y

IsSource(f) == KindOf[f.path] = "source"
InDesign(f) == f.usage = NoUse \/ "design" \in f.usage
InSim(f)    == f.usage = NoUse \/ "simulation" \in f.usage
XdcsOf(fs)  == {f.path : f \in {g \in ToSet(fs) : KindOf[g.path] = "xdc"}}

\* Every definition of the files at `here`, <<file, place in it>>, as they are read.
Definitions(fs, here) == UNION {{i} \X DOMAIN fs[i].mods : i \in {k \in here : IsSource(fs[k])}}
ModAt(fs, a)     == fs[a[1]].mods[a[2]]
Before(a, b)     == a[1] < b[1] \/ (a[1] = b[1] /\ a[2] < b[2])

\* The first definition of each name is kept, and what it uses of the others.
Firsts(fs, all) == {a \in all : \A b \in all : Before(b, a) => ModAt(fs, b).name # ModAt(fs, a).name}
Kept(fs, first) ==
  LET nameOf(a) == ModAt(fs, a).name IN
  {[name |-> nameOf(a), tb |-> ModAt(fs, a).tb, file |-> fs[a[1]].path, at |-> a,
    uses |-> (ModAt(fs, a).uses \cap {nameOf(b) : b \in first}) \ {nameOf(a)}] : a \in first}
ParseModules(fs, here) ==
  LET all == Definitions(fs, here) IN [twice |-> Firsts(fs, all) # all, mods |-> Kept(fs, Firsts(fs, all))]

\* The choice.  An error leaves everything open.
RootsOf(design) == {m.name : m \in {d \in design : \A e \in design : d.name \notin e.uses}}
TopOf(design, roots, xdcs, prefer) ==
  LET byStem == {n \in roots : \E x \in xdcs : StemOf[x] = n} IN
  CASE prefer.project /\ prefer.top # NoName -> IF \E d \in design : d.name = prefer.top THEN prefer.top ELSE NoName
    [] OTHER -> IF Single(roots) THEN CHOOSE n \in roots : TRUE
                ELSE IF prefer.top \in roots THEN prefer.top
                ELSE IF Single(byStem) THEN CHOOSE n \in byStem : TRUE ELSE NoName
BenchOf(tbs, top, prefer) ==
  LET using == {m \in tbs : top \in m.uses} IN
  IF \E m \in tbs : m.name = prefer.tb THEN prefer.tb
  ELSE IF using # {} THEN (CHOOSE m \in using : \A n \in using : ~Before(n.at, m.at)).name
  ELSE IF Single(tbs) THEN (CHOOSE m \in tbs : TRUE).name ELSE NoName
PinsOf(xdcs, top, prefer) ==
  LET named == {x \in xdcs : StemOf[x] = top} IN
  IF Single(xdcs) THEN CHOOSE x \in xdcs : TRUE
  ELSE IF prefer.xdc \in xdcs THEN prefer.xdc
  ELSE IF Single(named) THEN CHOOSE x \in named : TRUE ELSE NoName
ResolvedTo(design, tbs, top, twice, xdcs, prefer) ==
  LET tbNames == {m.name : m \in tbs} IN
  [error    |-> top = NoName,
   roots    |-> RootsOf(design), tbs |-> tbNames,
   tbError  |-> twice \/ (prefer.project /\ prefer.tb # NoName /\ prefer.tb \notin tbNames),
   top      |-> top,
   topFile  |-> IF top = NoName THEN NoName ELSE (CHOOSE m \in design : m.name = top).file,
   tb       |-> IF top = NoName THEN NoName ELSE BenchOf(tbs, top, prefer),
   xdc      |-> IF top = NoName THEN NoName ELSE PinsOf(xdcs, top, prefer)]
Resolve(fs, prefer) ==
  LET all    == ParseModules(fs, DOMAIN fs)
      active == ParseModules(fs, {i \in DOMAIN fs : InDesign(fs[i])})
      design == {m \in active.mods : ~m.tb}
      tbs    == {m \in all.mods : m.tb /\ InSim(fs[m.at[1]])}
      top    == IF active.twice \/ design = {} THEN NoName ELSE TopOf(design, RootsOf(design), XdcsOf(fs), prefer)
  IN ResolvedTo(design, tbs, top, all.twice, XdcsOf(fs), prefer)

\* A source none of whose modules is for the board.
OnlyBench(fs, f) ==
  LET ms == {m \in ParseModules(fs, DOMAIN fs).mods : m.file = f.path}
  IN ~InDesign(f) \/ (ms # {} /\ \A m \in ms : m.tb)
\* What a run on the board compiles.
DesignFiles(fs) == {f.path : f \in {g \in ToSet(fs) : IsSource(g) /\ ~OnlyBench(fs, g)}}

-----------------------------------------------------------------------------
(* The import *)

Types == {"DesignSrcs", "Constrs", "SimulationSrcs"}
Rejected == [fails |-> TRUE]

\* One source set of each type: the one synth_1 or ActiveSimSet names, else the
\* only one.  Disabled files are left out; a missing one refuses the project.
ActiveSets(project, type) ==
  LET sets   == {s \in project.sets : s.type = type}
      wanted == project.wanted[type]
  IN IF wanted = NoName THEN sets ELSE {s \in sets : s.name = wanted}
HasSet(project, type)    == \E s \in project.sets : s.type = type
ActiveSet(project, type) == CHOOSE s \in ActiveSets(project, type) : TRUE
TopOption(project, type) == IF HasSet(project, type) THEN ActiveSet(project, type).top ELSE NoName
Listed(project, type) ==
  IF ~HasSet(project, type) THEN {}
  ELSE {f.path : f \in {g \in ActiveSet(project, type).files :
          g.enabled /\ (KindOf[g.path] = "xdc") = (type = "Constrs")}}
VivadoSelection(project, available) ==
  LET mentioned == UNION {Listed(project, t) : t \in Types}
      \* a header is read by the text of a source, listed or not
      loose     == {p \in available : KindOf[p] = "header"} \ mentioned
      xdcs      == Listed(project, "Constrs") IN
  IF \/ \E t \in Types : HasSet(project, t) /\ ~Single(ActiveSets(project, t))
     \/ ~(mentioned \subseteq available)
  THEN Rejected
  ELSE [fails |-> FALSE,
        usage |-> [p \in mentioned \cup loose |->
                     IF p \in Listed(project, "DesignSrcs") \cup loose THEN {"design", "simulation"}
                     ELSE IF p \in Listed(project, "SimulationSrcs") THEN {"simulation"} ELSE {}],
        prefer |-> [project |-> TRUE, top |-> TopOption(project, "DesignSrcs"), tb |-> TopOption(project, "SimulationSrcs"),
                    xdc |-> IF Single(xdcs) THEN CHOOSE x \in xdcs : TRUE ELSE NoName]]

\* Without a project, a folder laid out as Vivado does selects by its sets.
LayoutSelection(available) ==
  LET in(p, set, kinds) == SrcsSet[p] = set /\ KindOf[p] \in kinds IN
  [fails |-> FALSE,
   usage |-> [p \in {q \in available : \/ in(q, "sources_1", {"source", "header"}) \/ in(q, "sim_1", {"source", "header"})
                                       \/ in(q, "constrs_1", {"xdc"})} |->
                IF SrcsSet[p] = "sources_1" THEN {"design", "simulation"}
                ELSE IF SrcsSet[p] = "sim_1" THEN {"simulation"} ELSE {}],
   prefer |-> [NoPick EXCEPT !.project = TRUE]]

\* A folder: its files in the order it lists them, and its project or none.
Import(fs, project) ==
  LET available == {f.path : f \in ToSet(fs)}
      selection == IF project # NoProject THEN VivadoSelection(project, available)
                   ELSE IF \E p \in available : SrcsSet[p] \in {"sources_1", "constrs_1", "sim_1"}
                   THEN LayoutSelection(available)
                   ELSE [fails |-> FALSE, usage |-> [p \in available |-> NoUse], prefer |-> NoPick]
      kept == Only(fs, {f \in ToSet(fs) : f.path \in DOMAIN selection.usage})
  IN IF selection.fails \/ kept = <<>> THEN Rejected
     ELSE [fails |-> FALSE, prefer |-> selection.prefer,
           files |-> [i \in DOMAIN kept |-> [kept[i] EXCEPT !.usage = selection.usage[kept[i].path]]]]

-----------------------------------------------------------------------------
(* The archive *)

\* A plain folder would lose folders, uses or choices.
NeedsProject(fs, r) ==
  \/ \E f \in ToSet(fs) : f.path \in Nested \/ f.usage # NoUse
  \/ Several(r.roots) \/ Several(r.tbs) \/ Several(XdcsOf(fs))

ManifestPicksAll(fs, r) == XdcsOf(fs)  \* mutant: every constraints file goes to the set
ManifestPicks(fs, r) == IF r.xdc # NoName THEN {r.xdc} ELSE XdcsOf(fs)

\* The project file: three sets and the runs that name them.
BenchFiles(fs) == {f.path : f \in {g \in ToSet(fs) : IsSource(g) /\ OnlyBench(fs, g)}}
FileSet(name, type, paths, top) ==
  [name |-> name, type |-> type, top |-> top, files |-> {[path |-> p, enabled |-> TRUE] : p \in paths}]
ArchiveProject(fs, prefer) ==
  LET r == Resolve(fs, prefer)
      pinned(mine, found) == IF prefer.project /\ mine # NoName THEN mine ELSE found IN
  IF ~NeedsProject(fs, r) THEN NoProject
  ELSE [wanted |-> [t \in Types |-> CASE t = "DesignSrcs" -> "sources_1" [] t = "Constrs" -> "constrs_1" [] OTHER -> "sim_1"],
        sets |-> {FileSet("sources_1", "DesignSrcs", DesignFiles(fs), pinned(prefer.top, r.top)),
                  FileSet("constrs_1", "Constrs", ManifestPicks(fs, r), NoName),
                  FileSet("sim_1", "SimulationSrcs", BenchFiles(fs), pinned(prefer.tb, r.tb))}]

\* Where the archive is unpacked, in whatever order the folder lists its files.
Reopened(fs, prefer, order) ==
  Import([i \in DOMAIN fs |-> [fs[order[i]] EXCEPT !.usage = NoUse]], ArchiveProject(fs, prefer))

-----------------------------------------------------------------------------
(* The workspace *)

Change == edits < MaxChanges /\ edits' = edits + 1
PathsIn == {f.path : f \in ToSet(lab)}

OpenFolder(fs, project) ==
  LET opened == Import(fs, project) IN
  /\ Change
  /\ IF opened.fails THEN UNCHANGED <<lab, choice>> ELSE lab' = opened.files /\ choice' = opened.prefer
AddSource(p, mods) ==
  /\ Change /\ p \notin PathsIn
  /\ lab' = Append(lab, [path |-> p, mods |-> IF KindOf[p] = "source" THEN mods ELSE <<>>, usage |-> NoUse])
  /\ UNCHANGED choice
Rewrite(i, mods) ==
  /\ Change /\ IsSource(lab[i]) /\ lab' = [lab EXCEPT ![i].mods = mods] /\ UNCHANGED choice
\* The use of a file stays with it; the picked constraints follow.
Move(i, p) ==
  /\ Change /\ p \notin PathsIn /\ KindOf[p] = KindOf[lab[i].path]
  /\ lab' = [lab EXCEPT ![i].path = p]
  /\ choice' = [choice EXCEPT !.xdc = IF @ = lab[i].path THEN p ELSE @]
Drop(i) ==
  /\ Change /\ Len(lab) > 1 /\ lab' = RemoveAt(lab, i)
  /\ choice' = [choice EXCEPT !.xdc = IF @ = lab[i].path THEN NoName ELSE @]
\* A menu is there when there is more than one to choose from.
PickRole(role, v) ==
  LET r == Resolve(lab, choice)
      options == CASE role = "top" -> r.roots [] role = "tb" -> r.tbs [] OTHER -> XdcsOf(lab) IN
  /\ Change /\ v \in options /\ Several(options)
  /\ choice' = [choice EXCEPT ![role] = v] /\ UNCHANGED lab

ProjectStep ==
  \/ \E project \in Projects \cup {NoProject} : OpenFolder([i \in DOMAIN lab |-> [lab[i] EXCEPT !.usage = NoUse]], project)
  \/ \E p \in Names, mods \in Contents : AddSource(p, mods)
  \/ \E i \in DOMAIN lab :
       \/ \E mods \in Contents : Rewrite(i, mods)
       \/ \E p \in Names : Move(i, p)
       \/ Drop(i)
  \/ \E role \in {"top", "tb", "xdc"}, v \in ModuleNames \cup Names : PickRole(role, v)
ProjectInit == lab \in Starts /\ choice = NoPick /\ edits = 0
ProjectSpec == ProjectInit /\ [][ProjectStep]_projectVars

-----------------------------------------------------------------------------
(* Properties *)

ProjectTops == {set.top : set \in UNION {p.sets : p \in Projects}}
ProjectTypeOK ==
  /\ lab \in Seq(Records) /\ Apart(lab)
  /\ choice.project \in BOOLEAN /\ {choice.top, choice.tb} \subseteq ModuleNames \cup {NoName} \cup ProjectTops

\* Orders in which a folder may list n files: any two swapped, or all reversed.
Orders(n) ==
  {[k \in 1..n |-> IF k = i THEN j ELSE IF k = j THEN i ELSE k] : i, j \in 1..n} \cup {[k \in 1..n |-> n + 1 - k]}

MeansTheSame(r, s) == <<s.top, s.topFile, s.tb, s.xdc>> = <<r.top, r.topFile, r.tb, r.xdc>>
OpensAs(again, r) ==
  /\ ~again.fails
  /\ MeansTheSame(r, Resolve(again.files, again.prefer))
  /\ DesignFiles(again.files) = DesignFiles(lab)
SettledReopens(r) ==
  ~r.error /\ ~r.tbError =>
    /\ r.topFile \in DesignFiles(lab)
    /\ (NeedsProject(lab, r) \/ ~choice.project) =>
         \A order \in Orders(Len(lab)) : OpensAs(Reopened(lab, choice, order), r)

(* `the manifest selects the same design/top/XDC`: the archive of a workspace  *)
(* whose choice is settled means the same where it is opened again, however    *)
(* that folder lists its files, and a run sends the top's own file.  A         *)
(* project's pinned top is only written when a project file is.                *)
ArchiveReopensTheSame == SettledReopens(Resolve(lab, choice))
=============================================================================
