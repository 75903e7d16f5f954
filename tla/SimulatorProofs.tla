---------------------------- MODULE SimulatorProofs ---------------------------
(***************************************************************************)
(* Four parts of the browser simulator.  The workspace keeps the student's   *)
(* files, for any names, texts, examples and any number of changes, reloads   *)
(* and failing writes.  The board and the circuit that runs on it agree, for   *)
(* any circuits, keys, pointers and clocks.  Hovering over code and board is   *)
(* about the present text and circuit.  The compile workers call             *)
(* runnable only what was validated and lose no request, for any designs,      *)
(* readers' results, requests and terminations.                             *)
(***************************************************************************)
EXTENDS SimWorkspace, BoardLinks, BuildPipeline, SequenceProofs, FiniteSetTheorems, SequenceTheorems, TLAPS

-----------------------------------------------------------------------------
(* Sequences of tabs *)

LEMMA TabFacts ==
  ASSUME NEW fs \in Seq(FileTab)
  PROVE  /\ DOMAIN fs = 1..Len(fs) /\ Len(fs) \in Nat
         /\ \A i \in DOMAIN fs : fs[i] \in FileTab /\ fs[i].path \in Paths /\ fs[i].path \in PathsOf(fs)
<1>1. DOMAIN fs = 1..Len(fs) /\ Len(fs) \in Nat /\ \A i \in DOMAIN fs : fs[i] \in FileTab
  BY LenProperties, ElementOfSeq
<1>2. QED
  BY <1>1 DEF FileTab, PathsOf

\* The place of a file.
LEMMA AtFinds ==
  ASSUME NEW fs, NEW p \in PathsOf(fs)
  PROVE  At(fs, p) \in DOMAIN fs /\ fs[At(fs, p)].path = p
BY DEF At, PathsOf

\* Names that are as many as the tabs are all different.
LEMMA NamesDiffer ==
  ASSUME NEW fs \in Seq(FileTab), Cardinality(PathsOf(fs)) = Len(fs)
  PROVE  /\ \A i, j \in DOMAIN fs : fs[i].path = fs[j].path => i = j
         /\ IsFiniteSet(PathsOf(fs))
<1> DEFINE f == [i \in DOMAIN fs |-> fs[i].path]
<1>1. DOMAIN fs = 1..Len(fs) /\ Len(fs) \in Nat
  BY TabFacts
<1>2. IsFiniteSet(DOMAIN fs) /\ Cardinality(DOMAIN fs) = Len(fs)
  <2>1. IsFiniteSet(1..Len(fs)) /\ Cardinality(1..Len(fs)) = IF 1 > Len(fs) THEN 0 ELSE Len(fs) - 1 + 1
    <3>1. 1 \in Int /\ Len(fs) \in Int
      BY <1>1
    <3> HIDE DEF f
    <3>2. QED
      BY <3>1, FS_Interval
  <2>2. QED
    BY <1>1, <2>1
<1>3. f \in Surjection(DOMAIN fs, PathsOf(fs))
  BY DEF Surjection, PathsOf
<1> HIDE DEF f
<1>4. IsFiniteSet(PathsOf(fs)) /\ f \in Injection(DOMAIN fs, PathsOf(fs))
  <2>1. /\ IsFiniteSet(PathsOf(fs))
        /\ Cardinality(PathsOf(fs)) = Cardinality(DOMAIN fs) <=> f \in Injection(DOMAIN fs, PathsOf(fs))
    BY <1>2, <1>3, FS_Surjection
  <2>2. QED
    BY <1>2, <2>1
<1>5. QED
  BY <1>4 DEF Injection, IsInjective, f

LEMMA Inserted ==
  ASSUME NEW fs \in Seq(FileTab), NEW i \in 1..Len(fs) + 1, NEW r \in FileTab
  PROVE  /\ InsertAt(fs, i, r) \in Seq(FileTab) /\ Len(InsertAt(fs, i, r)) = Len(fs) + 1
         /\ PathsOf(InsertAt(fs, i, r)) = PathsOf(fs) \cup {r.path}
<1> DEFINE a == SubSeq(fs, 1, i - 1)
           b == SubSeq(fs, i, Len(fs))
<1>1. /\ DOMAIN fs = 1..Len(fs) /\ Len(fs) \in Nat /\ \A j \in DOMAIN fs : fs[j] \in FileTab
      /\ i \in Int /\ i - 1 \in Int /\ Len(fs) \in Int /\ 1 \in Int
  BY TabFacts
<1>2. a \in Seq(FileTab) /\ Len(a) = i - 1 /\ \A j \in 1..i - 1 : a[j] = fs[j]
  <2>1. 1 \in 1..Len(fs) + 1 /\ i - 1 \in 0..Len(fs) /\ 1 <= (i - 1) + 1
    BY <1>1
  <2>2. /\ a \in Seq(FileTab) /\ Len(a) = (i - 1) - 1 + 1
        /\ \A j \in 1..(i - 1) - 1 + 1 : a[j] = fs[1 + j - 1]
    BY <2>1, CutKeeps
  <2>3. QED
    BY <1>1, <2>2
<1>3. b \in Seq(FileTab) /\ Len(b) = Len(fs) - i + 1 /\ \A j \in 1..Len(fs) - i + 1 : b[j] = fs[i + j - 1]
  <2>1. Len(fs) \in 0..Len(fs) /\ i <= Len(fs) + 1
    BY <1>1
  <2>2. QED
    BY <2>1, CutKeeps
<1> DEFINE m == a \o <<r>>
           c == m \o b
<1>4. <<r>> \in Seq(FileTab) /\ Len(<<r>>) = 1 /\ <<r>>[1] = r
  OBVIOUS
<1> HIDE DEF a, b
<1>5. /\ m \in Seq(FileTab) /\ Len(m) = i
      /\ \A j \in 1..i : m[j] = IF j < i THEN fs[j] ELSE r
  <2>1. /\ m \in Seq(FileTab) /\ Len(m) = Len(a) + 1
        /\ \A j \in 1..Len(a) + 1 : m[j] = IF j <= Len(a) THEN a[j] ELSE <<r>>[j - Len(a)]
    BY <1>2, <1>4, ConcatProperties
  <2>2. QED
    BY <1>1, <1>2, <1>4, <2>1
<1> HIDE DEF m
<1>6. /\ c \in Seq(FileTab) /\ Len(c) = Len(fs) + 1
      /\ \A j \in 1..Len(fs) + 1 : c[j] = IF j < i THEN fs[j] ELSE IF j = i THEN r ELSE fs[j - 1]
  <2>1. /\ c \in Seq(FileTab) /\ Len(c) = Len(m) + Len(b)
        /\ \A j \in 1..Len(m) + Len(b) : c[j] = IF j <= Len(m) THEN m[j] ELSE b[j - Len(m)]
    BY <1>3, <1>5, ConcatProperties
  <2>2. QED
    BY <1>1, <1>3, <1>5, <2>1
<1>7. c = InsertAt(fs, i, r)
  BY DEF InsertAt, a, b, m
<1> HIDE DEF c
<1>8. DOMAIN c = 1..Len(fs) + 1
  BY <1>6, TabFacts
<1>9. PathsOf(c) \subseteq PathsOf(fs) \cup {r.path}
  <2> SUFFICES ASSUME NEW j \in DOMAIN c PROVE c[j].path \in PathsOf(fs) \cup {r.path}
    BY DEF PathsOf
  <2>1. c[j] = r \/ \E k \in DOMAIN fs : c[j] = fs[k]
    <3>1. CASE j < i
      BY <1>1, <1>6, <1>8, <3>1
    <3>2. CASE j > i
      <4>1. j - 1 \in DOMAIN fs /\ c[j] = fs[j - 1]
        BY <1>1, <1>6, <1>8, <3>2
      <4>2. QED
        BY <4>1
    <3>3. QED
      BY <1>1, <1>6, <1>8, <3>1, <3>2
  <2>2. QED
    BY <2>1 DEF PathsOf
<1>10. r.path \in PathsOf(c)
  BY <1>1, <1>6, <1>8 DEF PathsOf
<1>11. ASSUME NEW j \in DOMAIN fs PROVE fs[j].path \in PathsOf(c)
  <2>1. CASE j < i
    BY <1>1, <1>6, <1>8, <2>1 DEF PathsOf
  <2>2. CASE ~(j < i)
    <3>1. j + 1 \in DOMAIN c /\ c[j + 1] = fs[j]
      BY <1>1, <1>6, <1>8, <2>2
    <3>2. QED
      BY <3>1 DEF PathsOf
  <2>3. QED
    BY <2>1, <2>2
<1>12. QED
  BY <1>6, <1>7, <1>9, <1>10, <1>11 DEF PathsOf

LEMMA Removed ==
  ASSUME NEW fs \in Seq(FileTab), NEW i \in DOMAIN fs, Cardinality(PathsOf(fs)) = Len(fs)
  PROVE  /\ RemoveAt(fs, i) \in Seq(FileTab) /\ Len(RemoveAt(fs, i)) = Len(fs) - 1
         /\ PathsOf(RemoveAt(fs, i)) = PathsOf(fs) \ {fs[i].path}
         /\ Cardinality(PathsOf(RemoveAt(fs, i))) = Len(RemoveAt(fs, i))
<1> DEFINE a == SubSeq(fs, 1, i - 1)
           b == SubSeq(fs, i + 1, Len(fs))
           c == a \o b
<1>1. /\ DOMAIN fs = 1..Len(fs) /\ Len(fs) \in Nat /\ \A j \in DOMAIN fs : fs[j] \in FileTab
      /\ i + 1 \in Int /\ i - 1 \in Int /\ Len(fs) \in Int /\ 1 \in Int
  BY TabFacts
<1>2. a \in Seq(FileTab) /\ Len(a) = i - 1 /\ \A j \in 1..i - 1 : a[j] = fs[j]
  <2>1. \A j \in 1..i - 1 : fs[j] \in FileTab
    BY <1>1
  <2>2. /\ a \in Seq(FileTab) /\ Len(a) = IF 1 <= i - 1 THEN i - 1 - 1 + 1 ELSE 0
        /\ \A j \in 1..i - 1 - 1 + 1 : a[j] = fs[1 + j - 1]
    BY <1>1, <2>1, SubSeqProperties
  <2>3. QED
    BY <1>1, <2>2
<1>3. b \in Seq(FileTab) /\ Len(b) = Len(fs) - i /\ \A j \in 1..Len(fs) - i : b[j] = fs[i + j]
  <2>1. \A j \in i + 1..Len(fs) : fs[j] \in FileTab
    BY <1>1
  <2>2. /\ b \in Seq(FileTab) /\ Len(b) = IF i + 1 <= Len(fs) THEN Len(fs) - (i + 1) + 1 ELSE 0
        /\ \A j \in 1..Len(fs) - (i + 1) + 1 : b[j] = fs[i + 1 + j - 1]
    BY <1>1, <2>1, SubSeqProperties
  <2>3. QED
    BY <1>1, <2>2
<1> HIDE DEF a, b
<1>4. /\ c \in Seq(FileTab) /\ Len(c) = Len(fs) - 1
      /\ \A j \in 1..Len(fs) - 1 : c[j] = IF j < i THEN fs[j] ELSE fs[j + 1]
  <2>1. /\ c \in Seq(FileTab) /\ Len(c) = Len(a) + Len(b)
        /\ \A j \in 1..Len(a) + Len(b) : c[j] = IF j <= Len(a) THEN a[j] ELSE b[j - Len(a)]
    <3>1. a \in Seq(FileTab) /\ b \in Seq(FileTab)
      BY <1>2, <1>3
    <3>2. QED
      BY <3>1, ConcatProperties
  <2>2. Len(c) = Len(fs) - 1 /\ 1..Len(a) + Len(b) = 1..Len(fs) - 1
    BY <1>1, <1>2, <1>3, <2>1
  <2>3. ASSUME NEW j \in 1..Len(fs) - 1 PROVE c[j] = IF j < i THEN fs[j] ELSE fs[j + 1]
    <3>1. c[j] = IF j <= i - 1 THEN a[j] ELSE b[j - (i - 1)]
      BY <1>2, <2>1, <2>2
    <3>2. CASE j < i
      BY <1>1, <1>2, <3>1, <3>2
    <3>3. CASE ~(j < i)
      <4>1. j - (i - 1) \in 1..Len(fs) - i /\ i + (j - (i - 1)) = j + 1 /\ ~(j <= i - 1)
        BY <1>1, <3>3
      <4>2. b[j - (i - 1)] = fs[i + (j - (i - 1))]
        BY <1>3, <4>1
      <4>3. QED
        BY <3>1, <3>3, <4>1, <4>2
    <3>4. QED
      BY <3>2, <3>3
  <2>4. QED
    BY <2>1, <2>2, <2>3
<1>5. c = RemoveAt(fs, i)
  BY DEF RemoveAt, a, b
<1> HIDE DEF c
<1>6. DOMAIN c = 1..Len(fs) - 1
  BY <1>4, TabFacts
<1>7. \A j \in DOMAIN c : \E k \in DOMAIN fs : k # i /\ c[j] = fs[k]
  <2> TAKE j \in DOMAIN c
  <2>1. CASE j < i
    BY <1>1, <1>4, <1>6, <2>1
  <2>2. CASE ~(j < i)
    <3>1. j + 1 \in DOMAIN fs /\ j + 1 # i /\ c[j] = fs[j + 1]
      BY <1>1, <1>4, <1>6, <2>2
    <3>2. QED
      BY <3>1
  <2>3. QED
    BY <2>1, <2>2
<1>8. \A k \in DOMAIN fs : k # i => \E j \in DOMAIN c : c[j] = fs[k]
  <2> SUFFICES ASSUME NEW k \in DOMAIN fs, k # i PROVE \E j \in DOMAIN c : c[j] = fs[k]
    OBVIOUS
  <2>1. CASE k < i
    BY <1>1, <1>4, <1>6, <2>1
  <2>2. CASE ~(k < i)
    <3>1. k - 1 \in DOMAIN c /\ c[k - 1] = fs[k]
      BY <1>1, <1>4, <1>6, <2>2
    <3>2. QED
      BY <3>1
  <2>3. QED
    BY <2>1, <2>2
<1>9. /\ \A j, k \in DOMAIN fs : fs[j].path = fs[k].path => j = k
      /\ IsFiniteSet(PathsOf(fs)) /\ fs[i].path \in PathsOf(fs)
  BY NamesDiffer, TabFacts
<1>10. PathsOf(c) = PathsOf(fs) \ {fs[i].path}
  BY <1>7, <1>8, <1>9 DEF PathsOf
<1>11. Cardinality(PathsOf(c)) = Cardinality(PathsOf(fs)) - 1
  BY <1>9, <1>10, FS_RemoveElement
<1>12. QED
  BY <1>1, <1>4, <1>5, <1>10, <1>11

-----------------------------------------------------------------------------
(* The invariant: what is open, saved and shared is each a whole workspace, and *)
(* the saved one is the open one unless a write is due.                       *)

Filed(fs) == fs \in Seq(FileTab) /\ Len(fs) \in 1..MaxFiles /\ Cardinality(PathsOf(fs)) = Len(fs)
Workspace == [files : Seq(FileTab), active : Paths, xdc : Paths \cup {None}, imported : BOOLEAN]
Whole(w) ==
  /\ w \in Workspace /\ Filed(w.files)
  /\ w.active \in PathsOf(w.files) /\ w.xdc \in PathsOf(w.files) \cup {None}
Stored == Whole(Snapshot) /\ Whole(saved) /\ (hash = NoWork \/ Whole(hash))
WriteIsDue ==
  /\ dirty \in BOOLEAN /\ saveTimer \in BOOLEAN /\ failed \in BOOLEAN
  /\ saved # Snapshot => dirty
  /\ dirty => saveTimer \/ failed
BootShowsSaved == (boot.from \in {"saved", "example"} /\ boot.written /\ boot.fits) => boot.kept
WorkspaceInv == Stored /\ WriteIsDue /\ BootShowsSaved

-----------------------------------------------------------------------------
LEMMA CalmShowsSaved == ASSUME boot' = NoBoot PROVE BootShowsSaved'
BY DEF NoBoot, None, BootShowsSaved

LEMMA OpenIsWhole ==
  ASSUME Stored
  PROVE  /\ Filed(files) /\ shown \in PathsOf(files) /\ preferXdc \in PathsOf(files) \cup {None}
         /\ imported \in BOOLEAN
BY DEF Stored, Whole, Snapshot, Workspace

LEMMA FilesAreTabs ==
  ASSUME NEW fs, Filed(fs)
  PROVE  /\ fs \in Seq(FileTab) /\ DOMAIN fs = 1..Len(fs) /\ Len(fs) \in Nat /\ Len(fs) >= 1 /\ Len(fs) <= MaxFiles
         /\ Cardinality(PathsOf(fs)) = Len(fs)
         /\ \A i \in DOMAIN fs : fs[i] \in FileTab /\ fs[i].path \in PathsOf(fs)
         /\ fs[1].path \in PathsOf(fs)
<1>1. fs \in Seq(FileTab) /\ Len(fs) \in 1..MaxFiles /\ Cardinality(PathsOf(fs)) = Len(fs)
  BY DEF Filed
<1>2. DOMAIN fs = 1..Len(fs) /\ Len(fs) \in Nat /\ \A i \in DOMAIN fs : fs[i] \in FileTab /\ fs[i].path \in PathsOf(fs)
  BY <1>1, TabFacts
<1>3. 1 \in DOMAIN fs /\ Len(fs) <= MaxFiles
  BY <1>1, <1>2, WorkspaceAssumption
<1>4. QED
  BY <1>1, <1>2, <1>3

LEMMA PathsAreNames == ASSUME NEW fs, Filed(fs) PROVE PathsOf(fs) \subseteq Paths
<1>1. fs \in Seq(FileTab)
  BY DEF Filed
<1>2. \A i \in DOMAIN fs : fs[i].path \in Paths
  BY <1>1, TabFacts
<1>3. QED
  BY <1>2 DEF PathsOf

\* The files of the next state, and what they are saved as.
LEMMA NextIsWhole ==
  ASSUME Filed(files'), shown' \in PathsOf(files'), preferXdc' \in PathsOf(files') \cup {None},
         imported' \in BOOLEAN
  PROVE  Whole(Snapshot')
<1>1. files' \in Seq(FileTab) /\ PathsOf(files') \subseteq Paths
  BY FilesAreTabs, PathsAreNames
<1>2. QED
  BY <1>1 DEF Whole, Snapshot, Workspace

LEMMA ValidIsFiled ==
  ASSUME NEW fs \in Seq(FileTab), Valid(fs)
  PROVE  Filed(fs) /\ fs[1].path \in PathsOf(fs)
<1>1. Filed(fs)
  BY DEF Valid, Filed
<1>2. QED
  BY <1>1, FilesAreTabs

\* A change that is scheduled, whatever was written before it.
LEMMA ScheduledKeeps ==
  ASSUME WorkspaceInv, Schedule, boot' = NoBoot, Whole(Snapshot'), hash' \in {hash, NoWork, Snapshot},
         saved' \in {saved, Snapshot}, failed' \in BOOLEAN
  PROVE  WorkspaceInv'
<1>1. Stored'
  BY DEF WorkspaceInv, Stored
<1>2. WriteIsDue'
  BY DEF WorkspaceInv, WriteIsDue, Schedule
<1>3. QED
  BY <1>1, <1>2, CalmShowsSaved DEF WorkspaceInv

\* A tab that keeps its name keeps all the others in place.
LEMMA SamePaths ==
  ASSUME NEW fs \in Seq(FileTab), NEW gs, gs \in Seq(FileTab), Len(gs) = Len(fs),
         \A i \in 1..Len(fs) : gs[i].path = fs[i].path
  PROVE  PathsOf(gs) = PathsOf(fs)
BY TabFacts DEF PathsOf

LEMMA EditKeeps ==
  ASSUME WorkspaceInv, NEW p \in Paths, NEW t \in Texts, Edit(p, t)
  PROVE  WorkspaceInv'
<1> DEFINE i == At(files, p)
           new == [files[i] EXCEPT !.text = t, !.raw = FALSE]
<1>1. Filed(files) /\ shown \in PathsOf(files) /\ preferXdc \in PathsOf(files) \cup {None} /\ imported \in BOOLEAN
  BY OpenIsWhole DEF WorkspaceInv
<1>2. files \in Seq(FileTab) /\ i \in DOMAIN files /\ files[i] \in FileTab /\ DOMAIN files = 1..Len(files) /\ Len(files) \in Nat
  BY <1>1, FilesAreTabs, AtFinds DEF Edit
<1>3. new \in FileTab /\ new.path = files[i].path
  BY <1>2 DEF FileTab
<1>4. files' = [files EXCEPT ![i] = new]
  BY DEF Edit
<1> HIDE DEF new, i
<1>5. files' \in Seq(FileTab) /\ Len(files') = Len(files) /\ \A j \in 1..Len(files) : files'[j].path = files[j].path
  BY <1>2, <1>3, <1>4
<1>6. PathsOf(files') = PathsOf(files)
  BY <1>2, <1>5, SamePaths
<1>7. Filed(files')
  BY <1>1, <1>5, <1>6 DEF Filed
<1>8. UNCHANGED <<shown, preferXdc, imported, failed, saved, hash>> /\ Schedule /\ boot' = NoBoot
  BY DEF Edit, Changed, Calm
<1>9. Whole(Snapshot')
  BY <1>1, <1>6, <1>7, <1>8, NextIsWhole
<1>10. QED
  BY <1>8, <1>9, ScheduledKeeps DEF WorkspaceInv, WriteIsDue

LEMMA AddKeeps ==
  ASSUME WorkspaceInv, NEW p \in Paths, Add(p)
  PROVE  WorkspaceInv'
<1> DEFINE r == [path |-> p, text |-> Blank, raw |-> FALSE]
           i == At(files, shown) + 1
<1>1. Filed(files) /\ shown \in PathsOf(files) /\ preferXdc \in PathsOf(files) \cup {None} /\ imported \in BOOLEAN
  BY OpenIsWhole DEF WorkspaceInv
<1>2. files \in Seq(FileTab) /\ DOMAIN files = 1..Len(files) /\ Len(files) \in Nat /\ At(files, shown) \in DOMAIN files
  BY <1>1, FilesAreTabs, AtFinds
<1>3. i \in 1..Len(files) + 1
  BY <1>2
<1>4. r \in FileTab /\ r.path = p
  BY WorkspaceAssumption DEF FileTab
<1>5. files' = InsertAt(files, i, r) /\ Valid(Append(files, r)) /\ shown' = p
  BY DEF Add
<1>6. UNCHANGED <<preferXdc, imported, failed, saved, hash>> /\ Schedule /\ boot' = NoBoot
  BY DEF Add, Changed, Calm
<1> HIDE DEF r, i
<1>7. files' \in Seq(FileTab) /\ Len(files') = Len(files) + 1 /\ PathsOf(files') = PathsOf(files) \cup {p}
  BY <1>2, <1>3, <1>4, <1>5, Inserted
<1>8. Len(Append(files, r)) = Len(files) + 1 /\ PathsOf(Append(files, r)) = PathsOf(files) \cup {p}
  <2>1. InsertAt(files, Len(files) + 1, r) = Append(files, r)
    <3>1. SubSeq(files, 1, Len(files) + 1 - 1) = files
      BY <1>2
    <3>2. SubSeq(files, Len(files) + 1, Len(files)) = <<>>
      BY <1>2, SubSeqEmpty
    <3>3. files \o <<r>> = Append(files, r) /\ Append(files, r) \in Seq(FileTab)
      BY <1>2, <1>4, AppendIsConcat
    <3>4. Append(files, r) \o <<>> = Append(files, r)
      BY <3>3, ConcatEmptySeq
    <3>5. InsertAt(files, Len(files) + 1, r)
            = SubSeq(files, 1, Len(files) + 1 - 1) \o <<r>> \o SubSeq(files, Len(files) + 1, Len(files))
      BY DEF InsertAt
    <3>6. QED
      BY <3>1, <3>2, <3>3, <3>4, <3>5
  <2>2. Len(files) + 1 \in 1..Len(files) + 1
    BY <1>2
  <2>3. /\ Len(InsertAt(files, Len(files) + 1, r)) = Len(files) + 1
        /\ PathsOf(InsertAt(files, Len(files) + 1, r)) = PathsOf(files) \cup {r.path}
    BY <1>2, <1>4, <2>2, Inserted
  <2>4. QED
    BY <1>4, <2>1, <2>3
<1>9. Filed(files')
  BY <1>5, <1>7, <1>8 DEF Filed, Valid
<1>10. Whole(Snapshot')
  BY <1>1, <1>5, <1>6, <1>7, <1>9, NextIsWhole
<1>11. QED
  BY <1>6, <1>10, ScheduledKeeps DEF WorkspaceInv, WriteIsDue

LEMMA RemoveKeeps ==
  ASSUME WorkspaceInv, RemoveFile
  PROVE  WorkspaceInv'
<1> DEFINE i == At(files, shown)
           rest == RemoveAt(files, i)
<1>1. Filed(files) /\ shown \in PathsOf(files) /\ preferXdc \in PathsOf(files) \cup {None} /\ imported \in BOOLEAN
  BY OpenIsWhole DEF WorkspaceInv
<1>2. /\ files \in Seq(FileTab) /\ Len(files) \in Nat /\ Len(files) <= MaxFiles /\ i \in DOMAIN files
      /\ files[i].path = shown /\ Cardinality(PathsOf(files)) = Len(files)
  BY <1>1, FilesAreTabs, AtFinds
<1>3. /\ Len(files) > 1 /\ files' = rest /\ shown' = rest[1].path
      /\ preferXdc' = IF preferXdc = shown THEN None ELSE preferXdc
      /\ UNCHANGED <<imported, failed, saved, hash>> /\ Schedule /\ boot' = NoBoot
  BY DEF RemoveFile, Changed, Calm
<1> HIDE DEF i
<1>4. /\ rest \in Seq(FileTab) /\ Len(rest) = Len(files) - 1 /\ PathsOf(rest) = PathsOf(files) \ {shown}
      /\ Cardinality(PathsOf(rest)) = Len(rest)
  BY <1>2, Removed
<1> HIDE DEF rest
<1>5. Filed(rest)
  BY <1>2, <1>3, <1>4, WorkspaceAssumption DEF Filed
<1>6. Whole(Snapshot')
  BY <1>1, <1>3, <1>4, <1>5, FilesAreTabs, NextIsWhole
<1>7. QED
  BY <1>3, <1>6, ScheduledKeeps DEF WorkspaceInv, WriteIsDue

LEMMA RenameKeeps ==
  ASSUME WorkspaceInv, NEW p \in Paths, NEW q \in Paths, Rename(p, q)
  PROVE  WorkspaceInv'
<1> DEFINE i == At(files, p)
           new == [files[i] EXCEPT !.path = q, !.raw = @ /\ Kind(p) = Kind(q)]
<1>1. Filed(files) /\ shown \in PathsOf(files) /\ preferXdc \in PathsOf(files) \cup {None} /\ imported \in BOOLEAN
  BY OpenIsWhole DEF WorkspaceInv
<1>2. /\ files \in Seq(FileTab) /\ DOMAIN files = 1..Len(files) /\ Len(files) \in Nat
      /\ i \in DOMAIN files /\ files[i] \in FileTab /\ files[i].path = p
  BY <1>1, FilesAreTabs, AtFinds DEF Rename
<1>3. new \in FileTab /\ new.path = q
  BY <1>2 DEF FileTab
<1> DEFINE moved == [files EXCEPT ![i] = new]
<1>4. /\ files' = moved /\ Valid(files')
      /\ shown' = (IF shown = p THEN q ELSE shown) /\ preferXdc' = (IF preferXdc = p THEN q ELSE preferXdc)
      /\ UNCHANGED <<imported, failed, saved, hash>> /\ Schedule /\ boot' = NoBoot
  <2>1. files' = moved
    BY DEF Rename
  <2>2. Valid(moved)
    BY DEF Rename
  <2>3. /\ shown' = (IF shown = p THEN q ELSE shown) /\ preferXdc' = (IF preferXdc = p THEN q ELSE preferXdc)
        /\ UNCHANGED <<imported, failed, saved, hash>> /\ Schedule /\ boot' = NoBoot
    BY DEF Rename, Changed, Calm
  <2>4. QED
    BY <2>1, <2>2, <2>3
<1> HIDE DEF new, i
<1>5. /\ files' \in Seq(FileTab) /\ DOMAIN files' = DOMAIN files
      /\ \A j \in DOMAIN files : files'[j] = IF j = i THEN new ELSE files[j]
  BY <1>2, <1>3, <1>4
<1>6. q \in PathsOf(files') /\ PathsOf(files) \ {p} \subseteq PathsOf(files')
  BY <1>2, <1>3, <1>5 DEF PathsOf
<1>7. Filed(files')
  BY <1>4, <1>5, ValidIsFiled
<1>8. Whole(Snapshot')
  BY <1>1, <1>4, <1>6, <1>7, NextIsWhole
<1>9. QED
  BY <1>4, <1>8, ScheduledKeeps DEF WorkspaceInv, WriteIsDue

LEMMA ShowKeeps ==
  ASSUME WorkspaceInv, NEW p \in Paths, Show(p) \/ PickXdc(p)
  PROVE  WorkspaceInv'
<1>1. Filed(files) /\ shown \in PathsOf(files) /\ preferXdc \in PathsOf(files) \cup {None} /\ imported \in BOOLEAN
  BY OpenIsWhole DEF WorkspaceInv
<1>2. /\ UNCHANGED <<files, imported, failed, saved, hash>> /\ Schedule /\ boot' = NoBoot
      /\ shown' \in PathsOf(files) /\ preferXdc' \in PathsOf(files) \cup {None}
  BY <1>1 DEF Show, PickXdc, Changed, Calm
<1>3. Whole(Snapshot')
  BY <1>1, <1>2, NextIsWhole
<1>4. QED
  BY <1>2, <1>3, ScheduledKeeps DEF WorkspaceInv, WriteIsDue

LEMMA SetViewKeeps ==
  ASSUME WorkspaceInv, NEW v, NEW p \in Paths, NEW ok \in BOOLEAN, SetView(v, p, ok)
  PROVE  WorkspaceInv'
<1>1. Filed(files) /\ preferXdc \in PathsOf(files) \cup {None} /\ imported \in BOOLEAN
  BY OpenIsWhole DEF WorkspaceInv
<1>2. /\ UNCHANGED <<files, preferXdc, imported, hash>> /\ Schedule /\ boot' = NoBoot
      /\ shown' \in PathsOf(files) /\ saved' \in {saved, Snapshot} /\ failed' \in BOOLEAN
  BY DEF SetView, Calm, WorkspaceInv, WriteIsDue
<1>3. Whole(Snapshot')
  BY <1>1, <1>2, NextIsWhole
<1>4. QED
  BY <1>2, <1>3, ScheduledKeeps

\* Nothing of the files moves: a write is tried, or the workspace is shared.
LEMMA WriteKeeps ==
  ASSUME WorkspaceInv, NEW ok \in BOOLEAN, TimerFires(ok) \/ Flush(ok)
  PROVE  WorkspaceInv'
<1>1. /\ UNCHANGED <<files, shown, preferXdc, imported, hash>> /\ boot' = NoBoot
      /\ WriteOut(ok)
  BY DEF TimerFires, Flush, Calm
<1>2. Snapshot' = Snapshot
  BY <1>1 DEF Snapshot
<1>3. Stored'
  BY <1>1, <1>2 DEF WriteOut, WorkspaceInv, Stored
<1>4. WriteIsDue'
  BY <1>1, <1>2 DEF WriteOut, WorkspaceInv, WriteIsDue
<1>5. QED
  BY <1>1, <1>3, <1>4, CalmShowsSaved DEF WorkspaceInv

LEMMA ShareKeeps == ASSUME WorkspaceInv, Share PROVE WorkspaceInv'
<1>1. /\ UNCHANGED <<files, shown, preferXdc, imported, dirty, saveTimer, failed, saved>>
      /\ boot' = NoBoot /\ hash' = Snapshot
  BY DEF Share, Calm
<1>2. Snapshot' = Snapshot
  BY <1>1 DEF Snapshot
<1>3. Stored' /\ WriteIsDue'
  BY <1>1, <1>2 DEF WorkspaceInv, Stored, WriteIsDue
<1>4. QED
  BY <1>1, <1>3, CalmShowsSaved DEF WorkspaceInv

LEMMA ReplaceKeeps ==
  ASSUME WorkspaceInv, NEW fs \in Examples \cup Labs, NEW example \in BOOLEAN, NEW ok \in BOOLEAN, NEW yes \in BOOLEAN,
         Replace(fs, example, ok, yes)
  PROVE  WorkspaceInv'
<1>1. CASE NonEmpty /\ ~yes
  <2>1. UNCHANGED <<files, shown, preferXdc, imported, dirty, saveTimer, failed, saved, hash>> /\ boot' = NoBoot
    BY <1>1 DEF Replace
  <2>2. Snapshot' = Snapshot
    BY <2>1 DEF Snapshot
  <2>3. Stored' /\ WriteIsDue'
    BY <2>1, <2>2 DEF WorkspaceInv, Stored, WriteIsDue
  <2>4. QED
    BY <2>1, <2>3, CalmShowsSaved DEF WorkspaceInv
<1>2. CASE ~(NonEmpty /\ ~yes)
  <2>1. /\ files' = fs /\ shown' = fs[1].path /\ imported' = ~example /\ hash' = NoWork /\ Schedule /\ boot' = NoBoot
        /\ preferXdc' \in {None} \cup IF example THEN {} ELSE OnlyXdc(fs)
        /\ saved' \in {saved, Snapshot} /\ failed' \in BOOLEAN
    BY <1>2 DEF Replace, WorkspaceInv, WriteIsDue
  <2>2. Filed(fs) /\ fs[1].path \in PathsOf(fs)
    BY WorkspaceAssumption, ValidIsFiled DEF Replace
  <2>3. preferXdc' \in PathsOf(fs) \cup {None}
    BY <2>1 DEF OnlyXdc
  <2>4. Whole(Snapshot')
    BY <2>1, <2>2, <2>3, NextIsWhole
  <2>5. QED
    BY <2>1, <2>4, ScheduledKeeps
<1>3. QED
  BY <1>1, <1>2

-----------------------------------------------------------------------------
(* The next boot *)

LEMMA RestoredIsWhole ==
  ASSUME NEW w, Whole(w)
  PROVE  /\ Whole(Restored(w)) /\ Whole([Restored(w) EXCEPT !.imported = TRUE])
         /\ Words(Restored(w).files) = Words(w.files)
<1> DEFINE fs == w.files
           gs == [i \in DOMAIN fs |-> [fs[i] EXCEPT !.raw = TRUE]]
<1>1. fs \in Seq(FileTab) /\ DOMAIN fs = 1..Len(fs) /\ Len(fs) \in Nat /\ \A i \in DOMAIN fs : fs[i] \in FileTab
  BY FilesAreTabs DEF Whole
<1>2. \A i \in DOMAIN fs : /\ [fs[i] EXCEPT !.raw = TRUE] \in FileTab
                          /\ [fs[i] EXCEPT !.raw = TRUE].path = fs[i].path
                          /\ [fs[i] EXCEPT !.raw = TRUE].text = fs[i].text
  BY <1>1 DEF FileTab
<1>3. DOMAIN gs = DOMAIN fs /\ \A i \in DOMAIN gs : gs[i] \in FileTab /\ gs[i].path = fs[i].path /\ gs[i].text = fs[i].text
  BY <1>2
<1> HIDE DEF gs
<1>4. gs \in Seq(FileTab) /\ Len(gs) = Len(fs)
  <2>1. gs \in [1..Len(fs) -> FileTab]
    <3>1. gs = [i \in DOMAIN fs |-> gs[i]]
      BY DEF gs
    <3>2. QED
      BY <1>1, <1>3, <3>1
  <2>2. QED
    BY <1>1, <2>1
<1>5. PathsOf(gs) = PathsOf(fs)
  BY <1>1, <1>3, <1>4, SamePaths
<1>6. Filed(gs)
  BY <1>4, <1>5 DEF Filed, Whole
<1>7. Words(gs) = Words(fs)
  BY <1>3 DEF Words
<1>8. /\ Restored(w) \in Workspace /\ Restored(w).files = gs /\ Restored(w).active = w.active /\ Restored(w).xdc = w.xdc
      /\ [Restored(w) EXCEPT !.imported = TRUE] \in Workspace
      /\ [Restored(w) EXCEPT !.imported = TRUE].files = gs
      /\ [Restored(w) EXCEPT !.imported = TRUE].active = w.active
      /\ [Restored(w) EXCEPT !.imported = TRUE].xdc = w.xdc
  <2>1. Restored(w) = [w EXCEPT !.files = gs]
    BY DEF Restored, gs
  <2>2. QED
    BY <1>4, <2>1 DEF Whole, Workspace
<1>9. QED
  BY <1>5, <1>6, <1>7, <1>8 DEF Whole

LEMMA OpenedIsWhole == ASSUME NEW e \in Examples PROVE Whole(Opened(e))
<1>1. Filed(e) /\ e[1].path \in PathsOf(e) /\ e \in Seq(FileTab)
  BY WorkspaceAssumption, ValidIsFiled
<1>2. PathsOf(e) \subseteq Paths
  BY <1>1, PathsAreNames
<1>3. QED
  BY <1>1, <1>2 DEF Opened, Whole, Workspace

\* Boot, from whatever it found.
LEMMA BootKeeps ==
  ASSUME WorkspaceInv, NEW from, NEW state, NEW was, NEW ok \in BOOLEAN, Boot(from, state, was, ok), hash' = hash,
         Whole(state), was \in {saved, Snapshot},
         (from # "link" /\ was = Snapshot /\ \A i \in DOMAIN files : files[i].text # Big)
            => Words(state.files) = Words(files)
  PROVE  WorkspaceInv'
<1>1. Snapshot' = state
  <2>1. state = [files |-> state.files, active |-> state.active, xdc |-> state.xdc, imported |-> state.imported]
    BY DEF Whole, Workspace
  <2>2. QED
    BY <2>1 DEF Boot, Snapshot
<1>2. Stored'
  BY <1>1 DEF Boot, WorkspaceInv, Stored
<1>3. WriteIsDue'
  BY DEF Boot, WriteIsDue
<1>4. BootShowsSaved'
  BY DEF Boot, BootShowsSaved
<1>5. QED
  BY <1>2, <1>3, <1>4 DEF WorkspaceInv

LEMMA ReloadKeeps ==
  ASSUME WorkspaceInv, NEW wrote \in BOOLEAN, NEW ok \in BOOLEAN, Reload(wrote, ok)
  PROVE  WorkspaceInv'
<1> DEFINE was == IF dirty /\ wrote THEN Snapshot ELSE saved
<1>1. Whole(Snapshot) /\ Whole(saved) /\ (hash = NoWork \/ Whole(hash)) /\ was \in {saved, Snapshot} /\ Whole(was)
  BY DEF WorkspaceInv, Stored
<1>2. /\ hash' = hash
      /\ \/ Valid(hash.files) /\ Boot("link", [Restored(hash) EXCEPT !.imported = TRUE], was, ok)
         \/ Boot("saved", Restored(was), was, ok)
         \/ ~Valid(was.files) /\ \E e \in Examples : Boot("example", Opened(e), was, ok)
  BY DEF Reload
<1> HIDE DEF was
<1>3. CASE Valid(hash.files) /\ Boot("link", [Restored(hash) EXCEPT !.imported = TRUE], was, ok)
  <2>1. hash # NoWork
    BY <1>3 DEF NoWork, Valid
  <2>2. Whole([Restored(hash) EXCEPT !.imported = TRUE])
    BY <1>1, <2>1, RestoredIsWhole
  <2>3. QED
    BY <1>1, <1>2, <1>3, <2>2, BootKeeps
<1>4. CASE Boot("saved", Restored(was), was, ok)
  <2>1. Whole(Restored(was)) /\ Words(Restored(was).files) = Words(was.files)
    BY <1>1, RestoredIsWhole
  <2>2. was = Snapshot => was.files = files
    BY DEF Snapshot
  <2>3. QED
    BY <1>1, <1>2, <1>4, <2>1, <2>2, BootKeeps
<1>5. CASE ~Valid(was.files) /\ \E e \in Examples : Boot("example", Opened(e), was, ok)
  <2>1. PICK e \in Examples : Boot("example", Opened(e), was, ok)
    BY <1>5
  <2>2. Whole(Opened(e))
    BY OpenedIsWhole
  \* What a write of the open files holds is refused for one reason only.
  <2>3. ~(was = Snapshot /\ \A i \in DOMAIN files : files[i].text # Big)
    <3> SUFFICES ASSUME was = Snapshot, \A i \in DOMAIN files : files[i].text # Big PROVE FALSE
      OBVIOUS
    <3>1. was.files = files
      BY DEF Snapshot
    <3>2. Filed(files)
      BY OpenIsWhole DEF WorkspaceInv
    <3>3. QED
      BY <1>5, <3>1, <3>2 DEF Valid, Filed
  <2>4. QED
    BY <1>1, <1>2, <2>1, <2>2, <2>3, BootKeeps
<1>6. QED
  BY <1>2, <1>3, <1>4, <1>5

-----------------------------------------------------------------------------
LEMMA WorkspaceStarts == WorkspaceInit => WorkspaceInv
<1> SUFFICES ASSUME WorkspaceInit PROVE WorkspaceInv
  OBVIOUS
<1>1. PICK e \in Examples : files = e /\ shown = e[1].path
  BY DEF WorkspaceInit
<1>2. Whole(Opened(e))
  BY OpenedIsWhole
<1>3. Snapshot = Opened(e)
  BY <1>1 DEF WorkspaceInit, Snapshot, Opened
<1>4. QED
  BY <1>2, <1>3 DEF WorkspaceInit, WorkspaceInv, Stored, WriteIsDue, BootShowsSaved, NoBoot, None

LEMMA WorkspaceStays == WorkspaceInv /\ [WorkspaceStep]_workspaceVars => WorkspaceInv'
<1> SUFFICES ASSUME WorkspaceInv, [WorkspaceStep]_workspaceVars PROVE WorkspaceInv'
  OBVIOUS
<1>1. CASE WorkspaceStep
  BY <1>1, EditKeeps, RenameKeeps, AddKeeps, ShowKeeps, RemoveKeeps, ShareKeeps, WriteKeeps, SetViewKeeps,
     ReplaceKeeps, ReloadKeeps DEF WorkspaceStep
<1>2. CASE UNCHANGED workspaceVars
  <2>1. Snapshot' = Snapshot
    BY <1>2 DEF workspaceVars, Snapshot
  <2>2. QED
    BY <1>2, <2>1 DEF workspaceVars, WorkspaceInv, Stored, WriteIsDue, BootShowsSaved
<1>3. QED
  BY <1>1, <1>2

(* The invariant that carries both results below: every snapshot, the open one, *)
(* the stored one and a link's, is a whole workspace.                         *)
THEOREM WorkspaceInvHolds == WorkspaceSpec => []WorkspaceInv
<1>1. QED
  BY WorkspaceStarts, WorkspaceStays, PTL DEF WorkspaceSpec

(* The tabs are always a workspace one could open: not none, not too many, each  *)
(* under a name of its own (files.js).                                        *)
THEOREM WorkspaceTypeCorrect == WorkspaceSpec => []WorkspaceTypeOK
<1>1. WorkspaceInv => WorkspaceTypeOK
  <2> SUFFICES ASSUME WorkspaceInv PROVE WorkspaceTypeOK
    OBVIOUS
  <2>1. Filed(files) /\ imported \in BOOLEAN
    BY OpenIsWhole DEF WorkspaceInv
  <2>2. \A i \in DOMAIN files : files[i] \in FileTab
    BY <2>1, FilesAreTabs
  <2>3. QED
    BY <2>1, <2>2 DEF WorkspaceTypeOK, WorkspaceInv, WriteIsDue, Filed, FileTab
<1>2. QED
  BY <1>1, WorkspaceInvHolds, PTL

(* The student's files are kept (workspace.js, main.js): what is not saved is    *)
(* about to be, or the page said it could not be; a boot without a link shows    *)
(* what was written, unless a file had grown past 1 MiB; the open file and the   *)
(* chosen constraints file are always files of the workspace.                 *)
THEOREM EditsAreKeptHolds == WorkspaceSpec => []EditsAreKept
<1>1. WorkspaceInv => EditsAreKept
  BY OpenIsWhole DEF WorkspaceInv, WriteIsDue, BootShowsSaved, EditsAreKept
<1>2. QED
  BY <1>1, WorkspaceInvHolds, PTL

-----------------------------------------------------------------------------
(* The board: a circuit and what is wired to it *)

InputBits(map) == {<<e.port, e.bit>> : e \in {f \in map : f.dir = "input"}}
OneEntryEach(map) == \A e, f \in map : e.port = f.port /\ e.bit = f.bit => e = f
Circuit(c) ==
  /\ c = [on |-> c.on, map |-> c.map, ports |-> c.ports, clk |-> c.clk,
          values |-> c.values, settled |-> c.settled, q |-> c.q]
  /\ c.on \in BOOLEAN /\ (~c.on => c.map = {}) /\ c.values \in [InputBits(c.map) -> 0..1]
  /\ OneEntryEach(c.map)
\* InputsFollow, for a circuit, the controls and what they were at the last edge.
Sees(c, now, last) ==
  \A e \in c.map : e.dir = "input" /\ ElementOf(e) \in Controls /\ e.port # c.clk =>
    /\ c.values[<<e.port, e.bit>>] = now[ElementOf(e)]
    /\ c.clk # Nobody => c.q[<<e.port, e.bit>>] = last[ElementOf(e)]
BoundOnce(c) ==
  c.on =>
    /\ \A port \in c.ports : \A b \in 0..(port.bits - 1) :
         Cardinality({e \in c.map : e.port = port.name /\ e.bit = b}) = 1
    /\ \A e, f \in c.map : e.pin = f.pin => e = f
\* The same circuit, whatever its inputs are.
SameWires(c, d) == d.on = c.on /\ d.map = c.map /\ d.ports = c.ports /\ d.clk = c.clk

BoardTypes ==
  /\ lit \in [Controls -> 0..1] /\ keyHeld \subseteq Buttons /\ ptrHeld \subseteq Buttons
  /\ focus \in {"svg", "away"} \cup Controls /\ ptrDown \in Buttons \cup {Nobody}
  /\ {building, away, running, paused} \subseteq BOOLEAN /\ frames \in Nat
CircuitFits == Circuit(circuit) /\ BoundOnce(circuit) /\ Sees(circuit, lit, edge)
\* While a run is under way there is nothing to clock.
BuildingIsBare == building => ~circuit.on /\ ~running
BoardInv == BoardTypes /\ CircuitFits /\ HeldIsDown /\ ClockNeedsCircuit /\ BuildingIsBare

-----------------------------------------------------------------------------
LEMMA OneEntryPerBit ==
  ASSUME NEW c, Circuit(c), NEW e \in c.map, NEW x, e.dir = "input"
  PROVE  /\ <<e.port, e.bit>> \in InputBits(c.map)
         /\ <<e.port, e.bit>> \in InputsAt(c.map, x) <=> ElementOf(e) = x
<1>1. <<e.port, e.bit>> \in InputBits(c.map)
  BY DEF InputBits
<1>2. ASSUME <<e.port, e.bit>> \in InputsAt(c.map, x) PROVE ElementOf(e) = x
  <2>1. PICK f \in {g \in c.map : g.dir = "input" /\ ElementOf(g) = x} : <<e.port, e.bit>> = <<f.port, f.bit>>
    BY <1>2 DEF InputsAt
  <2>2. e = f
    BY <2>1 DEF Circuit, OneEntryEach
  <2>3. QED
    BY <2>1, <2>2
<1>3. ASSUME ElementOf(e) = x PROVE <<e.port, e.bit>> \in InputsAt(c.map, x)
  BY <1>3 DEF InputsAt
<1>4. QED
  BY <1>1, <1>2, <1>3

LEMMA SettleKeeps ==
  ASSUME NEW c, Circuit(c)
  PROVE  /\ Circuit(Settle(c)) /\ SameWires(c, Settle(c))
         /\ Settle(c).values = c.values /\ Settle(c).q = c.q /\ Settle(c).settled = c.values
<1>1. Settle(c) = [on |-> c.on, map |-> c.map, ports |-> c.ports, clk |-> c.clk,
                   values |-> c.values, settled |-> c.values, q |-> c.q]
  BY DEF Settle, Circuit
<1>2. QED
  BY <1>1 DEF Circuit, SameWires

\* New inputs for the same circuit.
LEMMA SetKeeps ==
  ASSUME NEW c, Circuit(c), NEW v \in [InputBits(c.map) -> 0..1], NEW d, d \in {[c EXCEPT !.values = v], Settle([c EXCEPT !.values = v])}
  PROVE  Circuit(d) /\ SameWires(c, d) /\ d.values = v /\ d.q = c.q
<1> DEFINE s == [c EXCEPT !.values = v]
<1>1. s = [on |-> c.on, map |-> c.map, ports |-> c.ports, clk |-> c.clk,
           values |-> v, settled |-> c.settled, q |-> c.q]
  BY DEF Circuit
<1>2. Circuit(s) /\ SameWires(c, s) /\ s.values = v /\ s.q = c.q
  BY <1>1 DEF Circuit, SameWires
<1> HIDE DEF s
<1>3. CASE d = s
  BY <1>2, <1>3
<1>4. CASE d = Settle(s)
  BY <1>2, <1>4, SettleKeeps DEF SameWires
<1>5. QED
  BY <1>3, <1>4 DEF s

\* Feed, for the circuit that sees the board.
LEMMA FeedKeeps ==
  ASSUME CircuitFits, NEW s \in Controls, NEW v \in 0..1, NEW now \in BOOLEAN, lit \in [Controls -> 0..1]
  PROVE  LET d == Feed(circuit, s, v, now) IN
         Circuit(d) /\ SameWires(circuit, d) /\ Sees(d, [lit EXCEPT ![s] = v], edge)
<1> DEFINE w == [b \in DOMAIN circuit.values |-> IF b \in InputsAt(circuit.map, s) THEN v ELSE circuit.values[b]]
           d == Feed(circuit, s, v, now)
<1>1. Circuit(circuit) /\ Sees(circuit, lit, edge) /\ DOMAIN circuit.values = InputBits(circuit.map)
  BY DEF CircuitFits, Circuit
<1>2. CASE ~circuit.on
  <2>1. d = circuit
    BY <1>2 DEF Feed
  <2>2. circuit.map = {}
    BY <1>1, <1>2 DEF Circuit
  <2>3. QED
    BY <1>1, <2>1, <2>2 DEF Sees, SameWires
<1>3. CASE circuit.on
  <2>1. d \in {[circuit EXCEPT !.values = w], Settle([circuit EXCEPT !.values = w])}
    BY <1>3 DEF Feed
  <2>2. w \in [InputBits(circuit.map) -> 0..1]
    BY <1>1 DEF Circuit
  <2> HIDE DEF w, d
  <2>3. Circuit(d) /\ SameWires(circuit, d) /\ d.values = w /\ d.q = circuit.q
    BY <1>1, <2>1, <2>2, SetKeeps
  <2>4. Sees(d, [lit EXCEPT ![s] = v], edge)
    <3> SUFFICES ASSUME NEW e \in circuit.map, e.dir = "input", ElementOf(e) \in Controls, e.port # circuit.clk
                 PROVE  /\ w[<<e.port, e.bit>>] = [lit EXCEPT ![s] = v][ElementOf(e)]
                        /\ circuit.clk # Nobody => circuit.q[<<e.port, e.bit>>] = edge[ElementOf(e)]
      BY <2>3 DEF Sees, SameWires
    <3>1. <<e.port, e.bit>> \in InputBits(circuit.map) /\ (<<e.port, e.bit>> \in InputsAt(circuit.map, s) <=> ElementOf(e) = s)
      BY <1>1, OneEntryPerBit
    <3>2. circuit.values[<<e.port, e.bit>>] = lit[ElementOf(e)] /\ (circuit.clk # Nobody => circuit.q[<<e.port, e.bit>>] = edge[ElementOf(e)])
      BY <1>1 DEF Sees
    <3>3. w[<<e.port, e.bit>>] = IF ElementOf(e) = s THEN v ELSE lit[ElementOf(e)]
      BY <1>1, <3>1, <3>2 DEF w
    <3>4. QED
      BY <3>2, <3>3
  <2>5. QED
    BY <2>3, <2>4 DEF d
<1>4. QED
  BY <1>1, <1>2, <1>3 DEF Circuit

LEMMA LowKeeps ==
  ASSUME NEW bits, NEW f \in [bits -> 0..1], NEW x
  PROVE  [f EXCEPT ![x] = 0] \in [bits -> 0..1] /\ \A b \in bits : b # x => [f EXCEPT ![x] = 0][b] = f[b]
<1> DEFINE g == [f EXCEPT ![x] = 0]
<1>1. g = [b \in bits |-> IF b = x THEN 0 ELSE f[b]]
  OBVIOUS
<1> HIDE DEF g
<1>2. g \in [bits -> 0..1] /\ \A b \in bits : b # x => g[b] = f[b]
  BY <1>1
<1>3. QED
  BY <1>2 DEF g

\* The edge: the registers take what has settled.
LEMMA EdgeKeeps ==
  ASSUME NEW s, Circuit(s), NEW v \in [InputBits(s.map) -> 0..1]
  PROVE  LET t == [s EXCEPT !.q = s.settled, !.values = v] IN
         Circuit(t) /\ SameWires(s, t) /\ t.values = v /\ t.q = s.settled
<1> DEFINE t == [s EXCEPT !.q = s.settled, !.values = v]
<1>1. s = [on |-> s.on, map |-> s.map, ports |-> s.ports, clk |-> s.clk, values |-> s.values, settled |-> s.settled, q |-> s.q]
  BY DEF Circuit
<1>2. t = [on |-> s.on, map |-> s.map, ports |-> s.ports, clk |-> s.clk, values |-> v, settled |-> s.settled, q |-> s.settled]
  <2> DEFINE r == [s EXCEPT !.q = s.settled]
  <2>1. r = [on |-> s.on, map |-> s.map, ports |-> s.ports, clk |-> s.clk, values |-> s.values, settled |-> s.settled, q |-> s.settled]
    BY <1>1
  <2>2. t = [r EXCEPT !.values = v]
    OBVIOUS
  <2> HIDE DEF r
  <2>3. QED
    BY <2>1, <2>2
<1> HIDE DEF t
<1>3. QED
  BY <1>2 DEF Circuit, SameWires, t

LEMMA CycleKeeps ==
  ASSUME CircuitFits, lit \in [Controls -> 0..1]
  PROVE  LET d == Cycle(circuit) IN Circuit(d) /\ SameWires(circuit, d) /\ Sees(d, lit, BoardNow)
<1> DEFINE c == circuit
           s == Settle(circuit)
           x == <<c.clk, 0>>
           v == [s.values EXCEPT ![x] = 0]
           t == [s EXCEPT !.q = s.settled, !.values = v]
           d == Settle(t)
<1>1. Circuit(c) /\ Sees(c, lit, edge)
  BY DEF CircuitFits
<1>2. Circuit(s) /\ SameWires(c, s) /\ s.values = c.values /\ s.settled = c.values /\ s.clk = c.clk /\ s.map = c.map
  BY <1>1, SettleKeeps DEF SameWires
<1>3. Cycle(circuit) = Settle([s EXCEPT !.q = s.settled, !.values = [s.values EXCEPT ![<<c.clk, 0>>] = 0]])
  BY DEF Cycle
<1>4. Cycle(circuit) = d
  BY <1>3
<1>5. s.values \in [InputBits(c.map) -> 0..1]
  BY <1>1, <1>2 DEF Circuit
<1> HIDE DEF s, x
<1>6. v \in [InputBits(s.map) -> 0..1] /\ \A b \in InputBits(c.map) : b # x => v[b] = c.values[b]
  BY <1>2, <1>5, LowKeeps
<1> HIDE DEF v
<1>7. Circuit(t) /\ SameWires(s, t) /\ t.values = v /\ t.q = c.values
  BY <1>2, <1>6, EdgeKeeps
<1> HIDE DEF t
<1>8. Circuit(d) /\ SameWires(c, d) /\ d.values = v /\ d.q = c.values
  BY <1>2, <1>7, SettleKeeps DEF SameWires
<1> HIDE DEF d
<1>9. Sees(d, lit, BoardNow)
  <2> SUFFICES ASSUME NEW e \in c.map, e.dir = "input", ElementOf(e) \in Controls, e.port # c.clk
               PROVE  v[<<e.port, e.bit>>] = lit[ElementOf(e)] /\ c.values[<<e.port, e.bit>>] = BoardNow[ElementOf(e)]
    BY <1>8 DEF Sees, SameWires
  <2>1. <<e.port, e.bit>> \in InputBits(c.map) /\ c.values[<<e.port, e.bit>>] = lit[ElementOf(e)]
    BY <1>1, OneEntryPerBit DEF Sees
  <2>2. v[<<e.port, e.bit>>] = c.values[<<e.port, e.bit>>]
    BY <1>6, <2>1 DEF x
  <2>3. QED
    BY <2>1, <2>2 DEF BoardNow
<1>10. QED
  BY <1>4, <1>8, <1>9

\* What pins a run binds, once it found no error.
LEMMA EntriesAreBound ==
  ASSUME NEW design \in Designs, ~BindErrors(design)
  PROVE  /\ OneEntryEach(Entries(design))
         /\ \A port \in design.ports : \A b \in 0..(port.bits - 1) :
              Cardinality({e \in Entries(design) : e.port = port.name /\ e.bit = b}) = 1
         /\ \A e, f \in Entries(design) : e.pin = f.pin => e = f
<1> DEFINE Entry(x) == [port |-> x[1].name, bit |-> x[2], dir |-> x[1].dir, pin |-> CHOOSE p \in Hits(design, x[1], x[2]) : TRUE]
<1>1. Entries(design) = {Entry(x) : x \in BitsOf(design)}
  BY DEF Entries, BindErrors
<1>2. \A x \in BitsOf(design) : x = <<x[1], x[2]>> /\ x[1] \in design.ports /\ x[2] \in 0..(x[1].bits - 1)
  BY DEF BitsOf
<1>3. \A x, y \in BitsOf(design) : x[1].name = y[1].name /\ x[2] = y[2] => x = y
  BY <1>2, BoardAssumption
<1>4. \A x \in BitsOf(design) : Entry(x).port = x[1].name /\ Entry(x).bit = x[2]
  OBVIOUS
<1> HIDE DEF Entry
<1>5. OneEntryEach(Entries(design))
  BY <1>1, <1>3, <1>4 DEF OneEntryEach
<1>6. ASSUME NEW port \in design.ports, NEW b \in 0..(port.bits - 1)
      PROVE  Cardinality({e \in Entries(design) : e.port = port.name /\ e.bit = b}) = 1
  <2>1. <<port, b>> \in BitsOf(design)
    BY DEF BitsOf
  <2>2. Entry(<<port, b>>) \in {e \in Entries(design) : e.port = port.name /\ e.bit = b}
    BY <1>1, <1>4, <2>1
  <2>3. {e \in Entries(design) : e.port = port.name /\ e.bit = b} = {Entry(<<port, b>>)}
    BY <1>5, <2>2 DEF OneEntryEach
  <2>4. QED
    BY <2>3, FS_Singleton
<1>7. \A e, f \in Entries(design) : e.pin = f.pin => e = f
  BY DEF BindErrors
<1>8. QED
  BY <1>5, <1>6, <1>7

\* The circuit of a run that ends: what the board has on is fed to it.
LEMMA NewCircuitFits ==
  ASSUME NEW design \in Designs, ~BindErrors(design), lit \in [Controls -> 0..1], NEW clk
  PROVE  LET low == [b \in InputBits(Entries(design)) |-> 0]
             new == [on |-> TRUE, map |-> Entries(design), ports |-> design.ports, clk |-> clk,
                     values |-> low, settled |-> low, q |-> low]
             d   == Settle(Fed(new)) IN
         /\ Circuit(d) /\ SameWires(new, d) /\ BoundOnce(d) /\ Sees(d, lit, [e \in Controls |-> 0])
<1> DEFINE low == [b \in InputBits(Entries(design)) |-> 0]
           new == [on |-> TRUE, map |-> Entries(design), ports |-> design.ports, clk |-> clk,
                   values |-> low, settled |-> low, q |-> low]
           v   == [b \in DOMAIN new.values |-> IF \E s \in Controls : lit[s] = 1 /\ b \in InputsAt(new.map, s) THEN 1 ELSE 0]
           d   == Settle(Fed(new))
<1>1. Circuit(new) /\ new.map = Entries(design) /\ new.q = low /\ new.clk = clk /\ new.on /\ new.ports = design.ports
  BY EntriesAreBound DEF Circuit
<1>2. v \in [InputBits(new.map) -> 0..1]
  OBVIOUS
<1>3. d = Settle([new EXCEPT !.values = v])
  BY DEF Fed
<1> HIDE DEF new, v, d
<1>4. Circuit(d) /\ SameWires(new, d) /\ d.values = v /\ d.q = low
  BY <1>1, <1>2, <1>3, SetKeeps
<1>5. BoundOnce(d)
  BY <1>1, <1>4, EntriesAreBound DEF BoundOnce, SameWires
<1>6. Sees(d, lit, [e \in Controls |-> 0])
  <2> SUFFICES ASSUME NEW e \in new.map, e.dir = "input", ElementOf(e) \in Controls
               PROVE  v[<<e.port, e.bit>>] = lit[ElementOf(e)] /\ low[<<e.port, e.bit>>] = 0
    BY <1>4 DEF Sees, SameWires
  <2>1. /\ <<e.port, e.bit>> \in InputBits(new.map)
        /\ \A x : <<e.port, e.bit>> \in InputsAt(new.map, x) <=> ElementOf(e) = x
    BY <1>1, OneEntryPerBit
  <2>2. v[<<e.port, e.bit>>] = IF lit[ElementOf(e)] = 1 THEN 1 ELSE 0
    BY <1>1, <2>1 DEF v, Circuit
  <2>3. QED
    BY <1>1, <2>1, <2>2
<1>7. QED
  BY <1>4, <1>5, <1>6 DEF new, d

-----------------------------------------------------------------------------
(* The steps of the board *)

LEMMA InputKeeps ==
  ASSUME BoardInv, LoopSame, lit' \in [Controls -> 0..1], keyHeld' \subseteq Buttons, ptrHeld' \subseteq Buttons,
         focus' \in {"svg", "away"} \cup Controls, ptrDown' \in Buttons \cup {Nobody}, HeldIsDown',
         Circuit(circuit'), SameWires(circuit, circuit'), Sees(circuit', lit', edge)
  PROVE  BoardInv'
<1>1. BoardTypes'
  BY DEF BoardInv, BoardTypes, LoopSame
<1>2. CircuitFits'
  BY DEF BoardInv, CircuitFits, SameWires, BoundOnce, LoopSame
<1>3. ClockNeedsCircuit' /\ BuildingIsBare'
  BY DEF BoardInv, ClockNeedsCircuit, BuildingIsBare, Clocked, SameWires, LoopSame
<1>4. QED
  BY <1>1, <1>2, <1>3 DEF BoardInv

\* What a press or a release puts on the wires.
LEMMA HoldSees ==
  ASSUME BoardInv, NEW keys \in SUBSET Buttons, NEW ptrs \in SUBSET Buttons, Hold(keys, ptrs)
  PROVE  Circuit(circuit') /\ SameWires(circuit, circuit') /\ Sees(circuit', lit', edge)
<1> DEFINE new == [e \in Controls |-> IF e \in Buttons THEN IF e \in keys \cup ptrs THEN 1 ELSE 0 ELSE lit[e]]
           changed == {b \in Buttons : new[b] # lit[b]}
           c == circuit
           v == [b \in DOMAIN c.values |-> IF \E x \in changed : b \in InputsAt(c.map, x)
                                           THEN new[CHOOSE x \in changed : b \in InputsAt(c.map, x)] ELSE c.values[b]]
<1>1. Circuit(c) /\ Sees(c, lit, edge) /\ lit \in [Controls -> 0..1] /\ DOMAIN c.values = InputBits(c.map)
  BY DEF BoardInv, BoardTypes, CircuitFits, Circuit
<1>2. lit' = new /\ circuit' \in {c, [c EXCEPT !.values = v], Settle([c EXCEPT !.values = v])}
      /\ (circuit' = c => ~c.on \/ changed = {} \/ circuit' \in {[c EXCEPT !.values = v], Settle([c EXCEPT !.values = v])})
  BY DEF Hold
<1>3. new \in [Controls -> 0..1] /\ changed \subseteq Controls /\ \A x \in Controls \ changed : new[x] = lit[x]
  BY <1>1 DEF Controls
<1> HIDE DEF new, changed
<1>4. CASE ~c.on \/ changed = {}
  <2>1. circuit' = c
    BY <1>4 DEF Hold, new, changed
  <2>2. Sees(c, new, edge)
    BY <1>1, <1>3, <1>4 DEF Sees, Circuit
  <2>3. QED
    BY <1>1, <1>2, <2>1, <2>2 DEF SameWires
<1>5. CASE ~(~c.on \/ changed = {})
  <2>1. v \in [InputBits(c.map) -> 0..1]
    BY <1>1, <1>3 DEF Circuit
  <2>2. circuit' \in {[c EXCEPT !.values = v], Settle([c EXCEPT !.values = v])}
    BY <1>2, <1>5
  <2> HIDE DEF v
  <2>3. Circuit(circuit') /\ SameWires(c, circuit') /\ circuit'.values = v /\ circuit'.q = c.q
    BY <1>1, <2>1, <2>2, SetKeeps
  <2>4. Sees(circuit', new, edge)
    <3> SUFFICES ASSUME NEW e \in c.map, e.dir = "input", ElementOf(e) \in Controls, e.port # c.clk
                 PROVE  v[<<e.port, e.bit>>] = new[ElementOf(e)] /\ (c.clk # Nobody => c.q[<<e.port, e.bit>>] = edge[ElementOf(e)])
      BY <2>3 DEF Sees, SameWires
    <3> DEFINE b == <<e.port, e.bit>>
    <3>1. b \in InputBits(c.map) /\ \A x : b \in InputsAt(c.map, x) <=> ElementOf(e) = x
      BY <1>1, OneEntryPerBit
    <3>2. c.values[b] = lit[ElementOf(e)] /\ (c.clk # Nobody => c.q[b] = edge[ElementOf(e)])
      BY <1>1 DEF Sees
    <3> HIDE DEF b
    <3>3. CASE ElementOf(e) \in changed
      <4>1. (CHOOSE x \in changed : b \in InputsAt(c.map, x)) = ElementOf(e)
        BY <3>1, <3>3
      <4>2. v[b] = new[ElementOf(e)]
        BY <1>1, <3>1, <3>3, <4>1 DEF v
      <4>3. QED
        BY <3>2, <4>2 DEF b
    <3>4. CASE ElementOf(e) \notin changed
      BY <1>1, <1>3, <3>1, <3>2, <3>4 DEF v, b
    <3>5. QED
      BY <3>3, <3>4
  <2>5. QED
    BY <1>2, <2>3, <2>4
<1>6. QED
  BY <1>4, <1>5

LEMMA HoldKeeps ==
  ASSUME BoardInv, NEW keys \in SUBSET Buttons, NEW ptrs \in SUBSET Buttons, Hold(keys, ptrs), LoopSame,
         focus' \in {"svg", "away"} \cup Controls, ptrDown' \in Buttons \cup {Nobody}
  PROVE  BoardInv'
<1>1. keyHeld' = keys /\ ptrHeld' = ptrs
  BY DEF Hold
<1>2. lit' = [e \in Controls |-> IF e \in Buttons THEN IF e \in keys \cup ptrs THEN 1 ELSE 0 ELSE lit[e]]
  BY DEF Hold
<1>3. lit' \in [Controls -> 0..1] /\ HeldIsDown'
  BY <1>1, <1>2 DEF BoardInv, BoardTypes, HeldIsDown, Controls
<1>4. QED
  BY <1>1, <1>3, HoldSees, InputKeeps

LEMMA ToggleKeeps ==
  ASSUME BoardInv, NEW s \in Switches, Toggle(s), LoopSame,
         focus' \in {"svg", "away"} \cup Controls, ptrDown' \in Buttons \cup {Nobody}
  PROVE  BoardInv'
<1>1. lit \in [Controls -> 0..1] /\ s \in Controls /\ s \notin Buttons /\ lit[s] \in 0..1 /\ CircuitFits
  BY BoardAssumption DEF BoardInv, BoardTypes, Controls
<1>2. 1 - lit[s] \in 0..1
  BY <1>1
<1>3. lit' = [lit EXCEPT ![s] = 1 - lit[s]] /\ keyHeld' = keyHeld /\ ptrHeld' = ptrHeld
      /\ circuit' = Feed(circuit, s, 1 - lit[s], ~running)
  BY DEF Toggle
<1>4. lit' \in [Controls -> 0..1] /\ HeldIsDown'
  BY <1>1, <1>2, <1>3 DEF BoardInv, HeldIsDown, Controls
<1>5. (~running) \in BOOLEAN
  OBVIOUS
<1>6. Circuit(circuit') /\ SameWires(circuit, circuit') /\ Sees(circuit', lit', edge)
  BY <1>1, <1>2, <1>3, <1>5, FeedKeeps
<1>7. keyHeld' \subseteq Buttons /\ ptrHeld' \subseteq Buttons
  BY <1>3 DEF BoardInv, BoardTypes
<1>8. QED
  BY <1>4, <1>6, <1>7, InputKeeps

LEMMA IgnoredKeeps ==
  ASSUME BoardInv, Ignored, LoopSame,
         focus' \in {"svg", "away"} \cup Controls, ptrDown' \in Buttons \cup {Nobody}
  PROVE  BoardInv'
<1>1. UNCHANGED <<lit, keyHeld, ptrHeld, circuit>>
  BY DEF Ignored
<1>2. HeldIsDown' /\ Circuit(circuit') /\ SameWires(circuit, circuit') /\ Sees(circuit', lit', edge)
  BY <1>1 DEF BoardInv, HeldIsDown, CircuitFits, SameWires
<1>3. lit' \in [Controls -> 0..1] /\ keyHeld' \subseteq Buttons /\ ptrHeld' \subseteq Buttons
  BY <1>1 DEF BoardInv, BoardTypes
<1>4. QED
  BY <1>2, <1>3, InputKeeps

LEMMA KeysKeep ==
  ASSUME BoardInv, NEW k \in DOMAIN BoardKeys \cup PressKeys, KeyDown(k) \/ KeyUp(k)
  PROVE  BoardInv'
<1>1. /\ keyHeld \subseteq Buttons /\ ptrHeld \subseteq Buttons /\ Controls = Buttons \cup Switches
      /\ focus' \in {"svg", "away"} \cup Controls /\ ptrDown' \in Buttons \cup {Nobody} /\ LoopSame
      /\ \A x \in DOMAIN BoardKeys : BoardKeys[x] \in Buttons
  BY BoardAssumption DEF BoardInv, BoardTypes, KeyDown, KeyUp, Controls
<1>2. CASE \E keys, ptrs \in SUBSET Buttons : Hold(keys, ptrs)
  BY <1>1, <1>2, HoldKeeps
<1>3. CASE \E s \in Switches : Toggle(s)
  BY <1>1, <1>3, ToggleKeeps
<1>4. CASE Ignored
  BY <1>1, <1>4, IgnoredKeeps
<1>5. QED
  <2>1. CASE KeyDown(k)
    <3>1. \/ focus = "svg" /\ k \in DOMAIN BoardKeys /\ Hold(keyHeld \cup {BoardKeys[k]}, ptrHeld)
          \/ focus \in Buttons /\ Hold(keyHeld \cup {focus}, ptrHeld)
          \/ focus \in Switches /\ Toggle(focus)
          \/ Ignored
      BY <2>1 DEF KeyDown
    <3>2. QED
      BY <1>1, <1>2, <1>3, <1>4, <3>1
  <2>2. CASE KeyUp(k)
    <3>1. \/ Hold(keyHeld \ {focus}, ptrHeld)
          \/ Hold(keyHeld \ {BoardKeys[k]}, ptrHeld)
          \/ Ignored
      BY <2>2 DEF KeyUp
    <3>2. QED
      BY <1>1, <1>2, <1>4, <3>1
  <2>3. QED
    BY <2>1, <2>2

LEMMA HandsKeep ==
  ASSUME BoardInv,
         \/ \E t \in {"svg", "away"} \cup Controls : Focus(t)
         \/ \E b \in Buttons : PointerDown(b)
         \/ \E s \in Switches : ClickSwitch(s)
         \/ PointerUp \/ WindowBlur
  PROVE  BoardInv'
<1>1. /\ keyHeld \subseteq Buttons /\ ptrHeld \subseteq Buttons
      /\ focus \in {"svg", "away"} \cup Controls /\ ptrDown \in Buttons \cup {Nobody}
  BY DEF BoardInv, BoardTypes
<1>2. CASE \E t \in {"svg", "away"} \cup Controls : Focus(t)
  <2>1. PICK t \in {"svg", "away"} \cup Controls : Focus(t)
    BY <1>2
  <2>2. focus' = t /\ ptrDown' = ptrDown /\ LoopSame /\ (Hold({}, ptrHeld) \/ Hold(keyHeld \ {focus}, ptrHeld))
    BY <2>1 DEF Focus
  <2>3. {} \in SUBSET Buttons /\ keyHeld \ {focus} \in SUBSET Buttons /\ ptrHeld \in SUBSET Buttons
    BY <1>1
  <2>4. QED
    BY <1>1, <2>2, <2>3, HoldKeeps
<1>3. CASE \E b \in Buttons : PointerDown(b)
  <2>1. PICK b \in Buttons : PointerDown(b)
    BY <1>3
  <2>2. focus' = focus /\ ptrDown' = b /\ LoopSame /\ Hold(keyHeld, ptrHeld \cup {b})
    BY <2>1 DEF PointerDown
  <2>3. QED
    BY <1>1, <2>2, HoldKeeps
<1>4. CASE \E s \in Switches : ClickSwitch(s)
  BY <1>1, <1>4, ToggleKeeps DEF ClickSwitch, UserSame
<1>5. CASE PointerUp
  <2>1. focus' = focus /\ ptrDown' = Nobody /\ LoopSame /\ Hold(keyHeld, ptrHeld \ {ptrDown})
    BY <1>5 DEF PointerUp
  <2>2. QED
    BY <1>1, <2>1, HoldKeeps
<1>6. CASE WindowBlur
  <2>1. focus' = focus /\ ptrDown' = ptrDown /\ LoopSame /\ Hold({}, {})
    BY <1>6 DEF WindowBlur
  <2>2. QED
    BY <1>1, <2>1, HoldKeeps
<1>7. QED
  BY <1>2, <1>3, <1>4, <1>5, <1>6

\* No circuit sees anything.
LEMMA NoCircuitFits == Circuit(NoCircuit) /\ BoundOnce(NoCircuit) /\ \A now, last : Sees(NoCircuit, now, last)
<1> DEFINE c == NoCircuit
<1>1. c.on = FALSE /\ c.map = {} /\ c.values = <<>>
      /\ c = [on |-> c.on, map |-> c.map, ports |-> c.ports, clk |-> c.clk,
              values |-> c.values, settled |-> c.settled, q |-> c.q]
  BY DEF NoCircuit
<1>2. c.values \in [InputBits(c.map) -> 0..1]
  <2>1. InputBits(c.map) = {} /\ DOMAIN <<>> = {}
    BY <1>1 DEF InputBits
  <2>2. <<>> \in [{} -> 0..1]
    OBVIOUS
  <2>3. QED
    BY <1>1, <2>1, <2>2
<1> HIDE DEF c
<1>3. Circuit(c) /\ BoundOnce(c) /\ \A now, last : Sees(c, now, last)
  BY <1>1, <1>2 DEF Circuit, OneEntryEach, BoundOnce, Sees
<1>4. QED
  BY <1>3 DEF c

\* The circuit is gone, and the clock with it.
LEMMA ResetKeeps ==
  ASSUME BoardInv, ResetBoard, BoardSame, UserSame, building' \in BOOLEAN, away' \in BOOLEAN, UNCHANGED <<paused, edge>>
  PROVE  BoardInv'
<1>1. BoardTypes' /\ HeldIsDown'
  BY DEF BoardInv, BoardTypes, HeldIsDown, ResetBoard, Stop, BoardSame, UserSame
<1>2. circuit' = NoCircuit /\ running' = FALSE
  BY DEF ResetBoard, Stop
<1>3. CircuitFits'
  BY <1>2, NoCircuitFits DEF CircuitFits
<1>4. ClockNeedsCircuit' /\ BuildingIsBare'
  BY <1>2 DEF ClockNeedsCircuit, BuildingIsBare, NoCircuit
<1>5. QED
  BY <1>1, <1>3, <1>4 DEF BoardInv

\* The circuit stays or is clocked.
LEMMA LoopKeeps ==
  ASSUME BoardInv, BoardSame, UserSame, building' \in {FALSE, building}, away' \in BOOLEAN, paused' \in BOOLEAN,
         frames' \in Nat, running' \in BOOLEAN, running' => running \/ Clocked,
         ClockCircuit \/ UNCHANGED <<circuit, edge>>
  PROVE  BoardInv'
<1>1. BoardTypes' /\ HeldIsDown'
  BY DEF BoardInv, BoardTypes, HeldIsDown, BoardSame, UserSame
<1>2. Circuit(circuit') /\ SameWires(circuit, circuit') /\ Sees(circuit', lit', edge')
  <2>1. CASE UNCHANGED <<circuit, edge>>
    BY <2>1 DEF BoardInv, CircuitFits, SameWires, BoardSame
  <2>2. CASE ClockCircuit
    <3>1. CircuitFits /\ lit \in [Controls -> 0..1] /\ lit' = lit /\ circuit' = Cycle(circuit) /\ edge' = BoardNow
      BY <2>2 DEF BoardInv, BoardTypes, ClockCircuit, BoardSame
    <3>2. QED
      BY <3>1, CycleKeeps
  <2>3. QED
    BY <2>1, <2>2
<1>3. CircuitFits'
  BY <1>2 DEF BoardInv, CircuitFits, SameWires, BoundOnce
<1>4. ClockNeedsCircuit' /\ BuildingIsBare'
  <2>1. circuit'.on = circuit.on /\ circuit'.clk = circuit.clk
    BY <1>2 DEF SameWires
  <2>2. running => Clocked
    BY DEF BoardInv, ClockNeedsCircuit
  <2>3. Clocked' <=> Clocked
    BY <2>1 DEF Clocked
  <2>4. building' => building
    OBVIOUS
  <2>5. building => ~circuit.on /\ ~running /\ ~Clocked
    BY DEF BoardInv, BuildingIsBare, Clocked
  <2>6. ClockNeedsCircuit'
    BY <2>2, <2>3 DEF ClockNeedsCircuit
  <2>7. BuildingIsBare'
    BY <2>1, <2>4, <2>5 DEF BuildingIsBare
  <2>8. QED
    BY <2>6, <2>7
<1>5. QED
  BY <1>1, <1>3, <1>4 DEF BoardInv

LEMMA RunEndsKeeps ==
  ASSUME BoardInv, NEW design \in Designs, NEW ok \in BOOLEAN, RunEnds(design, ok)
  PROVE  BoardInv'
<1> DEFINE low == [b \in InputBits(Entries(design)) |-> 0]
           new == [on |-> TRUE, map |-> Entries(design), ports |-> design.ports, clk |-> ClockPort(Entries(design)),
                   values |-> low, settled |-> low, q |-> low]
           d   == Settle(Fed(new))
<1>1. BoardSame /\ UserSame /\ building' = FALSE /\ away' = away /\ building
  BY DEF RunEnds
<1>2. CASE ~ok \/ BindErrors(design)
  <2>1. UNCHANGED <<circuit, running, paused, frames, edge>>
    BY <1>2 DEF RunEnds
  <2>2. QED
    BY <1>1, <2>1, LoopKeeps DEF BoardInv, BoardTypes
<1>3. CASE ~(~ok \/ BindErrors(design))
  <2>1. /\ circuit' = d /\ paused' = FALSE /\ edge' = [e \in Controls |-> 0]
        /\ IF new.clk # Nobody THEN Start ELSE UNCHANGED <<running, frames>>
    BY <1>3 DEF RunEnds, InputBits
  <2>2. new.on /\ new.clk = ClockPort(Entries(design)) /\ lit' = lit /\ lit \in [Controls -> 0..1]
    BY <1>1 DEF BoardInv, BoardTypes, BoardSame
  <2>3. Circuit(d) /\ SameWires(new, d) /\ BoundOnce(d) /\ Sees(d, lit, [e \in Controls |-> 0])
    BY <1>3, <2>2, NewCircuitFits
  <2> HIDE DEF d, new
  <2>4. CircuitFits'
    BY <2>1, <2>2, <2>3 DEF CircuitFits
  <2>5. ~running /\ running' \in BOOLEAN /\ frames' \in Nat /\ (running' => new.clk # Nobody)
    <3>1. ~running /\ running \in BOOLEAN /\ frames \in Nat
      BY <1>1 DEF BoardInv, BoardTypes, BuildingIsBare
    <3>2. CASE new.clk # Nobody
      <4>1. running' = TRUE /\ frames' = frames + 1
        BY <2>1, <3>1, <3>2 DEF Start
      <4>2. QED
        BY <3>1, <3>2, <4>1
    <3>3. CASE new.clk = Nobody
      <4>1. running' = running /\ frames' = frames
        BY <2>1, <3>3
      <4>2. QED
        BY <3>1, <4>1
    <3>4. QED
      BY <3>2, <3>3
  <2>6. BoardTypes' /\ HeldIsDown'
    BY <1>1, <2>1, <2>5 DEF BoardInv, BoardTypes, HeldIsDown, BoardSame, UserSame
  <2>7. ClockNeedsCircuit' /\ BuildingIsBare'
    BY <1>1, <2>1, <2>2, <2>3, <2>5 DEF ClockNeedsCircuit, BuildingIsBare, SameWires, Clocked
  <2>8. QED
    BY <2>4, <2>6, <2>7 DEF BoardInv
<1>4. QED
  BY <1>2, <1>3

LEMMA LoopStepsKeep ==
  ASSUME BoardInv, PressBoardRun \/ Invalidate \/ Leave \/ Return \/ Frame \/ Pause \/ StepOnce
  PROVE  BoardInv'
<1>1. CASE PressBoardRun \/ Invalidate \/ Return
  <2>1. /\ ResetBoard /\ BoardSame /\ UserSame /\ UNCHANGED <<paused, edge>>
        /\ building' \in BOOLEAN /\ away' \in BOOLEAN
    BY <1>1 DEF PressBoardRun, Invalidate, Return, BoardInv, BoardTypes
  <2>2. QED
    BY <2>1, ResetKeeps
<1>2. CASE Leave
  <2>1. /\ BoardSame /\ UserSame /\ building' = FALSE /\ away' = TRUE /\ paused' \in BOOLEAN /\ running' = FALSE
        /\ frames' \in Nat /\ UNCHANGED <<circuit, edge>>
    BY <1>2 DEF Leave, Stop, BoardInv, BoardTypes
  <2>2. QED
    BY <2>1, LoopKeeps
<1>3. CASE Frame
  <2>1. /\ BoardSame /\ UserSame /\ building' = building /\ away' \in BOOLEAN /\ paused' \in BOOLEAN
        /\ (ClockCircuit \/ UNCHANGED <<circuit, edge>>) /\ running' \in BOOLEAN /\ (running' => running) /\ frames' \in Nat
    <3>1. frames \in Nat /\ frames > 0 /\ {building, away, running, paused} \subseteq BOOLEAN /\ frames - 1 \in Nat
      BY <1>3 DEF Frame, BoardInv, BoardTypes
    <3>2. QED
      BY <1>3, <3>1 DEF Frame
  <2>2. QED
    BY <2>1, LoopKeeps
<1>4. CASE Pause
  <2>1. /\ BoardSame /\ UserSame /\ building' = building /\ away' \in BOOLEAN /\ paused' \in BOOLEAN
        /\ UNCHANGED <<circuit, edge>> /\ Clocked /\ running' \in BOOLEAN /\ frames' \in Nat
    <3>1. /\ Clocked /\ paused' = running /\ BoardSame /\ UserSame /\ UNCHANGED <<circuit, building, away, edge>>
          /\ IF running THEN running' = FALSE /\ frames' = frames ELSE running' = TRUE /\ frames' = frames + 1
      BY <1>4 DEF Pause, Stop, Start
    <3>2. frames \in Nat /\ {building, away, running, paused} \subseteq BOOLEAN
      BY DEF BoardInv, BoardTypes
    <3>3. running' \in BOOLEAN /\ frames' \in Nat
      <4>1. CASE running
        <5>1. running' = FALSE /\ frames' = frames
          BY <3>1, <4>1
        <5>2. QED
          BY <3>2, <5>1
      <4>2. CASE ~running
        <5>1. running' = TRUE /\ frames' = frames + 1
          BY <3>1, <4>2
        <5>2. QED
          BY <3>2, <5>1
      <4>3. QED
        BY <4>1, <4>2
    <3>4. away' \in BOOLEAN /\ paused' \in BOOLEAN
      BY <3>1, <3>2
    <3>5. QED
      BY <3>1, <3>3, <3>4
  <2>2. QED
    BY <2>1, LoopKeeps
<1>5. CASE StepOnce
  <2>1. /\ BoardSame /\ UserSame /\ building' = building /\ away' \in BOOLEAN /\ paused' \in BOOLEAN
        /\ ClockCircuit /\ running' = FALSE /\ frames' \in Nat
    BY <1>5 DEF StepOnce, Stop, BoardInv, BoardTypes
  <2>2. QED
    BY <2>1, LoopKeeps
<1>6. QED
  BY <1>1, <1>2, <1>3, <1>4, <1>5

LEMMA BoardStarts == BoardInit => BoardInv
<1> SUFFICES ASSUME BoardInit PROVE BoardInv
  OBVIOUS
<1>1. BoardTypes /\ HeldIsDown
  <2>1. /\ lit = [e \in Controls |-> 0] /\ keyHeld = {} /\ ptrHeld = {} /\ focus = "away" /\ ptrDown = Nobody
        /\ building = FALSE /\ away = FALSE /\ running = FALSE /\ paused = FALSE /\ frames = 0
    BY DEF BoardInit
  <2>2. {building, away, running, paused} \subseteq BOOLEAN
    BY <2>1
  <2>3. lit \in [Controls -> 0..1] /\ \A b \in Buttons : lit[b] # 1
    BY <2>1 DEF Controls
  <2>4. QED
    BY <2>1, <2>2, <2>3 DEF BoardTypes, HeldIsDown
<1>2. CircuitFits
  BY NoCircuitFits DEF BoardInit, CircuitFits
<1>3. ClockNeedsCircuit /\ BuildingIsBare
  BY DEF BoardInit, ClockNeedsCircuit, BuildingIsBare
<1>4. QED
  BY <1>1, <1>2, <1>3 DEF BoardInv

LEMMA BoardStays == BoardInv /\ [BoardStep]_boardVars => BoardInv'
<1> SUFFICES ASSUME BoardInv, [BoardStep]_boardVars PROVE BoardInv'
  OBVIOUS
<1>1. CASE \E k \in DOMAIN BoardKeys \cup PressKeys : KeyDown(k) \/ KeyUp(k)
  BY <1>1, KeysKeep
<1>2. CASE \/ \E t \in {"svg", "away"} \cup Controls : Focus(t)
           \/ \E b \in Buttons : PointerDown(b)
           \/ \E s \in Switches : ClickSwitch(s)
           \/ PointerUp \/ WindowBlur
  BY <1>2, HandsKeep
<1>3. CASE \E design \in Designs, ok \in BOOLEAN : RunEnds(design, ok)
  BY <1>3, RunEndsKeeps
<1>4. CASE PressBoardRun \/ Invalidate \/ Leave \/ Return \/ Frame \/ Pause \/ StepOnce
  BY <1>4, LoopStepsKeep
<1>5. CASE UNCHANGED boardVars
  BY <1>5 DEF boardVars, BoardInv, BoardTypes, CircuitFits, HeldIsDown, ClockNeedsCircuit, BuildingIsBare, Clocked
<1>6. QED
  BY <1>1, <1>2, <1>3, <1>4, <1>5 DEF BoardStep

(* The invariant that carries both results below: every bit of a port is bound  *)
(* once, and every input has the value of its control.                        *)
THEOREM BoardInvHolds == BoardSpec => []BoardInv
<1>1. QED
  BY BoardStarts, BoardStays, PTL DEF BoardSpec

(* Every control is on or off, and what is held are buttons.                  *)
THEOREM BoardTypeCorrect == BoardSpec => []BoardTypeOK
<1>1. BoardInv => BoardTypeOK
  BY DEF BoardInv, BoardTypes, BoardTypeOK, CircuitFits, Circuit
<1>2. QED
  BY <1>1, BoardInvHolds, PTL

(* The circuit sees the board: for any buttons, switches, keys, pins and any    *)
(* designs that a run may find.                                             *)
THEOREM CircuitSeesTheBoardHolds == BoardSpec => []CircuitSeesTheBoard
<1>1. BoardInv => CircuitSeesTheBoard
  BY DEF BoardInv, CircuitFits, BoundOnce, Sees, CircuitSeesTheBoard, BoundExactly, InputsFollow
<1>2. QED
  BY <1>1, BoardInvHolds, PTL

-----------------------------------------------------------------------------
(* The compile workers: what a reader and the hardware check let through *)

\* A reader that succeeded and logged no error, and what makes a design runnable.
Clean(r) == r.ok /\ ErrorsIn(CodesOf(r.log)) = {}
Validated(d, reader) == Sound(d, reader) /\ (reader = "slang" => MayRebuild(d))

LEMMA AldffIsAnError == \A cells : "aldff" \in cells => "async-reset-nonconst" \in PreflightCodes(cells) \cap ErrorCodes
BY DEF PreflightCodes, ErrorCodes

LEMMA RefusedShape ==
  ASSUME NEW codes
  PROVE  /\ RefusedBuild(codes) = [ok |-> FALSE, reader |-> "yosys", codes |-> codes]
         /\ RefusedBuild(codes).ok = FALSE /\ RefusedBuild(codes).reader = "yosys"
BY DEF RefusedBuild

LEMMA AcceptedIsClean ==
  ASSUME NEW reader \in Readers, NEW r
  PROVE  LET a == Accepted(reader, r) IN
         /\ a = [ok |-> a.ok, reader |-> a.reader, codes |-> a.codes] /\ a.ok \in BOOLEAN /\ a.reader \in Readers
         /\ a.ok => a.reader = reader /\ Clean(r) /\ "aldff" \notin r.cells
<1> DEFINE codes == CodesOf(r.log)
           all == codes \cup PreflightCodes(r.cells)
           a == Accepted(reader, r)
<1>1. CASE ~r.ok \/ ErrorsIn(codes) # {}
  <2>1. a = RefusedBuild(OrFailed(codes))
    BY <1>1 DEF Accepted
  <2> HIDE DEF a
  <2>2. /\ a = [ok |-> FALSE, reader |-> "yosys", codes |-> OrFailed(codes)]
        /\ a.ok = FALSE /\ a.reader = "yosys" /\ a.codes = OrFailed(codes)
    BY <2>1 DEF RefusedBuild
  <2>3. QED
    BY <2>2 DEF Readers, a
<1>2. CASE ~(~r.ok \/ ErrorsIn(codes) # {})
  <2>1. a = [ok |-> ErrorsIn(all) = {}, reader |-> reader, codes |-> all]
    BY <1>2 DEF Accepted
  <2>2. ErrorsIn(all) = {} => "aldff" \notin r.cells
    BY AldffIsAnError DEF ErrorsIn
  <2> HIDE DEF all, codes, a
  <2>3. a.ok = (ErrorsIn(all) = {}) /\ a.reader = reader /\ a.codes = all
    BY <2>1
  <2>4. a.ok \in BOOLEAN /\ a = [ok |-> a.ok, reader |-> a.reader, codes |-> a.codes]
    BY <2>1, <2>3
  <2>5. QED
    BY <1>2, <2>2, <2>3, <2>4 DEF Clean, codes, a
<1>3. QED
  BY <1>1, <1>2

LEMMA CompileIsClean ==
  ASSUME NEW d, NEW force \in BOOLEAN
  PROVE  LET c == Compile(d, force) IN
         /\ c = [ok |-> c.ok, reader |-> c.reader, codes |-> c.codes] /\ c.ok \in BOOLEAN /\ c.reader \in Readers
         /\ c.ok => /\ ~d.scan /\ Clean(d.read[c.reader]) /\ "aldff" \notin d.read[c.reader].cells
                    /\ c.reader = "slang" => force \/ ~d.read["yosys"].ok \/ Unresolved(d)
                    /\ force => c.reader = "slang"
<1> DEFINE r == d.read["yosys"]
           s == d.read["slang"]
           second == force \/ (~r.ok /\ SlangMayHelp(r.log)) \/ Unresolved(d)
           c == Compile(d, force)
<1>1. "yosys" \in Readers /\ "slang" \in Readers /\ "yosys" # "slang"
  BY DEF Readers
<1>2. \/ \E codes : c = RefusedBuild(codes)
      \/ ~d.scan /\ ~second /\ c = Accepted("yosys", r)
      \/ ~d.scan /\ second /\ c = Accepted("slang", s)
  <2>1. CASE d.scan
    <3>1. c = RefusedBuild({"scan"})
      BY <2>1 DEF Compile
    <3>2. QED
      BY <3>1
  <2>2. CASE ~d.scan /\ ~force /\ ~r.ok /\ r.err = "wasm"
    <3>1. c = RefusedBuild({"wasm"})
      BY <2>2 DEF Compile
    <3>2. QED
      BY <3>1
  <2>3. CASE ~d.scan /\ ~(~force /\ ~r.ok /\ r.err = "wasm")
    <3>1. c = IF ~second THEN Accepted("yosys", r) ELSE IF s.ok THEN Accepted("slang", s)
              ELSE RefusedBuild(OrFailed(ErrorsIn(CodesOf(r.log)) \cup CodesOf(s.log)))
      BY <2>3 DEF Compile
    <3>2. QED
      BY <2>3, <3>1
  <2>4. QED
    BY <2>1, <2>2, <2>3
<1> HIDE DEF c
<1>3. CASE \E codes : c = RefusedBuild(codes)
  <2>1. PICK codes : c = RefusedBuild(codes)
    BY <1>3
  <2>2. c = [ok |-> FALSE, reader |-> "yosys", codes |-> codes] /\ c.ok = FALSE /\ c.reader = "yosys" /\ c.codes = codes
    BY <2>1, RefusedShape DEF RefusedBuild
  <2>3. QED
    BY <1>1, <2>2 DEF c
<1>4. CASE ~d.scan /\ ~second /\ c = Accepted("yosys", r)
  <2>1. /\ c = [ok |-> c.ok, reader |-> c.reader, codes |-> c.codes] /\ c.ok \in BOOLEAN /\ c.reader \in Readers
        /\ c.ok => c.reader = "yosys" /\ Clean(r) /\ "aldff" \notin r.cells
    BY <1>1, <1>4, AcceptedIsClean
  <2>2. ~force
    BY <1>4
  <2>3. QED
    BY <1>1, <1>4, <2>1, <2>2 DEF c
<1>5. CASE ~d.scan /\ second /\ c = Accepted("slang", s)
  <2>1. /\ c = [ok |-> c.ok, reader |-> c.reader, codes |-> c.codes] /\ c.ok \in BOOLEAN /\ c.reader \in Readers
        /\ c.ok => c.reader = "slang" /\ Clean(s) /\ "aldff" \notin s.cells
    BY <1>1, <1>5, AcceptedIsClean
  <2>2. force \/ ~r.ok \/ Unresolved(d)
    BY <1>5
  <2>3. QED
    BY <1>1, <1>5, <2>1, <2>2 DEF c
<1>6. QED
  BY <1>2, <1>3, <1>4, <1>5

LEMMA HardwareIsClean ==
  ASSUME NEW d \in Submitted, NEW reader \in Readers
  PROVE  LET v == CheckHardware(d, reader) IN
         /\ v.ok \in BOOLEAN
         /\ v.ok => Clean(d.hw[reader]) /\ Clean(d.synth[reader]) /\ "aldff" \notin d.hw[reader].cells
<1> DEFINE a == d.hw[reader]
           b == d.synth[reader]
           codes == CodesOf(a.log) \cup PreflightCodes(a.cells) \cup CodesOf(b.log)
           v == CheckHardware(d, reader)
<1>1. CASE ~a.ok
  <2>1. v = [ok |-> FALSE, codes |-> OrFailed(CodesOf(a.log))]
    BY <1>1 DEF CheckHardware
  <2>2. QED
    BY <2>1
<1>2. CASE a.ok
  <2>1. v = [ok |-> b.ok /\ ErrorsIn(codes) = {}, codes |-> IF b.ok THEN codes ELSE OrFailed(codes)]
    BY <1>2 DEF CheckHardware
  <2>2. v.ok = (b.ok /\ ErrorsIn(codes) = {})
    BY <2>1
  <2>3. ErrorsIn(codes) = {} => ErrorsIn(CodesOf(a.log)) = {} /\ ErrorsIn(CodesOf(b.log)) = {} /\ "aldff" \notin a.cells
    BY AldffIsAnError DEF ErrorsIn
  <2>4. QED
    BY <1>2, <2>2, <2>3 DEF Clean
<1>3. QED
  BY <1>1, <1>2

LEMMA MergeShape ==
  ASSUME NEW res, res = [ok |-> res.ok, reader |-> res.reader, codes |-> res.codes], NEW v
  PROVE  LET m == Merge(res, v) IN
         /\ m = [ok |-> m.ok, reader |-> m.reader, codes |-> m.codes] /\ m.ok = v.ok /\ m.reader = res.reader
<1> DEFINE m == Merge(res, v)
<1>1. m = [ok |-> v.ok, reader |-> res.reader, codes |-> res.codes \cup v.codes]
  <2> DEFINE t == [res EXCEPT !.ok = v.ok]
  <2>1. t = [ok |-> v.ok, reader |-> res.reader, codes |-> res.codes]
    OBVIOUS
  <2>2. m = [t EXCEPT !.codes = res.codes \cup v.codes]
    BY DEF Merge
  <2> HIDE DEF t, m
  <2>3. QED
    BY <2>1, <2>2
<1> HIDE DEF m
<1>2. m = [ok |-> m.ok, reader |-> m.reader, codes |-> m.codes] /\ m.ok = v.ok /\ m.reader = res.reader
  BY <1>1
<1>3. QED
  BY <1>2 DEF m

\* A first build whose check passed, and a second one.
LEMMA FirstIsValidated ==
  ASSUME NEW d \in Submitted, Compile(d, FALSE).ok, CheckHardware(d, Compile(d, FALSE).reader).ok
  PROVE  Validated(d, Compile(d, FALSE).reader)
BY CompileIsClean, HardwareIsClean DEF Validated, Sound, MayRebuild, Clean

LEMMA SecondIsValidated ==
  ASSUME NEW d \in Submitted, Compile(d, TRUE).ok, CheckHardware(d, Compile(d, TRUE).reader).ok,
         ~GuardCode(CheckHardware(d, "yosys").codes)
  PROVE  Validated(d, Compile(d, TRUE).reader)
BY CompileIsClean, HardwareIsClean DEF Validated, Sound, MayRebuild, Clean

-----------------------------------------------------------------------------
(* Who waits where *)

IdsIn(q)      == {q[k] : k \in DOMAIN q}
EachOnce(q) == \A j, k \in DOMAIN q : q[j] = q[k] => j = k
Waiting == IdsIn(queue)
Working == IF work = NoBuild THEN {} ELSE {work.id}
OnBench == {j.id : j \in benches}
Told    == {a.id : a \in answers}

BenchKinds == {"bench", "bench-lint"}
Request == [kind : Kinds \cup BenchKinds, design : Submitted, lives : BOOLEAN]
ToldAs  == [id : Nat, ok : BOOLEAN, cancelled : BOOLEAN, reader : Readers, newest : BOOLEAN]
BuildRecord(w) ==
  /\ w = [stage |-> w.stage, id |-> w.id, kind |-> w.kind, design |-> w.design, res |-> w.res, validation |-> w.validation]
  /\ w.res = [ok |-> w.res.ok, reader |-> w.res.reader, codes |-> w.res.codes]
  /\ w.res.ok \in BOOLEAN /\ w.res.reader \in Readers
  /\ w.stage \in {"read", "check", "again", "check again", "post"}
  /\ w.id \in DOMAIN requests /\ w.kind \in {"compile", "lint"}
  /\ w.kind = requests[w.id].kind /\ w.design = requests[w.id].design

BuildTypes ==
  /\ requests \in Seq(Request) /\ queue \in Seq(Nat) /\ latest \in Nat
  /\ benches \subseteq [id : Nat, stage : {"compile", "run"}] /\ answers \subseteq ToldAs
  /\ work # NoBuild => BuildRecord(work)
\* Every request is in one place at most, and while it lives in one of the four.
OnePlace ==
  /\ EachOnce(queue)
  /\ \A i \in Waiting : i \in DOMAIN requests /\ requests[i].kind \in {"compile", "lint", "warm"}
  /\ \A i \in OnBench : i \in DOMAIN requests /\ requests[i].kind \in BenchKinds
  /\ Told \subseteq DOMAIN requests
  /\ Waiting \cap (Working \cup OnBench \cup Told) = {} /\ Working \cap (OnBench \cup Told) = {} /\ OnBench \cap Told = {}
  /\ \A j, k \in benches : j.id = k.id => j = k
  /\ \A a, b \in answers : a.id = b.id => a = b
AllServed ==
  /\ \A i \in DOMAIN requests : requests[i].lives => i \in Waiting \cup Working \cup OnBench \cup Told
  /\ \A i \in DOMAIN requests : requests[i].kind \in BenchKinds => i \in OnBench \cup Told
\* What runs or waits to be run is overtaken only by a run that was asked for later.
NewestKnown ==
  \A i \in Waiting \cup Working : requests[i].kind = "compile" =>
    latest >= i /\ latest \in DOMAIN requests /\ requests[latest].kind = "compile"
\* What is known at each stage of a build.
GoesRight(w) ==
  /\ w.stage \in {"check", "again", "check again"} => w.res = Compile(w.design, FALSE) /\ w.res.ok
  /\ w.stage \in {"again", "check again"} =>
       w.validation = CheckHardware(w.design, "yosys") /\ ~w.validation.ok /\ ~GuardCode(w.validation.codes)
  /\ w.stage = "check again" => Compile(w.design, TRUE).ok
  /\ w.stage = "post" /\ w.res.ok => Validated(w.design, w.res.reader) \/ (w.kind = "compile" /\ latest # w.id)
BuildGoesRight == work # NoBuild => GoesRight(work)
BenchGoesRight ==
  \A j \in benches : j.stage = "run" =>
    requests[j.id].kind = "bench" /\ requests[j.id].design.bench \notin {"compile", "crash"}
\* RunnableMeansValidated, for one answer.
AnswerHolds(a) ==
  /\ (a.ok /\ requests[a.id].kind \in {"compile", "lint"}) => Validated(requests[a.id].design, a.reader)
  /\ (a.ok /\ requests[a.id].kind = "compile") => a.newest
  /\ a.cancelled => \E i \in (a.id + 1)..Len(requests) : requests[i].kind = "compile"
  /\ (a.ok /\ requests[a.id].kind = "bench") => requests[a.id].design.bench = "ok"
AnswersTrue == \A a \in answers : AnswerHolds(a)

BuildInv == BuildTypes /\ OnePlace /\ AllServed /\ NewestKnown /\ BuildGoesRight /\ BenchGoesRight /\ AnswersTrue

-----------------------------------------------------------------------------
LEMMA AppendIds ==
  ASSUME NEW q \in Seq(Nat), NEW x \in Nat, EachOnce(q), x \notin IdsIn(q)
  PROVE  Append(q, x) \in Seq(Nat) /\ IdsIn(Append(q, x)) = IdsIn(q) \cup {x} /\ EachOnce(Append(q, x))
<1> DEFINE r == Append(q, x)
           n == Len(q)
<1>1. r \in Seq(Nat) /\ Len(r) = n + 1 /\ n \in Nat /\ (\A k \in 1..n : r[k] = q[k]) /\ r[n + 1] = x
  BY AppendProperties, LenProperties
<1>2. DOMAIN q = 1..n /\ DOMAIN r = 1..(n + 1)
  BY <1>1, LenProperties
<1> HIDE DEF r, n
<1>3. \A k \in DOMAIN r : (k \in DOMAIN q /\ r[k] = q[k]) \/ (k = n + 1 /\ r[k] = x)
  BY <1>1, <1>2
<1>4. \A k \in DOMAIN q : k \in DOMAIN r /\ r[k] = q[k]
  BY <1>1, <1>2
<1>5. n + 1 \in DOMAIN r /\ r[n + 1] = x
  BY <1>1, <1>2
<1>6. IdsIn(r) = IdsIn(q) \cup {x} /\ EachOnce(r)
  BY <1>3, <1>4, <1>5 DEF IdsIn, EachOnce
<1>7. QED
  BY <1>1, <1>6 DEF r

LEMMA TailIds ==
  ASSUME NEW q \in Seq(Nat), q # <<>>, EachOnce(q)
  PROVE  Tail(q) \in Seq(Nat) /\ IdsIn(Tail(q)) = IdsIn(q) \ {Head(q)} /\ EachOnce(Tail(q)) /\ Head(q) \in IdsIn(q)
<1>1. /\ Tail(q) \in Seq(Nat) /\ Len(Tail(q)) = Len(q) - 1 /\ Len(q) \in Nat \ {0} /\ Head(q) = q[1]
      /\ \A k \in 1..Len(Tail(q)) : Tail(q)[k] = q[k + 1]
  BY HeadTailProperties, EmptySeq, LenProperties
<1>2. DOMAIN q = 1..Len(q) /\ DOMAIN Tail(q) = 1..(Len(q) - 1)
  BY <1>1, LenProperties
<1> DEFINE r == Tail(q)
<1>3. \A k \in DOMAIN r : k + 1 \in DOMAIN q /\ k + 1 # 1 /\ r[k] = q[k + 1] /\ k \in Nat
  BY <1>1, <1>2
<1>4. \A k \in DOMAIN q : k = 1 \/ (k - 1 \in DOMAIN r /\ r[k - 1] = q[k])
  <2> SUFFICES ASSUME NEW k \in DOMAIN q, k # 1 PROVE k - 1 \in DOMAIN r /\ r[k - 1] = q[k]
    OBVIOUS
  <2>1. k - 1 \in 1..Len(Tail(q)) /\ (k - 1) + 1 = k
    BY <1>1, <1>2
  <2>2. QED
    BY <1>1, <1>2, <2>1
<1>5. 1 \in DOMAIN q /\ Head(q) = q[1]
  BY <1>1, <1>2
<1> HIDE DEF r
<1>6. EachOnce(r)
  <2> SUFFICES ASSUME NEW j \in DOMAIN r, NEW k \in DOMAIN r, r[j] = r[k] PROVE j = k
    BY DEF EachOnce
  <2>1. j + 1 = k + 1 /\ j \in Nat /\ k \in Nat
    BY <1>3 DEF EachOnce
  <2>2. QED
    BY <2>1
<1>7. IdsIn(r) \subseteq IdsIn(q) \ {Head(q)}
  BY <1>3, <1>5 DEF IdsIn, EachOnce
<1>8. IdsIn(q) \ {Head(q)} \subseteq IdsIn(r)
  BY <1>4, <1>5 DEF IdsIn
<1>9. Head(q) \in IdsIn(q)
  BY <1>5 DEF IdsIn
<1>10. QED
  BY <1>1, <1>6, <1>7, <1>8, <1>9 DEF r

\* Requests are only added, and never change what they ask.
LEMMA RequestFacts ==
  ASSUME requests \in Seq(Request)
  PROVE  /\ DOMAIN requests = 1..Len(requests) /\ Len(requests) \in Nat
         /\ \A i \in DOMAIN requests : requests[i] \in Request /\ i \in Nat
BY LenProperties, ElementOfSeq

SameRequests ==
  /\ Len(requests') >= Len(requests) /\ DOMAIN requests \subseteq DOMAIN requests'
  /\ \A i \in DOMAIN requests : requests'[i].kind = requests[i].kind /\ requests'[i].design = requests[i].design

LEMMA TrueStays ==
  ASSUME BuildTypes, BuildTypes', SameRequests, NEW a \in ToldAs, a.id \in DOMAIN requests, AnswerHolds(a)
  PROVE  AnswerHolds(a)'
<1>1. /\ requests'[a.id].kind = requests[a.id].kind /\ requests'[a.id].design = requests[a.id].design
      /\ Len(requests) \in Nat /\ Len(requests') \in Nat /\ a.id \in Nat /\ DOMAIN requests = 1..Len(requests)
      /\ Len(requests') >= Len(requests)
  BY RequestFacts DEF SameRequests, BuildTypes, ToldAs
<1>2. ASSUME a.cancelled PROVE \E i \in (a.id + 1)..Len(requests') : requests'[i].kind = "compile"
  <2>1. PICK i \in (a.id + 1)..Len(requests) : requests[i].kind = "compile"
    BY <1>2 DEF AnswerHolds
  <2>2. i \in DOMAIN requests /\ i \in (a.id + 1)..Len(requests')
    BY <1>1, <2>1
  <2>3. QED
    BY <2>1, <2>2 DEF SameRequests
<1>3. QED
  BY <1>1, <1>2 DEF AnswerHolds

LEMMA PlacesKnown == BuildInv => Waiting \cup Working \cup OnBench \cup Told \subseteq DOMAIN requests
BY DEF BuildInv, OnePlace, Working, BuildTypes, BuildRecord

\* The answers stay true when requests are added.
LEMMA AnswersStayTrue ==
  ASSUME BuildInv, BuildTypes', SameRequests
  PROVE  \A a \in answers : AnswerHolds(a)'
<1> SUFFICES ASSUME NEW a \in answers PROVE AnswerHolds(a)'
  OBVIOUS
<1>1. BuildTypes /\ a \in ToldAs /\ a.id \in DOMAIN requests /\ AnswerHolds(a)
  BY DEF BuildInv, BuildTypes, AnswersTrue, OnePlace, Told
<1>2. QED
  BY <1>1, TrueStays

\* A request more.
LEMMA AskedFacts ==
  ASSUME BuildInv, NEW kind \in Kinds \cup BenchKinds, NEW d \in Submitted,
         requests' = Append(requests, [kind |-> kind, design |-> d, lives |-> TRUE])
  PROVE  LET id == Len(requests) + 1 IN
         /\ requests' \in Seq(Request) /\ SameRequests /\ id \in Nat /\ id \notin DOMAIN requests
         /\ DOMAIN requests' = DOMAIN requests \cup {id}
         /\ requests'[id].kind = kind /\ requests'[id].design = d /\ \A i \in DOMAIN requests : requests'[i] = requests[i]
         /\ id \notin Waiting \cup Working \cup OnBench \cup Told
         /\ \A i \in DOMAIN requests : i < id
<1> DEFINE r == [kind |-> kind, design |-> d, lives |-> TRUE]
           id == Len(requests) + 1
<1>1. requests \in Seq(Request) /\ r \in Request /\ r.kind = kind /\ r.design = d
  BY DEF BuildInv, BuildTypes, Request
<1>2. DOMAIN requests = 1..Len(requests) /\ Len(requests) \in Nat
  BY <1>1, RequestFacts
<1> HIDE DEF r
<1>3. /\ requests' \in Seq(Request) /\ Len(requests') = id
      /\ \A i \in 1..Len(requests) : requests'[i] = requests[i]
      /\ requests'[id] = r /\ DOMAIN requests' = 1..Len(requests')
  BY <1>1, <1>2, AppendProperties, LenProperties DEF r
<1>4. id \in Nat /\ id \notin DOMAIN requests /\ DOMAIN requests' = DOMAIN requests \cup {id} /\ \A i \in DOMAIN requests : i < id
  BY <1>2, <1>3
<1>5. SameRequests
  BY <1>2, <1>3, <1>4 DEF SameRequests
<1>6. Waiting \cup Working \cup OnBench \cup Told \subseteq DOMAIN requests
  BY PlacesKnown
<1>7. QED
  BY <1>1, <1>2, <1>3, <1>4, <1>5, <1>6

\* A build that goes on while requests are added.
LEMMA BuildStays ==
  ASSUME BuildInv, SameRequests, work' = work, latest' \in Nat,
         latest' = latest \/ \A i \in DOMAIN requests : latest' # i
  PROVE  (work' # NoBuild => BuildRecord(work)') /\ BuildGoesRight'
<1>1. CASE work = NoBuild
  BY <1>1 DEF BuildGoesRight
<1>2. CASE work # NoBuild
  <2>1. BuildRecord(work) /\ GoesRight(work)
    BY <1>2 DEF BuildInv, BuildTypes, BuildGoesRight
  <2>2. BuildRecord(work)'
    BY <2>1 DEF BuildRecord, SameRequests
  <2>3. GoesRight(work)'
    BY <2>1 DEF GoesRight, BuildRecord
  <2>4. QED
    BY <2>2, <2>3 DEF BuildGoesRight
<1>3. QED
  BY <1>1, <1>2

LEMMA AskKeeps ==
  ASSUME BuildInv, NEW kind \in Kinds, NEW d \in Submitted, Ask(kind, d)
  PROVE  BuildInv'
<1> DEFINE id == Len(requests) + 1
<1>0. PICK no : no = Answer(id, FALSE, FALSE, "yosys")
  OBVIOUS
<1>1. requests' = Append(requests, [kind |-> kind, design |-> d, lives |-> TRUE]) /\ UNCHANGED <<work, benches>>
  BY DEF Ask
<1>2. /\ requests' \in Seq(Request) /\ SameRequests /\ id \in Nat /\ id \notin DOMAIN requests
      /\ DOMAIN requests' = DOMAIN requests \cup {id}
      /\ requests'[id].kind = kind /\ requests'[id].design = d /\ \A i \in DOMAIN requests : requests'[i] = requests[i]
      /\ id \notin Waiting \cup Working \cup OnBench \cup Told
      /\ \A i \in DOMAIN requests : i < id
  BY <1>1, AskedFacts DEF Kinds
<1>3. no \in ToldAs /\ no.ok = FALSE /\ no.cancelled = FALSE /\ no.id = id
  BY <1>0, <1>2 DEF Answer, ToldAs, Readers
<1> HIDE DEF id
<1>4. \/ kind = "malformed" /\ answers' = answers \cup {no} /\ UNCHANGED <<queue, latest>>
      \/ /\ kind # "malformed" /\ queue' = Append(queue, id) /\ latest' = (IF kind = "compile" THEN id ELSE latest)
         /\ UNCHANGED answers
  BY <1>0 DEF Ask, id
<1>5. Working' = Working /\ OnBench' = OnBench
  BY <1>1 DEF Working, OnBench
<1>6. /\ queue' \in Seq(Nat) /\ EachOnce(queue') /\ latest' \in Nat
      /\ latest' = latest \/ (latest' = id /\ kind = "compile")
      /\ \/ kind = "malformed" /\ Waiting' = Waiting /\ Told' = Told \cup {id} /\ answers' = answers \cup {no}
         \/ kind # "malformed" /\ Waiting' = Waiting \cup {id} /\ Told' = Told /\ answers' = answers
      /\ kind = "compile" => latest' = id
  <2>1. queue \in Seq(Nat) /\ EachOnce(queue) /\ latest \in Nat
    BY DEF BuildInv, BuildTypes, OnePlace
  <2>2. CASE kind = "malformed" /\ answers' = answers \cup {no} /\ UNCHANGED <<queue, latest>>
    BY <1>3, <2>1, <2>2 DEF Waiting, Told
  <2>3. CASE kind # "malformed" /\ queue' = Append(queue, id) /\ latest' = (IF kind = "compile" THEN id ELSE latest) /\ UNCHANGED answers
    BY <1>2, <2>1, <2>3, AppendIds DEF Waiting, Told
  <2>4. QED
    BY <1>4, <2>2, <2>3
<1>7. (work' # NoBuild => BuildRecord(work)') /\ BuildGoesRight'
  BY <1>1, <1>2, <1>6, BuildStays
<1>8. BuildTypes'
  BY <1>1, <1>2, <1>3, <1>6, <1>7 DEF BuildInv, BuildTypes
<1>9. OnePlace'
  <2>1. /\ \A i \in Waiting' : i \in DOMAIN requests' /\ requests'[i].kind \in {"compile", "lint", "warm"}
        /\ \A i \in OnBench' : i \in DOMAIN requests' /\ requests'[i].kind \in BenchKinds
        /\ Told' \subseteq DOMAIN requests'
    BY <1>2, <1>5, <1>6 DEF BuildInv, OnePlace, Kinds
  <2>2. /\ Waiting' \cap (Working' \cup OnBench' \cup Told') = {} /\ Working' \cap (OnBench' \cup Told') = {} /\ OnBench' \cap Told' = {}
    BY <1>2, <1>5, <1>6 DEF BuildInv, OnePlace
  <2>3. \A a, b \in answers' : a.id = b.id => a = b
    BY <1>2, <1>3, <1>6 DEF BuildInv, OnePlace, Told
  <2>4. \A j, k \in benches' : j.id = k.id => j = k
    BY <1>1 DEF BuildInv, OnePlace
  <2>5. QED
    BY <1>6, <2>1, <2>2, <2>3, <2>4 DEF OnePlace
<1>10. AllServed'
  BY <1>2, <1>5, <1>6 DEF BuildInv, AllServed, Kinds, BenchKinds
<1>11. NewestKnown'
  <2> SUFFICES ASSUME NEW i \in Waiting' \cup Working', requests'[i].kind = "compile"
               PROVE  latest' >= i /\ latest' \in DOMAIN requests' /\ requests'[latest'].kind = "compile"
    BY DEF NewestKnown
  <2>1. CASE i = id
    BY <1>2, <1>6, <2>1
  <2>2. CASE i # id
    <3>1. i \in Waiting \cup Working /\ i \in DOMAIN requests
      BY <1>5, <1>6, <2>2, PlacesKnown
    <3>2. latest >= i /\ latest \in DOMAIN requests /\ requests[latest].kind = "compile"
      BY <1>2, <3>1 DEF BuildInv, NewestKnown
    <3>3. i < id /\ i \in Nat
      BY <1>2, <3>1, RequestFacts DEF BuildInv, BuildTypes
    <3>4. QED
      BY <1>2, <1>6, <3>2, <3>3
  <2>3. QED
    BY <2>1, <2>2
<1>12. BenchGoesRight'
  BY <1>1, <1>2 DEF BuildInv, BenchGoesRight, OnePlace, OnBench
<1>13. AnswersTrue'
  <2>1. AnswerHolds(no)'
    BY <1>2, <1>3 DEF AnswerHolds
  <2>2. answers' = answers \cup {} \/ answers' = answers \cup {no}
    BY <1>6
  <2>3. QED
    <3>1. \A a \in answers : AnswerHolds(a)'
      BY <1>2, <1>8, AnswersStayTrue
    <3>2. \A a \in answers' : a \in answers \/ a = no
      BY <2>2
    <3>3. QED
      BY <2>1, <3>1, <3>2 DEF AnswersTrue
<1>14. QED
  BY <1>7, <1>8, <1>9, <1>10, <1>11, <1>12, <1>13 DEF BuildInv

LEMMA AskBenchKeeps ==
  ASSUME BuildInv, NEW kind \in BenchKinds, NEW d \in Submitted, AskBench(kind, d)
  PROVE  BuildInv'
<1> DEFINE id == Len(requests) + 1
<1>0. PICK job : job = [id |-> id, stage |-> "compile"]
  OBVIOUS
<1>1. /\ requests' = Append(requests, [kind |-> kind, design |-> d, lives |-> TRUE])
      /\ UNCHANGED <<work, queue, latest, answers>> /\ benches' = benches \cup {job}
  BY <1>0 DEF AskBench
<1>2. /\ requests' \in Seq(Request) /\ SameRequests /\ id \in Nat /\ id \notin DOMAIN requests
      /\ DOMAIN requests' = DOMAIN requests \cup {id}
      /\ requests'[id].kind = kind /\ requests'[id].design = d /\ \A i \in DOMAIN requests : requests'[i] = requests[i]
      /\ id \notin Waiting \cup Working \cup OnBench \cup Told
      /\ \A i \in DOMAIN requests : i < id
  BY <1>1, AskedFacts DEF BenchKinds
<1>3. job.id = id /\ job.stage = "compile" /\ job \in [id : Nat, stage : {"compile", "run"}]
  BY <1>0, <1>2
<1> HIDE DEF id
<1>4. Working' = Working /\ Waiting' = Waiting /\ Told' = Told /\ OnBench' = OnBench \cup {id}
  BY <1>1, <1>3 DEF Working, OnBench, Waiting, Told
<1>5. (work' # NoBuild => BuildRecord(work)') /\ BuildGoesRight'
  BY <1>1, <1>2, BuildStays DEF BuildInv, BuildTypes
<1>6. BuildTypes'
  BY <1>1, <1>2, <1>3, <1>5 DEF BuildInv, BuildTypes
<1>7. OnePlace'
  <2>1. /\ \A i \in Waiting' : i \in DOMAIN requests' /\ requests'[i].kind \in {"compile", "lint", "warm"}
        /\ \A i \in OnBench' : i \in DOMAIN requests' /\ requests'[i].kind \in BenchKinds
        /\ Told' \subseteq DOMAIN requests' /\ EachOnce(queue')
    BY <1>1, <1>2, <1>4 DEF BuildInv, OnePlace
  <2>2. /\ Waiting' \cap (Working' \cup OnBench' \cup Told') = {} /\ Working' \cap (OnBench' \cup Told') = {} /\ OnBench' \cap Told' = {}
    BY <1>2, <1>4 DEF BuildInv, OnePlace
  <2>3. \A a, b \in answers' : a.id = b.id => a = b
    BY <1>1 DEF BuildInv, OnePlace
  <2>4. \A j, k \in benches' : j.id = k.id => j = k
    BY <1>1, <1>2, <1>3 DEF BuildInv, OnePlace, OnBench
  <2>5. QED
    BY <2>1, <2>2, <2>3, <2>4 DEF OnePlace
<1>8. AllServed'
  BY <1>2, <1>4 DEF BuildInv, AllServed
<1>9. NewestKnown'
  <2>1. \A i \in Waiting \cup Working : i \in DOMAIN requests
    BY PlacesKnown
  <2>2. QED
    BY <1>1, <1>2, <1>4, <2>1 DEF BuildInv, NewestKnown
<1>10. BenchGoesRight'
  <2>1. \A j \in benches : j.id \in DOMAIN requests
    BY DEF BuildInv, OnePlace, OnBench
  <2>2. QED
    BY <1>1, <1>2, <1>3, <2>1 DEF BuildInv, BenchGoesRight
<1>11. AnswersTrue'
  BY <1>1, <1>2, <1>6, AnswersStayTrue DEF AnswersTrue
<1>12. QED
  BY <1>5, <1>6, <1>7, <1>8, <1>9, <1>10, <1>11 DEF BuildInv

LEMMA SameIsSame == ASSUME BuildTypes, requests' = requests PROVE SameRequests
BY RequestFacts DEF BuildTypes, SameRequests

\* A build that moves on.
LEMMA MovesKeep ==
  ASSUME BuildInv, work # NoBuild, work' # NoBuild, work'.id = work.id, BuildRecord(work)', GoesRight(work)',
         UNCHANGED <<queue, latest, answers, benches, requests>>
  PROVE  BuildInv'
<1>1. Working' = Working /\ Waiting' = Waiting /\ Told' = Told /\ OnBench' = OnBench
  BY DEF Working, Waiting, Told, OnBench
<1>2. BuildTypes' /\ BuildGoesRight'
  BY DEF BuildInv, BuildTypes, BuildGoesRight
<1>3. OnePlace' /\ AllServed' /\ NewestKnown' /\ BenchGoesRight'
  BY <1>1 DEF BuildInv, OnePlace, AllServed, NewestKnown, BenchGoesRight
<1>4. AnswersTrue'
  BY <1>2, SameIsSame, AnswersStayTrue DEF BuildInv, AnswersTrue
<1>5. QED
  BY <1>2, <1>3, <1>4 DEF BuildInv

LEMMA WorkBecomes ==
  ASSUME NEW w, w = [stage |-> w.stage, id |-> w.id, kind |-> w.kind, design |-> w.design, res |-> w.res, validation |-> w.validation],
         NEW st, NEW res, NEW v
  PROVE  /\ [w EXCEPT !.stage = st, !.res = res] =
              [stage |-> st, id |-> w.id, kind |-> w.kind, design |-> w.design, res |-> res, validation |-> w.validation]
         /\ [w EXCEPT !.validation = v, !.stage = st, !.res = res] =
              [stage |-> st, id |-> w.id, kind |-> w.kind, design |-> w.design, res |-> res, validation |-> v]
<1> DEFINE a == [w EXCEPT !.stage = st]
           b == [w EXCEPT !.validation = v]
           c == [b EXCEPT !.stage = st]
<1>1. a = [stage |-> st, id |-> w.id, kind |-> w.kind, design |-> w.design, res |-> w.res, validation |-> w.validation]
  OBVIOUS
<1>2. b = [stage |-> w.stage, id |-> w.id, kind |-> w.kind, design |-> w.design, res |-> w.res, validation |-> v]
  OBVIOUS
<1>3. [w EXCEPT !.stage = st, !.res = res] = [a EXCEPT !.res = res]
      /\ [w EXCEPT !.validation = v, !.stage = st, !.res = res] = [c EXCEPT !.res = res]
  OBVIOUS
<1> HIDE DEF b
<1>4. c = [stage |-> st, id |-> w.id, kind |-> w.kind, design |-> w.design, res |-> w.res, validation |-> v]
  BY <1>2
<1> HIDE DEF a, c
<1>5. QED
  BY <1>1, <1>3, <1>4

\* What the next stage needs, whatever it is.
LEMMA StageKeeps ==
  ASSUME BuildInv, work # NoBuild, NEW st \in {"read", "check", "again", "check again", "post"}, NEW res, NEW v,
         res = [ok |-> res.ok, reader |-> res.reader, codes |-> res.codes], res.ok \in BOOLEAN, res.reader \in Readers,
         work' = [stage |-> st, id |-> work.id, kind |-> work.kind, design |-> work.design, res |-> res, validation |-> v],
         UNCHANGED <<queue, latest, answers, benches, requests>>,
         st \in {"check", "again", "check again"} => res = Compile(work.design, FALSE) /\ res.ok,
         st \in {"again", "check again"} => v = CheckHardware(work.design, "yosys") /\ ~v.ok /\ ~GuardCode(v.codes),
         st = "check again" => Compile(work.design, TRUE).ok,
         st = "post" /\ res.ok => Validated(work.design, res.reader) \/ Cancelled(work)
  PROVE  BuildInv'
<1>1. BuildRecord(work)
  BY DEF BuildInv, BuildTypes
<1>2. /\ work'.stage = st /\ work'.id = work.id /\ work'.kind = work.kind /\ work'.design = work.design
      /\ work'.res = res /\ work'.validation = v
  OBVIOUS
<1>3. work' # NoBuild
  <2>1. NoBuild.stage = "idle"
    BY DEF NoBuild
  <2>2. QED
    BY <1>2, <2>1
<1>4. BuildRecord(work)'
  BY <1>1, <1>2 DEF BuildRecord
<1>5. GoesRight(work)'
  BY <1>2 DEF GoesRight, Cancelled
<1>6. QED
  BY <1>2, <1>3, <1>4, <1>5, MovesKeep

LEMMA WorkFacts ==
  ASSUME BuildInv, NEW st, work.stage = st, st # "idle"
  PROVE  /\ work # NoBuild /\ BuildRecord(work) /\ GoesRight(work) /\ work.design \in Submitted
         /\ work = [stage |-> work.stage, id |-> work.id, kind |-> work.kind, design |-> work.design,
                    res |-> work.res, validation |-> work.validation]
         /\ work.res = [ok |-> work.res.ok, reader |-> work.res.reader, codes |-> work.res.codes]
         /\ work.res.ok \in BOOLEAN /\ work.res.reader \in Readers
<1>1. NoBuild.stage = "idle"
  BY DEF NoBuild
<1>2. work # NoBuild
  BY <1>1
<1>3. BuildRecord(work) /\ GoesRight(work)
  BY <1>2 DEF BuildInv, BuildTypes, BuildGoesRight
<1>4. work.design \in Submitted
  <2>1. requests[work.id] \in Request
    BY <1>3, RequestFacts DEF BuildRecord, BuildInv, BuildTypes
  <2>2. QED
    BY <1>3, <2>1 DEF BuildRecord, Request
<1>5. QED
  BY <1>2, <1>3, <1>4 DEF BuildRecord

LEMMA ReadKeeps == ASSUME BuildInv, Read PROVE BuildInv'
<1> DEFINE res == Compile(work.design, FALSE)
           st == IF ~res.ok \/ Cancelled(work) THEN "post" ELSE "check"
<1>1. work.stage = "read" /\ UNCHANGED <<queue, latest, answers, benches, requests>>
      /\ work' = [work EXCEPT !.stage = st, !.res = res]
  BY DEF Read, Moves
<1>2. /\ work # NoBuild /\ BuildRecord(work) /\ work.design \in Submitted
      /\ work = [stage |-> work.stage, id |-> work.id, kind |-> work.kind, design |-> work.design,
                 res |-> work.res, validation |-> work.validation]
  BY <1>1, WorkFacts
<1>3. res = [ok |-> res.ok, reader |-> res.reader, codes |-> res.codes] /\ res.ok \in BOOLEAN /\ res.reader \in Readers
  BY <1>2, CompileIsClean
<1>4. st \in {"post", "check"} /\ (st = "check" => res.ok) /\ (st = "post" /\ res.ok => Cancelled(work))
  OBVIOUS
<1>5. res = Compile(work.design, FALSE)
  OBVIOUS
<1> HIDE DEF res, st
<1>6. work' = [stage |-> st, id |-> work.id, kind |-> work.kind, design |-> work.design, res |-> res, validation |-> work.validation]
  BY <1>1, <1>2, WorkBecomes
<1>7. QED
  BY <1>1, <1>2, <1>3, <1>4, <1>5, <1>6, StageKeeps

LEMMA CheckKeeps == ASSUME BuildInv, Check PROVE BuildInv'
<1> DEFINE v == CheckHardware(work.design, work.res.reader)
           retry == /\ ~v.ok /\ work.res.reader = "yosys" /\ LibraryClash(v.codes) /\ ~GuardCode(v.codes)
                    /\ ~Cancelled(work)
           st == IF retry THEN "again" ELSE "post"
           res == IF retry THEN work.res ELSE Merge(work.res, v)
<1>1. work.stage = "check" /\ UNCHANGED <<queue, latest, answers, benches, requests>>
      /\ work' = [work EXCEPT !.validation = v, !.stage = st, !.res = res]
  BY DEF Check, Moves
<1>2. /\ work # NoBuild /\ BuildRecord(work) /\ work.design \in Submitted /\ GoesRight(work)
      /\ work = [stage |-> work.stage, id |-> work.id, kind |-> work.kind, design |-> work.design,
                 res |-> work.res, validation |-> work.validation]
      /\ work.res = [ok |-> work.res.ok, reader |-> work.res.reader, codes |-> work.res.codes]
      /\ work.res.ok \in BOOLEAN /\ work.res.reader \in Readers
  BY <1>1, WorkFacts
<1>3. work.res = Compile(work.design, FALSE) /\ work.res.ok
  BY <1>1, <1>2 DEF GoesRight
<1>4. v.ok \in BOOLEAN
  BY <1>2, HardwareIsClean
<1>5. v = CheckHardware(work.design, work.res.reader)
  OBVIOUS
<1>6. retry => ~v.ok /\ work.res.reader = "yosys" /\ ~GuardCode(v.codes)
  OBVIOUS
<1> HIDE DEF v, retry
<1>7. CASE retry
  <2>1. st = "again" /\ res = work.res
    BY <1>7
  <2> HIDE DEF st, res
  <2>2. work' = [stage |-> st, id |-> work.id, kind |-> work.kind, design |-> work.design, res |-> res, validation |-> v]
    BY <1>1, <1>2, WorkBecomes
  <2>3. v = CheckHardware(work.design, "yosys") /\ ~v.ok /\ ~GuardCode(v.codes)
    BY <1>5, <1>6, <1>7
  <2>4. QED
    BY <1>1, <1>2, <1>3, <2>1, <2>2, <2>3, StageKeeps
<1>8. CASE ~retry
  <2>1. st = "post" /\ res = Merge(work.res, v)
    BY <1>8
  <2> HIDE DEF st, res
  <2>2. work' = [stage |-> st, id |-> work.id, kind |-> work.kind, design |-> work.design, res |-> res, validation |-> v]
    BY <1>1, <1>2, WorkBecomes
  <2>3. res = [ok |-> res.ok, reader |-> res.reader, codes |-> res.codes] /\ res.ok = v.ok /\ res.reader = work.res.reader
    BY <1>2, <2>1, MergeShape
  <2>4. res.ok => Validated(work.design, res.reader)
    BY <1>2, <1>3, <1>5, <2>3, FirstIsValidated
  <2>5. QED
    BY <1>1, <1>2, <1>4, <2>1, <2>2, <2>3, <2>4, StageKeeps
<1>9. QED
  BY <1>7, <1>8

LEMMA ReadAgainKeeps == ASSUME BuildInv, ReadAgain PROVE BuildInv'
<1>1. work.stage = "again" /\ UNCHANGED <<queue, latest, answers, benches, requests>>
  BY DEF ReadAgain, Moves
<1>2. /\ work # NoBuild /\ BuildRecord(work) /\ work.design \in Submitted /\ GoesRight(work)
      /\ work = [stage |-> work.stage, id |-> work.id, kind |-> work.kind, design |-> work.design,
                 res |-> work.res, validation |-> work.validation]
      /\ work.res = [ok |-> work.res.ok, reader |-> work.res.reader, codes |-> work.res.codes]
      /\ work.res.ok \in BOOLEAN /\ work.res.reader \in Readers
  BY <1>1, WorkFacts
<1>3. /\ work.res = Compile(work.design, FALSE) /\ work.res.ok
      /\ work.validation = CheckHardware(work.design, "yosys") /\ ~work.validation.ok /\ ~GuardCode(work.validation.codes)
  BY <1>1, <1>2 DEF GoesRight
<1>4. CASE Compile(work.design, TRUE).ok /\ ~Cancelled(work)
  <2>1. work' = [work EXCEPT !.stage = "check again"]
    BY <1>4 DEF ReadAgain
  <2>2. work' = [stage |-> "check again", id |-> work.id, kind |-> work.kind, design |-> work.design,
                 res |-> work.res, validation |-> work.validation]
    BY <1>2, <2>1
  <2>3. BuildRecord(work)' /\ GoesRight(work)' /\ work' # NoBuild /\ work'.id = work.id
    <3>1. /\ work'.stage = "check again" /\ work'.id = work.id /\ work'.kind = work.kind /\ work'.design = work.design
          /\ work'.res = work.res /\ work'.validation = work.validation /\ NoBuild.stage = "idle"
      BY <2>2 DEF NoBuild
    <3>2. work' # NoBuild
      BY <3>1
    <3>3. BuildRecord(work)'
      BY <1>1, <1>2, <2>2, <3>1 DEF BuildRecord
    <3>4. GoesRight(work)'
      BY <1>3, <1>4, <3>1 DEF GoesRight
    <3>5. QED
      BY <3>1, <3>2, <3>3, <3>4
  <2>4. QED
    BY <1>1, <1>2, <2>3, MovesKeep
<1>5. CASE ~(Compile(work.design, TRUE).ok /\ ~Cancelled(work))
  <2> DEFINE res == Merge(work.res, work.validation)
  <2>1. work' = [work EXCEPT !.stage = "post", !.res = res]
    BY <1>5 DEF ReadAgain
  <2>2. res = [ok |-> res.ok, reader |-> res.reader, codes |-> res.codes] /\ res.ok = work.validation.ok /\ res.reader = work.res.reader
    BY <1>2, MergeShape
  <2> HIDE DEF res
  <2>3. work' = [stage |-> "post", id |-> work.id, kind |-> work.kind, design |-> work.design, res |-> res, validation |-> work.validation]
    BY <1>2, <2>1, WorkBecomes
  <2>4. res.ok \in BOOLEAN /\ ~res.ok
    BY <1>2, <1>3, <2>2, HardwareIsClean DEF Readers
  <2>5. QED
    BY <1>1, <1>2, <2>2, <2>3, <2>4, StageKeeps
<1>6. QED
  BY <1>4, <1>5

LEMMA CheckAgainKeeps == ASSUME BuildInv, CheckAgain PROVE BuildInv'
<1> DEFINE again == Compile(work.design, TRUE)
           v2 == CheckHardware(work.design, again.reader)
           res == Retried(work.res, work.validation, again, v2)
<1>1. work.stage = "check again" /\ UNCHANGED <<queue, latest, answers, benches, requests>>
      /\ work' = [work EXCEPT !.stage = "post", !.res = res]
  BY DEF CheckAgain, Moves
<1>2. /\ work # NoBuild /\ BuildRecord(work) /\ work.design \in Submitted /\ GoesRight(work)
      /\ work = [stage |-> work.stage, id |-> work.id, kind |-> work.kind, design |-> work.design,
                 res |-> work.res, validation |-> work.validation]
      /\ work.res = [ok |-> work.res.ok, reader |-> work.res.reader, codes |-> work.res.codes]
      /\ work.res.ok \in BOOLEAN /\ work.res.reader \in Readers
  BY <1>1, WorkFacts
<1>3. /\ work.validation = CheckHardware(work.design, "yosys") /\ ~work.validation.ok /\ ~GuardCode(work.validation.codes)
      /\ again.ok
  BY <1>1, <1>2 DEF GoesRight
<1>4. again = [ok |-> again.ok, reader |-> again.reader, codes |-> again.codes] /\ again.reader \in Readers
  BY <1>2, CompileIsClean
<1>5. v2.ok \in BOOLEAN
  BY <1>2, <1>4, HardwareIsClean
<1>6. v2.ok => Validated(work.design, again.reader)
  BY <1>2, <1>3, SecondIsValidated
<1>7. res = IF v2.ok THEN Merge(again, v2) ELSE Merge(work.res, work.validation)
  BY DEF Retried
<1> HIDE DEF again, v2, res
<1>8. /\ res = [ok |-> res.ok, reader |-> res.reader, codes |-> res.codes] /\ res.ok \in BOOLEAN /\ res.reader \in Readers
      /\ res.ok => Validated(work.design, res.reader)
  <2>1. CASE v2.ok
    <3>1. res = Merge(again, v2)
      BY <1>7, <2>1
    <3>2. res = [ok |-> res.ok, reader |-> res.reader, codes |-> res.codes] /\ res.ok = v2.ok /\ res.reader = again.reader
      BY <1>4, <3>1, MergeShape
    <3>3. QED
      BY <1>4, <1>5, <1>6, <2>1, <3>2
  <2>2. CASE ~v2.ok
    <3>1. res = Merge(work.res, work.validation)
      BY <1>7, <2>2
    <3>2. /\ res = [ok |-> res.ok, reader |-> res.reader, codes |-> res.codes]
          /\ res.ok = work.validation.ok /\ res.reader = work.res.reader
      BY <1>2, <3>1, MergeShape
    <3>3. work.validation.ok \in BOOLEAN
      BY <1>2, <1>3, HardwareIsClean DEF Readers
    <3>4. QED
      BY <1>2, <1>3, <3>2, <3>3
  <2>3. QED
    BY <2>1, <2>2
<1>9. work' = [stage |-> "post", id |-> work.id, kind |-> work.kind, design |-> work.design, res |-> res, validation |-> work.validation]
  BY <1>1, <1>2, WorkBecomes
<1>10. QED
  BY <1>1, <1>2, <1>8, <1>9, StageKeeps

\* An answer more, to a request that waited for it.
LEMMA TellKeeps ==
  ASSUME BuildInv, NEW x \in ToldAs, answers' = answers \cup {x}, requests' = requests, AnswerHolds(x)',
         BuildTypes', BuildGoesRight', BenchGoesRight', latest' = latest,
         x.id \in Waiting \cup Working \cup OnBench,
         x.id \notin Waiting' \cup Working' \cup OnBench',
         Waiting' \cup Working' \subseteq Waiting \cup Working, OnBench' \subseteq OnBench,
         Waiting' \cup Working' \cup OnBench' \cup {x.id} = Waiting \cup Working \cup OnBench,
         Waiting' \subseteq Waiting, Working' \subseteq Working, EachOnce(queue'),
         benches' \subseteq benches
  PROVE  BuildInv'
<1>1. Told' = Told \cup {x.id}
  BY DEF Told
<1>2. x.id \notin Told /\ x.id \in DOMAIN requests
  BY PlacesKnown DEF BuildInv, OnePlace
<1>3. OnePlace'
  <2>1. \A a, b \in answers' : a.id = b.id => a = b
    BY <1>2 DEF BuildInv, OnePlace, Told
  <2>2. \A j, k \in benches' : j.id = k.id => j = k
    BY DEF BuildInv, OnePlace
  <2>3. /\ \A i \in Waiting' : i \in DOMAIN requests' /\ requests'[i].kind \in {"compile", "lint", "warm"}
        /\ \A i \in OnBench' : i \in DOMAIN requests' /\ requests'[i].kind \in BenchKinds
        /\ Told' \subseteq DOMAIN requests'
    BY <1>1, <1>2 DEF BuildInv, OnePlace
  <2>4. /\ Waiting' \cap (Working' \cup OnBench' \cup Told') = {} /\ Working' \cap (OnBench' \cup Told') = {} /\ OnBench' \cap Told' = {}
    BY <1>1 DEF BuildInv, OnePlace
  <2>5. QED
    BY <2>1, <2>2, <2>3, <2>4 DEF OnePlace
<1>4. AllServed'
  <2>1. \A i \in Waiting \cup Working : i \in DOMAIN requests => requests[i].kind \notin BenchKinds
    BY DEF BuildInv, OnePlace, Working, BuildTypes, BuildRecord, BenchKinds
  <2>2. \A i \in OnBench : i \in OnBench' \/ i = x.id
    BY DEF BuildInv, OnePlace
  <2>3. QED
    BY <1>1, <2>1, <2>2 DEF BuildInv, AllServed
<1>5. NewestKnown'
  BY DEF BuildInv, NewestKnown
<1>6. AnswersTrue'
  <2>1. \A a \in answers : AnswerHolds(a)'
    BY SameIsSame, AnswersStayTrue DEF BuildInv
  <2>2. QED
    BY <2>1 DEF AnswersTrue
<1>7. QED
  BY <1>3, <1>4, <1>5, <1>6 DEF BuildInv

LEMMA PostKeeps == ASSUME BuildInv, Post PROVE BuildInv'
<1>1. /\ work.stage = "post" /\ work' = NoBuild /\ UNCHANGED <<queue, latest, benches, requests>>
      /\ answers' = answers \cup {IF Cancelled(work) THEN Answer(work.id, FALSE, TRUE, work.res.reader)
                                  ELSE Answer(work.id, work.res.ok, FALSE, work.res.reader)}
  BY DEF Post
<1>2. /\ work # NoBuild /\ BuildRecord(work) /\ GoesRight(work) /\ work.res.ok \in BOOLEAN /\ work.res.reader \in Readers
  BY <1>1, WorkFacts
<1>3. PICK x : x = IF Cancelled(work) THEN Answer(work.id, FALSE, TRUE, work.res.reader)
                   ELSE Answer(work.id, work.res.ok, FALSE, work.res.reader)
  OBVIOUS
<1>4. work.id \in DOMAIN requests /\ work.id \in Nat /\ work.kind = requests[work.id].kind
      /\ work.design = requests[work.id].design /\ work.kind \in {"compile", "lint"}
  BY <1>2, RequestFacts DEF BuildRecord, BuildInv, BuildTypes
<1>5. /\ x.id = work.id /\ x.reader = work.res.reader /\ (x.newest <=> latest = work.id) /\ (x.cancelled <=> Cancelled(work))
      /\ x.ok <=> (work.res.ok /\ ~Cancelled(work))
  <2>1. CASE Cancelled(work)
    BY <1>3, <2>1 DEF Answer
  <2>2. CASE ~Cancelled(work)
    <3>1. x = [id |-> work.id, ok |-> work.res.ok, cancelled |-> FALSE, reader |-> work.res.reader, newest |-> latest = work.id]
      BY <1>3, <2>2 DEF Answer
    <3>2. QED
      BY <2>2, <3>1
  <2>3. QED
    BY <2>1, <2>2
<1>6. x \in ToldAs
  <2>1. CASE Cancelled(work)
    BY <1>2, <1>3, <1>4, <2>1 DEF Answer, ToldAs
  <2>2. CASE ~Cancelled(work)
    BY <1>2, <1>3, <1>4, <2>2 DEF Answer, ToldAs
  <2>3. QED
    BY <2>1, <2>2
<1>7. Working = {work.id} /\ Working' = {} /\ Waiting' = Waiting /\ OnBench' = OnBench
  BY <1>1, <1>2 DEF Working, Waiting, OnBench
<1>8. AnswerHolds(x)'
  <2>1. x.ok => Validated(work.design, work.res.reader) /\ (work.kind = "compile" => latest = work.id)
    BY <1>1, <1>2, <1>5 DEF GoesRight, Cancelled
  <2>2. x.cancelled => \E i \in (work.id + 1)..Len(requests) : requests[i].kind = "compile"
    <3> SUFFICES ASSUME x.cancelled PROVE \E i \in (work.id + 1)..Len(requests) : requests[i].kind = "compile"
      OBVIOUS
    <3>1. latest # work.id /\ work.kind = "compile"
      BY <1>5 DEF Cancelled
    <3>2. latest >= work.id /\ latest \in DOMAIN requests /\ requests[latest].kind = "compile"
      BY <1>4, <1>7, <3>1 DEF BuildInv, NewestKnown
    <3>3. DOMAIN requests = 1..Len(requests) /\ Len(requests) \in Nat
      BY RequestFacts DEF BuildInv, BuildTypes
    <3>4. latest \in (work.id + 1)..Len(requests)
      BY <1>4, <3>1, <3>2, <3>3
    <3>5. QED
      BY <3>2, <3>4
  <2>3. QED
    BY <1>1, <1>4, <1>5, <2>1, <2>2 DEF AnswerHolds
<1>9. BuildTypes' /\ BuildGoesRight' /\ BenchGoesRight' /\ EachOnce(queue')
  BY <1>1, <1>3, <1>6 DEF BuildInv, BuildTypes, BuildGoesRight, BenchGoesRight, OnePlace
<1>10. work.id \notin Waiting \cup OnBench
  BY <1>7 DEF BuildInv, OnePlace
<1>11. answers' = answers \cup {x}
  BY <1>1, <1>3
<1>12. QED
  BY <1>1, <1>5, <1>6, <1>7, <1>8, <1>9, <1>10, <1>11, TellKeeps

LEMMA BeginKeeps == ASSUME BuildInv, Begin PROVE BuildInv'
<1>0. PICK id : id = Head(queue)
  OBVIOUS
<1>1. work = NoBuild /\ queue # <<>> /\ queue' = Tail(queue) /\ UNCHANGED <<latest, benches, requests>>
  BY DEF Begin
<1>2. queue' \in Seq(Nat) /\ EachOnce(queue') /\ Waiting' = Waiting \ {id} /\ id \in Waiting
  BY <1>0, <1>1, TailIds DEF BuildInv, BuildTypes, OnePlace, Waiting
<1>3. id \in DOMAIN requests /\ requests[id].kind \in {"compile", "lint", "warm"} /\ id \in Nat /\ id \notin OnBench \cup Told
  BY <1>2, RequestFacts DEF BuildInv, BuildTypes, OnePlace
<1>4. Working = {} /\ OnBench' = OnBench
  BY <1>1 DEF Working, OnBench
<1>5. CASE requests[id].kind = "warm"
  <2>1. PICK x : x = Answer(id, TRUE, FALSE, "yosys")
    OBVIOUS
  <2>2. answers' = answers \cup {x} /\ work' = NoBuild
    BY <1>0, <1>1, <1>5, <2>1 DEF Begin
  <2>3. x \in ToldAs /\ x.id = id /\ ~x.cancelled
    BY <1>3, <2>1 DEF Answer, ToldAs, Readers
  <2>4. AnswerHolds(x)'
    BY <1>1, <1>5, <2>3 DEF AnswerHolds
  <2>5. Working' = {} /\ BuildTypes' /\ BuildGoesRight' /\ BenchGoesRight'
    BY <1>1, <1>2, <2>2, <2>3 DEF BuildInv, BuildTypes, BuildGoesRight, BenchGoesRight, Working
  <2>6. QED
    BY <1>1, <1>2, <1>3, <1>4, <2>2, <2>3, <2>4, <2>5, TellKeeps
<1>6. CASE requests[id].kind # "warm"
  <2>1. work' = [stage |-> "read", id |-> id, kind |-> requests[id].kind, design |-> requests[id].design,
                 res |-> RefusedBuild({}), validation |-> [ok |-> FALSE, codes |-> {}]] /\ UNCHANGED answers
    BY <1>0, <1>6 DEF Begin
  <2>2. /\ work'.stage = "read" /\ work'.id = id /\ work'.kind = requests[id].kind /\ work'.design = requests[id].design
        /\ work'.res = RefusedBuild({}) /\ NoBuild.stage = "idle" /\ work'.validation = [ok |-> FALSE, codes |-> {}]
    BY <2>1 DEF NoBuild
  <2>3. work' # NoBuild /\ Working' = {id}
    BY <2>2 DEF Working
  <2>4. BuildRecord(work)'
    <3>1. work'.res = [ok |-> FALSE, reader |-> "yosys", codes |-> {}]
      BY <2>2, RefusedShape
    <3>2. work'.res = [ok |-> work'.res.ok, reader |-> work'.res.reader, codes |-> work'.res.codes]
          /\ work'.res.ok \in BOOLEAN /\ work'.res.reader \in Readers
      BY <3>1 DEF Readers
    <3>3. work' = [stage |-> work'.stage, id |-> work'.id, kind |-> work'.kind, design |-> work'.design,
                   res |-> work'.res, validation |-> work'.validation]
      BY <2>1, <2>2
    <3>4. QED
      BY <1>1, <1>3, <1>6, <2>2, <3>2, <3>3 DEF BuildRecord
  <2>5. BuildTypes' /\ BuildGoesRight' /\ BenchGoesRight'
    BY <1>1, <1>2, <2>1, <2>2, <2>4 DEF BuildInv, BuildTypes, BuildGoesRight, BenchGoesRight, GoesRight
  <2>6. Told' = Told
    BY <2>1 DEF Told
  <2>7. OnePlace'
    BY <1>1, <1>2, <1>3, <1>4, <2>1, <2>3, <2>6 DEF BuildInv, OnePlace
  <2>8. AllServed' /\ NewestKnown'
    BY <1>1, <1>2, <1>3, <1>4, <2>3, <2>6 DEF BuildInv, AllServed, NewestKnown
  <2>9. AnswersTrue'
    BY <1>1, <2>1, <2>5, SameIsSame, AnswersStayTrue DEF BuildInv, AnswersTrue
  <2>10. QED
    BY <2>5, <2>7, <2>8, <2>9 DEF BuildInv
<1>7. QED
  BY <1>5, <1>6

LEMMA TerminateKeeps == ASSUME BuildInv, Terminate PROVE BuildInv'
<1> DEFINE lives(i) == requests[i].lives /\ (requests[i].kind \in {"bench", "bench-lint"} \/ \E a \in answers : a.id = i)
<1>1. /\ queue' = <<>> /\ latest' = 0 /\ work' = NoBuild /\ UNCHANGED <<answers, benches>>
      /\ requests' = [i \in DOMAIN requests |-> [requests[i] EXCEPT !.lives = lives(i)]]
  BY DEF Terminate
<1>2. requests \in Seq(Request) /\ DOMAIN requests = 1..Len(requests) /\ Len(requests) \in Nat
      /\ \A i \in DOMAIN requests : requests[i] \in Request /\ i \in Nat
  BY RequestFacts DEF BuildInv, BuildTypes
<1>3. \A i \in DOMAIN requests : lives(i) \in BOOLEAN
  BY <1>2 DEF Request
<1>4. \A i \in DOMAIN requests : i \in Told => \E a \in answers : a.id = i
  BY DEF Told
<1>5. \A i \in DOMAIN requests : lives(i) => requests[i].lives /\ (requests[i].kind \in BenchKinds \/ i \in Told)
  BY DEF Told, BenchKinds
<1> HIDE DEF lives
<1>6. /\ DOMAIN requests' = DOMAIN requests
      /\ \A i \in DOMAIN requests : /\ requests'[i] \in Request /\ requests'[i].kind = requests[i].kind
                                    /\ requests'[i].design = requests[i].design /\ requests'[i].lives = lives(i)
  BY <1>1, <1>2, <1>3 DEF Request
<1>7. requests' \in Seq(Request) /\ Len(requests') = Len(requests)
  <2>1. requests' \in [1..Len(requests) -> Request]
    BY <1>1, <1>2, <1>6
  <2>2. QED
    BY <1>2, <2>1
<1>8. SameRequests
  BY <1>2, <1>6, <1>7 DEF SameRequests
<1>9. Waiting' = {} /\ Working' = {} /\ OnBench' = OnBench /\ Told' = Told /\ queue' \in Seq(Nat) /\ EachOnce(queue')
  BY <1>1 DEF Waiting, Working, OnBench, Told, IdsIn, EachOnce
<1>10. BuildTypes' /\ BuildGoesRight'
  BY <1>1, <1>7, <1>9 DEF BuildInv, BuildTypes, BuildGoesRight
<1>11. OnePlace'
  BY <1>1, <1>6, <1>9 DEF BuildInv, OnePlace
<1>12. AllServed'
  BY <1>5, <1>6, <1>9 DEF BuildInv, AllServed
<1>13. NewestKnown' /\ BenchGoesRight'
  BY <1>1, <1>6, <1>9 DEF BuildInv, NewestKnown, BenchGoesRight, OnePlace, OnBench
<1>14. AnswersTrue'
  BY <1>1, <1>8, <1>10, AnswersStayTrue DEF AnswersTrue
<1>15. QED
  BY <1>10, <1>11, <1>12, <1>13, <1>14 DEF BuildInv

LEMMA BenchTells ==
  ASSUME BuildInv, NEW j \in benches, NEW ok \in BOOLEAN, BenchAnswers(j, ok),
         ok /\ requests[j.id].kind = "bench" => requests[j.id].design.bench = "ok"
  PROVE  BuildInv'
<1>0. PICK x : x = Answer(j.id, ok, FALSE, "yosys")
  OBVIOUS
<1>1. benches' = benches \ {j} /\ answers' = answers \cup {x} /\ UNCHANGED <<queue, latest, work, requests>>
  BY <1>0 DEF BenchAnswers
<1>2. j.id \in OnBench /\ j.id \in Nat /\ j.id \in DOMAIN requests /\ requests[j.id].kind \in BenchKinds
  BY DEF BuildInv, BuildTypes, OnePlace, OnBench
<1>3. x \in ToldAs /\ x.id = j.id /\ ~x.cancelled /\ x.ok = ok
  BY <1>0, <1>2 DEF Answer, ToldAs, Readers
<1>4. AnswerHolds(x)'
  BY <1>1, <1>2, <1>3 DEF AnswerHolds, BenchKinds
<1>5. Waiting' = Waiting /\ Working' = Working /\ OnBench' = OnBench \ {j.id}
  BY <1>1 DEF Waiting, Working, OnBench, BuildInv, OnePlace
<1>6. BuildTypes' /\ BuildGoesRight' /\ BenchGoesRight' /\ EachOnce(queue')
  <2>1. (work' # NoBuild => BuildRecord(work)') /\ BuildGoesRight'
    BY <1>1, SameIsSame, BuildStays DEF BuildInv, BuildTypes
  <2>2. QED
    BY <1>1, <1>3, <2>1 DEF BuildInv, BuildTypes, BenchGoesRight, OnePlace
<1>7. j.id \notin Waiting \cup Working
  BY <1>2 DEF BuildInv, OnePlace
<1>8. QED
  BY <1>1, <1>2, <1>3, <1>4, <1>5, <1>6, <1>7, TellKeeps

LEMMA BenchKeeps ==
  ASSUME BuildInv, NEW j \in benches, BenchCompiled(j) \/ BenchRan(j)
  PROVE  BuildInv'
<1> DEFINE r == requests[j.id]
<1>1. j.id \in DOMAIN requests /\ r.kind \in BenchKinds /\ r.design \in Submitted /\ j \in [id : Nat, stage : {"compile", "run"}]
  BY RequestFacts DEF BuildInv, BuildTypes, OnePlace, OnBench, Request
<1>2. r.design.bench \in {"ok", "compile", "crash", "sim-exit", "testbench-error"}
  BY <1>1, PipelineAssumption
<1>3. CASE BenchRan(j)
  <2>1. j.stage = "run" /\ BenchAnswers(j, r.design.bench \notin {"sim-exit", "testbench-error"})
    BY <1>3 DEF BenchRan
  <2>2. r.design.bench \notin {"compile", "crash"}
    BY <2>1 DEF BuildInv, BenchGoesRight
  <2>3. PICK ok \in BOOLEAN : ok = (r.design.bench \notin {"sim-exit", "testbench-error"})
    OBVIOUS
  <2>4. BenchAnswers(j, ok) /\ (ok => r.design.bench = "ok")
    BY <1>2, <2>1, <2>2, <2>3
  <2>5. QED
    BY <2>4, BenchTells
<1>4. CASE BenchCompiled(j) /\ (r.design.bench \in {"compile", "crash"} \/ r.kind = "bench-lint")
  <2>1. PICK ok \in BOOLEAN : ok = (r.design.bench \notin {"compile", "crash"})
    OBVIOUS
  <2>2. BenchAnswers(j, ok) /\ (ok /\ r.kind = "bench" => r.design.bench = "ok")
    BY <1>4, <2>1 DEF BenchCompiled
  <2>3. QED
    BY <2>2, BenchTells
<1>5. CASE BenchCompiled(j) /\ ~(r.design.bench \in {"compile", "crash"} \/ r.kind = "bench-lint")
  <2>1. PICK k : k = [j EXCEPT !.stage = "run"]
    OBVIOUS
  <2>2. benches' = (benches \ {j}) \cup {k} /\ UNCHANGED <<queue, latest, work, answers, requests>>
    BY <1>5, <2>1 DEF BenchCompiled
  <2>3. k.id = j.id /\ k.stage = "run" /\ k \in [id : Nat, stage : {"compile", "run"}]
    BY <1>1, <2>1
  <2>4. Waiting' = Waiting /\ Working' = Working /\ OnBench' = OnBench /\ Told' = Told
    BY <2>2, <2>3 DEF Waiting, Working, OnBench, Told
  <2>5. (work' # NoBuild => BuildRecord(work)') /\ BuildGoesRight'
    BY <2>2, SameIsSame, BuildStays DEF BuildInv, BuildTypes
  <2>6. BuildTypes'
    BY <2>2, <2>3, <2>5 DEF BuildInv, BuildTypes
  <2>7. OnePlace'
    <3>1. \A a, b \in benches' : a.id = b.id => a = b
      BY <2>2, <2>3 DEF BuildInv, OnePlace
    <3>2. QED
      BY <2>2, <2>4, <3>1 DEF BuildInv, OnePlace
  <2>8. AllServed' /\ NewestKnown'
    BY <2>2, <2>4 DEF BuildInv, AllServed, NewestKnown
  <2>9. BenchGoesRight'
    BY <1>1, <1>5, <2>2, <2>3 DEF BuildInv, BenchGoesRight, BenchKinds
  <2>10. AnswersTrue'
    BY <2>2, <2>6, SameIsSame, AnswersStayTrue DEF BuildInv, AnswersTrue
  <2>11. QED
    BY <2>5, <2>6, <2>7, <2>8, <2>9, <2>10 DEF BuildInv
<1>6. QED
  BY <1>3, <1>4, <1>5

LEMMA BuildStarts == BuildInit => BuildInv
<1> SUFFICES ASSUME BuildInit PROVE BuildInv
  OBVIOUS
<1>1. queue = <<>> /\ latest = 0 /\ work = NoBuild /\ benches = {} /\ answers = {} /\ requests = <<>>
  BY DEF BuildInit
<1>2. Waiting = {} /\ Working = {} /\ OnBench = {} /\ Told = {} /\ EachOnce(queue)
      /\ requests \in Seq(Request) /\ queue \in Seq(Nat) /\ DOMAIN requests = {}
  BY <1>1 DEF Waiting, Working, OnBench, Told, IdsIn, EachOnce
<1>3. BuildTypes /\ BuildGoesRight /\ BenchGoesRight /\ AnswersTrue
  BY <1>1, <1>2 DEF BuildTypes, BuildGoesRight, BenchGoesRight, AnswersTrue
<1>4. OnePlace /\ AllServed /\ NewestKnown
  BY <1>1, <1>2 DEF OnePlace, AllServed, NewestKnown
<1>5. QED
  BY <1>3, <1>4 DEF BuildInv

LEMMA BuildStaysInv == BuildInv /\ [BuildStep]_buildVars => BuildInv'
<1> SUFFICES ASSUME BuildInv, [BuildStep]_buildVars PROVE BuildInv'
  OBVIOUS
<1>1. CASE Begin \/ Post \/ Terminate
  BY <1>1, BeginKeeps, PostKeeps, TerminateKeeps
<1>2. CASE Read \/ Check \/ ReadAgain \/ CheckAgain
  BY <1>2, ReadKeeps, CheckKeeps, ReadAgainKeeps, CheckAgainKeeps
<1>3. CASE \E kind \in Kinds, d \in Submitted : Ask(kind, d)
  BY <1>3, AskKeeps
<1>4. CASE \E kind \in {"bench", "bench-lint"}, d \in Submitted : AskBench(kind, d)
  BY <1>4, AskBenchKeeps DEF BenchKinds
<1>5. CASE \E j \in benches : BenchCompiled(j) \/ BenchRan(j)
  BY <1>5, BenchKeeps
<1>6. CASE UNCHANGED buildVars
  <2>1. UNCHANGED <<queue, latest, work, benches, answers, requests>>
    BY <1>6 DEF buildVars
  <2>2. Waiting' = Waiting /\ Working' = Working /\ OnBench' = OnBench /\ Told' = Told
    BY <2>1 DEF Waiting, Working, OnBench, Told
  <2>3. (work' # NoBuild => BuildRecord(work)') /\ BuildGoesRight'
    BY <2>1, SameIsSame, BuildStays DEF BuildInv, BuildTypes
  <2>4. BuildTypes' /\ OnePlace' /\ AllServed' /\ NewestKnown' /\ BenchGoesRight'
    BY <2>1, <2>2, <2>3 DEF BuildInv, BuildTypes, OnePlace, AllServed, NewestKnown, BenchGoesRight
  <2>5. AnswersTrue'
    BY <2>1, <2>4, SameIsSame, AnswersStayTrue DEF BuildInv, AnswersTrue
  <2>6. QED
    BY <2>3, <2>4, <2>5 DEF BuildInv
<1>7. QED
  BY <1>1, <1>2, <1>3, <1>4, <1>5, <1>6 DEF BuildStep, BuildWorks

(* The invariant that carries both results below: each request is in one place, *)
(* and each stage of a build knows what the stages before it found.            *)
THEOREM BuildInvHolds == BuildSpec => []BuildInv
<1>1. QED
  BY BuildStarts, BuildStaysInv, PTL DEF BuildSpec

(* The workers' queues, stages and answers are well typed.                    *)
THEOREM BuildTypeCorrect == BuildSpec => []BuildTypeOK
<1>1. ASSUME BuildInv PROVE BuildTypeOK
  <2>1. work.stage \in {"idle", "read", "check", "again", "check again", "post"}
    <3>1. CASE work = NoBuild
      BY <3>1 DEF NoBuild
    <3>2. CASE work # NoBuild
      BY <1>1, <3>2 DEF BuildInv, BuildTypes, BuildRecord
    <3>3. QED
      BY <3>1, <3>2
  <2>2. QED
    BY <1>1, <2>1, RequestFacts DEF BuildInv, BuildTypes, BuildTypeOK, Request, ToldAs, BenchKinds
<1>2. QED
  BY <1>1, BuildInvHolds, PTL

(* A circuit is handed out only of a design that its own reader took and whose *)
(* hardware check passed, and each request of a living worker gets exactly one *)
(* answer, for any designs, requests and terminations.                       *)
THEOREM RunnableMeansValidatedHolds == BuildSpec => []RunnableMeansValidated
<1>1. ASSUME BuildInv PROVE RunnableMeansValidated
  <2>1. ASSUME work = NoBuild, queue = <<>>, benches = {}, NEW i \in DOMAIN requests, requests[i].lives
        PROVE  \E a \in answers : a.id = i
    <3>1. Waiting = {} /\ Working = {} /\ OnBench = {}
      BY <2>1 DEF Waiting, Working, OnBench, IdsIn
    <3>2. i \in Told
      BY <1>1, <2>1, <3>1 DEF BuildInv, AllServed
    <3>3. QED
      BY <3>2 DEF Told
  <2>2. QED
    BY <1>1, <2>1 DEF BuildInv, OnePlace, AnswersTrue, AnswerHolds, Validated, RunnableMeansValidated, KindOfAnswer
<1>2. QED
  BY <1>1, BuildInvHolds, PTL

-----------------------------------------------------------------------------
(* Hovering between the code and the board *)

\* What the page may show: the tip and the marks are those of what is hovered, the
\* glow that of the place under the pointer, all of the design of the present text.
LinksTypes ==
  /\ written \in [top : TopTexts, xdc : PinTexts] /\ hovered \in Parts \cup {Nobody}
  /\ linked # NoDesign => linked = DesignOf(written)
TipIsOfHovered == tip = TipOf(linked, hovered)
MarksAreOfHovered ==
  marks = NoMarks \/ (linked # NoDesign /\ hovered # Nobody /\ marks.at = MarkedIn(marks.tab, linked, hovered))
GlowIsOfPlace ==
  glow = {} \/ (linked # NoDesign /\ codeAt \in Places(shownTab) /\ glow = LitFrom(shownTab, linked, codeAt))
LinksInv == LinksTypes /\ TipIsOfHovered /\ MarksAreOfHovered /\ GlowIsOfPlace

LEMMA NobodyIsNoPart == Nobody \notin Parts
BY LinksAssumption DEF Parts

LEMMA PlacesCount == LinksTypes => 0 \notin Places(shownTab)
<1>1. SUFFICES ASSUME LinksTypes PROVE 0 \notin Places(shownTab)
  OBVIOUS
<1>2. written.top \in TopTexts /\ written.xdc \in PinTexts
  BY <1>1 DEF LinksTypes
<1>3. 0 \notin DOMAIN written.top.words /\ 0 \notin DOMAIN written.xdc
  BY <1>2, LinksAssumption
<1>4. QED
  BY <1>3 DEF Places

LEMMA HoverKeeps ==
  ASSUME LinksTypes, NEW part \in Parts \cup {Nobody}, Hover(part), written' = written, linked' = linked
  PROVE  LinksTypes' /\ TipIsOfHovered' /\ MarksAreOfHovered'
<1>1. hovered' = part /\ tip' = TipOf(linked, part)
  BY DEF Hover
<1>2. LinksTypes' /\ TipIsOfHovered'
  BY <1>1 DEF LinksTypes, TipIsOfHovered
<1>3. MarksAreOfHovered'
  <2> DEFINE at == MarkedIn(shownTab, linked, part)
  <2>1. CASE part = Nobody \/ linked = NoDesign \/ at = {}
    BY <2>1 DEF Hover, MarksAreOfHovered
  <2>2. CASE ~(part = Nobody \/ linked = NoDesign \/ at = {})
    <3>1. marks' = [tab |-> shownTab, at |-> at]
      BY <2>2 DEF Hover
    <3>2. marks'.tab = shownTab /\ marks'.at = at
      BY <3>1
    <3>3. MarkedIn(shownTab, linked, part)' = MarkedIn(shownTab, linked, part)'
      OBVIOUS
    <3>4. MarkedIn(marks.tab, linked, hovered)' = at
      BY <1>1, <3>2 DEF MarkedIn
    <3>5. QED
      BY <1>1, <2>2, <3>2, <3>4 DEF MarksAreOfHovered
  <2>3. QED
    BY <2>1, <2>2
<1>4. QED
  BY <1>2, <1>3

LEMMA SameHover ==
  ASSUME LinksInv, UNCHANGED <<written, linked, hovered, tip, marks>>
  PROVE  LinksTypes' /\ TipIsOfHovered' /\ MarksAreOfHovered'
<1>1. LinksTypes' /\ TipIsOfHovered'
  BY DEF LinksInv, LinksTypes, TipIsOfHovered
<1>2. MarkedIn(marks.tab, linked, hovered)' = MarkedIn(marks.tab, linked, hovered)
  BY DEF MarkedIn
<1>3. QED
  BY <1>1, <1>2 DEF LinksInv, MarksAreOfHovered

LEMMA UnhoverKeeps ==
  ASSUME LinksInv, NEW part, Unhover(part), written' = written, linked' = linked
  PROVE  LinksTypes' /\ TipIsOfHovered' /\ MarksAreOfHovered'
<1>1. CASE part # Nobody /\ hovered = part
  BY <1>1, HoverKeeps DEF Unhover, LinksInv
<1>2. CASE ~(part # Nobody /\ hovered = part)
  BY <1>2, SameHover DEF Unhover
<1>3. QED
  BY <1>1, <1>2

LEMMA SameGlow ==
  ASSUME LinksInv, UNCHANGED <<written, linked, glow, codeAt, shownTab>>
  PROVE  GlowIsOfPlace'
<1>1. LitFrom(shownTab, linked, codeAt)' = LitFrom(shownTab, linked, codeAt)
  BY DEF LitFrom
<1>2. Places(shownTab)' = Places(shownTab)
  BY DEF Places
<1>3. QED
  BY <1>1, <1>2 DEF LinksInv, GlowIsOfPlace

LEMMA UnlinkedFits ==
  ASSUME LinksTypes, Unlinked, written' \in [top : TopTexts, xdc : PinTexts]
  PROVE  LinksInv'
BY DEF LinksTypes, Unlinked, LinksInv, TipIsOfHovered, TipOf, MarksAreOfHovered, GlowIsOfPlace

LEMMA LinksKeep ==
  ASSUME LinksInv, [LinksStep]_linkVars
  PROVE  LinksInv'
<1> USE DEF LinksInv
\* A glow goes with the place that lit it.
<1>1. ASSUME codeAt' = 0, glow' = IF codeAt # 0 THEN {} ELSE glow PROVE GlowIsOfPlace'
  BY <1>1, PlacesCount DEF GlowIsOfPlace
<1>2. ASSUME NEW part \in Parts, PointPart(part) PROVE LinksInv'
  BY <1>1, <1>2, HoverKeeps DEF PointPart, FilesSame
<1>3. ASSUME NEW part \in Parts \cup {Nobody}, FocusPart(part) PROVE LinksInv'
  <2>1. LinksTypes' /\ TipIsOfHovered' /\ MarksAreOfHovered'
    BY <1>3, HoverKeeps, UnhoverKeeps DEF FocusPart, FilesSame
  <2>2. GlowIsOfPlace'
    BY <1>3, SameGlow DEF FocusPart, FilesSame
  <2>3. QED
    BY <2>1, <2>2
<1>4. CASE PointAway
  BY <1>1, <1>4, UnhoverKeeps DEF PointAway, FilesSame
<1>5. CASE RunLinked
  BY <1>5, UnlinkedFits DEF RunLinked, LinksTypes
<1>6. ASSUME NEW i \in Places(shownTab), PointCode(i) PROVE LinksInv'
  <2>1. LinksTypes' /\ TipIsOfHovered' /\ MarksAreOfHovered'
    BY <1>6, UnhoverKeeps DEF PointCode, FilesSame
  <2>2. UNCHANGED <<written, shownTab, linked>> /\ codeAt' = i
    BY <1>6 DEF PointCode, FilesSame
  <2>3. LitFrom(shownTab, linked, codeAt)' = LitFrom(shownTab, linked, i)
    BY <2>2 DEF LitFrom
  <2>4. Places(shownTab)' = Places(shownTab)
    BY <2>2 DEF Places
  <2>5. GlowIsOfPlace'
    BY <1>6, <2>2, <2>3, <2>4 DEF PointCode, GlowIsOfPlace
  <2>6. QED
    BY <2>1, <2>5
<1>7. ASSUME NEW tab, ShowTab(tab) PROVE LinksInv'
  BY <1>1, <1>7, SameHover DEF ShowTab
<1>8. ASSUME NEW top \in TopTexts, NEW xdc \in PinTexts, EditLinked([top |-> top, xdc |-> xdc]) PROVE LinksInv'
  BY <1>8, UnlinkedFits DEF EditLinked
<1>9. ASSUME NEW ok \in BOOLEAN, LinksSet(ok) PROVE LinksInv'
  <2>1. UNCHANGED <<written, hovered, shownTab, codeAt>>
    BY <1>9 DEF LinksSet, UserStays
  <2>2. CASE ~ok
    BY <1>9, <2>1, <2>2, SameHover, SameGlow DEF LinksSet
  <2>3. CASE ok
    BY <1>9, <2>1, <2>3 DEF LinksSet, LinksTypes, TipIsOfHovered, MarksAreOfHovered, GlowIsOfPlace, DesignOf
  <2>4. QED
    BY <2>2, <2>3
<1>10. CASE UNCHANGED linkVars
  BY <1>10, SameHover, SameGlow DEF linkVars
<1>11. QED
  BY <1>2, <1>3, <1>4, <1>5, <1>6, <1>7, <1>8, <1>9, <1>10 DEF LinksStep

\* What a part is wired to.
LEMMA LabelIsWired ==
  ASSUME NEW design, NEW part, WiredTo(design, part) # {}
  PROVE  Label(design, part) \in Bound(design) /\ ElementOf(Label(design, part)) = part
BY DEF Label, WiredTo

\* An entry is of a bit of one port; no other port has its name.
LEMMA EntryOfPort ==
  ASSUME LinksTypes, NEW e \in Entries(DesignOf(written))
  PROVE  LET p == CHOOSE q \in written.top.ports : q.name = e.port IN
         /\ p \in written.top.ports /\ p.name = e.port /\ e.bit \in 0..(p.bits - 1)
         /\ p.name # Hidden /\ p.bits \in Nat /\ p.offset \in Int
         /\ e = [port |-> p.name, bit |-> e.bit, dir |-> p.dir, pin |-> CHOOSE q \in Hits(DesignOf(written), p, e.bit) : TRUE]
<1> DEFINE design == DesignOf(written)
           p == CHOOSE q \in written.top.ports : q.name = e.port
<1>1. design.ports = written.top.ports /\ written.top \in TopTexts
  BY DEF DesignOf, LinksTypes
<1> HIDE DEF design
<1>2. PICK pb \in BitsOf(design) :
        e = [port |-> pb[1].name, bit |-> pb[2], dir |-> pb[1].dir, pin |-> CHOOSE q \in Hits(design, pb[1], pb[2]) : TRUE]
  BY DEF Entries, design
<1>3. PICK port \in design.ports : \E b \in 0..(port.bits - 1) : pb = <<port, b>>
  BY DEF BitsOf
<1>4. PICK b \in 0..(port.bits - 1) : pb = <<port, b>>
  BY <1>3
<1>5. e = [port |-> port.name, bit |-> b, dir |-> port.dir, pin |-> CHOOSE q \in Hits(design, port, b) : TRUE]
  BY <1>2, <1>4
<1>6. e.port = port.name /\ e.bit = b
  BY <1>5
<1>7. p \in written.top.ports /\ p.name = e.port
  BY <1>1, <1>6
<1>8. p = port
  BY <1>1, <1>6, <1>7, LinksAssumption
<1>9. p.name # Hidden /\ p.bits \in Nat /\ p.offset \in Int
  BY <1>1, <1>7, LinksAssumption
<1>10. QED
  BY <1>5, <1>6, <1>7, <1>8, <1>9 DEF design

\* One bit has one entry, and of a port's bits each has its own index in the source.
LEMMA IndexTellsBit ==
  ASSUME LinksTypes, NEW e \in Entries(DesignOf(written)), NEW f \in Entries(DesignOf(written)),
         e.port = f.port, Source(DesignOf(written), e) = Source(DesignOf(written), f)
  PROVE  e = f
<1> DEFINE p == CHOOSE q \in written.top.ports : q.name = e.port
<1>1. /\ p.bits \in Nat /\ p.offset \in Int /\ e.bit \in 0..(p.bits - 1) /\ f.bit \in 0..(p.bits - 1)
      /\ e = [port |-> p.name, bit |-> e.bit, dir |-> p.dir, pin |-> CHOOSE q \in Hits(DesignOf(written), p, e.bit) : TRUE]
      /\ f = [port |-> p.name, bit |-> f.bit, dir |-> p.dir, pin |-> CHOOSE q \in Hits(DesignOf(written), p, f.bit) : TRUE]
  BY EntryOfPort
<1>2. Source(DesignOf(written), e) = SrcIndex(p, e.bit) /\ Source(DesignOf(written), f) = SrcIndex(p, f.bit)
  BY DEF Source, DesignOf
<1>3. SrcIndex(p, e.bit) = SrcIndex(p, f.bit)
  BY <1>2
<1> HIDE DEF p
<1>4. e.bit = f.bit
  BY <1>1, <1>3 DEF SrcIndex
<1>5. QED
  BY <1>1, <1>4

LEMMA InertHolds == LinksInv => InertWhenStale
<1> SUFFICES ASSUME LinksInv PROVE InertWhenStale
  OBVIOUS
<1>1. tip = TipOf(linked, hovered)
  BY DEF LinksInv, TipIsOfHovered
<1>2. CASE linked = NoDesign
  BY <1>1, <1>2 DEF LinksInv, MarksAreOfHovered, GlowIsOfPlace, InertWhenStale, TipOf
<1>3. CASE linked # NoDesign
  <2>1. linked = DesignOf(written)
    BY <1>3 DEF LinksInv, LinksTypes
  <2>2. hovered = Nobody => tip = Hidden
    BY <1>1 DEF TipOf
  <2>3. ASSUME hovered # Nobody PROVE tip # Hidden
    <3>1. CASE WiredTo(linked, hovered) = {}
      <4>1. tip = "no port bound"
        BY <1>1, <1>3, <2>3, <3>1, Zenon DEF TipOf
      <4>2. "no port bound" # "hidden"
        BY Zenon
      <4>3. QED
        BY <4>1, <4>2, Zenon DEF Hidden
    <3>2. CASE WiredTo(linked, hovered) # {}
      <4>1. tip = Label(linked, hovered).port
        BY <1>1, <1>3, <2>3, <3>2, Zenon DEF TipOf
      <4>2. Label(linked, hovered) \in Entries(DesignOf(written))
        BY <2>1, <3>2, LabelIsWired DEF Bound
      <4>3. QED
        BY <4>1, <4>2, EntryOfPort DEF LinksInv
    <3>3. QED
      BY <3>1, <3>2
  <2>4. QED
    BY <1>3, <2>1, <2>2, <2>3 DEF InertWhenStale
<1>4. QED
  BY <1>2, <1>3

LEMMA MarksHold == LinksInv => MarksLeadBack
<1> SUFFICES ASSUME LinksInv, NEW i \in marks.at
             PROVE  /\ hovered \in LitFrom(marks.tab, linked, i)
                    /\ tip = IF marks.tab = "top" THEN written.top.words[i].word ELSE written.xdc[i].port
  BY DEF MarksLeadBack
<1>1. marks # NoMarks
  BY DEF NoMarks
<1>2. linked # NoDesign /\ hovered \in Parts /\ i \in MarkedIn(marks.tab, linked, hovered)
  BY <1>1 DEF LinksInv, LinksTypes, MarksAreOfHovered
<1> DEFINE e == Label(linked, hovered)
<1>3. WiredTo(linked, hovered) # {}
  BY <1>2 DEF MarkedIn
<1>4. e \in Bound(linked) /\ ElementOf(e) = hovered
  BY <1>3, LabelIsWired
<1>5. tip = e.port
  <2>1. hovered # Nobody
    BY <1>2, NobodyIsNoPart
  <2>2. QED
    BY <1>2, <1>3, <2>1 DEF LinksInv, TipIsOfHovered, TipOf
<1>6. CASE marks.tab = "top"
  <2>1. i \in DOMAIN written.top.words /\ written.top.words[i].zone = "header" /\ written.top.words[i].word = e.port
    BY <1>2, <1>3, <1>6 DEF MarkedIn
  <2>2. written.top.words[i].index = NoBit /\ ~written.top.words[i].dotted
    <3>1. written.top \in TopTexts
      BY DEF LinksInv, LinksTypes
    <3>2. QED
      BY <2>1, <3>1, LinksAssumption
  <2> HIDE DEF e
  <2>3. hovered \in LitFrom("top", linked, i)
    BY <1>2, <1>4, <2>1, <2>2 DEF LitFrom
  <2>4. QED
    BY <1>5, <1>6, <2>1, <2>3
<1>7. CASE marks.tab = "xdc"
  <2>1. i \in DOMAIN written.xdc /\ written.xdc[i].port = e.port /\ written.xdc[i].bit \in {NoBit, Source(linked, e)}
    BY <1>2, <1>3, <1>7 DEF MarkedIn, LabelBit
  <2> HIDE DEF e
  <2>2. hovered \in LitFrom("xdc", linked, i)
    BY <1>2, <1>4, <2>1 DEF LitFrom
  <2>3. QED
    BY <1>5, <1>7, <2>1, <2>2
<1>8. CASE marks.tab \notin {"top", "xdc"}
  BY <1>2, <1>3, <1>8 DEF MarkedIn
<1>9. QED
  BY <1>6, <1>7, <1>8

LEMMA GlowHolds == LinksInv => GlowLeadsBack
<1> SUFFICES ASSUME LinksInv, NEW part \in glow
             PROVE  /\ codeAt \in Places(shownTab)
                    /\ ~BindErrors(linked) =>
                         /\ shownTab = "xdc" => codeAt \in MarkedIn("xdc", linked, part)
                         /\ shownTab = "top" =>
                              /\ TipOf(linked, part) = written.top.words[codeAt].word
                              /\ written.top.words[codeAt].zone = "header" => codeAt \in MarkedIn("top", linked, part)
                              /\ written.top.words[codeAt].index # NoBit => Cardinality(glow) = 1
  BY DEF GlowLeadsBack
<1>1. linked # NoDesign /\ linked = DesignOf(written) /\ codeAt \in Places(shownTab) /\ glow = LitFrom(shownTab, linked, codeAt)
  BY DEF LinksInv, LinksTypes, GlowIsOfPlace
<1> SUFFICES ASSUME ~BindErrors(linked)
             PROVE  /\ shownTab = "xdc" => codeAt \in MarkedIn("xdc", linked, part)
                    /\ shownTab = "top" =>
                         /\ TipOf(linked, part) = written.top.words[codeAt].word
                         /\ written.top.words[codeAt].zone = "header" => codeAt \in MarkedIn("top", linked, part)
                         /\ written.top.words[codeAt].index # NoBit => Cardinality(glow) = 1
  BY <1>1
\* A part has one entry, as pins have one part and entries one pin.
<1>2. ASSUME NEW e \in Bound(linked), NEW f \in Bound(linked), ElementOf(e) = ElementOf(f) PROVE e = f
  <2>1. e.pin = f.pin
    BY <1>2, LinksAssumption DEF Bound, ElementOf
  <2>2. QED
    BY <2>1 DEF Bound, BindErrors
<1>3. ASSUME NEW e \in Bound(linked), ElementOf(e) = part PROVE WiredTo(linked, part) # {} /\ Label(linked, part) = e
  <2>1. WiredTo(linked, part) # {}
    BY <1>3 DEF WiredTo
  <2>2. QED
    BY <1>2, <1>3, <2>1, LabelIsWired
<1>4. CASE shownTab = "xdc"
  <2>1. PICK e \in Bound(linked) : ElementOf(e) = part /\ written.xdc[codeAt].port = e.port
                                   /\ written.xdc[codeAt].bit \in {NoBit, Source(linked, e)}
    BY <1>1, <1>4 DEF LitFrom
  <2>2. codeAt \in DOMAIN written.xdc
    BY <1>1, <1>4 DEF Places
  <2>3. QED
    BY <1>3, <1>4, <2>1, <2>2 DEF MarkedIn, LabelBit
<1>5. CASE shownTab = "top"
  <2> DEFINE w == written.top.words[codeAt]
  <2>1. \A q \in glow : \E e \in Bound(linked) : ElementOf(e) = q /\ q \in Parts /\ w.word = e.port /\ w.index \in {NoBit, Source(linked, e)}
    BY <1>1, <1>5 DEF LitFrom
  <2>2. PICK e \in Bound(linked) : ElementOf(e) = part /\ part \in Parts /\ w.word = e.port /\ w.index \in {NoBit, Source(linked, e)}
    BY <2>1
  <2>3. codeAt \in DOMAIN written.top.words
    BY <1>1, <1>5 DEF Places
  <2>4. WiredTo(linked, part) # {} /\ Label(linked, part) = e
    BY <1>3, <2>2
  <2>5. TipOf(linked, part) = w.word
    BY <1>1, <2>2, <2>4, NobodyIsNoPart DEF TipOf
  <2>6. w.zone = "header" => codeAt \in MarkedIn("top", linked, part)
    BY <2>2, <2>3, <2>4 DEF MarkedIn
  <2>7. ASSUME w.index # NoBit PROVE Cardinality(glow) = 1
    <3>1. ASSUME NEW q \in glow PROVE q = part
      <4>1. PICK f \in Bound(linked) : ElementOf(f) = q /\ w.word = f.port /\ w.index \in {NoBit, Source(linked, f)}
        BY <2>1
      <4>2. e.port = f.port /\ Source(linked, e) = Source(linked, f)
        BY <2>2, <2>7, <4>1
      <4>3. e = f
        BY <1>1, <4>2, IndexTellsBit DEF Bound, LinksInv
      <4>4. QED
        BY <2>2, <4>1, <4>3
    <3>2. glow = {part}
      BY <3>1
    <3>3. QED
      BY <3>2, FS_Singleton
  <2>8. QED
    BY <1>5, <2>5, <2>6, <2>7
<1>6. QED
  BY <1>4, <1>5

(* Code and board agree, for any texts, pins, designs and hovering: what is      *)
(* marked in the code leads back to the part it is marked for, what is lit to the *)
(* name under the pointer, and between an edit and the next run nothing is shown.  *)
THEOREM CodeAndBoardAgreeHolds == LinksSpec => []CodeAndBoardAgree
<1>1. LinksInit => LinksInv
  BY DEF LinksInit, LinksInv, LinksTypes, TipIsOfHovered, TipOf, MarksAreOfHovered, GlowIsOfPlace
<1>2. LinksInv => CodeAndBoardAgree
  BY InertHolds, MarksHold, GlowHolds DEF CodeAndBoardAgree
<1>3. QED
  BY <1>1, <1>2, LinksKeep, PTL DEF LinksSpec

=============================================================================
