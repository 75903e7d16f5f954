------------------------------ MODULE WaveViewer ------------------------------
(***************************************************************************)
(* The window of wave.js in the page `dewfpga wave` opens: the signals added *)
(* to it, their selection, the zoom, the cursor, the markers, and the        *)
(* configuration it keeps in the browser per testbench (mountPage, 150 ms     *)
(* after the last change), which the page of the next run starts from.       *)
(*                                                                         *)
(* Times are whole ticks: the window's own edges, fractions in the code, are *)
(* rounded.  A page shows one run; mountVsCode, which reloads a mounted      *)
(* viewer, has no caller in the repository.                                 *)
(***************************************************************************)
EXTENDS WaveSeries, SequencesExt

CONSTANTS Runs,      \* what the simulator writes: see IsRun
          Radixes,   \* of the value column
          Pixels,    \* width of the canvas
          MaxEntries, MaxActs  \* bounds on the window and on the user's acts

\* A run: its scopes as a tree from "", its variables in the file's order, the
\* changes of each identifier code, and its last time, which no change is after.
Var == [path : STRING, scope : STRING, code : STRING, width : Nat \ {0},
        type : {"wire", "integer", "parameter", "real"}, check : BOOLEAN]
IsTree(below) ==
  LET scopes == DOMAIN below IN
  /\ scopes \subseteq STRING /\ IsFiniteSet(scopes) /\ "" \in scopes
  /\ below \in [scopes -> Seq(scopes)]
  /\ \E depth \in [scopes -> 0..(Cardinality(scopes) - 1)] :
       \A p \in scopes : \A c \in Range(below[p]) : depth[p] < depth[c]
IsRun(r) ==
  /\ r.end \in Nat /\ r.vars \in Seq(Var) /\ IsTree(r.below)
  /\ \A v \in Range(r.vars) :
       LET s == r.sigs[v.code] IN
       /\ s \in Series /\ Growing(s) /\ \A i \in DOMAIN s : s[i].t <= r.end
       /\ v.type # "real" => \A i \in DOMAIN s : Len(s[i].v) = v.width

ASSUME RunsAssumption == \A r \in Runs : IsRun(r)
ASSUME ViewerAssumption == MaxEntries \in Nat /\ MaxActs \in Nat /\ Pixels \in Nat \ {0}

VARIABLES run,      \* the run the page shows, NoRun when no page is open
          entries,  \* the signals in the window, in order
          sel,      \* keys of selected rows
          anchor,   \* where a range selection starts, 0 when nowhere
          view,     \* the first and the last time on screen
          cursor, markers, snap,
          frame,    \* the scope whose objects are listed, the panes, the columns
          drag,     \* what the pointer holds
          timer,    \* a save is due
          store,    \* what the browser keeps
          acts      \* acts of the user so far

timeVars  == <<view, cursor, markers, snap>>
rowVars   == <<entries, sel, anchor>>
saveVars  == <<timer, store>>
viewerVars == <<run, entries, sel, anchor, view, cursor, markers, snap, frame, drag, timer, store, acts>>

NoRun    == [end |-> -1]
NoConfig == [none |-> "nothing kept"]
Refused  == [none |-> "storage refused"]
Nothing  == [kind |-> "nothing", at |-> 0]

-----------------------------------------------------------------------------
(* Entries and rows *)

\* The errors counter and the expected values of a testbench.
TestOnly(r, v)  == v.check /\ v.scope \in Range(r.below[""])
VarsOf(r, s)    == Only(r.vars, {v \in Range(r.vars) : v.scope = s})
Addable(r, s)   == Only(VarsOf(r, s), {v \in Range(r.vars) : v.type # "parameter" /\ ~TestOnly(r, v)})

\* The first scope with variables, from the top down.
Below(r, s) ==
  LET with == Only(r.below[s], {c \in Range(r.below[s]) : VarsOf(r, c) # <<>>})
  IN IF with # <<>> THEN Head(with) ELSE Head(r.below[s])
StartScope(r) ==
  LET down[n \in 0..Cardinality(DOMAIN r.below)] ==
        IF n = 0 THEN ""
        ELSE LET s == down[n - 1] IN
             IF VarsOf(r, s) # <<>> \/ r.below[s] = <<>> THEN s ELSE Below(r, s)
  IN down[Cardinality(DOMAIN r.below)]
StartVars(r) ==
  IF Addable(r, StartScope(r)) # <<>> THEN Addable(r, StartScope(r)) ELSE VarsOf(r, StartScope(r))

EntryFor(v, id) ==
  [id |-> id, v |-> v, radix |-> IF v.type = "integer" THEN "sdec" ELSE "hex", expanded |-> FALSE]
EntriesFor(vs, first) == [i \in DOMAIN vs |-> EntryFor(vs[i], first + i)]
LastId(es) == IF es = <<>> THEN 0 ELSE Max({es[i].id : i \in DOMAIN es})

\* A row is an entry (bit 0) or one bit of an expanded bus.
Splits(e) == e.v.width > 1 /\ e.v.type # "real"
RowsOf(es) ==
  FlattenSeq([i \in DOMAIN es |->
    [k \in 1..(IF es[i].expanded /\ Splits(es[i]) THEN es[i].v.width + 1 ELSE 1) |->
      [e |-> es[i], bit |-> k - 1]]])
KeyOf(row) == <<row.e.id, row.bit>>
SeriesOf(row) ==
  IF row.bit = 0 THEN run.sigs[row.e.v.code] ELSE BitSeries(run.sigs[row.e.v.code], row.bit)

rows == RowsOf(entries)
SelectedRows == Only(rows, {r \in Range(rows) : KeyOf(r) \in sel})
SelectedIds(onlyWhole) == {r.e.id : r \in {q \in Range(SelectedRows) : onlyWhole => q.bit = 0}}

-----------------------------------------------------------------------------
(* What is kept *)

Config == [rows |-> [i \in DOMAIN entries |->
                      [path |-> entries[i].v.path, radix |-> entries[i].radix, expanded |-> entries[i].expanded]],
           markers |-> markers, view |-> view, cursor |-> cursor, snap |-> snap, frame |-> frame]

\* What a page of run r shows of a kept configuration.
KeptFolded(r, keep) ==  \* mutant: the bits of a bus are folded again
  LET known == Only(keep.rows, {k \in Range(keep.rows) : \E i \in DOMAIN r.vars : r.vars[i].path = k.path})
      var(p) == r.vars[Max({i \in DOMAIN r.vars : r.vars[i].path = p})]
  IN [i \in DOMAIN known |-> [EntryFor(var(known[i].path), i) EXCEPT !.radix = known[i].radix]]
Kept(r, keep) ==
  LET known == Only(keep.rows, {k \in Range(keep.rows) : \E i \in DOMAIN r.vars : r.vars[i].path = k.path})
      var(p) == r.vars[Max({i \in DOMAIN r.vars : r.vars[i].path = p})]
  IN [i \in DOMAIN known |-> [EntryFor(var(known[i].path), i) EXCEPT
        !.radix = known[i].radix, !.expanded = known[i].expanded]]

LastTime(r) == Later(r.end, 1)
KeptViewUncut(r, v) ==  \* mutant: the zoom of a longer run is not cut
  IF v[2] > v[1] /\ v[1] < LastTime(r) THEN v ELSE <<0, LastTime(r)>>
KeptView(r, v) ==
  IF v[2] > v[1] /\ v[1] < LastTime(r) THEN <<Later(0, v[1]), Earlier(v[2], LastTime(r))>>
  ELSE <<0, LastTime(r)>>

\* save(): the timer starts anew.
SaveLater == timer' = TRUE /\ UNCHANGED store

\* The page of a new run: mount, then load.  A narrow screen starts without panes.
Open(r, narrow) ==
  /\ run = NoRun /\ run' = r /\ drag' = Nothing
  /\ narrow => store \in {NoConfig, Refused}  \* otherwise what is kept decides
  /\ LET first == store \in {NoConfig, Refused}
         kept  == IF first THEN <<>> ELSE Kept(r, store)
     IN /\ entries' = IF kept # <<>> THEN kept ELSE EntriesFor(StartVars(r), 0)
        /\ markers' = IF first THEN <<>> ELSE Only(store.markers, 0..LastTime(r))
        /\ view' = IF first THEN <<0, LastTime(r)>> ELSE KeptView(r, store.view)
        /\ cursor' = IF ~first /\ store.cursor <= r.end THEN store.cursor ELSE r.end
        /\ snap' = (first \/ store.snap)
        /\ frame' = IF first THEN [scope |-> StartScope(r), panes |-> ~narrow, wide |-> ~narrow]
                    ELSE [store.frame EXCEPT !.scope = IF @ \in DOMAIN r.below THEN @ ELSE StartScope(r)]
  /\ sel' = {} /\ anchor' = 0
  /\ SaveLater /\ UNCHANGED acts

\* The 150 ms are over.  A browser may refuse the storage; the viewer goes on.
Save ==
  /\ timer /\ timer' = FALSE
  /\ store' = IF store = Refused THEN Refused ELSE Config
  /\ UNCHANGED <<run, timeVars, rowVars, frame, drag, acts>>

\* The page is closed, a timer that has not fired with it.
Close ==
  /\ run # NoRun /\ run' = NoRun /\ timer' = FALSE /\ drag' = Nothing
  /\ entries' = <<>> /\ sel' = {} /\ anchor' = 0 /\ view' = <<0, 1>> /\ cursor' = 0
  /\ markers' = <<>> /\ snap' = TRUE /\ frame' = [scope |-> "", panes |-> TRUE, wide |-> TRUE]
  /\ UNCHANGED <<store, acts>>

-----------------------------------------------------------------------------
(* Time: zoom, cursor, markers *)

Act == run # NoRun /\ acts < MaxActs /\ acts' = acts + 1 /\ UNCHANGED run

End == run.end
Clamped(t0, t1) ==
  LET last == LastTime(run)
      span == Earlier(Later(t1 - t0, Earlier(last, 4)), last)
      from == Later(0, Earlier(t0, last - span))
  IN <<from, from + span>>
Span == view[2] - view[1]

\* Where a step of the view or of the cursor leaves the rest.
Looks == SaveLater /\ UNCHANGED <<rowVars, markers, snap, frame>>

\* Zoom in by halves or out by doubles about c.
Zoomed(c, in) ==
  IF in THEN Clamped(c - (c - view[1]) \div 2, c + (view[2] - c) \div 2)
  ELSE Clamped(c - (c - view[1]) * 2, c + (view[2] - c) * 2)
Zoom(c, in) ==   \* a button or key zooms about the cursor, or the middle; the wheel about the pointer
  /\ Act /\ view' = Zoomed(c, in) /\ UNCHANGED <<cursor, drag>> /\ Looks
ZoomCentre == IF cursor >= view[1] /\ cursor <= view[2] THEN cursor ELSE (view[1] + view[2]) \div 2
Fit == Act /\ view' = <<0, LastTime(run)>> /\ UNCHANGED <<cursor, drag>> /\ Looks

\* Shift and wheel, a click beside the thumb, a drag along the ruler.
Pan(d)       == Act /\ view' = Clamped(view[1] + d, view[2] + d) /\ UNCHANGED <<cursor, drag>> /\ Looks
ZoomTo(a, b) == Act /\ a < b /\ view' = Clamped(a, b) /\ UNCHANGED <<cursor, drag>> /\ Looks

Revealed(t) ==
  IF t < view[1] \/ t > view[2] THEN Clamped(t - Span \div 2, t - Span \div 2 + Span) ELSE view
Inside(t) == Later(0, Earlier(t, End))
SetCursor(t, show) ==
  /\ cursor' = Inside(t)
  /\ view' = IF show THEN Revealed(cursor') ELSE view
  /\ Looks
GoTo(t, show) == Act /\ SetCursor(t, show) /\ UNCHANGED drag

\* The transition nearest a time on a row, at most six pixels away.
Snapped(row, t) ==
  LET s == SeriesOf(row)
      k == IndexAt(s, t)
      near == {j \in {k, k + 1} \cap DOMAIN s : ((s[j].t - t) * Pixels) \in (-7 * Span + 1)..(7 * Span - 1)}
      off(j) == IF s[j].t < t THEN t - s[j].t ELSE s[j].t - t
  IN IF ~snap \/ near = {} THEN t
     ELSE s[CHOOSE j \in near : \A i \in near : off(j) < off(i) \/ (off(j) = off(i) /\ j <= i)].t

\* The nearest transition of the selected rows, of all rows when none is selected.
NextOnAtCursor(s, ahead) ==  \* mutant: a transition under the cursor counts as one before it
  LET k == IndexAt(s, cursor) IN
  IF ahead THEN IF k < Len(s) THEN {s[k + 1].t} ELSE {} ELSE IF k = 0 THEN {} ELSE {s[k].t}
NextOn(s, ahead) ==
  LET k == IndexAt(s, cursor) IN
  IF ahead THEN IF k < Len(s) THEN {s[k + 1].t} ELSE {}
  ELSE IF k = 0 THEN {}
  ELSE IF s[k].t < cursor THEN {s[k].t}
  ELSE IF k > 1 THEN {s[k - 1].t} ELSE {}
JumpRows == IF SelectedRows = <<>> THEN rows ELSE SelectedRows
JumpEdge(ahead) ==
  LET edges == UNION {NextOn(SeriesOf(r), ahead) : r \in Range(JumpRows)} IN
  /\ Act /\ edges # {} /\ UNCHANGED drag
  /\ SetCursor(IF ahead THEN Min(edges) ELSE Max(edges), TRUE)

JumpMarker(ahead) ==
  LET list == Only(IF ahead THEN markers ELSE Reverse(markers),
                   {m \in Range(markers) : IF ahead THEN m > cursor ELSE m < cursor}) IN
  /\ Act /\ list # <<>> /\ SetCursor(Head(list), TRUE) /\ UNCHANGED drag

SetMarkers(ms) ==
  /\ markers' = ms /\ SaveLater /\ UNCHANGED <<rowVars, view, cursor, snap, frame, drag>>
\* Pushed and sorted: the others are in order.
AddMarker    ==
  /\ Act /\ cursor \notin Range(markers)
  /\ SetMarkers(Only(markers, {m \in Range(markers) : m < cursor}) \o <<cursor>>
                  \o Only(markers, {m \in Range(markers) : m > cursor}))
ClearMarkers == Act /\ SetMarkers(<<>>)
ToggleSnap   == Act /\ snap' = ~snap /\ SaveLater /\ UNCHANGED <<rowVars, view, cursor, markers, frame, drag>>

-----------------------------------------------------------------------------
(* Rows *)

Rearranges == SaveLater /\ UNCHANGED <<timeVars, frame>>

\* Into the window: a double-click or a menu at the end, a drop before an entry.
AddVars(vs, at) ==
  LET new == EntriesFor(vs, LastId(entries)) IN
  /\ Act /\ Len(entries) + Len(vs) <= MaxEntries
  /\ entries' = SubSeq(entries, 1, at) \o new \o SubSeq(entries, at + 1, Len(entries))
  /\ sel' = {<<new[i].id, 0>> : i \in DOMAIN new}
  /\ UNCHANGED <<anchor, drag>> /\ Rearranges
AddObject(at) ==
  \E v \in Range(VarsOf(run, frame.scope)) : ~TestOnly(run, v) /\ AddVars(<<v>>, at)
AddScope == \E s \in DOMAIN run.below : s # "" /\ AddVars(Addable(run, s), Len(entries))

\* A range whose anchor lies beyond the rows (they were removed or folded since)
\* makes the handler fail half way: the rows there are selected, no more is done.
Fails(i, how) == how = "range" /\ anchor > Len(rows) /\ i \in DOMAIN rows
Selected(i, how) ==
  LET key == KeyOf(rows[i]) IN
  CASE how = "toggle" -> IF key \in sel THEN sel \ {key} ELSE sel \cup {key}
    [] how = "range" /\ anchor > 0 ->
         {KeyOf(rows[k]) : k \in Earlier(anchor, i)..Earlier(Later(anchor, i), Len(rows))}
    [] OTHER -> {key}
SelectRow(i, how) ==
  /\ i \in DOMAIN rows
  /\ sel' = Selected(i, how)
  /\ anchor' = IF how = "range" /\ anchor > 0 THEN anchor ELSE i
  /\ UNCHANGED entries

Holds(how) == {"plain", "toggle", "range"}
PressRow(i, how) ==
  /\ Act /\ drag = Nothing /\ i \in DOMAIN rows
  /\ IF KeyOf(rows[i]) \notin sel \/ how # "plain" THEN SelectRow(i, how) ELSE UNCHANGED rowVars
  /\ drag' = IF Fails(i, how) THEN drag ELSE [kind |-> "row", at |-> i]
  /\ UNCHANGED <<timeVars, frame, saveVars>>

\* Released without moving: one of several selected rows is selected alone.
ReleaseRow(i, held) ==
  /\ Act /\ drag.kind = "row" /\ drag' = Nothing
  /\ IF i \in DOMAIN rows /\ Cardinality(sel) > 1 /\ ~held THEN SelectRow(i, "plain") ELSE UNCHANGED rowVars
  /\ UNCHANGED <<timeVars, frame, saveVars>>

\* Released at a place between the entries: the selected ones go there together.
DropRows(at) ==
  LET moving == SelectedIds(FALSE)
      Rest(es) == Only(es, {e \in Range(es) : e.id \notin moving})
  IN /\ Act /\ drag.kind = "row" /\ drag' = Nothing
     /\ entries' = Rest(SubSeq(entries, 1, at)) \o Only(entries, {e \in Range(entries) : e.id \in moving})
                     \o Rest(SubSeq(entries, at + 1, Len(entries)))
     /\ UNCHANGED <<sel, anchor>> /\ Rearranges

ToggleExpand(i) ==
  /\ Act /\ drag = Nothing /\ Splits(entries[i])
  /\ entries' = [entries EXCEPT ![i].expanded = ~@]
  /\ UNCHANGED <<sel, anchor, drag>> /\ Rearranges

RemoveSelected ==
  /\ Act /\ SelectedIds(TRUE) # {}
  /\ entries' = Only(entries, {e \in Range(entries) : e.id \notin SelectedIds(TRUE)}) /\ sel' = {}
  /\ UNCHANGED <<anchor, drag>> /\ Rearranges

\* From the menu of row i, which selects that row when it is not selected.
SetRadix(i, radix) ==
  LET ids == IF KeyOf(rows[i]) \in sel THEN SelectedIds(FALSE) ELSE {rows[i].e.id} IN
  /\ Act /\ drag = Nothing
  /\ entries' = [k \in DOMAIN entries |->
                  IF entries[k].id \in ids THEN [entries[k] EXCEPT !.radix = radix] ELSE entries[k]]
  /\ IF KeyOf(rows[i]) \in sel THEN UNCHANGED <<sel, anchor>> ELSE sel' = {KeyOf(rows[i])} /\ anchor' = i
  /\ UNCHANGED drag /\ Rearranges

\* Arrow keys, with shift or not; select all; escape.
ArrowKey(down, shift) ==
  LET now == {i \in DOMAIN rows : KeyOf(rows[i]) \in sel}
      to  == IF now = {} THEN 1 ELSE Later(1, Earlier(Len(rows), Min(now) + (IF down THEN 1 ELSE -1)))
  IN /\ Act /\ rows # <<>> /\ SelectRow(to, IF shift THEN "range" ELSE "plain")
     /\ UNCHANGED <<timeVars, frame, drag, saveVars>>
SelectAllOrNone(all) ==
  /\ Act /\ sel' = IF all THEN {KeyOf(r) : r \in Range(rows)} ELSE {}
  /\ UNCHANGED <<entries, anchor, timeVars, frame, drag, saveVars>>

\* On the waves: the row is selected and the cursor snaps to it, and follows the
\* pointer.  The row is remembered by its place, which may be another row later.
PressWave(i, how, t) ==
  /\ Act /\ drag = Nothing
  /\ SelectRow(i, how) /\ drag' = IF Fails(i, how) THEN drag ELSE [kind |-> "wave", at |-> i]
  /\ IF Fails(i, how) THEN UNCHANGED <<cursor, saveVars>>
     ELSE cursor' = Inside(Snapped(rows[i], t)) /\ SaveLater
  /\ UNCHANGED <<view, markers, snap, frame>>
DragWave(t) ==
  /\ Act /\ drag.kind = "wave" /\ UNCHANGED drag
  /\ SetCursor(IF drag.at \in DOMAIN rows THEN Snapped(rows[drag.at], t) ELSE t, FALSE)

-----------------------------------------------------------------------------
(* The frame *)

ClickScope(s) ==
  /\ Act /\ frame' = [frame EXCEPT !.scope = s] /\ SaveLater /\ UNCHANGED <<timeVars, rowVars, drag>>
TogglePanes ==
  /\ Act /\ frame' = [frame EXCEPT !.panes = ~@] /\ SaveLater /\ UNCHANGED <<timeVars, rowVars, drag>>

\* The scroll bar and the column splitters save when they are let go.
Grab(kind) == Act /\ drag = Nothing /\ drag' = [kind |-> kind, at |-> view[1]]
              /\ UNCHANGED <<timeVars, rowVars, frame, saveVars>>
DragBar(d) ==
  /\ Act /\ drag.kind = "bar" /\ view' = Clamped(drag.at + d, drag.at + d + Span)
  /\ UNCHANGED <<cursor, markers, snap, rowVars, frame, drag, saveVars>>
DragSplit ==
  /\ Act /\ drag.kind = "split" /\ frame' = [frame EXCEPT !.wide = ~@]
  /\ UNCHANGED <<timeVars, rowVars, drag, saveVars>>
LetGoUnsaved ==  \* mutant: the end of a drag does not save
  /\ Act /\ drag.kind \in {"bar", "split", "wave"} /\ drag' = Nothing
  /\ UNCHANGED <<timeVars, rowVars, frame, saveVars>>
LetGo ==
  /\ Act /\ drag.kind \in {"bar", "split", "wave"} /\ drag' = Nothing
  /\ IF drag.kind = "wave" THEN UNCHANGED saveVars ELSE SaveLater
  /\ UNCHANGED <<timeVars, rowVars, frame>>

-----------------------------------------------------------------------------
ViewerInit ==
  /\ run = NoRun /\ timer = FALSE /\ drag = Nothing /\ acts = 0
  /\ entries = <<>> /\ sel = {} /\ anchor = 0 /\ view = <<0, 1>> /\ cursor = 0
  /\ markers = <<>> /\ snap = TRUE /\ frame = [scope |-> "", panes |-> TRUE, wide |-> TRUE]
  /\ store \in {NoConfig, Refused}

TimeStep ==
  \/ \E in \in BOOLEAN, c \in {ZoomCentre, view[1]} : Zoom(c, in)
  \/ Fit
  \/ \E d \in {-Span, Span} : Pan(d)
  \/ ZoomTo(view[1] + 1, view[2])
  \/ \E t \in {0, run.end, view[1]} : GoTo(t, t # view[1])
  \/ \E ahead \in BOOLEAN : JumpEdge(ahead) \/ JumpMarker(ahead)
  \/ AddMarker \/ ClearMarkers \/ ToggleSnap

RowStep ==
  \/ \E at \in 0..Len(entries) : AddObject(at) \/ DropRows(at)
  \/ AddScope
  \/ \E i \in DOMAIN rows :
       \/ \E how \in {"plain", "toggle", "range"} : PressRow(i, how)
       \/ \E held \in BOOLEAN : ReleaseRow(i, held)
       \/ \E radix \in Radixes : SetRadix(i, radix)
       \/ \E how \in {"plain", "range"} : PressWave(i, how, view[1] + 1)
  \/ \E i \in DOMAIN entries : ToggleExpand(i)
  \/ RemoveSelected
  \/ \E down, shift \in BOOLEAN : ArrowKey(down, shift)
  \/ \E all \in BOOLEAN : SelectAllOrNone(all)
  \/ DragWave(view[2] - 1)

FrameStep ==
  \/ \E s \in DOMAIN run.below : s # "" /\ ClickScope(s)
  \/ TogglePanes
  \/ \E kind \in {"bar", "split"} : Grab(kind)
  \/ \E d \in {-1, 1} : DragBar(d)
  \/ DragSplit \/ LetGo

ViewerNext ==
  \/ \E r \in Runs, narrow \in BOOLEAN : Open(r, narrow)
  \/ Save \/ Close
  \/ run # NoRun /\ (TimeStep \/ RowStep \/ FrameStep)

ViewerSpec == ViewerInit /\ [][ViewerNext]_viewerVars

-----------------------------------------------------------------------------
(* Properties *)

ConfigType == [rows : Seq([path : STRING, radix : Radixes \cup {"sdec", "hex"}, expanded : BOOLEAN]),
               markers : Seq(Nat), view : Nat \X Nat, cursor : Nat, snap : BOOLEAN,
               frame : [scope : STRING, panes : BOOLEAN, wide : BOOLEAN]]

(* The times of the window lie in the run it shows, also when they were kept  *)
(* from a longer or a shorter run of the same testbench.                     *)
ViewerTypeOK ==
  /\ entries \in Seq([id : Nat, v : Var, radix : Radixes \cup {"sdec", "hex"}, expanded : BOOLEAN])
  /\ \A i, j \in DOMAIN entries : i # j => entries[i].id # entries[j].id
  /\ sel \subseteq (Nat \X Nat) /\ anchor \in Nat /\ acts \in 0..MaxActs
  /\ drag \in [kind : {"nothing", "row", "wave", "bar", "split"}, at : Nat]
  /\ store \in {NoConfig, Refused} \/ store \in ConfigType
  /\ run # NoRun =>
       /\ run \in Runs
       /\ 0 <= view[1] /\ view[1] < view[2] /\ view[2] <= LastTime(run)
       /\ cursor \in 0..End
       /\ \A i \in DOMAIN markers : markers[i] \in 0..LastTime(run) /\ (i > 1 => markers[i - 1] < markers[i])
       /\ \A i \in DOMAIN entries : entries[i].v \in Range(run.vars)

(* With no save due and nothing dragged, the browser keeps what the window    *)
(* shows: no handler changes a part of the configuration and forgets to save. *)
StoreCatchesUp ==
  (run # NoRun /\ ~timer /\ drag.kind \notin {"bar", "split"} /\ store # Refused) => store = Config

(* The page of a new run of the testbench shows the kept signals the run has, *)
(* in their order with their radix and their bits, its markers and its zoom;  *)
(* only what lies beyond the new run is cut, and opening it again cuts no more. *)
(* It opens empty only where the way down the scopes ends in one with nothing.  *)
NewRunKeepsWaves ==
  [][ \A r \in Runs, narrow \in BOOLEAN :
        (Open(r, narrow) /\ store \notin {NoConfig, Refused}) =>
          LET kept == Only(store.rows, {k \in Range(store.rows) : \E v \in Range(r.vars) : v.path = k.path})
          IN /\ kept # <<>> => Config'.rows = kept
             /\ kept = <<>> /\ entries' = <<>> =>
                  r.below[StartScope(r)] = <<>> /\ VarsOf(r, StartScope(r)) = <<>>
             /\ Range(markers') = {m \in Range(store.markers) : m <= LastTime(r)}
             /\ store.view[2] <= LastTime(r) => view' = store.view
             /\ store.cursor <= r.end => cursor' = store.cursor
             /\ KeptView(r, view') = view' ]_viewerVars

(* A jump goes to the nearest change beyond the cursor among the rows chosen, *)
(* bits of a bus included, or nowhere when there is none; and it is on screen. *)
JumpsToNearestChange ==
  [][ \A ahead \in BOOLEAN :
        JumpEdge(ahead) =>
          LET at == {c.t : c \in UNION {Range(SeriesOf(r)) : r \in Range(JumpRows)}}
          IN /\ cursor' \in at /\ cursor' \in view'[1]..view'[2]
             /\ IF ahead THEN cursor' > cursor ELSE cursor' < cursor
             /\ \A t \in at : ~(t > Earlier(cursor, cursor') /\ t < Later(cursor, cursor')) ]_viewerVars
=============================================================================
