------------------------------ MODULE SimBoard --------------------------------
(***************************************************************************)
(* The drawn Basys3 and the circuit behind it (board.js, xdc.js, engine.js    *)
(* and the board half of main.js): pushbuttons held by a pointer or a key,    *)
(* switches, the pins that tie ports to them, a run that replaces the         *)
(* circuit under held inputs, and the frames that clock it.                   *)
(***************************************************************************)
EXTENDS Naturals, FiniteSets

CONSTANTS Buttons, Switches,
          BoardKeys,  \* key -> the button it is when the board itself has the focus
          PressKeys,  \* keys that press the control that has the focus
          PinElement, \* pin -> what it is wired to on the board
          Designs,    \* [ports, pins]: what a run may find
          MaxInputs

ASSUME BoardAssumption ==
  /\ Buttons \cap Switches = {} /\ \A k \in DOMAIN BoardKeys : BoardKeys[k] \in Buttons
  /\ MaxInputs \in Nat
  /\ \A design \in Designs : \A p \in design.ports :
       p.bits \in Nat /\ \A q \in design.ports : p.name = q.name => p = q

Controls == Buttons \cup Switches
NoBit  == 99  \* a port named without an index
Nobody == "nobody"

VARIABLES
  \* the board: what is on, and what holds a button
  lit, keyHeld, ptrHeld,
  \* the user: focus ("svg", a control or "away"), keys and buttons held down
  focus, keysDown, ptrDown, inputs,
  \* the circuit: whether there is one, its pins, its clock port, the inputs set,
  \* those that have settled, and what its registers took at the last edge
  circuit,
  building, away,           \* a run waits for its compiler; the other view is shown
  running, paused, frames,  \* frames: animation frames asked for
  edge                      \* the board at the last edge (history)
boardVars == <<lit, keyHeld, ptrHeld, focus, keysDown, ptrDown, inputs,
               circuit, building, away, running, paused, frames, edge>>

NoCircuit == [on |-> FALSE, map |-> {}, ports |-> {}, clk |-> Nobody, values |-> <<>>, settled |-> <<>>, q |-> <<>>]

-----------------------------------------------------------------------------
(* Pins *)

SrcIndex(port, b) == port.offset + IF port.upto THEN port.bits - 1 - b ELSE b
\* A scalar is named bare or as [0]; a vector, also [0:0], by its source index.
Wanted(port, b) ==
  IF port.bits = 1 /\ port.offset = 0 /\ ~port.vector THEN {NoBit, 0} ELSE {SrcIndex(port, b)}
Hits(design, port, b) ==
  {l.pin : l \in {p \in design.pins : p.port = port.name /\ p.bit \in Wanted(port, b)}}
BitsOf(design) == UNION {{<<port, b>> : b \in 0..(port.bits - 1)} : port \in design.ports}
Entries(design) ==
  {[port |-> pb[1].name, bit |-> pb[2], dir |-> pb[1].dir, pin |-> CHOOSE p \in Hits(design, pb[1], pb[2]) : TRUE] :
     pb \in {x \in BitsOf(design) : Cardinality(Hits(design, x[1], x[2])) = 1}}

BindErrors(design) ==
  \/ \E pb \in BitsOf(design) : Cardinality(Hits(design, pb[1], pb[2])) # 1
  \/ \E e, f \in Entries(design) : e # f /\ e.pin = f.pin
  \/ \E l \in design.pins : l.pin \notin DOMAIN PinElement

ElementOf(e) == PinElement[e.pin]
InputsAt(map, element) == {<<e.port, e.bit>> : e \in {f \in map : f.dir = "input" /\ ElementOf(f) = element}}

-----------------------------------------------------------------------------
(* The circuit *)

Settle(c) == [c EXCEPT !.settled = c.values]

\* onBoardInput: every port bit wired to the element; settled at once unless the
\* frames do it.
Feed(c, element, v, now) ==
  IF ~c.on THEN c
  ELSE LET set == [c EXCEPT !.values = [b \in DOMAIN @ |-> IF b \in InputsAt(c.map, element) THEN v ELSE @[b]]]
       IN IF now THEN Settle(set) ELSE set

\* A clock period: what is pending settles before the edge, the registers take
\* what has settled, and the clock is low again.
Cycle(c) ==
  LET s == Settle(c) IN
  Settle([s EXCEPT !.q = s.settled, !.values = [s.values EXCEPT ![<<c.clk, 0>>] = 0]])

BoardNow == [element \in Controls |-> lit[element]]
ClockCircuit == circuit' = Cycle(circuit) /\ edge' = BoardNow

-----------------------------------------------------------------------------
(* Inputs *)

Input == inputs < MaxInputs /\ inputs' = inputs + 1
UserSame == UNCHANGED <<focus, keysDown, ptrDown>>
LoopSame == UNCHANGED <<building, away, running, paused, frames, edge>>

\* A button is up only when neither a key nor a pointer holds it.
Hold(keys, ptrs) ==
  LET new == [e \in Controls |-> IF e \in Buttons THEN IF e \in keys \cup ptrs THEN 1 ELSE 0 ELSE lit[e]]
      changed == {b \in Buttons : new[b] # lit[b]} IN
  /\ keyHeld' = keys /\ ptrHeld' = ptrs /\ lit' = new
  /\ circuit' = IF ~circuit.on \/ changed = {} THEN circuit
                ELSE LET set == [circuit EXCEPT !.values = [b \in DOMAIN @ |->
                                   IF \E x \in changed : b \in InputsAt(circuit.map, x)
                                   THEN new[CHOOSE x \in changed : b \in InputsAt(circuit.map, x)] ELSE @[b]]]
                     IN IF running THEN set ELSE Settle(set)
Toggle(s) ==
  /\ lit' = [lit EXCEPT ![s] = 1 - @] /\ circuit' = Feed(circuit, s, 1 - lit[s], ~running)
  /\ UNCHANGED <<keyHeld, ptrHeld>>
Ignored == UNCHANGED <<lit, keyHeld, ptrHeld, circuit>>

\* The board's own keys count only when it has the focus itself; a control takes
\* its press keys for itself.  Repeats are ignored.
KeyDown(k) ==
  /\ Input /\ k \notin keysDown /\ focus # "away" /\ keysDown' = keysDown \cup {k}
  /\ UNCHANGED <<focus, ptrDown>> /\ LoopSame
  /\ IF focus = "svg" /\ k \in DOMAIN BoardKeys THEN Hold(keyHeld \cup {BoardKeys[k]}, ptrHeld)
     ELSE IF focus \in Buttons /\ k \in PressKeys THEN Hold(keyHeld \cup {focus}, ptrHeld)
     ELSE IF focus \in Switches /\ k \in PressKeys THEN Toggle(focus)
     ELSE Ignored
\* A control keeps its press keys from the board when they come up, too.
KeyUp(k) ==
  /\ k \in keysDown /\ keysDown' = keysDown \ {k} /\ UNCHANGED <<focus, ptrDown, inputs>> /\ LoopSame
  /\ IF focus \in Controls /\ k \in PressKeys
     THEN IF focus \in Buttons THEN Hold(keyHeld \ {focus}, ptrHeld) ELSE Ignored
     ELSE IF focus # "away" /\ k \in DOMAIN BoardKeys THEN Hold(keyHeld \ {BoardKeys[k]}, ptrHeld)
     ELSE Ignored

\* Leaving the board releases what keys hold, leaving a button that button.
Focus(t) ==
  /\ Input /\ t # focus /\ focus' = t /\ UNCHANGED <<keysDown, ptrDown>> /\ LoopSame
  /\ Hold(IF t = "away" THEN {} ELSE keyHeld \ {focus}, ptrHeld)

PointerDown(b) ==
  /\ Input /\ ptrDown = Nobody /\ ptrDown' = b /\ UNCHANGED <<focus, keysDown>> /\ LoopSame
  /\ Hold(keyHeld, ptrHeld \cup {b})
\* Up wherever the pointer went, cancelled, or its capture lost.
PointerUp ==
  /\ ptrDown # Nobody /\ ptrDown' = Nobody /\ UNCHANGED <<focus, keysDown, inputs>> /\ LoopSame
  /\ Hold(keyHeld, ptrHeld \ {ptrDown})
ClickSwitch(s) == Input /\ UserSame /\ LoopSame /\ Toggle(s)
\* The window or the tab is left: keys that come up elsewhere are never seen here.
WindowBlur ==
  /\ Input /\ keysDown' = {} /\ UNCHANGED <<focus, ptrDown>> /\ LoopSame
  /\ Hold({}, {})

-----------------------------------------------------------------------------
(* Runs and frames *)

BoardSame == UNCHANGED <<lit, keyHeld, ptrHeld>>
\* stop() leaves the frame that was asked for; it finds nothing to do.
Stop == running' = FALSE
Start == IF running THEN UNCHANGED <<running, frames>> ELSE running' = TRUE /\ frames' = frames + 1

\* The old circuit is gone before the new one is read.
ResetBoard == Stop /\ circuit' = NoCircuit /\ UNCHANGED frames
PressBoardRun == Input /\ UserSame /\ BoardSame /\ ResetBoard /\ building' = TRUE /\ UNCHANGED <<away, paused, edge>>
\* An edit or a replaced workspace; a late answer is then dropped.
Invalidate == Input /\ UserSame /\ BoardSame /\ ResetBoard /\ building' = FALSE /\ UNCHANGED <<away, paused, edge>>

\* All inputs start low; then what the board has on is fed, also a button that
\* was held through the run.
FedSwitches(c) == [c EXCEPT !.values = [b \in DOMAIN @ |->  \* mutant: only the switches are fed
  IF \E s \in Switches : lit[s] = 1 /\ b \in InputsAt(c.map, s) THEN 1 ELSE 0]]
Fed(c) == [c EXCEPT !.values = [b \in DOMAIN @ |->
  IF \E s \in Controls : lit[s] = 1 /\ b \in InputsAt(c.map, s) THEN 1 ELSE 0]]
ClockPort(map) ==
  LET clocks == {e.port : e \in {f \in map : f.dir = "input" /\ ElementOf(f) = "clk"}}
  IN IF clocks = {} THEN Nobody ELSE CHOOSE p \in clocks : TRUE
RunEnds(design, ok) ==
  LET map  == Entries(design)
      bits == {<<e.port, e.bit>> : e \in {f \in map : f.dir = "input"}}
      low  == [b \in bits |-> 0]
      new  == [on |-> TRUE, map |-> map, ports |-> design.ports, clk |-> ClockPort(map), values |-> low, settled |-> low, q |-> low] IN
  /\ building /\ ~away /\ building' = FALSE /\ BoardSame /\ UserSame /\ UNCHANGED <<inputs, away>>
  /\ IF ~ok \/ BindErrors(design) THEN UNCHANGED <<circuit, running, paused, frames, edge>>
     ELSE /\ circuit' = Settle(Fed(new)) /\ paused' = FALSE /\ edge' = [e \in Controls |-> 0]
          /\ IF new.clk # Nobody THEN Start ELSE UNCHANGED <<running, frames>>

\* The other view stops the clock; coming back runs again.
Leave == Input /\ ~away /\ away' = TRUE /\ Stop /\ building' = FALSE /\ UserSame /\ BoardSame
  /\ UNCHANGED <<circuit, paused, frames, edge>>
Return == Input /\ away /\ away' = FALSE /\ ResetBoard /\ building' = TRUE /\ UserSame /\ BoardSame
  /\ UNCHANGED <<paused, edge>>

\* A frame clocks a number of cycles and asks for the next one.
Frame ==
  /\ frames > 0 /\ BoardSame /\ UserSame /\ UNCHANGED <<inputs, building, away, paused>>
  /\ IF ~running THEN frames' = frames - 1 /\ UNCHANGED <<circuit, running, edge>>
     ELSE IF ~circuit.on \/ circuit.clk = Nobody
     THEN frames' = frames - 1 /\ running' = FALSE /\ UNCHANGED <<circuit, edge>>
     ELSE ClockCircuit /\ UNCHANGED <<running, frames>>
Clocked == circuit.on /\ circuit.clk # Nobody
Pause ==
  /\ Input /\ Clocked /\ paused' = running /\ BoardSame /\ UserSame /\ UNCHANGED <<circuit, building, away, edge>>
  /\ IF running THEN Stop /\ UNCHANGED frames ELSE Start
StepOnce ==
  /\ Input /\ Clocked /\ ClockCircuit /\ Stop /\ paused' = (paused \/ running)
  /\ BoardSame /\ UserSame /\ UNCHANGED <<building, away, frames>>

BoardStep ==
  \/ \E k \in DOMAIN BoardKeys \cup PressKeys : KeyDown(k) \/ KeyUp(k)
  \/ \E t \in {"svg", "away"} \cup Controls : Focus(t)
  \/ \E b \in Buttons : PointerDown(b)
  \/ \E s \in Switches : ClickSwitch(s)
  \/ PointerUp \/ WindowBlur \/ PressBoardRun \/ Invalidate \/ Leave \/ Return
  \/ \E design \in Designs, ok \in BOOLEAN : RunEnds(design, ok)
  \/ Frame \/ Pause \/ StepOnce

BoardInit ==
  /\ lit = [e \in Controls |-> 0] /\ keyHeld = {} /\ ptrHeld = {}
  /\ focus = "away" /\ keysDown = {} /\ ptrDown = Nobody /\ inputs = 0
  /\ circuit = NoCircuit /\ building = FALSE /\ away = FALSE
  /\ running = FALSE /\ paused = FALSE /\ frames = 0 /\ edge = [e \in Controls |-> 0]

BoardSpec == BoardInit /\ [][BoardStep]_boardVars

-----------------------------------------------------------------------------
(* Properties *)

BoardTypeOK ==
  /\ lit \in [Controls -> 0..1] /\ keyHeld \subseteq Buttons /\ ptrHeld \subseteq Buttons
  /\ focus \in {"svg", "away"} \cup Controls /\ ptrDown \in Buttons \cup {Nobody}
  /\ {building, away, running, paused, circuit.on} \subseteq BOOLEAN /\ frames \in Nat

\* Every bit of every port of a circuit has one pin, and no pin has two.
BoundExactly ==
  circuit.on =>
    /\ \A port \in circuit.ports : \A b \in 0..(port.bits - 1) :
         Cardinality({e \in circuit.map : e.port = port.name /\ e.bit = b}) = 1
    /\ \A e, f \in circuit.map : e.pin = f.pin => e = f
\* Each input wired to a control has the control's value, and at the last edge the
\* registers took what the board showed then.  Not so for the other bits of a bus
\* that has the clock on one of them: the clock is its bit 0 then (main.js, line 474).
InputsFollow ==
  \A e \in circuit.map : e.dir = "input" /\ ElementOf(e) \in Controls /\ e.port # circuit.clk =>
    /\ circuit.values[<<e.port, e.bit>>] = lit[ElementOf(e)]
    /\ circuit.clk # Nobody => circuit.q[<<e.port, e.bit>>] = edge[ElementOf(e)]
\* A button is down while something holds it, and no longer.
HeldIsDown == \A b \in Buttons : lit[b] = 1 <=> b \in keyHeld \cup ptrHeld
ClockNeedsCircuit == running => Clocked

(* The circuit sees the board: pins are bound one to one, its inputs are what  *)
(* the controls show, also when a run replaced the circuit under a held        *)
(* button or an input fell between two frames, and each edge takes the values *)
(* that the board had.                                                      *)
CircuitSeesTheBoard == BoundExactly /\ InputsFollow /\ HeldIsDown /\ ClockNeedsCircuit

(* `pointer capture + focus-loss release keep a pushbutton momentary, no       *)
(* matter where the pointer or the focus goes`: a button is down only while a  *)
(* key or the pointer is.  Not so when the focus moves within the board.       *)
PushbuttonsAreMomentary ==
  \A b \in Buttons : lit[b] = 1 => ptrDown = b \/ keysDown # {}
=============================================================================
