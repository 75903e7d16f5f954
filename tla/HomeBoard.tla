------------------------------ MODULE HomeBoard -------------------------------
(***************************************************************************)
(* The home page's board, seen from above (docs/home/board.js): switches whose *)
(* levers slide for three frames, leds, digits and buttons; the trace a flipped *)
(* switch sends a pulse down (pcb.js); the buttons that copy a command           *)
(* (page.js); the pictures that play once (side.js).  The design on the chip is  *)
(* `led = sw`, with seg and an driven by the switches, both active low.          *)
(***************************************************************************)
EXTENDS Naturals, FiniteSets, Sequences

CONSTANTS Levers,      \* the switches that are touched
          OnAtFirst,   \* those that are on when the page opens
          Knobs,       \* the push buttons
          WalkLen,     \* route -> cells a pulse walks; "branch" is the one on a wide window
          Chips,       \* [route, at]: the parts a pulse meets, and the cell under each
          MaxTouches

Routes  == {"trace", "branch"}
NoGoal  == 9
NoKnob  == "no button"
NotPainted == 9

ASSUME HomeBoardAssumption ==
  /\ Levers \subseteq 0..15 /\ OnAtFirst \subseteq Levers /\ MaxTouches \in Nat
  /\ WalkLen \in [Routes -> Nat] /\ \A c \in Chips : c.route \in Routes /\ c.at \in Nat
  /\ NoKnob \notin Knobs

VARIABLES lever, sw,      \* lever: 0 (off) to 3 (on); sw: the contacts that are closed
          goal,           \* where the lever's timer drives it
          btn, focused, spaceHeld, fingerHeld,  \* the push buttons, and what holds one
          drawn, aria,    \* what the drawing and the hidden buttons over it say
          pulses, looping, layer, branch, unseen, hot,  \* the pulses, and the parts lit
          copies,         \* one copy button: [label, done, asked, later]
          side,           \* one picture beside a section: [k, at, played, playing, painted, room]
          calm,           \* the reader asks for less motion: [now, atFirst]
          touches
flatVars  == <<lever, sw, goal, btn, focused, spaceHeld, fingerHeld, drawn, aria>>
traceVars == <<pulses, looping, layer, branch, unseen, hot>>
homeVars  == <<flatVars, traceVars, copies, side, calm, touches>>

Touch == touches < MaxTouches /\ touches' = touches + 1

-----------------------------------------------------------------------------
(* The pulses *)

\* At most four at once, none for a reader who wants less motion.
WithPulse(ps, from, route) ==
  IF calm.now \/ Len(ps) > 3 THEN ps ELSE Append(ps, [head |-> from, route |-> route, on |-> layer])
SendPulse(from, route) ==
  /\ pulses' = WithPulse(pulses, from, route)
  /\ looping' = (looping \/ pulses' # pulses)

\* A frame: a pulse is gone when its six cells are past the end.
Walked(p, d) == [p EXCEPT !.head = @ + d]
Gone(p) == p.head >= 6 + WalkLen[p.route]
\* Those that are not gone, in their order.
Walking(ps) ==
  LET left[i \in 0..Len(ps)] ==
        IF i = 0 THEN <<>> ELSE IF Gone(ps[i]) THEN left[i - 1] ELSE Append(left[i - 1], ps[i])
  IN left[Len(ps)]
HitBy(p) == {c \in Chips : c.route = p.route /\ c.at <= p.head /\ c.at + 4 > p.head}
PulseFrame(d) ==
  LET moved == [i \in DOMAIN pulses |-> Walked(pulses[i], d)]
      left  == Walking(moved) IN
  /\ looping
  /\ pulses' = left /\ looping' = (left # <<>>)
  /\ hot' = hot \cup UNION {HitBy(left[i]) : i \in DOMAIN left}
  /\ UNCHANGED <<flatVars, layer, branch, unseen, copies, side, calm, touches>>

\* 520 ms after it was last hit.
CoolsDown(c) ==
  /\ c \in hot /\ hot' = hot \ {c}
  /\ UNCHANGED <<flatVars, pulses, looping, layer, branch, unseen, copies, side, calm, touches>>

\* Drawn anew into another layer: no pulse stays.  Each crossing waits to be seen.
Routed(wide) ==
  /\ pulses' = <<>> /\ layer' = (layer + 1) % 2 /\ branch' = wide /\ hot' = {}
  /\ unseen' = IF calm.now THEN {} ELSE {"a", "b"} \cup IF wide THEN {"curve"} ELSE {}
RoutedOver(wide) ==  \* mutant: the pulses on their way are kept
  /\ UNCHANGED pulses /\ layer' = (layer + 1) % 2 /\ branch' = wide /\ hot' = {}
  /\ unseen' = IF calm.now THEN {} ELSE {"a", "b"} \cup IF wide THEN {"curve"} ELSE {}
Build(wide) == Routed(wide)
ComesIntoView(m) ==
  /\ m \in unseen /\ unseen' = unseen \ {m}
  /\ IF m = "curve" THEN SendPulse(0, "branch") ELSE SendPulse(IF m = "b" THEN 1 ELSE 0, "trace")
  /\ UNCHANGED <<flatVars, layer, branch, hot, copies, side, calm, touches>>

-----------------------------------------------------------------------------
(* The switches *)

\* The digits from the left are an[3] to an[0].
Picture(levers, on, pressed) ==
  [levers |-> levers, leds |-> on, knobs |-> pressed,
   digits |-> [d \in 0..3 |-> IF 15 - d \in on THEN on \cap 0..6 ELSE {}],
   readout |-> [seg |-> (0..6) \ on, an |-> {j \in 0..3 : 12 + j \notin on}]]
Draw == drawn' = Picture(lever', sw', btn')

\* The contact changes as the lever crosses the middle; a change sends a pulse.
Contacts(l) == {i \in Levers : l[i] >= 2}
Moved(i, at) ==
  /\ lever' = [lever EXCEPT ![i] = at] /\ sw' = Contacts(lever')
  /\ Draw /\ aria' = sw'
  /\ IF sw' # sw THEN SendPulse(0, "trace") ELSE UNCHANGED <<pulses, looping>>

OneRow(at, to) == IF at < to THEN at + 1 ELSE IF at > to THEN at - 1 ELSE at

\* A click turns the lever round, wherever it is.  The pointer's up before the click
\* lets go of the buttons; a click by key does not.
Flip(i) ==
  LET to == IF lever[i] >= 2 THEN 0 ELSE 3 IN
  /\ focused' = NoKnob
  /\ \/ UNCHANGED <<btn, fingerHeld>>
     \/ btn' = {} /\ fingerHeld' = FALSE
  /\ IF calm.now THEN Moved(i, to) /\ goal' = [goal EXCEPT ![i] = NoGoal]
     ELSE Moved(i, OneRow(lever[i], to)) /\ goal' = [goal EXCEPT ![i] = to]
  /\ UNCHANGED <<spaceHeld, layer, branch, unseen, hot, copies, side, calm>>
\* A led flips the switch under it, a digit the switch of its anode.
Target(t) == IF t.what = "digit" THEN 15 - t.n ELSE t.n
ClickTarget(t) == Touch /\ Target(t) \in Levers /\ Flip(Target(t))

SlideFrame(i) ==
  /\ goal[i] # NoGoal /\ UNCHANGED btn
  /\ LET at == OneRow(lever[i], goal[i]) IN
     /\ Moved(i, at)
     /\ goal' = [goal EXCEPT ![i] = IF at = @ THEN NoGoal ELSE @]
  /\ UNCHANGED <<focused, spaceHeld, fingerHeld, layer, branch, unseen, hot, copies, side, calm, touches>>

-----------------------------------------------------------------------------
(* The push buttons, by pointer and by key *)

Pressed(set) ==
  /\ btn' = set /\ UNCHANGED <<lever, sw, goal, aria>>
  /\ IF set # btn THEN Draw ELSE UNCHANGED drawn
KnobSame == UNCHANGED <<traceVars, copies, side, calm>>

KnobDown(b) == Touch /\ ~fingerHeld /\ fingerHeld' = TRUE /\ focused' = b /\ Pressed(btn \cup {b}) /\ UNCHANGED spaceHeld /\ KnobSame
\* Up anywhere lets go of all five.
AnyUp == fingerHeld /\ fingerHeld' = FALSE /\ Pressed({}) /\ UNCHANGED <<focused, spaceHeld, touches>> /\ KnobSame
FocusKnob(b) == Touch /\ b # focused /\ focused' = b /\ UNCHANGED <<lever, sw, goal, btn, spaceHeld, fingerHeld, drawn, aria>> /\ KnobSame
\* A key presses the button that has the focus, and lets go of the one that has it then.
KeyGoesDown ==
  /\ Touch /\ focused # NoKnob /\ ~spaceHeld /\ spaceHeld' = TRUE
  /\ Pressed(btn \cup {focused}) /\ UNCHANGED <<focused, fingerHeld>> /\ KnobSame
KeyComesUp ==
  /\ spaceHeld /\ spaceHeld' = FALSE
  /\ Pressed(btn \ {focused}) /\ UNCHANGED <<focused, fingerHeld, touches>> /\ KnobSame

-----------------------------------------------------------------------------
(* The copy button of a command in the hero, which no relayout replaces *)

NewCopy == [label |-> "copy", done |-> FALSE, asked |-> 0, later |-> <<>>]
ClickCopy ==
  /\ Touch /\ SendPulse(0, "trace") /\ copies' = [copies EXCEPT !.asked = @ + 1]
  /\ UNCHANGED <<flatVars, layer, branch, unseen, hot, side, calm>>
\* The clipboard answered: what the label was is kept for later, 1400 ms.
Copied(ok) ==
  /\ copies.asked > 0
  /\ copies' = [label |-> IF ok THEN "done" ELSE "select", done |-> TRUE,
                asked |-> copies.asked - 1, later |-> Append(copies.later, copies.label)]
  /\ UNCHANGED <<flatVars, traceVars, side, calm, touches>>
LabelBack ==
  /\ copies.later # <<>>
  /\ copies' = [copies EXCEPT !.label = Head(copies.later), !.done = FALSE, !.later = Tail(@)]
  /\ UNCHANGED <<flatVars, traceVars, side, calm, touches>>

-----------------------------------------------------------------------------
(* The pictures beside two sections: 2 is the whole of it *)

Paint(s) == [s EXCEPT !.painted = s.k]
PlaySide ==
  /\ ~side.played /\ side.room /\ ~calm.now
  /\ side' = [side EXCEPT !.at = 0, !.played = TRUE, !.playing = TRUE]
  /\ UNCHANGED <<flatVars, traceVars, copies, calm, touches>>
SideFrame(k) ==
  /\ side.playing /\ k >= side.at
  /\ LET now == [side EXCEPT !.k = k, !.at = k, !.playing = k < 2] IN
     side' = IF k = side.k THEN now ELSE Paint(now)
  /\ UNCHANGED <<flatVars, traceVars, copies, calm, touches>>

-----------------------------------------------------------------------------
\* The window settled in another size: board and trace are built again, with them
\* the hidden buttons, so the focus is lost; the pictures in the room there is.
RelayoutHome(wide, room) ==
  /\ ~calm.atFirst /\ Touch /\ Build(wide)
  /\ focused' = NoKnob /\ UNCHANGED <<lever, sw, goal, btn, spaceHeld, fingerHeld, looping, copies, calm>>
  /\ Draw /\ aria' = sw
  /\ side' = IF room THEN Paint([side EXCEPT !.room = TRUE]) ELSE [side EXCEPT !.room = FALSE]

LessMotion == Touch /\ calm' = [calm EXCEPT !.now = ~@] /\ UNCHANGED <<flatVars, traceVars, copies, side>>

HomeInit ==
  /\ \E less \in BOOLEAN : calm = [now |-> less, atFirst |-> less]
  /\ touches = 0
  /\ lever = [i \in Levers |-> IF i \in OnAtFirst THEN 3 ELSE 0] /\ sw = OnAtFirst
  /\ goal = [i \in Levers |-> NoGoal] /\ btn = {} /\ focused = NoKnob /\ spaceHeld = FALSE /\ fingerHeld = FALSE
  /\ drawn = Picture(lever, sw, btn) /\ aria = sw
  /\ pulses = <<>> /\ looping = FALSE /\ layer = 0 /\ branch \in BOOLEAN /\ hot = {}
  /\ unseen = IF calm.now THEN {} ELSE {"a", "b"} \cup IF branch THEN {"curve"} ELSE {}
  /\ copies = NewCopy
  /\ \E room \in BOOLEAN :
       LET k == IF calm.now THEN 2 ELSE 0 IN
       side = [k |-> k, at |-> 0, played |-> FALSE, playing |-> FALSE, room |-> room, painted |-> IF room THEN k ELSE NotPainted]

\* What happens to the switches and their trace; and to the rest of the page.
SwitchStep ==
  \/ \E i \in Levers : ClickTarget([what |-> "led", n |-> i])
  \/ \E d \in 0..3 : ClickTarget([what |-> "digit", n |-> d])
  \/ \E c \in Chips : CoolsDown(c)
  \/ \E m \in {"a", "b", "curve"} : ComesIntoView(m)
  \/ \E i \in Levers : SlideFrame(i)
  \/ PulseFrame(4)
  \/ \E wide \in BOOLEAN : RelayoutHome(wide, FALSE)
PageStep ==
  \/ \E b \in Knobs : KnobDown(b) \/ FocusKnob(b)
  \/ \E i \in Levers : ClickTarget([what |-> "switch", n |-> i])
  \/ AnyUp \/ KeyGoesDown \/ KeyComesUp
  \/ ClickCopy \/ LabelBack \/ PlaySide \/ LessMotion
  \/ \E ok \in BOOLEAN : Copied(ok)
  \/ \E k \in 0..2 : SideFrame(k)
  \/ \E wide, room \in BOOLEAN : RelayoutHome(wide, room)

HomeSpec == HomeInit /\ [][SwitchStep \/ PageStep]_homeVars

-----------------------------------------------------------------------------
(* Properties *)

HomeTypeOK ==
  /\ lever \in [Levers -> 0..3] /\ sw \subseteq Levers /\ goal \in [Levers -> {0, 3, NoGoal}]
  /\ btn \subseteq Knobs /\ focused \in Knobs \cup {NoKnob} /\ aria \subseteq Levers
  /\ \A i \in DOMAIN pulses : pulses[i].route \in Routes /\ pulses[i].head \in Nat
  /\ hot \subseteq Chips /\ layer \in 0..1 /\ touches \in 0..MaxTouches
  /\ copies.label \in {"copy", "done", "select"} /\ side.k \in 0..2

(* "An led clicked flips the switch under it, so the board stays honest"       *)
(* (board.js): however clicks fall while levers slide, what is drawn, the       *)
(* hidden buttons and the contacts agree; a lever between its ends is on its    *)
(* way to the end the last click meant; a 0 on seg and an is what lights a      *)
(* digit.  Pulses never outlive the trace they walk, are four at most, and one   *)
(* that is under way has a frame to come.                                      *)
BoardIsHonest ==
  /\ drawn = Picture(lever, sw, btn) /\ aria = sw
  /\ \A i \in Levers :
       /\ (i \in sw) = (lever[i] \in {2, 3})
       /\ lever[i] \in {1, 2} => goal[i] \in {0, 3}
       /\ goal[i] # NoGoal => lever[i] # goal[i]
  /\ \A d \in 0..3, s \in 0..6 :
       (s \in drawn.digits[d]) = (s \notin drawn.readout.seg /\ 3 - d \notin drawn.readout.an)
  /\ Len(pulses) <= 4 /\ (pulses # <<>> => looping)
  /\ \A i \in DOMAIN pulses :
       /\ pulses[i].on = layer /\ (pulses[i].route = "branch" => branch)
       /\ ~Gone(pulses[i])
  /\ (copies.asked = 0 /\ copies.later = <<>>) => ~copies.done
  /\ side.room => side.painted = side.k
  /\ (side.playing => side.played) /\ ((side.played /\ ~side.playing) => side.k = 2)

\* Not so in the code: a second click while the label says `done` keeps that word
\* as what to put back; a key pressed on one button may come up on another.
CopyComesBack == (copies.asked = 0 /\ copies.later = <<>>) => copies.label = "copy"
KnobsLetGo == (~spaceHeld /\ ~fingerHeld) => btn = {}
=============================================================================
