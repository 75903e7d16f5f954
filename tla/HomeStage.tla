------------------------------ MODULE HomeStage -------------------------------
(***************************************************************************)
(* The home page's stage (docs/home/flow.js, page.js, vis.js): "every frame is *)
(* a function of how far the reader has scrolled, so scrolling back runs it     *)
(* back".  The page draws only what changed since its last frame, and lays out  *)
(* again when the window settles; the scroll moves between any two frames.      *)
(* The scroll is counted in ten-thousandths of the stage.                      *)
(***************************************************************************)
EXTENDS Integers, FiniteSets

CONSTANTS Scrolls,     \* where the reader may stop
          MaxScrolls

FullStage == 10000
ASSUME StageAssumption == Scrolls \subseteq 0..FullStage /\ 0 \in Scrolls /\ MaxScrolls \in Nat

NeverDrawn == -9999
Hero  == -1

VARIABLES scroll,      \* how far
          lastP, lastK, heroMode,  \* what the last frame was drawn for
          beat,        \* the hero's own clock, in frames of its loop
          onPage,       \* [scene, step, opacity], as the page has them now
          pictures,    \* [ok, last, seen]: drawn at all; the key of each; those visible
          phone, settling, \* narrow window; a relayout is due
          stale,       \* something moved since the last frame
          scrolled
stageVars == <<scroll, lastP, lastK, heroMode, beat, onPage, pictures, phone, settling, stale, scrolled>>

Least(a, b) == IF a < b THEN a ELSE b
Most(a, b)  == IF a > b THEN a ELSE b
Round(n, d) == (2 * n + d) \div (2 * d)

-----------------------------------------------------------------------------
(* A frame, from the scroll alone *)

\* How much of a stretch lies behind p, in ten-thousandths.
Part(p, a, b) == Most(0, Least(10000, ((p - a) * 10000) \div (b - a)))
Steps == <<<<350, 2550>>, <<2550, 4150>>, <<4150, 6150>>, <<6150, 10100>>>>
StepOf(p) ==
  LET in == {i \in DOMAIN Steps : Steps[i][1] <= p /\ p < Steps[i][2]}
  IN IF in = {} THEN Hero ELSE CHOOSE i \in in : \A j \in in : i <= j

\* A command is typed over the first part of its stretch, then its output comes.
CommandLines == {"sim", "wave", "flash"}
Stretch  == [c \in CommandLines |-> CASE c = "sim" -> <<2700, 4000>> [] c = "wave" -> <<4300, 6000>> [] OTHER -> <<6300, 7600>>]
TypedBy  == [c \in CommandLines |-> CASE c = "sim" -> 4000 [] c = "wave" -> 2500 [] OTHER -> 2800]
Length   == [c \in CommandLines |-> CASE c = "sim" -> 27 [] c = "wave" -> 34 [] OTHER -> 25]
Along(c, p) == Part(p, Stretch[c][1], Stretch[c][2])
TypedChars(c, p) == Round(Length[c] * Least(10000, (Along(c, p) * 10000) \div TypedBy[c]), 10000)
\* The simulation's six lines are asked for by a count that has no cap, the flash's have.
Output(c, p) ==
  LET k == Along(c, p)
      Lines(from, over) == (6 * (k - from) + over - 1) \div over IN
  CASE c = "sim"  -> IF k <= 4500 THEN 0 ELSE Lines(4500, 5000)
    [] c = "wave" -> IF k <= 2700 THEN 0 ELSE IF k < 3400 THEN 1 ELSE 2
    [] OTHER      -> IF k <= 3200 THEN 0 ELSE Least(6, Lines(3200, 3000))

Code(p)     == Part(p, 700, 2400)
WaveOpen(p) == Along("wave", p) > 3000
WaveDraw(p) == Part(Along("wave", p), 3600, 9400)
Sram(p)     == Part(Along("flash", p), 6400, 9200)
Flashed(p)     == Along("flash", p) >= 9600

\* The last case of the testbench, then the room switches move: 5, then 7.
Room(p)   == LET k == Part(p, 9400, 10000) IN IF k < 3000 THEN 4 ELSE IF k < 6500 THEN 5 ELSE 7
Sensors   == {1, 4, 7}
Alarm(p)  == Room(p) \in Sensors
Leds(p)   == IF ~Flashed(p) \/ ~Alarm(p) THEN {} ELSE {Room(p), 8}
SwitchesAt(p) == [sensor |-> Sensors, room |-> Room(p), en |-> TRUE]

FlowState(p) ==
  [code |-> Code(p), typed |-> [c \in CommandLines |-> TypedChars(c, p)], output |-> [c \in CommandLines |-> Output(c, p)],
   open |-> WaveOpen(p), draw |-> WaveDraw(p), sram |-> Sram(p), done |-> Flashed(p),
   switches |-> SwitchesAt(p), leds |-> Leds(p)]
\* The windows on the laptop's screen; the wave window leaves when the flash begins.
ScreenAt(p) ==
  {"editor"} \cup (IF p >= 2600 THEN {"terminal"} ELSE {}) \cup (IF WaveOpen(p) /\ p < 6300 THEN {"waves"} ELSE {})
CameraAt(p) == IF p < 7750 THEN <<"to the seat", Part(p, 0, 700)>>
               ELSE IF p < 8750 THEN <<"along the cable", Part(p, 7750, 8750)>>
               ELSE <<"round the board", Part(p, 8750, 9300)>>
FlowFrame(p) == <<"flow", FlowState(p), ScreenAt(p), CameraAt(p)>>

\* The words: the hero's leave, the captions come, and step aside while the camera
\* crosses the desk.
Opacity(p, narrow) ==
  [hero |-> 10000 - Part(p, 40, 350),
   caps |-> Least(10000, IF narrow THEN Part(p, 300, 650)
            ELSE (Part(p, 300, 650) * (10000 - Part(p, 7650, 7900) + Part(p, 8950, 9250))) \div 10000)]

\* The pictures beside the captions, each in its stretch and with its own pace.
Ids   == {"d", "g", "b", "a", "c"}
Spans == [v \in Ids |-> CASE v = "d" -> <<700, 2550>> [] v = "g" -> <<2550, 4150>> [] v = "b" -> <<4150, 6150>>
                          [] v = "a" -> <<6150, 7900>> [] OTHER -> <<9000, 10100>>]
Paces == [v \in Ids |-> CASE v = "d" -> <<700, 2400>> [] v = "g" -> <<2700, 4000>> [] v = "b" -> <<4500, 6000>>
                          [] OTHER -> <<9250, 9950>>]
SeenAs(v, p, caps) ==
  (Least(Part(p, Spans[v][1], Spans[v][1] + 120), 10000 - Part(p, Spans[v][2] - 120, Spans[v][2])) * caps) \div 10000
KeyOf(v, p) ==
  IF v = "a" THEN <<TypedChars("flash", p), Output("flash", p), Round(Sram(p), 250), Flashed(p)>>
  ELSE <<Round(Part(p, Paces[v][1], Paces[v][2]), 25)>>
Undrawn == <<>>

-----------------------------------------------------------------------------
(* The page *)

DrawPictures(p, caps) ==
  LET seen == {v \in Ids : pictures.ok /\ SeenAs(v, p, caps) >= 100} IN
  pictures' = [pictures EXCEPT !.seen = seen,
                               !.last = [v \in Ids |-> IF v \in seen THEN KeyOf(v, p) ELSE @[v]]]

SetStep(p) == IF p < 40 THEN Hero ELSE StepOf(p)

\* One frame of the page.  In the hero's part its own loop runs, from its start when
\* the reader comes back.
HeroFrame ==
  LET k == IF heroMode THEN beat ELSE 0
      scene == IF k # lastK THEN <<"hero", k>> ELSE onPage.scene IN
  /\ scroll < 40 /\ heroMode' = TRUE /\ beat' = k /\ lastK' = k /\ lastP' = 0
  /\ IF lastP # 0
     THEN DrawPictures(0, 0) /\ onPage' = [scene |-> scene, step |-> Hero, opacity |-> Opacity(0, phone)]
     ELSE UNCHANGED pictures /\ onPage' = [onPage EXCEPT !.scene = scene]
Redraws ==
  \/ scroll - lastP > 3 \/ lastP - scroll > 3
  \/ heroMode
FlowFrames ==
  /\ scroll >= 40 /\ UNCHANGED beat
  /\ IF ~Redraws THEN UNCHANGED <<heroMode, lastK, lastP, onPage, pictures>>
     ELSE /\ heroMode' = FALSE /\ lastK' = NeverDrawn /\ lastP' = scroll
          /\ onPage' = [scene |-> FlowFrame(scroll), step |-> StepOf(scroll), opacity |-> Opacity(scroll, phone)]
          /\ DrawPictures(scroll, IF phone THEN 0 ELSE Opacity(scroll, phone).caps)
\* A stage that is out of view has no frame.
Tick ==
  /\ HeroFrame \/ FlowFrames
  /\ stale' = FALSE /\ UNCHANGED <<scroll, phone, settling, scrolled>>

Beat == beat' = (beat + 1) % 2 /\ scroll < 40 /\ stale' = TRUE
        /\ UNCHANGED <<scroll, lastP, lastK, heroMode, onPage, pictures, phone, settling, scrolled>>

Scroll(p) ==
  /\ scrolled < MaxScrolls /\ scrolled' = scrolled + 1 /\ p # scroll
  /\ scroll' = p /\ stale' = TRUE
  /\ UNCHANGED <<lastP, lastK, heroMode, beat, onPage, pictures, phone, settling>>
\* The buttons under the captions scroll to their step.
ButtonGoal(i) == IF i = 4 THEN 7500 ELSE Steps[i][1] + ((Steps[i][2] - Steps[i][1]) * 85) \div 100
ClickStep(i) == Scroll(ButtonGoal(i))

Resize ==
  /\ scrolled < MaxScrolls /\ scrolled' = scrolled + 1 /\ settling' = TRUE
  /\ UNCHANGED <<scroll, lastP, lastK, heroMode, beat, onPage, pictures, phone, stale>>
SizedForgetful == UNCHANGED <<lastP, lastK>>  \* mutant: the next frame draws only what moved
Sized == lastP' = NeverDrawn /\ lastK' = NeverDrawn
\* 120 ms after the last change of the window.  The pictures are placed anew, all
\* of them or none; the next frame draws everything.
Relayout(narrow, fits) ==
  /\ settling /\ settling' = FALSE /\ stale' = TRUE
  /\ Sized /\ phone' = narrow
  /\ pictures' = IF narrow \/ ~fits THEN [pictures EXCEPT !.ok = FALSE, !.seen = {}]
                 ELSE [pictures EXCEPT !.ok = TRUE, !.last = [v \in Ids |-> Undrawn]]
  /\ UNCHANGED <<scroll, heroMode, beat, onPage, scrolled>>

StageInit ==
  /\ phone \in BOOLEAN /\ scroll \in Scrolls /\ lastP = NeverDrawn /\ lastK = NeverDrawn /\ heroMode = TRUE /\ beat = 0
  /\ onPage = [scene |-> <<"nothing">>, step |-> Hero, opacity |-> Opacity(0, phone)]
  /\ settling = FALSE /\ stale = TRUE /\ scrolled = 0
  /\ \E fits \in BOOLEAN : pictures = [ok |-> ~phone /\ fits, last |-> [v \in Ids |-> Undrawn], seen |-> {}]

StageStep ==
  \/ Tick \/ Beat
  \/ \E p \in Scrolls : Scroll(p)
  \/ \E i \in 1..4 : ClickStep(i)
  \/ Resize
  \/ \E narrow, fits \in BOOLEAN : Relayout(narrow, fits)

StageSpec == StageInit /\ [][StageStep]_stageVars

-----------------------------------------------------------------------------
(* Properties *)

StageTypeOK ==
  /\ scroll \in 0..FullStage /\ lastP \in {NeverDrawn} \cup 0..FullStage /\ lastK \in {NeverDrawn, 0, 1} /\ beat \in 0..1
  /\ onPage.step \in {Hero} \cup DOMAIN Steps /\ pictures.seen \subseteq Ids /\ scrolled \in 0..MaxScrolls

\* What a page opened at p would show.
OpenedAt(p) == [scene |-> IF p < 40 THEN <<"hero", beat>> ELSE FlowFrame(p),
             step |-> SetStep(p), opacity |-> Opacity(IF p < 40 THEN 0 ELSE p, phone)]

(* "Every frame is a function of how far the reader has scrolled, so scrolling  *)
(* back runs it back" (flow.js): once a frame was drawn after the last move and  *)
(* relayout, the page shows what one opened there would, up to the three          *)
(* ten-thousandths a frame may be off; a picture that is seen shows its own       *)
(* moment.  And at every scroll no output is before its command, no led before   *)
(* the board is loaded, and a step's button leads to that step.                  *)
StageFollowsScroll ==
  /\ (~stale /\ ~settling) =>
       \E p \in scroll - 3..scroll + 3 :
         /\ p >= 0 /\ (p < 40) = (scroll < 40) /\ onPage = OpenedAt(p)
         /\ \A v \in Ids : (pictures.ok /\ SeenAs(v, p, IF phone \/ p < 40 THEN 0 ELSE onPage.opacity.caps) >= 100) =>
              v \in pictures.seen /\ pictures.last[v] = KeyOf(v, p)
  /\ \A c \in CommandLines : Output(c, scroll) > 0 => TypedChars(c, scroll) = Length[c]
  /\ Leds(scroll) # {} => Sram(scroll) = 10000 /\ Output("flash", scroll) = 6
  /\ "waves" \in ScreenAt(scroll) => Output("wave", scroll) > 0
  /\ \A i \in 1..4 : StepOf(ButtonGoal(i)) = i
=============================================================================
