------------------------------ MODULE SiteProofs -------------------------------
(***************************************************************************)
(* The pages of the site: the home page's stage shows the moment of the       *)
(* scrolling it was last drawn for, its board and side board show what is so,  *)
(* and the account and newsletter pages keep what they promised, for any        *)
(* scrolling, levers, pulses, clicks, answers and losses, and any number of     *)
(* them.                                                                    *)
(***************************************************************************)
EXTENDS HomePage, AccountPage, SequenceProofs, SequenceTheorems, WellFoundedInduction, TLAPS

-----------------------------------------------------------------------------
(* The home page's stage: what is on the page was drawn for lastP and lastK *)

StageTypes ==
  /\ scroll \in 0..FullStage /\ lastP \in {NeverDrawn} \cup 0..FullStage /\ lastK \in {NeverDrawn, 0, 1} /\ beat \in 0..1
  /\ heroMode \in BOOLEAN /\ phone \in BOOLEAN /\ settling \in BOOLEAN /\ stale \in BOOLEAN /\ scrolled \in 0..MaxScrolls
  /\ onPage = [scene |-> onPage.scene, step |-> onPage.step, opacity |-> onPage.opacity]
  /\ onPage.step \in {Hero} \cup DOMAIN Steps
  /\ pictures = [ok |-> pictures.ok, last |-> pictures.last, seen |-> pictures.seen]
  /\ pictures.ok \in BOOLEAN /\ pictures.seen \subseteq Ids /\ DOMAIN pictures.last = Ids
\* The pictures that are seen show the moment p.
PicturesOf(p, caps) ==
  /\ pictures.seen = {v \in Ids : pictures.ok /\ SeenAs(v, p, caps) >= 100}
  /\ \A v \in pictures.seen : pictures.last[v] = KeyOf(v, p)
CapsAt(p) == IF phone THEN 0 ELSE Opacity(p, phone).caps
\* In the hero's part the page was drawn for 0, in the flow's for a scroll of at least 40.
DrawnFor ==
  lastP # NeverDrawn =>
    /\ heroMode <=> lastP = 0
    /\ heroMode => /\ onPage.step = Hero /\ onPage.opacity = Opacity(0, phone) /\ lastK # NeverDrawn
                   /\ PicturesOf(0, 0)
    /\ ~heroMode => /\ lastP >= 40
                    /\ onPage = [scene |-> FlowFrame(lastP), step |-> StepOf(lastP), opacity |-> Opacity(lastP, phone)]
                    /\ PicturesOf(lastP, CapsAt(lastP))
HeroDrawn == lastK # NeverDrawn => onPage.scene = <<"hero", lastK>>
\* A frame that nothing followed left nothing to do.
UpToDate ==
  (~stale /\ ~settling) =>
    IF scroll < 40 THEN heroMode /\ lastP = 0 /\ lastK = beat
    ELSE ~heroMode /\ lastP # NeverDrawn /\ scroll - lastP <= 3 /\ lastP - scroll <= 3
StageInv == StageTypes /\ DrawnFor /\ HeroDrawn /\ UpToDate

LEMMA GoalsOnStage ==
  \A i \in 1..4 : ButtonGoal(i) \in 0..FullStage /\ StepOf(ButtonGoal(i)) = i
<1>1. /\ DOMAIN Steps = 1..4
      /\ Steps[1] = <<350, 2550>> /\ Steps[2] = <<2550, 4150>> /\ Steps[3] = <<4150, 6150>> /\ Steps[4] = <<6150, 10100>>
  BY DEF Steps
<1>2. ButtonGoal(1) = 2220 /\ ButtonGoal(2) = 3910 /\ ButtonGoal(3) = 5850 /\ ButtonGoal(4) = 7500
  BY <1>1 DEF ButtonGoal
<1>3. \A i \in 1..4 : {j \in DOMAIN Steps : Steps[j][1] <= ButtonGoal(i) /\ ButtonGoal(i) < Steps[j][2]} = {i}
  BY <1>1, <1>2
<1>4. QED
  BY <1>2, <1>3 DEF StepOf, FullStage

LEMMA StepsThere == \A p : StepOf(p) \in {Hero} \cup DOMAIN Steps
<1> TAKE p
<1> DEFINE in == {i \in DOMAIN Steps : Steps[i][1] <= p /\ p < Steps[i][2]}
<1>1. DOMAIN Steps = 1..4
  BY DEF Steps
<1>2. in = {} \/ \E i \in in : \A j \in in : i <= j
  BY <1>1
<1>3. QED
  BY <1>2 DEF StepOf

LEMMA StageTables ==
  /\ FullStage = 10000
  /\ Stretch["sim"] = <<2700, 4000>> /\ Stretch["wave"] = <<4300, 6000>> /\ Stretch["flash"] = <<6300, 7600>>
  /\ TypedBy["sim"] = 4000 /\ TypedBy["wave"] = 2500 /\ TypedBy["flash"] = 2800
  /\ Length["sim"] = 27 /\ Length["wave"] = 34 /\ Length["flash"] = 25
BY DEF FullStage, Stretch, TypedBy, Length, CommandLines

LEMMA StageIsWide == FullStage \in Nat /\ 0 \in 0..FullStage
BY DEF FullStage

LEMMA AlongIsAPart ==
  ASSUME NEW p \in Nat
  PROVE  \A c \in CommandLines : Along(c, p) \in Nat /\ Along(c, p) <= 10000
BY StageTables DEF Along, Part, Most, Least, CommandLines

\* At every scroll no output is before its command, no led before the board is loaded.
LEMMA NothingTooEarly ==
  ASSUME NEW p \in Nat
  PROVE  /\ \A c \in CommandLines : Output(c, p) > 0 => TypedChars(c, p) = Length[c]
         /\ Leds(p) # {} => Sram(p) = 10000 /\ Output("flash", p) = 6
         /\ "waves" \in ScreenAt(p) => Output("wave", p) > 0
<1>1. Output("sim", p) > 0 => TypedChars("sim", p) = 27
  BY StageTables, AlongIsAPart DEF TypedChars, Round, Least, Output, CommandLines
<1>2. Output("wave", p) > 0 => TypedChars("wave", p) = 34
  BY StageTables, AlongIsAPart DEF TypedChars, Round, Least, Output, CommandLines
<1>3. Output("flash", p) > 0 => TypedChars("flash", p) = 25
  BY StageTables, AlongIsAPart DEF TypedChars, Round, Least, Output, CommandLines
<1>4. ASSUME Leds(p) # {}
      PROVE  Sram(p) = 10000 /\ Output("flash", p) = 6
  <2>1. Along("flash", p) \in Nat /\ Along("flash", p) <= 10000 /\ Along("flash", p) >= 9600
    BY <1>4, AlongIsAPart DEF Leds, Flashed, CommandLines
  <2>2. QED
    BY <2>1 DEF Sram, Part, Most, Least, Output
<1>5. "waves" \in ScreenAt(p) => Output("wave", p) > 0
  BY AlongIsAPart DEF ScreenAt, WaveOpen, Output, CommandLines
<1>6. QED
  BY <1>1, <1>2, <1>3, <1>4, <1>5, StageTables DEF CommandLines

LEMMA NothingSeenWithoutCaptions ==
  ASSUME NEW v \in Ids, NEW p \in Nat
  PROVE  ~(SeenAs(v, p, 0) >= 100)
<1>1. \A x \in Int : (x * 0) \div 10000 = 0
  OBVIOUS
<1>2. Spans[v][1] \in Nat /\ Spans[v][2] \in Nat /\ Spans[v][2] >= Spans[v][1] + 120
  BY DEF Spans, Ids
<1>3. \A a, b \in Int : b > a => Part(p, a, b) \in Int
  BY DEF Part, Most, Least
<1>4. Least(Part(p, Spans[v][1], Spans[v][1] + 120), 10000 - Part(p, Spans[v][2] - 120, Spans[v][2])) \in Int
  BY <1>2, <1>3 DEF Least
<1>5. QED
  BY <1>1, <1>4 DEF SeenAs

-----------------------------------------------------------------------------
LEMMA DrawnPictures ==
  ASSUME StageTypes, NEW p, NEW caps, DrawPictures(p, caps), phone' = phone
  PROVE  /\ PicturesOf(p, caps)' 
         /\ pictures' = [ok |-> pictures.ok, last |-> pictures'.last, seen |-> pictures'.seen]
         /\ pictures'.ok \in BOOLEAN /\ pictures'.seen \subseteq Ids /\ DOMAIN pictures'.last = Ids
<1> DEFINE seen == {v \in Ids : pictures.ok /\ SeenAs(v, p, caps) >= 100}
           last == [v \in Ids |-> IF v \in seen THEN KeyOf(v, p) ELSE pictures.last[v]]
<1>1. pictures' = [ok |-> pictures.ok, last |-> last, seen |-> seen]
  BY DEF DrawPictures, StageTypes
<1>2. pictures'.ok = pictures.ok /\ pictures'.seen = seen /\ pictures'.last = last
  BY <1>1
<1>3. QED
  BY <1>1, <1>2 DEF PicturesOf, StageTypes

LEMMA TickKeeps == ASSUME StageInv, Tick PROVE StageInv'
<1> USE DEF StageInv
<1>1. StageTypes /\ DrawnFor /\ HeroDrawn /\ UNCHANGED <<scroll, phone, settling, scrolled>> /\ stale' = FALSE
  BY DEF Tick
<1>2. CASE HeroFrame
  <2> DEFINE k == IF heroMode THEN beat ELSE 0
             scene == IF k # lastK THEN <<"hero", k>> ELSE onPage.scene
  <2>0. k \in {0, 1} /\ 0 \in 0..1 /\ 1 \in 0..1
    BY <1>1 DEF StageTypes
  <2>1. /\ k \in 0..1 /\ k # NeverDrawn /\ scene = <<"hero", k>>
        /\ heroMode' = TRUE /\ beat' = k /\ lastK' = k /\ lastP' = 0 /\ scroll < 40
    BY <1>1, <1>2 DEF HeroFrame, StageTypes, HeroDrawn, NeverDrawn
  <2> HIDE DEF k, scene
  <2>2. CASE lastP # 0
    <3>1. DrawPictures(0, 0) /\ onPage' = [scene |-> scene, step |-> Hero, opacity |-> Opacity(0, phone)]
      BY <1>2, <2>2 DEF HeroFrame, k, scene
    <3>2. /\ onPage'.scene = scene /\ onPage'.step = Hero /\ onPage'.opacity = Opacity(0, phone)
          /\ onPage' = [scene |-> onPage'.scene, step |-> onPage'.step, opacity |-> onPage'.opacity]
      BY <3>1
    <3>3. /\ PicturesOf(0, 0)' /\ pictures' = [ok |-> pictures.ok, last |-> pictures'.last, seen |-> pictures'.seen]
          /\ pictures'.ok \in BOOLEAN /\ pictures'.seen \subseteq Ids /\ DOMAIN pictures'.last = Ids
      BY <1>1, <3>1, DrawnPictures
    <3>4. StageTypes'
      <4>1. /\ scroll' \in 0..FullStage /\ lastP' \in {NeverDrawn} \cup 0..FullStage /\ lastK' \in {NeverDrawn, 0, 1}
          /\ beat' \in 0..1 /\ heroMode' \in BOOLEAN /\ phone' \in BOOLEAN /\ settling' \in BOOLEAN /\ stale' \in BOOLEAN
          /\ scrolled' \in 0..MaxScrolls
        BY <1>1, <2>0, <2>1, StageIsWide DEF StageTypes
      <4>2. QED
        BY <1>1, <3>1, <3>2, <3>3, <4>1 DEF StageTypes
    <3>5. DrawnFor' /\ HeroDrawn' /\ UpToDate'
      BY <1>1, <2>1, <3>2, <3>3 DEF DrawnFor, HeroDrawn, UpToDate, NeverDrawn
    <3>6. QED
      BY <3>4, <3>5
  <2>3. CASE lastP = 0
    <3>1. pictures' = pictures /\ onPage' = [onPage EXCEPT !.scene = scene]
      BY <1>2, <2>3 DEF HeroFrame, k, scene
    <3>2. onPage' = [scene |-> scene, step |-> onPage.step, opacity |-> onPage.opacity]
      BY <1>1, <3>1 DEF StageTypes
    <3>3. /\ onPage'.scene = scene /\ onPage'.step = onPage.step /\ onPage'.opacity = onPage.opacity
          /\ onPage' = [scene |-> onPage'.scene, step |-> onPage'.step, opacity |-> onPage'.opacity]
      BY <3>2
    <3>4. StageTypes'
      <4>1. /\ scroll' \in 0..FullStage /\ lastP' \in {NeverDrawn} \cup 0..FullStage /\ lastK' \in {NeverDrawn, 0, 1}
          /\ beat' \in 0..1 /\ heroMode' \in BOOLEAN /\ phone' \in BOOLEAN /\ settling' \in BOOLEAN /\ stale' \in BOOLEAN
          /\ scrolled' \in 0..MaxScrolls
        BY <1>1, <2>0, <2>1, StageIsWide DEF StageTypes
      <4>2. QED
        BY <1>1, <3>1, <3>2, <3>3, <4>1 DEF StageTypes
    <3>5. DrawnFor' /\ HeroDrawn' /\ UpToDate'
      BY <1>1, <2>1, <2>3, <3>1, <3>3 DEF DrawnFor, HeroDrawn, UpToDate, NeverDrawn, PicturesOf
    <3>6. QED
      BY <3>4, <3>5
  <2>4. QED
    BY <2>2, <2>3
<1>3. CASE FlowFrames
  <2>1. scroll >= 40 /\ beat' = beat /\ scroll \in 0..FullStage /\ lastP \in {NeverDrawn} \cup 0..FullStage
    BY <1>1, <1>3 DEF FlowFrames, StageTypes
  <2>2. CASE ~Redraws
    <3>1. UNCHANGED <<heroMode, lastK, lastP, onPage, pictures>>
      BY <1>3, <2>2 DEF FlowFrames
    <3>2. ~heroMode /\ scroll - lastP <= 3 /\ lastP - scroll <= 3
      BY <2>1, <2>2 DEF Redraws, NeverDrawn
    <3>3. lastP # NeverDrawn
      BY <2>1, <3>2 DEF NeverDrawn
    <3>4. QED
      <4>1. StageTypes' /\ DrawnFor' /\ HeroDrawn'
        BY <1>1, <2>1, <3>1 DEF StageTypes, DrawnFor, HeroDrawn, PicturesOf, CapsAt
      <4>2. UpToDate'
        BY <1>1, <2>1, <3>1, <3>2, <3>3 DEF UpToDate
      <4>3. QED
        BY <4>1, <4>2
  <2>3. CASE Redraws
    <3>1. /\ heroMode' = FALSE /\ lastK' = NeverDrawn /\ lastP' = scroll
          /\ onPage' = [scene |-> FlowFrame(scroll), step |-> StepOf(scroll), opacity |-> Opacity(scroll, phone)]
          /\ DrawPictures(scroll, CapsAt(scroll))
      BY <1>3, <2>3 DEF FlowFrames, CapsAt
    <3>2. /\ onPage'.scene = FlowFrame(scroll) /\ onPage'.step = StepOf(scroll) /\ onPage'.opacity = Opacity(scroll, phone)
          /\ onPage' = [scene |-> onPage'.scene, step |-> onPage'.step, opacity |-> onPage'.opacity]
      BY <3>1
    <3>3. PICK caps : caps = CapsAt(scroll)
      OBVIOUS
    <3>4. PICK p : p = scroll
      OBVIOUS
    <3>5. /\ PicturesOf(p, caps)' /\ pictures' = [ok |-> pictures.ok, last |-> pictures'.last, seen |-> pictures'.seen]
          /\ pictures'.ok \in BOOLEAN /\ pictures'.seen \subseteq Ids /\ DOMAIN pictures'.last = Ids
      BY <1>1, <3>1, <3>3, <3>4, DrawnPictures
    <3>6. PicturesOf(lastP, CapsAt(lastP))'
      BY <1>1, <3>1, <3>3, <3>4, <3>5 DEF PicturesOf, CapsAt
    <3>7. StageTypes'
      <4>1. /\ scroll' \in 0..FullStage /\ lastP' \in {NeverDrawn} \cup 0..FullStage /\ lastK' \in {NeverDrawn, 0, 1}
          /\ beat' \in 0..1 /\ heroMode' \in BOOLEAN /\ phone' \in BOOLEAN /\ settling' \in BOOLEAN /\ stale' \in BOOLEAN
          /\ scrolled' \in 0..MaxScrolls
        BY <1>1, <2>1, <3>1, StageIsWide DEF StageTypes
      <4>2. QED
        BY <3>2, <3>5, <4>1, StepsThere DEF StageTypes
    <3>8. DrawnFor' /\ HeroDrawn' /\ UpToDate'
      BY <1>1, <2>1, <3>1, <3>6 DEF DrawnFor, HeroDrawn, UpToDate, NeverDrawn
    <3>9. QED
      BY <3>7, <3>8
  <2>4. QED
    BY <2>2, <2>3
<1>4. QED
  BY <1>2, <1>3 DEF Tick

LEMMA MovesOnStage ==
  ASSUME StageInv, Beat \/ (\E p \in 0..FullStage : Scroll(p)) \/ Resize
  PROVE  StageInv'
<1>1. /\ StageTypes' /\ DrawnFor' /\ HeroDrawn'
      /\ stale' \/ settling'
  <2>1. CASE Beat
    BY <2>1, StageAssumption DEF Beat, StageInv, StageTypes, DrawnFor, HeroDrawn, PicturesOf, CapsAt
  <2>2. CASE \E p \in 0..FullStage : Scroll(p)
    BY <2>2, StageAssumption DEF Scroll, StageInv, StageTypes, DrawnFor, HeroDrawn, PicturesOf, CapsAt
  <2>3. CASE Resize
    BY <2>3, StageAssumption DEF Resize, StageInv, StageTypes, DrawnFor, HeroDrawn, PicturesOf, CapsAt
  <2>4. QED
    BY <2>1, <2>2, <2>3
<1>2. QED
  BY <1>1 DEF StageInv, UpToDate

LEMMA RelayoutKeeps ==
  ASSUME StageInv, NEW narrow \in BOOLEAN, NEW fits \in BOOLEAN, Relayout(narrow, fits)
  PROVE  StageInv'
<1>1. /\ StageTypes /\ lastP' = NeverDrawn /\ lastK' = NeverDrawn /\ phone' = narrow /\ settling' = FALSE /\ stale' = TRUE
      /\ UNCHANGED <<scroll, heroMode, beat, onPage, scrolled>>
  BY DEF Relayout, Sized, StageInv
<1>2. CASE narrow \/ ~fits
  <2>1. pictures' = [ok |-> FALSE, last |-> pictures.last, seen |-> {}]
    BY <1>1, <1>2 DEF Relayout, StageTypes
  <2>2. QED
    BY <1>1, <2>1 DEF StageInv, StageTypes, DrawnFor, HeroDrawn, UpToDate
<1>3. CASE ~(narrow \/ ~fits)
  <2>1. pictures' = [ok |-> TRUE, last |-> [v \in Ids |-> Undrawn], seen |-> pictures.seen]
    BY <1>1, <1>3 DEF Relayout, StageTypes
  <2>2. QED
    BY <1>1, <2>1 DEF StageInv, StageTypes, DrawnFor, HeroDrawn, UpToDate
<1>4. QED
  BY <1>2, <1>3

LEMMA StageStarts == StageInit => StageInv
<1> SUFFICES ASSUME StageInit PROVE StageInv
  OBVIOUS
<1>1. PICK fits \in BOOLEAN : pictures = [ok |-> ~phone /\ fits, last |-> [v \in Ids |-> Undrawn], seen |-> {}]
  BY DEF StageInit
<1>2. /\ onPage = [scene |-> <<"nothing">>, step |-> Hero, opacity |-> Opacity(0, phone)] /\ phone \in BOOLEAN
      /\ scroll \in 0..FullStage /\ lastP = NeverDrawn /\ lastK = NeverDrawn /\ heroMode = TRUE /\ beat = 0
      /\ settling = FALSE /\ stale = TRUE /\ scrolled = 0 /\ MaxScrolls \in Nat
  BY StageAssumption DEF StageInit
<1>3. /\ onPage = [scene |-> onPage.scene, step |-> onPage.step, opacity |-> onPage.opacity] /\ onPage.step = Hero
      /\ pictures = [ok |-> pictures.ok, last |-> pictures.last, seen |-> pictures.seen]
      /\ pictures.ok \in BOOLEAN /\ pictures.seen = {} /\ DOMAIN pictures.last = Ids
  BY <1>1, <1>2
<1>4. QED
  <2>1. StageTypes
    <3>1. 0 \in 0..MaxScrolls /\ 0 \in 0..1
      BY <1>2
    <3>2. QED
      BY <1>2, <1>3, <3>1, StageIsWide DEF StageTypes
  <2>2. DrawnFor /\ HeroDrawn /\ UpToDate
    BY <1>2 DEF DrawnFor, HeroDrawn, UpToDate
  <2>3. QED
    BY <2>1, <2>2 DEF StageInv

LEMMA StageStays == StageInv /\ [StageStep]_stageVars => StageInv'
<1> SUFFICES ASSUME StageInv, [StageStep]_stageVars PROVE StageInv'
  OBVIOUS
<1>1. CASE Tick
  BY <1>1, TickKeeps
<1>2. CASE Beat \/ (\E p \in Scrolls : Scroll(p)) \/ (\E i \in 1..4 : ClickStep(i)) \/ Resize
  BY <1>2, MovesOnStage, GoalsOnStage, StageAssumption DEF ClickStep
<1>3. CASE \E narrow, fits \in BOOLEAN : Relayout(narrow, fits)
  BY <1>3, RelayoutKeeps
<1>4. CASE UNCHANGED stageVars
  BY <1>4 DEF stageVars, StageInv, StageTypes, DrawnFor, HeroDrawn, UpToDate, PicturesOf, CapsAt
<1>5. QED
  BY <1>1, <1>2, <1>3, <1>4 DEF StageStep

(* The invariant that carries the stage's results: what is on the page is the    *)
(* frame of the scroll it was last drawn for.                                 *)
THEOREM StageInvHolds == StageSpec => []StageInv
<1>1. QED
  BY StageStarts, StageStays, PTL DEF StageSpec

(* The stage's scroll, its frames and its pictures are well typed.             *)
THEOREM StageTypeCorrect == StageSpec => []StageTypeOK
<1>1. StageInv => StageTypeOK
  BY DEF StageInv, StageTypes, StageTypeOK
<1>2. QED
  BY <1>1, StageInvHolds, PTL

(* Scrolling back runs the stage back, for any places to stop and any number of  *)
(* scrolls, frames and relayouts: what is on the page is what a page opened there *)
(* would show, and at no scroll is an output before its command.               *)
THEOREM StageFollowsScrollHolds == StageSpec => []StageFollowsScroll
<1>1. ASSUME StageInv PROVE StageFollowsScroll
  <2>1. /\ StageTypes /\ DrawnFor /\ HeroDrawn /\ UpToDate
        /\ scroll \in 0..FullStage /\ lastP \in {NeverDrawn} \cup 0..FullStage
        /\ scroll \in Nat
    <3>1. StageTypes /\ DrawnFor /\ HeroDrawn /\ UpToDate
      BY <1>1 DEF StageInv
    <3>2. scroll \in 0..FullStage /\ lastP \in {NeverDrawn} \cup 0..FullStage
      BY <3>1 DEF StageTypes
    <3>3. QED
      BY <3>1, <3>2, StageIsWide
  <2>2. ASSUME ~stale, ~settling
        PROVE  \E p \in scroll - 3..scroll + 3 :
                 /\ p >= 0 /\ (p < 40) = (scroll < 40) /\ onPage = OpenedAt(p)
                 /\ \A v \in Ids : (pictures.ok /\ SeenAs(v, p, IF phone \/ p < 40 THEN 0 ELSE onPage.opacity.caps) >= 100) =>
                      v \in pictures.seen /\ pictures.last[v] = KeyOf(v, p)
    <3>1. CASE scroll < 40
      <4>1. heroMode /\ lastP = 0 /\ lastK = beat /\ lastP # NeverDrawn /\ lastK # NeverDrawn
        BY <2>1, <2>2, <3>1 DEF UpToDate, StageTypes, NeverDrawn
      <4>2. onPage = OpenedAt(scroll)
        BY <2>1, <3>1, <4>1 DEF DrawnFor, HeroDrawn, StageTypes, OpenedAt, SetStep
      <4>3. \A v \in Ids : ~(SeenAs(v, scroll, 0) >= 100)
        BY <2>1, NothingSeenWithoutCaptions
      <4>4. scroll \in scroll - 3..scroll + 3 /\ scroll >= 0
        BY <2>1
      <4>5. QED
        BY <3>1, <4>2, <4>3, <4>4
    <3>2. CASE ~(scroll < 40)
      <4>1. ~heroMode /\ lastP # NeverDrawn /\ scroll - lastP <= 3 /\ lastP - scroll <= 3
        BY <2>1, <2>2, <3>2 DEF UpToDate
      <4>2. /\ lastP >= 40 /\ PicturesOf(lastP, CapsAt(lastP))
            /\ onPage = [scene |-> FlowFrame(lastP), step |-> StepOf(lastP), opacity |-> Opacity(lastP, phone)]
        BY <2>1, <4>1 DEF DrawnFor
      <4>3. lastP \in scroll - 3..scroll + 3 /\ lastP >= 0 /\ ~(lastP < 40) /\ lastP \in 0..FullStage
        BY <2>1, <4>1, <4>2
      <4>4. onPage = OpenedAt(lastP) /\ onPage.opacity.caps = Opacity(lastP, phone).caps
        BY <4>2, <4>3 DEF OpenedAt, SetStep
      <4>5. \A v \in Ids : (pictures.ok /\ SeenAs(v, lastP, IF phone \/ lastP < 40 THEN 0 ELSE onPage.opacity.caps) >= 100) =>
                           v \in pictures.seen /\ pictures.last[v] = KeyOf(v, lastP)
        BY <4>2, <4>3, <4>4 DEF PicturesOf, CapsAt
      <4>6. QED
        BY <3>2, <4>3, <4>4, <4>5
    <3>3. QED
      BY <3>1, <3>2
  <2>3. QED
    BY <2>1, <2>2, NothingTooEarly, GoalsOnStage DEF StageFollowsScroll
<1>2. QED
  BY <1>1, StageInvHolds, PTL

-----------------------------------------------------------------------------
(* The pulses that walk on.  Their sequence is defined by recursion: that there *)
(* is a function with these equations, and what its values are, is shown from    *)
(* the least index at which it would fail.                                    *)

Pulse  == [head : Nat, route : Routes, on : 0..1]
Labels == {"copy", "done", "select"}

LeftBy(f, ps, n) ==
  f = [i \in 0..n |-> IF i = 0 THEN <<>> ELSE IF Gone(ps[i]) THEN f[i - 1] ELSE Append(f[i - 1], ps[i])]

LEMMA LeftExists ==
  ASSUME NEW ps, NEW n \in Nat
  PROVE  \E f : LeftBy(f, ps, n)
<1> DEFINE Bad == {m \in Nat : ~\E f : LeftBy(f, ps, m)}
<1>1. SUFFICES ASSUME Bad # {} PROVE FALSE
  OBVIOUS
<1>2. PICK m \in Bad : \A k \in Bad : m <= k
  <2>1. Bad \in SUBSET Nat
    OBVIOUS
  <2> HIDE DEF Bad
  <2>2. QED
    BY <1>1, <2>1, LeastOne
<1>3. m \in Nat /\ ~\E f : LeftBy(f, ps, m)
  BY <1>2
<1>4. CASE m = 0
  <2> DEFINE f == [i \in 0..0 |-> <<>>]
  <2>1. LeftBy(f, ps, 0)
    BY DEF LeftBy
  <2>2. QED
    BY <1>3, <1>4, <2>1
<1>5. CASE m # 0
  <2>1. m - 1 \in Nat /\ m - 1 \notin Bad
    BY <1>2, <1>3, <1>5
  <2>2. PICK g : LeftBy(g, ps, m - 1)
    BY <2>1
  <2> DEFINE f == [i \in 0..m |-> IF i = m THEN (IF Gone(ps[m]) THEN g[m - 1] ELSE Append(g[m - 1], ps[m])) ELSE g[i]]
  <2>3. \A i \in 0..m : f[i] = IF i = 0 THEN <<>> ELSE IF Gone(ps[i]) THEN f[i - 1] ELSE Append(f[i - 1], ps[i])
    <3> TAKE i \in 0..m
    <3>1. CASE i = m
      <4>1. f[m - 1] = g[m - 1] /\ f[m] = IF Gone(ps[m]) THEN g[m - 1] ELSE Append(g[m - 1], ps[m])
        BY <1>3, <1>5
      <4>2. QED
        BY <1>5, <3>1, <4>1
    <3>2. CASE i # m
      <4>1. i \in 0..(m - 1) /\ f[i] = g[i] /\ (i # 0 => f[i - 1] = g[i - 1])
        BY <1>3, <3>2
      <4>2. g[i] = IF i = 0 THEN <<>> ELSE IF Gone(ps[i]) THEN g[i - 1] ELSE Append(g[i - 1], ps[i])
        BY <2>2, <4>1 DEF LeftBy
      <4>3. QED
        BY <4>1, <4>2
    <3>3. QED
      BY <3>1, <3>2
  <2>4. f = [i \in 0..m |-> f[i]]
    OBVIOUS
  <2> HIDE DEF f
  <2>5. LeftBy(f, ps, m)
    BY <2>3, <2>4 DEF LeftBy
  <2>6. QED
    BY <1>3, <2>5
<1>6. QED
  BY <1>4, <1>5

\* What is left are pulses that are not gone, and no more than there were.
LeftOf(s, ps, n) ==
  /\ s \in Seq(Pulse) /\ Len(s) <= n
  /\ \A j \in DOMAIN s : ~Gone(s[j]) /\ \E k \in DOMAIN ps : s[j] = ps[k]

LEMMA LeftIsWalking ==
  ASSUME NEW ps \in Seq(Pulse), NEW f, LeftBy(f, ps, Len(ps))
  PROVE  \A n \in 0..Len(ps) : LeftOf(f[n], ps, n)
<1> DEFINE Bad == {n \in 0..Len(ps) : ~LeftOf(f[n], ps, n)}
<1>0. Len(ps) \in Nat /\ DOMAIN ps = 1..Len(ps) /\ \A i \in DOMAIN ps : ps[i] \in Pulse
  BY LenProperties, ElementOfSeq
<1>1. SUFFICES ASSUME Bad # {} PROVE FALSE
  OBVIOUS
<1>2. PICK m \in Bad : \A k \in Bad : m <= k
  <2>1. Bad \in SUBSET Nat
    BY <1>0
  <2> HIDE DEF Bad
  <2>2. QED
    BY <1>1, <2>1, LeastOne
<1>3. m \in 0..Len(ps) /\ ~LeftOf(f[m], ps, m)
  BY <1>2
<1>4. f[m] = IF m = 0 THEN <<>> ELSE IF Gone(ps[m]) THEN f[m - 1] ELSE Append(f[m - 1], ps[m])
  BY <1>3 DEF LeftBy
<1>5. CASE m = 0
  <2>1. f[m] = <<>>
    BY <1>4, <1>5
  <2>2. <<>> \in Seq(Pulse) /\ Len(<<>>) = 0 /\ DOMAIN <<>> = {}
    BY EmptySeq
  <2>3. LeftOf(f[m], ps, m)
    BY <1>5, <2>1, <2>2 DEF LeftOf
  <2>4. QED
    BY <1>3, <2>3
<1>6. CASE m # 0
  <2>1. m - 1 \in 0..Len(ps) /\ m \in 1..Len(ps) /\ m - 1 \notin Bad
    BY <1>0, <1>2, <1>3, <1>6
  <2>2. LeftOf(f[m - 1], ps, m - 1)
    BY <2>1
  <2>3. CASE Gone(ps[m])
    <3>1. f[m] = f[m - 1]
      BY <1>4, <1>6, <2>3
    <3>2. Len(f[m]) \in Nat
      BY <2>2, <3>1, LenProperties DEF LeftOf
    <3>3. LeftOf(f[m], ps, m)
      BY <1>0, <2>1, <2>2, <3>1, <3>2 DEF LeftOf
    <3>4. QED
      BY <1>3, <3>3
  <2>4. CASE ~Gone(ps[m])
    <3>1. PICK s : s = f[m - 1]
      OBVIOUS
    <3>2. f[m] = Append(s, ps[m]) /\ s \in Seq(Pulse) /\ ps[m] \in Pulse /\ LeftOf(s, ps, m - 1)
      BY <1>0, <1>4, <1>6, <2>1, <2>2, <2>4, <3>1 DEF LeftOf
    <3>3. /\ f[m] \in Seq(Pulse) /\ Len(f[m]) = Len(s) + 1 /\ Len(s) \in Nat
          /\ \A j \in 1..Len(s) : f[m][j] = s[j]
          /\ f[m][Len(s) + 1] = ps[m]
          /\ DOMAIN f[m] = 1..Len(f[m]) /\ DOMAIN s = 1..Len(s)
      BY <3>2, AppendProperties, LenProperties
    <3>4. \A j \in DOMAIN f[m] : ~Gone(f[m][j]) /\ \E k \in DOMAIN ps : f[m][j] = ps[k]
      <4> TAKE j \in DOMAIN f[m]
      <4>1. CASE j \in 1..Len(s)
        BY <3>2, <3>3, <4>1 DEF LeftOf
      <4>2. CASE j = Len(s) + 1
        BY <1>0, <2>1, <2>4, <3>3, <4>2
      <4>3. QED
        BY <3>3, <4>1, <4>2
    <3>5. LeftOf(f[m], ps, m)
      BY <1>0, <2>1, <3>2, <3>3, <3>4 DEF LeftOf
    <3>6. QED
      BY <1>3, <3>5
  <2>5. QED
    BY <2>3, <2>4
<1>7. QED
  BY <1>5, <1>6

LEMMA WalkingProperties ==
  ASSUME NEW ps \in Seq(Pulse)
  PROVE  LeftOf(Walking(ps), ps, Len(ps))
<1> DEFINE left == CHOOSE f : LeftBy(f, ps, Len(ps))
<1>1. Len(ps) \in Nat
  BY LenProperties
<1>2. LeftBy(left, ps, Len(ps))
  BY <1>1, LeftExists
<1>3. Walking(ps) = left[Len(ps)]
  BY DEF Walking, LeftBy
<1> HIDE DEF left
<1>4. QED
  BY <1>1, <1>2, <1>3, LeftIsWalking

-----------------------------------------------------------------------------
(* The home page's board *)

Copies == [label : Labels, done : BOOLEAN, asked : Nat, later : Seq(Labels)]
Sides  == [k : 0..2, at : 0..2, played : BOOLEAN, playing : BOOLEAN, room : BOOLEAN, painted : Nat]
HomeTypes ==
  /\ lever \in [Levers -> 0..3] /\ goal \in [Levers -> {0, 3, NoGoal}]
  /\ btn \subseteq Knobs /\ focused \in Knobs \cup {NoKnob} /\ spaceHeld \in BOOLEAN /\ fingerHeld \in BOOLEAN
  /\ pulses \in Seq(Pulse) /\ looping \in BOOLEAN /\ layer \in 0..1 /\ branch \in BOOLEAN
  /\ unseen \subseteq {"a", "b", "curve"} /\ hot \subseteq Chips
  /\ copies \in Copies /\ side \in Sides /\ calm \in [now : BOOLEAN, atFirst : BOOLEAN]
  /\ touches \in 0..MaxTouches
\* What is shown is what the levers and the buttons say.
BoardShows == sw = Contacts(lever) /\ aria = sw /\ drawn = Picture(lever, sw, btn)
\* A lever between its ends has an end to go to, and a goal is somewhere else.
LeversMove ==
  \A i \in Levers : /\ lever[i] \in {1, 2} => goal[i] \in {0, 3}
                    /\ goal[i] # NoGoal => lever[i] # goal[i]
\* A pulse walks the trace that is there, and a branch that will be seen is there.
OnTheTrace(p, l, b) == p.on = l /\ (p.route = "branch" => b) /\ ~Gone(p)
TraceLives ==
  /\ Len(pulses) <= 4 /\ (pulses # <<>> => looping) /\ \A i \in DOMAIN pulses : OnTheTrace(pulses[i], layer, branch)
  /\ "curve" \in unseen => branch
CopyWaits == copies.later = <<>> => ~copies.done
SidePlays ==
  /\ side.room => side.painted = side.k
  /\ side.playing => side.played
  /\ (side.played /\ ~side.playing) => side.k = 2
HomeInv == HomeTypes /\ BoardShows /\ LeversMove /\ TraceLives /\ CopyWaits /\ SidePlays

\* What a trace may do while it is not drawn anew: walk, or take one more pulse.
TraceSame == UNCHANGED <<pulses, looping, layer, branch>>

LEMMA PulseIsSent ==
  ASSUME HomeTypes, TraceLives, NEW from \in 0..1, NEW route \in Routes, route = "branch" => branch,
         SendPulse(from, route), UNCHANGED <<layer, branch>>, unseen' \subseteq unseen
  PROVE  pulses' \in Seq(Pulse) /\ looping' \in BOOLEAN /\ TraceLives'
<1>1. /\ pulses \in Seq(Pulse) /\ looping \in BOOLEAN /\ layer \in 0..1
      /\ Len(pulses) \in Nat /\ Len(pulses) <= 4 /\ DOMAIN pulses = 1..Len(pulses)
  BY LenProperties DEF HomeTypes, TraceLives
<1>2. looping' = (looping \/ pulses' # pulses)
  BY DEF SendPulse
<1>3. CASE pulses' = pulses
  BY <1>1, <1>2, <1>3 DEF TraceLives, OnTheTrace
<1>4. CASE pulses' # pulses
  <2> DEFINE new == [head |-> from, route |-> route, on |-> layer]
  <2>1. pulses' = Append(pulses, new) /\ Len(pulses) <= 3
    <3>1. pulses' = IF calm.now \/ Len(pulses) > 3 THEN pulses ELSE Append(pulses, new)
      BY DEF SendPulse, WithPulse
    <3>2. ~(calm.now \/ Len(pulses) > 3)
      BY <1>4, <3>1
    <3>3. QED
      BY <1>1, <3>1, <3>2
  <2>2. new \in Pulse
    BY <1>1 DEF Pulse
  <2>3. ~Gone(new)
    BY HomeBoardAssumption DEF Gone
  <2>4. OnTheTrace(new, layer', branch')
    BY <2>3 DEF OnTheTrace, Gone
  <2> HIDE DEF new
  <2>5. /\ pulses' \in Seq(Pulse) /\ Len(pulses') = Len(pulses) + 1
        /\ \A i \in 1..Len(pulses) : pulses'[i] = pulses[i]
        /\ pulses'[Len(pulses) + 1] = new
        /\ DOMAIN pulses' = 1..Len(pulses')
    BY <1>1, <2>1, <2>2, AppendProperties, LenProperties
  <2>6. \A i \in DOMAIN pulses' : OnTheTrace(pulses'[i], layer', branch')
    <3> SUFFICES ASSUME NEW i \in DOMAIN pulses' PROVE OnTheTrace(pulses'[i], layer', branch')
      OBVIOUS
    <3>1. CASE i \in 1..Len(pulses)
      BY <1>1, <2>5, <3>1 DEF TraceLives, OnTheTrace
    <3>2. CASE i = Len(pulses) + 1
      BY <2>4, <2>5, <3>2 DEF OnTheTrace
    <3>3. QED
      BY <1>1, <2>5, <3>1, <3>2
  <2>7. looping' = TRUE
    BY <1>2, <1>4
  <2>8. QED
    BY <1>1, <2>1, <2>5, <2>6, <2>7 DEF TraceLives
<1>5. QED
  BY <1>3, <1>4

LEMMA PulsesWalk ==
  ASSUME HomeTypes, TraceLives, NEW d \in Nat, PulseFrame(d)
  PROVE  pulses' \in Seq(Pulse) /\ looping' \in BOOLEAN /\ hot' \subseteq Chips /\ TraceLives'
<1> DEFINE moved == [i \in DOMAIN pulses |-> Walked(pulses[i], d)]
<1>1. /\ pulses \in Seq(Pulse) /\ Len(pulses) \in Nat /\ Len(pulses) <= 4 /\ DOMAIN pulses = 1..Len(pulses)
      /\ \A i \in 1..Len(pulses) : pulses[i] \in Pulse
  BY LenProperties, ElementOfSeq DEF HomeTypes, TraceLives
<1>2. \A i \in 1..Len(pulses) : /\ Walked(pulses[i], d) \in Pulse
                                /\ Walked(pulses[i], d).route = pulses[i].route
                                /\ Walked(pulses[i], d).on = pulses[i].on
  BY <1>1 DEF Walked, Pulse
<1>3. moved \in Seq(Pulse) /\ Len(moved) = Len(pulses) /\ DOMAIN moved = 1..Len(pulses)
  <2>1. moved \in [1..Len(pulses) -> Pulse]
    BY <1>1, <1>2
  <2> HIDE DEF moved
  <2>2. moved \in Seq(Pulse)
    BY <1>1, <2>1, SeqDef
  <2>3. DOMAIN moved = 1..Len(pulses) /\ DOMAIN moved = 1..Len(moved) /\ Len(moved) \in Nat
    BY <2>1, <2>2, LenProperties
  <2>4. QED
    BY <1>1, <2>2, <2>3
<1>4. \A i \in DOMAIN moved : moved[i].route = pulses[i].route /\ moved[i].on = pulses[i].on
  BY <1>1, <1>2
<1>5. pulses' = Walking(moved) /\ looping' = (pulses' # <<>>) /\ UNCHANGED <<layer, branch, unseen>>
  BY DEF PulseFrame
<1>6. hot' \subseteq Chips
  BY DEF PulseFrame, HitBy, HomeTypes
<1> HIDE DEF moved
<1>7. LeftOf(pulses', moved, Len(moved))
  BY <1>3, <1>5, WalkingProperties
<1>8. \A i \in DOMAIN pulses' : OnTheTrace(pulses'[i], layer', branch')
  <2> SUFFICES ASSUME NEW i \in DOMAIN pulses' PROVE OnTheTrace(pulses'[i], layer', branch')
    OBVIOUS
  <2>1. PICK k \in DOMAIN moved : pulses'[i] = moved[k] /\ ~Gone(pulses'[i])
    BY <1>7 DEF LeftOf
  <2>2. OnTheTrace(pulses[k], layer, branch)
    BY <1>1, <1>3 DEF TraceLives
  <2>3. pulses'[i].route = pulses[k].route /\ pulses'[i].on = pulses[k].on
    BY <1>4, <2>1
  <2>4. QED
    BY <1>5, <2>1, <2>2, <2>3 DEF OnTheTrace, Gone
<1>9. pulses' \in Seq(Pulse) /\ Len(pulses') <= 4 /\ looping' \in BOOLEAN
  <2>1. Len(pulses') \in Nat
    BY <1>7, LenProperties DEF LeftOf
  <2>2. QED
    BY <1>1, <1>3, <1>5, <1>7, <2>1 DEF LeftOf
<1>10. QED
  BY <1>5, <1>6, <1>8, <1>9 DEF TraceLives

LEMMA RoutedAnew ==
  ASSUME HomeTypes, NEW wide \in BOOLEAN, Build(wide), UNCHANGED looping
  PROVE  /\ pulses' \in Seq(Pulse) /\ layer' \in 0..1 /\ branch' \in BOOLEAN /\ hot' = {}
         /\ unseen' \subseteq {"a", "b", "curve"} /\ TraceLives'
<1>1. pulses' = <<>> /\ layer' = (layer + 1) % 2 /\ branch' = wide /\ hot' = {}
  BY DEF Build, Routed
<1>2. unseen' \subseteq {"a", "b", "curve"} /\ ("curve" \in unseen' => wide)
  BY DEF Build, Routed
<1>3. <<>> \in Seq(Pulse) /\ Len(<<>>) = 0 /\ DOMAIN <<>> = {}
  BY EmptySeq
<1>4. QED
  BY <1>1, <1>2, <1>3 DEF TraceLives, HomeTypes

-----------------------------------------------------------------------------
(* The steps *)

LEMMA LeverMoves ==
  ASSUME HomeTypes, LeversMove, NEW i \in Levers, NEW at \in 0..3, NEW g \in {0, 3, NoGoal},
         lever' = [lever EXCEPT ![i] = at], goal' = [goal EXCEPT ![i] = g],
         at \in {1, 2} => g \in {0, 3}, g # NoGoal => at # g
  PROVE  lever' \in [Levers -> 0..3] /\ goal' \in [Levers -> {0, 3, NoGoal}] /\ LeversMove'
BY DEF HomeTypes, LeversMove

LEMMA FlipKeeps ==
  ASSUME HomeInv, NEW i \in Levers, Touch, Flip(i)
  PROVE  HomeInv'
<1>1. HomeTypes /\ BoardShows /\ LeversMove /\ TraceLives /\ CopyWaits /\ SidePlays
  BY DEF HomeInv
<1>2. /\ focused' = NoKnob /\ (btn' = btn \/ btn' = {}) /\ (fingerHeld' = fingerHeld \/ fingerHeld' = FALSE)
      /\ UNCHANGED <<spaceHeld, layer, branch, unseen, hot, copies, side, calm>>
      /\ touches' \in 0..MaxTouches
  BY <1>1, HomeBoardAssumption DEF Flip, Touch, HomeTypes
<1>3. PICK at \in 0..3, g \in {0, 3, NoGoal} :
        /\ Moved(i, at) /\ goal' = [goal EXCEPT ![i] = g]
        /\ at \in {1, 2} => g \in {0, 3}
        /\ g # NoGoal => at # g
  <2> DEFINE to == IF lever[i] >= 2 THEN 0 ELSE 3
  <2>1. lever[i] \in 0..3 /\ to \in {0, 3} /\ NoGoal = 9
    BY <1>1 DEF HomeTypes, NoGoal
  <2>2. CASE calm.now
    <3>1. Moved(i, to) /\ goal' = [goal EXCEPT ![i] = NoGoal]
      BY <2>2 DEF Flip
    <3>2. QED
      BY <2>1, <3>1
  <2>3. CASE ~calm.now
    <3>1. Moved(i, OneRow(lever[i], to)) /\ goal' = [goal EXCEPT ![i] = to]
      BY <2>3 DEF Flip
    <3>2. OneRow(lever[i], to) \in {1, 2}
      BY <2>1 DEF OneRow
    <3> DEFINE at == OneRow(lever[i], to)
    <3>3. at \in 0..3 /\ to \in {0, 3, NoGoal} /\ to \in {0, 3} /\ at # to
      BY <2>1, <3>2
    <3>4. Moved(i, at) /\ goal' = [goal EXCEPT ![i] = to]
      BY <3>1
    <3> HIDE DEF to, at
    <3>5. QED
      BY <3>3, <3>4
  <2>4. QED
    BY <2>2, <2>3
<1>4. lever' = [lever EXCEPT ![i] = at] /\ BoardShows'
  BY <1>3 DEF Moved, Draw, BoardShows
<1>5. lever' \in [Levers -> 0..3] /\ goal' \in [Levers -> {0, 3, NoGoal}] /\ LeversMove'
  BY <1>1, <1>3, <1>4, LeverMoves
<1>6. pulses' \in Seq(Pulse) /\ looping' \in BOOLEAN /\ TraceLives'
  <2>1. CASE SendPulse(0, "trace")
    BY <1>1, <1>2, <2>1, PulseIsSent DEF Routes
  <2>2. CASE UNCHANGED <<pulses, looping>>
    BY <1>1, <1>2, <2>2 DEF TraceLives, OnTheTrace, HomeTypes
  <2>3. QED
    BY <1>3, <2>1, <2>2 DEF Moved
<1>7. HomeTypes'
  BY <1>1, <1>2, <1>5, <1>6 DEF HomeTypes
<1>8. QED
  BY <1>1, <1>2, <1>4, <1>5, <1>6, <1>7 DEF HomeInv, CopyWaits, SidePlays

LEMMA SlideKeeps ==
  ASSUME HomeInv, NEW i \in Levers, SlideFrame(i)
  PROVE  HomeInv'
<1>1. HomeTypes /\ BoardShows /\ LeversMove /\ TraceLives /\ CopyWaits /\ SidePlays
  BY DEF HomeInv
<1>2. UNCHANGED <<btn, focused, spaceHeld, fingerHeld, layer, branch, unseen, hot, copies, side, calm, touches>>
  BY DEF SlideFrame
<1>3. PICK at \in 0..3, g \in {0, 3, NoGoal} :
        /\ Moved(i, at) /\ goal' = [goal EXCEPT ![i] = g]
        /\ at \in {1, 2} => g \in {0, 3}
        /\ g # NoGoal => at # g
  <2> DEFINE at == OneRow(lever[i], goal[i])
             g  == IF at = goal[i] THEN NoGoal ELSE goal[i]
  <2>1. lever[i] \in 0..3 /\ goal[i] \in {0, 3} /\ NoGoal = 9
    BY <1>1 DEF HomeTypes, NoGoal, SlideFrame
  <2>2. at \in 0..3 /\ g \in {0, 3, NoGoal} /\ (at \in {1, 2} => g \in {0, 3}) /\ (g # NoGoal => at # g)
    BY <2>1 DEF OneRow
  <2>3. goal' = [goal EXCEPT ![i] = g] /\ Moved(i, at)
    BY DEF SlideFrame
  <2> HIDE DEF at, g
  <2>4. QED
    BY <2>2, <2>3
<1>4. lever' = [lever EXCEPT ![i] = at] /\ BoardShows'
  BY <1>3 DEF Moved, Draw, BoardShows
<1>5. lever' \in [Levers -> 0..3] /\ goal' \in [Levers -> {0, 3, NoGoal}] /\ LeversMove'
  BY <1>1, <1>3, <1>4, LeverMoves
<1>6. pulses' \in Seq(Pulse) /\ looping' \in BOOLEAN /\ TraceLives'
  <2>1. CASE SendPulse(0, "trace")
    BY <1>1, <1>2, <2>1, PulseIsSent DEF Routes
  <2>2. CASE UNCHANGED <<pulses, looping>>
    BY <1>1, <1>2, <2>2 DEF TraceLives, OnTheTrace, HomeTypes
  <2>3. QED
    BY <1>3, <2>1, <2>2 DEF Moved
<1>7. HomeTypes'
  BY <1>1, <1>2, <1>5, <1>6 DEF HomeTypes
<1>8. QED
  BY <1>1, <1>2, <1>4, <1>5, <1>6, <1>7 DEF HomeInv, CopyWaits, SidePlays

\* A step on the buttons: they are drawn as they are, the levers and the trace stay.
LEMMA KnobsKeep ==
  ASSUME HomeInv, NEW set \in SUBSET Knobs, Pressed(set) \/ (set = btn /\ UNCHANGED <<lever, sw, goal, btn, drawn, aria>>),
         focused' \in Knobs \cup {NoKnob}, spaceHeld' \in BOOLEAN, fingerHeld' \in BOOLEAN,
         touches' \in 0..MaxTouches, KnobSame
  PROVE  HomeInv'
<1>1. HomeTypes /\ BoardShows /\ LeversMove /\ TraceLives /\ CopyWaits /\ SidePlays
  BY DEF HomeInv
<1>2. UNCHANGED <<lever, sw, goal, aria, pulses, looping, layer, branch, unseen, hot, copies, side, calm>> /\ btn' = set
  BY DEF Pressed, KnobSame, traceVars
<1>3. BoardShows'
  BY <1>1, <1>2 DEF Pressed, Draw, BoardShows
<1>4. HomeTypes'
  BY <1>1, <1>2 DEF HomeTypes
<1>5. LeversMove' /\ TraceLives' /\ CopyWaits' /\ SidePlays'
  BY <1>1, <1>2 DEF LeversMove, TraceLives, OnTheTrace, CopyWaits, SidePlays
<1>6. QED
  BY <1>3, <1>4, <1>5 DEF HomeInv

LEMMA KnobStepsKeep ==
  ASSUME HomeInv, (\E b \in Knobs : KnobDown(b) \/ FocusKnob(b)) \/ AnyUp \/ KeyGoesDown \/ KeyComesUp
  PROVE  HomeInv'
<1>1. /\ btn \subseteq Knobs /\ focused \in Knobs \cup {NoKnob} /\ spaceHeld \in BOOLEAN /\ fingerHeld \in BOOLEAN
      /\ touches \in 0..MaxTouches /\ MaxTouches \in Nat
  BY HomeBoardAssumption DEF HomeInv, HomeTypes
<1>2. ASSUME NEW b \in Knobs, KnobDown(b) PROVE HomeInv'
  <2>1. /\ Pressed(btn \cup {b}) /\ focused' = b /\ fingerHeld' = TRUE /\ UNCHANGED spaceHeld /\ KnobSame
        /\ touches' \in 0..MaxTouches
    BY <1>1, <1>2 DEF KnobDown, Touch
  <2>2. btn \cup {b} \in SUBSET Knobs
    BY <1>1
  <2>3. QED
    BY <1>1, <2>1, <2>2, KnobsKeep
<1>3. ASSUME NEW b \in Knobs, FocusKnob(b) PROVE HomeInv'
  <2>1. /\ UNCHANGED <<lever, sw, goal, btn, drawn, aria>> /\ focused' = b /\ UNCHANGED <<spaceHeld, fingerHeld>> /\ KnobSame
        /\ touches' \in 0..MaxTouches
    BY <1>1, <1>3 DEF FocusKnob, Touch
  <2>2. btn \in SUBSET Knobs
    BY <1>1
  <2>3. QED
    BY <1>1, <2>1, <2>2, KnobsKeep
<1>4. CASE AnyUp
  <2>1. Pressed({}) /\ fingerHeld' = FALSE /\ UNCHANGED <<focused, spaceHeld, touches>> /\ KnobSame
    BY <1>4 DEF AnyUp
  <2>2. {} \in SUBSET Knobs
    OBVIOUS
  <2>3. QED
    BY <1>1, <2>1, <2>2, KnobsKeep
<1>5. CASE KeyGoesDown
  <2>1. /\ Pressed(btn \cup {focused}) /\ focused # NoKnob /\ spaceHeld' = TRUE /\ UNCHANGED <<focused, fingerHeld>> /\ KnobSame
        /\ touches' \in 0..MaxTouches
    BY <1>1, <1>5 DEF KeyGoesDown, Touch
  <2>2. btn \cup {focused} \in SUBSET Knobs
    BY <1>1, <2>1
  <2>3. QED
    BY <1>1, <2>1, <2>2, KnobsKeep
<1>6. CASE KeyComesUp
  <2>1. Pressed(btn \ {focused}) /\ spaceHeld' = FALSE /\ UNCHANGED <<focused, fingerHeld, touches>> /\ KnobSame
    BY <1>6 DEF KeyComesUp
  <2>2. btn \ {focused} \in SUBSET Knobs
    BY <1>1
  <2>3. QED
    BY <1>1, <2>1, <2>2, KnobsKeep
<1>7. QED
  BY <1>2, <1>3, <1>4, <1>5, <1>6

\* A step of the trace, the copy button, the pictures or the wish for less motion.
LEMMA HomeBoardStays ==
  ASSUME HomeInv, UNCHANGED flatVars, TraceLives', CopyWaits', SidePlays',
         pulses' \in Seq(Pulse), looping' \in BOOLEAN, layer' \in 0..1, branch' \in BOOLEAN,
         unseen' \subseteq {"a", "b", "curve"}, hot' \subseteq Chips, copies' \in Copies, side' \in Sides,
         calm' \in [now : BOOLEAN, atFirst : BOOLEAN], touches' \in 0..MaxTouches
  PROVE  HomeInv'
<1>1. HomeTypes /\ BoardShows /\ LeversMove
      /\ UNCHANGED <<lever, sw, goal, btn, focused, spaceHeld, fingerHeld, drawn, aria>>
  BY DEF HomeInv, flatVars
<1>2. HomeTypes'
  BY <1>1 DEF HomeTypes
<1>3. BoardShows' /\ LeversMove'
  BY <1>1 DEF BoardShows, LeversMove
<1>4. QED
  BY <1>2, <1>3 DEF HomeInv

LEMMA TraceStepsKeep ==
  ASSUME HomeInv,
         (\E c \in Chips : CoolsDown(c)) \/ (\E m \in {"a", "b", "curve"} : ComesIntoView(m)) \/ PulseFrame(4)
  PROVE  HomeInv'
<1>1. HomeTypes /\ TraceLives /\ CopyWaits /\ SidePlays
  BY DEF HomeInv
<1>2. /\ UNCHANGED <<layer, branch, copies, side, calm, touches>> /\ UNCHANGED flatVars /\ unseen' \subseteq unseen
      /\ hot' \subseteq Chips /\ pulses' \in Seq(Pulse) /\ looping' \in BOOLEAN /\ TraceLives'
  <2>1. ASSUME NEW c \in Chips, CoolsDown(c)
        PROVE  /\ UNCHANGED <<layer, branch, copies, side, calm, touches>> /\ UNCHANGED flatVars /\ unseen' \subseteq unseen
               /\ hot' \subseteq Chips /\ pulses' \in Seq(Pulse) /\ looping' \in BOOLEAN /\ TraceLives'
    BY <1>1, <2>1 DEF CoolsDown, HomeTypes, TraceLives, OnTheTrace
  <2>2. ASSUME NEW m \in {"a", "b", "curve"}, ComesIntoView(m)
        PROVE  /\ UNCHANGED <<layer, branch, copies, side, calm, touches>> /\ UNCHANGED flatVars /\ unseen' \subseteq unseen
               /\ hot' \subseteq Chips /\ pulses' \in Seq(Pulse) /\ looping' \in BOOLEAN /\ TraceLives'
    <3>1. /\ UNCHANGED <<layer, branch, hot, copies, side, calm, touches>> /\ UNCHANGED flatVars
          /\ unseen' \subseteq unseen /\ hot' \subseteq Chips
      BY <1>1, <2>2 DEF ComesIntoView, HomeTypes
    <3>2. CASE m = "curve"
      <4>1. SendPulse(0, "branch") /\ branch
        BY <1>1, <2>2, <3>2 DEF ComesIntoView, TraceLives
      <4>2. QED
        BY <1>1, <3>1, <4>1, PulseIsSent DEF Routes
    <3>3. CASE m # "curve"
      <4>1. PICK from \in 0..1 : SendPulse(from, "trace")
        BY <2>2, <3>3 DEF ComesIntoView
      <4>2. QED
        BY <1>1, <3>1, <4>1, PulseIsSent DEF Routes
    <3>4. QED
      BY <3>2, <3>3
  <2>3. CASE PulseFrame(4)
    <3>1. /\ UNCHANGED <<layer, branch, unseen, copies, side, calm, touches>> /\ UNCHANGED flatVars
      BY <2>3 DEF PulseFrame
    <3>2. QED
      BY <1>1, <2>3, <3>1, PulsesWalk
  <2>4. QED
    BY <2>1, <2>2, <2>3
<1>3. CopyWaits' /\ SidePlays'
  BY <1>1, <1>2 DEF CopyWaits, SidePlays
<1>4. QED
  BY <1>1, <1>2, <1>3, HomeBoardStays DEF HomeTypes

LEMMA CopyStepsKeep ==
  ASSUME HomeInv, ClickCopy \/ LabelBack \/ LessMotion \/ (\E ok \in BOOLEAN : Copied(ok))
  PROVE  HomeInv'
<1>1. HomeTypes /\ TraceLives /\ CopyWaits /\ SidePlays /\ MaxTouches \in Nat
  BY HomeBoardAssumption DEF HomeInv
<1>2. CASE ClickCopy
  <2>1. /\ UNCHANGED flatVars /\ UNCHANGED <<layer, branch, unseen, hot, side, calm>> /\ touches' \in 0..MaxTouches
        /\ SendPulse(0, "trace") /\ copies' = [copies EXCEPT !.asked = @ + 1]
    BY <1>1, <1>2 DEF ClickCopy, Touch, HomeTypes
  <2>2. copies' \in Copies /\ CopyWaits' /\ SidePlays'
    BY <1>1, <2>1 DEF HomeTypes, Copies, CopyWaits, SidePlays
  <2>3. pulses' \in Seq(Pulse) /\ looping' \in BOOLEAN /\ TraceLives'
    BY <1>1, <2>1, PulseIsSent DEF Routes
  <2>4. QED
    BY <1>1, <2>1, <2>2, <2>3, HomeBoardStays DEF HomeTypes
<1>3. ASSUME NEW ok \in BOOLEAN, Copied(ok) PROVE HomeInv'
  <2>1. /\ UNCHANGED flatVars /\ UNCHANGED <<pulses, looping, layer, branch, unseen, hot, side, calm, touches>>
        /\ copies' = [label |-> IF ok THEN "done" ELSE "select", done |-> TRUE,
                      asked |-> copies.asked - 1, later |-> Append(copies.later, copies.label)]
        /\ copies.asked \in Nat /\ copies.asked > 0 /\ copies.later \in Seq(Labels) /\ copies.label \in Labels
    BY <1>1, <1>3 DEF Copied, traceVars, HomeTypes, Copies
  <2>2. PICK later : later = Append(copies.later, copies.label)
    OBVIOUS
  <2>3. later \in Seq(Labels) /\ later # <<>>
    BY <2>1, <2>2, AppendProperties
  <2>4. copies' \in Copies /\ copies'.later # <<>>
    BY <2>1, <2>2, <2>3 DEF Copies, Labels
  <2>5. CopyWaits' /\ SidePlays' /\ TraceLives'
    BY <1>1, <2>1, <2>4 DEF CopyWaits, SidePlays, TraceLives, OnTheTrace
  <2>6. QED
    BY <1>1, <2>1, <2>4, <2>5, HomeBoardStays DEF HomeTypes
<1>4. CASE LabelBack
  <2>1. /\ UNCHANGED flatVars /\ UNCHANGED <<pulses, looping, layer, branch, unseen, hot, side, calm, touches>>
        /\ copies.later # <<>> /\ copies.later \in Seq(Labels) /\ copies \in Copies
        /\ copies' = [copies EXCEPT !.label = Head(copies.later), !.done = FALSE, !.later = Tail(@)]
    BY <1>1, <1>4 DEF LabelBack, traceVars, HomeTypes, Copies
  <2>2. Head(copies.later) \in Labels /\ Tail(copies.later) \in Seq(Labels)
    BY <2>1, HeadTailProperties
  <2>3. copies' \in Copies /\ ~copies'.done
    BY <2>1, <2>2 DEF Copies
  <2>4. CopyWaits' /\ SidePlays' /\ TraceLives'
    BY <1>1, <2>1, <2>3 DEF CopyWaits, SidePlays, TraceLives, OnTheTrace
  <2>5. QED
    BY <1>1, <2>1, <2>3, <2>4, HomeBoardStays DEF HomeTypes
<1>5. CASE LessMotion
  <2>1. /\ UNCHANGED flatVars /\ UNCHANGED <<pulses, looping, layer, branch, unseen, hot, copies, side>>
        /\ touches' \in 0..MaxTouches /\ calm' = [calm EXCEPT !.now = ~@]
    BY <1>1, <1>5 DEF LessMotion, Touch, traceVars, HomeTypes
  <2>2. calm' \in [now : BOOLEAN, atFirst : BOOLEAN]
    BY <1>1, <2>1 DEF HomeTypes
  <2>3. CopyWaits' /\ SidePlays' /\ TraceLives'
    BY <1>1, <2>1 DEF CopyWaits, SidePlays, TraceLives, OnTheTrace
  <2>4. QED
    BY <1>1, <2>1, <2>2, <2>3, HomeBoardStays DEF HomeTypes
<1>6. QED
  BY <1>2, <1>3, <1>4, <1>5

LEMMA SideStepsKeep ==
  ASSUME HomeInv, PlaySide \/ (\E k \in 0..2 : SideFrame(k))
  PROVE  HomeInv'
<1>1. HomeTypes /\ TraceLives /\ CopyWaits /\ SidePlays
  BY DEF HomeInv
<1>2. /\ UNCHANGED flatVars /\ UNCHANGED <<pulses, looping, layer, branch, unseen, hot, copies, calm, touches>>
  BY DEF PlaySide, SideFrame, traceVars
<1>3. side' \in Sides /\ SidePlays'
  <2>1. CASE PlaySide
    <3>1. side' = [side EXCEPT !.at = 0, !.played = TRUE, !.playing = TRUE] /\ side \in Sides
      BY <1>1, <2>1 DEF PlaySide, HomeTypes
    <3>2. side' = [k |-> side.k, at |-> 0, played |-> TRUE, playing |-> TRUE, room |-> side.room, painted |-> side.painted]
      BY <3>1 DEF Sides
    <3>3. 0 \in 0..2 /\ (side.room => side.painted = side.k)
      BY <1>1 DEF SidePlays
    <3>4. side' \in Sides
      BY <3>1, <3>2, <3>3 DEF Sides
    <3>5. SidePlays'
      BY <3>2, <3>3 DEF SidePlays
    <3>6. QED
      BY <3>4, <3>5
  <2>2. ASSUME NEW k \in 0..2, SideFrame(k) PROVE side' \in Sides /\ SidePlays'
    <3>1. side \in Sides /\ side.playing /\ side.played
      BY <1>1, <2>2 DEF SideFrame, HomeTypes, SidePlays
    <3>2. CASE k = side.k
      <4>1. side' = [side EXCEPT !.k = k, !.at = k, !.playing = k < 2]
        BY <2>2, <3>2 DEF SideFrame
      <4>2. side' = [k |-> k, at |-> k, played |-> side.played, playing |-> k < 2, room |-> side.room, painted |-> side.painted]
        BY <3>1, <4>1 DEF Sides
      <4>3. QED
        BY <1>1, <3>1, <3>2, <4>2 DEF Sides, SidePlays
    <3>3. CASE k # side.k
      <4>1. side' = [[side EXCEPT !.k = k, !.at = k, !.playing = k < 2] EXCEPT !.painted = k]
        BY <2>2, <3>1, <3>3 DEF SideFrame, Paint, Sides
      <4>2. side' = [k |-> k, at |-> k, played |-> side.played, playing |-> k < 2, room |-> side.room, painted |-> k]
        BY <3>1, <4>1 DEF Sides
      <4>3. QED
        BY <3>1, <4>2 DEF Sides, SidePlays
    <3>4. QED
      BY <3>2, <3>3
  <2>3. QED
    BY <2>1, <2>2
<1>4. CopyWaits' /\ TraceLives'
  BY <1>1, <1>2 DEF CopyWaits, TraceLives, OnTheTrace
<1>5. QED
  BY <1>1, <1>2, <1>3, <1>4, HomeBoardStays DEF HomeTypes

LEMMA HomeRelayoutKeeps ==
  ASSUME HomeInv, NEW wide \in BOOLEAN, NEW room \in BOOLEAN, RelayoutHome(wide, room)
  PROVE  HomeInv'
<1>1. HomeTypes /\ BoardShows /\ LeversMove /\ CopyWaits /\ SidePlays /\ MaxTouches \in Nat
  BY HomeBoardAssumption DEF HomeInv
<1>2. /\ Build(wide) /\ UNCHANGED <<lever, sw, goal, btn, spaceHeld, fingerHeld, looping, copies, calm>>
      /\ focused' = NoKnob /\ touches' \in 0..MaxTouches /\ Draw /\ aria' = sw
      /\ side' = IF room THEN Paint([side EXCEPT !.room = TRUE]) ELSE [side EXCEPT !.room = FALSE]
  BY <1>1 DEF RelayoutHome, Touch, HomeTypes
<1>3. /\ pulses' \in Seq(Pulse) /\ layer' \in 0..1 /\ branch' \in BOOLEAN /\ hot' = {}
      /\ unseen' \subseteq {"a", "b", "curve"} /\ TraceLives'
  BY <1>1, <1>2, RoutedAnew
<1>4. side' \in Sides /\ SidePlays'
  <2>1. side \in Sides
    BY <1>1 DEF HomeTypes
  <2>2. CASE room
    <3>1. side' = [[side EXCEPT !.room = TRUE] EXCEPT !.painted = side.k]
      BY <1>2, <2>1, <2>2 DEF Paint, Sides
    <3>2. side' = [k |-> side.k, at |-> side.at, played |-> side.played, playing |-> side.playing, room |-> TRUE, painted |-> side.k]
      BY <2>1, <3>1 DEF Sides
    <3>3. QED
      BY <1>1, <2>1, <3>2 DEF Sides, SidePlays
  <2>3. CASE ~room
    <3>1. side' = [side EXCEPT !.room = FALSE]
      BY <1>2, <2>3
    <3>2. QED
      BY <1>1, <2>1, <3>1 DEF Sides, SidePlays
  <2>4. QED
    BY <2>2, <2>3
<1>5. BoardShows' /\ LeversMove' /\ CopyWaits'
  BY <1>1, <1>2 DEF BoardShows, LeversMove, CopyWaits, Draw
<1>6. HomeTypes'
  BY <1>1, <1>2, <1>3, <1>4 DEF HomeTypes
<1>7. QED
  BY <1>3, <1>4, <1>5, <1>6 DEF HomeInv

LEMMA HomeStarts == HomeInit => HomeInv
<1> SUFFICES ASSUME HomeInit PROVE HomeInv
  OBVIOUS
<1>1. /\ calm \in [now : BOOLEAN, atFirst : BOOLEAN] /\ touches = 0 /\ MaxTouches \in Nat
      /\ lever = [i \in Levers |-> IF i \in OnAtFirst THEN 3 ELSE 0] /\ sw = OnAtFirst /\ OnAtFirst \subseteq Levers
      /\ goal = [i \in Levers |-> NoGoal] /\ btn = {} /\ focused = NoKnob /\ spaceHeld = FALSE /\ fingerHeld = FALSE
      /\ drawn = Picture(lever, sw, btn) /\ aria = sw
      /\ pulses = <<>> /\ looping = FALSE /\ layer = 0 /\ branch \in BOOLEAN /\ hot = {}
      /\ unseen \subseteq {"a", "b", "curve"} /\ ("curve" \in unseen => branch)
      /\ copies = [label |-> "copy", done |-> FALSE, asked |-> 0, later |-> <<>>]
  BY HomeBoardAssumption DEF HomeInit, NewCopy
<1>2. side \in Sides /\ SidePlays
  BY DEF HomeInit, Sides, SidePlays, NotPainted
<1>3. <<>> \in Seq(Pulse) /\ <<>> \in Seq(Labels) /\ Len(<<>>) = 0 /\ DOMAIN <<>> = {}
  BY EmptySeq
<1>4. copies \in Copies /\ CopyWaits
  BY <1>1, <1>3 DEF Copies, CopyWaits, Labels
<1>5. HomeTypes
  <2>1. 0 \in 0..MaxTouches /\ 0 \in 0..1 /\ lever \in [Levers -> 0..3] /\ goal \in [Levers -> {0, 3, NoGoal}]
    BY <1>1
  <2>2. QED
    BY <1>1, <1>2, <1>3, <1>4, <2>1 DEF HomeTypes
<1>6. BoardShows
  <2>1. Contacts(lever) = OnAtFirst
    BY <1>1 DEF Contacts
  <2>2. QED
    BY <1>1, <2>1 DEF BoardShows
<1>7. LeversMove
  BY <1>1 DEF LeversMove, NoGoal
<1>8. TraceLives
  BY <1>1, <1>3 DEF TraceLives
<1>9. QED
  BY <1>2, <1>4, <1>5, <1>6, <1>7, <1>8 DEF HomeInv

LEMMA HomeStays == HomeInv /\ [SwitchStep \/ PageStep]_homeVars => HomeInv'
<1> SUFFICES ASSUME HomeInv, [SwitchStep \/ PageStep]_homeVars PROVE HomeInv'
  OBVIOUS
<1>1. ASSUME NEW t, ClickTarget(t) PROVE HomeInv'
  <2>1. PICK i \in Levers : Touch /\ Flip(i)
    BY <1>1 DEF ClickTarget
  <2>2. QED
    BY <2>1, FlipKeeps
<1>2. CASE \E i \in Levers : SlideFrame(i)
  BY <1>2, SlideKeeps
<1>3. CASE (\E b \in Knobs : KnobDown(b) \/ FocusKnob(b)) \/ AnyUp \/ KeyGoesDown \/ KeyComesUp
  BY <1>3, KnobStepsKeep
<1>4. CASE (\E c \in Chips : CoolsDown(c)) \/ (\E m \in {"a", "b", "curve"} : ComesIntoView(m)) \/ PulseFrame(4)
  BY <1>4, TraceStepsKeep
<1>5. CASE ClickCopy \/ LabelBack \/ LessMotion \/ (\E ok \in BOOLEAN : Copied(ok))
  BY <1>5, CopyStepsKeep
<1>6. CASE PlaySide \/ (\E k \in 0..2 : SideFrame(k))
  BY <1>6, SideStepsKeep
<1>7. CASE \E wide, room \in BOOLEAN : RelayoutHome(wide, room)
  BY <1>7, HomeRelayoutKeeps
<1>8. CASE UNCHANGED homeVars
  <2>1. /\ UNCHANGED <<lever, sw, goal, btn, focused, spaceHeld, fingerHeld, drawn, aria, pulses, looping, layer, branch, unseen, hot>>
        /\ UNCHANGED <<copies, side, calm, touches>>
    BY <1>8 DEF homeVars, flatVars, traceVars
  <2>2. HomeTypes' /\ BoardShows'
    BY <2>1 DEF HomeInv, HomeTypes, BoardShows
  <2>3. LeversMove' /\ TraceLives' /\ CopyWaits' /\ SidePlays'
    BY <2>1 DEF HomeInv, LeversMove, TraceLives, OnTheTrace, CopyWaits, SidePlays
  <2>4. QED
    BY <2>2, <2>3 DEF HomeInv
<1>9. CASE SwitchStep
  <2>1. \/ (\E t : ClickTarget(t)) \/ (\E i \in Levers : SlideFrame(i))
        \/ (\E c \in Chips : CoolsDown(c)) \/ (\E m \in {"a", "b", "curve"} : ComesIntoView(m)) \/ PulseFrame(4)
        \/ (\E wide, room \in BOOLEAN : RelayoutHome(wide, room))
    BY <1>9 DEF SwitchStep
  <2>2. QED
    BY <1>1, <1>2, <1>4, <1>7, <2>1
<1>10. CASE PageStep
  <2>1. \/ (\E t : ClickTarget(t)) \/ (\E b \in Knobs : KnobDown(b) \/ FocusKnob(b)) \/ AnyUp \/ KeyGoesDown \/ KeyComesUp
        \/ ClickCopy \/ LabelBack \/ LessMotion \/ (\E ok \in BOOLEAN : Copied(ok))
        \/ PlaySide \/ (\E k \in 0..2 : SideFrame(k))
        \/ (\E wide, room \in BOOLEAN : RelayoutHome(wide, room))
    BY <1>10 DEF PageStep
  <2>2. QED
    BY <1>1, <1>3, <1>5, <1>6, <1>7, <2>1
<1>11. QED
  BY <1>8, <1>9, <1>10

\* What the digits light is what is low on seg and an.
LEMMA DigitsAreTheReadout ==
  ASSUME NEW levers, NEW on, NEW pressed, NEW d \in 0..3, NEW s \in 0..6
  PROVE  LET pic == Picture(levers, on, pressed) IN
         (s \in pic.digits[d]) = (s \notin pic.readout.seg /\ 3 - d \notin pic.readout.an)
<1>1. 12 + (3 - d) = 15 - d /\ 3 - d \in 0..3
  OBVIOUS
<1>2. s \in Picture(levers, on, pressed).digits[d] <=> (15 - d \in on /\ s \in on)
  BY DEF Picture
<1>3. s \notin Picture(levers, on, pressed).readout.seg <=> s \in on
  BY DEF Picture
<1>4. 3 - d \notin Picture(levers, on, pressed).readout.an <=> 15 - d \in on
  BY <1>1 DEF Picture
<1>5. QED
  BY <1>2, <1>3, <1>4

(* The invariant that carries the home board's results.                       *)
THEOREM HomeInvHolds == HomeSpec => []HomeInv
<1>1. QED
  BY HomeStarts, HomeStays, PTL DEF HomeSpec

(* The board's levers, pulses and buttons are well typed.                       *)
THEOREM HomeTypeCorrect == HomeSpec => []HomeTypeOK
<1>1. ASSUME HomeInv PROVE HomeTypeOK
  <2>1. HomeTypes /\ BoardShows
    BY <1>1 DEF HomeInv
  <2>2. sw \subseteq Levers /\ aria \subseteq Levers
    BY <2>1 DEF BoardShows, Contacts
  <2>3. \A i \in DOMAIN pulses : pulses[i].route \in Routes /\ pulses[i].head \in Nat
    <3>1. \A i \in DOMAIN pulses : pulses[i] \in Pulse
      BY <2>1, ElementOfSeq, LenProperties DEF HomeTypes
    <3>2. QED
      BY <3>1 DEF Pulse
  <2>4. copies.label \in {"copy", "done", "select"} /\ side.k \in 0..2
    BY <2>1 DEF HomeTypes, Copies, Labels, Sides
  <2>5. QED
    BY <2>1, <2>2, <2>3, <2>4 DEF HomeTypeOK, HomeTypes
<1>2. QED
  BY <1>1, HomeInvHolds, PTL

(* The home board stays honest, for any switches, buttons, trace and number of   *)
(* touches: what is drawn and what the hidden buttons say is what the levers say, *)
(* a lever between its ends is on its way, no pulse outlives its trace, and a     *)
(* picture that is seen shows the moment it is at.                            *)
THEOREM BoardIsHonestHolds == HomeSpec => []BoardIsHonest
<1>1. ASSUME HomeInv PROVE BoardIsHonest
  <2>1. HomeTypes /\ BoardShows /\ LeversMove /\ TraceLives /\ CopyWaits /\ SidePlays
    BY <1>1 DEF HomeInv
  <2>2. \A i \in Levers : (i \in sw) = (lever[i] \in {2, 3})
    <3> SUFFICES ASSUME NEW i \in Levers PROVE i \in sw <=> lever[i] \in {2, 3}
      OBVIOUS
    <3>1. lever[i] \in 0..3
      BY <2>1 DEF HomeTypes
    <3>2. QED
      BY <2>1, <3>1 DEF BoardShows, Contacts
  <2>3. \A d \in 0..3, s \in 0..6 :
          (s \in drawn.digits[d]) = (s \notin drawn.readout.seg /\ 3 - d \notin drawn.readout.an)
    BY <2>1, DigitsAreTheReadout DEF BoardShows
  <2>4. \A i \in DOMAIN pulses :
          pulses[i].on = layer /\ (pulses[i].route = "branch" => branch) /\ ~Gone(pulses[i])
    BY <2>1 DEF TraceLives, OnTheTrace
  <2>5. QED
    BY <2>1, <2>2, <2>3, <2>4 DEF BoardIsHonest, BoardShows, LeversMove, TraceLives, CopyWaits, SidePlays
<1>2. QED
  BY <1>1, HomeInvHolds, PTL

(* The home page shows one story: its board is the board its switches say, and    *)
(* its stage the frame of where the reader is, whatever moves on either and in     *)
(* whatever order.                                                            *)
THEOREM HomeTellsOneStoryHolds == HomePageSpec => []HomeTellsOneStory
BY BoardIsHonestHolds, StageFollowsScrollHolds, PTL DEF HomePageSpec, HomeTellsOneStory

-----------------------------------------------------------------------------
(* The functions of the account and newsletter pages take a record and give one *)
(* back: for each, the fields it may change and what it puts there.             *)

Fields == {"page", "stored", "blocked", "accepts", "account", "sub", "token", "promised", "chose", "anon",
           "view", "retry", "said", "calls", "n", "off", "gone"}
IsSite(s) == DOMAIN s = Fields /\ DOMAIN s.said = Areas
ChangesOnly(r, s, fs) == IsSite(r) /\ \A f \in Fields \ fs : r[f] = s[f]

SessionStates  == {"none", "live", "over"}
Views   == {"out", "noacct", "acct"}
Answers == {"none", "true", "false", "net", "busy", "401", "403", "expired"}
\* What a session, a view and the things said may become.
StoredOn(r, s) == r.stored \in SessionStates /\ (r.stored = "live" => s.stored = "live")
ViewOn(r, s)   == r.view = s.view \/ r.view = "out"
SaysElse(r, s) == r.said["confirm"] = s.said["confirm"] /\ r.said["unsubscribe"] = s.said["unsubscribe"]

LEMMA Sessions ==
  ASSUME NEW s, IsSite(s), s.stored \in SessionStates
  PROVE  /\ ChangesOnly(ReadSession(s), s, {"stored"}) /\ ReadSession(s).stored \in SessionStates
         /\ SignedIn(ReadSession(s)) <=> SignedIn(s)
         /\ ChangesOnly(ClearSession(s), s, {"stored"}) /\ ClearSession(s).stored = "none"
<1>1. ReadSession(s) = [s EXCEPT !.stored = IF @ = "over" THEN "none" ELSE @]
  BY DEF ReadSession
<1>2. ClearSession(s) = [s EXCEPT !.stored = "none"]
  BY DEF ClearSession
<1>3. QED
  BY <1>1, <1>2 DEF IsSite, ChangesOnly, Fields, SignedIn, SessionStates

LEMMA Saying ==
  ASSUME NEW s, IsSite(s), NEW area \in Areas, NEW text
  PROVE  /\ ChangesOnly(SayIn(s, area, text), s, {"said"})
         /\ SayIn(s, area, text).said[area] = text
         /\ \A a \in Areas \ {area} : SayIn(s, area, text).said[a] = s.said[a]
BY DEF IsSite, ChangesOnly, Fields, SayIn

LEMMA Closing ==
  ASSUME NEW s, IsSite(s), NEW forms
  PROVE  /\ ChangesOnly(Off(s, forms), s, {"off"}) /\ Off(s, forms).off = s.off \cup forms
         /\ ChangesOnly(Enable(s, forms), s, {"off"}) /\ Enable(s, forms).off = s.off \ (forms \ s.gone)
BY DEF IsSite, ChangesOnly, Fields, Off, Enable

LEMMA Showing ==
  ASSUME NEW s, IsSite(s), NEW v
  PROVE  ChangesOnly(ShowView(s, v), s, {"view", "retry"}) /\ ShowView(s, v).view = v
BY DEF IsSite, ChangesOnly, Fields, ShowView

LEMMA Sending ==
  ASSUME NEW s, IsSite(s), NEW what, NEW n, NEW as, NEW note
  PROVE  /\ ChangesOnly(Send(s, what, n, as, note), s, {"calls"})
         /\ Send(s, what, n, as, note).calls = s.calls \cup {[what |-> what, n |-> n, as |-> as, note |-> note, answer |-> "none"]}
BY DEF IsSite, ChangesOnly, Fields, Send

LEMMA OnlyTwice ==
  ASSUME NEW r, NEW q, NEW s, NEW A, NEW B, ChangesOnly(r, q, A), ChangesOnly(q, s, B)
  PROVE  ChangesOnly(r, s, A \cup B)
BY DEF ChangesOnly

CallKinds == {"subscribe", "confirm", "unsubscribe", "link", "user", "load", "enrol", "export", "delete", "logout", "otp"}
IsCall(c) ==
  /\ DOMAIN c = {"what", "n", "as", "note", "answer"}
  /\ c.what \in CallKinds /\ c.n \in Nat /\ c.as \in {"user", "anon", "none"} /\ c.answer \in Answers
\* A call that was not there, and that no answer came to.
Added(r, s, what) == \E c : IsCall(c) /\ c.what = what /\ c.answer # "true" /\ r.calls = s.calls \cup {c}

LEMMA SendsSigned ==
  ASSUME NEW s, IsSite(s), s.stored \in SessionStates, NEW what \in CallKinds, NEW n \in Nat
  PROVE  /\ ChangesOnly(Authed(s, what, n), s, {"stored", "calls"}) /\ Added(Authed(s, what, n), s, what)
         /\ StoredOn(Authed(s, what, n), s)
<1>0. PICK nothing : nothing = ""
  OBVIOUS
<1> DEFINE r == ReadSession(s)
           mine == [what |-> what, n |-> n, as |-> "user", note |-> nothing, answer |-> "none"]
           here == [what |-> what, n |-> n, as |-> "none", note |-> nothing, answer |-> "expired"]
<1>1. ChangesOnly(r, s, {"stored"}) /\ r.stored \in SessionStates /\ (SignedIn(r) <=> SignedIn(s)) /\ IsSite(r) /\ r.calls = s.calls
  BY Sessions DEF ChangesOnly, Fields
<1>2. IsCall(mine) /\ IsCall(here)
  BY DEF IsCall, Answers
<1>3. Authed(s, what, n) = IF SignedIn(r) THEN Send(r, what, n, "user", nothing) ELSE [r EXCEPT !.calls = @ \cup {here}]
  BY <1>0 DEF Authed
<1>4. CASE SignedIn(r)
  <2> HIDE DEF r
  <2>1. ChangesOnly(Authed(s, what, n), r, {"calls"}) /\ Authed(s, what, n).calls = r.calls \cup {mine}
    BY <1>1, <1>3, <1>4, Sending
  <2>2. ChangesOnly(Authed(s, what, n), s, {"calls"} \cup {"stored"})
    BY <1>1, <2>1, OnlyTwice
  <2>3. ChangesOnly(Authed(s, what, n), s, {"stored", "calls"}) /\ Authed(s, what, n).stored = r.stored
    BY <2>1, <2>2 DEF ChangesOnly, Fields
  <2>4. QED
    BY <1>1, <1>2, <2>1, <2>3 DEF Added, StoredOn, SignedIn
<1>5. CASE ~SignedIn(r)
  <2> HIDE DEF r
  <2>1. Authed(s, what, n) = [r EXCEPT !.calls = @ \cup {here}]
    BY <1>3, <1>5
  <2> HIDE DEF here
  <2>2. ChangesOnly(Authed(s, what, n), r, {"calls"}) /\ Authed(s, what, n).calls = r.calls \cup {here}
    BY <1>1, <2>1 DEF ChangesOnly, IsSite, Fields
  <2>3. ChangesOnly(Authed(s, what, n), s, {"calls"} \cup {"stored"})
    BY <1>1, <2>2, OnlyTwice
  <2>4. ChangesOnly(Authed(s, what, n), s, {"stored", "calls"}) /\ Authed(s, what, n).stored = r.stored
    BY <2>2, <2>3 DEF ChangesOnly, Fields
  <2>5. here.what = what /\ here.answer # "true"
    BY DEF here
  <2>6. QED
    BY <1>1, <1>2, <2>2, <2>4, <2>5 DEF Added, StoredOn, SignedIn
<1>6. QED
  BY <1>4, <1>5

\* What the functions of the account page may change, apart from the calls.
Shown == {"stored", "view", "retry", "said"}
ShowsOn(r, s) == StoredOn(r, s) /\ ViewOn(r, s) /\ SaysElse(r, s)

\* Another line said, in another view.
LEMMA SaysInView ==
  ASSUME NEW s, IsSite(s), s.stored \in SessionStates, NEW area \in {"signin", "enrol", "rights"}, NEW text,
         NEW q, ChangesOnly(q, s, Shown), ShowsOn(q, s)
  PROVE  ChangesOnly(SayIn(q, area, text), s, Shown) /\ ShowsOn(SayIn(q, area, text), s)
<1>1. area \in Areas /\ IsSite(q) /\ "confirm" \in Areas \ {area} /\ "unsubscribe" \in Areas \ {area}
  BY DEF ChangesOnly, Areas
<1>2. /\ ChangesOnly(SayIn(q, area, text), q, {"said"})
      /\ \A a \in Areas \ {area} : SayIn(q, area, text).said[a] = q.said[a]
  BY <1>1, Saying
<1>3. PICK r : r = SayIn(q, area, text)
  OBVIOUS
<1>4. ChangesOnly(r, s, {"said"} \cup Shown)
  BY <1>2, <1>3, OnlyTwice
<1>5. ChangesOnly(r, s, Shown) /\ r.stored = q.stored /\ r.view = q.view
  BY <1>2, <1>3, <1>4 DEF ChangesOnly, Shown, Fields
<1>6. SaysElse(r, s)
  BY <1>1, <1>2, <1>3 DEF ShowsOn, SaysElse
<1>7. QED
  BY <1>3, <1>5, <1>6 DEF ShowsOn, StoredOn, ViewOn

LEMMA ShowsSame ==
  ASSUME NEW s, IsSite(s), s.stored \in SessionStates
  PROVE  ChangesOnly(s, s, Shown) /\ ShowsOn(s, s)
BY DEF ChangesOnly, ShowsOn, StoredOn, ViewOn, SaysElse

LEMMA ShowsOut ==
  ASSUME NEW s, IsSite(s), s.stored \in SessionStates, NEW q, ChangesOnly(q, s, Shown), ShowsOn(q, s)
  PROVE  ChangesOnly(ShowView(q, "out"), s, Shown) /\ ShowsOn(ShowView(q, "out"), s)
<1>1. PICK r : r = ShowView(q, "out")
  OBVIOUS
<1>2. IsSite(q) /\ ChangesOnly(r, q, {"view", "retry"}) /\ r.view = "out"
  BY <1>1, Showing DEF ChangesOnly
<1>3. ChangesOnly(r, s, {"view", "retry"} \cup Shown)
  BY <1>2, OnlyTwice
<1>4. ChangesOnly(r, s, Shown) /\ r.stored = q.stored /\ r.said = q.said
  BY <1>2, <1>3 DEF ChangesOnly, Shown, Fields
<1>5. QED
  BY <1>1, <1>2, <1>4 DEF ShowsOn, StoredOn, ViewOn, SaysElse

LEMMA ShowsCleared ==
  ASSUME NEW s, IsSite(s), s.stored \in SessionStates
  PROVE  /\ ChangesOnly(ClearSession(s), s, Shown) /\ ShowsOn(ClearSession(s), s)
         /\ ChangesOnly(ReadSession(s), s, Shown) /\ ShowsOn(ReadSession(s), s)
<1>1. PICK q, r : q = ClearSession(s) /\ r = ReadSession(s)
  OBVIOUS
<1>2. /\ ChangesOnly(q, s, {"stored"}) /\ q.stored = "none"
      /\ ChangesOnly(r, s, {"stored"}) /\ r.stored \in SessionStates /\ (SignedIn(r) <=> SignedIn(s))
  BY <1>1, Sessions
<1>3. QED
  BY <1>1, <1>2 DEF ChangesOnly, Shown, Fields, ShowsOn, StoredOn, ViewOn, SaysElse, SignedIn, SessionStates

LEMMA ErrorShows ==
  ASSUME NEW s, IsSite(s), s.stored \in SessionStates, NEW c
  PROVE  ChangesOnly(OnError(s, c), s, Shown) /\ ShowsOn(OnError(s, c), s)
<1>1. CASE c.answer \in Errors401
  <2> DEFINE q == ShowView(ClearSession(s), "out")
  <2>1. ChangesOnly(q, s, Shown) /\ ShowsOn(q, s)
    BY ShowsCleared, ShowsOut
  <2>2. OnError(s, c) = SayIn(q, "signin", IF s.blocked THEN "blocked" ELSE "expired")
    BY <1>1 DEF OnError, Errors401
  <2> HIDE DEF q
  <2>3. QED
    BY <2>1, <2>2, SaysInView
<1>2. CASE c.answer \notin Errors401 /\ c.answer = "403"
  <2>1. OnError(s, c) = SayIn(s, "signin", "refused")
    BY <1>2 DEF OnError
  <2>2. QED
    BY <2>1, ShowsSame, SaysInView
<1>3. CASE c.answer \notin Errors401 /\ c.answer # "403"
  <2> DEFINE q == [ShowView(s, "out") EXCEPT !.retry = TRUE]
  <2>1. PICK o : o = ShowView(s, "out")
    OBVIOUS
  <2>2. ChangesOnly(o, s, Shown) /\ ShowsOn(o, s)
    BY <2>1, ShowsSame, ShowsOut
  <2>3. q = [o EXCEPT !.retry = TRUE]
    BY <2>1
  <2>4. OnError(s, c) = SayIn(q, "signin", "kept")
    BY <1>3 DEF OnError
  <2> HIDE DEF q
  <2>5. ChangesOnly(q, s, Shown) /\ ShowsOn(q, s)
    BY <2>2, <2>3 DEF ChangesOnly, IsSite, Shown, Fields, ShowsOn, StoredOn, ViewOn, SaysElse
  <2>6. QED
    BY <2>4, <2>5, SaysInView
<1>4. QED
  BY <1>1, <1>2, <1>3

LEMMA RefusalShows ==
  ASSUME NEW s, IsSite(s), s.stored \in SessionStates, NEW c
  PROVE  ChangesOnly(AfterRefusal(s, c), s, Shown) /\ ShowsOn(AfterRefusal(s, c), s)
BY ShowsSame, ShowsCleared DEF AfterRefusal

LEMMA ShowsTwice ==
  ASSUME NEW s, IsSite(s), s.stored \in SessionStates, NEW q, ChangesOnly(q, s, Shown), ShowsOn(q, s),
         NEW r, ChangesOnly(r, q, Shown), ShowsOn(r, q)
  PROVE  ChangesOnly(r, s, Shown) /\ ShowsOn(r, s)
<1>1. ChangesOnly(r, s, Shown \cup Shown)
  BY OnlyTwice
<1>2. QED
  BY <1>1 DEF ShowsOn, StoredOn, ViewOn, SaysElse

LEMMA RightShows ==
  ASSUME NEW s, IsSite(s), s.stored \in SessionStates, NEW c, NEW area \in {"signin", "enrol", "rights"}
  PROVE  ChangesOnly(RightFailed(s, c, area), s, Shown) /\ ShowsOn(RightFailed(s, c, area), s)
<1>1. PICK r : r = AfterRefusal(s, c)
  OBVIOUS
<1>2. ChangesOnly(r, s, Shown) /\ ShowsOn(r, s) /\ IsSite(r) /\ r.stored \in SessionStates
  BY <1>1, RefusalShows DEF ChangesOnly, ShowsOn, StoredOn
<1>3. RightFailed(s, c, area) = IF c.answer \in Errors401 THEN OnError(r, c) ELSE SayIn(r, area, "error")
  BY <1>1 DEF RightFailed
<1>4. ChangesOnly(OnError(r, c), s, Shown) /\ ShowsOn(OnError(r, c), s)
  BY <1>2, ErrorShows, ShowsTwice
<1>5. ChangesOnly(SayIn(r, area, "error"), s, Shown) /\ ShowsOn(SayIn(r, area, "error"), s)
  BY <1>2, SaysInView
<1>6. QED
  BY <1>3, <1>4, <1>5

\* Drawn anew, or signed out: the calls that were under way still are.
KeepsCalls(r, s) == r.calls = s.calls \/ \E what \in {"user", "load", "logout"} : Added(r, s, what)

LEMMA RenderShows ==
  ASSUME NEW s, IsSite(s), s.stored \in SessionStates, NEW n \in Nat
  PROVE  /\ ChangesOnly(Render(s, n), s, Shown \cup {"calls"}) /\ ShowsOn(Render(s, n), s)
         /\ KeepsCalls(Render(s, n), s)
<1>1. PICK r : r = ReadSession(s)
  OBVIOUS
<1>2. ChangesOnly(r, s, Shown) /\ ShowsOn(r, s) /\ IsSite(r) /\ r.stored \in SessionStates /\ r.calls = s.calls
  BY <1>1, ShowsCleared DEF ChangesOnly, ShowsOn, StoredOn, Shown, Fields
<1>3. CASE SignedIn(r)
  <2>0. PICK nothing : nothing = ""
    OBVIOUS
  <2> DEFINE new == [what |-> "user", n |-> n, as |-> "user", note |-> nothing, answer |-> "none"]
  <2>1. PICK t : t = Render(s, n)
    OBVIOUS
  <2>2. t = Send(r, "user", n, "user", nothing)
    BY <1>1, <1>3, <2>0, <2>1 DEF Render
  <2>3. ChangesOnly(t, r, {"calls"}) /\ t.calls = r.calls \cup {new}
    BY <1>2, <2>2, Sending
  <2>4. IsCall(new) /\ new.what = "user" /\ new.answer # "true"
    BY DEF IsCall, CallKinds, Answers
  <2> HIDE DEF new
  <2>5. ChangesOnly(t, s, {"calls"} \cup Shown)
    BY <1>2, <2>3, OnlyTwice
  <2>6. ShowsOn(t, s)
    BY <1>2, <2>3 DEF ChangesOnly, Fields, ShowsOn, StoredOn, ViewOn, SaysElse
  <2>7. KeepsCalls(t, s)
    BY <1>2, <2>3, <2>4 DEF KeepsCalls, Added
  <2>8. ChangesOnly(t, s, Shown \cup {"calls"})
    BY <2>5 DEF ChangesOnly
  <2>9. QED
    BY <2>1, <2>6, <2>7, <2>8
<1>4. CASE ~SignedIn(r)
  <2> DEFINE q == ShowView(r, "out")
  <2>1. ChangesOnly(q, s, Shown) /\ ShowsOn(q, s)
    BY <1>2, ShowsOut
  <2>2. Render(s, n) = IF s.blocked THEN SayIn(q, "signin", "blocked")
                       ELSE IF s.stored = "over" THEN SayIn(q, "signin", "expired") ELSE q
    BY <1>1, <1>4 DEF Render
  <2> HIDE DEF q
  <2>3. ChangesOnly(Render(s, n), s, Shown) /\ ShowsOn(Render(s, n), s)
    BY <2>1, <2>2, SaysInView
  <2>4. QED
    BY <2>3 DEF ChangesOnly, KeepsCalls, Shown, Fields
<1>5. QED
  BY <1>3, <1>4

LEMMA SignOutShows ==
  ASSUME NEW s, IsSite(s), s.stored \in SessionStates, NEW n \in Nat, NEW note
  PROVE  /\ ChangesOnly(SignOut(s, n, note), s, Shown \cup {"calls"}) /\ ShowsOn(SignOut(s, n, note), s)
         /\ KeepsCalls(SignOut(s, n, note), s) /\ SignOut(s, n, note).stored = "none"
<1>1. PICK r : r = ClearSession(ReadSession(s))
  OBVIOUS
<1>2. ChangesOnly(r, s, Shown) /\ ShowsOn(r, s) /\ IsSite(r) /\ r.stored = "none" /\ r.calls = s.calls
  <2>1. PICK q : q = ReadSession(s)
    OBVIOUS
  <2>2. ChangesOnly(q, s, Shown) /\ ShowsOn(q, s) /\ IsSite(q) /\ q.stored \in SessionStates
    BY <2>1, ShowsCleared DEF ChangesOnly, ShowsOn, StoredOn
  <2>3. ChangesOnly(r, q, Shown) /\ ShowsOn(r, q) /\ r.stored = "none"
    BY <1>1, <2>1, <2>2, ShowsCleared, Sessions
  <2>4. ChangesOnly(r, s, Shown) /\ ShowsOn(r, s)
    BY <2>2, <2>3, ShowsTwice
  <2>5. QED
    BY <2>3, <2>4 DEF ChangesOnly, Shown, Fields
<1>3. CASE SignedIn(s)
  <2> DEFINE new == [what |-> "logout", n |-> n, as |-> "user", note |-> note, answer |-> "none"]
  <2>1. PICK t : t = SignOut(s, n, note)
    OBVIOUS
  <2>2. t = Send(r, "logout", n, "user", note)
    BY <1>1, <1>3, <2>1 DEF SignOut
  <2>3. ChangesOnly(t, r, {"calls"}) /\ t.calls = r.calls \cup {new}
    BY <1>2, <2>2, Sending
  <2>4. IsCall(new) /\ new.what = "logout" /\ new.answer # "true"
    BY DEF IsCall, CallKinds, Answers
  <2> HIDE DEF new
  <2>5. ChangesOnly(t, s, {"calls"} \cup Shown)
    BY <1>2, <2>3, OnlyTwice
  <2>6. ShowsOn(t, s) /\ t.stored = "none"
    BY <1>2, <2>3 DEF ChangesOnly, Fields, ShowsOn, StoredOn, ViewOn, SaysElse
  <2>7. KeepsCalls(t, s)
    BY <1>2, <2>3, <2>4 DEF KeepsCalls, Added
  <2>8. ChangesOnly(t, s, Shown \cup {"calls"})
    BY <2>5 DEF ChangesOnly
  <2>9. QED
    BY <2>1, <2>6, <2>7, <2>8
<1>4. CASE ~SignedIn(s)
  <2> DEFINE q == ShowView(r, "out")
  <2>1. ChangesOnly(q, s, Shown) /\ ShowsOn(q, s) /\ q.stored = "none" /\ IsSite(q)
    BY <1>2, ShowsOut, Showing DEF ChangesOnly, Fields
  <2>2. SignOut(s, n, note) = SayIn(q, "signin", note)
    BY <1>1, <1>4 DEF SignOut
  <2> HIDE DEF q
  <2>3. ChangesOnly(SignOut(s, n, note), s, Shown) /\ ShowsOn(SignOut(s, n, note), s)
    BY <2>1, <2>2, SaysInView
  <2>4. SignOut(s, n, note).stored = "none"
    BY <2>1, <2>2, Saying DEF ChangesOnly, Fields, Areas
  <2>5. QED
    BY <2>3, <2>4 DEF ChangesOnly, KeepsCalls, Shown, Fields
<1>5. QED
  BY <1>3, <1>4

AccountKinds == {"user", "load", "enrol", "export", "delete", "logout", "otp"}

\* An answer on the account page opens the form that waited for it, or ends the session.
Reopens(r, s, c) ==
  /\ ChangesOnly(r, s, Shown \cup {"calls", "off"}) /\ StoredOn(r, s) /\ SaysElse(r, s) /\ r.view \in Views
  /\ KeepsCalls(r, s) /\ r.off \subseteq s.off
  /\ c.what \in {"enrol", "export"} => c.what \notin r.off
  /\ c.what = "delete" => "delete" \notin r.off \/ r.stored = "none"

LEMMA ShowsReopens ==
  ASSUME NEW s, IsSite(s), s.view \in Views, NEW c, c.what \notin {"enrol", "export", "delete"},
         NEW r, ChangesOnly(r, s, Shown \cup {"calls"}), ShowsOn(r, s), KeepsCalls(r, s)
  PROVE  Reopens(r, s, c)
BY DEF Reopens, ShowsOn, ViewOn, ChangesOnly, Shown, Fields, Views

\* The answer is shown, and its form opened.
LEMMA EnabledReopens ==
  ASSUME NEW s, IsSite(s), s.view \in Views, s.gone \subseteq {"link"}, NEW c, c.what \in {"enrol", "export", "delete"},
         NEW q, ChangesOnly(q, s, Shown \cup {"calls"}), ShowsOn(q, s), KeepsCalls(q, s)
  PROVE  Reopens(Enable(q, {c.what}), s, c)
<1>1. PICK r : r = Enable(q, {c.what})
  OBVIOUS
<1>2. ChangesOnly(r, q, {"off"}) /\ r.off = q.off \ ({c.what} \ q.gone) /\ q.off = s.off /\ q.gone = s.gone
  BY <1>1, Closing DEF ChangesOnly, Shown, Fields
<1>3. ChangesOnly(r, s, {"off"} \cup (Shown \cup {"calls"}))
  BY <1>2, OnlyTwice
<1>4. ChangesOnly(r, s, Shown \cup {"calls", "off"}) /\ r.stored = q.stored /\ r.view = q.view /\ r.said = q.said /\ r.calls = q.calls
  BY <1>2, <1>3 DEF ChangesOnly, Shown, Fields
<1>5. r.off \subseteq s.off /\ c.what \notin r.off
  BY <1>2
<1>6. r.view \in Views
  BY <1>4 DEF ShowsOn, ViewOn, Views
<1>7. QED
  BY <1>1, <1>4, <1>5, <1>6 DEF Reopens, ShowsOn, StoredOn, SaysElse, KeepsCalls, Added

LEMMA AccountAnswers ==
  ASSUME NEW s, IsSite(s), s.stored \in SessionStates, s.view \in Views, s.gone \subseteq {"link"},
         NEW c, IsCall(c), c.what \in AccountKinds
  PROVE  Reopens(AccountAnswer(s, c), s, c)
<1>1. PICK r : r = AccountAnswer(s, c)
  OBVIOUS
<1>2. \A q : ChangesOnly(q, s, Shown) => ChangesOnly(q, s, Shown \cup {"calls"}) /\ KeepsCalls(q, s)
  BY DEF ChangesOnly, Shown, Fields, KeepsCalls
<1>3. c.n \in Nat
  BY DEF IsCall
<1>4. CASE c.what = "user"
  <2>1. r = IF Failed(c) THEN OnError(s, c) ELSE Authed(s, "load", c.n)
    BY <1>1, <1>4 DEF AccountAnswer
  <2>2. CASE Failed(c)
    BY <1>1, <1>2, <1>4, <2>1, <2>2, ErrorShows, ShowsReopens
  <2>3. CASE ~Failed(c)
    <3>1. ChangesOnly(r, s, {"stored", "calls"}) /\ Added(r, s, "load") /\ StoredOn(r, s)
      BY <1>3, <2>1, <2>3, SendsSigned DEF CallKinds
    <3>2. ChangesOnly(r, s, Shown \cup {"calls"}) /\ ShowsOn(r, s) /\ KeepsCalls(r, s)
      BY <3>1 DEF ChangesOnly, Shown, Fields, ShowsOn, ViewOn, SaysElse, KeepsCalls
    <3>3. QED
      BY <1>1, <1>4, <3>2, ShowsReopens
  <2>4. QED
    BY <2>2, <2>3
<1>5. CASE c.what = "load"
  <2>1. r = IF Failed(c) THEN OnError(AfterRefusal(s, c), c) ELSE ShowView(s, IF c.answer = "true" THEN "acct" ELSE "noacct")
    BY <1>1, <1>5 DEF AccountAnswer
  <2>2. CASE Failed(c)
    <3>1. PICK q : q = AfterRefusal(s, c)
      OBVIOUS
    <3>2. ChangesOnly(q, s, Shown) /\ ShowsOn(q, s) /\ IsSite(q) /\ q.stored \in SessionStates
      BY <3>1, RefusalShows DEF ChangesOnly, ShowsOn, StoredOn
    <3>3. ChangesOnly(r, s, Shown) /\ ShowsOn(r, s)
      BY <2>1, <2>2, <3>1, <3>2, ErrorShows, ShowsTwice
    <3>4. QED
      BY <1>1, <1>2, <1>5, <3>3, ShowsReopens
  <2>3. CASE ~Failed(c)
    <3>1. PICK v \in Views : r = ShowView(s, v)
      BY <2>1, <2>3 DEF Views
    <3>2. ChangesOnly(r, s, {"view", "retry"}) /\ r.view = v
      BY <3>1, Showing
    <3>3. QED
      BY <1>1, <1>5, <3>1, <3>2 DEF ChangesOnly, Shown, Fields, Reopens, StoredOn, SaysElse, KeepsCalls
  <2>4. QED
    BY <2>2, <2>3
<1>6. CASE c.what = "enrol"
  <2> DEFINE q == IF Failed(c) THEN RightFailed(s, c, "enrol") ELSE Render(SayIn(s, "enrol", ""), c.n)
  <2>1. r = Enable(q, {c.what})
    BY <1>1, <1>6 DEF AccountAnswer
  <2>2. ChangesOnly(q, s, Shown \cup {"calls"}) /\ ShowsOn(q, s) /\ KeepsCalls(q, s)
    <3>1. CASE Failed(c)
      BY <1>2, <3>1, RightShows
    <3>2. CASE ~Failed(c)
      <4>1. PICK o : o = SayIn(s, "enrol", "")
        OBVIOUS
      <4>2. ChangesOnly(o, s, Shown) /\ ShowsOn(o, s)
        BY <4>1, ShowsSame, SaysInView
      <4>3. IsSite(o) /\ o.stored \in SessionStates /\ o.calls = s.calls
        BY <4>2 DEF ChangesOnly, ShowsOn, StoredOn, Shown, Fields
      <4>4. PICK t : t = Render(o, c.n)
        OBVIOUS
      <4>5. ChangesOnly(t, o, Shown \cup {"calls"}) /\ ShowsOn(t, o) /\ KeepsCalls(t, o)
        BY <1>3, <4>3, <4>4, RenderShows
      <4>6. ChangesOnly(t, s, (Shown \cup {"calls"}) \cup Shown)
        BY <4>2, <4>5, OnlyTwice
      <4>7. ChangesOnly(t, s, Shown \cup {"calls"})
        BY <4>6 DEF ChangesOnly
      <4>8. ShowsOn(t, s) /\ KeepsCalls(t, s)
        BY <4>2, <4>3, <4>5 DEF ShowsOn, StoredOn, ViewOn, SaysElse, KeepsCalls, Added
      <4>9. q = t
        BY <3>2, <4>1, <4>4
      <4>10. QED
        BY <4>7, <4>8, <4>9
    <3>3. QED
      BY <3>1, <3>2
  <2> HIDE DEF q
  <2>3. QED
    BY <1>1, <1>6, <2>1, <2>2, EnabledReopens
<1>7. CASE c.what = "export"
  <2> DEFINE q == IF Failed(c) THEN RightFailed(s, c, "rights") ELSE SayIn(s, "rights", "exported")
  <2>1. r = Enable(q, {c.what})
    BY <1>1, <1>7 DEF AccountAnswer
  <2>2. ChangesOnly(q, s, Shown) /\ ShowsOn(q, s)
    BY RightShows, ShowsSame, SaysInView
  <2> HIDE DEF q
  <2>3. QED
    BY <1>1, <1>2, <1>7, <2>1, <2>2, EnabledReopens
<1>8. CASE c.what = "delete"
  <2>1. CASE Failed(c)
    <3>1. r = Enable(RightFailed(s, c, "rights"), {c.what})
      BY <1>1, <1>8, <2>1 DEF AccountAnswer
    <3>2. QED
      BY <1>1, <1>2, <1>8, <3>1, RightShows, EnabledReopens
  <2>2. CASE ~Failed(c)
    <3>1. PICK note : r = SignOut(s, c.n, note)
      BY <1>1, <1>8, <2>2 DEF AccountAnswer
    <3>2. /\ ChangesOnly(r, s, Shown \cup {"calls"}) /\ ShowsOn(r, s) /\ KeepsCalls(r, s) /\ r.stored = "none"
      BY <1>3, <3>1, SignOutShows
    <3>3. QED
      BY <1>1, <1>8, <3>2 DEF Reopens, ShowsOn, ViewOn, ChangesOnly, Shown, Fields, Views
  <2>3. QED
    BY <2>1, <2>2
<1>9. CASE c.what = "logout"
  <2>1. PICK text : r = SayIn(ShowView(s, "out"), "signin", text)
    BY <1>1, <1>9 DEF AccountAnswer
  <2>2. PICK q : q = ShowView(s, "out")
    OBVIOUS
  <2>3. ChangesOnly(q, s, Shown) /\ ShowsOn(q, s)
    BY <2>2, ShowsSame, ShowsOut
  <2>4. ChangesOnly(r, s, Shown) /\ ShowsOn(r, s)
    BY <2>1, <2>2, <2>3, SaysInView
  <2>5. QED
    BY <1>1, <1>2, <1>9, <2>4, ShowsReopens
<1>10. CASE c.what = "otp"
  <2>1. PICK text : r = Enable(SayIn(s, "signin", text), {"signin"})
    BY <1>1, <1>10 DEF AccountAnswer
  <2>2. PICK q : q = SayIn(s, "signin", text)
    OBVIOUS
  <2>3. ChangesOnly(q, s, Shown) /\ ShowsOn(q, s) /\ IsSite(q)
    BY <2>2, ShowsSame, SaysInView DEF ChangesOnly
  <2>4. ChangesOnly(r, q, {"off"}) /\ r.off = q.off \ ({"signin"} \ q.gone)
    BY <2>1, <2>2, <2>3, Closing
  <2>5. ChangesOnly(r, s, {"off"} \cup Shown)
    BY <2>3, <2>4, OnlyTwice
  <2>6. QED
    BY <1>1, <1>10, <2>3, <2>4, <2>5 DEF ChangesOnly, Shown, Fields, Reopens, ShowsOn, StoredOn, ViewOn, SaysElse, KeepsCalls, Views
<1>11. QED
  BY <1>4, <1>5, <1>6, <1>7, <1>8, <1>9, <1>10 DEF AccountKinds

-----------------------------------------------------------------------------
(* What each page keeps *)

Subs == {"pending", "anon", "user", "left"}
SiteTypes(s) ==
  /\ IsSite(s) /\ s.page \in Pages /\ s.stored \in SessionStates /\ s.view \in Views /\ s.sub \in Subs /\ s.n \in Nat
  /\ s.off \subseteq Forms \cup {"anon"} /\ s.gone \subseteq {"link"} /\ \A c \in s.calls : IsCall(c)
Waits(s, what) == \E c \in s.calls : c.what = what
Silent(s, areas) == \A a \in areas : s.said[a] \notin {"linked", "confirmed", "done"}

NewsletterKeeps(s) ==
  s.page = "newsletter" =>
    /\ \A c \in s.calls : c.what = "subscribe"
    /\ ~s.token /\ s.view = "out" /\ Silent(s, {"confirm", "unsubscribe"})
\* A form of the account is closed while a call of it is under way; after a deletion
\* the session is over.
AccountKeeps(s) ==
  s.page = "account" =>
    /\ \A c \in s.calls : c.what \in AccountKinds
    /\ ~s.token /\ Silent(s, {"confirm", "unsubscribe"})
    /\ \A f \in {"enrol", "export"} : f \in s.off => Waits(s, f)
    /\ "delete" \in s.off => Waits(s, "delete") \/ s.stored # "live"
\* A promise is kept by the calls under way; what was answered was done.
ConfirmKeeps(s) ==
  s.page = "confirm" =>
    /\ \A c \in s.calls : c.what = "confirm" /\ c.as \in {"user", "anon"} /\ (c.answer = "true" => s.sub = c.as)
    /\ s.sub # "left" /\ s.view = "out" /\ Silent(s, {"unsubscribe"})
    /\ (s.promised /\ ~s.chose) => s.sub # "anon" /\ \A c \in s.calls : c.as # "anon"
    /\ (~s.promised /\ ~s.chose) => s.stored # "live" /\ \A c \in s.calls : c.as # "user"
    /\ s.said["confirm"] = "linked" => s.sub = "user"
    /\ s.said["confirm"] = "confirmed" => s.sub \in {"anon", "user"}
    /\ {"confirm", "anon"} \cap s.off # {} => ~s.token \/ s.calls # {}
    /\ "unsubscribe" \in s.off => ~s.token
UnsubscribeKeeps(s) ==
  s.page = "unsubscribe" =>
    /\ \A c \in s.calls : /\ c.what \in {"unsubscribe", "link"}
                          /\ (c.what = "unsubscribe" /\ c.answer = "true") => s.sub = "left"
    /\ s.view = "out" /\ Silent(s, {"confirm"})
    /\ s.said["unsubscribe"] = "done" => s.sub = "left"
    /\ {"confirm", "anon"} \cap s.off # {} => ~s.token
    /\ "unsubscribe" \in s.off => ~s.token \/ Waits(s, "unsubscribe")
    /\ "link" \in s.off => ~s.token \/ "link" \in s.gone \/ s.calls # {}
SiteInv(s) == SiteTypes(s) /\ NewsletterKeeps(s) /\ AccountKeeps(s) /\ ConfirmKeeps(s) /\ UnsubscribeKeeps(s)

SiteHolds == SiteInv(site)

\* A page of one kind is none of the others.
LEMMA OnePage ==
  ASSUME NEW s, SiteTypes(s),
         \/ s.page = "newsletter" /\ NewsletterKeeps(s)
         \/ s.page = "account" /\ AccountKeeps(s)
         \/ s.page = "confirm" /\ ConfirmKeeps(s)
         \/ s.page = "unsubscribe" /\ UnsubscribeKeeps(s)
  PROVE  SiteInv(s)
BY DEF SiteInv, NewsletterKeeps, AccountKeeps, ConfirmKeeps, UnsubscribeKeeps

-----------------------------------------------------------------------------
(* The service works on a call, or does not *)

\* Nobody but the service changes the tables; the calls stay, their answers may change.
Table == {"calls", "sub", "account", "accepts"}
SameCalls(r, s) ==
  /\ \A d \in s.calls : \E e \in r.calls : e.what = d.what
  /\ \A e \in r.calls : IsCall(e)
Worked(c, s, t) ==  \* t is the subscription after c worked on s
  /\ c.what = "confirm" => t = IF s.sub = "pending" THEN c.as ELSE s.sub
  /\ c.what = "link" => t = IF s.sub \in {"anon", "user"} THEN "user" ELSE s.sub
  /\ c.what = "unsubscribe" => t = "left"
  /\ c.what \notin {"confirm", "link", "unsubscribe"} => t = s.sub
\* Every call of r was one of s; if it says so now, it was told so before, or is c and worked.
Answering(r, s, c) ==
  /\ r.sub = s.sub \/ Worked(c, s, r.sub)
  /\ \A e \in r.calls : \E d \in s.calls :
       /\ e.what = d.what /\ e.as = d.as
       /\ e.answer = "true" =>
            d.answer = "true" \/ (d = c /\ Worked(c, s, r.sub) /\ (c.what = "confirm" => s.sub = "pending"))

LEMMA EffectWorks ==
  ASSUME SiteTypes(site), NEW c \in site.calls, c.what = "confirm" => c.as \in {"user", "anon"}
  PROVE  /\ ChangesOnly(Effect(c), site, Table) /\ Worked(c, site, Effect(c).sub) /\ Effect(c).sub \in Subs
         /\ \E a \in {"true", "false"} :
              /\ Effect(c).calls = (site.calls \ {c}) \cup {[c EXCEPT !.answer = a]}
              /\ (a = "true" /\ c.what = "confirm") => site.sub = "pending"
<1>1. IsSite(site) /\ site.sub \in Subs /\ IsCall(c) /\ c.what \in CallKinds
  BY DEF SiteTypes, IsCall
<1>2. ASSUME NEW q, ChangesOnly(q, site, Table), q.calls = site.calls, q.sub \in Subs, Worked(c, site, q.sub), NEW ok,
             (ok /\ c.what = "confirm") => site.sub = "pending", Effect(c) = Done(c, q, ok)
      PROVE  /\ ChangesOnly(Effect(c), site, Table) /\ Worked(c, site, Effect(c).sub) /\ Effect(c).sub \in Subs
             /\ \E a \in {"true", "false"} :
                  /\ Effect(c).calls = (site.calls \ {c}) \cup {[c EXCEPT !.answer = a]}
                  /\ (a = "true" /\ c.what = "confirm") => site.sub = "pending"
  <2>1. PICK a : a = IF ok THEN "true" ELSE "false"
    OBVIOUS
  <2>2. PICK e : e = [c EXCEPT !.answer = a]
    OBVIOUS
  <2>3. PICK r : r = Effect(c)
    OBVIOUS
  <2>4. r = [q EXCEPT !.calls = (@ \ {c}) \cup {e}]
    BY <1>2, <2>1, <2>2, <2>3 DEF Done
  <2>5. ChangesOnly(r, q, {"calls"}) /\ r.calls = (site.calls \ {c}) \cup {e}
    BY <1>2, <2>4 DEF ChangesOnly, IsSite, Fields
  <2>6. ChangesOnly(r, site, {"calls"} \cup Table) /\ r.sub = q.sub
    BY <1>2, <2>5, OnlyTwice DEF ChangesOnly, Fields
  <2>7. ChangesOnly(r, site, Table)
    BY <2>6 DEF ChangesOnly, Table
  <2>8. a \in {"true", "false"} /\ ((a = "true" /\ c.what = "confirm") => site.sub = "pending")
    BY <1>2, <2>1
  <2>9. QED
    BY <1>2, <2>2, <2>3, <2>5, <2>6, <2>7, <2>8
<1>3. CASE c.what \in {"user", "export", "otp", "subscribe"}
  <2>1. Effect(c) = Done(c, site, TRUE)
    BY <1>3 DEF Effect
  <2>2. Worked(c, site, site.sub) /\ ChangesOnly(site, site, Table)
    BY <1>1, <1>3 DEF Worked, ChangesOnly
  <2>3. QED
    BY <1>1, <1>2, <1>3, <2>1, <2>2
<1>4. CASE c.what = "load"
  <2>1. Effect(c) = Done(c, site, site.account)
    BY <1>4 DEF Effect
  <2>2. Worked(c, site, site.sub) /\ ChangesOnly(site, site, Table)
    BY <1>1, <1>4 DEF Worked, ChangesOnly
  <2>3. QED
    BY <1>1, <1>2, <1>4, <2>1, <2>2
<1>5. CASE c.what = "enrol"
  <2>1. PICK q : q = [site EXCEPT !.account = TRUE]
    OBVIOUS
  <2>2. Effect(c) = Done(c, q, TRUE)
    BY <1>5, <2>1 DEF Effect
  <2>3. ChangesOnly(q, site, Table) /\ q.calls = site.calls /\ q.sub = site.sub
    BY <1>1, <2>1 DEF ChangesOnly, IsSite, Fields, Table
  <2>4. Worked(c, site, q.sub)
    BY <1>5, <2>3 DEF Worked
  <2>5. QED
    BY <1>1, <1>2, <1>5, <2>2, <2>3, <2>4
<1>6. CASE c.what = "delete"
  <2>1. PICK q : q = [site EXCEPT !.account = FALSE]
    OBVIOUS
  <2>2. Effect(c) = Done(c, q, site.account)
    BY <1>6, <2>1 DEF Effect
  <2>3. ChangesOnly(q, site, Table) /\ q.calls = site.calls /\ q.sub = site.sub
    BY <1>1, <2>1 DEF ChangesOnly, IsSite, Fields, Table
  <2>4. Worked(c, site, q.sub)
    BY <1>6, <2>3 DEF Worked
  <2>5. QED
    BY <1>1, <1>2, <1>6, <2>2, <2>3, <2>4
<1>7. CASE c.what = "logout"
  <2>1. PICK q : q = [site EXCEPT !.accepts = FALSE]
    OBVIOUS
  <2>2. Effect(c) = Done(c, q, TRUE)
    BY <1>7, <2>1 DEF Effect
  <2>3. ChangesOnly(q, site, Table) /\ q.calls = site.calls /\ q.sub = site.sub
    BY <1>1, <2>1 DEF ChangesOnly, IsSite, Fields, Table
  <2>4. Worked(c, site, q.sub)
    BY <1>7, <2>3 DEF Worked
  <2>5. QED
    BY <1>1, <1>2, <1>7, <2>2, <2>3, <2>4
<1>8. CASE c.what = "confirm"
  <2>1. PICK q : q = [site EXCEPT !.sub = IF @ = "pending" THEN c.as ELSE @]
    OBVIOUS
  <2>2. Effect(c) = Done(c, q, site.sub = "pending")
    BY <1>8, <2>1 DEF Effect
  <2>3. ChangesOnly(q, site, Table) /\ q.calls = site.calls /\ q.sub = IF site.sub = "pending" THEN c.as ELSE site.sub
    BY <1>1, <2>1 DEF ChangesOnly, IsSite, Fields, Table
  <2>4. Worked(c, site, q.sub) /\ q.sub \in Subs
    BY <1>1, <1>8, <2>3 DEF Worked, Subs
  <2>5. PICK ok \in BOOLEAN : ok <=> site.sub = "pending"
    OBVIOUS
  <2>6. ok = (site.sub = "pending")
    BY <2>5
  <2>7. QED
    BY <1>2, <2>2, <2>3, <2>4, <2>5, <2>6
<1>9. CASE c.what = "link"
  <2>1. PICK q : q = [site EXCEPT !.sub = IF @ \in {"anon", "user"} THEN "user" ELSE @]
    OBVIOUS
  <2>2. PICK ok : Effect(c) = Done(c, q, ok)
    BY <1>9, <2>1 DEF Effect
  <2>3. ChangesOnly(q, site, Table) /\ q.calls = site.calls /\ q.sub = IF site.sub \in {"anon", "user"} THEN "user" ELSE site.sub
    BY <1>1, <2>1 DEF ChangesOnly, IsSite, Fields, Table
  <2>4. Worked(c, site, q.sub) /\ q.sub \in Subs
    BY <1>1, <1>9, <2>3 DEF Worked, Subs
  <2>5. QED
    BY <1>2, <1>9, <2>2, <2>3, <2>4
<1>10. CASE c.what = "unsubscribe"
  <2>1. PICK q : q = [site EXCEPT !.sub = "left"]
    OBVIOUS
  <2>2. PICK ok : Effect(c) = Done(c, q, ok)
    BY <1>10, <2>1 DEF Effect
  <2>3. ChangesOnly(q, site, Table) /\ q.calls = site.calls /\ q.sub = "left"
    BY <1>1, <2>1 DEF ChangesOnly, IsSite, Fields, Table
  <2>4. Worked(c, site, q.sub) /\ q.sub \in Subs
    BY <1>10, <2>3 DEF Worked, Subs
  <2>5. QED
    BY <1>2, <1>10, <2>2, <2>3, <2>4
<1>11. QED
  BY <1>1, <1>3, <1>4, <1>5, <1>6, <1>7, <1>8, <1>9, <1>10 DEF CallKinds

LEMMA UnservedKeeps ==
  ASSUME NEW q, IsSite(q), \A d \in q.calls : IsCall(d), NEW c, NEW a \in Answers, a # "true"
  PROVE  /\ ChangesOnly(Unserved(c, q, a), q, {"calls"}) /\ SameCalls(Unserved(c, q, a), q)
         /\ \A e \in Unserved(c, q, a).calls : \E d \in q.calls :
              e.what = d.what /\ e.as = d.as /\ (e.answer = "true" => e = d)
<1> DEFINE Now(d) == IF d.what = c.what /\ d.n = c.n THEN [d EXCEPT !.answer = a] ELSE d
<1>1. PICK r : r = Unserved(c, q, a)
  OBVIOUS
<1>2. ChangesOnly(r, q, {"calls"}) /\ r.calls = {Now(d) : d \in q.calls}
  BY <1>1 DEF Unserved, ChangesOnly, IsSite, Fields
<1>3. \A d \in q.calls : /\ IsCall(Now(d)) /\ Now(d).what = d.what /\ Now(d).as = d.as
                         /\ Now(d).answer = "true" => Now(d) = d
  BY DEF IsCall
<1> HIDE DEF Now
<1>4. SameCalls(r, q)
  BY <1>2, <1>3 DEF SameCalls
<1>5. QED
  BY <1>1, <1>2, <1>3, <1>4

LEMMA ServiceAnswers ==
  ASSUME SiteTypes(site), NEW c \in site.calls, c.what = "confirm" => c.as \in {"user", "anon"}, Serve(c)
  PROVE  ChangesOnly(site', site, Table) /\ SameCalls(site', site) /\ Answering(site', site, c) /\ site'.sub \in Subs
<1>1. PICK q : q = Effect(c)
  OBVIOUS
<1>2. PICK a \in {"true", "false"} :
        /\ ChangesOnly(q, site, Table) /\ Worked(c, site, q.sub) /\ q.sub \in Subs
        /\ q.calls = (site.calls \ {c}) \cup {[c EXCEPT !.answer = a]}
        /\ (a = "true" /\ c.what = "confirm") => site.sub = "pending"
  BY <1>1, EffectWorks
<1>3. IsSite(site) /\ site.sub \in Subs /\ \A d \in site.calls : IsCall(d)
  BY DEF SiteTypes
<1>4. PICK new : new = [c EXCEPT !.answer = a]
  OBVIOUS
<1>5. IsCall(new) /\ new.what = c.what /\ new.as = c.as /\ new.answer = a
  BY <1>2, <1>3, <1>4 DEF IsCall, Answers
<1>6. q.calls = (site.calls \ {c}) \cup {new}
  BY <1>2, <1>4
<1>7. SameCalls(q, site) /\ Answering(q, site, c) /\ IsSite(q)
  <2>1. SameCalls(q, site) /\ IsSite(q)
    BY <1>2, <1>3, <1>5, <1>6 DEF SameCalls, ChangesOnly
  <2>2. \A e \in q.calls : \E d \in site.calls :
          /\ e.what = d.what /\ e.as = d.as
          /\ e.answer = "true" =>
               d.answer = "true" \/ (d = c /\ Worked(c, site, q.sub) /\ (c.what = "confirm" => site.sub = "pending"))
    <3> SUFFICES ASSUME NEW e \in q.calls
                 PROVE  \E d \in site.calls :
                          /\ e.what = d.what /\ e.as = d.as
                          /\ e.answer = "true" =>
                               d.answer = "true" \/ (d = c /\ Worked(c, site, q.sub) /\ (c.what = "confirm" => site.sub = "pending"))
      OBVIOUS
    <3>1. CASE e = new
      BY <1>2, <1>5, <3>1
    <3>2. CASE e # new
      BY <1>6, <3>2
    <3>3. QED
      BY <3>1, <3>2
  <2>3. QED
    BY <1>2, <2>1, <2>2 DEF Answering
<1>8. ASSUME NEW p \in {q, site}, NEW b \in Answers \ {"true"}, NEW r, r = Unserved(c, p, b)
      PROVE  ChangesOnly(r, site, Table) /\ SameCalls(r, site) /\ Answering(r, site, c) /\ r.sub \in Subs
  <2>1. /\ IsSite(p) /\ ChangesOnly(p, site, Table) /\ SameCalls(p, site) /\ p.sub \in Subs
        /\ Answering(p, site, c)
    BY <1>2, <1>3, <1>7 DEF SameCalls, Answering, ChangesOnly
  <2>2. \A d \in p.calls : IsCall(d)
    BY <2>1 DEF SameCalls
  <2>3. /\ ChangesOnly(r, p, {"calls"}) /\ SameCalls(r, p)
        /\ \A e \in r.calls : \E d \in p.calls : e.what = d.what /\ e.as = d.as /\ (e.answer = "true" => e = d)
    BY <1>8, <2>1, <2>2, UnservedKeeps
  <2>4. ChangesOnly(r, site, {"calls"} \cup Table) /\ r.sub = p.sub
    BY <2>1, <2>3, OnlyTwice DEF ChangesOnly, Fields
  <2>5. ChangesOnly(r, site, Table)
    BY <2>4 DEF ChangesOnly, Table
  <2>6. SameCalls(r, site)
    BY <2>1, <2>3 DEF SameCalls
  <2>7. Answering(r, site, c)
    <3>1. \A e \in r.calls : \E d \in site.calls :
            /\ e.what = d.what /\ e.as = d.as
            /\ e.answer = "true" =>
                 d.answer = "true" \/ (d = c /\ Worked(c, site, r.sub) /\ (c.what = "confirm" => site.sub = "pending"))
      <4> TAKE e \in r.calls
      <4>1. PICK f \in p.calls : e.what = f.what /\ e.as = f.as /\ (e.answer = "true" => e = f)
        BY <2>3
      <4>2. PICK d \in site.calls :
              /\ f.what = d.what /\ f.as = d.as
              /\ f.answer = "true" =>
                   d.answer = "true" \/ (d = c /\ Worked(c, site, p.sub) /\ (c.what = "confirm" => site.sub = "pending"))
        BY <2>1 DEF Answering
      <4>3. QED
        BY <2>4, <4>1, <4>2
    <3>2. QED
      BY <2>1, <2>4, <3>1 DEF Answering
  <2>8. QED
    BY <2>1, <2>4, <2>5, <2>6, <2>7
<1>9. site' = q \/ \E p \in {q, site}, b \in Answers \ {"true"} : site' = Unserved(c, p, b)
  BY <1>1 DEF Serve, Answers
<1>10. QED
  BY <1>2, <1>7, <1>8, <1>9

\* The call is taken off when its answer reaches the page.
Without(s, c) == [s EXCEPT !.calls = @ \ {c}]
LEMMA TakenOff ==
  ASSUME NEW s, SiteTypes(s), NEW c \in s.calls
  PROVE  /\ ChangesOnly(Without(s, c), s, {"calls"}) /\ Without(s, c).calls = s.calls \ {c} /\ IsCall(c)
         /\ SiteTypes(Without(s, c))
<1>1. ChangesOnly(Without(s, c), s, {"calls"}) /\ Without(s, c).calls = s.calls \ {c}
  BY DEF Without, ChangesOnly, SiteTypes, IsSite, Fields
<1>2. QED
  BY <1>1 DEF SiteTypes, ChangesOnly, Fields

-----------------------------------------------------------------------------
(* The steps *)

LEMMA ServiceKeeps ==
  ASSUME SiteInv(site), NEW c \in site.calls, Serve(c)
  PROVE  SiteInv(site')
<1>1. SiteTypes(site) /\ NewsletterKeeps(site) /\ AccountKeeps(site) /\ ConfirmKeeps(site) /\ UnsubscribeKeeps(site)
  BY DEF SiteInv
<1>2. site.page \in Pages /\ IsCall(c)
  BY <1>1 DEF SiteTypes
<1>3. c.what = "confirm" => c.as \in {"user", "anon"}
  BY <1>1, <1>2 DEF Pages, NewsletterKeeps, AccountKeeps, AccountKinds, ConfirmKeeps, UnsubscribeKeeps
<1>4. ChangesOnly(site', site, Table) /\ SameCalls(site', site) /\ Answering(site', site, c) /\ site'.sub \in Subs
  BY <1>1, <1>3, ServiceAnswers
<1>5. /\ site'.page = site.page /\ site'.stored = site.stored /\ site'.view = site.view /\ site'.n = site.n
      /\ site'.off = site.off /\ site'.gone = site.gone /\ site'.token = site.token /\ site'.said = site.said
      /\ site'.promised = site.promised /\ site'.chose = site.chose
  BY <1>4 DEF ChangesOnly, Fields, Table
<1>6. SiteTypes(site')
  BY <1>1, <1>4, <1>5 DEF SiteTypes, SameCalls, ChangesOnly
<1>7. /\ \A what : Waits(site, what) => Waits(site', what)
      /\ site.calls # {} => site'.calls # {}
      /\ \A e \in site'.calls : \E d \in site.calls :
           /\ e.what = d.what /\ e.as = d.as
           /\ e.answer = "true" =>
                d.answer = "true" \/ (d = c /\ Worked(c, site, site'.sub) /\ (c.what = "confirm" => site.sub = "pending"))
      /\ site'.sub = site.sub \/ Worked(c, site, site'.sub)
  BY <1>4 DEF SameCalls, Answering, Waits
<1>8. CASE site.page = "newsletter"
  <2>1. NewsletterKeeps(site')
    BY <1>1, <1>5, <1>7, <1>8 DEF NewsletterKeeps, Silent
  <2>2. QED
    BY <1>5, <1>6, <1>8, <2>1, OnePage
<1>9. CASE site.page = "account"
  <2>1. AccountKeeps(site')
    BY <1>1, <1>5, <1>7, <1>9 DEF AccountKeeps, Silent
  <2>2. QED
    BY <1>5, <1>6, <1>9, <2>1, OnePage
<1>10. CASE site.page = "confirm"
  <2>1. c.what = "confirm" /\ c.as \in {"user", "anon"}
    BY <1>1, <1>10 DEF ConfirmKeeps
  <2>2. site'.sub = (IF site.sub = "pending" THEN c.as ELSE site.sub) \/ site'.sub = site.sub
    BY <1>7, <2>1 DEF Worked
  <2>3. \A e \in site'.calls : e.what = "confirm" /\ e.as \in {"user", "anon"} /\ (e.answer = "true" => site'.sub = e.as)
    <3> TAKE e \in site'.calls
    <3>1. PICK d \in site.calls :
           /\ e.what = d.what /\ e.as = d.as
           /\ e.answer = "true" =>
                d.answer = "true" \/ (d = c /\ Worked(c, site, site'.sub) /\ (c.what = "confirm" => site.sub = "pending"))
      BY <1>7
    <3>2. d.what = "confirm" /\ d.as \in {"user", "anon"} /\ (d.answer = "true" => site.sub = d.as)
      BY <1>1, <1>10 DEF ConfirmKeeps
    <3>3. QED
      BY <2>1, <2>2, <3>1, <3>2 DEF Worked
  <2>4. site'.sub # "left"
    BY <1>1, <1>10, <2>1, <2>2 DEF ConfirmKeeps
  <2>5. /\ (site'.promised /\ ~site'.chose) => site'.sub # "anon" /\ \A e \in site'.calls : e.as # "anon"
        /\ (~site'.promised /\ ~site'.chose) => site'.stored # "live" /\ \A e \in site'.calls : e.as # "user"
    <3>1. /\ (site.promised /\ ~site.chose) => site.sub # "anon" /\ \A d \in site.calls : d.as # "anon"
          /\ (~site.promised /\ ~site.chose) => site.stored # "live" /\ \A d \in site.calls : d.as # "user"
      BY <1>1, <1>10 DEF ConfirmKeeps
    <3>2. QED
      BY <1>5, <1>7, <2>2, <3>1
  <2>6. ConfirmKeeps(site')
    BY <1>1, <1>5, <1>7, <1>10, <2>2, <2>3, <2>4, <2>5 DEF ConfirmKeeps, Silent
  <2>7. QED
    BY <1>5, <1>6, <1>10, <2>6, OnePage
<1>11. CASE site.page = "unsubscribe"
  <2>1. c.what \in {"unsubscribe", "link"} /\ (site.sub = "left" => site'.sub = "left")
    BY <1>1, <1>7, <1>11 DEF UnsubscribeKeeps, Worked
  <2>2. \A e \in site'.calls : /\ e.what \in {"unsubscribe", "link"}
                               /\ (e.what = "unsubscribe" /\ e.answer = "true") => site'.sub = "left"
    <3> TAKE e \in site'.calls
    <3>1. PICK d \in site.calls :
           /\ e.what = d.what /\ e.as = d.as
           /\ e.answer = "true" =>
                d.answer = "true" \/ (d = c /\ Worked(c, site, site'.sub) /\ (c.what = "confirm" => site.sub = "pending"))
      BY <1>7
    <3>2. d.what \in {"unsubscribe", "link"} /\ ((d.what = "unsubscribe" /\ d.answer = "true") => site.sub = "left")
      BY <1>1, <1>11 DEF UnsubscribeKeeps
    <3>3. QED
      BY <2>1, <3>1, <3>2 DEF Worked
  <2>3. UnsubscribeKeeps(site')
    BY <1>1, <1>5, <1>7, <1>11, <2>1, <2>2 DEF UnsubscribeKeeps, Silent
  <2>4. QED
    BY <1>5, <1>6, <1>11, <2>3, OnePage
<1>12. QED
  BY <1>2, <1>8, <1>9, <1>10, <1>11 DEF Pages

LEMMA AccountAnswerKeeps ==
  ASSUME SiteInv(site), site.page = "account", NEW c \in site.calls, Answered(c)
  PROVE  SiteInv(site')
<1>1. SiteTypes(site) /\ AccountKeeps(site)
  BY DEF SiteInv
<1>2. PICK s : s = Without(site, c)
  OBVIOUS
<1>3. ChangesOnly(s, site, {"calls"}) /\ s.calls = site.calls \ {c} /\ IsCall(c) /\ SiteTypes(s)
  BY <1>1, <1>2, TakenOff
<1>4. c.what \in AccountKinds
  BY <1>1 DEF AccountKeeps
<1>5. site' = AccountAnswer(s, c)
  BY <1>2, <1>4 DEF Answered, Without, AccountKinds
<1>6. Reopens(site', s, c)
  BY <1>3, <1>4, <1>5, AccountAnswers DEF SiteTypes
<1>7. /\ site'.page = site.page /\ site'.n = site.n /\ site'.sub = site.sub /\ site'.gone = site.gone
      /\ site'.token = site.token /\ site'.off \subseteq site.off /\ s.said = site.said /\ s.stored = site.stored
  BY <1>3, <1>6 DEF Reopens, ChangesOnly, Shown, Fields
<1>8. /\ \A d \in site'.calls : IsCall(d) /\ (d \in s.calls \/ d.what \in {"user", "load", "logout"})
      /\ s.calls \subseteq site'.calls
  BY <1>3, <1>6 DEF Reopens, KeepsCalls, Added, SiteTypes
<1>9. SiteTypes(site')
  BY <1>1, <1>6, <1>7, <1>8 DEF SiteTypes, Reopens, ChangesOnly, StoredOn
<1>10. \A d \in site'.calls : d.what \in AccountKinds
  BY <1>1, <1>3, <1>8 DEF AccountKeeps, AccountKinds
<1>11. ASSUME NEW f \in {"enrol", "export", "delete"}, f \in site'.off, Waits(site, f), f # c.what
       PROVE  Waits(site', f)
  BY <1>3, <1>8, <1>11 DEF Waits
<1>12. \A f \in {"enrol", "export"} : f \in site'.off => Waits(site', f)
  BY <1>1, <1>6, <1>7, <1>11 DEF AccountKeeps, Reopens
<1>13. "delete" \in site'.off => Waits(site', "delete") \/ site'.stored # "live"
  <2> SUFFICES ASSUME "delete" \in site'.off, site'.stored = "live" PROVE Waits(site', "delete")
    OBVIOUS
  <2>1. "delete" \in site.off /\ site.stored = "live" /\ c.what # "delete"
    BY <1>6, <1>7 DEF Reopens, StoredOn
  <2>2. QED
    BY <1>1, <1>11, <2>1 DEF AccountKeeps
<1>14. ~site'.token /\ Silent(site', {"confirm", "unsubscribe"})
  BY <1>1, <1>6, <1>7 DEF AccountKeeps, Silent, Reopens, SaysElse
<1>15. AccountKeeps(site')
  BY <1>10, <1>12, <1>13, <1>14 DEF AccountKeeps
<1>16. QED
  BY <1>7, <1>9, <1>15, OnePage

\* What an answer says on the page of the confirmation link.
ConfirmTold(r, s, c) ==
  /\ ChangesOnly(r, s, {"token", "anon", "said", "off", "stored", "promised"}) /\ StoredOn(r, s) /\ r.off \subseteq s.off
  /\ \A a \in Areas \ {"confirm"} : r.said[a] = s.said[a]
  /\ r.said["confirm"] = "linked" => c.answer = "true" /\ c.as = "user"
  /\ r.said["confirm"] = "confirmed" => c.answer = "true"
  /\ ~r.token \/ {"confirm", "anon"} \cap r.off = {}
  /\ r.token => s.token
  /\ r.promised = s.promised \/ (r.promised = TRUE /\ c.as = "user")

LEMMA ConfirmAnswers ==
  ASSUME NEW s, SiteTypes(s), NEW c, IsCall(c), c.answer # "none", c.as \in {"user", "anon"}
  PROVE  ConfirmTold(ConfirmAnswer(s, c), s, c)
<1> DEFINE Told(r) ==
         /\ ChangesOnly(r, s, {"token", "anon", "said", "off", "stored", "promised"}) /\ StoredOn(r, s) /\ r.off \subseteq s.off
         /\ \A a \in Areas \ {"confirm"} : r.said[a] = s.said[a]
         /\ ~r.token \/ {"confirm", "anon"} \cap r.off = {}
         /\ r.token => s.token
         /\ r.promised = s.promised \/ (r.promised = TRUE /\ c.as = "user")
<1>1. IsSite(s) /\ s.stored \in SessionStates
  BY DEF SiteTypes
<1>2. ASSUME NEW q, Told(q), NEW text
      PROVE  Told(SayIn(q, "confirm", text)) /\ SayIn(q, "confirm", text).said["confirm"] = text
  <2> USE DEF Told
  <2>1. PICK r : r = SayIn(q, "confirm", text)
    OBVIOUS
  <2>2. IsSite(q) /\ "confirm" \in Areas
    BY <1>2 DEF ChangesOnly, Areas
  <2>3. ChangesOnly(r, q, {"said"}) /\ r.said["confirm"] = text /\ \A a \in Areas \ {"confirm"} : r.said[a] = q.said[a]
    BY <2>1, <2>2, Saying
  <2>4. Told(r)
    BY <1>2, <2>3 DEF ChangesOnly, StoredOn, Fields
  <2>5. QED
    BY <2>1, <2>3, <2>4
<1> HIDE DEF Told
<1>3. PICK e : e = Enable(s, {"confirm", "anon"})
  OBVIOUS
<1>4. ChangesOnly(e, s, {"off"}) /\ e.off = s.off \ {"confirm", "anon"} /\ IsSite(e) /\ e.stored \in SessionStates
  BY <1>1, <1>3, Closing DEF ChangesOnly, Fields, SiteTypes
<1>5. CASE ~Failed(c)
  <2> DEFINE q == [s EXCEPT !.token = FALSE, !.anon = FALSE]
  <2>1. Told(q)
    BY <1>1 DEF ChangesOnly, IsSite, Fields, StoredOn, Told
  <2>2. PICK text : /\ ConfirmAnswer(s, c) = SayIn(q, "confirm", text)
                    /\ text = "linked" => c.answer = "true" /\ c.as = "user"
                    /\ text = "confirmed" => c.answer = "true"
    <3>a. PICK invalid : invalid = "not valid"
      OBVIOUS
    <3>b. invalid # "linked" /\ invalid # "confirmed"
      BY <3>a, Zenon
    <3>1. ConfirmAnswer(s, c) = SayIn(q, "confirm", IF c.answer # "true" THEN invalid
                                                   ELSE IF c.as = "user" THEN "linked" ELSE "confirmed")
      BY <1>5, <3>a DEF ConfirmAnswer
    <3> HIDE DEF q
    <3>2. CASE c.answer # "true"
      BY <3>b, <3>1, <3>2
    <3>3. CASE c.answer = "true" /\ c.as = "user"
      BY <3>1, <3>3
    <3>4. CASE c.answer = "true" /\ c.as # "user"
      BY <3>1, <3>4
    <3>5. QED
      BY <3>2, <3>3, <3>4
  <2> HIDE DEF q
  <2>3. Told(ConfirmAnswer(s, c)) /\ ConfirmAnswer(s, c).said["confirm"] = text
    BY <1>2, <2>1, <2>2
  <2>4. QED
    BY <2>2, <2>3 DEF Told, ConfirmTold
<1>6. CASE Failed(c) /\ c.as = "user" /\ c.answer = "401"
  <2>1. PICK o : o = ClearSession(e)
    OBVIOUS
  <2>2. ChangesOnly(o, e, {"stored"}) /\ o.stored = "none"
    BY <1>4, <2>1, Sessions
  <2> DEFINE q == [o EXCEPT !.promised = TRUE, !.anon = TRUE]
  <2>3. /\ ChangesOnly(q, o, {"promised", "anon"}) /\ q.promised = TRUE
    BY <2>2 DEF ChangesOnly, IsSite, Fields
  <2>a. PICK text : text = "not confirmed"
    OBVIOUS
  <2>b. text # "linked" /\ text # "confirmed"
    BY <2>a, Zenon
  <2>5. ConfirmAnswer(s, c) = SayIn(q, "confirm", text)
    BY <1>3, <1>6, <2>1, <2>a DEF ConfirmAnswer
  <2> HIDE DEF q
  <2>6. Told(q)
    BY <1>4, <1>6, <2>2, <2>3 DEF ChangesOnly, Fields, StoredOn, SessionStates, Told
  <2>7. Told(ConfirmAnswer(s, c)) /\ ConfirmAnswer(s, c).said["confirm"] = text
    BY <1>2, <2>5, <2>6
  <2>8. QED
    BY <2>b, <2>7 DEF Told, ConfirmTold
<1>7. CASE Failed(c) /\ ~(c.as = "user" /\ c.answer = "401")
  <2>1. ConfirmAnswer(s, c) = SayIn(e, "confirm", "error")
    BY <1>3, <1>7 DEF ConfirmAnswer
  <2>2. Told(e)
    BY <1>1, <1>4 DEF ChangesOnly, Fields, StoredOn, Told
  <2>3. Told(ConfirmAnswer(s, c)) /\ ConfirmAnswer(s, c).said["confirm"] = "error"
    BY <1>2, <2>1, <2>2
  <2>4. QED
    BY <2>3 DEF Told, ConfirmTold
<1>8. QED
  BY <1>5, <1>6, <1>7

LEMMA ConfirmAnswerKeeps ==
  ASSUME SiteInv(site), site.page = "confirm", NEW c \in site.calls, Answered(c)
  PROVE  SiteInv(site')
<1>1. SiteTypes(site) /\ ConfirmKeeps(site)
  BY DEF SiteInv
<1>2. PICK s : s = Without(site, c)
  OBVIOUS
<1>3. ChangesOnly(s, site, {"calls"}) /\ s.calls = site.calls \ {c} /\ IsCall(c) /\ SiteTypes(s)
  BY <1>1, <1>2, TakenOff
<1>4. c.what = "confirm" /\ c.as \in {"user", "anon"} /\ (c.answer = "true" => site.sub = c.as) /\ c.answer # "none"
  BY <1>1 DEF ConfirmKeeps, Answered
<1>5. PICK r : r = ConfirmAnswer(s, c)
  OBVIOUS
<1>6. site' = r
  BY <1>2, <1>4, <1>5 DEF Answered, Without
<1>7. /\ ChangesOnly(r, s, {"token", "anon", "said", "off", "stored", "promised"}) /\ StoredOn(r, s) /\ r.off \subseteq s.off
      /\ \A a \in Areas \ {"confirm"} : r.said[a] = s.said[a]
      /\ r.said["confirm"] = "linked" => c.answer = "true" /\ c.as = "user"
      /\ r.said["confirm"] = "confirmed" => c.answer = "true"
      /\ ~r.token \/ {"confirm", "anon"} \cap r.off = {}
      /\ r.token => s.token
      /\ r.promised = s.promised \/ (r.promised = TRUE /\ c.as = "user")
  <2>1. ConfirmTold(ConfirmAnswer(s, c), s, c)
    BY <1>3, <1>4, ConfirmAnswers
  <2>2. ConfirmTold(r, s, c)
    BY <1>5, <2>1
  <2>3. QED
    BY <2>2 DEF ConfirmTold
<1>8. ChangesOnly(r, site, {"token", "anon", "said", "off", "stored", "promised"} \cup {"calls"}) /\ r.calls = site.calls \ {c}
  BY <1>3, <1>7, OnlyTwice DEF ChangesOnly, Fields
<1>9. /\ r.page = site.page /\ r.view = site.view /\ r.sub = site.sub /\ r.n = site.n /\ r.gone = site.gone /\ r.chose = site.chose
      /\ s.token = site.token /\ s.off = site.off /\ s.stored = site.stored /\ s.promised = site.promised /\ s.said = site.said
  BY <1>3, <1>8 DEF ChangesOnly, Fields
<1>10. SiteTypes(r)
  BY <1>1, <1>7, <1>8, <1>9 DEF SiteTypes, ChangesOnly, StoredOn
<1>11. /\ (site.promised /\ ~site.chose) => site.sub # "anon" /\ \A d \in site.calls : d.as # "anon"
       /\ (~site.promised /\ ~site.chose) => site.stored # "live" /\ \A d \in site.calls : d.as # "user"
  BY <1>1 DEF ConfirmKeeps
<1>12. /\ (r.promised /\ ~r.chose) => r.sub # "anon" /\ \A d \in r.calls : d.as # "anon"
       /\ (~r.promised /\ ~r.chose) => r.stored # "live" /\ \A d \in r.calls : d.as # "user"
  BY <1>7, <1>8, <1>9, <1>11 DEF StoredOn
<1>13. ConfirmKeeps(r)
  BY <1>1, <1>4, <1>7, <1>8, <1>9, <1>12 DEF ConfirmKeeps, Silent, Areas
<1>14. QED
  BY <1>6, <1>9, <1>10, <1>13, OnePage

LEMMA LinkAnswers ==
  ASSUME NEW s, SiteTypes(s), NEW c
  PROVE  LET r == LinkAnswer(s, c) IN
         /\ ChangesOnly(r, s, {"stored", "said", "off", "gone"}) /\ StoredOn(r, s) /\ SaysElse(r, s)
         /\ r.off \subseteq s.off \cup {"link"} /\ s.gone \subseteq r.gone /\ r.gone \subseteq {"link"}
         /\ "link" \in r.off => "link" \in r.gone
<1>1. IsSite(s) /\ s.stored \in SessionStates /\ s.gone \subseteq {"link"}
  BY DEF SiteTypes
<1>2. PICK r : r = AfterRefusal(s, c)
  OBVIOUS
<1>3. ChangesOnly(r, s, {"stored"}) /\ r.stored \in SessionStates /\ (r.stored = "live" => s.stored = "live") /\ IsSite(r)
  BY <1>1, <1>2, Sessions DEF AfterRefusal, ChangesOnly, SessionStates
<1>4. "link" \in Areas /\ "confirm" \in Areas \ {"link"} /\ "unsubscribe" \in Areas \ {"link"}
  BY DEF Areas
<1>5. CASE c.answer \in Errors401
  <2>1. PICK q : q = [r EXCEPT !.gone = @ \cup {"link"}]
    OBVIOUS
  <2>2. ChangesOnly(q, r, {"gone"}) /\ q.gone = s.gone \cup {"link"} /\ IsSite(q)
    BY <1>3, <2>1 DEF ChangesOnly, IsSite, Fields
  <2>3. PICK o : o = Off(q, {"link"})
    OBVIOUS
  <2>4. ChangesOnly(o, q, {"off"}) /\ o.off = q.off \cup {"link"} /\ IsSite(o)
    BY <2>2, <2>3, Closing DEF ChangesOnly
  <2>5. PICK t : t = SayIn(o, "link", "expired")
    OBVIOUS
  <2>6. ChangesOnly(t, o, {"said"}) /\ \A a \in Areas \ {"link"} : t.said[a] = o.said[a]
    BY <1>4, <2>4, <2>5, Saying
  <2>7. LinkAnswer(s, c) = t
    BY <1>2, <1>5, <2>1, <2>3, <2>5 DEF LinkAnswer
  <2>8. ChangesOnly(t, s, {"stored", "said", "off", "gone"}) /\ t.stored = r.stored /\ t.gone = q.gone /\ t.off = s.off \cup {"link"}
    BY <1>3, <2>2, <2>4, <2>6 DEF ChangesOnly, Fields
  <2>9. o.said = s.said
    BY <1>3, <2>2, <2>4 DEF ChangesOnly, Fields
  <2>10. SaysElse(t, s)
    BY <1>4, <2>6, <2>9 DEF SaysElse
  <2>11. QED
    BY <1>1, <1>3, <2>2, <2>7, <2>8, <2>10 DEF StoredOn
<1>6. CASE c.answer \notin Errors401
  <2>1. PICK text : text = IF c.answer = "true" THEN "linked" ELSE IF c.answer = "false" THEN "nothing" ELSE "error"
    OBVIOUS
  <2>2. PICK o : o = SayIn(r, "link", text)
    OBVIOUS
  <2>3. ChangesOnly(o, r, {"said"}) /\ (\A a \in Areas \ {"link"} : o.said[a] = r.said[a]) /\ IsSite(o)
    BY <1>3, <1>4, <2>2, Saying DEF ChangesOnly
  <2>4. PICK t : t = Enable(o, {"link"})
    OBVIOUS
  <2>5. ChangesOnly(t, o, {"off"}) /\ t.off = o.off \ ({"link"} \ o.gone)
    BY <2>3, <2>4, Closing
  <2>6. LinkAnswer(s, c) = t
    BY <1>2, <1>6, <2>1, <2>2, <2>4 DEF LinkAnswer
  <2>7. ChangesOnly(t, s, {"stored", "said", "off", "gone"}) /\ t.stored = r.stored /\ t.gone = s.gone /\ t.said = o.said /\ r.said = s.said
        /\ t.off = s.off \ ({"link"} \ s.gone)
    BY <1>3, <2>3, <2>5 DEF ChangesOnly, Fields
  <2>8. SaysElse(t, s)
    BY <1>4, <2>3, <2>7 DEF SaysElse
  <2>9. QED
    BY <1>1, <1>3, <2>6, <2>7, <2>8 DEF StoredOn
<1>7. QED
  BY <1>5, <1>6

LEMMA UnsubscribeAnswers ==
  ASSUME NEW s, SiteTypes(s), NEW c
  PROVE  LET r == UnsubscribeAnswer(s, c) IN
         /\ ChangesOnly(r, s, {"token", "said", "off"}) /\ r.said["confirm"] = s.said["confirm"] /\ r.off \subseteq s.off
         /\ r.token => s.token
         /\ r.token => "unsubscribe" \notin r.off /\ ("link" \in r.off => "link" \in r.gone)
         /\ r.said["unsubscribe"] = "done" => c.answer = "true"
<1>1. IsSite(s) /\ s.gone \subseteq {"link"} /\ "unsubscribe" \in Areas /\ "confirm" \in Areas \ {"unsubscribe"}
  BY DEF SiteTypes, Areas
<1>2. CASE Failed(c)
  <2>1. PICK o : o = SayIn(s, "unsubscribe", "error")
    OBVIOUS
  <2>2. ChangesOnly(o, s, {"said"}) /\ o.said["unsubscribe"] = "error" /\ o.said["confirm"] = s.said["confirm"] /\ IsSite(o)
    BY <1>1, <2>1, Saying DEF ChangesOnly
  <2>3. PICK t : t = Enable(o, {"unsubscribe", "link"})
    OBVIOUS
  <2>4. ChangesOnly(t, o, {"off"}) /\ t.off = o.off \ ({"unsubscribe", "link"} \ o.gone)
    BY <2>2, <2>3, Closing
  <2>5. UnsubscribeAnswer(s, c) = t
    BY <1>2, <2>1, <2>3 DEF UnsubscribeAnswer
  <2>6. ChangesOnly(t, s, {"token", "said", "off"}) /\ t.token = s.token /\ t.gone = s.gone /\ t.said = o.said
        /\ t.off = s.off \ ({"unsubscribe", "link"} \ s.gone)
    BY <2>2, <2>4 DEF ChangesOnly, Fields
  <2>7. QED
    BY <1>1, <2>2, <2>5, <2>6
<1>3. CASE ~Failed(c)
  <2>1. PICK q : q = [s EXCEPT !.token = FALSE]
    OBVIOUS
  <2>2. ChangesOnly(q, s, {"token"}) /\ q.token = FALSE /\ IsSite(q)
    BY <1>1, <2>1 DEF ChangesOnly, IsSite, Fields
  <2>3. PICK invalid : invalid = "not valid"
    OBVIOUS
  <2>4. invalid # "done"
    BY <2>3, Zenon
  <2>5. PICK text : text = IF c.answer = "true" THEN "done" ELSE invalid
    OBVIOUS
  <2>6. UnsubscribeAnswer(s, c) = SayIn(q, "unsubscribe", text)
    BY <1>3, <2>1, <2>3, <2>5 DEF UnsubscribeAnswer
  <2>7. PICK t : t = SayIn(q, "unsubscribe", text)
    OBVIOUS
  <2>8. ChangesOnly(t, q, {"said"}) /\ t.said["unsubscribe"] = text /\ t.said["confirm"] = q.said["confirm"]
    BY <1>1, <2>2, <2>7, Saying
  <2>9. ChangesOnly(t, s, {"token", "said", "off"}) /\ t.token = FALSE /\ t.off = s.off /\ q.said = s.said
    BY <2>2, <2>8 DEF ChangesOnly, Fields
  <2>10. QED
    BY <2>4, <2>5, <2>6, <2>7, <2>8, <2>9
<1>4. QED
  BY <1>2, <1>3

LEMMA UnsubscribeAnswerKeeps ==
  ASSUME SiteInv(site), site.page = "unsubscribe", NEW c \in site.calls, Answered(c)
  PROVE  SiteInv(site')
<1>1. SiteTypes(site) /\ UnsubscribeKeeps(site)
  BY DEF SiteInv
<1>2. PICK s : s = Without(site, c)
  OBVIOUS
<1>3. ChangesOnly(s, site, {"calls"}) /\ s.calls = site.calls \ {c} /\ IsCall(c) /\ SiteTypes(s)
  BY <1>1, <1>2, TakenOff
<1>4. c.what \in {"unsubscribe", "link"} /\ ((c.what = "unsubscribe" /\ c.answer = "true") => site.sub = "left")
  BY <1>1 DEF UnsubscribeKeeps
<1>5. CASE c.what = "link"
  <2>1. PICK r : r = LinkAnswer(s, c)
    OBVIOUS
  <2>2. site' = r
    BY <1>2, <1>5, <2>1 DEF Answered, Without
  <2>3. /\ ChangesOnly(r, s, {"stored", "said", "off", "gone"}) /\ StoredOn(r, s) /\ SaysElse(r, s)
        /\ r.off \subseteq s.off \cup {"link"} /\ s.gone \subseteq r.gone /\ r.gone \subseteq {"link"}
        /\ "link" \in r.off => "link" \in r.gone
    BY <1>3, <2>1, LinkAnswers
  <2>4. /\ r.calls = site.calls \ {c} /\ r.page = site.page /\ r.view = site.view /\ r.sub = site.sub /\ r.n = site.n
        /\ r.token = site.token /\ s.off = site.off /\ s.said = site.said
    BY <1>3, <2>3 DEF ChangesOnly, Fields
  <2>5. SiteTypes(r)
    BY <1>1, <2>3, <2>4 DEF SiteTypes, ChangesOnly, StoredOn, Forms
  <2>6. Waits(site, "unsubscribe") => Waits(r, "unsubscribe")
    BY <1>5, <2>4 DEF Waits
  <2>7. UnsubscribeKeeps(r)
    BY <1>1, <2>3, <2>4, <2>6 DEF UnsubscribeKeeps, Silent, SaysElse
  <2>8. QED
    BY <2>2, <2>4, <2>5, <2>7, OnePage
<1>6. CASE c.what = "unsubscribe"
  <2>1. PICK r : r = UnsubscribeAnswer(s, c)
    OBVIOUS
  <2>2. site' = r
    BY <1>2, <1>6, <2>1 DEF Answered, Without
  <2>3. /\ ChangesOnly(r, s, {"token", "said", "off"}) /\ r.said["confirm"] = s.said["confirm"] /\ r.off \subseteq s.off
        /\ r.token => s.token
        /\ r.token => "unsubscribe" \notin r.off /\ ("link" \in r.off => "link" \in r.gone)
        /\ r.said["unsubscribe"] = "done" => c.answer = "true"
    BY <1>3, <2>1, UnsubscribeAnswers
  <2>4. /\ r.calls = site.calls \ {c} /\ r.page = site.page /\ r.view = site.view /\ r.sub = site.sub /\ r.n = site.n
        /\ s.token = site.token /\ s.off = site.off /\ s.said = site.said /\ r.gone = site.gone /\ r.stored = site.stored
    BY <1>3, <2>3 DEF ChangesOnly, Fields
  <2>5. SiteTypes(r)
    BY <1>1, <2>3, <2>4 DEF SiteTypes, ChangesOnly
  <2>6. UnsubscribeKeeps(r)
    BY <1>1, <1>4, <1>6, <2>3, <2>4 DEF UnsubscribeKeeps, Silent
  <2>7. QED
    BY <2>2, <2>4, <2>5, <2>6, OnePage
<1>7. QED
  BY <1>4, <1>5, <1>6

LEMMA SubscribeAnswerKeeps ==
  ASSUME SiteInv(site), site.page = "newsletter", NEW c \in site.calls, Answered(c)
  PROVE  SiteInv(site')
<1>1. SiteTypes(site) /\ NewsletterKeeps(site)
  BY DEF SiteInv
<1>2. PICK s : s = Without(site, c)
  OBVIOUS
<1>3. ChangesOnly(s, site, {"calls"}) /\ s.calls = site.calls \ {c} /\ SiteTypes(s) /\ IsSite(s)
  BY <1>1, <1>2, TakenOff DEF SiteTypes
<1>4. c.what = "subscribe"
  BY <1>1 DEF NewsletterKeeps
<1>5. PICK text : text = IF Failed(c) THEN "error" ELSE "queued"
  OBVIOUS
<1>6. PICK o : o = SayIn(s, "subscribe", text)
  OBVIOUS
<1>7. "subscribe" \in Areas /\ "confirm" \in Areas \ {"subscribe"} /\ "unsubscribe" \in Areas \ {"subscribe"}
  BY DEF Areas
<1>8. ChangesOnly(o, s, {"said"}) /\ (\A a \in Areas \ {"subscribe"} : o.said[a] = s.said[a]) /\ IsSite(o)
  BY <1>3, <1>6, <1>7, Saying DEF ChangesOnly
<1>9. PICK r : r = Enable(o, {"subscribe"})
  OBVIOUS
<1>10. ChangesOnly(r, o, {"off"}) /\ r.off = o.off \ ({"subscribe"} \ o.gone)
  BY <1>8, <1>9, Closing
<1>11. site' = r
  BY <1>2, <1>4, <1>5, <1>6, <1>9 DEF Answered, Without, SubscribeAnswer
<1>12. ChangesOnly(r, s, {"said", "off"}) /\ r.said = o.said /\ o.off = s.off
  BY <1>8, <1>10 DEF ChangesOnly, Fields
<1>13. /\ r.calls = site.calls \ {c} /\ r.page = site.page /\ r.view = site.view /\ r.sub = site.sub /\ r.n = site.n
       /\ r.token = site.token /\ s.off = site.off /\ s.said = site.said /\ r.gone = site.gone /\ r.stored = site.stored
  BY <1>3, <1>12 DEF ChangesOnly, Fields
<1>14. SiteTypes(r)
  BY <1>1, <1>10, <1>12, <1>13 DEF SiteTypes, ChangesOnly
<1>15. NewsletterKeeps(r)
  BY <1>1, <1>7, <1>8, <1>12, <1>13 DEF NewsletterKeeps, Silent
<1>16. QED
  BY <1>11, <1>13, <1>14, <1>15, OnePage

-----------------------------------------------------------------------------
(* The person's clicks; each is counted *)

LEMMA Counted ==
  ASSUME NEW q, IsSite(q), NEW m
  PROVE  ChangesOnly([q EXCEPT !.n = m], q, {"n"}) /\ [q EXCEPT !.n = m].n = m
BY DEF ChangesOnly, IsSite, Fields

\* A click on the account page: a form is closed with the call it waits for.
LEMMA AccountMoves ==
  ASSUME NEW s, SiteTypes(s), AccountKeeps(s), s.page = "account",
         NEW r, ChangesOnly(r, s, Shown \cup {"calls", "off", "n"}), StoredOn(r, s), SaysElse(r, s),
         r.view \in Views, r.n \in Nat, s.calls \subseteq r.calls,
         \A d \in r.calls \ s.calls : IsCall(d) /\ d.what \in AccountKinds,
         r.off \subseteq Forms \cup {"anon"},
         \A f \in {"enrol", "export", "delete"} : f \in r.off \ s.off => Waits(r, f)
  PROVE  SiteInv(r)
<1>1. r.page = s.page /\ r.sub = s.sub /\ r.gone = s.gone /\ r.token = s.token
  BY DEF ChangesOnly, Fields, Shown
<1>2. SiteTypes(r)
  BY <1>1 DEF SiteTypes, ChangesOnly, StoredOn
<1>3. \A f : Waits(s, f) => Waits(r, f)
  BY DEF Waits
<1>4. AccountKeeps(r)
  BY <1>1, <1>3 DEF AccountKeeps, Silent, SaysElse, StoredOn
<1>5. QED
  BY <1>1, <1>2, <1>4, OnePage

LEMMA AccountClicksKeep ==
  ASSUME SiteInv(site), ClickSignin \/ ClickRetry \/ ClickEnrol \/ ClickSignOut \/ \E what \in {"export", "delete"} : ClickRight(what)
  PROVE  SiteInv(site')
<1>1. SiteTypes(site) /\ AccountKeeps(site) /\ site.page = "account" /\ IsSite(site) /\ site.stored \in SessionStates /\ site.n \in Nat
      /\ site.view \in Views /\ site.off \subseteq Forms \cup {"anon"}
  BY DEF SiteInv, SiteTypes, ClickSignin, ClickRetry, ClickEnrol, ClickSignOut, ClickRight, OnPage
<1>2. ASSUME NEW q, ChangesOnly(q, site, Shown \cup {"calls", "off"}), StoredOn(q, site), SaysElse(q, site), ViewOn(q, site),
             site.calls \subseteq q.calls, \A d \in q.calls \ site.calls : IsCall(d) /\ d.what \in AccountKinds,
             q.off \subseteq Forms \cup {"anon"},
             \A f \in {"enrol", "export", "delete"} : f \in q.off \ site.off => Waits(q, f),
             site' = [q EXCEPT !.n = site.n + 1]
      PROVE  SiteInv(site')
  <2>1. PICK r : r = [q EXCEPT !.n = site.n + 1]
    OBVIOUS
  <2>2. ChangesOnly(r, q, {"n"}) /\ r.n = site.n + 1 /\ IsSite(q)
    BY <1>2, <2>1, Counted DEF ChangesOnly
  <2>3. ChangesOnly(r, site, {"n"} \cup (Shown \cup {"calls", "off"})) /\ r.n \in Nat
    BY <1>1, <1>2, <2>2, OnlyTwice
  <2>4. ChangesOnly(r, site, Shown \cup {"calls", "off", "n"})
    BY <2>3 DEF ChangesOnly
  <2>5. r.stored = q.stored /\ r.said = q.said /\ r.view = q.view /\ r.calls = q.calls /\ r.off = q.off
    BY <2>2 DEF ChangesOnly, Fields
  <2>6. StoredOn(r, site) /\ SaysElse(r, site) /\ r.view \in Views /\ \A f : Waits(q, f) => Waits(r, f)
    BY <1>1, <1>2, <2>5 DEF StoredOn, SaysElse, ViewOn, Views, Waits
  <2>7. SiteInv(r)
    BY <1>1, <1>2, <2>3, <2>4, <2>5, <2>6, AccountMoves
  <2>8. QED
    BY <1>2, <2>1, <2>7
\* Drawn anew, or signed out: no form is closed.
<1>3. ASSUME NEW q, ChangesOnly(q, site, Shown \cup {"calls"}), ShowsOn(q, site), KeepsCalls(q, site),
             site' = [q EXCEPT !.n = site.n + 1]
      PROVE  SiteInv(site')
  <2>1. ChangesOnly(q, site, Shown \cup {"calls", "off"}) /\ q.off = site.off
    BY <1>3 DEF ChangesOnly, Shown, Fields
  <2>2. site.calls \subseteq q.calls /\ \A d \in q.calls \ site.calls : IsCall(d) /\ d.what \in AccountKinds
    BY <1>3 DEF KeepsCalls, Added, AccountKinds
  <2>3. QED
    BY <1>1, <1>2, <1>3, <2>1, <2>2 DEF ShowsOn
\* A form is closed with its call.
<1>4. ASSUME NEW f \in AccountKinds \cap Forms, site' = [Authed(Off(site, {f}), f, site.n) EXCEPT !.n = site.n + 1]
      PROVE  SiteInv(site')
  <2>1. PICK o : o = Off(site, {f})
    OBVIOUS
  <2>2. ChangesOnly(o, site, {"off"}) /\ o.off = site.off \cup {f} /\ IsSite(o) /\ o.stored = site.stored
    BY <1>1, <2>1, Closing DEF ChangesOnly, Fields
  <2>3. PICK q : q = Authed(o, f, site.n)
    OBVIOUS
  <2>4. ChangesOnly(q, o, {"stored", "calls"}) /\ Added(q, o, f) /\ StoredOn(q, o)
    BY <1>1, <2>2, <2>3, SendsSigned DEF AccountKinds, CallKinds
  <2>5. /\ ChangesOnly(q, site, Shown \cup {"calls", "off"}) /\ q.off = site.off \cup {f} /\ q.said = site.said /\ q.view = site.view
        /\ o.calls = site.calls
    BY <2>2, <2>4 DEF ChangesOnly, Shown, Fields
  <2>6. /\ site.calls \subseteq q.calls /\ \A d \in q.calls \ site.calls : IsCall(d) /\ d.what \in AccountKinds
        /\ Waits(q, f)
    BY <2>4, <2>5 DEF Added, Waits
  <2>7. StoredOn(q, site) /\ SaysElse(q, site) /\ ViewOn(q, site) /\ q.off \subseteq Forms \cup {"anon"}
    BY <1>1, <2>2, <2>4, <2>5 DEF StoredOn, SaysElse, ViewOn
  <2>8. QED
    BY <1>2, <1>4, <2>1, <2>3, <2>5, <2>6, <2>7
<1>5. CASE ClickSignin
  <2>1. CASE site.blocked
    <3>1. site' = [SayIn(site, "signin", "blocked") EXCEPT !.n = site.n + 1]
      BY <1>5, <2>1 DEF ClickSignin, Click
    <3>2. PICK q : q = SayIn(site, "signin", "blocked")
      OBVIOUS
    <3>3. ChangesOnly(q, site, Shown) /\ ShowsOn(q, site)
      BY <1>1, <3>2, ShowsSame, SaysInView
    <3>4. ChangesOnly(q, site, Shown \cup {"calls"}) /\ KeepsCalls(q, site)
      BY <3>3 DEF ChangesOnly, KeepsCalls, Shown, Fields
    <3>5. QED
      BY <1>3, <3>1, <3>2, <3>3, <3>4
  <2>2. CASE ~site.blocked
    <3>1. PICK nothing : nothing = ""
      OBVIOUS
    <3>2. site' = [Send(Off(ReadSession(site), {"signin"}), "otp", site.n, "anon", nothing) EXCEPT !.n = site.n + 1]
      BY <1>5, <2>2, <3>1 DEF ClickSignin, Click
    <3>3. PICK s : s = ReadSession(site)
      OBVIOUS
    <3>4. ChangesOnly(s, site, {"stored"}) /\ s.stored \in SessionStates /\ (SignedIn(s) <=> SignedIn(site)) /\ IsSite(s)
      BY <1>1, <3>3, Sessions DEF ChangesOnly
    <3>5. PICK o : o = Off(s, {"signin"})
      OBVIOUS
    <3>6. ChangesOnly(o, s, {"off"}) /\ o.off = s.off \cup {"signin"} /\ IsSite(o)
      BY <3>4, <3>5, Closing DEF ChangesOnly
    <3> DEFINE new == [what |-> "otp", n |-> site.n, as |-> "anon", note |-> nothing, answer |-> "none"]
    <3>7. PICK q : q = Send(o, "otp", site.n, "anon", nothing)
      OBVIOUS
    <3>8. ChangesOnly(q, o, {"calls"}) /\ q.calls = o.calls \cup {new}
      BY <3>6, <3>7, Sending
    <3>9. IsCall(new) /\ new.what \in AccountKinds
      BY <1>1 DEF IsCall, CallKinds, Answers, AccountKinds
    <3> HIDE DEF new
    <3>10. /\ ChangesOnly(q, site, Shown \cup {"calls", "off"}) /\ q.off = site.off \cup {"signin"} /\ q.said = site.said /\ q.view = site.view
           /\ q.calls = site.calls \cup {new} /\ q.stored = s.stored
      BY <3>4, <3>6, <3>8 DEF ChangesOnly, Shown, Fields
    <3>11. StoredOn(q, site) /\ SaysElse(q, site) /\ ViewOn(q, site) /\ q.off \subseteq Forms \cup {"anon"}
      BY <1>1, <3>4, <3>10 DEF StoredOn, SaysElse, ViewOn, SignedIn, Forms
    <3>12. QED
      BY <1>2, <3>2, <3>3, <3>5, <3>7, <3>9, <3>10, <3>11
  <2>3. QED
    BY <2>1, <2>2
<1>6. CASE ClickRetry
  <2>1. site' = [Render(site, site.n) EXCEPT !.n = site.n + 1]
    BY <1>6 DEF ClickRetry, Click
  <2>2. PICK q : q = Render(site, site.n)
    OBVIOUS
  <2>3. ChangesOnly(q, site, Shown \cup {"calls"}) /\ ShowsOn(q, site) /\ KeepsCalls(q, site)
    BY <1>1, <2>2, RenderShows
  <2>4. QED
    BY <1>3, <2>1, <2>2, <2>3
<1>7. CASE ClickSignOut
  <2>1. PICK note : site' = [SignOut(site, site.n, note) EXCEPT !.n = site.n + 1]
    BY <1>7 DEF ClickSignOut, Click
  <2>2. PICK q : q = SignOut(site, site.n, note)
    OBVIOUS
  <2>3. ChangesOnly(q, site, Shown \cup {"calls"}) /\ ShowsOn(q, site) /\ KeepsCalls(q, site)
    BY <1>1, <2>2, SignOutShows
  <2>4. QED
    BY <1>3, <2>1, <2>2, <2>3
<1>8. CASE ClickEnrol
  <2>1. site' = [Authed(Off(site, {"enrol"}), "enrol", site.n) EXCEPT !.n = site.n + 1]
    BY <1>8 DEF ClickEnrol, Click
  <2>2. QED
    BY <1>4, <2>1 DEF AccountKinds, Forms
<1>9. CASE \E what \in {"export", "delete"} : ClickRight(what)
  <2>1. PICK what \in {"export", "delete"} : ClickRight(what)
    BY <1>9
  <2>2. site' = [Authed(Off(site, {what}), what, site.n) EXCEPT !.n = site.n + 1]
    BY <2>1 DEF ClickRight, Click
  <2>3. QED
    BY <1>4, <2>2 DEF AccountKinds, Forms
<1>10. QED
  BY <1>5, <1>6, <1>7, <1>8, <1>9

LEMMA SubscribeClickKeeps ==
  ASSUME SiteInv(site), ClickSubscribe
  PROVE  SiteInv(site')
<1>1. SiteTypes(site) /\ NewsletterKeeps(site) /\ site.page = "newsletter" /\ IsSite(site) /\ site.n \in Nat
  BY DEF SiteInv, SiteTypes, ClickSubscribe, OnPage
<1>2. PICK nothing : nothing = ""
  OBVIOUS
<1>3. site' = [Send(Off(site, {"subscribe"}), "subscribe", site.n, "anon", nothing) EXCEPT !.n = site.n + 1]
  BY <1>2 DEF ClickSubscribe, Click
<1>4. PICK o : o = Off(site, {"subscribe"})
  OBVIOUS
<1>5. ChangesOnly(o, site, {"off"}) /\ o.off = site.off \cup {"subscribe"} /\ IsSite(o)
  BY <1>1, <1>4, Closing DEF ChangesOnly
<1> DEFINE new == [what |-> "subscribe", n |-> site.n, as |-> "anon", note |-> nothing, answer |-> "none"]
<1>6. PICK q : q = Send(o, "subscribe", site.n, "anon", nothing)
  OBVIOUS
<1>7. ChangesOnly(q, o, {"calls"}) /\ q.calls = o.calls \cup {new} /\ IsSite(q)
  BY <1>5, <1>6, Sending DEF ChangesOnly
<1>8. IsCall(new) /\ new.what = "subscribe"
  BY <1>1 DEF IsCall, CallKinds, Answers
<1> HIDE DEF new
<1>9. PICK r : r = [q EXCEPT !.n = site.n + 1]
  OBVIOUS
<1>10. ChangesOnly(r, q, {"n"}) /\ r.n = site.n + 1
  BY <1>7, <1>9, Counted
<1>11. /\ ChangesOnly(r, site, {"off", "calls", "n"}) /\ r.off = site.off \cup {"subscribe"} /\ r.calls = site.calls \cup {new}
       /\ r.n \in Nat
  BY <1>1, <1>5, <1>7, <1>10 DEF ChangesOnly, Fields
<1>12. /\ r.page = site.page /\ r.stored = site.stored /\ r.view = site.view /\ r.sub = site.sub /\ r.gone = site.gone
       /\ r.token = site.token /\ r.said = site.said
  BY <1>11 DEF ChangesOnly, Fields
<1>13. SiteTypes(r)
  BY <1>1, <1>8, <1>11, <1>12 DEF SiteTypes, ChangesOnly, Forms
<1>14. NewsletterKeeps(r)
  BY <1>1, <1>8, <1>11, <1>12 DEF NewsletterKeeps, Silent
<1>15. SiteInv(r)
  BY <1>1, <1>12, <1>13, <1>14, OnePage
<1>16. QED
  BY <1>3, <1>4, <1>6, <1>9, <1>15

ConfirmSent(r, s, as) ==
  /\ ChangesOnly(r, s, {"said", "off", "calls"}) /\ r.off = s.off \cup {"confirm", "anon"}
  /\ r.said["confirm"] = "confirming" /\ r.said["unsubscribe"] = s.said["unsubscribe"]
  /\ \E c : IsCall(c) /\ c.what = "confirm" /\ c.as = as /\ c.answer = "none" /\ r.calls = s.calls \cup {c}
LEMMA ConfirmSends ==
  ASSUME NEW s, IsSite(s), NEW n \in Nat, NEW as, as \in {"user", "anon"}
  PROVE  ConfirmSent(ConfirmWith(s, n, as), s, as)
<1>1. PICK o : o = SayIn(s, "confirm", "confirming")
  OBVIOUS
<1>2. "confirm" \in Areas /\ "unsubscribe" \in Areas \ {"confirm"}
  BY DEF Areas
<1>3. ChangesOnly(o, s, {"said"}) /\ o.said["confirm"] = "confirming" /\ o.said["unsubscribe"] = s.said["unsubscribe"] /\ IsSite(o)
  BY <1>1, <1>2, Saying DEF ChangesOnly
<1>4. PICK q : q = Off(o, {"confirm", "anon"})
  OBVIOUS
<1>5. ChangesOnly(q, o, {"off"}) /\ q.off = o.off \cup {"confirm", "anon"} /\ IsSite(q)
  BY <1>3, <1>4, Closing DEF ChangesOnly
<1>6. PICK nothing : nothing = ""
  OBVIOUS
<1>7. PICK r : r = Send(q, "confirm", n, as, nothing)
  OBVIOUS
<1> DEFINE new == [what |-> "confirm", n |-> n, as |-> as, note |-> nothing, answer |-> "none"]
<1>8. ChangesOnly(r, q, {"calls"}) /\ r.calls = q.calls \cup {new}
  <2>1. \A who : ChangesOnly(Send(q, "confirm", n, who, nothing), q, {"calls"})
    BY <1>5, Sending
  <2>2. \A who : Send(q, "confirm", n, who, nothing).calls
                 = q.calls \cup {[what |-> "confirm", n |-> n, as |-> who, note |-> nothing, answer |-> "none"]}
    BY <1>5, Sending
  <2>3. QED
    BY <1>7, <2>1, <2>2
<1>9. IsCall(new) /\ new.what = "confirm" /\ new.as = as /\ new.answer = "none"
  BY DEF IsCall, CallKinds, Answers
<1> HIDE DEF new
<1>10. ChangesOnly(r, s, {"said", "off", "calls"}) /\ r.off = s.off \cup {"confirm", "anon"} /\ r.said = o.said /\ r.calls = s.calls \cup {new}
  BY <1>3, <1>5, <1>8 DEF ChangesOnly, Fields
<1>11. ConfirmWith(s, n, as) = r
  BY <1>1, <1>4, <1>6, <1>7 DEF ConfirmWith
<1>12. QED
  BY <1>3, <1>9, <1>10, <1>11 DEF ConfirmSent

\* A confirmation is sent as the page's promise has it.
LEMMA ConfirmMoves ==
  ASSUME SiteTypes(site), ConfirmKeeps(site), site.page = "confirm",
         NEW s, ChangesOnly(s, site, {"stored", "promised", "chose"}), StoredOn(s, site),
         (s.promised = site.promised /\ s.chose = site.chose) \/ s.chose = TRUE,
         NEW as, as \in {"user", "anon"},
         s.chose \/ ((s.promised => as = "user") /\ (~s.promised => as = "anon")),
         site' = [ConfirmWith(s, site.n, as) EXCEPT !.n = site.n + 1]
  PROVE  SiteInv(site')
<1>1. IsSite(s) /\ site.n \in Nat /\ s.calls = site.calls /\ s.off = site.off /\ s.said = site.said
  BY DEF SiteTypes, ChangesOnly, Fields
<1>2. PICK q : q = ConfirmWith(s, site.n, as)
  OBVIOUS
<1>a. ConfirmSent(q, s, as)
  BY <1>1, <1>2, ConfirmSends
<1>3. PICK c : IsCall(c) /\ c.what = "confirm" /\ c.as = as /\ c.answer = "none" /\ q.calls = site.calls \cup {c}
  BY <1>1, <1>a DEF ConfirmSent
<1>4. /\ ChangesOnly(q, s, {"said", "off", "calls"}) /\ q.off = site.off \cup {"confirm", "anon"} /\ IsSite(q)
      /\ q.said["confirm"] = "confirming" /\ q.said["unsubscribe"] = site.said["unsubscribe"]
  BY <1>1, <1>a DEF ConfirmSent, ChangesOnly
<1>5. PICK r : r = [q EXCEPT !.n = site.n + 1]
  OBVIOUS
<1>6. ChangesOnly(r, q, {"n"}) /\ r.n = site.n + 1
  BY <1>4, <1>5, Counted
<1>7. /\ ChangesOnly(r, site, {"stored", "promised", "chose", "said", "off", "calls", "n"}) /\ r.off = site.off \cup {"confirm", "anon"}
      /\ r.calls = site.calls \cup {c} /\ r.stored = s.stored /\ r.promised = s.promised /\ r.chose = s.chose /\ r.said = q.said
      /\ r.n \in Nat
  BY <1>1, <1>3, <1>4, <1>6 DEF ChangesOnly, Fields
<1>8. /\ r.page = site.page /\ r.view = site.view /\ r.sub = site.sub /\ r.gone = site.gone /\ r.token = site.token
  BY <1>7 DEF ChangesOnly, Fields
<1>9. SiteTypes(r)
  BY <1>3, <1>7, <1>8 DEF SiteTypes, ChangesOnly, StoredOn, Forms
<1>10. /\ (site.promised /\ ~site.chose) => site.sub # "anon" /\ \A d \in site.calls : d.as # "anon"
       /\ (~site.promised /\ ~site.chose) => site.stored # "live" /\ \A d \in site.calls : d.as # "user"
  BY DEF ConfirmKeeps
<1>11. /\ (r.promised /\ ~r.chose) => r.sub # "anon" /\ \A d \in r.calls : d.as # "anon"
       /\ (~r.promised /\ ~r.chose) => r.stored # "live" /\ \A d \in r.calls : d.as # "user"
  BY <1>3, <1>7, <1>8, <1>10 DEF StoredOn
<1>12. \A d \in r.calls : d.what = "confirm" /\ d.as \in {"user", "anon"} /\ (d.answer = "true" => r.sub = d.as)
  BY <1>3, <1>7, <1>8 DEF ConfirmKeeps
<1>13. ConfirmKeeps(r)
  <2>1. r.sub # "left" /\ r.view = "out" /\ Silent(r, {"unsubscribe"})
    BY <1>4, <1>7, <1>8 DEF ConfirmKeeps, Silent
  <2>2. r.calls # {} /\ ("unsubscribe" \in r.off => ~r.token)
    BY <1>7, <1>8 DEF ConfirmKeeps
  <2>3. r.said["confirm"] = "confirming"
    BY <1>4, <1>7
  <2>4. QED
    BY <1>11, <1>12, <2>1, <2>2, <2>3 DEF ConfirmKeeps
<1>14. SiteInv(r)
  BY <1>8, <1>9, <1>13, OnePage
<1>15. QED
  BY <1>2, <1>5, <1>14

LEMMA ConfirmClicksKeep ==
  ASSUME SiteInv(site), ClickConfirm \/ ClickAnon
  PROVE  SiteInv(site')
<1>1. SiteTypes(site) /\ ConfirmKeeps(site) /\ site.page = "confirm" /\ IsSite(site) /\ site.n \in Nat /\ site.stored \in SessionStates
  BY DEF SiteInv, SiteTypes, ClickConfirm, ClickAnon, OnPage
<1>2. CASE ClickAnon
  <2>1. PICK s : s = [site EXCEPT !.promised = FALSE, !.chose = TRUE]
    OBVIOUS
  <2>2. ChangesOnly(s, site, {"stored", "promised", "chose"}) /\ s.stored = site.stored /\ s.chose = TRUE
    BY <1>1, <2>1 DEF ChangesOnly, IsSite, Fields
  <2>3. site' = [ConfirmWith(s, site.n, "anon") EXCEPT !.n = site.n + 1]
    BY <1>2, <2>1 DEF ClickAnon, Click, AnonClick
  <2>4. QED
    BY <1>1, <2>2, <2>3, ConfirmMoves DEF StoredOn
<1>3. CASE ClickConfirm
  <2>1. PICK s : s = ReadSession(site)
    OBVIOUS
  <2>2. /\ ChangesOnly(s, site, {"stored"}) /\ s.stored \in SessionStates /\ (SignedIn(s) <=> SignedIn(site)) /\ IsSite(s)
        /\ s.promised = site.promised /\ s.chose = site.chose
    BY <1>1, <2>1, Sessions DEF ChangesOnly, Fields
  <2>3. StoredOn(s, site) /\ ChangesOnly(s, site, {"stored", "promised", "chose"})
    BY <2>2 DEF StoredOn, SignedIn, ChangesOnly
  <2>4. (~site.promised /\ ~site.chose) => ~SignedIn(s)
    BY <1>1, <2>2 DEF ConfirmKeeps, SignedIn
  <2>5. CASE site.promised /\ ~SignedIn(s)
    <3>1. PICK text : text = "not sent"
      OBVIOUS
    <3>2. text # "linked" /\ text # "confirmed"
      BY <3>1, Zenon
    <3>3. site' = [SayIn([s EXCEPT !.anon = TRUE], "confirm", text) EXCEPT !.n = site.n + 1]
      BY <1>3, <2>1, <2>5, <3>1 DEF ClickConfirm, Click, ConfirmClick
    <3>4. PICK o : o = [s EXCEPT !.anon = TRUE]
      OBVIOUS
    <3>5. ChangesOnly(o, s, {"anon"}) /\ IsSite(o)
      BY <2>2, <3>4 DEF ChangesOnly, IsSite, Fields
    <3>6. PICK q : q = SayIn(o, "confirm", text)
      OBVIOUS
    <3>7. /\ ChangesOnly(q, o, {"said"}) /\ q.said["confirm"] = text /\ q.said["unsubscribe"] = o.said["unsubscribe"]
          /\ IsSite(q)
      BY <3>5, <3>6, Saying DEF ChangesOnly, Areas
    <3>8. PICK r : r = [q EXCEPT !.n = site.n + 1]
      OBVIOUS
    <3>9. ChangesOnly(r, q, {"n"}) /\ r.n = site.n + 1
      BY <3>7, <3>8, Counted
    <3>10. ChangesOnly(r, site, {"stored", "anon", "said", "n"}) /\ r.stored = s.stored /\ r.said = q.said /\ o.said = site.said /\ r.n \in Nat
      BY <1>1, <2>2, <3>5, <3>7, <3>9 DEF ChangesOnly, Fields
    <3>11. /\ r.page = site.page /\ r.view = site.view /\ r.sub = site.sub /\ r.gone = site.gone /\ r.token = site.token
           /\ r.promised = site.promised /\ r.chose = site.chose /\ r.calls = site.calls /\ r.off = site.off
      BY <3>10 DEF ChangesOnly, Fields
    <3>12. SiteTypes(r)
      BY <1>1, <2>2, <3>10, <3>11 DEF SiteTypes, ChangesOnly
    <3>13. ConfirmKeeps(r)
      <4>1. r.said["confirm"] = text /\ r.said["unsubscribe"] = site.said["unsubscribe"] /\ (r.stored = "live" => site.stored = "live")
        BY <2>3, <3>7, <3>10 DEF StoredOn
      <4>2. QED
        BY <1>1, <3>2, <3>11, <4>1 DEF ConfirmKeeps, Silent
    <3>14. SiteInv(r)
      BY <1>1, <3>11, <3>12, <3>13, OnePage
    <3>15. QED
      BY <3>3, <3>4, <3>6, <3>8, <3>14
  <2>6. CASE ~(site.promised /\ ~SignedIn(s))
    <3>1. PICK as : as = (IF SignedIn(s) THEN "user" ELSE "anon") /\ as \in {"user", "anon"}
      OBVIOUS
    <3>2. site' = [ConfirmWith(s, site.n, as) EXCEPT !.n = site.n + 1]
      BY <1>3, <2>1, <2>6, <3>1 DEF ClickConfirm, Click, ConfirmClick
    <3>3. s.chose \/ ((s.promised => as = "user") /\ (~s.promised => as = "anon"))
      BY <2>2, <2>4, <2>6, <3>1
    <3>4. QED
      BY <1>1, <2>2, <2>3, <3>1, <3>2, <3>3, ConfirmMoves
  <2>7. QED
    BY <2>5, <2>6
<1>4. QED
  BY <1>2, <1>3

LEMMA UnsubscribeClicksKeep ==
  ASSUME SiteInv(site), ClickUnsubscribe \/ ClickLink
  PROVE  SiteInv(site')
<1>1. SiteTypes(site) /\ UnsubscribeKeeps(site) /\ site.page = "unsubscribe" /\ IsSite(site) /\ site.n \in Nat /\ site.stored \in SessionStates
  BY DEF SiteInv, SiteTypes, ClickUnsubscribe, ClickLink, OnPage
<1>2. ASSUME NEW q, NEW c, IsCall(c), c.what \in {"unsubscribe", "link"}, c.answer # "true", NEW forms,
             forms \subseteq {"unsubscribe", "link"}, "unsubscribe" \in forms => c.what = "unsubscribe",
             ChangesOnly(q, site, {"stored", "off", "calls"}), StoredOn(q, site), q.calls = site.calls \cup {c}, q.off = site.off \cup forms,
             site' = [q EXCEPT !.n = site.n + 1]
      PROVE  SiteInv(site')
  <2>1. PICK r : r = [q EXCEPT !.n = site.n + 1]
    OBVIOUS
  <2>2. ChangesOnly(r, q, {"n"}) /\ r.n = site.n + 1
    BY <1>2, <2>1, Counted DEF ChangesOnly
  <2>3. /\ ChangesOnly(r, site, {"stored", "off", "calls", "n"}) /\ r.stored = q.stored /\ r.calls = site.calls \cup {c} /\ r.off = site.off \cup forms
        /\ r.n \in Nat
    BY <1>1, <1>2, <2>2 DEF ChangesOnly, Fields
  <2>4. /\ r.page = site.page /\ r.view = site.view /\ r.sub = site.sub /\ r.gone = site.gone /\ r.token = site.token
        /\ r.said = site.said
    BY <2>3 DEF ChangesOnly, Fields
  <2>5. SiteTypes(r)
    BY <1>1, <1>2, <2>3, <2>4 DEF SiteTypes, ChangesOnly, StoredOn, Forms
  <2>6. /\ Waits(site, "unsubscribe") => Waits(r, "unsubscribe")
        /\ "unsubscribe" \in forms => Waits(r, "unsubscribe")
        /\ r.calls # {}
    BY <1>2, <2>3 DEF Waits
  <2>7. UnsubscribeKeeps(r)
    BY <1>1, <1>2, <2>3, <2>4, <2>6 DEF UnsubscribeKeeps, Silent
  <2>8. SiteInv(r)
    BY <1>1, <2>4, <2>5, <2>7, OnePage
  <2>9. QED
    BY <1>2, <2>1, <2>8
<1>3. CASE ClickUnsubscribe
  <2>1. PICK nothing : nothing = ""
    OBVIOUS
  <2>2. site' = [Send(Off(site, {"unsubscribe", "link"}), "unsubscribe", site.n, "anon", nothing) EXCEPT !.n = site.n + 1]
    BY <1>3, <2>1 DEF ClickUnsubscribe, Click
  <2>3. PICK o : o = Off(site, {"unsubscribe", "link"})
    OBVIOUS
  <2>4. ChangesOnly(o, site, {"off"}) /\ o.off = site.off \cup {"unsubscribe", "link"} /\ IsSite(o)
    BY <1>1, <2>3, Closing DEF ChangesOnly
  <2>5. PICK q : q = Send(o, "unsubscribe", site.n, "anon", nothing)
    OBVIOUS
  <2> DEFINE new == [what |-> "unsubscribe", n |-> site.n, as |-> "anon", note |-> nothing, answer |-> "none"]
  <2>6. ChangesOnly(q, o, {"calls"}) /\ q.calls = o.calls \cup {new}
    BY <2>4, <2>5, Sending
  <2>7. IsCall(new) /\ new.what = "unsubscribe" /\ new.answer # "true"
    BY <1>1 DEF IsCall, CallKinds, Answers
  <2> HIDE DEF new
  <2>8. /\ ChangesOnly(q, site, {"stored", "off", "calls"}) /\ q.stored = site.stored /\ q.calls = site.calls \cup {new}
        /\ q.off = site.off \cup {"unsubscribe", "link"}
    BY <2>4, <2>6 DEF ChangesOnly, Fields
  <2>9. StoredOn(q, site)
    BY <1>1, <2>8 DEF StoredOn
  <2>10. QED
    BY <1>2, <2>2, <2>3, <2>5, <2>7, <2>8, <2>9
<1>4. CASE ClickLink
  <2>1. site' = [Authed(Off(site, {"link"}), "link", site.n) EXCEPT !.n = site.n + 1]
    BY <1>4 DEF ClickLink, Click
  <2>2. PICK o : o = Off(site, {"link"})
    OBVIOUS
  <2>3. ChangesOnly(o, site, {"off"}) /\ o.off = site.off \cup {"link"} /\ IsSite(o) /\ o.stored = site.stored
    BY <1>1, <2>2, Closing DEF ChangesOnly, Fields
  <2>4. PICK q : q = Authed(o, "link", site.n)
    OBVIOUS
  <2>5. ChangesOnly(q, o, {"stored", "calls"}) /\ Added(q, o, "link") /\ StoredOn(q, o)
    BY <1>1, <2>3, <2>4, SendsSigned DEF CallKinds
  <2>6. ChangesOnly(q, site, {"stored", "off", "calls"}) /\ q.off = site.off \cup {"link"} /\ o.calls = site.calls /\ StoredOn(q, site)
    BY <2>3, <2>5 DEF ChangesOnly, Fields, StoredOn
  <2>7. PICK c : IsCall(c) /\ c.what = "link" /\ c.answer # "true" /\ q.calls = site.calls \cup {c}
    BY <2>5, <2>6 DEF Added
  <2>8. QED
    BY <1>2, <2>1, <2>2, <2>4, <2>6, <2>7
<1>5. QED
  BY <1>3, <1>4

LEMMA SessionEndKeeps ==
  ASSUME SiteInv(site), SessionEnds
  PROVE  SiteInv(site')
<1>1. SiteTypes(site) /\ NewsletterKeeps(site) /\ AccountKeeps(site) /\ ConfirmKeeps(site) /\ UnsubscribeKeeps(site)
      /\ IsSite(site) /\ site.stored \in SessionStates
  BY DEF SiteInv, SiteTypes
<1>2. PICK r : r = site'
  OBVIOUS
<1>3. ChangesOnly(r, site, {"accepts", "stored"}) /\ StoredOn(r, site)
  <2>1. CASE r = [site EXCEPT !.accepts = FALSE]
    BY <1>1, <2>1 DEF ChangesOnly, IsSite, Fields, StoredOn
  <2>2. CASE r = [site EXCEPT !.accepts = FALSE, !.stored = IF @ = "live" THEN "over" ELSE @]
    <3>1. PICK st : st = IF site.stored = "live" THEN "over" ELSE site.stored
      OBVIOUS
    <3>2. r = [[site EXCEPT !.accepts = FALSE] EXCEPT !.stored = st]
      BY <1>1, <2>2, <3>1 DEF IsSite, Fields
    <3>3. st \in SessionStates /\ st # "live"
      BY <1>1, <3>1 DEF SessionStates
    <3>4. QED
      BY <1>1, <3>2, <3>3 DEF ChangesOnly, IsSite, Fields, StoredOn
  <2>3. QED
    BY <1>2, <2>1, <2>2 DEF SessionEnds
<1>4. /\ r.page = site.page /\ r.view = site.view /\ r.sub = site.sub /\ r.n = site.n /\ r.off = site.off /\ r.gone = site.gone
      /\ r.calls = site.calls /\ r.token = site.token /\ r.said = site.said /\ r.promised = site.promised /\ r.chose = site.chose
  BY <1>3 DEF ChangesOnly, Fields
<1>5. SiteTypes(r)
  BY <1>1, <1>3, <1>4 DEF SiteTypes, ChangesOnly, StoredOn
<1>6. NewsletterKeeps(r) /\ AccountKeeps(r)
  BY <1>1, <1>3, <1>4 DEF NewsletterKeeps, AccountKeeps, Silent, Waits, StoredOn
<1>7. ConfirmKeeps(r) /\ UnsubscribeKeeps(r)
  BY <1>1, <1>3, <1>4 DEF ConfirmKeeps, UnsubscribeKeeps, Silent, Waits, StoredOn
<1>8. QED
  BY <1>2, <1>5, <1>6, <1>7 DEF SiteInv

-----------------------------------------------------------------------------
LEMMA SiteStays == SiteInv(site) /\ [SiteStep]_site => SiteInv(site')
<1> SUFFICES ASSUME SiteInv(site), [SiteStep]_site PROVE SiteInv(site')
  OBVIOUS
<1>1. ASSUME NEW c \in site.calls, Serve(c) PROVE SiteInv(site')
  BY <1>1, ServiceKeeps
<1>2. ASSUME NEW c \in site.calls, Answered(c) PROVE SiteInv(site')
  <2>1. site.page \in Pages
    BY DEF SiteInv, SiteTypes
  <2>2. QED
    BY <1>2, <2>1, AccountAnswerKeeps, ConfirmAnswerKeeps, UnsubscribeAnswerKeeps, SubscribeAnswerKeeps DEF Pages
<1>3. CASE ClickSubscribe \/ ClickConfirm \/ ClickAnon \/ ClickUnsubscribe \/ ClickLink
  BY <1>3, SubscribeClickKeeps, ConfirmClicksKeep, UnsubscribeClicksKeep
<1>4. CASE ClickSignin \/ ClickRetry \/ ClickEnrol \/ ClickSignOut \/ \E what \in {"export", "delete"} : ClickRight(what)
  BY <1>4, AccountClicksKeep
<1>5. CASE SessionEnds
  BY <1>5, SessionEndKeeps
<1>6. CASE UNCHANGED site
  BY <1>6
<1>7. QED
  BY <1>1, <1>2, <1>3, <1>4, <1>5, <1>6 DEF SiteStep

LEMMA SiteStarts == SiteInit => SiteHolds
<1> SUFFICES ASSUME SiteInit PROVE SiteInv(site)
  BY DEF SiteHolds
<1>0. PICK nothing : nothing = ""
  OBVIOUS
<1>1. nothing # "linked" /\ nothing # "confirmed" /\ nothing # "done"
  BY <1>0, Zenon
<1>a. PICK p \in Pages, st \in SessionStates, bl \in BOOLEAN, ac \in BOOLEAN, tk \in BOOLEAN, sb \in {"pending", "anon"} :
        /\ (p \in {"newsletter", "account"}) => ~tk
        /\ (p = "unsubscribe") \/ sb = "pending"
        /\ site = SiteOpened(SiteFresh(p, st, bl, ac, tk, sb))
  BY DEF SiteInit, SessionStates
<1>b. PICK s : s = SiteFresh(p, st, bl, ac, tk, sb)
  OBVIOUS
<1>c. PICK live \in BOOLEAN : live <=> st = "live"
  OBVIOUS
<1>d. PICK silence : silence = [a \in Areas |-> nothing]
  OBVIOUS
<1>e. s = [page |-> p, stored |-> st, blocked |-> bl, accepts |-> st = "live", account |-> ac, sub |-> sb,
           token |-> tk, promised |-> p = "confirm" /\ st = "live", chose |-> FALSE, anon |-> FALSE,
           view |-> "out", retry |-> FALSE, said |-> silence, calls |-> {}, n |-> 0, off |-> {}, gone |-> {}]
  BY <1>0, <1>b, <1>d, Zenon DEF SiteFresh
<1>2. site = SiteOpened(s)
  BY <1>a, <1>b
<1>3. /\ IsSite(s) /\ s.page = p /\ s.stored = st /\ s.sub = sb /\ (s.token <=> tk) /\ (s.promised <=> p = "confirm" /\ live)
      /\ ~s.chose /\ s.view = "out" /\ s.said = silence /\ s.calls = {} /\ s.n = 0 /\ s.off = {} /\ s.gone = {}
      /\ (s.blocked <=> bl)
  BY <1>c, <1>d, <1>e DEF IsSite, Fields
<1>4. SiteTypes(s) /\ s.stored \in SessionStates
  BY <1>a, <1>3 DEF SiteTypes, Views, Subs
<1>f. \A a \in Areas : s.said[a] \notin {"linked", "confirmed", "done"}
  BY <1>1, <1>3, <1>d
<1>6. {"confirm", "unsubscribe"} \subseteq Areas
  BY DEF Areas
<1>5. Silent(s, {"confirm", "unsubscribe"}) /\ Silent(s, {"confirm"}) /\ Silent(s, {"unsubscribe"})
  BY <1>f, <1>6 DEF Silent
<1>7. CASE p = "account"
  <2>1. AccountKeeps(s)
    <3>1. ~s.token
      BY <1>3, <1>7, <1>a
    <3>2. QED
      BY <3>1, <1>3, <1>5 DEF AccountKeeps
  <2>2. CASE bl
    <3>1. PICK o : o = SayIn(s, "signin", "blocked")
      OBVIOUS
    <3>2. ChangesOnly(o, s, Shown) /\ ShowsOn(o, s) /\ IsSite(o)
      BY <1>3, <1>4, <3>1, ShowsSame, SaysInView DEF ChangesOnly
    <3>3. PICK r : r = Off(o, {"signin"})
      OBVIOUS
    <3>4. ChangesOnly(r, o, {"off"}) /\ r.off = o.off \cup {"signin"}
      BY <3>2, <3>3, Closing
    <3>5. /\ ChangesOnly(r, s, Shown \cup {"calls", "off", "n"}) /\ r.off = {"signin"} /\ r.calls = {} /\ r.n = 0
          /\ r.stored = o.stored /\ r.said = o.said /\ r.view = o.view
      BY <1>3, <3>2, <3>4 DEF ChangesOnly, Shown, Fields
    <3>6. StoredOn(r, s) /\ SaysElse(r, s) /\ r.view \in Views
      BY <1>3, <3>2, <3>5 DEF ShowsOn, StoredOn, SaysElse, ViewOn, Views
    <3>7. r.off \subseteq Forms \cup {"anon"} /\ s.calls \subseteq r.calls /\ r.n \in Nat
      BY <1>3, <3>5 DEF Forms
    <3>8. SiteInv(r)
      BY <1>3, <1>4, <1>7, <2>1, <3>5, <3>6, <3>7, AccountMoves
    <3>9. site = r
      BY <1>2, <1>3, <1>7, <2>2, <3>1, <3>3 DEF SiteOpened
    <3>10. QED
      BY <3>8, <3>9
  <2>3. CASE ~bl
    <3>1. PICK r : r = Render(s, 0)
      OBVIOUS
    <3>2. ChangesOnly(r, s, Shown \cup {"calls"}) /\ ShowsOn(r, s) /\ KeepsCalls(r, s)
      BY <1>3, <1>4, <3>1, RenderShows
    <3>3. ChangesOnly(r, s, Shown \cup {"calls", "off", "n"}) /\ r.off = {} /\ r.n = 0
      BY <1>3, <3>2 DEF ChangesOnly, Shown, Fields
    <3>4. StoredOn(r, s) /\ SaysElse(r, s) /\ r.view \in Views
      BY <1>3, <3>2 DEF ShowsOn, StoredOn, SaysElse, ViewOn, Views
    <3>5. \A d \in r.calls \ s.calls : IsCall(d) /\ d.what \in AccountKinds
      BY <3>2 DEF KeepsCalls, Added, AccountKinds
    <3>6. r.off \subseteq Forms \cup {"anon"} /\ s.calls \subseteq r.calls /\ r.n \in Nat
      BY <1>3, <3>3
    <3>7. SiteInv(r)
      BY <1>3, <1>4, <1>7, <2>1, <3>3, <3>4, <3>5, <3>6, AccountMoves
    <3>8. site = r
      BY <1>2, <1>3, <1>7, <2>3, <3>1 DEF SiteOpened
    <3>9. QED
      BY <3>7, <3>8
  <2>4. QED
    BY <2>2, <2>3
<1>8. CASE p = "newsletter"
  <2>1. site = s /\ NewsletterKeeps(s)
    <3>1. ~s.token /\ site = s
      BY <1>2, <1>3, <1>8, <1>a DEF SiteOpened
    <3>2. QED
      BY <3>1, <1>3, <1>5 DEF NewsletterKeeps
  <2>2. QED
    BY <1>3, <1>4, <1>8, <2>1, OnePage
<1>9. CASE p \in {"confirm", "unsubscribe"} /\ ~tk
  <2>1. PICK r, closed : r = Off(s, closed) /\ closed = Forms
    OBVIOUS
  <2>a. ChangesOnly(r, s, {"off"}) /\ r.off = s.off \cup closed
    BY <1>3, <2>1, Closing
  <2>2. ChangesOnly(r, s, {"off"}) /\ r.off = Forms
    BY <1>3, <2>1, <2>a
  <2>3. /\ r.page = p /\ r.stored = st /\ r.view = "out" /\ r.sub = sb /\ r.n = 0 /\ r.gone = {} /\ r.calls = {} /\ ~r.token
        /\ r.said = s.said /\ (r.promised <=> p = "confirm" /\ live) /\ ~r.chose
    BY <1>3, <1>9, <2>2 DEF ChangesOnly, Fields
  <2>4. SiteTypes(r)
    BY <1>a, <1>4, <2>2, <2>3 DEF SiteTypes, ChangesOnly, Views, Subs, Forms
  <2>5. Silent(r, {"confirm"}) /\ Silent(r, {"unsubscribe"})
    BY <1>5, <2>3 DEF Silent
  <2>6. \A a \in Areas : r.said[a] \notin {"linked", "confirmed", "done"}
    BY <1>f, <2>3
  <2>7. p = "confirm" => ConfirmKeeps(r)
    BY <1>a, <1>c, <1>6, <2>3, <2>5, <2>6 DEF ConfirmKeeps
  <2>8. p = "unsubscribe" => UnsubscribeKeeps(r)
    BY <1>6, <2>3, <2>5, <2>6 DEF UnsubscribeKeeps
  <2>9. site = r
    BY <1>2, <1>3, <1>9, <2>1 DEF SiteOpened
  <2>10. QED
    BY <1>9, <2>3, <2>4, <2>7, <2>8, <2>9, OnePage
<1>10. CASE p \in {"confirm", "unsubscribe"} /\ tk
  <2>1. PICK q : q = ReadSession(s)
    OBVIOUS
  <2>2. ChangesOnly(q, s, {"stored"}) /\ q.stored \in SessionStates /\ (SignedIn(q) <=> SignedIn(s)) /\ IsSite(q)
    BY <1>3, <1>4, <2>1, Sessions DEF ChangesOnly
  <2>3. /\ q.page = p /\ q.view = "out" /\ q.sub = sb /\ q.n = 0 /\ q.gone = {} /\ q.calls = {} /\ q.off = {}
        /\ q.said = s.said /\ (q.promised <=> p = "confirm" /\ live) /\ ~q.chose
        /\ (q.stored = "live" => live)
    BY <1>c, <1>3, <2>2 DEF ChangesOnly, Fields, SignedIn
  <2>4. \A a \in Areas : q.said[a] \notin {"linked", "confirmed", "done"}
    BY <1>f, <2>3
  <2>5. CASE p = "unsubscribe" /\ ~live
    <3>1. PICK o : o = [q EXCEPT !.gone = {"link"}]
      OBVIOUS
    <3>2. ChangesOnly(o, q, {"gone"}) /\ o.gone = {"link"} /\ IsSite(o)
      BY <2>2, <3>1 DEF ChangesOnly, IsSite, Fields
    <3>3. PICK r : r = Off(o, {"link"})
      OBVIOUS
    <3>4. ChangesOnly(r, o, {"off"}) /\ r.off = o.off \cup {"link"}
      BY <3>2, <3>3, Closing
    <3>5. /\ ChangesOnly(r, q, {"off", "gone"}) /\ r.page = p /\ r.view = "out" /\ r.sub = sb /\ r.n = 0 /\ r.gone = {"link"} /\ r.calls = {}
          /\ r.off = {"link"} /\ r.said = s.said /\ r.stored = q.stored
      BY <2>3, <3>2, <3>4 DEF ChangesOnly, Fields
    <3>6. SiteTypes(r)
      BY <1>a, <2>2, <3>5 DEF SiteTypes, ChangesOnly, Views, Subs, Forms
    <3>7. UnsubscribeKeeps(r)
      BY <1>6, <2>3, <2>4, <3>5 DEF UnsubscribeKeeps, Silent
    <3>8. site = r
      BY <1>2, <1>3, <1>c, <1>10, <2>1, <2>5, <3>1, <3>3 DEF SiteOpened, SignedIn
    <3>9. QED
      BY <2>5, <3>5, <3>6, <3>7, <3>8, OnePage
  <2>6. CASE ~(p = "unsubscribe" /\ ~live)
    <3>1. site = q
      BY <1>2, <1>3, <1>c, <1>10, <2>1, <2>6 DEF SiteOpened, SignedIn
    <3>2. SiteTypes(q)
      BY <1>a, <2>2, <2>3 DEF SiteTypes, Views, Subs
    <3>3. p = "confirm" => ConfirmKeeps(q)
      BY <1>a, <1>6, <2>3, <2>4 DEF ConfirmKeeps, Silent
    <3>4. p = "unsubscribe" => UnsubscribeKeeps(q)
      BY <1>6, <2>3, <2>4 DEF UnsubscribeKeeps, Silent
    <3>5. QED
      BY <1>10, <2>3, <3>1, <3>2, <3>3, <3>4, OnePage
  <2>7. QED
    BY <2>5, <2>6
<1>11. QED
  BY <1>a, <1>7, <1>8, <1>9, <1>10 DEF Pages

(* The invariant that carries the site's results.                             *)
THEOREM SiteInvHolds == SiteSpec => []SiteHolds
<1>1. SiteHolds /\ [SiteStep]_site => SiteHolds'
  BY SiteStays DEF SiteHolds
<1>2. QED
  BY <1>1, SiteStarts, PTL DEF SiteSpec

(* The page's session, views, forms and calls are well typed.                  *)
THEOREM SiteTypeCorrect == SiteSpec => []SiteTypeOK
<1>1. SiteHolds => SiteTypeOK
  BY DEF SiteHolds, SiteInv, SiteTypes, SiteTypeOK, SessionStates, Views, Subs, IsCall
<1>2. QED
  BY <1>1, SiteInvHolds, PTL

(* A page that has promised to link a subscription never confirms without the    *)
(* session unless the reader chose that button, however many clicks, lost or      *)
(* late answers and refusals there are and whenever the session ends; what it     *)
(* says was done was done; and no form stays closed once its answer is there.     *)
THEOREM SiteKeepsFaithHolds == SiteSpec => []SiteKeepsFaith
<1>1. SiteHolds => SiteKeepsFaith
  <2> SUFFICES ASSUME SiteHolds PROVE SiteKeepsFaith
    OBVIOUS
  <2>1. SiteTypes(site) /\ NewsletterKeeps(site) /\ AccountKeeps(site) /\ ConfirmKeeps(site) /\ UnsubscribeKeeps(site)
    BY DEF SiteHolds, SiteInv
  <2>2. site.page \in Pages
    BY <2>1 DEF SiteTypes
  <2>3. CASE site.page = "newsletter"
    BY <2>1, <2>3 DEF SiteKeepsFaith, NewsletterKeeps, Silent
  <2>4. CASE site.page = "account"
    <3>1. /\ ~site.token /\ Silent(site, {"confirm", "unsubscribe"})
          /\ site.calls = {} => /\ {"enrol", "export"} \cap site.off = {}
                                /\ "delete" \in site.off => site.stored # "live"
      BY <2>1, <2>4 DEF AccountKeeps, Waits
    <3>2. site.said["confirm"] \notin {"linked", "confirmed", "done"} /\ site.said["unsubscribe"] \notin {"linked", "confirmed", "done"}
      BY <3>1 DEF Silent
    <3>3. ASSUME site.calls = {}
          PROVE  /\ SignedIn(site) /\ site.view = "acct" => {"export", "delete"} \cap site.off = {}
                 /\ site.view = "noacct" => "enrol" \notin site.off
      BY <3>1, <3>3 DEF SignedIn
    <3>4. QED
      BY <2>4, <3>1, <3>2, <3>3 DEF SiteKeepsFaith
  <2>5. CASE site.page = "confirm"
    BY <2>1, <2>5 DEF SiteKeepsFaith, ConfirmKeeps, Silent
  <2>6. CASE site.page = "unsubscribe"
    <3>1. /\ Silent(site, {"confirm"}) /\ site.view = "out"
          /\ site.said["unsubscribe"] = "done" => site.sub = "left"
          /\ site.calls = {} => (site.token => {"confirm", "anon", "unsubscribe"} \cap site.off = {}
                                             /\ ("link" \in site.off => "link" \in site.gone))
      BY <2>1, <2>6 DEF UnsubscribeKeeps, Waits
    <3>2. QED
      BY <2>6, <3>1 DEF SiteKeepsFaith, Silent
  <2>7. QED
    BY <2>2, <2>3, <2>4, <2>5, <2>6 DEF Pages
<1>2. QED
  BY <1>1, SiteInvHolds, PTL
=============================================================================
