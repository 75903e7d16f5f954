------------------------------ MODULE BoardLinks ------------------------------
(***************************************************************************)
(* Hovering between the code and the drawn board (board-links.js and the       *)
(* tooltips of board.js): a control under the pointer or with the focus marks  *)
(* the port it is wired to in the tab in front, a name under the pointer lights *)
(* what it is wired to, and an edit or a run drops both ways.                   *)
(***************************************************************************)
EXTENDS SimBoard, Integers, Sequences, Functions

CONSTANTS TopTexts, \* what the file of the top may hold: its ports and its words
          PinTexts  \* what the constraints file may hold: a sequence of pin lines

Hidden == "hidden"  \* no tip is printed; the name of no port

\* A pin is wired to a part of its own.  The ports of a top have different names, which
\* its header gives without an index; words and lines count from one.
ASSUME LinksAssumption ==
  /\ \A p, q \in DOMAIN PinElement : PinElement[p] = PinElement[q] => p = q
  /\ \A p \in DOMAIN PinElement : PinElement[p] # Nobody
  /\ \A top \in TopTexts :
       /\ \A p \in top.ports :
            /\ p.name # Hidden /\ p.bits \in Nat /\ p.offset \in Int
            /\ \A q \in top.ports : p.name = q.name => p = q
       /\ 0 \notin DOMAIN top.words
       /\ \A i \in DOMAIN top.words :
            top.words[i].zone = "header" => top.words[i].index = NoBit /\ ~top.words[i].dotted
  /\ \A xdc \in PinTexts : 0 \notin DOMAIN xdc

VARIABLES written, shownTab, linked, waiting,  \* the files; the design linked to them; a run under way
          hovered, tip, marks, glow,           \* what is hovered, printed, marked in the code, lit on the board
          pointer, codeAt, focusOn              \* where the pointer is, on the board or in the code, and the focus
linkVars == <<written, shownTab, linked, waiting, hovered, tip, marks, glow, pointer, codeAt, focusOn>>

NoDesign == [ports |-> {}, pins |-> {}]
NoMarks  == [tab |-> "other", at |-> {}]
DesignOf(files) == [ports |-> files.top.ports, pins |-> Range(files.xdc)]

-----------------------------------------------------------------------------
(* Who is wired to whom *)

Bound(design) == {e \in Entries(design) : e.pin \in DOMAIN PinElement}
Source(design, e) == SrcIndex(CHOOSE p \in design.ports : p.name = e.port, e.bit)
Parts == {PinElement[p] : p \in DOMAIN PinElement} \ {"clk"}
WiredTo(design, part) == {e \in Bound(design) : ElementOf(e) = part}
\* Of two ports on one pin, which a failed run leaves on the board, one is told.
\* It keeps the index the source has for its bit.
LabelBitRaw(design, e) == e.bit  \* mutant: the bit of the netlist
LabelBit(design, e) == Source(design, e)
Label(design, part) == CHOOSE e \in WiredTo(design, part) : TRUE

\* From the board to a tab: the port's name in the header of the top, or its pin lines.
MarkedIn(tab, design, part) ==
  IF WiredTo(design, part) = {} THEN {}
  ELSE LET e == Label(design, part) IN
       CASE tab = "top" -> {i \in DOMAIN written.top.words :
              written.top.words[i].zone = "header" /\ written.top.words[i].word = e.port}
         [] tab = "xdc" -> {i \in DOMAIN written.xdc :
              written.xdc[i].port = e.port /\ written.xdc[i].bit \in {NoBit, LabelBit(design, e)}}
         [] OTHER -> {}
\* From a place in a tab to the board: not outside the top, nor `.name` or `u.name`;
\* an index picks the one bit.
LitFrom(tab, design, i) ==
  {ElementOf(e) : e \in {f \in Bound(design) : ElementOf(f) \in Parts /\
     CASE tab = "top" -> LET w == written.top.words[i] IN
            w.word = f.port /\ w.zone # "outside" /\ ~w.dotted /\ w.index \in {NoBit, Source(design, f)}
       [] tab = "xdc" -> written.xdc[i].port = f.port /\ written.xdc[i].bit \in {NoBit, Source(design, f)}
       [] OTHER -> FALSE}}
Places(tab) == CASE tab = "top" -> DOMAIN written.top.words [] tab = "xdc" -> DOMAIN written.xdc [] OTHER -> {}

-----------------------------------------------------------------------------
(* Hovering *)

TipOf(design, part) ==
  IF part = Nobody \/ design = NoDesign THEN Hidden
  ELSE IF WiredTo(design, part) = {} THEN "no port bound" ELSE Label(design, part).port
Hover(part) ==
  /\ hovered' = part /\ tip' = TipOf(linked, part)
  /\ marks' = IF part = Nobody \/ linked = NoDesign \/ MarkedIn(shownTab, linked, part) = {} THEN NoMarks
              ELSE [tab |-> shownTab, at |-> MarkedIn(shownTab, linked, part)]
\* Leaving a part that another one took the hover from changes nothing.
Unhover(part) == IF part # Nobody /\ hovered = part THEN Hover(Nobody) ELSE UNCHANGED <<hovered, tip, marks>>

FilesSame == UNCHANGED <<written, shownTab, linked, waiting>>
PointPart(part) ==
  /\ part # pointer /\ pointer' = part /\ codeAt' = 0 /\ Hover(part)
  /\ glow' = IF codeAt # 0 THEN {} ELSE glow
  /\ FilesSame /\ UNCHANGED focusOn
PointCode(i) ==
  /\ pointer' = Nobody /\ codeAt' = i /\ Unhover(pointer)
  /\ glow' = IF linked = NoDesign THEN {} ELSE LitFrom(shownTab, linked, i)
  /\ FilesSame /\ UNCHANGED focusOn
PointAway ==
  /\ (pointer # Nobody \/ codeAt # 0)
  /\ pointer' = Nobody /\ codeAt' = 0 /\ Unhover(pointer)
  /\ glow' = IF codeAt # 0 THEN {} ELSE glow
  /\ FilesSame /\ UNCHANGED focusOn
FocusPart(part) ==
  /\ part # focusOn /\ focusOn' = part
  /\ IF part = Nobody THEN Unhover(focusOn) ELSE Hover(part)
  /\ FilesSame /\ UNCHANGED <<glow, pointer, codeAt>>

\* The other tab, by its button: the focus is there.  An editor that goes out of
\* sight under the pointer is left by it.
ShowTab(tab) ==
  /\ tab # shownTab /\ focusOn = Nobody /\ shownTab' = tab
  /\ codeAt' = 0 /\ glow' = IF codeAt # 0 THEN {} ELSE glow
  /\ UNCHANGED <<written, linked, waiting, hovered, tip, marks, pointer, focusOn>>

-----------------------------------------------------------------------------
(* Edits and runs *)

Unlinked == linked' = NoDesign /\ tip' = Hidden /\ marks' = NoMarks /\ glow' = {} /\ UNCHANGED hovered
UserStays == UNCHANGED <<shownTab, pointer, codeAt, focusOn>>
\* Typed into the tab in front; a late answer of a run is dropped.
EditLinked(files) ==
  /\ focusOn = Nobody /\ files # written /\ written' = files
  /\ shownTab = "top" => files.xdc = written.xdc
  /\ shownTab = "xdc" => files.top = written.top
  /\ shownTab # "other" /\ Unlinked /\ waiting' = FALSE /\ codeAt' = 0
  /\ UNCHANGED <<shownTab, pointer, focusOn>>
RunLinked == Unlinked /\ waiting' = TRUE /\ UserStays /\ UNCHANGED written
\* The labels come before the links, so what is hovered is printed and not marked.
\* A failed binding is linked too.
LinksSet(ok) ==
  /\ waiting /\ waiting' = FALSE /\ UserStays /\ UNCHANGED <<written, hovered>>
  /\ IF ~ok THEN UNCHANGED <<linked, tip, marks, glow>>
     ELSE /\ linked' = DesignOf(written) /\ tip' = TipOf(DesignOf(written), hovered)
          /\ marks' = NoMarks /\ glow' = {}

LinksStep ==
  \/ \E part \in Parts : PointPart(part) \/ FocusPart(part)
  \/ FocusPart(Nobody) \/ PointAway \/ RunLinked
  \/ \E i \in Places(shownTab) : PointCode(i)
  \/ \E tab \in {"top", "xdc", "other"} : ShowTab(tab)
  \/ \E top \in TopTexts, xdc \in PinTexts : EditLinked([top |-> top, xdc |-> xdc])
  \/ \E ok \in BOOLEAN : LinksSet(ok)
LinksInit ==
  /\ written \in [top : TopTexts, xdc : PinTexts] /\ shownTab = "top" /\ linked = NoDesign /\ waiting = FALSE
  /\ hovered = Nobody /\ tip = Hidden /\ marks = NoMarks /\ glow = {}
  /\ pointer = Nobody /\ codeAt = 0 /\ focusOn = Nobody
LinksSpec == LinksInit /\ [][LinksStep]_linkVars

-----------------------------------------------------------------------------
\* Nothing is live but the design of the text as it stands: from an edit or a run on
\* until a run of that text compiled, all is inert.  A run whose pins failed to bind
\* counts.
InertWhenStale ==
  IF linked = NoDesign THEN tip = Hidden /\ marks = NoMarks /\ glow = {}
  ELSE linked = DesignOf(written) /\ (tip # Hidden <=> hovered # Nobody)
\* What is marked leads back to the part it is marked for, and is the port that is printed.
MarksLeadBack ==
  \A i \in marks.at :
    /\ hovered \in LitFrom(marks.tab, linked, i)
    /\ tip = IF marks.tab = "top" THEN written.top.words[i].word ELSE written.xdc[i].port
\* What is lit leads back to the name under the pointer, if every port has one pin; a
\* name in the header and a pin line would be marked.
GlowLeadsBack ==
  \A part \in glow :
    /\ codeAt \in Places(shownTab)
    /\ ~BindErrors(linked) =>
         /\ shownTab = "xdc" => codeAt \in MarkedIn("xdc", linked, part)
         /\ shownTab = "top" => /\ TipOf(linked, part) = written.top.words[codeAt].word
                                /\ written.top.words[codeAt].zone = "header" => codeAt \in MarkedIn("top", linked, part)
                                /\ written.top.words[codeAt].index # NoBit => Cardinality(glow) = 1

(* Code and board agree ("code <-> board hover", board-links.js): both ways of    *)
(* hovering are about the text and the circuit of the present moment, whatever    *)
(* pointer, focus, tabs, edits and late runs do in between, and lead back to each  *)
(* other by the source's index of a bit.  They come alive with any run that        *)
(* compiled, not only with a successful one (InertUntilSuccess).                  *)
CodeAndBoardAgree == InertWhenStale /\ MarksLeadBack /\ GlowLeadsBack

(* `everything is inert between an edit and the next successful run`               *)
(* (board-links.js): a run whose pins did not bind is not a successful one, the    *)
(* status says "not running", and nothing is printed, marked or lit for it.  Not   *)
(* so: such a run links its binding too.                                         *)
InertUntilSuccess == BindErrors(linked) => tip = Hidden /\ marks = NoMarks /\ glow = {}
=============================================================================
