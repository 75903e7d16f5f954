------------------------------- MODULE WaveDump -------------------------------
(***************************************************************************)
(* What the two waveform viewers make of one VCD file: wave.js, the window  *)
(* `dewfpga wave` opens, and vcd.js with its canvas, the pane of the        *)
(* browser simulator.  The file is read token by token; `dump` remembers    *)
(* the changes as they were written.                                       *)
(*                                                                         *)
(* A value is a sequence of bits, the most significant first.  Times are    *)
(* ticks of the file and do not decrease, as every simulator writes them.   *)
(***************************************************************************)
EXTENDS WaveSeries

CONSTANTS Codes,       \* identifier codes of the file
          WidthOf,     \* their widths
          Written,     \* the values the file may write for a code
          Modules,  \* names of modules
          MaxTime, MaxTokens  \* bounds on times and on the tokens of a file

ASSUME DumpAssumption ==
  /\ WidthOf \in [Codes -> Nat \ {0}]
  /\ Written \in [Codes -> SUBSET Seq(Bits)]
  \* Nothing but known bits is cut from a value that is too long, and only of a bus:
  \* the pane, which does not cut, would draw the bits that are cut.
  /\ \A c \in Codes : \A v \in Written[c] :
       /\ v # <<>>
       /\ Len(v) > WidthOf[c] => WidthOf[c] > 1 /\ \A i \in 1..(Len(v) - WidthOf[c]) : v[i] \in {"0", "1"}
  /\ MaxTime \in Nat /\ MaxTokens \in Nat

VARIABLES scopePath,   \* the open scopes
          declared,    \* the declared variables: code and scope, in file order
          defined, \* $enddefinitions was read
          now,     \* the last time stamp
          dump,    \* the changes, as written
          sigs,    \* wave.js: per code, strictly growing times with new values
          changes  \* vcd.js: per code, every change as it came

dumpVars == <<scopePath, declared, defined, now, dump, sigs, changes>>

-----------------------------------------------------------------------------
(* vcd.js and tb/wave.js *)

\* The signals of the pane: a code declared again is an alias and not shown.
Shown == {i \in DOMAIN declared : \A j \in 1..(i - 1) : declared[j].code # declared[i].code}

PaneValueAt(c, t) ==
  LET past == {i \in DOMAIN changes[c] : \A j \in 1..i : changes[c][j].t <= t} IN
  IF past = {} THEN <<"x">> ELSE changes[c][Cardinality(past)].v

\* What the pane draws of a code at time t: a bit as a line at a level, where z
\* is in the middle like x, and a bus as a box, red with any x or z in it.
PaneLevel(v, width) ==
  IF width = 1 /\ v = <<"1">> THEN "high" ELSE IF width = 1 /\ v = <<"0">> THEN "low"
  ELSE IF \E i \in DOMAIN v : v[i] \in {"x", "z"} THEN "unknown" ELSE "value"
PaneBlocks(c) ==
  LET a == changes[c]
      end(i) == IF i < Len(a) THEN a[i + 1].t ELSE MaxTime + 1
  IN {[from |-> a[i].t, to |-> end(i), shows |-> PaneLevel(a[i].v, WidthOf[c])] : i \in DOMAIN a}
       \cup IF a = <<>> THEN {[from |-> 0, to |-> MaxTime + 1, shows |-> "unknown"]}
            ELSE {[from |-> 0, to |-> a[1].t, shows |-> "unknown"]}

-----------------------------------------------------------------------------
TokensRead == Len(declared) + Len(dump) + Len(scopePath)

DumpInit ==
  /\ scopePath = <<>> /\ declared = <<>> /\ defined = FALSE /\ now = 0 /\ dump = <<>>
  /\ sigs = [c \in Codes |-> <<>>] /\ changes = [c \in Codes |-> <<>>]

OpenScope(name) ==
  /\ ~defined /\ TokensRead < MaxTokens
  /\ scopePath' = Append(scopePath, name)
  /\ UNCHANGED <<declared, defined, now, dump, sigs, changes>>

\* At the root there is nothing to close.
CloseScope ==
  /\ ~defined
  /\ scopePath' = IF scopePath = <<>> THEN scopePath ELSE SubSeq(scopePath, 1, Len(scopePath) - 1)
  /\ UNCHANGED <<declared, defined, now, dump, sigs, changes>>

Declare(c) ==
  /\ ~defined /\ TokensRead < MaxTokens
  /\ declared' = Append(declared, [code |-> c, path |-> scopePath])
  /\ UNCHANGED <<scopePath, defined, now, dump, sigs, changes>>

EndDefinitions ==
  /\ ~defined /\ defined' = TRUE /\ scopePath' = <<>>
  /\ UNCHANGED <<declared, now, dump, sigs, changes>>

TimeStamp(t) ==
  /\ defined /\ t > now /\ now' = t
  /\ UNCHANGED <<scopePath, declared, defined, dump, sigs, changes>>

Declared(c) == \E i \in DOMAIN declared : declared[i].code = c

\* A change of a code nobody declared is passed over.
ValueChange(c, v) ==
  /\ defined /\ TokensRead < MaxTokens
  /\ dump' = Append(dump, [t |-> now, code |-> c, v |-> v])
  /\ IF Declared(c)
     THEN /\ sigs' = [sigs EXCEPT ![c] = Push(@, now, Extended(v, WidthOf[c]))]
          /\ changes' = [changes EXCEPT ![c] = Append(@, [t |-> now, v |-> v])]
     ELSE UNCHANGED <<sigs, changes>>
  /\ UNCHANGED <<scopePath, declared, defined, now>>

DumpNext ==
  \/ \E n \in Modules : OpenScope(n)
  \/ CloseScope
  \/ EndDefinitions
  \/ \E c \in Codes : Declare(c) \/ \E v \in Written[c] : ValueChange(c, v)
  \/ \E t \in 1..MaxTime : TimeStamp(t)

DumpSpec == DumpInit /\ [][DumpNext]_dumpVars

-----------------------------------------------------------------------------
(* Properties *)

DumpTypeOK ==
  /\ scopePath \in Seq(Modules) /\ defined \in BOOLEAN /\ now \in 0..MaxTime
  /\ declared \in Seq([code : Codes, path : Seq(Modules)])
  /\ dump \in Seq([t : Nat, code : Codes, v : Seq(Bits)])
  /\ sigs \in [Codes -> Series] /\ changes \in [Codes -> Series]

\* What the file says code c holds at time t: the last change written by then.
Past(c, t) == {i \in DOMAIN dump : dump[i].code = c /\ dump[i].t <= t}
Told(c, t) ==
  IF ~Declared(c) \/ Past(c, t) = {} THEN NoValue
  ELSE LET i == CHOOSE i \in Past(c, t) : \A j \in Past(c, t) : j <= i
       IN Extended(dump[i].v, WidthOf[c])

\* A text in radix 2^size says the same number, and a digit is X or Z exactly when
\* one of its own bits is; the signed reading is the two's complement.
Worth(v, size) ==
  LET g == Groups(v, size)
      upTo[k \in 0..Len(g)] ==
        IF k = 0 THEN 0 ELSE upTo[k - 1] * 2^size + (CHOOSE n \in 0..(2^size - 1) : Digits[n + 1] = g[k])
  IN upTo[Len(g)]
Reads(v) ==
  IF ~Unknown(v)
  THEN /\ \A size \in 1..4 : Worth(v, size) = Number(v)
       /\ \E n \in {Number(v), Number(v) - TwoTo(Len(v))} :
            Signed(v) = Decimal(n) /\ 2 * n \in -TwoTo(Len(v))..(TwoTo(Len(v)) - 1)
  ELSE /\ Unsigned(v) \in {<<"X">>, <<"Z">>}
       /\ \A i \in DOMAIN v : (Groups(v, 1)[i] \in {"X", "Z"}) = (v[i] \in {"x", "z"})
RadixesRead == \A c \in Codes : \A i \in DOMAIN sigs[c] : Reads(sigs[c][i].v)

\* Zoomed out, changes closer than a pixel become one block, and drawing goes on
\* behind it: from the first change to the end of the run no time in the window is
\* left out, and a block that shows a level shows the right one.
Within(t, b) == b.from <= t /\ (t < b.to \/ t = MaxTime)
NothingUndrawn ==
  \A c \in {d \in Codes : sigs[d] # <<>>} : \A n \in 1..2, t0 \in 0..1 :
    LET s == sigs[c]
        blocks == Blocks(s, MaxTime, t0, n, 2, Earlier(WidthOf[c], 2), WidthOf[c] = 1)
    IN \A t \in Later(t0, s[1].t)..Earlier(MaxTime, t0 + 2 * n) :
         LET here == {b \in blocks : Within(t, b)} IN
         /\ here # {}
         /\ \A b \in here : (t < b.to /\ b.shows # "dense") => b.shows = Level(ValueAt(s, t))

ListedOnce ==
  \A c \in {declared[i].code : i \in DOMAIN declared} : Cardinality({i \in Shown : declared[i].code = c}) = 1

\* The wave window's value, the values of the bits of the bus, and the pane's.
BusTells(c, t) == ValueAt(sigs[c], t) = Told(c, t)
BitsTell(c, t) ==
  \A k \in 1..WidthOf[c] :
    ValueAt(BitSeries(sigs[c], k), t) = IF Told(c, t) = NoValue THEN NoValue ELSE <<Told(c, t)[k]>>
PaneTells(c, t) ==
  LET none == Told(c, t) = NoValue IN
  Declared(c) =>
    /\ Extended(PaneValueAt(c, t), WidthOf[c]) = IF none THEN [k \in 1..WidthOf[c] |-> "x"] ELSE Told(c, t)
    /\ \A b \in PaneBlocks(c) : (b.from <= t /\ t < b.to) =>
         b.shows = IF none \/ Level(Told(c, t)) = "float" THEN "unknown" ELSE Level(Told(c, t))
ValuesAsWritten == \A c \in Codes : \A t \in 0..MaxTime : BusTells(c, t) /\ BitsTell(c, t) /\ PaneTells(c, t)

(* Both viewers show at every time what the file says, for a bus and for each *)
(* of its bits, although the wave window merges, drops and searches changes by *)
(* halving and the pane keeps them all and lists each code only once; a radix  *)
(* says the number the bits say; where the pane draws a level, so does the     *)
(* window, and the window leaves no time undrawn.                            *)
ViewersShowTheFile == ListedOnce /\ ValuesAsWritten /\ RadixesRead /\ NothingUndrawn
=============================================================================
