------------------------------ MODULE TimingHints ------------------------------
(***************************************************************************)
(* What the build tells about slow counters (timingHints, yosys-pipeline.js): *)
(* it looks in the netlist for a register that counts up by one and for the    *)
(* compare that reloads it, or for the highest of its bits an output can see.   *)
(* Beside it a reference: the netlist, clocked from 0.                         *)
(***************************************************************************)
EXTENDS Integers, FiniteSets, SequencesExt

CONSTANTS Netlists,     \* designs: a sequence of modules [cells, names, outputs]
          LeastCycles,  \* what counts as slow: 10000 cycles and bit 14 in the code
          LeastBit

ASSUME HintsAssumption == LeastCycles \in Nat /\ LeastCycles > 2 /\ LeastBit \in Nat

VARIABLES netlist, hints
hintVars == <<netlist, hints>>

\* A bit is a wire's number or one of two constants.
Zero == -1
One  == -2
Unasked == [asked |-> FALSE, given |-> <<>>]
MostHints == 4

-----------------------------------------------------------------------------
(* The netlist *)

\* A cell is [type, ins, outs, src], src the [file, line] it comes from.
Dynamic(bits)    == SelectSeq(bits, LAMBDA b : b \notin {Zero, One})
IsConstant(bits) == Len(bits) <= 52 /\ Dynamic(bits) = <<>>
Constant(bits)   == MapThenSumSet(LAMBDA i : IF bits[i] = One THEN 2^(i - 1) ELSE 0, DOMAIN bits)
Same(a, b)       == a # <<>> /\ a = b

Wires(ports) == UNION {Range(Dynamic(ports[p])) : p \in DOMAIN ports}
Stores(c)    == c.type \in {"$dff", "$dffe"}
Compares     == {"$eq", "$ne", "$ge", "$gt", "$le", "$lt"}

\* The wires that decide these ones within a clock cycle.
Cone(cells, starts) ==
  LET back[n \in 0..Len(cells)] ==
        IF n = 0 THEN starts
        ELSE LET found == back[n - 1] IN
             found \cup UNION {Wires(c.ins) : c \in {d \in Range(cells) : ~Stores(d) /\ Wires(d.outs) \cap found # {}}}
  IN back[Len(cells)]
Decided(cells, reg) == Cone(cells, Range(Dynamic(reg.ins.D)))

\* The register counts up by one on some of its ways.
Increments(cells, reg) ==
  \E c \in Range(cells) :
    /\ c.type = "$add" /\ Wires(c.outs) \cap Decided(cells, reg) # {}
    /\ \/ Same(Dynamic(c.ins.A), Dynamic(reg.outs.Q)) /\ IsConstant(c.ins.B) /\ Constant(c.ins.B) = 1
       \/ Same(Dynamic(c.ins.B), Dynamic(reg.outs.Q)) /\ IsConstant(c.ins.A) /\ Constant(c.ins.A) = 1

-----------------------------------------------------------------------------
(* The hints *)

Named(mod, bits) ==
  LET of == SelectSeq(mod.names, LAMBDA n : ~n.hidden /\ Same(Dynamic(n.bits), bits))
  IN IF of = <<>> THEN "counter" ELSE of[1].name

\* A counter from 0 flips the compare at N, or at N+1 for > and <=; mirrored when the
\* constant stands on the left.
CountedSide(c) == IF IsConstant(c.ins.B) THEN "A" ELSE "B"
OtherSide(c)   == IF IsConstant(c.ins.B) THEN "B" ELSE "A"
BeyondOneSided(c) == c.type \in {"$gt", "$le"}  \* mutant: the side is not looked at
Beyond(c) == c.type \in IF CountedSide(c) = "A" THEN {"$gt", "$le"} ELSE {"$ge", "$lt"}
Threshold(c) == Constant(c.ins[OtherSide(c)]) + 1 + IF Beyond(c) THEN 1 ELSE 0
Watched(cells, c) == SelectSeq(cells, LAMBDA r : Stores(r) /\ Same(Dynamic(r.outs.Q), Dynamic(c.ins[CountedSide(c)])))

AddCompare(found, mod, c) ==
  LET regs == Watched(mod.cells, c)
      hint == [kind |-> "compare", signal |-> Named(mod, Dynamic(c.ins[CountedSide(c)])),
               cycles |-> Threshold(c), src |-> c.src] IN
  IF /\ Len(found) < MostHints /\ c.type \in Compares
     /\ IsConstant(c.ins.A) \/ IsConstant(c.ins.B)
     /\ Threshold(c) >= LeastCycles
     /\ regs # <<>> /\ Increments(mod.cells, regs[1])
     /\ Wires(c.outs) \cap Decided(mod.cells, regs[1]) # {}
     /\ ~\E h \in Range(found) : h.kind = "compare" /\ h.signal = hint.signal /\ h.cycles = hint.cycles /\ h.src.file = hint.src.file
  THEN Append(found, hint) ELSE found

\* The highest bit of a counter that an output sees past no other register.
Visible(mod, reg) ==
  LET q == Dynamic(reg.outs.Q) IN {i \in DOMAIN q : q[i] \in Cone(mod.cells, mod.outputs)}
AddBit(found, mod, reg) ==
  LET bit  == Max(Visible(mod, reg)) - 1
      hint == [kind |-> "bit", signal |-> Named(mod, Dynamic(reg.outs.Q)), cycles |-> 2^bit, src |-> reg.src] IN
  IF /\ Len(found) < MostHints /\ Stores(reg) /\ Increments(mod.cells, reg)
     /\ Visible(mod, reg) # {} /\ bit \in LeastBit..51
     /\ ~\E h \in Range(found) : h.signal = hint.signal /\ h.src.file = hint.src.file
  THEN Append(found, hint) ELSE found

OfModule(found, mod) ==
  FoldLeft(LAMBDA f, c : AddBit(f, mod, c), FoldLeft(LAMBDA f, c : AddCompare(f, mod, c), found, mod.cells), mod.cells)
TimingHintsOf(mods) == FoldLeft(OfModule, <<>>, mods)

HintsInit == netlist \in Netlists /\ hints = Unasked
HintsStep == hints = Unasked /\ hints' = [asked |-> TRUE, given |-> TimingHintsOf(netlist)] /\ UNCHANGED netlist

-----------------------------------------------------------------------------
(* The reference: the module, clocked *)

Driver(mod, b) == CHOOSE c \in Range(mod.cells) : b \in Wires(c.outs)
Driven(mod)    == UNION {Wires(c.outs) : c \in Range(mod.cells)}
Bits(mod)      == Driven(mod) \cup UNION {Wires(c.ins) : c \in Range(mod.cells)}
Place(bits, b) == CHOOSE i \in DOMAIN bits : bits[i] = b

\* What a cell puts on its output, from the numbers on its inputs.
Computes(c, in) ==
  CASE c.type = "$add" -> in["A"] + in["B"]
    [] c.type = "$mux" -> IF in["S"] = 1 THEN in["B"] ELSE in["A"]
    [] c.type = "$not" -> 2^Len(c.outs.Y) - 1 - in["A"]
    [] OTHER -> IF CASE c.type = "$eq" -> in["A"] = in["B"] [] c.type = "$ne" -> in["A"] # in["B"]
                     [] c.type = "$ge" -> in["A"] >= in["B"] [] c.type = "$gt" -> in["A"] > in["B"]
                     [] c.type = "$le" -> in["A"] <= in["B"] [] OTHER -> in["A"] < in["B"]
                THEN 1 ELSE 0
\* All wires, given what the registers hold; the inputs of the design are 1.
Settled(mod, regs) ==
  LET v[b \in Bits(mod)] ==
        IF b \notin Driven(mod) THEN 1
        ELSE LET c == Driver(mod, b) IN
             IF Stores(c) THEN regs[b]
             ELSE LET in == [p \in DOMAIN c.ins |->
                               MapThenSumSet(LAMBDA i : IF c.ins[p][i] = One \/ (c.ins[p][i] > 0 /\ v[c.ins[p][i]] = 1)
                                                        THEN 2^(i - 1) ELSE 0, DOMAIN c.ins[p])]
                  IN (Computes(c, in) \div 2^(Place(c.outs.Y, b) - 1)) % 2
  IN [b \in Bits(mod) |-> v[b]]
Registers(mod) == UNION {Wires(c.outs) : c \in {d \in Range(mod.cells) : Stores(d)}}
Clock(mod, before) ==
  Settled(mod, [b \in Registers(mod) |->
    LET c == Driver(mod, b)  d == c.ins.D[Place(c.outs.Q, b)] IN IF d > 0 THEN before[d] ELSE IF d = One THEN 1 ELSE 0])
Waveform(mod, span) ==
  FoldLeft(LAMBDA waves, t : Append(waves, Clock(mod, waves[t])),
           <<Settled(mod, [b \in Registers(mod) |-> 0])>>, [t \in 1..span |-> t])
\* The cycle after which a wire is not what it was at first, if it ever is.
FirstFlip(waves, b) ==
  {t \in 1..(Len(waves) - 1) : waves[t + 1][b] # waves[1][b] /\ \A u \in 1..t : waves[u][b] = waves[1][b]}

\* "A counter from 0 first flips the compare at N [or] N+1; a reload on that flip
\* makes a period of flip+1 cycles.  The constant may stand on either side"
\* (yosys-pipeline.js): a hint names the cycles the clocked netlist takes, a compare
\* that reloads a slow counter has one while there is room, and a bit that is
\* hinted at does not change before.
HintsCountRight ==
  hints.asked =>
    \A m \in DOMAIN netlist :
      LET mod == netlist[m]  waves == Waveform(mod, 12) IN
      /\ \A c \in Range(mod.cells) :
           (c.type \in Compares /\ Watched(mod.cells, c) # <<>> /\ Increments(mod.cells, Watched(mod.cells, c)[1])) =>
             \A t \in FirstFlip(waves, c.outs.Y[1]) :
               LET found == {h \in Range(hints.given) : h.kind = "compare"} IN
               /\ \A h \in found : h.src = c.src => h.cycles = t + 1
               /\ (/\ c.outs.Y[1] \in Decided(mod.cells, Watched(mod.cells, c)[1])
                  /\ t + 1 >= LeastCycles /\ Len(hints.given) < MostHints) =>
                    \E h \in found : h.signal = Named(mod, Dynamic(c.ins[CountedSide(c)])) /\ h.cycles = t + 1
      /\ \A c \in Range(mod.cells), h \in Range(hints.given) :
           (Stores(c) /\ h.kind = "bit" /\ h.src = c.src) =>
             /\ \E b \in Visible(mod, c) :
                  /\ h.cycles = 2^(b - 1)
                  /\ \A t \in FirstFlip(waves, Dynamic(c.outs.Q)[b]) : t >= h.cycles
             /\ \A b \in Visible(mod, c) : 2^(b - 1) <= h.cycles
=============================================================================
