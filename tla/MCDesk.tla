-------------------------------- MODULE MCDesk --------------------------------
(***************************************************************************)
(* The parts of the desk on small instances.                                  *)
(***************************************************************************)
EXTENDS Desk

-----------------------------------------------------------------------------
\* A Vivado project p with a folder two levels down.
TheFolders  == {"p", "srcs", "new"}
TheParents  == [d \in TheFolders |-> IF d = "new" THEN "srcs" ELSE "p"]
TheXprs     == [d \in TheFolders |-> IF d = "p" THEN 1 ELSE 0]
TheFolderOf == [f \in {"a.sv", "b.sv"} |-> IF f = "a.sv" THEN "p" ELSE "new"]

\* An example that is typed in and a lab that is opened.
Tab(p, t, raw) == [path |-> p, text |-> t, raw |-> raw]
TheExamples == {<<Tab("a.sv", "ex", FALSE), Tab("p.xdc", "ex", FALSE)>>}
TheLabs     == {<<Tab("b.sv", "lab", TRUE), Tab("q.xdc", "lab", TRUE)>>}

\* A top that uses sub, a bench for the top and one for sub, two constraints files.
Mod(n, tb, uses) == [name |-> n, tb |-> tb, uses |-> uses]
TheNames == {"top.sv", "sub.sv", "s/tb.sv", "tb2.sv", "top.xdc", "s/b.xdc"}
TheKinds == [p \in TheNames |-> IF p \in {"top.xdc", "s/b.xdc"} THEN "xdc" ELSE "source"]
TheStems == [p \in TheNames |-> IF p = "top.xdc" THEN "top" ELSE "x"]
TheSets  == [p \in TheNames |-> IF p = "s/tb.sv" THEN "sim_1" ELSE IF p = "s/b.xdc" THEN "constrs_1" ELSE NoName]
TopMod == <<Mod("top", FALSE, {"sub"})>>
SubMod == <<Mod("sub", FALSE, {})>>
TheContents == {TopMod, SubMod, <<Mod("tb", TRUE, {"top"})>>, <<Mod("tb2", TRUE, {"sub"})>>,
                <<Mod("top", FALSE, {}), Mod("tb", TRUE, {"sub"})>>, <<>>}
Given(n, t, ps, top) ==
  [FileSet(n, t, {}, top) EXCEPT !.files = {[path |-> p, enabled |-> p # "s/tb.sv" \/ t = "SimulationSrcs"] : p \in ps}]
TheProjects ==
  {[wanted |-> [t \in Types |-> NoName],
    sets |-> {Given("sources_1", "DesignSrcs", {"top.sv", "sub.sv"}, "sub"),
              Given("sim_1", "SimulationSrcs", {"s/tb.sv"}, "tb"),
              Given("c", "Constrs", {"top.xdc"}, NoName)}]}
Plain(p, mods) == [path |-> p, mods |-> mods, usage |-> NoUse]
TwoSources == <<Plain("top.sv", TopMod), Plain("sub.sv", SubMod)>>
WithBenches == TwoSources \o <<Plain("tb2.sv", <<Mod("tb2", TRUE, {"sub"})>>), Plain("s/tb.sv", <<Mod("tb", TRUE, {"top"})>>)>>
WithPins == TwoSources \o <<Plain("top.xdc", <<>>), Plain("s/b.xdc", <<>>)>>

OneFile  == <<Plain("top.xdc", <<>>)>>
TheStarts == {TwoSources, WithBenches, WithPins, OneFile}

\* A clocked design with a two-bit port, one with two ports on a pin, one with two buttons.
TheKeys == [k \in {"Enter", "ArrowUp"} |-> IF k = "Enter" THEN "btnC" ELSE "btnU"]
ThePins == [p \in {"W5", "V17", "U18", "T18", "U16"} |->
  CASE p = "W5" -> "clk" [] p = "V17" -> "sw0" [] p = "U18" -> "btnC" [] p = "T18" -> "btnU" [] OTHER -> "led0"]
PortOf(n, d, bits, off, up) == [name |-> n, dir |-> d, bits |-> bits, offset |-> off, upto |-> up, vector |-> bits > 1]
PinOf(p, port, bit) == [pin |-> p, port |-> port, bit |-> bit]
TwoPorts == {PortOf("a", "input", 1, 0, FALSE), PortOf("b", "input", 1, 0, FALSE)}
TheDesigns ==
  {[ports |-> {PortOf("clk", "input", 1, 0, FALSE), PortOf("in", "input", 2, 1, TRUE), PortOf("led", "output", 1, 0, FALSE)},
    pins |-> {PinOf("W5", "clk", NoBit), PinOf("V17", "in", 1), PinOf("U18", "in", 2), PinOf("U16", "led", 0)}],
   [ports |-> TwoPorts, pins |-> {PinOf("U18", "a", NoBit), PinOf("U18", "b", 0)}],
   [ports |-> TwoPorts, pins |-> {PinOf("U18", "a", NoBit), PinOf("T18", "b", 0)}]}

\* The texts of the first and the last design, and the pins of all three.
WordAs(word, zone, index, dotted) == [word |-> word, zone |-> zone, index |-> index, dotted |-> dotted]
Header(names) == [i \in DOMAIN names |-> WordAs(names[i], "header", NoBit, FALSE)]
TheTops ==
  {[ports |-> {PortOf("clk", "input", 1, 0, FALSE), PortOf("in", "input", 2, 1, TRUE), PortOf("led", "output", 1, 0, FALSE)},
    words |-> Header(<<"clk", "in", "led">>) \o
              <<WordAs("in", "body", 1, FALSE), WordAs("in", "body", 2, FALSE), WordAs("led", "body", NoBit, FALSE),
                WordAs("led", "body", NoBit, TRUE), WordAs("led", "outside", NoBit, FALSE)>>],
   [ports |-> TwoPorts, words |-> Header(<<"a", "b">>) \o <<WordAs("a", "body", NoBit, FALSE)>>]}
ThePinLines ==
  {<<PinOf("W5", "clk", NoBit), PinOf("V17", "in", 1), PinOf("U18", "in", 2), PinOf("U16", "led", 0)>>,
   <<PinOf("U18", "a", NoBit), PinOf("U18", "b", 0)>>, <<PinOf("U18", "a", NoBit), PinOf("T18", "b", 0)>>}

\* What the tools may say of a design.
Fine == [ok |-> TRUE, log |-> {}, cells |-> {}, err |-> ""]
Stops(msgs) == [Fine EXCEPT !.ok = FALSE, !.log = msgs]
Warns(msgs) == [Fine EXCEPT !.log = msgs]
By(y, s) == [r \in Readers |-> IF r = "yosys" THEN y ELSE s]
Conflict(al, as, z) ==
  [text |-> "conflict", writers |-> [always |-> al, assigns |-> as, zs |-> z, placed |-> TRUE,
                                     muxes |-> FALSE, inout |-> FALSE, pad |-> FALSE]]
Undriven(form) == [text |-> "implicit", name |-> [form |-> form, driven |-> FALSE]]
Good  == [scan |-> FALSE, read |-> By(Fine, Fine), hw |-> By(Fine, Fine), synth |-> By(Fine, Fine), bench |-> "ok"]
Clash == [Good EXCEPT !.synth = By(Stops({Said("exists")}), Fine)]
TheSubmitted ==
  {Good, Clash,
   [Clash EXCEPT !.hw = By(Warns({Conflict(2, 0, 0)}), Fine), !.bench = "testbench-error"],
   [Clash EXCEPT !.hw["slang"].cells = {"aldff"}, !.bench = "sim-exit"],
   [Good EXCEPT !.read = By(Stops({Said("syntax")}), Fine), !.synth = By(Stops({Said("failed")}), Fine), !.bench = "crash"],
   [Good EXCEPT !.read = By(Warns({Undriven("dotted")}), Warns({Conflict(0, 0, 2)})),
                !.hw = By(Fine, Warns({Conflict(0, 1, 1)})), !.bench = "compile"],
   [Good EXCEPT !.read = By(Stops({Said("missing")}), Fine)]}

\* A switch that is off and one under a digit, both on the trace of the home page.
TheWalk  == [r \in Routes |-> IF r = "trace" THEN 2 ELSE 1]
TheChips == {[route |-> "trace", at |-> 1]}

\* A three-bit counter and a compare: of every sort, on either side, with the reload on
\* either answer; one that only drives a led; a free counter, one by two; five at once.
CellOf(type, ins, outs, line) == [type |-> type, ins |-> ins, outs |-> outs, src |-> [file |-> "t.sv", line |-> line]]
BitsOfN(n) == [i \in 1..3 |-> IF (n \div 2^(i - 1)) % 2 = 1 THEN One ELSE Zero]
Count == <<1, 2, 3>>
Sum   == <<4, 5, 6>>
Counter(next, by, line) ==
  <<CellOf("$add", [A |-> Count, B |-> BitsOfN(by)], [Y |-> Sum], line), CellOf("$dff", [D |-> next], [Q |-> Count], line)>>
Comparing(type, n, left, line) ==
  CellOf(type, IF left THEN [A |-> BitsOfN(n), B |-> Count] ELSE [A |-> Count, B |-> BitsOfN(n)], [Y |-> <<7>>], line)
ReloadMux(onOne, line) ==
  CellOf("$mux", [A |-> IF onOne THEN Sum ELSE BitsOfN(0), B |-> IF onOne THEN BitsOfN(0) ELSE Sum, S |-> <<7>>],
         [Y |-> <<8, 9, 10>>], line)
ModOf(cells, outs) == [cells |-> cells, outputs |-> outs, names |-> <<[name |-> "_q", hidden |-> TRUE, bits |-> Count],
                                                                    [name |-> "c", hidden |-> FALSE, bits |-> Count]>>]
Reloaded(type, n, left, onOne, outs, line) ==
  ModOf(Counter(<<8, 9, 10>>, 1, line) \o <<Comparing(type, n, left, line + 1), ReloadMux(onOne, line)>>, outs)
TheNetlists ==
  {<<Reloaded(type, n, left, onOne, outs, 1)>> :
     type \in Compares, n \in 1..7, left \in BOOLEAN, onOne \in BOOLEAN, outs \in {{}, {2, 9}}}
  \cup {<<ModOf(Counter(Sum, by, 1) \o <<Comparing("$eq", 5, FALSE, 2)>>, {3, 7})>> : by \in {1, 2}}
  \cup {[i \in 1..5 |-> Reloaded("$ge", i + 2, FALSE, TRUE, {}, 2 * i)],
        [i \in 1..2 |-> Reloaded("$ge", 5, FALSE, TRUE, {3}, 2 * i)]}

-----------------------------------------------------------------------------
\* DeskInit, where the parts that do not move start in one way.
Init ==
  /\ part \in DeskParts
  /\ EditorInit /\ (part \notin Commands => active = "a.sv") /\ (part # "lint" => setting = Unset)
  /\ WorkspaceInit /\ BoardInit /\ BuildInit
  /\ ProjectInit /\ ((part = "project") <=> (lab # OneFile))
  /\ SiteInit /\ (part # "site" => site.page = "newsletter" /\ site.stored = "none" /\ ~site.blocked)
  /\ HomeInit /\ (part \notin {"switches", "page"} => ~calm.now /\ ~branch) /\ (part # "page" => ~side.room)
  /\ StageInit /\ (part # "stage" => scroll = 0 /\ ~phone /\ ~pictures.ok)
  /\ HintsInit /\ (part # "hints" => Len(netlist) = 5)
  /\ LinksInit /\ (part # "links" => Len(written.xdc) = 4 /\ written.top.ports = TwoPorts)
Spec == Init /\ [][DeskNext]_deskVars
=============================================================================
