------------------------------- MODULE MCWaves --------------------------------
(***************************************************************************)
(* The waveform viewers on small instances.                                 *)
(***************************************************************************)
EXTENDS WaveViewers

\* A file with a bit and a three-bit bus, written short and unknown, or too long.
FileCodes   == {"bit", "bus"}
FileWidths  == [c \in FileCodes |-> IF c = "bit" THEN 1 ELSE 3]
FileChanges == [c \in FileCodes |->
  IF c = "bit" THEN {<<"0">>, <<"z">>} ELSE {<<"x", "1">>, <<"0", "1", "1", "0">>}]

\* Two runs of one testbench: the second is shorter and has lost the bus of the
\* testbench, and its codes are given out anew.
Clk  == [path |-> "tb.clk", scope |-> "tb", code |-> "!", width |-> 1, type |-> "wire", check |-> FALSE]
BusV == [path |-> "tb.q", scope |-> "tb", code |-> "q", width |-> 2, type |-> "wire", check |-> FALSE]
Errs == [path |-> "tb.errors", scope |-> "tb", code |-> "e", width |-> 2, type |-> "integer", check |-> TRUE]
Inner == [path |-> "tb.dut.n", scope |-> "dut", code |-> "q", width |-> 2, type |-> "wire", check |-> FALSE]
Ticks(s) == [i \in DOMAIN s |-> [t |-> s[i], v |-> IF i % 2 = 1 THEN <<"0">> ELSE <<"1">>]]
Tree == [s \in {"", "tb", "dut"} |-> IF s = "" THEN <<"tb">> ELSE IF s = "tb" THEN <<"dut">> ELSE <<>>]
LongRun == [below |-> Tree, vars |-> <<Clk, BusV, Errs, Inner>>, end |-> 9,
            sigs |-> [c \in {"!", "q", "e"} |->
              IF c = "!" THEN Ticks(<<0, 3, 4, 8>>)
              ELSE IF c = "q" THEN <<[t |-> 0, v |-> <<"x", "x">>], [t |-> 2, v |-> <<"0", "1">>], [t |-> 6, v |-> <<"0", "0">>]>>
              ELSE <<>>]]
ShortRun == [LongRun EXCEPT !.vars = <<Clk, Errs>>, !.end = 6, !.sigs["!"] = Ticks(<<1, 5>>)]
TheRuns == {LongRun, ShortRun}
=============================================================================
