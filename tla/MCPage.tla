-------------------------------- MODULE MCPage --------------------------------
(* The simulator page on small instances. *)
EXTENDS SimPage

\* All is well; the board does not compile, or its pins do not fit; the
\* testbench does not compile, or there is none.
SomeContents == {[board |-> "ok", tb |-> "ok"], [board |-> "bad", tb |-> "ok"],
                 [board |-> "unbound", tb |-> "bad"], [board |-> "ok", tb |-> "norole"]}
=============================================================================
