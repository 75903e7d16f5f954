-------------------------------- MODULE MCNews --------------------------------
(* The newsletter tables and the confirmation runs on small instances. *)
EXTENDS ConfirmationRun, TLC

Symmetry == Permutations(Workers) \cup Permutations(Users) \cup Permutations(Addresses)

\* For the traces of the findings, which need no odd timing: no run lasts
\* into the next day, and none takes a step inside a subscribe transaction.
Prompt ==
  /\ today' # today => \A w \in Workers : run[w].pc = "idle"
  /\ run' # run => \A a \in Addresses : asking[a] = 0
=============================================================================
