------------------------------- MODULE Filtered --------------------------------
(***************************************************************************)
(* Array.filter on sequences, by a set and with a recursive function, so      *)
(* that the modules that filter can be proved about.                         *)
(***************************************************************************)
EXTENDS Integers, Sequences

\* The elements of a sequence that lie in S, in their order (Array.filter).
Only(s, S) ==
  LET upTo[i \in 0..Len(s)] ==
        IF i = 0 THEN <<>> ELSE IF s[i] \in S THEN Append(upTo[i - 1], s[i]) ELSE upTo[i - 1]
  IN upTo[Len(s)]
=============================================================================
