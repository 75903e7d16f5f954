----------------------------- MODULE WaveViewers ------------------------------
(***************************************************************************)
(* Reading a file and using the window, side by side: they share no state, and *)
(* `part` says which of the two moves.                                      *)
(***************************************************************************)
EXTENDS WaveDump, WaveViewer

VARIABLE part

Init == part \in {"file", "window"} /\ DumpInit /\ ViewerInit
Next ==
  \/ part = "file" /\ DumpNext /\ UNCHANGED <<viewerVars, part>>
  \/ part = "window" /\ ViewerNext /\ UNCHANGED <<dumpVars, part>>
Spec == Init /\ [][Next]_<<dumpVars, viewerVars, part>>

(* The types of both. *)
WavesTypeOK == DumpTypeOK /\ ViewerTypeOK
=============================================================================
