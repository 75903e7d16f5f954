------------------------------- MODULE HomePage -------------------------------
(***************************************************************************)
(* The home page (boot, in docs/home/page.js): the board and the stage are   *)
(* started beside each other and share nothing but the page they are on.     *)
(***************************************************************************)
EXTENDS HomeBoard, HomeStage

HomePageSpec == HomeSpec /\ StageSpec

(* The home page shows one story: however clicks, keys, frames, scrolls and       *)
(* relayouts interleave, its board is the board its switches say, and its stage  *)
(* the frame of where the reader is ("scrolling back runs it back", flow.js).     *)
HomeTellsOneStory == BoardIsHonest /\ StageFollowsScroll
=============================================================================
