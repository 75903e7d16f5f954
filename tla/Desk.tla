---------------------------------- MODULE Desk ---------------------------------
(***************************************************************************)
(* The editor extension, the simulator's workspace, project, board, hover links *)
(* and build workers with their timing hints, the account page, and the home    *)
(* page's board and stage, side by side: they share no state, and `part` says   *)
(* which of them moves (for the extension, which of its commands; for the home  *)
(* page's board, its switches or the rest).                                    *)
(***************************************************************************)
EXTENDS EditorExtension, SimWorkspace, SimProject, SimBoard, BuildPipeline, AccountPage,
        HomePage, TimingHints, BoardLinks

VARIABLE part

-----------------------------------------------------------------------------
Commands == {"run", "top", "lint", "sim", "design"}
DeskParts == Commands \cup {"files", "project", "board", "build", "site", "switches", "page", "stage", "hints", "links"}
DeskInit ==
  /\ part \in DeskParts
  /\ EditorInit /\ WorkspaceInit /\ ProjectInit /\ BoardInit /\ BuildInit /\ SiteInit
  /\ HomeInit /\ StageInit /\ HintsInit /\ LinksInit

DeskStep ==
  \/ part = "run" /\ RunStep
  \/ part = "top" /\ TopStep
  \/ part = "lint" /\ LinterStep
  \/ part = "sim" /\ SimStep
  \/ part = "design" /\ DesignStep
  \/ part = "files" /\ WorkspaceStep
  \/ part = "project" /\ ProjectStep
  \/ part = "board" /\ BoardStep
  \/ part = "build" /\ BuildStep
  \/ part = "site" /\ SiteStep
  \/ part = "switches" /\ SwitchStep
  \/ part = "page" /\ PageStep
  \/ part = "stage" /\ StageStep
  \/ part = "hints" /\ HintsStep
  \/ part = "links" /\ LinksStep
Rest(parts, theirVars) == IF part \in parts THEN TRUE ELSE UNCHANGED theirVars
DeskNext ==
  /\ DeskStep /\ UNCHANGED part
  /\ Rest(Commands, editorVars) /\ Rest({"files"}, workspaceVars) /\ Rest({"project"}, projectVars)
  /\ Rest({"board"}, boardVars) /\ Rest({"build"}, buildVars) /\ Rest({"site"}, site)
  /\ Rest({"switches", "page"}, homeVars) /\ Rest({"stage"}, stageVars) /\ Rest({"hints"}, hintVars)
  /\ Rest({"links"}, linkVars)

deskVars == <<part, editorVars, workspaceVars, projectVars, boardVars, buildVars, site,
              homeVars, stageVars, hintVars, linkVars>>
DeskSpec == DeskInit /\ [][DeskNext]_deskVars

(* The types of all of them.                                                *)
DeskTypeOK == /\ EditorTypeOK /\ WorkspaceTypeOK /\ ProjectTypeOK /\ BoardTypeOK
              /\ BuildTypeOK /\ SiteTypeOK /\ HomeTypeOK /\ StageTypeOK
=============================================================================
