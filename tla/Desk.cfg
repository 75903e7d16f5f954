SPECIFICATION Spec
CONSTANTS
  Folders <- TheFolders
  Above <- TheParents
  XprCount <- TheXprs
  HasSources = {}
  InSources = {"srcs", "new"}
  Files = {"a.sv", "b.sv"}
  FolderOf <- TheFolderOf
  Errors = {"e"}
  Tops = {"t1", "t2"}
  Waves = {"x.vcd", "y.vcd"}
  MaxCalls = 4
  Paths = {"a.sv", "b.sv", "p.xdc", "q.xdc"}
  Sources = {"a.sv", "b.sv"}
  Constraints = {"p.xdc", "q.xdc"}
  Texts = {"", "ex", "lab", "mine", "big"}
  Typed = {"mine"}
  Blank = ""
  Big = "big"
  Examples <- TheExamples
  Labs <- TheLabs
  MaxFiles = 3
  MaxDeeds = 3
  Names <- TheNames
  KindOf <- TheKinds
  Nested = {"s/tb.sv", "s/b.xdc"}
  StemOf <- TheStems
  SrcsSet <- TheSets
  Contents <- TheContents
  Projects <- TheProjects
  Starts <- TheStarts
  MaxChanges = 3
  Buttons = {"btnC", "btnU"}
  Switches = {"sw0"}
  BoardKeys <- TheKeys
  PressKeys = {"Enter"}
  PinElement <- ThePins
  Designs <- TheDesigns
  MaxInputs = 5
  Submitted <- TheSubmitted
  MaxRequests = 2
  MaxClicks = 3
  Levers = {0, 12}
  OnAtFirst = {12}
  Knobs = {"btnC", "btnL"}
  WalkLen <- TheWalk
  Chips <- TheChips
  MaxTouches = 3
  Scrolls = {0, 39, 41, 43, 2551, 4700, 7700, 9500}
  MaxScrolls = 3
  Netlists <- TheNetlists
  LeastCycles = 4
  LeastBit = 1
  TopTexts <- TheTops
  PinTexts <- ThePinLines
CHECK_DEADLOCK FALSE
INVARIANT DeskTypeOK
INVARIANT EditorKeepsItsWord
INVARIANT EditsAreKept
INVARIANT ArchiveReopensTheSame
INVARIANT CircuitSeesTheBoard
INVARIANT RunnableMeansValidated
INVARIANT SiteKeepsFaith
INVARIANT HomeTellsOneStory
INVARIANT HintsCountRight
INVARIANT CodeAndBoardAgree
