SPECIFICATION Spec
CONSTANTS
  Files = {f1, f2}
  Grain = 2
  MaxVersion = 2
  MaxEdits = 2
  Modes <- Full
  Kinds = {"tick", "query", "bound"}
  MaxFailures = 1
  None = None
SYMMETRY Renamings
INVARIANTS AnswersAreFresh PinMatches OneCommitter OneTree OverlayTruthful
PROPERTY CommitsNeverInvert
