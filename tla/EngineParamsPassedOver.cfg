SPECIFICATION Spec
CONSTANTS
  NoValue = ""
  InQuotes = {"'y'"}
  HasSplit = {}
  WithQuotes <- MCWithQuotes
  Plain <- MCPlain
  IgnoreParams = {"l"}
  IgnoreTemplateParams = {}
  Params <- MCParams
  Values <- MCValues
  Template <- MCTemplate
  ClassParams <- MCClassParams
  Reloadable = {"f", "e", "l"}
  Choices = {"b", "c"}
  CanUpdate = FALSE
  EditsWait = FALSE
  MaxTime = 3
  MaxEdits = 2
  MaxFlows = 2
  MaxFaults = 1
INVARIANT PassedOverMeansFlushed
CHECK_DEADLOCK FALSE
