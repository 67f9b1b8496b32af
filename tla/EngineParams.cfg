SPECIFICATION FairSpec
CONSTANTS
  NoValue = ""
  InQuotes = {"'y'"}
  HasSplit = {}
  WithQuotes <- MCWithQuotes
  Plain <- MCPlain
  IgnoreParams = {"l"}
  IgnoreTemplateParams = {}
  Params <- MCParams
  Values <- MCValues
  Template <- MCTemplate
  ClassParams <- MCClassParams
  Reloadable = {"f", "e", "l"}
  Choices = {"b", "c"}
  CanUpdate = FALSE
  EditsWait = TRUE
  MaxTime = 3
  MaxEdits = 2
  MaxFlows = 3
  MaxFaults = 1
INVARIANTS
  TypeOK
  AppliedWhenSettled
  PassedOverMeansFlushed
  NotNewerMeansUnchanged
PROPERTIES
  InstallIsConsistent
  FlushTimeNeverGoesBack
  OnlyClassDefaultsReplaced
  WorkflowsEnd
CHECK_DEADLOCK FALSE
