SPECIFICATION Spec
CONSTANTS
  ImportWorkers = {w1, w2}
  PlanBlobs <- MCBlobs
  PlanEntries <- MCEntries
  PlanIndexes = {"x1", "x2"}
  Needs <- MCNeeds
  MaxImportFaults = 1
  SaveWorkers = {w1, w2}
  SaveEntries <- MCSaveEntries
  MaxSaveFaults = 1
  MaxFrames = 6
  MaxLoadErrors = 2
CHECK_DEADLOCK FALSE
INVARIANTS ImportTellsTheTruth StagingBounded SaveTellsTheTruth ScreenIsServed
PROPERTY CommandsEnd
