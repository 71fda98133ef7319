CONSTANTS
  app = app
  worker = worker
  Foreground = app
  Headless = {worker}
  Type = {"lock", "message"}
  Gated = {"lock"}
  NeedsScreen = {"message"}
  Nested = {"message"}
  Defaults = {"lock"}
  MaxCommands = 1
  MaxChanges = 1
  MaxFaults = 3
CHECK_DEADLOCK FALSE
SPECIFICATION LiveSpec
INVARIANTS TypeOK PerformedIsAnswered ExecutedIsPerformed RepetitionIsBounded
PROPERTY PendingEnds
