CONSTANTS
  QueueSize = 5
  t1 = t1
  AppTasks = {t1}
  Cli = Cli
  MaxOperations = 3
  MaxServices = 0
  MaxVendorUuids = 2
  MaxAdvertised = 1
  MaxRestarts = 2
SPECIFICATION FairSpec
INVARIANTS HangsOnlyWithoutSpi NoEventIsForgotten OneReception
PROPERTIES CallbacksFitTheOperation ConsoleLivesUnlessHung OperationsEnd
\* A program that hangs stops.
CHECK_DEADLOCK FALSE
