CONSTANTS
  QueueSize = 5
  t1 = t1
  t2 = t2
  AppTasks = {t1, t2}
  Cli = Cli
SPECIFICATION TaskFairSpec
INVARIANT OneReception
PROPERTY StarvesOnlyBehindTheCli
\* A hung reception stops the program.
CHECK_DEADLOCK FALSE
