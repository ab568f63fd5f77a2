CONSTANTS
  MaxCommands = 3
  MaxLogs = 2
SPECIFICATION SessionFairSpec
INVARIANTS TurnsAlternate ResultOfItsCommand ResultLostOnlyToALog
PROPERTY PromptComesBack
\* No command follows the last one.
CHECK_DEADLOCK FALSE
