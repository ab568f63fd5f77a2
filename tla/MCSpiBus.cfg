CONSTANT MaxTransactions = 4
SPECIFICATION FairSpec
INVARIANTS PollsInVainOnlyInTheGap TransactionsAreFaithful HandlerReadsFromIdleBus
PROPERTY ServiceSpec
\* The driver rests when nobody calls it.
CHECK_DEADLOCK FALSE
