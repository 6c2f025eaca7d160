\* Two jobs of any queues, up to four refusals, lost answers and dead workers.
SPECIFICATION FairSpec
CONSTANTS
  MaxJobs = 2
  Attempts <- CodeAttempts
  MaxStalls = 1
  MaxTroubles = 4
PROPERTIES MailboxSpec EveryoneIsTold
CHECK_DEADLOCK FALSE
