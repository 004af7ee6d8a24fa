SPECIFICATION FairSpec
CONSTANT PoolSlots = 1
INVARIANTS
  TypeOK
  FlagsAreSet
  MailboxesReady
  FreedUnused
PROPERTY PeriodicTasksNotStarved
