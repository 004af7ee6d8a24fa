SPECIFICATION FairSpec
CONSTANT PoolSlots = 1
PROPERTY SwitchesAreRead
