SPECIFICATION Spec
CONSTANT Keys = {"KEY0"}
INVARIANT ModesFromOneReading
PROPERTIES
  FlagsSpec
  SwitchesReflected
  HeldKeyStops
