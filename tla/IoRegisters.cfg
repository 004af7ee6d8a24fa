SPECIFICATION Spec
CONSTANTS
  Values = {0, 1}
  MaxCalls = 3
INVARIANT ReadsAgree
PROPERTY WritesTakeEffect
\* The bound on the calls ends every behaviour.
CHECK_DEADLOCK FALSE
