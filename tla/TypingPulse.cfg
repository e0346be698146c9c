SPECIFICATION FairPulseSpec
CONSTANT
  MaxStarts = 4
CHECK_DEADLOCK FALSE
INVARIANTS
  PulseTypeOK
  SilentAfterStop
  FewPulses
PROPERTIES
  PulsesEnd
  StartIsSent
