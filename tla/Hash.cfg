\* Three blocks at most, the last one of up to three bytes.
CONSTANTS
  Memories <- MCMemories
  Addresses <- MCAddresses
  MaxLength = 27
  initval = 0
CHECK_DEADLOCK FALSE
SPECIFICATION Spec
INVARIANTS HashOfTheKey MixIsReversible
