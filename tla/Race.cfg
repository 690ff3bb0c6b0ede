\* the shipped stack, a build that does not reload the length
SPECIFICATION FairSpec
CONSTANTS
  StackSize = 5
  Rereads = FALSE
INVARIANTS TypeOK ConfirmationKept NoEmptyPlaces
PROPERTIES RequestTakenUp CalmAfterSilence
