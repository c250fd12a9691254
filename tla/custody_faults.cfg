SPECIFICATION FairSpec
CONSTANTS
  MaxChecks = 1
  MaxFaults = 3
  Faults = {"kill owner", "kill guard", "cancel", "tamper", "refuse", "lost ack", "replace"}
INVARIANTS OutcomeInv Custodial SequencesAgree ResidualsExplained
PROPERTIES KeepsObligation TeardownInOrder TamperedIsLeftAlone ForeignUntouched OwnerLossEnds RecoveryAfterVerify
CHECK_DEADLOCK FALSE
