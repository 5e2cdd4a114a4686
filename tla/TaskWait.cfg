SPECIFICATION FairWaitSpec
CONSTANT Instances <- MCInstances
INVARIANTS CountersAreFaithful
PROPERTIES VerdictIsFinal EventuallyDecided
CHECK_DEADLOCK FALSE
