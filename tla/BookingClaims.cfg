SPECIFICATION FairSpec
CONSTANTS
  w1 = w1
  w2 = w2
  Ids <- MCIds
  Kind <- MCKind
  Replaces <- MCReplaces
  Units <- MCUnits
  Target <- MCTarget
  Nights <- MCNights
  Window <- MCWindow
  Quantity <- MCQuantity
  Verbs <- MCVerbs
  Sessions = {w1, w2}
  HoldTime = 1
  HoldCap = 1
  MaxRounds = 2
  MaxRetries = 1
  MaxTime = 1
  MaxVerbs = 2
  MaxFaults = 1
INVARIANTS WholeOrNothing CapHonoured OneOfLineage
PROPERTIES VerdictStands ElapsedRefusesNobody EveryTransactionEnds
CHECK_DEADLOCK FALSE
