SPECIFICATION Spec
CONSTANTS
  v1 = v1
  v2 = v2
  NoScore = NoScore
  Clients = {a, b}
  Votes <- MCVotes
  Kinds <- MCKinds
  KindOf <- MCKindOf
  MaxOps = 3
  MaxFaults = 1
INVARIANTS TypeOK EveryVoteOnce Settled
SYMMETRY Symmetry
CHECK_DEADLOCK FALSE
