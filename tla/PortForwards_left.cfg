SPECIFICATION PfSpec
CONSTANTS
  PfCall = {a}
  Context = {"x", "y"}
  MaxForward = 3
  Jobs <- TwoJobs
  PortRange <- TwoRanges
  NoContext = "none"
INVARIANT StopLeavesNothing
