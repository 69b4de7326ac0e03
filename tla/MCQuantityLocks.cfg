SPECIFICATION Spec
CONSTANTS
  Requests = {r1, r2, r3}
  Positions = {"a1", "a2", "a3"}
  Parts = {"p1", "p2"}
  MatchOf <- MCMatchOf
  Required <- MCRequired
  Quantities = {0, 1, 2}
  Candidates <- MCCandidates
  SetRow = "s1"
  NoRequest = NoRequest
  NoRow = NoRow
  Asked <- MCAsked
  Stored <- MCStored
INVARIANTS ReadsAreCurrent CommittedRowsAgree
PROPERTIES Serializable EveryRequestEnds
