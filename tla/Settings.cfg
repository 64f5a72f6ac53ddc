CONSTANTS
  Networks = {"n1", "n2"}
  Requests = {r1, r2, r3}
  Workers = {w1, w2}
  Spaces = {"s1", "s3"}
  Targets = {"t1", "t3"}
  Names = {}
  Teams = {"ops", "eng"}
  SpaceOf <- MCSpaceOf
  SpaceOwner <- MCSpaceOwner
  TeamOf <- MCTeamOf
  Joined <- MCJoined
  Crowded = {}
  Vanished = {}
  Kinds = {"save", "update", "delete", "revoke"}
  Faults = {"db", "graph", "bot"}
  NoRecord = NoRecord
  Unused = Unused
  Deleted = Deleted
  Earlier = Earlier
  Undefined = Undefined
  NoOne = NoOne
SPECIFICATION Spec
SYMMETRY ProcessSymmetry
INVARIANTS IInv OnlyEditsDuplicate SavedConnectionLostOnPurpose RevokeSweeps
PROPERTIES NoResurrection ImplementsRegistry
