CONSTANTS
  Networks = {"n1"}
  Requests = {r1, r2}
  Workers = {w1}
  Spaces = {"s1"}
  Targets = {"t1"}
  Names = {}
  Teams = {"ops", "eng"}
  SpaceOf <- MCSpaceOf
  SpaceOwner <- MCSpaceOwner
  TeamOf <- MCTeamOf
  Joined <- MCJoined
  Crowded = {}
  Vanished = {}
  Kinds = {"save"}
  Faults = {"graph"}
  NoRecord = NoRecord
  Unused = Unused
  Deleted = Deleted
  Earlier = Earlier
  Undefined = Undefined
  NoOne = NoOne
SPECIFICATION Spec
SYMMETRY RequestSymmetry
INVARIANTS ErrorSavingMeansUnsaved
