CONSTANTS
  Networks = {"n1", "n2"}
  Requests = {r1, r2, r3}
  Workers = {w1}
  Spaces = {"s1", "s3"}
  Targets = {"t1", "t3", "t4"}
  Names = {"member.verified"}
  Teams = {"ops", "eng"}
  SpaceOf <- MCSpaceOf
  SpaceOwner <- MCSpaceOwner
  TeamOf <- MCTeamOf
  Joined <- MCJoined
  Crowded = {"n1"}
  Vanished = {"t4"}
  Kinds = {"save", "update", "delete", "revoke", "uninstall", "page", "edit", "refetch", "ask-delete"}
  Faults = {}
  NoRecord = NoRecord
  Unused = Unused
  Deleted = Deleted
  Earlier = Earlier
  Undefined = Undefined
  NoOne = NoOne
SPECIFICATION MCConnectedSpec
SYMMETRY RequestSymmetry
INVARIANTS PageReflectsDatabase PageFailsOnlyWhen  EditFormIsOwn EditFormIsCurrent
