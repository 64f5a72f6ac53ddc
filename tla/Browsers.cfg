CONSTANTS
  Networks = {"n1", "n2"}
  Requests = {1, 2, 3, 4, 5, 6}
  Workers = {w1}
  Spaces = {"s1", "s3"}
  Targets = {"t1", "t3"}
  Names = {}
  Teams = {"ops", "eng"}
  SpaceOf <- MCSpaceOf
  SpaceOwner <- MCSpaceOwner
  TeamOf <- MCTeamOf
  Joined <- MCJoined
  Crowded = {}
  Vanished = {}
  Kinds = {"page", "open", "fetch", "save", "edit", "update", "ask-delete", "redirect", "authorize", "connect"}
  Faults = {}
  NoRecord = NoRecord
  Unused = Unused
  Deleted = Deleted
  Earlier = Earlier
  Undefined = Undefined
  NoOne = NoOne
  Browsers = {"b1", "b3"}
  CommunityOf <- MCCommunityOf
  MaxConnections = 1
SPECIFICATION MCSpec
INVARIANTS MaximumSeen ClicksAreExpected
