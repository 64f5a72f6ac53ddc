CONSTANTS
  Networks = {"n1"}
  Requests = {r1, r2, r3}
  Workers = {w1, w2}
  Spaces = {"s1"}
  Targets = {"t1"}
  Names = {"network.updated"}
  Teams = {"ops", "eng"}
  SpaceOf <- MCSpaceOf
  SpaceOwner <- MCSpaceOwner
  TeamOf <- MCTeamOf
  Joined <- MCJoined
  Crowded = {}
  Vanished = {}
  Kinds = {"revoke", "install", "uninstall", "connect", "event"}
  Faults = {"graph", "bettermode", "bot", "teams", "expiry", "restart"}
  NoRecord = NoRecord
  Unused = Unused
  Deleted = Deleted
  Earlier = Earlier
  Undefined = Undefined
  NoOne = NoOne
SPECIFICATION Spec
SYMMETRY ProcessSymmetry
INVARIANTS DisconnectForgets RecordFromOneSession
PROPERTIES ImplementsRegistry
