CONSTANTS
  Networks = {"n1"}
  Requests = {r1, r2}
  Workers = {w1}
  Spaces = {"s1"}
  Targets = {"t1"}
  Names = {"member.verified"}
  Teams = {"ops", "eng"}
  SpaceOf <- MCSpaceOf
  SpaceOwner <- MCSpaceOwner
  TeamOf <- MCTeamOf
  Joined <- MCJoined
  Crowded = {}
  Vanished = {}
  Kinds = {"save", "event"}
  Faults = {}
  NoRecord = NoRecord
  Unused = Unused
  Deleted = Deleted
  Earlier = Earlier
  Undefined = Undefined
  NoOne = NoOne
  Channels = {"c1", "c3"}
  ChannelOf <- MCChannelOf
  Installations = {"ops"}
  ChannelsOf <- MCChannelsOf
  StoredAtStart = {}
SPECIFICATION DeliverySpec
SYMMETRY RequestSymmetry
PROPERTIES ListsWhereInstalled
