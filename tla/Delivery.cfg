CONSTANTS
  Networks = {"n1", "n2"}
  Requests = {r1, r2, r3}
  Workers = {w1}
  Spaces = {"s1", "s3"}
  Targets = {"t1", "t3"}
  Names = {"member.verified"}
  Teams = {"ops", "eng"}
  SpaceOf <- MCSpaceOf
  SpaceOwner <- MCSpaceOwner
  TeamOf <- MCTeamOf
  Joined <- MCJoined
  Crowded = {}
  Vanished = {}
  Kinds = {"save", "update", "delete", "event"}
  Faults = {}
  NoRecord = NoRecord
  Unused = Unused
  Deleted = Deleted
  Earlier = Earlier
  Undefined = Undefined
  NoOne = NoOne
  Channels = {"c1", "c3"}
  ChannelOf <- MCChannelOf
  Installations = {"ops", "eng"}
  ChannelsOf <- MCChannelsOf
  StoredAtStart = {"ops"}
SPECIFICATION MCConnectedSpec
SYMMETRY RequestSymmetry
INVARIANTS NotifiesOwnLiveConnections OneCardPerChannel CardsForSubscribers EventReachesSubscribers NotifiesAsSubscribed NoMissedNotification
