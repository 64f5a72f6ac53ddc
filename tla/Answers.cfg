CONSTANTS
  Networks = {"n1"}
  Requests = {r1, r2}
  Workers = {w1}
  Spaces = {"s1"}
  Targets = {"t1"}
  Names = {"moderation.created", "member.verified", "network.updated", "space.created"}
  Teams = {"ops", "eng"}
  SpaceOf <- MCSpaceOf
  SpaceOwner <- MCSpaceOwner
  TeamOf <- MCTeamOf
  Joined <- MCJoined
  Crowded = {}
  Vanished = {}
  Kinds = {"save", "update", "delete", "revoke", "page", "open", "fetch", "edit", "refetch", "redirect", "install", "uninstall", "authorize", "connect", "event", "ask-delete", "ask-revoke", "constant", "unsupported", "favorites", "mark", "tokens", "refused"}
  Faults = {"db", "graph", "bettermode", "bot", "teams", "expiry", "restart"}
  NoRecord = NoRecord
  Unused = Unused
  Deleted = Deleted
  Earlier = Earlier
  Undefined = Undefined
  NoOne = NoOne
  Channels = {"c1", "c3"}
  ChannelOf <- MCChannelOf
  Installations = {"ops", "person"}
  ChannelsOf <- MCChannelsOf
  StoredAtStart = {"ops"}
SPECIFICATION FairDelivery
INVARIANTS NoMissedNotification
PROPERTIES EveryRequestEnds EveryCallSettles
