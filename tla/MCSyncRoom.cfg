CONSTANTS
  line = line
  rate = rate
  BaseValue = BaseValue
  NoValue = NoValue
  NoTag = NoTag
  Off = Off
  Peer = {1}
  Server = 3
  WallTime <- MCWallTime
  Tag = {rate}
  Stamp <- MCStamp
  TagsOf <- MCTagsOf
  Entity = {line}
  Base = {line}
  Capacity = 2
  MaxOps = 3
SPECIFICATION RoomSpec
INVARIANTS RoomTypeOK SnapshotRebuildsRoom LoggedOnce FollowerShowsRoom
