CONSTANTS
  line = line
  rate = rate
  rest = rest
  BaseValue = BaseValue
  NoValue = NoValue
  NoTag = NoTag
  Closed = Closed
  Idle = Idle
  Resetting = Resetting
  Author = {1, 2}
  WallTime <- MCWallTime
  Tag = {rate, rest}
  Stamp <- MCStamp
  TagsOf <- MCTagsOf
  Entity = {line}
  Base = {line}
  MaxLog = 3
  MaxBase = 2
SPECIFICATION Spec
INVARIANTS TypeOK LogRebuildsSession RestartShowsConfirmed NextEditWins LogMatchesBase
