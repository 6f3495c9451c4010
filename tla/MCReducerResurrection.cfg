CONSTANTS
  line = line
  baseLine = baseLine
  rate = rate
  rest = rest
  BaseValue = BaseValue
  NoValue = NoValue
  NoTag = NoTag
  Replica = {r1, r2}
  Tag = {rate, rest}
  Stamp <- MCStamp
  TagsOf <- MCTagsOf
  Entity = {line}
  Base = {}
SPECIFICATION ResurrectionSpec
INVARIANT Converged
SYMMETRY Symmetry
