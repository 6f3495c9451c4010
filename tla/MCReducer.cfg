CONSTANTS
  line = line
  baseLine = baseLine
  rate = rate
  rest = rest
  BaseValue = BaseValue
  NoValue = NoValue
  NoTag = NoTag
  Replica = {r1, r2}
  Tag = {rate, rest}
  Stamp <- MCStamp
  TagsOf <- MCTagsOf
  Entity = {line, baseLine}
  Base = {baseLine}
SPECIFICATION Spec
INVARIANTS TypeOK ShowsMergedOps Converged BufferBounded RegisterNamesWriter
PROPERTIES ImplementsOpSet
SYMMETRY Symmetry
