CONSTANTS
  Byte = {b1, b2}
  NoBlock = NoBlock
  Sizes = {0, 4}
  Numbers = {0, 2}
  MaxPush = 2
  MaxRaw = 3
  MaxBlocks = 2
SPECIFICATION Spec
INVARIANTS CostsMatch RingWindow RingFullAtLimit
PROPERTIES GrowthWithinLimits DequeSpec
