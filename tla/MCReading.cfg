CONSTANTS
  Sources <- MCSources
  Keywords <- MCKeywords
  VecFirst = 2
  Align = 2
  BlockSize = 4
  NodeSize = 3
  MaxNodes = 1
SPECIFICATION ReadSpec
\* The process ends.
CHECK_DEADLOCK FALSE
INVARIANTS
  ReadTypeOK
  Tiled
  MaximalMunch
  NamesKept
PROPERTY ReadingEnds
