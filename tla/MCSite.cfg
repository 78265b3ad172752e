\* Two requests overlap in each part; three rows, two where two are enough.
SPECIFICATION SiteSpec
CONSTANTS
  x1 = x1
  x2 = x2
  x3 = x3
  y1 = y1
  y2 = y2
  q1 = q1
  q2 = q2
  k1 = k1
  w1 = w1
  ro1 = ro1
  ex1 = ex1
  NONE = NONE
  UNDEFINED = UNDEFINED
  Request = {q1, q2}
  Category = {x1, x2, x3}
  Content = {e1}
  ContentId = {x1, x2, x3}
  Title = {t1}
  MaxSuffix = 1
  Piece = {y1, y2}
  DocFile = {x1, x2, x3}
  MaxDownloads = 1
  Dept = {x1, x2, x3}
  Employee = {e1}
  Slot = {x1, x2, x3}
  DescType = {y1, y2}
  Row = {y1, y2}
  Place = {0, 1}
  Lists = {"together", "in turn"}
  Entity = {x1, x2, x3}
  MaxRank = 3
  PageSize = 2
  Entry = {y1, y2}
  Indexed = {z1, z2}
  Query = {k1}
  Widget = {w1}
  Role = {ro1}
  Export = {ex1}
  Ttl <- MTtl
  MaxSize = 2
  MaxTime = 2
  MaxWrites = 1
SYMMETRY Symmetry
INVARIANTS
  SiteTypeOK
  KeysResolve
  CyclesExplained
  CntClashExplained
  CntFilesConsistent
  DocFilesPresent
  DocFilesExplained
  DocDownloadsCounted
  DocNewestNamed
  DuplicatesExplained
  OrderAsAnswered
  RowsSeen
  SuccessMeansReindexed
  RefreshHolds
PROPERTIES
  OnlyLateChildrenReRooted
  WalksAdvance
  DepDeletionSparesChildren
  CacheBounded
  ImplementFileLifecycle
\* Every identifier may be used up, and nobody then has anything to do.
CHECK_DEADLOCK FALSE
