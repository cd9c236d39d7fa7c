\* The analyses of a review and of a codebase scan.  Two of three changed
\* files are looked into, with patches of up to three lines in any hunks,
\* and two findings compete for one inline comment; a tree of four blobs is
\* planned under a budget of two files and three bytes.
SPECIFICATION Spec
CONSTANTS
  Files = 3
  MaxFiles = 2
  MaxLines = 3
  MaxFindings = 2
  MaxInline = 1
  MaxRank = 1
  Blobs = 4
  MaxScanFiles = 2
  MaxTotalBytes = 3
  MaxFileBytes = 2
INVARIANTS TypeOK LinesAreNumberedRight EveryFileIsAccountedFor InlineCommentsAreTheWorst PlanKeepsBudgets
\* An analysis ends.
CHECK_DEADLOCK FALSE
