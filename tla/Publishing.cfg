\* Two runs of one pull request, three attempts by two processes: what they
\* leave on GitHub and in published_comments.
SPECIFICATION Spec
CONSTANTS
  old = old
  new = new
  k1 = k1
  k2 = k2
  w1 = w1
  w2 = w2
  NoRun = NoRun
  Run = {old, new}
  Worker = {w1, w2}
  Content = {k1, k2}
  MaxAttempts = 3
  PageSize = 2
  MaxComments = 4
  MaxInline = 4
  MaxFaults = 1
  Wanted <- MCWanted
SYMMETRY Workers
INVARIANTS
  TypeOK
  OneCommentPerMarker
  
  CompletedMeansPublished
  RecordNamesTheRunShown
  ProgressCommentEnds
\* Attempts are bounded, so the instance stops.
CHECK_DEADLOCK FALSE
