CONSTANTS Subscribers = 12
          MaxCount = 5000
          Kibi = 1024
          IncludeRow = 3
          MaxByte = 4
          Classes <- ClassNames
          Members <- ClassMembers
          Cases <- LowerUpper
SPECIFICATION Spec
INVARIANT FramesIndependentOfReads
INVARIANT CheckCountsWhatParseReads
INVARIANT CallsRoundTrip
INVARIANT PrintsWhatIsAskedFor
INVARIANT FiltersIndependentOfReads
CHECK_DEADLOCK FALSE
