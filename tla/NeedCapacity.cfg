SPECIFICATION RangesSpec
CONSTANTS
    TotalBlocks = 6
    MaxNeedRanges = 2
INVARIANT EveryReportEncodes
CHECK_DEADLOCK FALSE
