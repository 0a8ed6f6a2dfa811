SPECIFICATION Spec
CONSTANTS
    None = None
    Unit = 10
    GoldSets <- MCGoldSets
    ReportMaps <- MCReportMaps
    BinCounts = {0, 1, 3}
    Edges = {3, 7}
INVARIANT TextMatchesText
CHECK_DEADLOCK FALSE
