CONSTANTS
    NumRows = 3
    PageSize = 2
    MaxQuery = 1
    MaxRefresh = 2
    MaxFetch = 2
    MaxSearch = 1
    MaxLines = 1
    Views = {"table", "map"}
SPECIFICATION Spec
PROPERTY NoFetchDuringSearch
CHECK_DEADLOCK FALSE
