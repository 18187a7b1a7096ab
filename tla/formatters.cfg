\* Every entry and every choice of options, formatted four ways, and entries of
\* other times after them; and the entries of requests that a handler answered
\* with up to two calls.
SPECIFICATION AccessSpec
CONSTANTS
    Char <- MCChar
    Numeral <- MCNumeral
    Keys <- MCKeys
    Entries <- MCEntries
    Times <- MCTimes
    Options <- MCOptions
    Requests <- MCRequests
    Statuses = {101, 103, 200, 404, 500}
    ServedOptions <- MCServedOptions
    MaxBytes = 1
    MaxHandlerCalls = 2
INVARIANTS JSONRoundTrip LogfmtRoundTrip CLFRoundTrip AccessTold NoSecret
CHECK_DEADLOCK FALSE
