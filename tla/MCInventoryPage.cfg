\* Two rows, one per page, so that the list has a second page; the filter
\* "all" and "invalid" (no backend path marks a row invalid, so that list
\* stays empty); two configurations and text that does not parse; one
\* order step behind the page and one admin request.
CONSTANTS
    e0 = e0
    c1 = c1
    inv = inv
    none = none
    Stocks = {1, 2}
    Limit = 1
    Filters = {"all", "invalid"}
    Configs = {e0, c1}
    Empty = e0
    Invalid = inv
    None = none
    MaxMoves = 1
    MaxOps = 1
SPECIFICATION Spec
INVARIANT TypeOK
INVARIANT OwnChangesRefetched
