\* The script card of the page: does handleSave send the configuration the
\* admin last produced in the ConfigEditor?
CONSTANTS
    e0 = e0
    c1 = c1
    inv = inv
    none = none
    Stocks = {1, 2}
    Limit = 1
    Filters = {"all", "invalid"}
    Configs = {e0, c1}
    Empty = e0
    Invalid = inv
    None = none
    MaxMoves = 1
    MaxOps = 1
SPECIFICATION Spec
PROPERTY SaveSendsLastEdit
