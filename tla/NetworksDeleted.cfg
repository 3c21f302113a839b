SPECIFICATION Spec
CONSTANTS
    Calls = {c, d}
    Names = {acme, other}
    Owners = {eve}
    Scopes = {customer}
    None = none
    PageSize = 1
    MaxNetworks = 2
    MaxChanges = 2
PROPERTIES
    LoserGetsWinner
CHECK_DEADLOCK FALSE
