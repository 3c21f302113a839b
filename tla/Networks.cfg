SPECIFICATION FairSpec
CONSTANTS
    Calls = {c, d}
    Names = {acme, other}
    Owners = {eve}
    Scopes = {customer}
    None = none
    PageSize = 1
    MaxNetworks = 3
    MaxChanges = 2
PROPERTIES
    UndisturbedLoserGetsWinner
    CreateOrGetSettles
CHECK_DEADLOCK FALSE
