SPECIFICATION Spec
CONSTANTS
    Requests = {r1, r2}
    Queries <- MCQueries
    Configs <- MCConfigs
    People <- MCPeople
    Admin = "aureo"
    Bueno = "bueno"
    TokenTtl = 1
    MaxTime = 2
    MaxUsers = 3
    MaxTokens = 1
    MaxLives = 2
SYMMETRY RequestSymmetry
INVARIANTS TypeOK RoleOfTokenIsCurrent AdminHandlersServeAdmins
PROPERTIES OwnProfileOnly ChangesCarryCsrfToken
