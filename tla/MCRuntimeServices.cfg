SPECIFICATION Spec
CONSTANTS
    MaxTime = 2
    Gateway = {g1, g2}
    Nonce = {n1}
    TokenTTL = 1
    MaxTokens = 3
    NoCall = NoCall
    Intent <- Intents
    Repo = {"lab", "production"}
    Sandbox = {"lab"}
    GitHubTTL = 1
    NoEntry = NoEntry
    MaxMinted = 2
    MaxCalls = 2
INVARIANTS
    TypeOK AnswersAreTrue CallsAreAuthorised
