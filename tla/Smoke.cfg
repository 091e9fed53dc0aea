SPECIFICATION Spec
CONSTANTS
    Secrets = {META_APP_SECRET, META_VERIFY_TOKEN}
    Placeholders = {META_ACCESS_TOKEN}
    Graph = META_GRAPH_BASE_URL
    MaxCommands = 3
    MaxFaults = 2
CHECK_DEADLOCK FALSE
INVARIANTS TypeOK OriginalKept TeardownReverts
PROPERTY SecretsStay
