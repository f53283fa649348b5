SPECIFICATION RegistrySpec
CONSTANTS
    Replica = {r1, r2}
    Version = {1, 2}
    Content = {a, b}
    NoContent = none
    Instance = {i1}
INVARIANTS
    OneDefinitionPerInstance
    LatestIsGreatest
