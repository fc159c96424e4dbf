SPECIFICATION Spec
CONSTANTS
    Options <- MCOptions
    Environments <- MCEnvironments
    Reused <- MCDefault
    MaxRuns = 2
CHECK_DEADLOCK FALSE
INVARIANTS
    EmitterGetsItsForm
    DceSeesAllUses
    AuditNamesCulprit
