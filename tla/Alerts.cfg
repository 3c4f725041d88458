SPECIFICATION Spec
CONSTANTS
    a1 = a1
    a2 = a2
    j1 = j1
    x1 = x1
    Alert = {a1, a2}
    Job = {j1}
    Tx = {x1}
    Limit = 2
    Price = {1, 2}
    Target <- TargetOf
    Drop <- DropOf
    Mailed = {a1}
    Cooldown = 2
    MaxTime = 2
    MaxFired = 2
INVARIANTS
    NotificationsSpaced
    TriggersCounted
PROPERTIES
    DeletedStaysDeleted
