SPECIFICATION FairSpec
CONSTANTS
    u1 = u1
    o1 = o1
    o2 = o2
    o3 = o3
    monthly = monthly
    yearly = yearly
    t1 = t1
    t2 = t2
    User = {u1}
    Order = {o1}
    Plan = {monthly, yearly}
    Tx = {t1, t2}
    Buyer <- OneBuyer
    PlanOf <- MixedPlans
    Period <- Periods
    UserKind = {"status", "cancel", "delete"}
    Fault = {"abort", "lost", "unreachable", "lapse"}
    Declining = {o1}
    BadEvent <- CaptureOfFirst
    Misdelivery <- PaidOfFirst
    MaxTime = 0
INVARIANTS
    TypeOK
    CaptureAckedOnlyIfRecorded
    RecordedCaptureIsCredited
    EventHandledOnce
PROPERTIES
    LedgerSpec
    CapturedIsCredited
CHECK_DEADLOCK FALSE
