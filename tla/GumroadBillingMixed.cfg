\* Subscription and one-time events in any order, with database faults and a
\* renewal that repeats the license key.
SPECIFICATION Spec
CONSTANTS
    a = a
    b = b
    r = r
    x = x
    rescue = rescue
    NoSale = NoSale
    Sales = {a, b, r, x}
    Tiers = {"pro", "growth"}
    OneTime = {rescue}
    Anonymous = {x}
    LicenseOf <- SharedLicense
    Events <- Mixed
    DbFaults = TRUE
INVARIANTS
    PaidPlanIsRecorded
    PurchasesMatchLedger
PROPERTIES
    SaleRetriesIdempotent
    OneTimeRefundSparesPlan
CHECK_DEADLOCK FALSE
