\* A statement of Dispatch fails.
SPECIFICATION Spec
CONSTANTS
    a = a
    b = b
    r = r
    x = x
    rescue = rescue
    NoSale = NoSale
    Sales = {a, b, r, x}
    Tiers = {"pro", "growth"}
    OneTime = {rescue}
    Anonymous = {x}
    LicenseOf <- OwnLicense
    Events <- CancelledOnly
    DbFaults = TRUE
INVARIANTS
    AnsweredIsRecorded
CHECK_DEADLOCK FALSE
