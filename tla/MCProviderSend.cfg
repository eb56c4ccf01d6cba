SPECIFICATION Spec
CONSTANTS
    Deliveries = {d1, d2}
    Vendors = {"huawei", "oppo", "apns", "xiaomi", "vivo", "fcm"}
    Malformed = {d2}
    MaxAttempt = 3
    Timeout = 1
    Margin = 2
    Ttls <- SomeTtls
    DefaultTtl = 4
    Life = 4
    Kept = 2
    MaxTokens = 3
    MaxTime = 5
INVARIANTS
    FreshToken
    RejectedNotReused
CHECK_DEADLOCK FALSE
