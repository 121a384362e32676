SPECIFICATION Spec
CONSTANTS
    Models = {a, b, c}
    MaxFallbacks = 2
    MaxRetries = 1
    Statuses <- MCStatuses
CHECK_DEADLOCK FALSE
PROPERTIES
    RateLimitBacksOff
