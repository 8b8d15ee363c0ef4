SPECIFICATION FixNowSpec
CONSTANTS
    Words = {"--help", "-h", "-v", "--verbose", "--setup-serial", "--dump-agps",
             "--load-agps", "--sleep", "--wake-up", "-", "tty", "agps"}
    MaxWords = 3
    Devices = {"tty"}
    Lines <- MCLines
    WAKEUP_FFS = 2
    WakingLoss = 1
INVARIANTS
    ShortOptionsWork
CHECK_DEADLOCK FALSE
