SPECIFICATION FixNowSpec
CONSTANTS
    Words = {"--help", "--verbose", "--setup-serial", "--dump-agps",
             "--load-agps", "--sleep", "--wake-up", "-", "tty", "agps"}
    MaxWords = 5
    Devices = {"tty"}
    Lines <- MCLines
    WAKEUP_FFS = 3
    WakingLoss = 2
INVARIANTS
    WakesUp
CHECK_DEADLOCK FALSE
