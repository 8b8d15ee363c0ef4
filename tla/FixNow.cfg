SPECIFICATION FixNowFairSpec
CONSTANTS
    Words = {"--help", "--verbose", "--setup-serial", "--dump-agps",
             "--load-agps", "--sleep", "--wake-up", "-", "tty", "agps"}
    MaxWords = 5
    Devices = {"tty"}
    Lines <- MCLines
    WAKEUP_FFS = 3
    WakingLoss = 2
INVARIANTS
    DocumentedWorks
    WordsAccountedFor
PROPERTIES
    CommandHolds
CHECK_DEADLOCK FALSE
