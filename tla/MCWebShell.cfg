SPECIFICATION ShellSpec
CONSTANTS
    MaxRows = 2
    Limit = 1
    MaxChecks = 2
    MaxActions = 2
INVARIANTS TypeOK LoadingTold OneAwaited
PROPERTIES FeedNeverForgets FeedCatchesUp BadgeSettles BusyEnds
