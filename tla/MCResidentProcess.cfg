SPECIFICATION FairSpec
CONSTANTS
    Apps = {"own", "other"}
    Users = {100, 101}
    BundleOf <- MCBundleOf
    UserOf <- MCUserOf
    Exempt = {"other"}
    BigUnrelated = {"own"}
    WebApps = {"own"}
    MaxRestart = 1
    MaxStarts = 8
    Environments <- MCEnvironments
CHECK_DEADLOCK FALSE
INVARIANTS
    Consistent
PROPERTIES
    ComesBack
