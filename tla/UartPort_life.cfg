SPECIFICATION FairSpec
CONSTANTS
    Files = {f1, f2}
    Mixes = {
        {"hangup", "suspend", "termios", "miwait"},
        {"hangup", "suspend", "hangup_suspended", "ioctl"},
        {"hangup", "suspend", "signal", "remove", "race"}}
    MaxCount = 3
INVARIANTS UsersServed StartedOnce StartedHasTty
PROPERTY OpenersProceed
