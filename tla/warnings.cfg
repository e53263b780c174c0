SPECIFICATION FairSpec
CONSTANTS
    Duration = 2
    NoFaceModerate = 3
    Cooldown = 4
    PhoneCooldown = 2
    Reports <- Mixed
INVARIANTS LockedAtForty OvershootBounded
PROPERTIES ImplementsMeter AbsenceLocks
