\* Crashes, failing file system calls, a damaged file and a newer release.
CONSTANTS
    MaxVersion = 3
    MaxDamage = 2
    Crashes = TRUE
    IOErrors = TRUE
    NewerApp = TRUE
SPECIFICATION Spec
INVARIANTS TargetNeverTorn StartsAgain
PROPERTIES DurableSpec RecoveryUsesBackup KeepsNewerFile
CHECK_DEADLOCK FALSE
