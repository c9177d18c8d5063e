\* One damaged file and a process that may end during the recovery.
CONSTANTS
    MaxVersion = 3
    MaxDamage = 1
    Crashes = TRUE
    IOErrors = FALSE
    NewerApp = FALSE
SPECIFICATION Spec
PROPERTIES StartUsesBackup
CHECK_DEADLOCK FALSE
