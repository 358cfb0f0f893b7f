SPECIFICATION FairSpec
CONSTANTS
    Provisioners <- MCProvisioners
    Backups <- MCBackups
    CSIDrivers = {"driver"}
    Classes = {"c1"}
    DriverOf <- MCDriverOf
    MaxDisturbed = 1
    MaxStates = 6
INVARIANTS
    StatesPaidFor
PROPERTIES
    ReadyMeansTaken
    Decided
CHECK_DEADLOCK FALSE
