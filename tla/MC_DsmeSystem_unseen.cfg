\* An emergency call already going on when DSME starts, with nothing else
\* happening.
CONSTANTS
    DirectMode = FALSE
    HomeEncrypted = FALSE
    RebootParamConfigs <- MCRebootParamConfigs
    FallibleTimers = {}
    ParamIo <- MCParamIoPlain
    BatteryLevels <- MCBatteryLevels
    Bootstates <- MCBootstates
    Inputs = {}
    CallStates <- MCCallStates
    MaxPending = 2
SPECIFICATION SysSpec
PROPERTY EmergencyCallNoticed
