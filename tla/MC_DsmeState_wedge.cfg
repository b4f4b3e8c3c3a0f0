\* An emergency call that starts while the delayed shutdown timer runs.
CONSTANTS
    DirectMode = FALSE
    HomeEncrypted = FALSE
    RebootParamConfigs <- MCRebootParamConfigs
    FallibleTimers = {}
    ParamIo <- MCParamIoPlain
    BatteryLevels <- MCBatteryLevels
    Bootstates <- MCBootstates
    Inputs = {"emergency"}
SPECIFICATION FairSpec
PROPERTY GoingDownReachesInit
