\* Charger reports in ACTDEAD while the disconnect grace timer runs.
CONSTANTS
    DirectMode = FALSE
    HomeEncrypted = FALSE
    RebootParamConfigs <- MCRebootParamConfigs
    FallibleTimers = {}
    ParamIo <- MCParamIoPlain
    BatteryLevels <- MCBatteryLevels
    Bootstates <- MCBootstates
    Inputs = {"charger", "alarm"}
SPECIFICATION Spec
PROPERTY ChargerGraceHonoured
