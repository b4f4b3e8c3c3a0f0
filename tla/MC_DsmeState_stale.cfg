\* Powerup requests refused in ACTDEAD for want of battery.
CONSTANTS
    DirectMode = FALSE
    HomeEncrypted = FALSE
    RebootParamConfigs <- MCRebootParamConfigs
    FallibleTimers = {}
    ParamIo <- MCParamIoPlain
    BatteryLevels <- MCBatteryLevels
    Bootstates <- MCBootstates
    Inputs = {"telinit", "charger"}
SPECIFICATION FairSpec
PROPERTY WantedShutdownHappens
