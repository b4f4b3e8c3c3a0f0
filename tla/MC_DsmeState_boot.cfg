\* Start-up with every BOOTSTATE of up to three tokens.
CONSTANTS
    DirectMode = FALSE
    HomeEncrypted = FALSE
    RebootParamConfigs <- MCRebootParamConfigs
    FallibleTimers = {}
    ParamIo <- MCParamIoPlain
    BatteryLevels <- MCBatteryLevels
    Bootstates <- MCAnyBootstates
    Inputs = {}
SPECIFICATION Spec
INVARIANT StartupNeverCrashes
