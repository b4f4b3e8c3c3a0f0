\* Indirect build (the default): the safety of the policy and the
\* transition controller under every inbound event that matters to it.
CONSTANTS
    DirectMode = FALSE
    HomeEncrypted = FALSE
    RebootParamConfigs <- MCRebootParamConfigs
    FallibleTimers = {}
    ParamIo <- MCParamIoPlain
    BatteryLevels <- MCBatteryLevels
    Bootstates <- MCBootstates
    Inputs = {"charger", "usb", "telinit", "alarm", "thermal", "emergency",
              "battery_level", "battery_state", "shutdown_block"}
SPECIFICATION Spec
INVARIANT TypeOK
PROPERTY EmergencyCallFreezesState ShutdownBlockHonoured BlockedRequestsForgotten PowerupNeedsBattery
