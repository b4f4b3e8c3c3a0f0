\* Liveness of the thermal and battery-empty shutdown path, with timers
\* firing eventually and emergency calls ending eventually.
CONSTANTS
    DirectMode = FALSE
    HomeEncrypted = FALSE
    RebootParamConfigs <- MCRebootParamConfigs
    FallibleTimers = {"overheat", "battery_empty"}
    ParamIo <- MCParamIoPlain
    BatteryLevels <- MCBatteryLevels
    Bootstates <- MCBootstates
    Inputs = {"charger", "telinit", "thermal", "emergency", "battery_state",
              "shutdown_block"}
SPECIFICATION FairSpec
PROPERTY LatchLeadsToShutdown LifecycleRefined
