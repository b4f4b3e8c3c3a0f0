\* DSME_SUPPORT_DIRECT_USER_ACTDEAD build: the USER <-> ACTDEAD runlevel
\* handshake with the init scripts, the device lifecycle seen by init, and
\* timers that cannot be created.
CONSTANTS
    DirectMode = TRUE
    HomeEncrypted = FALSE
    RebootParamConfigs <- MCRebootParamConfigs
    FallibleTimers = {"shutdown", "actdead", "user", "charger_disconnect"}
    ParamIo <- MCParamIoPlain
    BatteryLevels <- MCBatteryLevels
    Bootstates <- MCBootstates
    Inputs = {"charger", "telinit", "emergency", "battery_level",
              "dbus", "runlevel_switch", "state_query"}
SPECIFICATION Spec

PROPERTY EmergencyCallFreezesState LifecycleRefined
