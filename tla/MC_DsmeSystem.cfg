\* Default build with the emergency call tracker and the malf module: MCE
\* call states, the internal queue, D-Bus coming up, the four outcomes of
\* ENTER_MALF, telinit, charger, thermal and shutdown block events, and the
\* shutdown timer allowed to fail; the reboot-param copy and its unlink()
\* failing as well.
CONSTANTS
    DirectMode = FALSE
    HomeEncrypted = FALSE
    RebootParamConfigs <- MCRebootParamConfigs
    FallibleTimers = {"shutdown"}
    ParamIo <- MCParamIoFaults
    BatteryLevels <- MCBatteryLevels
    Bootstates <- MCBootstates
    Inputs = {"telinit", "charger", "thermal", "shutdown_block"}
    CallStates <- MCCallStates
    MaxPending = 2
SPECIFICATION SysSpec
INVARIANT CallBitMatchesTracker
PROPERTY CallEndReleasesState ParamMatchesRoute
