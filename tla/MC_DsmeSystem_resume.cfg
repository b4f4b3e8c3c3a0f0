\* A child left running DSME after a failed execv() quits, and its parent
\* resumes its own main loop, with the state it had at the fork.
CONSTANTS
    DirectMode = FALSE
    HomeEncrypted = FALSE
    RebootParamConfigs <- MCRebootParamConfigs
    FallibleTimers = {"shutdown"}
    ParamIo <- MCParamIoPlain
    BatteryLevels <- MCBatteryLevels
    Bootstates <- MCBootstates
    Inputs = {"telinit"}
    CallStates <- MCCallStates
    MaxPending = 2
SPECIFICATION SysSpec
PROPERTY QuitIsFinal
