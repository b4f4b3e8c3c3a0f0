\* DSME_USEWHEEL build: the privilege verdict of every process owner of a
\* small user and group database, against the request surface's rule.
CONSTANTS
    Passwd <- MCPasswd
    GroupDb <- MCGroupDb
    UseWheel = TRUE
    Procs <- MCProcs
    Gone = Gone
    NoCaller = NoCaller
SPECIFICATION UtilitySpec
INVARIANT PrivilegeAsSpecified
