\* dsmetool with a DSME that may answer, broadcast, exit or stall. The tool
\* stops once it has exited, so deadlock is not checked.
CONSTANTS
    Args <- MCArgs
    MaxExtra = 1
SPECIFICATION ToolSpec
PROPERTY ToolTerminates
CHECK_DEADLOCK FALSE
