--------------------------- MODULE DeviceLifecycle ---------------------------
(***************************************************************************)
(* What the DSME state module promises the init module, without timers,    *)
(* state bits or policy.                                                   *)
(*                                                                         *)
(* The device is in some state.  While it is up (USER or ACTDEAD, or a    *)
(* state it booted into) it may switch between USER and ACTDEAD and ask    *)
(* init for the runlevel of the state it is in.  It may go down, to       *)
(* SHUTDOWN or REBOOT, from anywhere; once down it never comes up again,   *)
(* though it may change its mind between SHUTDOWN and REBOOT, and it asks  *)
(* init to shut down only while down, with the runlevel of the state it is *)
(* in.  The daemon may stop at any step.                                   *)
(*                                                                         *)
(* last is the sequence of commands sent to init in the latest step.       *)
(***************************************************************************)
EXTENDS Sequences

CONSTANTS
    BootStates,     \* the states the device may be in after start-up
    UpStates,       \* the states it may switch between while up
    DownStates,     \* SHUTDOWN and REBOOT
    Runlevel(_)     \* the runlevel init is asked for in a state

VARIABLES state, last, running

vars == <<state, last, running>>

Cmd(type, s) == [type |-> type, arg |-> Runlevel(s)]

Init ==
    /\ state \in BootStates
    /\ last = <<>>
    /\ running \in BOOLEAN

(* The main loop may end in the same step as any other one. *)
MayStop == running' \in {running, FALSE}

(* A step that changes nothing init sees. *)
Quiet ==
    /\ running
    /\ last' = <<>>
    /\ UNCHANGED state
    /\ MayStop

Switch ==
    /\ running
    /\ state \in UpStates
    /\ state' \in UpStates \ {state}
    /\ last' = <<>>
    /\ MayStop

AskRunlevel ==
    /\ running
    /\ state \in UpStates
    /\ last' = <<Cmd("CHANGE_RUNLEVEL", state)>>
    /\ UNCHANGED <<state, running>>

GoDown ==
    /\ running
    /\ state' \in DownStates
    /\ last' = <<>>
    /\ MayStop

AskShutdown ==
    /\ running
    /\ state \in DownStates
    /\ last' = <<Cmd("SHUTDOWN", state)>>
    /\ UNCHANGED <<state, running>>

Halted ==
    /\ ~running
    /\ UNCHANGED vars

Next == Quiet \/ Switch \/ AskRunlevel \/ GoDown \/ AskShutdown \/ Halted

Spec == Init /\ [][Next]_vars

==============================================================================
