------------------------- MODULE EmergencyCallTracker -------------------------
(***************************************************************************)
(* The emergency call tracker, src/modules/emergencycalltracker.c.         *)
(*                                                                         *)
(* It listens to MCE's sig_call_state_ind D-Bus signal and turns it into   *)
(* SET_EMERGENCY_CALL_STATE messages, which modules_broadcast_internally() *)
(* puts on DSME's internal queue for the state module to handle later.     *)
(*                                                                         *)
(* pending is the tracker's messages still on that queue, oldest first;    *)
(* the module that delivers them (DsmeSystem) removes the head.  The       *)
(* call state string of a signal is a member of a small set.               *)
(***************************************************************************)
EXTENDS Sequences

VARIABLES
    emergency_call_started,  \* the function static of mce_call_state_ind()
    dbus_signals_bound,      \* the module static, set by dsme_dbus_bind_signals()
    pending                  \* SET_EMERGENCY_CALL_STATE.ongoing values queued

tracker_vars == <<emergency_call_started, dbus_signals_bound, pending>>

TrackerTypeOK ==
    /\ emergency_call_started \in BOOLEAN
    /\ dbus_signals_bound \in BOOLEAN
    /\ pending \in Seq(BOOLEAN)

(* module_init() connects to nothing: it waits for DBUS_CONNECTED. *)
TrackerInit ==
    /\ emergency_call_started = FALSE
    /\ dbus_signals_bound = FALSE
    /\ pending = <<>>

(* A queue taken newest first. *)
send_emergency_call_status_lifo(ongoing) == pending' = <<ongoing>> \o pending

send_emergency_call_status(ongoing) == pending' = Append(pending, ongoing)

(* The tracker that never remembers it reported a call. *)
mce_call_state_ind_nolatch(callstate) ==
    /\ \/ /\ callstate = "emergency"
          /\ send_emergency_call_status(TRUE)
          /\ UNCHANGED emergency_call_started
       \/ /\ callstate # "emergency"
          /\ emergency_call_started
          /\ send_emergency_call_status(FALSE)
          /\ emergency_call_started' = FALSE
       \/ /\ callstate # "emergency"
          /\ ~emergency_call_started
          /\ UNCHANGED <<pending, emergency_call_started>>
    /\ UNCHANGED dbus_signals_bound

(* The signal callback.  "none" fails the code's second test too, so the  *)
(* first one adds nothing.                                                 *)
mce_call_state_ind(callstate) ==
    /\ \/ /\ callstate = "emergency"
          /\ send_emergency_call_status(TRUE)
          /\ emergency_call_started' = TRUE
       \/ /\ callstate # "emergency"
          /\ emergency_call_started
          /\ send_emergency_call_status(FALSE)
          /\ emergency_call_started' = FALSE
       \/ /\ callstate # "emergency"
          /\ ~emergency_call_started
          /\ UNCHANGED <<pending, emergency_call_started>>
    /\ UNCHANGED dbus_signals_bound

(* DBUS_CONNECTED: bind the MCE signal (once: the bound flag guards it). *)
handle_DBUS_CONNECTED ==
    /\ dbus_signals_bound' = TRUE
    /\ UNCHANGED <<emergency_call_started, pending>>

(* DBUS_DISCONNECT only logs; the binding stays. *)
handle_DBUS_DISCONNECT == UNCHANGED tracker_vars

==============================================================================
