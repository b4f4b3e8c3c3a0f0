------------------------------ MODULE DsmeSystem ------------------------------
(***************************************************************************)
(* The state module composed with the emergency call tracker and the      *)
(* malfunction module.                                                     *)
(*                                                                         *)
(* MCE publishes the call state over D-Bus (mce).  Once the tracker has    *)
(* bound the signal, each publication runs mce_call_state_ind(), which     *)
(* queues SET_EMERGENCY_CALL_STATE; before that the signal has no          *)
(* subscriber and is lost.  The main loop later hands the oldest queued    *)
(* message to the state module's handler, between any timer callbacks     *)
(* and other events.  DBUS_CONNECTED and DBUS_DISCONNECT go to both        *)
(* modules in one dispatch.  The ENTER_MALF that module_init() of state.c  *)
(* broadcasts waits on the queue for the malf module's handler.            *)
(*                                                                         *)
(* The state module's own emergency and D-Bus inputs are left out of       *)
(* Inputs: here they come from the tracker and from D-Bus.                 *)
(***************************************************************************)
EXTENDS DsmeState

CONSTANTS
    CallStates,   \* the strings MCE sends in sig_call_state_ind
    MaxPending    \* bound on the tracker's messages on the internal queue

VARIABLES emergency_call_started, dbus_signals_bound, pending, mce,
          malf_pending, parent

ECT == INSTANCE EmergencyCallTracker

tracker_state == <<emergency_call_started, dbus_signals_bound, pending>>

(* /run/systemd/reboot-param is the one file of the state module. *)
MalfM == INSTANCE Malf WITH daemon <- st, others <- tracker_state,
                            OnDisk <- {"reboot_param"}

sys_vars == <<st, emergency_call_started, dbus_signals_bound, pending, mce,
              malf_pending, parent>>
other_vars == <<emergency_call_started, dbus_signals_bound, pending, mce,
                malf_pending, parent>>

SysTypeOK ==
    /\ TypeOK
    /\ ECT!TrackerTypeOK
    /\ Len(pending) <= MaxPending
    /\ mce \in CallStates
    /\ MalfM!MalfTypeOK

(* The ENTER_MALF reasons a step broadcast. *)
MalfRequests(out) ==
    LET m == SelectSeq(out, LAMBDA x : x.type = "ENTER_MALF")
    IN  [i \in DOMAIN m |-> m[i].arg]

SysInit ==
    /\ Init
    /\ ECT!TrackerInit
    /\ mce \in CallStates
    /\ malf_pending = MalfRequests(st.out)
    /\ parent = <<>>

(* MCE publishes a call state (possibly the same one again).  The tracker *)
(* sees it only while its signal is bound and the main loop runs.         *)
McePublishes(cs) ==
    /\ Len(pending) < MaxPending
    /\ mce' = cs
    /\ IF dbus_signals_bound /\ Running
       THEN ECT!mce_call_state_ind(cs)
       ELSE UNCHANGED <<emergency_call_started, dbus_signals_bound, pending>>
    /\ UNCHANGED <<st, malf_pending, parent>>

(* The main loop dispatches the oldest queued SET_EMERGENCY_CALL_STATE. *)
DeliverCallState(env) ==
    /\ pending # <<>>
    /\ OnSetEmergencyCallState(Head(pending), env)
    /\ pending' = Tail(pending)
    /\ UNCHANGED <<emergency_call_started, dbus_signals_bound, mce,
                   malf_pending, parent>>

(* dbusproxy connects to the system bus and broadcasts DBUS_CONNECTED. *)
SysDbusConnected ==
    /\ ~dbus_signals_bound
    /\ OnDbusConnected
    /\ ECT!handle_DBUS_CONNECTED
    /\ UNCHANGED <<mce, malf_pending, parent>>

SysDbusDisconnect ==
    /\ Running
    /\ st' = Fresh
    /\ ECT!handle_DBUS_DISCONNECT
    /\ UNCHANGED <<mce, malf_pending, parent>>

(* The malf module handles the queued ENTER_MALF. *)
EnterMalf(outcome) ==
    /\ MalfM!handle_ENTER_MALF(outcome)
    /\ UNCHANGED <<emergency_call_started, dbus_signals_bound, pending, mce>>

(* The forked child's main loop has ended: the parent process takes over  *)
(* with everything it had at the fork, the tracker's statics included.    *)
SysParentResumes ==
    /\ MalfM!ParentResumes
    /\ emergency_call_started' = Head(parent).others[1]
    /\ dbus_signals_bound' = Head(parent).others[2]
    /\ pending' = Head(parent).others[3]
    /\ UNCHANGED mce

(* Any other event of the state module. *)
StateStep == Next /\ UNCHANGED other_vars

(* module_init() of state.c queues ENTER_MALF before the main loop starts, *)
(* and the main loop drains the internal queue before it polls timers or   *)
(* sockets, so the malf handler runs before any other event.                *)
MalfHandled == malf_pending = <<>> \/ ~Running

SysNext ==
    \/ \E o \in MalfM!MalfOutcomes : EnterMalf(o)
    \/ /\ MalfHandled
        /\ \/ \E cs \in CallStates : McePublishes(cs)
           \/ \E env \in Envs : DeliverCallState(env)
           \/ SysDbusConnected
           \/ SysDbusDisconnect
           \/ SysParentResumes
           \/ StateStep

(* The timer service, the main loop dispatching queued messages and the   *)
(* bus coming up are fair, and so is wait() returning once the child has *)
(* exited; MCE and the other inputs are not.                              *)
SysFairness ==
    /\ Fairness
    /\ WF_sys_vars(\E env \in Envs : DeliverCallState(env))
    /\ WF_sys_vars(\E o \in MalfM!MalfOutcomes : EnterMalf(o))
    /\ WF_sys_vars(SysDbusConnected)
    /\ WF_sys_vars(SysParentResumes)

SysSpec == SysInit /\ [][SysNext]_sys_vars /\ SysFairness

-----------------------------------------------------------------------------
(* Properties *)

(* Whenever no tracker message is in flight, the state module's emergency *)
(* bit is what the tracker last concluded: mce_call_state_ind() and the   *)
(* SET_EMERGENCY_CALL_STATE handler agree once the queue has drained, so  *)
(* call on/off reports are applied in the order MCE sent them.            *)
CallBitMatchesTracker ==
    (Running /\ pending = <<>>)
        => st.emergency_call_ongoing = emergency_call_started

(* Once MCE reports a call state other than "emergency" while the state   *)
(* module believes a call is on, the module eventually clears the bit and *)
(* re-runs its policy (or MCE reports an emergency again, or DSME stops). *)
CallEndReleasesState ==
    (st.emergency_call_ongoing /\ mce # "emergency")
        ~> (~st.emergency_call_ongoing \/ mce = "emergency" \/ ~Running)

(* While MCE reports an emergency call, the state module eventually knows *)
(* of it, whatever happened before the tracker bound its D-Bus signal.    *)
EmergencyCallNoticed ==
    (mce = "emergency")
        ~> (st.emergency_call_ongoing \/ mce # "emergency" \/ ~Running)

(* Once DSME's main loop has quit (dsme_main_loop_quit), no DSME main loop *)
(* dispatches events again: the daemon never comes back with old state.   *)
QuitIsFinal == [][~Running => ~Running']_sys_vars

==============================================================================
