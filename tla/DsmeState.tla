------------------------------ MODULE DsmeState ------------------------------
(***************************************************************************)
(* The device state policy of DSME, src/modules/state.c.                   *)
(*                                                                         *)
(* The module's static variables (the input bits, the battery level,       *)
(* current_state, the six timer handles) are the fields of one record st,  *)
(* so that a handler, which calls setters and then                         *)
(* change_state_if_necessary() in sequence, is a composition of operators  *)
(* from record to record.  Every message handler, timer callback and       *)
(* D-Bus signal callback is one action: they all run to completion on the  *)
(* single DSME main loop, so an action is atomic.                          *)
(*                                                                         *)
(* st.out is the sequence of messages the last step broadcast, in order:   *)
(* SAVE_DATA_IND, STATE_CHANGE_IND, STATE_REQ_DENIED_IND, BATTERY_EMPTY_IND *)
(* and ENTER_MALF to the other modules, CHANGE_RUNLEVEL and SHUTDOWN to    *)
(* the init module.                                                        *)
(*                                                                         *)
(* Time is abstracted away: an armed timer may fire at any later step.     *)
(***************************************************************************)
EXTENDS Integers, Sequences, FiniteSets, DsmeBootstate

CONSTANTS
    DirectMode,          \* DSME_SUPPORT_DIRECT_USER_ACTDEAD is compiled in
    HomeEncrypted,       \* what dsme_home_is_encrypted() probes, once
    RebootParamConfigs,  \* charger tags t with /etc/dsme/reboot-to-actdead-t.param
    FallibleTimers,      \* timers whose dsme_create_timer_seconds() may fail
    ParamIo,             \* outcomes of the reboot-param file copy a model allows
    BatteryLevels,       \* battery percentages SET_BATTERY_LEVEL reports
    Bootstates,          \* values of BOOTSTATE, as token sequences
    Inputs               \* the kinds of inbound event a model lets happen

ChargerTags == {"with-charger", "without-charger"}
DelayedTimers == {"shutdown", "actdead", "user"}
Timers == DelayedTimers \cup {"overheat", "charger_disconnect", "battery_empty"}

ASSUME DirectMode \in BOOLEAN /\ HomeEncrypted \in BOOLEAN
ASSUME RebootParamConfigs \subseteq ChargerTags
ASSUME FallibleTimers \subseteq Timers

(* The file copy of need_to_use_reboot(): "ok", "read_fails" (the config   *)
(* cannot be read or the output opened, so the file is untouched), or      *)
(* "write_fails" (write() fails or writes part of the line after O_TRUNC); *)
(* and whether the unlink() on the failure path succeeds.                  *)
ParamIoOutcomes == [copy : {"ok", "read_fails", "write_fails"}, unlink : BOOLEAN]
ASSUME ParamIo \subseteq ParamIoOutcomes
ASSUME BatteryLevels \subseteq 0..100

(* Inbound events, by kind: the DSME messages the state module handles and *)
(* the runlevel_switch_done D-Bus signal.                                  *)
InputKinds == {"charger", "usb", "telinit", "alarm", "thermal", "emergency",
               "battery_level", "battery_state", "state_query", "dbus",
               "shutdown_block", "runlevel_switch"}
ASSUME Inputs \subseteq InputKinds

States == {"NOT_SET", "BOOT", "USER", "ACTDEAD", "SHUTDOWN", "REBOOT", "TEST",
           "MALF", "LOCAL"}
Down == {"SHUTDOWN", "REBOOT"}
ChargerStates == {"UNKNOWN", "CONNECTED", "DISCONNECTED"}

DSME_BATTERY_LEVEL_UNKNOWN   == -1
DSME_MINIMUM_BATTERY_TO_USER == 3

(* The runlevels of runlevel.h. *)
DSME_RUNLEVEL_SHUTDOWN == 0
DSME_RUNLEVEL_TEST     == 3
DSME_RUNLEVEL_LOCAL    == 3
DSME_RUNLEVEL_ACTDEAD  == 4
DSME_RUNLEVEL_USER     == 5
DSME_RUNLEVEL_REBOOT   == 6

(* state2runlevel(): the LOCAL case has no break and falls through to      *)
(* the ACTDEAD case.                                                       *)
state2runlevel(s) ==
    CASE s = "SHUTDOWN" -> DSME_RUNLEVEL_SHUTDOWN
      [] s = "TEST"     -> DSME_RUNLEVEL_TEST
      [] s = "USER"     -> DSME_RUNLEVEL_USER
      [] s = "LOCAL"    -> DSME_RUNLEVEL_ACTDEAD
      [] s = "ACTDEAD"  -> DSME_RUNLEVEL_ACTDEAD
      [] s = "REBOOT"   -> DSME_RUNLEVEL_REBOOT
      [] OTHER          -> DSME_RUNLEVEL_SHUTDOWN

Msg(type, arg) == [type |-> type, arg |-> arg]
NoArg == "none"

Runlevels == {DSME_RUNLEVEL_SHUTDOWN, DSME_RUNLEVEL_TEST, DSME_RUNLEVEL_ACTDEAD,
              DSME_RUNLEVEL_USER, DSME_RUNLEVEL_REBOOT}

(* The messages the module sends, each with the argument its type carries: *)
(* a state (never NOT_SET in a state change), a runlevel for the init      *)
(* module, or a malfunction kind.                                          *)
MsgTypes ==
    [type : {"SAVE_DATA_IND", "BATTERY_EMPTY_IND"}, arg : {NoArg}]
    \cup [type : {"STATE_CHANGE_IND"}, arg : States \ {"NOT_SET"}]
    \cup [type : {"STATE_REQ_DENIED_IND", "STATE_QUERY_REPLY"}, arg : States]
    \cup [type : {"CHANGE_RUNLEVEL", "SHUTDOWN"}, arg : Runlevels]
    \cup [type : {"ENTER_MALF"}, arg : {"HARDWARE", "SOFTWARE"}]

(* The outcome of the calls a step makes that may fail: the timers whose   *)
(* creation fails, and how the reboot-param file copy goes.                *)
Envs == [fails : SUBSET FallibleTimers, param_io : ParamIo]

VARIABLE st

(* The initial values of the static variables of state.c. *)
Initial ==
    [charger_state          |-> "UNKNOWN",
     alarm_pending          |-> FALSE,
     device_overheated      |-> FALSE,
     emergency_call_ongoing |-> FALSE,
     shutdown_blocked       |-> FALSE,
     mounted_to_pc          |-> FALSE,
     battery_empty          |-> FALSE,
     shutdown_requested     |-> FALSE,
     actdead_requested      |-> FALSE,
     reboot_requested       |-> FALSE,
     testmode_requested     |-> FALSE,
     actdead_switch_done    |-> FALSE,
     user_switch_done       |-> FALSE,
     dsme_battery_level     |-> DSME_BATTERY_LEVEL_UNKNOWN,
     current_state          |-> "NOT_SET",
     timers                 |-> {},
     reboot_param           |-> "none",
     dbus_signals_bound     |-> FALSE,
     exit_code              |-> "running",
     out                    |-> <<>>]

TypeOK ==
    /\ st.charger_state \in ChargerStates
    /\ \A f \in {"alarm_pending", "device_overheated", "emergency_call_ongoing",
                 "shutdown_blocked", "mounted_to_pc", "battery_empty",
                 "shutdown_requested", "actdead_requested", "reboot_requested",
                 "testmode_requested", "actdead_switch_done",
                 "user_switch_done", "dbus_signals_bound"} : st[f] \in BOOLEAN
    /\ st.dsme_battery_level \in BatteryLevels \cup {DSME_BATTERY_LEVEL_UNKNOWN}
    /\ st.current_state \in States
    /\ st.timers \subseteq Timers
    /\ st.reboot_param \in ChargerTags \cup {"none", "partial"}
    /\ st.exit_code \in {"running", "failure", "crash"}
    /\ \A i \in DOMAIN st.out : st.out[i] \in MsgTypes

-----------------------------------------------------------------------------
(* Helpers on the record *)

Broadcast(s, m) == [s EXCEPT !.out = Append(@, m)]
Arm(s, t)       == [s EXCEPT !.timers = @ \cup {t}]
Disarm(s, t)    == [s EXCEPT !.timers = @ \ {t}]
(* dsme_main_loop_quit(EXIT_FAILURE): the loop ends after this dispatch. *)
Quit(s)         == [s EXCEPT !.exit_code = "failure"]

-----------------------------------------------------------------------------
(* The policy and the transition controller *)

(* Mutant: the shutdown_blocked hold tested after actdead_requested. *)
select_state_blocklate(s) ==
    IF s.emergency_call_ongoing THEN s.current_state
    ELSE IF s.device_overheated THEN "SHUTDOWN"
    ELSE IF s.battery_empty THEN "SHUTDOWN"
    ELSE IF s.testmode_requested THEN "TEST"
    ELSE IF s.actdead_requested THEN "ACTDEAD"
    ELSE IF s.shutdown_blocked THEN s.current_state
    ELSE IF s.shutdown_requested \/ s.reboot_requested THEN
        IF /\ s.shutdown_requested
           /\ s.charger_state = "DISCONNECTED"
           /\ (~s.alarm_pending \/ HomeEncrypted) THEN "SHUTDOWN"
        ELSE IF s.reboot_requested THEN "REBOOT"
        ELSE "ACTDEAD"
    ELSE "USER"

select_state(s) ==
    IF s.emergency_call_ongoing THEN s.current_state
    ELSE IF s.device_overheated THEN "SHUTDOWN"
    ELSE IF s.battery_empty THEN "SHUTDOWN"
    ELSE IF s.shutdown_blocked THEN s.current_state
    ELSE IF s.testmode_requested THEN "TEST"
    ELSE IF s.actdead_requested THEN "ACTDEAD"
    ELSE IF s.shutdown_requested \/ s.reboot_requested THEN
        IF /\ s.shutdown_requested
           /\ s.charger_state = "DISCONNECTED"
           /\ (~s.alarm_pending \/ HomeEncrypted) THEN "SHUTDOWN"
        ELSE IF s.reboot_requested THEN "REBOOT"
        ELSE "ACTDEAD"
    ELSE "USER"

(* Mutant: STATE_CHANGE_IND filled in from current_state, not new_state. *)
change_state_oldstate(s, new) ==
    LET saved == IF new \in Down THEN Broadcast(s, Msg("SAVE_DATA_IND", NoArg))
                 ELSE s
    IN  [Broadcast(saved, Msg("STATE_CHANGE_IND", s.current_state))
            EXCEPT !.current_state = new]

change_state(s, new) ==
    LET saved == IF new \in Down THEN Broadcast(s, Msg("SAVE_DATA_IND", NoArg))
                 ELSE s
    IN  [Broadcast(saved, Msg("STATE_CHANGE_IND", new))
            EXCEPT !.current_state = new]

(* Mutant: only the delayed shutdown timer is stopped. *)
stop_delayed_runlevel_timers_shutdownonly(s) == [s EXCEPT !.timers = @ \ {"shutdown"}]

stop_delayed_runlevel_timers(s) == [s EXCEPT !.timers = @ \ DelayedTimers]

start_delayed_shutdown_timer(s, env) ==
    IF "shutdown" \in s.timers THEN s
    ELSE IF "shutdown" \in env.fails THEN Quit(stop_delayed_runlevel_timers(s))
    ELSE Arm(stop_delayed_runlevel_timers(s), "shutdown")

(* start_delayed_actdead_timer() / start_delayed_user_timer() followed by  *)
(* change_state() when the timer was started.  The MIN or MAX timeout,     *)
(* chosen by the *_switch_done flag, is not modelled: time is abstract.    *)
DelayedSwitch(s, t, new, env) ==
    IF s.timers \cap DelayedTimers # {} THEN s
    ELSE IF t \in env.fails THEN Quit(s)
    ELSE change_state(Arm(s, t), new)

ChargerTag(s) ==
    IF s.charger_state = "CONNECTED" THEN "with-charger" ELSE "without-charger"

(* Mutant: a partial write taken for success (the done != todo test gone). *)
need_to_use_reboot_partialok(s, env) ==
    ChargerTag(s) \in RebootParamConfigs /\ env.param_io.copy # "read_fails"

(* need_to_use_reboot(ACTDEAD) returns TRUE when the first line of the     *)
(* config for the charger tag was copied whole into                        *)
(* /run/systemd/reboot-param.                                               *)
need_to_use_reboot(s, env) ==
    ChargerTag(s) \in RebootParamConfigs /\ env.param_io.copy = "ok"

(* What the copy leaves in the file: nothing new when there is no config   *)
(* or it cannot be read or the output opened; after O_TRUNC, the line or   *)
(* ("partial") a failed or short write of it.                              *)
ParamWritten(s, env) ==
    IF ChargerTag(s) \in RebootParamConfigs /\ env.param_io.copy # "read_fails"
    THEN IF env.param_io.copy = "ok" THEN ChargerTag(s) ELSE "partial"
    ELSE s.reboot_param

(* At EXIT the file is unlinked unless use_reboot; if unlink() fails,      *)
(* whatever the copy left stays.                                           *)
RebootParamFile(s, env) ==
    IF ~need_to_use_reboot(s, env) /\ env.param_io.unlink THEN "none"
    ELSE ParamWritten(s, env)

WriteRebootParam(s, env) ==
    [s EXCEPT !.reboot_param = RebootParamFile(s, env)]

(* Mutant: an unknown battery level taken as good enough for USER. *)
ActdeadToUser_unknownok(s, new, env) ==
    IF /\ s.dsme_battery_level # DSME_BATTERY_LEVEL_UNKNOWN
       /\ s.dsme_battery_level < DSME_MINIMUM_BATTERY_TO_USER
    THEN [s EXCEPT !.shutdown_requested = TRUE]
    ELSE LET s1 == [s EXCEPT !.user_switch_done = FALSE]
         IN  IF DirectMode THEN DelayedSwitch(s1, "user", new, env)
             ELSE start_delayed_shutdown_timer(change_state(s1, "REBOOT"), env)

(* current_state is ACTDEAD and USER is wanted. *)
ActdeadToUser(s, new, env) ==
    IF s.dsme_battery_level < DSME_MINIMUM_BATTERY_TO_USER
    THEN [s EXCEPT !.shutdown_requested = TRUE]
    ELSE LET s1 == [s EXCEPT !.user_switch_done = FALSE]
         IN  IF DirectMode THEN DelayedSwitch(s1, "user", new, env)
             ELSE start_delayed_shutdown_timer(change_state(s1, "REBOOT"), env)

(* current_state is USER and ACTDEAD is wanted. *)
UserToActdead(s, new, env) ==
    LET s1 == [s EXCEPT !.actdead_switch_done = FALSE]
    IN  IF DirectMode THEN DelayedSwitch(s1, "actdead", new, env)
        ELSE start_delayed_shutdown_timer(
                 change_state(WriteRebootParam(s1, env),
                              IF need_to_use_reboot(s1, env) THEN "REBOOT"
                              ELSE "SHUTDOWN"),
                 env)

(* Mutant: USER and ACTDEAD entered from whatever state DSME is in. *)
try_to_change_state_anyfrom(s, new, env) ==
    CASE new \in Down ->
            start_delayed_shutdown_timer(change_state(s, new), env)
      [] new \in {"USER", "ACTDEAD"} ->
            CASE s.current_state = "ACTDEAD" -> ActdeadToUser(s, new, env)
              [] s.current_state = "USER"    -> UserToActdead(s, new, env)
              [] OTHER                       -> change_state(s, new)
      [] new \in {"TEST", "LOCAL"} ->
            IF s.current_state = "NOT_SET" THEN change_state(s, new) ELSE s
      [] OTHER -> s

try_to_change_state(s, new, env) ==
    CASE new \in Down ->
            start_delayed_shutdown_timer(change_state(s, new), env)
      [] new \in {"USER", "ACTDEAD"} ->
            CASE s.current_state = "NOT_SET" -> change_state(s, new)
              [] s.current_state = "ACTDEAD" -> ActdeadToUser(s, new, env)
              [] s.current_state = "USER"    -> UserToActdead(s, new, env)
              [] OTHER                       -> s
      [] new \in {"TEST", "LOCAL"} ->
            IF s.current_state = "NOT_SET" THEN change_state(s, new) ELSE s
      [] OTHER -> s

change_state_if_necessary(s, env) ==
    IF select_state(s) # s.current_state
    THEN try_to_change_state(s, select_state(s), env)
    ELSE s

-----------------------------------------------------------------------------
(* Timer callbacks, as operators: they also run inline when their timer    *)
(* cannot be created or is fired early by a runlevel switch signal.        *)

delayed_shutdown_fn(s) ==
    Disarm(Broadcast(s, Msg("SHUTDOWN", state2runlevel(s.current_state))),
           "shutdown")

change_runlevel(s, state) ==
    Broadcast(s, Msg("CHANGE_RUNLEVEL", state2runlevel(state)))

delayed_actdead_fn(s) == Disarm(change_runlevel(s, "ACTDEAD"), "actdead")

delayed_user_fn(s) == Disarm(change_runlevel(s, "USER"), "user")

(* Mutant: the overheat latch set without re-running the policy. *)
delayed_overheat_fn_noeval(s, env) ==
    Disarm([s EXCEPT !.device_overheated = TRUE], "overheat")

delayed_overheat_fn(s, env) ==
    Disarm(change_state_if_necessary([s EXCEPT !.device_overheated = TRUE], env),
           "overheat")

delayed_charger_disconnect_fn(s, env) ==
    Disarm(change_state_if_necessary(
               [s EXCEPT !.charger_state = "DISCONNECTED"], env),
           "charger_disconnect")

delayed_battery_empty_fn(s, env) ==
    Disarm(change_state_if_necessary([s EXCEPT !.battery_empty = TRUE], env),
           "battery_empty")

(* The start_* helpers of the delayed state bits: a timer that cannot be   *)
(* created is handled as if it had fired at once.                          *)
start_overheat_timer(s, env) ==
    IF "overheat" \in s.timers THEN s
    ELSE IF "overheat" \in env.fails THEN delayed_overheat_fn(s, env)
    ELSE Arm(s, "overheat")

start_charger_disconnect_timer(s, env) ==
    IF "charger_disconnect" \in s.timers THEN s
    ELSE IF "charger_disconnect" \in env.fails
         THEN delayed_charger_disconnect_fn(s, env)
    ELSE Arm(s, "charger_disconnect")

(* Stopping a pending disconnect timer commits the disconnect it delayed. *)
stop_charger_disconnect_timer(s) ==
    IF "charger_disconnect" \in s.timers
    THEN [Disarm(s, "charger_disconnect") EXCEPT !.charger_state = "DISCONNECTED"]
    ELSE s

start_battery_empty_timer(s, env) ==
    IF "battery_empty" \in s.timers THEN s
    ELSE IF "battery_empty" \in env.fails THEN delayed_battery_empty_fn(s, env)
    ELSE Arm(s, "battery_empty")

(* Mutant: a call start that leaves the delayed timers running. *)
update_emergency_call_ongoing_nostop(s, value, env) ==
    IF s.emergency_call_ongoing = value THEN s
    ELSE IF value THEN [s EXCEPT !.emergency_call_ongoing = TRUE]
    ELSE change_state_if_necessary([s EXCEPT !.emergency_call_ongoing = FALSE], env)

update_emergency_call_ongoing(s, value, env) ==
    IF s.emergency_call_ongoing = value THEN s
    ELSE IF value
         THEN stop_delayed_runlevel_timers([s EXCEPT !.emergency_call_ongoing = TRUE])
    ELSE change_state_if_necessary([s EXCEPT !.emergency_call_ongoing = FALSE], env)

(* Mutant: lifting the block keeps the requests received while blocked. *)
update_shutdown_blocked_keep(s, value, env) ==
    IF s.shutdown_blocked = value THEN s
    ELSE IF value THEN [s EXCEPT !.shutdown_blocked = TRUE]
    ELSE change_state_if_necessary([s EXCEPT !.shutdown_blocked = FALSE], env)

update_shutdown_blocked(s, value, env) ==
    IF s.shutdown_blocked = value THEN s
    ELSE IF value THEN [s EXCEPT !.shutdown_blocked = TRUE]
    ELSE change_state_if_necessary(
             [s EXCEPT !.shutdown_blocked   = FALSE,
                       !.shutdown_requested = FALSE,
                       !.reboot_requested   = FALSE], env)

(* is_state_change_request_acceptable(): deny shutdown and reboot while    *)
(* in USB mass storage mode, telling everyone why.                          *)
RequestAcceptable(s, requested) ==
    ~(requested \in Down /\ s.mounted_to_pc)

deny_state_change_request(s, requested) ==
    Broadcast(s, Msg("STATE_REQ_DENIED_IND", requested))

-----------------------------------------------------------------------------
(* The telinit handlers; SHUTDOWN_REQ, REBOOT_REQ and POWERUP_REQ call the  *)
(* SHUTDOWN, REBOOT and USER ones.                                         *)

handle_telinit_SHUTDOWN(s, privileged, env) ==
    IF ~privileged THEN s
    ELSE IF ~RequestAcceptable(s, "SHUTDOWN")
         THEN deny_state_change_request(s, "SHUTDOWN")
    ELSE change_state_if_necessary(
             [s EXCEPT !.shutdown_requested = TRUE,
                       !.actdead_requested  = FALSE], env)

handle_telinit_USER(s, privileged, env) ==
    IF ~privileged THEN s
    ELSE change_state_if_necessary(
             [s EXCEPT !.shutdown_requested = FALSE,
                       !.actdead_requested  = FALSE], env)

handle_telinit_ACTDEAD(s, privileged, env) ==
    IF ~privileged THEN s
    ELSE change_state_if_necessary([s EXCEPT !.actdead_requested = TRUE], env)

handle_telinit_REBOOT(s, privileged, env) ==
    IF ~privileged THEN s
    ELSE IF ~RequestAcceptable(s, "REBOOT")
         THEN deny_state_change_request(s, "REBOOT")
    ELSE change_state_if_necessary(
             [s EXCEPT !.reboot_requested  = TRUE,
                       !.actdead_requested = FALSE], env)

(* telinit TEST, MALF, BOOT and LOCAL are unimplemented; an unknown name   *)
(* maps to NOT_SET, whose handler ignores the request as well.             *)
TelinitIgnored == States \ {"SHUTDOWN", "USER", "ACTDEAD", "REBOOT"}

-----------------------------------------------------------------------------
(* Start-up: module_init() with set_initial_state_bits(BOOTSTATE). *)

(* enter_malf() of state.c: strcmp(reason, ...) and strdup(component) on  *)
(* a NULL pointer are undefined; with glibc they fault, and DSME dies.     *)
enter_malf(s, info) ==
    IF info.reason = NULL \/ info.component = NULL
    THEN [s EXCEPT !.exit_code = "crash"]
    ELSE Broadcast(s, Msg("ENTER_MALF",
                          IF info.reason = <<"HARDWARE">> THEN "HARDWARE"
                          ELSE "SOFTWARE"))

set_initial_state_bits(s, b, rd_mode) ==
    LET user    == SkipPrefix(b, "USER")
        actdead == SkipPrefix(b, "ACT_DEAD")
        malf    == SkipPrefix(b, "MALF")
        \* the bits set and the malf information p, NULL when there is none
        r == CASE b = <<"SHUTDOWN">> ->
                    [s1 |-> [s EXCEPT !.charger_state      = "DISCONNECTED",
                                      !.shutdown_requested = TRUE],
                     p |-> NULL, must_malf |-> FALSE]
               [] user # NULL ->
                    [s1 |-> s, p |-> user, must_malf |-> FALSE]
               [] actdead # NULL ->
                    [s1 |-> [s EXCEPT !.shutdown_requested = TRUE],
                     p |-> actdead, must_malf |-> FALSE]
               [] b = <<"BOOT">> ->
                    [s1 |-> [s EXCEPT !.reboot_requested = TRUE],
                     p |-> NULL, must_malf |-> FALSE]
               [] b \in {<<"LOCAL">>, <<"TEST">>, <<"FLASH">>} ->
                    [s1 |-> [s EXCEPT !.testmode_requested = TRUE],
                     p |-> NULL, must_malf |-> FALSE]
               [] malf # NULL ->
                    [s1 |-> s, must_malf |-> TRUE,
                     p |-> IF malf = <<>> THEN <<"SOFTWARE", SP, "bootloader">>
                           ELSE malf]
               [] OTHER ->
                    [s1 |-> s, must_malf |-> FALSE,
                     p |-> <<"SOFTWARE", SP, "bootloader", SP, "unknown">>]
    IN  IF r.p # NULL /\ r.p # <<>> /\ (r.must_malf \/ ~rd_mode)
        THEN enter_malf(r.s1, ParseMalfInfo(r.p))
        ELSE r.s1

module_init(b, rd_mode, env) ==
    LET s == set_initial_state_bits(Initial, b, rd_mode)
    IN  IF s.exit_code = "crash" THEN s ELSE change_state_if_necessary(s, env)

-----------------------------------------------------------------------------
(* The specification: every action starts from the record with out        *)
(* cleared and is enabled only while the main loop runs.                   *)

Running == st.exit_code = "running"
Fresh   == [st EXCEPT !.out = <<>>]

Init ==
    \E b \in Bootstates, rd_mode \in BOOLEAN, env \in Envs :
        st = module_init(b, rd_mode, env)

SetChargerState(connected, env) ==
    LET new == IF connected THEN "CONNECTED" ELSE "DISCONNECTED"
        s   == stop_charger_disconnect_timer(Fresh)
    IN  /\ "charger" \in Inputs
        /\ Running
        /\ st' = IF s.current_state = "ACTDEAD" /\ new = "DISCONNECTED"
                 THEN start_charger_disconnect_timer(s, env)
                 ELSE change_state_if_necessary([s EXCEPT !.charger_state = new], env)

SetUsbState(mounted) ==
    /\ "usb" \in Inputs
    /\ Running
    /\ st' = [Fresh EXCEPT !.mounted_to_pc = mounted]

(* TELINIT with the state its runlevel name maps to, and SHUTDOWN_REQ,     *)
(* REBOOT_REQ and POWERUP_REQ, from a privileged sender or not.            *)
Telinit(state, privileged, env) ==
    /\ "telinit" \in Inputs
    /\ Running
    /\ st' = CASE state = "SHUTDOWN" -> handle_telinit_SHUTDOWN(Fresh, privileged, env)
               [] state = "USER"     -> handle_telinit_USER(Fresh, privileged, env)
               [] state = "ACTDEAD"  -> handle_telinit_ACTDEAD(Fresh, privileged, env)
               [] state = "REBOOT"   -> handle_telinit_REBOOT(Fresh, privileged, env)
               [] OTHER              -> Fresh

SetAlarmState(alarm_set, env) ==
    /\ "alarm" \in Inputs
    /\ Running
    /\ st' = change_state_if_necessary([Fresh EXCEPT !.alarm_pending = alarm_set], env)

(* Only OVERHEATED acts: there is no going back from being overheated. *)
SetThermalStatus(overheated, env) ==
    /\ "thermal" \in Inputs
    /\ Running
    /\ st' = IF overheated THEN start_overheat_timer(Fresh, env) ELSE Fresh

(* The handlers of SET_EMERGENCY_CALL_STATE and DBUS_CONNECTED, which the  *)
(* emergency call tracker and the D-Bus glue also drive in DsmeSystem.     *)
OnSetEmergencyCallState(ongoing, env) ==
    /\ Running
    /\ st' = change_state_if_necessary(
                 update_emergency_call_ongoing(Fresh, ongoing, env), env)

OnDbusConnected ==
    /\ Running
    /\ st' = [Fresh EXCEPT !.dbus_signals_bound = TRUE]

SetEmergencyCallState(ongoing, env) ==
    /\ "emergency" \in Inputs
    /\ OnSetEmergencyCallState(ongoing, env)

SetBatteryLevel(level) ==
    /\ "battery_level" \in Inputs
    /\ Running
    /\ st' = [Fresh EXCEPT !.dsme_battery_level = level]

SetBatteryState(empty, env) ==
    /\ "battery_state" \in Inputs
    /\ Running
    /\ st' = IF empty
             THEN start_battery_empty_timer(
                      Broadcast(Fresh, Msg("BATTERY_EMPTY_IND", NoArg)), env)
             ELSE Disarm(Fresh, "battery_empty")

StateQuery ==
    /\ "state_query" \in Inputs
    /\ Running
    /\ st' = Broadcast(Fresh, Msg("STATE_QUERY_REPLY", st.current_state))

DbusConnected ==
    /\ "dbus" \in Inputs
    /\ OnDbusConnected

DbusDisconnect ==
    /\ "dbus" \in Inputs
    /\ Running
    /\ st' = Fresh

(* BLOCK_SHUTDOWN / ALLOW_SHUTDOWN count only when sent by DSME itself,   *)
(* i.e. by the dbusproxy module on behalf of its D-Bus clients.           *)
BlockShutdown(from_dsme, env) ==
    /\ "shutdown_block" \in Inputs
    /\ Running
    /\ st' = IF from_dsme THEN update_shutdown_blocked(Fresh, TRUE, env) ELSE Fresh

AllowShutdown(from_dsme, env) ==
    /\ "shutdown_block" \in Inputs
    /\ Running
    /\ st' = IF from_dsme THEN update_shutdown_blocked(Fresh, FALSE, env) ELSE Fresh

(* The runlevel_switch_done D-Bus signal, delivered once it is bound. *)
runlevel_switch_ind(runlevel) ==
    /\ "runlevel_switch" \in Inputs
    /\ Running
    /\ st.dbus_signals_bound
    /\ st' = CASE runlevel = DSME_RUNLEVEL_ACTDEAD ->
                    LET s == [Fresh EXCEPT !.actdead_switch_done = TRUE]
                    IN  IF "user" \in s.timers THEN delayed_user_fn(s) ELSE s
               [] runlevel = DSME_RUNLEVEL_USER ->
                    LET s == [Fresh EXCEPT !.user_switch_done = TRUE]
                    IN  IF "actdead" \in s.timers THEN delayed_actdead_fn(s) ELSE s
               [] OTHER -> Fresh

(* The timer service calls back an armed timer's function. *)
TimerFires(t, env) ==
    /\ Running
    /\ t \in st.timers
    /\ st' = CASE t = "shutdown"           -> delayed_shutdown_fn(Fresh)
               [] t = "actdead"            -> delayed_actdead_fn(Fresh)
               [] t = "user"               -> delayed_user_fn(Fresh)
               [] t = "overheat"           -> delayed_overheat_fn(Fresh, env)
               [] t = "charger_disconnect" -> delayed_charger_disconnect_fn(Fresh, env)
               [] t = "battery_empty"      -> delayed_battery_empty_fn(Fresh, env)

(* After dsme_main_loop_quit() or a crash nothing more is dispatched. *)
Exited ==
    /\ ~Running
    /\ UNCHANGED st

Next ==
    \/ \E env \in Envs :
        \/ \E c \in BOOLEAN : SetChargerState(c, env)
        \/ \E s \in States, p \in BOOLEAN : Telinit(s, p, env)
        \/ \E a \in BOOLEAN : SetAlarmState(a, env)
        \/ \E o \in BOOLEAN : SetThermalStatus(o, env)
        \/ \E o \in BOOLEAN : SetEmergencyCallState(o, env)
        \/ \E e \in BOOLEAN : SetBatteryState(e, env)
        \/ \E d \in BOOLEAN : BlockShutdown(d, env)
        \/ \E d \in BOOLEAN : AllowShutdown(d, env)
        \/ \E t \in Timers : TimerFires(t, env)
    \/ \E m \in BOOLEAN : SetUsbState(m)
    \/ \E l \in BatteryLevels : SetBatteryLevel(l)
    \/ StateQuery
    \/ DbusConnected
    \/ DbusDisconnect
    \/ \E r \in {DSME_RUNLEVEL_SHUTDOWN, DSME_RUNLEVEL_ACTDEAD, DSME_RUNLEVEL_USER} :
        runlevel_switch_ind(r)
    \/ Exited

(* The timer service fires every armed timer eventually, and the DSME      *)
(* main loop dispatches it: weak fairness on each timer callback.          *)
Fairness == \A t \in Timers : WF_st(\E env \in Envs : TimerFires(t, env))

Spec == Init /\ [][Next]_st /\ Fairness

(* The environment: an emergency call ends eventually. *)
CallEnds ==
    /\ st.emergency_call_ongoing
    /\ \E env \in Envs : SetEmergencyCallState(FALSE, env)

FairSpec == Spec /\ WF_st(CallEnds)

-----------------------------------------------------------------------------
(* Properties *)

InitCommand(m) == m.type \in {"CHANGE_RUNLEVEL", "SHUTDOWN"}
SendsInitCommand(s) == \E i \in DOMAIN s.out : InitCommand(s.out[i])
SendsShutdown(s) == \E i \in DOMAIN s.out : s.out[i].type = "SHUTDOWN"

(* While an emergency call is ongoing, no step changes current_state or    *)
(* tells the init module to change runlevel or shut down: the call start   *)
(* in update_emergency_call_ongoing() cancels the delayed shutdown,        *)
(* actdead and user timers that were already running.                      *)
EmergencyCallFreezesState ==
    [][st'.emergency_call_ongoing =>
          /\ st'.current_state = st.current_state
          /\ ~SendsInitCommand(st')]_st

(* While D-Bus clients block shutdown (BLOCK_SHUTDOWN from dbusproxy), no  *)
(* step takes DSME from a running state into SHUTDOWN or REBOOT, unless    *)
(* the device overheated or its battery ran empty.                         *)
ShutdownBlockHonoured ==
    [][/\ st'.shutdown_blocked
       /\ st.current_state \notin Down
       /\ st'.current_state \in Down
       => st'.device_overheated \/ st'.battery_empty]_st

(* ALLOW_SHUTDOWN forgets the shutdown and reboot requests received while *)
(* D-Bus clients blocked shutdown in USER: the step that lifts the block  *)
(* takes DSME down only for overheat, an empty battery or an ACTDEAD      *)
(* request, never for a request the block held off.  (In ACTDEAD the      *)
(* shutdown request that holds the state is forgotten too; see README.)   *)
BlockedRequestsForgotten ==
    [][/\ st.shutdown_blocked /\ ~st'.shutdown_blocked
       /\ st.current_state = "USER"
       /\ st'.current_state \in Down
       => st'.device_overheated \/ st'.battery_empty \/ st'.actdead_requested]_st

(* DSME leaves ACTDEAD for USER, or for the REBOOT that stands in for it,  *)
(* only with a reported battery level of at least                          *)
(* DSME_MINIMUM_BATTERY_TO_USER, unless a reboot was requested.            *)
PowerupNeedsBattery ==
    [][/\ st.current_state = "ACTDEAD"
       /\ st'.current_state \in {"USER", "REBOOT"}
       => \/ st.dsme_battery_level >= DSME_MINIMUM_BATTERY_TO_USER
          \/ st'.reboot_requested]_st

(* A thermal alarm (an armed overheat timer), an overheated device or an   *)
(* empty battery leads to the SHUTDOWN state, unless DSME has exited.      *)
LatchLeadsToShutdown ==
    ("overheat" \in st.timers \/ st.device_overheated \/ st.battery_empty)
        ~> (st.current_state = "SHUTDOWN" \/ ~Running)

(* Once DSME is in SHUTDOWN or REBOOT, the init module is eventually told  *)
(* to shut down by the SHUTDOWN message of the delayed shutdown timer.     *)
GoingDownReachesInit ==
    st.current_state \in Down ~> (SendsShutdown(st) \/ ~Running)

(* While the charger disconnect grace timer runs in ACTDEAD, the charger   *)
(* does not shut the device down: it stays in ACTDEAD unless it            *)
(* overheated, its battery ran empty or a reboot or powerup moved it on.  *)
ChargerGraceHonoured ==
    [][/\ st.current_state = "ACTDEAD"
       /\ "charger_disconnect" \in st.timers \cap st'.timers
       /\ st'.current_state = "SHUTDOWN"
       => st'.device_overheated \/ st'.battery_empty]_st

(* When the policy selects SHUTDOWN, DSME gets there: the handler that     *)
(* changed the inputs, or a timer callback it armed, runs                  *)
(* change_state_if_necessary(), unless an emergency call or a shutdown     *)
(* block holds the state.                                                  *)
WantedShutdownHappens ==
    (Running /\ select_state(st) = "SHUTDOWN" /\ st.current_state # "SHUTDOWN")
        ~> (st.current_state \in Down \/ st.emergency_call_ongoing
            \/ st.shutdown_blocked \/ ~Running)

(* When a USER -> ACTDEAD request in the indirect build takes DSME down   *)
(* to REBOOT, /run/systemd/reboot-param holds a whole config line:         *)
(* need_to_use_reboot() never routes a reboot through a failed or partial  *)
(* copy of the param, whether or not the unlink() of its failure path      *)
(* works.  (A shutdown may leave a line behind, written earlier by this    *)
(* process or by a malf child; shutdown does not read it.)                 *)
ParamMatchesRoute ==
    [][/\ st.current_state = "USER"
       /\ st'.current_state = "REBOOT"
       /\ select_state(st') = "ACTDEAD"
       => st'.reboot_param \in ChargerTags]_st

(* DSME survives start-up whatever BOOTSTATE the bootloader passes. *)
StartupNeverCrashes == st.exit_code # "crash"

(* The refinement mapping: the state DSME announces is the device state,   *)
(* the CHANGE_RUNLEVEL and SHUTDOWN messages of a step are its commands to *)
(* init, and the main loop running is the daemon running.                  *)
Lifecycle == INSTANCE DeviceLifecycle
    WITH BootStates <- {"USER", "ACTDEAD", "TEST", "SHUTDOWN", "REBOOT"},
         UpStates   <- {"USER", "ACTDEAD"},
         DownStates <- Down,
         Runlevel   <- state2runlevel,
         state      <- st.current_state,
         last       <- SelectSeq(st.out, InitCommand),
         running    <- Running

(* DSME implements the device lifecycle: nothing brings it back up from    *)
(* SHUTDOWN or REBOOT, a delayed actdead or user timer asks init for a     *)
(* runlevel only while DSME is up and in that state, and the delayed       *)
(* shutdown timer asks init to shut down only while DSME is going down.    *)
LifecycleRefined == Lifecycle!Spec

=============================================================================
