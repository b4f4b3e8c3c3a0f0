# TLA+ models of DSME

DSME, the Device State Management Entity, decides whether a Sailfish OS device
runs in USER mode, in ACTDEAD (charging with the UI off), or goes to SHUTDOWN or
REBOOT. It also tells the init system which runlevel to enter. These modules model
the state policy of `src/modules/state.c` and the start-up parsing it does, the
emergency call tracker and the malfunction module that feed it, and an abstract
lifecycle specification that the state module is shown to implement. TLC checks them
under interleavings of every event the modules handle.

## 1. Inventory of the system

### Parts and how they interact

| Part | Source | Role |
|---|---|---|
| State policy and transition controller | `src/modules/state.c` | Keeps the *state bits*, the inputs the policy reads: charger, alarm, overheat, emergency call, shutdown block, USB mass storage, empty battery, the shutdown/actdead/reboot/test requests and the battery level. From them `select_state()` picks a state. `try_to_change_state()` moves there, broadcasting `SAVE_DATA_IND` and `STATE_CHANGE_IND` to the other modules. Through delayed timers it sends `CHANGE_RUNLEVEL` or `SHUTDOWN` to the init module. |
| Runlevels | `src/modules/runlevel.h` | The runlevel numbers sent to init. |
| Timer service | `src/include/dsme/timers.h` | `dsme_create_timer_seconds()`: a one-shot callback on the main loop. Creation may fail and return 0. |
| Emergency call tracker | `src/modules/emergencycalltracker.c` | Turns MCE `sig_call_state_ind` D-Bus signals into `SET_EMERGENCY_CALL_STATE` messages to the state module. |
| Malfunction handler | `src/modules/malf.c` | Handles `ENTER_MALF`, which state.c broadcasts at start-up for a malformed boot. |
| Utilities | `src/dsme/utility.c` | Privilege checks of a uid/gid or a pid, the LUKS probe of `/home` (`dsme_home_is_encrypted()`), pid-to-text. |
| dsmetool | `src/util/dsmetool.c` | Command line client. It sends requests and queries over the DSME socket, waits for answers in `dsmeipc_wait()`, and on exit does a `GET_VERSION` round trip (`dsmeipc_disconnect()`) so that DSME checks the socket's permissions before it closes. |
| D-Bus proxy interface | `src/modules/dbusproxy.h` | Declarations. dbusproxy sends `BLOCK_SHUTDOWN`/`ALLOW_SHUTDOWN` on behalf of D-Bus clients. |

All DSME modules run on one GLib main loop. A message handler, a timer callback
and a D-Bus signal callback each run to completion. Messages between modules are
queued (`modules_broadcast_internally`) and handled later. So the concurrency that
matters is the *order* of events, not preemption: a timer can fire between any
two messages, and a D-Bus signal can arrive before or after a timer.

### State of state.c

- `charger_state` ∈ {UNKNOWN, CONNECTED, DISCONNECTED}.
- Eleven boolean bits: `alarm_pending`, `device_overheated`, `emergency_call_ongoing`, `shutdown_blocked`, `mounted_to_pc`, `battery_empty`, `shutdown_requested`, `actdead_requested`, `reboot_requested`, `testmode_requested`, `dbus_signals_bound`.
- The switch-done flags `actdead_switch_done` and `user_switch_done` (direct build only).
- `dsme_battery_level`, which is -1 until the first report.
- `current_state`.
- Six timer handles:
  - `overheat`, `charger_disconnect` and `battery_empty` delay setting a state bit;
  - `shutdown`, `actdead` and `user` give other programs time before init is told to act.
- `/run/systemd/reboot-param`, written by `need_to_use_reboot()`.

### Operations of state.c

- Start-up, `module_init`: parses `BOOTSTATE` (`DSME_SKIP_PREFIX`, `parse_malf_info`), may broadcast `ENTER_MALF`, then runs the policy.
- Message handlers:
  - `SET_CHARGER_STATE`, `SET_USB_STATE`;
  - `TELINIT` (by runlevel name), plus `SHUTDOWN_REQ`, `REBOOT_REQ` and `POWERUP_REQ`;
  - `SET_ALARM_STATE`, `SET_THERMAL_STATUS`, `SET_EMERGENCY_CALL_STATE`;
  - `SET_BATTERY_LEVEL`, `SET_BATTERY_STATE`;
  - `STATE_QUERY`;
  - `DBUS_CONNECTED`, `DBUS_DISCONNECT`;
  - `BLOCK_SHUTDOWN`, `ALLOW_SHUTDOWN`.
- D-Bus signal: `runlevel_switch_done`.
- Timer callbacks: `delayed_shutdown_fn`, `delayed_actdead_fn`, `delayed_user_fn`, `delayed_overheat_fn`, `delayed_charger_disconnect_fn`, `delayed_battery_empty_fn`.

### Hard behaviours

- Timers racing messages. An emergency call cancels pending shutdown timers. A repeated charger report restarts the grace timer. A `runlevel_switch_done` signal fires a pending timer early.
- Timer creation that fails. For the three delayed-bit timers the callback then runs inline. For the other three DSME exits.
- Two builds:
  - the default one, where USER↔ACTDEAD goes through REBOOT/SHUTDOWN;
  - `DSME_SUPPORT_DIRECT_USER_ACTDEAD`, where DSME changes runlevel directly after a delay.
- Malformed `BOOTSTATE` text handed to C string functions.
- File I/O that may fail part-way (`need_to_use_reboot`).

## 2. Modules

| Module | Models |
|---|---|
| `DsmeBootstate` | `DSME_SKIP_PREFIX` and `parse_malf_info()` as operators on token sequences. A C string is a sequence of bootloader keywords, the space `SP` and opaque words. Prefix matching, including `"USERx"`, and `strtok_r` splitting keep their meaning. |
| `DsmeState` | All of state.c. One record variable `st` holds every static variable, the armed timers, the exit status of the main loop and `out`, the messages the last step broadcast. Each C function that changes state is an operator from record to record, named after the function. Each handler is one action that composes them in the code's order: the trailing `change_state_if_necessary()` is always part of the action. |
| `MC_DsmeState` | Small `BOOTSTATE` sets and battery levels for TLC. |
| `DeviceLifecycle` | The abstract specification: what init sees of the device. Variables are the state, the commands of the last step, and whether the loop runs. USER/ACTDEAD may switch; runlevel commands only for the state the device is in; going down to SHUTDOWN/REBOOT from anywhere; once down, never up again; SHUTDOWN commands only once down. `DsmeState` defines `Lifecycle == INSTANCE DeviceLifecycle WITH ...`. It maps `current_state`, the `CHANGE_RUNLEVEL`/`SHUTDOWN` messages of `st.out`, `state2runlevel` and `Running` onto it, and checks `LifecycleRefined == Lifecycle!Spec`. |
| `EmergencyCallTracker` | emergencycalltracker.c: the statics `emergency_call_started` and `dbus_signals_bound`, and `pending`, its `SET_EMERGENCY_CALL_STATE` messages on DSME's internal queue (FIFO). `mce_call_state_ind`, `send_emergency_call_status` and the two D-Bus handlers are operators named after the code. |
| `Malf` | malf.c: the `ENTER_MALF` handler and the four outcomes of `enter_malf()`. With `fork_fails` the loop quits. With `exec_fails` the child returns into DSME's loop and the parent blocks in `wait()`; `parent` keeps the parent's state as of the fork. `tool_fails` broadcasts `SHUTDOWN(0)`; `tool_ok` does nothing. `ParentResumes` is `wait()` returning after the child's loop quit. The parent gets back its memory as of the fork, but the fields named in `OnDisk` stand for files, so they keep what the child wrote. In `DsmeSystem` that is `reboot_param`, the file `/run/systemd/reboot-param`. |
| `DsmeSystem` | Composes the three: `st` is the state of the process whose main loop runs. MCE publishes a call state (`mce`), which the tracker sees only once bound and while the loop runs. `DeliverCallState` hands the head of `pending` to the state module's handler. `DBUS_CONNECTED`/`DBUS_DISCONNECT` reach both modules in one dispatch. `ENTER_MALF` from `module_init()` is handled before any other event. Every other event is a step of `DsmeState`. |
| `MC_DsmeSystem` | Three MCE call states: none, an ordinary call, an emergency call. |
| `DsmeUtility` | The privilege check of utility.c. `dsme_user_is_privileged(uid, gid)` and `dsme_process_is_privileged(proc)` are operators over constant `Passwd` and `GroupDb` databases, with `getpwuid`, `getpwnam`, `getgrgid` and `getgrouplist` as set lookups. A process is its `/proc` owner `[euid, egid]`, or `Gone` when `stat()` fails. The action `CheckProcess` records the verdict for one sender. `SpecPrivileged` is the rule of spec.md §4.5, the reference the verdict is compared with. |
| `DsmeTool` | dsmetool.c's `main()` against a DSME that answers, broadcasts, stalls or exits. `opts` is the rest of the command line as option kinds; `pc` is where the client is (option loop, query wait, disconnect wait, exited). Each branch of the getopt loop is a disjunct of `HandleOption`; `xdsme_request`, `xdsme_query`, `dsmeipc_send`, `dsmeipc_wait`, `dsmeipc_read`, `leave` (DONE/EXIT with `dsmeipc_disconnect()`) and `exit` are named after the code. `blocked` is the client sitting in `poll()`, `late` that its deadline has passed (`Tick`). `to_dsme`/`to_tool` are the socket's two directions, FIFO; `Answers` is what DSME sends back to each message. |
| `MC_DsmeTool` | Nine command lines (a request, a query, `--version`, a bad argument, `--help`, an unknown option, RTC and D-Bus options, none), each with or without excess arguments; at most one unrelated broadcast. |
| `MC_DsmeUtility` | root, the `privileged` user, nemo (a supplementary member of the `privileged` group) and dev (a supplementary member of `wheel`); processes with every uid 0..3 and gid 0..4. |

How the model corresponds to the code:

- **Timers.** A timer is a member of `st.timers`. `TimerFires(t, env)` is the timer service calling an armed timer's callback at any later step, since time is abstract. A failed `dsme_create_timer_seconds()` is `t \in env.fails`. `Envs` also chooses how the reboot-param copy goes (`ParamIo`: it succeeds, fails before the output is truncated, or fails in or after the write; and whether the `unlink()` of the failure path works). `ParamWritten` and `RebootParamFile` give what `/run/systemd/reboot-param` holds afterwards: a charger tag, "partial" or nothing.
- **Exit and crash.** `dsme_main_loop_quit(EXIT_FAILURE)` sets `exit_code` to "failure", and no further event is dispatched. Undefined behaviour in `enter_malf()` is "crash".
- **Inputs.** The privileged/unprivileged sender of a request is an input.
- **Constants.**
  - `DirectMode` selects the build.
  - `HomeEncrypted` is the cached LUKS probe.
  - `RebootParamConfigs` is the set of charger tags that have a config file under `/etc/dsme`.
  - `Inputs` limits each run to the event kinds its question needs, which keeps the state space within TLC's reach.

## 3. Runs

| Run | cfg | Expect | What it shows |
|---|---|---|---|
| indirect | `MC_DsmeState.cfg` | pass | Default build; charger, USB, telinit, alarm, thermal, emergency call, battery level/state and shutdown block interleaved. Checks `TypeOK`, `EmergencyCallFreezesState` (no state change and no init command during a call), `ShutdownBlockHonoured` (while D-Bus clients block, only overheat or empty battery takes DSME down), `BlockedRequestsForgotten` (the `ALLOW_SHUTDOWN` that lifts a block in USER takes DSME down only for overheat, an empty battery or an ACTDEAD request, never for a shutdown or reboot request the block held off) and `PowerupNeedsBattery` (ACTDEAD→USER/REBOOT needs level ≥ 3, and the unknown level -1 does not count). About 486k states, 2 min. |
| direct | `MC_DsmeState_direct.cfg` | pass | Direct build with the shutdown, actdead, user and charger-disconnect timers allowed to fail, and the `runlevel_switch_done` signal, which fires a pending delayed timer early. `EmergencyCallFreezesState` in this build. `LifecycleRefined`: the direct build implements `DeviceLifecycle`. Its runlevel commands need the state unchanged and name the runlevel of that state, so a delayed actdead or user timer that fired after the state moved on breaks it. The latch_live run checks the default build. About 13k states, 45 s. |
| latch_live | `MC_DsmeState_live.cfg` | pass | `LatchLeadsToShutdown`: an armed overheat timer, an overheated device or an empty battery leads to SHUTDOWN, through shutdown blocks, chargers, telinit and calls. Timer creation may fail. |
| call_wedge | `MC_DsmeState_wedge.cfg` | violation | `GoingDownReachesInit`: boot to SHUTDOWN (the shutdown timer is armed), a call starts (timer cancelled), the call ends (state unchanged, nothing re-arms). DSME sits in SHUTDOWN forever without sending init `SHUTDOWN`. |
| charger_grace | `MC_DsmeState_grace.cfg` | violation | `ChargerGraceHonoured`: in ACTDEAD, a charger-disconnected report starts the grace timer, and a second one commits DISCONNECTED and restarts it. An alarm change then shuts down at once. |
| bootstate_crash | `MC_DsmeState_boot.cfg` | violation | `StartupNeverCrashes`: over every BOOTSTATE of up to three tokens, e.g. `MALF SOFTWARE`, `enter_malf()` receives a NULL component or reason. |
| system | `MC_DsmeSystem.cfg` | pass | Tracker and malf composed with the state module. `CallBitMatchesTracker`: once the queue is empty, the state module's call bit is the tracker's conclusion, so on/off reports apply in MCE's order. `CallEndReleasesState`: once MCE reports the call over, the freeze is eventually lifted. Covers every ENTER_MALF outcome, including a parent resuming after a child that failed to exec. `ParamMatchesRoute`: with the reboot-param copy failing in the read or in the write and its `unlink()` failing too, a USER→ACTDEAD request goes to REBOOT only when the file holds a whole config line, never through a truncated one. A shutdown may leave a line behind, for example one written by a malf child before the parent resumed; shutdown does not read the file, so the property does not forbid that. About 90k states, 1.5 min. |
| stale_policy | `MC_DsmeState_stale.cfg` | violation | `WantedShutdownHappens`. In ACTDEAD with the charger gone, a POWERUP refused for low battery re-asserts `shutdown_requested` inside `try_to_change_state()`. Nothing re-runs the policy, so DSME stays in ACTDEAD although `select_state()` says SHUTDOWN. |
| call_unseen | `MC_DsmeSystem_unseen.cfg` | violation | `EmergencyCallNoticed`. MCE already reports an emergency call when DSME starts. The tracker binds the signal later and never queries the state, so the call bit is never set. |
| privilege_rule | `MC_DsmeUtility.cfg` | violation | `PrivilegeAsSpecified` (spec.md §4.5: root, or a member of a configured privileged group). nemo, a supplementary member of the `privileged` group, sends a request from a process running as nemo:users and is refused. The code compares the uid and gid only with those of the *user* named `privileged`, and accepts any process whose gid is 0. |
| tool_hang | `MC_DsmeTool.cfg` | violation | `ToolTerminates`. `dsmetool --get-state` sends `STATE_QUERY` and DSME stalls (in the trace it is busy; blocked in malf's `wait()` is one real cause). `dsmeipc_wait()` passes `now - deadline`, a negative number, to `poll()`, which then blocks with no timeout; the 5 s deadline passes and nothing wakes the tool. The same happens in the `GET_VERSION` round trip every run makes when it exits. |
| malf_resume | `MC_DsmeSystem_resume.cfg` | violation | `QuitIsFinal`. `execv()` of enter_malf fails, and the child runs on as DSME. telinit SHUTDOWN fails to create its timer, so the child quits. The parent leaves `wait()`, broadcasts SHUTDOWN and resumes its main loop in USER. |

Every property of a passing run has a mutant in `PROJECT.json`: a plausible bug
in the definition it depends on, which TLC must catch. The mutants are:

- the call start that leaves the timers running;
- the shutdown block tested after the actdead request;
- the unknown battery level taken as enough;
- the overheat callback that does not re-run the policy;
- a `STATE_CHANGE_IND` filled in from the old state;
- an emergency call that stops only the shutdown timer, not the actdead/user ones;
- USER/ACTDEAD reachable from any state, SHUTDOWN and REBOOT included;
- the tracker's queue read newest first;
- a tracker that never records that it reported a call, so it never reports the end;
- `update_shutdown_blocked(false)` that keeps the requests received while blocked;
- `need_to_use_reboot()` without its `done != todo` test, so a short write counts as success.

### Bounds and why they are enough

- **BOOTSTATE.**
  - The passing runs use nine values: USER (with and without malf text), ACT_DEAD, SHUTDOWN, BOOT, TEST, plain MALF, a well-formed `MALF HARDWARE x x` and an unknown word.
  - Together they reach every branch of `set_initial_state_bits()` without undefined behaviour.
  - The crash run uses every sequence of up to three tokens over the keywords, `SP` and two words.
- **Battery levels** {2, 3} sit on both sides of `DSME_MINIMUM_BATTERY_TO_USER`, together with the initial -1.
- **Reboot-param configs.** Only the `with-charger` config exists. So `need_to_use_reboot` returns TRUE with a charger and FALSE without one, and I/O failure is a separate choice. Most runs use `MCParamIoPlain` (the copy succeeds or cannot read, `unlink()` works). The system run uses `MCParamIoFaults`: a read or a write failure, each with `unlink()` failing, the cases where something is left behind.
- **Time.** There are no counters: time is abstract, so the state space is finite without caps.
- **Internal queue.** `MaxPending = 2` tracker messages: two reports in flight is the least that lets an on/off pair be reordered or merged.
- **Users and groups.** Four users and five groups are the least that give each clause of `dsme_user_is_privileged()` a caller of its own: uid 0, gid 0, the `privileged` user's uid and gid, wheel through a supplementary group, and a supplementary member of `privileged`.
- **dsmetool.** Every option kind occurs in some command line, and the ones that wait for an answer are combined with one that does not. `MaxExtra = 1` unrelated broadcast: enough for the wait loop to read a message it does not await.
- **MCE call states.** none, an ordinary call and an emergency call. These reach all three branches of `mce_call_state_ind()`.

### Fairness

The timer service eventually calls back every armed timer, and the main loop
dispatches it: weak fairness on each `TimerFires(t, _)`. The liveness runs also
assume that an emergency call ends (`WF_st(CallEnds)`); this is an environment
assumption, not something the code ensures. Nothing is assumed about other
inputs: users, chargers and alarms may go quiet forever.

`DsmeSystem` adds weak fairness on four steps: delivering the head of the internal queue,
handling `ENTER_MALF`, `DBUS_CONNECTED` (the bus comes up eventually), and
`wait()` returning once the child has exited. MCE is not fair: it may keep any
call state forever.

`DsmeSystem` also assumes how the main loop, which is not in this
repository, orders events: the `ENTER_MALF` that `module_init()` queues is handled
before any timer or socket event (`MalfHandled`). The child's exit status is the
`EXIT_FAILURE` of its quitting main loop.

`DsmeTool` assumes weak fairness of the client's own steps and of time (`Tick`: a
deadline does pass). DSME gets none: it may stall, which is what a client
must survive.

## 4. Not modelled, and the plan

- `module_fini()`, `DSME_VIBRA_FEEDBACK` and logging are left out.
- The exact reboot-param text is abstracted to the charger tag that selects it.
- The tracker's `module_fini()` (unbinding at unload) is left out.
- The init module, dbusproxy and the main loop are not in this repository: their messages are inputs, and the main loop's order is the assumption above.
- In utility.c, `dsme_home_is_encrypted()` is the `HomeEncrypted` constant: its cached result. A transient probe failure only picks which value it is. Every run uses FALSE. `dsme_pid2text()`, `dsme_pid2exe()` and `dsme_state_repr()` produce text for log lines.
- `endpoint_is_privileged()`, which calls `dsme_process_is_privileged()`, is not in this repository. So the model cannot say when the sender's pid is taken, and the pid reuse hazard is listed without a property.
- In dsmetool, `rtc_clear_alarm()` (the RTC ioctls) and the D-Bus calls enter only as success or failure, argument parsing (`parse_runlevel()` and friends) as the `bad_arg` option kind, and output and usage text are left out. The server side of the socket is a stand-in: DSME's socket layer is not in this repository.
- dsmetool's exit round trip is meant to let DSME check a request's permissions before the socket closes. Once the wait is past its deadline, any broadcast read ends the wait, and the tool exits while its request is still queued. `DsmeTool` reaches these behaviours, but no property states the outcome: what DSME does with a request from a closed socket depends on the socket layer.
- `update_shutdown_blocked(false)` clears `shutdown_requested` whatever set it. In ACTDEAD that bit is the boot's shutdown request, which keeps the device in charging mode. So a D-Bus client that blocks and then allows shutdown while the device charges powers it up: ACTDEAD goes to REBOOT into USER once a battery level of 3 or more is known. TLC finds this path when `BlockedRequestsForgotten` also covers ACTDEAD. spec.md §4.2 describes the clearing as discarding the request that prompted the block. It does not say what happens to the request that holds ACTDEAD. So the checked property covers USER only, and this case is listed as a hazard.
- spec.md §3 calls SHUTDOWN and REBOOT terminal. In the code, a later request or an overheat moves REBOOT to SHUTDOWN and back. `DeviceLifecycle` allows moves between the two down states, and `LifecycleRefined` checks that the code stays within that.
- `dbusproxy.h` only declares; what dbusproxy sends (`BLOCK_SHUTDOWN`/`ALLOW_SHUTDOWN`) is an input of `DsmeState`.
