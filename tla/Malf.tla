--------------------------------- MODULE Malf ---------------------------------
(***************************************************************************)
(* The malfunction module, src/modules/malf.c.                             *)
(*                                                                         *)
(* Its one handler, ENTER_MALF, forks and runs /usr/sbin/enter_malf,       *)
(* waiting for it; if that fails it broadcasts SHUTDOWN to the init module *)
(* itself.  enter_malf() has four outcomes:                                *)
(*   fork_fails    fork() < 0: dsme_main_loop_quit(EXIT_FAILURE), false;   *)
(*   exec_fails    execv() returns in the child, which returns false from  *)
(*                 enter_malf() and so goes on running DSME's main loop,   *)
(*                 while the parent sits in wait() for it;                 *)
(*   tool_fails    the tool exits non-zero (or wait() fails): false;       *)
(*   tool_ok       the tool exits 0: true.                                 *)
(*                                                                         *)
(* daemon is the state of the DSME process whose main loop dispatches: a   *)
(* record with at least exit_code and out (what it broadcast in the step); *)
(* others is the rest of that process's state.  parent is <<>> or the one  *)
(* process blocked in wait(), with the state it had when it forked.        *)
(* OnDisk names the fields of daemon that stand for files rather than      *)
(* process memory: the fork does not copy them, so the parent sees what    *)
(* the child left there.                                                   *)
(***************************************************************************)
EXTENDS Sequences

CONSTANT OnDisk

VARIABLES daemon, others, malf_pending, parent

MalfOutcomes == {"fork_fails", "exec_fails", "tool_fails", "tool_ok"}

(* DSM_MSGTYPE_SHUTDOWN with runlevel DSME_RUNLEVEL_SHUTDOWN (0). *)
ForcedShutdown == [type |-> "SHUTDOWN", arg |-> 0]

MalfTypeOK ==
    /\ malf_pending \in Seq({"HARDWARE", "SOFTWARE"})
    /\ Len(parent) \in {0, 1}

Loop == daemon.exit_code = "running"

(* What the handler's process does after enter_malf() returned ok. *)
after_enter_malf(d, ok) ==
    IF ok THEN d
    ELSE [d EXCEPT !.out = Append(d.out, ForcedShutdown)]

(* The result of enter_malf() in the process that returns from it. *)
enter_malf(outcome) == outcome = "tool_ok"

(* The ENTER_MALF handler, dispatched from the head of the queue. *)
handle_ENTER_MALF(outcome) ==
    /\ Loop
    /\ malf_pending # <<>>
    /\ malf_pending' = Tail(malf_pending)
    /\ LET d == [daemon EXCEPT !.out = <<>>]
           quitting == IF outcome = "fork_fails"
                       THEN [d EXCEPT !.exit_code = "failure"] ELSE d
       IN  /\ daemon' = after_enter_malf(quitting, enter_malf(outcome))
           /\ parent' = IF outcome = "exec_fails"
                        THEN <<[daemon |-> d, others |-> others]>>
                        ELSE parent

(* The child's main loop has quit, so wait() returns its pid with exit     *)
(* status EXIT_FAILURE: the parent's enter_malf() returns false, it        *)
(* broadcasts SHUTDOWN and goes back to its own main loop, with the state  *)
(* it had at the fork; the files the child wrote stay as it left them.     *)
ParentResumes ==
    /\ parent # <<>>
    /\ ~Loop
    /\ LET d == after_enter_malf(Head(parent).daemon, FALSE)
       IN  daemon' = [f \in DOMAIN d |-> IF f \in OnDisk THEN daemon[f] ELSE d[f]]
    /\ parent' = <<>>
    /\ UNCHANGED malf_pending

==============================================================================
