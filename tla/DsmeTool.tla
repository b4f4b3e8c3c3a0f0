------------------------------- MODULE DsmeTool -------------------------------
(***************************************************************************)
(* dsmetool, src/util/dsmetool.c, and the DSME socket it talks over.      *)
(*                                                                         *)
(* main() handles the options in order (getopt_long moves positional       *)
(* arguments behind them), then complains about excess arguments, and on   *)
(* both DONE and EXIT calls dsmeipc_disconnect(), which does one more      *)
(* GET_VERSION round trip before it closes the socket.  exit() inside a    *)
(* helper ends the process at once, without that round trip.               *)
(*                                                                         *)
(* An option is one of a few kinds, by what main() does with it:           *)
(*   request    -d -s -b -u -o -i -e -L, and -t -l with a valid argument:  *)
(*              dsmeipc_send() of one message, no answer awaited;          *)
(*   bad_arg    -t -l with an argument parse_* rejects: exit(EXIT_FAILURE);*)
(*   version    -v: GET_VERSION, then wait for DSME_VERSION;               *)
(*   get_state  -g: STATE_QUERY, then wait for STATE_CHANGE_IND;           *)
(*   rtc        -c: rtc_clear_alarm(), on failure goto EXIT;               *)
(*   dbus       --block-shutdown / --allow-shutdown over the system bus;   *)
(*   help       -h: usage, goto DONE;  unknown  '?': goto EXIT;            *)
(*   verbose, block   -V and -B: nothing the model tells apart.            *)
(*                                                                         *)
(* Time is one bit: late, the 5 s deadline of the current wait has passed. *)
(* DSME is the environment: it handles what the socket brings in order,    *)
(* answers, broadcasts to every client, or exits; it may also stall.       *)
(***************************************************************************)
EXTENDS Sequences, Naturals

CONSTANTS
    Args,       \* the possible command lines: [opts : Seq(kind), excess : BOOLEAN]
    MaxExtra    \* bound on broadcasts DSME sends the tool unprompted

VARIABLES
    opts,       \* the options main() has still to handle
    excess,     \* positional arguments left over (optind < argc)
    pc,         \* "options", "query" (a -v/-g wait), "closing" (the
                \* dsmeipc_disconnect() wait) or "exited"
    retval,     \* main()'s retval
    status,     \* the process's exit status, once exited
    conn,       \* dsmeipc_conn is open
    awaiting,   \* the answer the current wait loop breaks on
    blocked,    \* inside a poll() that only input ends
    late,       \* the wait's deadline has passed
    to_dsme,    \* messages on the socket towards DSME
    to_tool,    \* messages (and "EOF") on the socket towards dsmetool
    dsme_up,    \* DSME runs
    extra       \* unprompted broadcasts sent so far

vars == <<opts, excess, pc, retval, status, conn, awaiting, blocked, late,
          to_dsme, to_tool, dsme_up, extra>>

OptionKinds == {"request", "bad_arg", "version", "get_state", "rtc", "dbus",
                "help", "unknown", "verbose", "block"}
ToDsme  == {"REQUEST", "GET_VERSION", "STATE_QUERY"}
ToTool  == {"DSME_VERSION", "STATE_CHANGE_IND", "SAVE_DATA_IND",
            "STATE_REQ_DENIED_IND", "EOF"}
Waits   == {"query", "closing"}

ASSUME Args \subseteq [opts : Seq(OptionKinds), excess : BOOLEAN]

ToolTypeOK ==
    /\ pc \in {"options"} \cup Waits \cup {"exited"}
    /\ {retval, status} \subseteq {"EXIT_SUCCESS", "EXIT_FAILURE", "none"}
    /\ {conn, blocked, late, excess, dsme_up} \subseteq BOOLEAN
    /\ awaiting \in ToTool \cup {"none"}
    /\ to_dsme \in Seq(ToDsme) /\ to_tool \in Seq(ToTool)
    /\ extra \in 0..MaxExtra

ToolInit ==
    /\ \E a \in Args : opts = a.opts /\ excess = a.excess
    /\ pc = "options"
    /\ retval = "EXIT_FAILURE"
    /\ status = "none"
    /\ conn = FALSE /\ awaiting = "none" /\ blocked = FALSE /\ late = FALSE
    /\ to_dsme = <<>> /\ to_tool = <<>>
    /\ dsme_up \in BOOLEAN
    /\ extra = 0

-----------------------------------------------------------------------------
(* The client *)

(* exit(): the process ends and the kernel closes its socket. *)
exit(code) ==
    /\ pc' = "exited" /\ status' = code /\ conn' = FALSE /\ blocked' = FALSE
    /\ UNCHANGED <<awaiting, late, to_dsme>>

(* dsmeipc_send(): dsmeipc_connect() if not yet connected, then            *)
(* dsmesock_send_with_extra(); either failing is exit(EXIT_FAILURE).  The  *)
(* caller then waits for reply (or "none") in wait loop next.              *)
dsmeipc_send(msg, next, reply) ==
    IF ~dsme_up THEN exit("EXIT_FAILURE")
    ELSE /\ conn' = TRUE
         /\ to_dsme' = Append(to_dsme, msg)
         /\ pc' = next
         /\ awaiting' = reply
         /\ late' = FALSE
         /\ UNCHANGED <<status, blocked>>

(* xdsme_request_*(): one message, no answer awaited. *)
xdsme_request(msg) == dsmeipc_send(msg, "options", "none")

(* xdsme_query_version(FALSE), xdsme_query_runlevel(): send, then loop on  *)
(* dsmeipc_wait() until the answer of the given type is read.              *)
xdsme_query(msg, reply) == dsmeipc_send(msg, "query", reply)

(* DONE or EXIT: retval, then dsmeipc_disconnect(), which sends            *)
(* GET_VERSION (xdsme_query_version(TRUE)) and waits before it closes.     *)
leave(code) ==
    IF conn
    THEN /\ dsmeipc_send("GET_VERSION", "closing", "DSME_VERSION")
         /\ retval' = code
    ELSE /\ pc' = "exited" /\ status' = code /\ retval' = code
         /\ UNCHANGED <<conn, awaiting, blocked, late, to_dsme>>

(* One pass of main()'s getopt loop. *)
HandleOption ==
    /\ pc = "options"
    /\ opts # <<>>
    /\ opts' = Tail(opts)
    /\ LET o == Head(opts) IN
       \/ o = "request"   /\ xdsme_request("REQUEST") /\ UNCHANGED retval
       \/ o = "version"   /\ xdsme_query("GET_VERSION", "DSME_VERSION")
                          /\ UNCHANGED retval
       \/ o = "get_state" /\ xdsme_query("STATE_QUERY", "STATE_CHANGE_IND")
                          /\ UNCHANGED retval
       \/ o = "bad_arg" /\ exit("EXIT_FAILURE") /\ UNCHANGED retval
       \/ o \in {"rtc", "dbus"} /\ UNCHANGED <<pc, retval, status, conn, awaiting, blocked, late, to_dsme>>
       \/ o = "rtc"  /\ leave("EXIT_FAILURE")
       \/ o = "dbus" /\ exit("EXIT_FAILURE") /\ UNCHANGED retval
       \/ o = "help"    /\ leave("EXIT_SUCCESS")
       \/ o = "unknown" /\ leave("EXIT_FAILURE")
       \/ o \in {"verbose", "block"}
             /\ UNCHANGED <<pc, retval, status, conn, awaiting, blocked, late, to_dsme>>
    /\ UNCHANGED <<excess, to_tool, dsme_up, extra>>

(* getopt_long() returned -1: excess arguments go to EXIT, else DONE. *)
EndOfOptions ==
    /\ pc = "options"
    /\ opts = <<>>
    /\ leave(IF excess THEN "EXIT_FAILURE" ELSE "EXIT_SUCCESS")
    /\ UNCHANGED <<opts, excess, to_tool, dsme_up, extra>>

(* The wait loop has its answer, or dsmeipc_wait() returned false: a query *)
(* goes back to the options; dsmeipc_disconnect() closes the socket.       *)
wait_done ==
    IF pc = "query"
    THEN pc' = "options" /\ UNCHANGED <<status, conn>>
    ELSE pc' = "exited" /\ status' = retval /\ conn' = FALSE

(* dsmeipc_wait() with nothing to read.  The first call of a wait sets the *)
(* deadline 5 s ahead; poll() is then given now - deadline, a negative     *)
(* timeout, and blocks until input.  Past the deadline it is given 0 and   *)
(* returns at once: the loop ends.                                         *)
dsmeipc_wait ==
    /\ pc \in Waits
    /\ ~blocked
    /\ to_tool = <<>>
    /\ IF late
       THEN /\ wait_done
            /\ UNCHANGED <<blocked, awaiting>>
       ELSE /\ blocked' = TRUE
            /\ UNCHANGED <<pc, status, conn, awaiting>>
    /\ UNCHANGED <<opts, excess, retval, late, to_dsme, to_tool, dsme_up, extra>>

(* poll() reported input and dsmeipc_read() takes one message: EOF is      *)
(* exit(EXIT_FAILURE); the awaited answer ends the loop; anything else is  *)
(* freed and the loop goes on.                                             *)
dsmeipc_read ==
    /\ pc \in Waits
    /\ to_tool # <<>>
    /\ to_tool' = Tail(to_tool)
    /\ \/ /\ Head(to_tool) = "EOF"
          /\ exit("EXIT_FAILURE")
          /\ UNCHANGED retval
       \/ /\ Head(to_tool) = awaiting
          /\ wait_done
          /\ blocked' = FALSE
          /\ UNCHANGED <<retval, awaiting, late, to_dsme>>
       \/ /\ Head(to_tool) \notin {"EOF", awaiting}
          /\ blocked' = FALSE
          /\ UNCHANGED <<pc, retval, status, conn, awaiting, late, to_dsme>>
    /\ UNCHANGED <<opts, excess, dsme_up, extra>>

(* The deadline passes while the tool sits in poll(). *)
Tick ==
    /\ blocked /\ ~late
    /\ late' = TRUE
    /\ UNCHANGED <<opts, excess, pc, retval, status, conn, awaiting, blocked,
                   to_dsme, to_tool, dsme_up, extra>>

ToolStep == HandleOption \/ EndOfOptions \/ dsmeipc_wait \/ dsmeipc_read

-----------------------------------------------------------------------------
(* DSME's side of the socket *)

(* DSME's answers: DSME_VERSION to GET_VERSION, STATE_CHANGE_IND to        *)
(* STATE_QUERY (state.c), and for a request nothing, a denial, or the      *)
(* SAVE_DATA_IND and STATE_CHANGE_IND that modules_broadcast() sends every *)
(* client when the request changes the state.                              *)
Answers(m) ==
    CASE m = "GET_VERSION" -> {<<"DSME_VERSION">>}
      [] m = "STATE_QUERY" -> {<<"STATE_CHANGE_IND">>}
      [] OTHER -> {<<>>, <<"STATE_REQ_DENIED_IND">>,
                   <<"SAVE_DATA_IND", "STATE_CHANGE_IND">>}

(* DSME handles the oldest message; answers to a closed socket are lost. *)
DsmeServe ==
    /\ dsme_up
    /\ to_dsme # <<>>
    /\ to_dsme' = Tail(to_dsme)
    /\ \E a \in Answers(Head(to_dsme)) :
          to_tool' = IF conn THEN to_tool \o a ELSE to_tool
    /\ UNCHANGED <<opts, excess, pc, retval, status, conn, awaiting, blocked,
                   late, dsme_up, extra>>

(* A broadcast caused by some other event reaches the tool. *)
DsmeBroadcast ==
    /\ dsme_up /\ conn
    /\ extra < MaxExtra
    /\ extra' = extra + 1
    /\ \E m \in {"SAVE_DATA_IND", "STATE_CHANGE_IND"} :
          to_tool' = Append(to_tool, m)
    /\ UNCHANGED <<opts, excess, pc, retval, status, conn, awaiting, blocked,
                   late, to_dsme, dsme_up>>

(* DSME exits: the tool reads EOF; what it had not read is lost. *)
DsmeExits ==
    /\ dsme_up
    /\ dsme_up' = FALSE
    /\ to_dsme' = <<>>
    /\ to_tool' = IF conn THEN Append(to_tool, "EOF") ELSE to_tool
    /\ UNCHANGED <<opts, excess, pc, retval, status, conn, awaiting, blocked,
                   late, extra>>

DsmeStep == DsmeServe \/ DsmeBroadcast \/ DsmeExits

ToolNext == ToolStep \/ Tick \/ DsmeStep

(* The tool runs and time passes; DSME may stall (busy, or blocked in     *)
(* malf's wait()), so nothing is assumed of it.                           *)
ToolSpec == ToolInit /\ [][ToolNext]_vars /\ WF_vars(ToolStep) /\ WF_vars(Tick)

-----------------------------------------------------------------------------
(* dsmetool ends: dsmeipc_wait() computes a deadline 5 s after the first   *)
(* call and, by its comment, waits for input only while the deadline is in *)
(* the future, so a DSME that never answers costs a query at most that.    *)
ToolTerminates == <>(pc = "exited")

==============================================================================
