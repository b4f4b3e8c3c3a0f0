------------------------------ MODULE DsmeUtility ------------------------------
(***************************************************************************)
(* The client privilege check of src/dsme/utility.c.                       *)
(*                                                                         *)
(* dsme_process_is_privileged() stats /proc/PID, whose owner is the        *)
(* process's effective uid and gid, and hands them to                       *)
(* dsme_user_is_privileged().  That one looks at the user and group        *)
(* databases: with DSME_USEWHEEL, membership of "wheel" in the group list  *)
(* of the uid's passwd entry; then uid or gid 0, or the uid or gid of the  *)
(* passwd entry named "privileged".                                        *)
(*                                                                         *)
(* The databases are constants: Passwd holds [name, uid, gid] entries and  *)
(* GroupDb [name, gid, mem] entries, mem being the user names of the       *)
(* group's supplementary members.  A process is [euid, egid], or Gone      *)
(* when stat() of its /proc directory fails.  caller and verdict record    *)
(* the last process checked (NoCaller before any) and the answer.         *)
(***************************************************************************)
EXTENDS Integers

CONSTANTS Passwd, GroupDb, UseWheel, Procs, Gone, NoCaller

VARIABLES caller, verdict

ASSUME UseWheel \in BOOLEAN

UtilityTypeOK ==
    /\ caller \in Procs \cup {Gone, NoCaller}
    /\ verdict \in BOOLEAN

(* The C library lookups, as the sets of matching entries (empty: NULL). *)
getpwuid(uid)  == {pw \in Passwd : pw.uid = uid}
getpwnam(name) == {pw \in Passwd : pw.name = name}
getgrgid(gid)  == {gr \in GroupDb : gr.gid = gid}

(* getgrouplist(): the primary gid and the groups listing the user. *)
getgrouplist(pw) ==
    {pw.gid} \cup {gr.gid : gr \in {g \in GroupDb : pw.name \in g.mem}}

(* The DSME_USEWHEEL block: some group of the uid's list is "wheel". *)
in_wheel(uid) ==
    \E pw \in getpwuid(uid) :
        \E g \in getgrouplist(pw) : \E gr \in getgrgid(g) : gr.name = "wheel"

dsme_user_is_privileged(uid, gid) ==
    \/ UseWheel /\ in_wheel(uid)
    \/ uid = 0
    \/ gid = 0
    \/ \E pw \in getpwnam("privileged") : uid = pw.uid \/ gid = pw.gid

dsme_process_is_privileged(proc) ==
    proc # Gone /\ dsme_user_is_privileged(proc.euid, proc.egid)

UtilityInit == caller = NoCaller /\ verdict = FALSE

(* A client request arrives and its sender's process is checked. *)
CheckProcess(proc) ==
    /\ caller' = proc
    /\ verdict' = dsme_process_is_privileged(proc)

UtilityNext == \E proc \in Procs \cup {Gone} : CheckProcess(proc)

UtilitySpec == UtilityInit /\ [][UtilityNext]_<<caller, verdict>>

-----------------------------------------------------------------------------
(* The privileged groups of the request surface: "privileged", and         *)
(* "wheel" in a DSME_USEWHEEL build.                                       *)
PrivilegedGroups == {"privileged"} \cup (IF UseWheel THEN {"wheel"} ELSE {})

(* Root, or a member of a privileged group, through the effective gid of  *)
(* the process or the user's primary or supplementary groups.             *)
SpecPrivileged(proc) ==
    /\ proc # Gone
    /\ \/ proc.euid = 0
       \/ \E gr \in GroupDb :
            /\ gr.name \in PrivilegedGroups
            /\ \/ proc.egid = gr.gid
               \/ \E pw \in getpwuid(proc.euid) : gr.gid \in getgrouplist(pw)

(* A TELINIT, SHUTDOWN_REQ, REBOOT_REQ or POWERUP_REQ sender passes the    *)
(* privilege check of dsme_process_is_privileged() exactly when it is     *)
(* root or a member of a configured privileged group.                      *)
PrivilegeAsSpecified ==
    caller # NoCaller => (verdict <=> SpecPrivileged(caller))

==============================================================================
