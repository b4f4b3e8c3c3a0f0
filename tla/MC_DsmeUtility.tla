----------------------------- MODULE MC_DsmeUtility -----------------------------
(* A small system: root, the "privileged" user, nemo (a supplementary      *)
(* member of the "privileged" group) and dev (a supplementary member of    *)
(* "wheel"), and processes running with any of their uids and gids.        *)
EXTENDS DsmeUtility

MCPasswd ==
    { [name |-> "root",       uid |-> 0, gid |-> 0],
      [name |-> "privileged", uid |-> 1, gid |-> 1],
      [name |-> "nemo",       uid |-> 2, gid |-> 2],
      [name |-> "dev",        uid |-> 3, gid |-> 3] }

MCGroupDb ==
    { [name |-> "root",       gid |-> 0, mem |-> {}],
      [name |-> "privileged", gid |-> 1, mem |-> {"nemo"}],
      [name |-> "users",      gid |-> 2, mem |-> {}],
      [name |-> "dev",        gid |-> 3, mem |-> {}],
      [name |-> "wheel",      gid |-> 4, mem |-> {"dev"}] }

MCProcs == [euid : 0..3, egid : 0..4]
==============================================================================
