------------------------------ MODULE MC_DsmeTool ------------------------------
(* Command lines of up to three options, covering every option kind, with *)
(* and without excess arguments, and one unprompted broadcast.             *)
EXTENDS DsmeTool

MCOptLists ==
    { <<"get_state">>, <<"request", "version">>, <<"verbose", "request">>,
      <<"request", "bad_arg">>, <<"rtc", "request">>, <<"dbus", "get_state">>,
      <<"block", "help", "request">>, <<"request", "unknown">>, <<>> }

MCArgs == [opts : MCOptLists, excess : BOOLEAN]
==============================================================================
