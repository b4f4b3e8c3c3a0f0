---------------------------- MODULE MC_DsmeState ----------------------------
(* Model-checking instance of DsmeState: the boot states the bootloader    *)
(* reports in practice, both battery levels on either side of              *)
(* DSME_MINIMUM_BATTERY_TO_USER, and one reboot param config.              *)
EXTENDS DsmeState

MCBootstates ==
    { <<"USER">>,
      <<"USER", SP, "SOFTWARE", SP, "x">>,
      <<"ACT_DEAD">>,
      <<"SHUTDOWN">>,
      <<"BOOT">>,
      <<"TEST">>,
      <<"MALF">>,
      <<"MALF", SP, "HARDWARE", SP, "x", SP, "x">>,
      <<"x">> }

(* Every BOOTSTATE of up to three tokens: keywords, spaces and words. *)
MCAnyBootstates ==
    UNION {[1..n -> Keywords \cup {SP, "SOFTWARE", "x"}] : n \in 1..3}

MCBatteryLevels == {2, 3}

MCRebootParamConfigs == {"with-charger"}

(* The reboot-param copy succeeding or failing, with a working unlink(). *)
MCParamIoPlain == {[copy |-> "ok", unlink |-> TRUE],
                   [copy |-> "read_fails", unlink |-> TRUE]}

(* The copy succeeding, or failing in the read or the write with the      *)
(* unlink() of its failure path failing too.                                *)
MCParamIoFaults == {[copy |-> "ok", unlink |-> TRUE],
                    [copy |-> "read_fails", unlink |-> FALSE],
                    [copy |-> "write_fails", unlink |-> FALSE]}
=============================================================================
