--------------------------- MODULE MCCoreSensors ---------------------------
(***************************************************************************)
(* SensorSources and CoreSensors on small instances, with the thresholds   *)
(* of policy.py in thousandths of a degree.                                *)
(***************************************************************************)
EXTENDS CoreSensors

(* Two CPU sensors and two drives, each under a name of its own; the       *)
(* drives are on one chip, and keep apart without their labels too.        *)
MCKind == <<"cpu", "drive", "drive", "cpu">>
MCNames == <<"coretemp:package", "ata:left", "ata:right", "k10temp:tctl">>
MCBare ==
    <<[kind |-> "cpu", key |-> "coretemp:temp1_input"],
      [kind |-> "drive", key |-> "ata:temp1_input"],
      [kind |-> "drive", key |-> "ata:temp2_input"],
      [kind |-> "cpu", key |-> "k10temp:temp1_input"]>>

(* Chips that the kernel's drivetemp driver registers share their name and *)
(* the name of their one file, and have no labels; the policy ignores an   *)
(* NVMe device.                                                            *)
MCKindNvme == <<"cpu", "drive", "nvme", "drive">>
MCDrivetemp == <<"coretemp:package", "drivetemp:temp1_input", "nvme", "drivetemp:temp1_input">>
MCBareDrivetemp ==
    [n \in DOMAIN MCKindNvme |-> [kind |-> MCKindNvme[n], key |-> MCDrivetemp[n]]]

MCRank == <<1, 1, 1, 2>>

MCTemps == {400, 48000, 65000, 71000}
MCFewTemps == {48000, 71000}

=============================================================================
