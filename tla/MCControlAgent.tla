--------------------------- MODULE MCControlAgent ---------------------------
(***************************************************************************)
(* AnsweringAgent, which is ControlAgent with its history, on small        *)
(* instances.                                                              *)
(***************************************************************************)
EXTENDS AnsweringAgent

Machine(cpu, drive) == [cpu |-> cpu, drive |-> drive]

(* Recovered, in the cooling band, and hot. *)
MCTemps == {Machine(RecoverCpu, RecoverDrive), Machine(RecoverCpu + 1, HotDrive),
            Machine(HotCpu + 1, RecoverDrive)}

MCBandAndHot == {Machine(RecoverCpu + 1, HotDrive), Machine(HotCpu + 1, RecoverDrive)}

MCExtremes == {Machine(RecoverCpu, RecoverDrive), Machine(HotCpu + 1, RecoverDrive)}

Order(mode, duty) == [mode |-> mode, duty |-> duty]

(* A BMC left on its own, at less than the agent's least duty or at full   *)
(* speed, and one whose channels differ.                                   *)
MCWatchdogOrders == {Order("auto", 10), Order("auto", 100), Order("manual", None)}

MCFullButAuto == {Order("auto", 100)}

MCRequests == {[duty |-> 22, ttl |-> 1], [duty |-> 100, ttl |-> 1]}

MCLowRequest == {[duty |-> 22, ttl |-> 1]}

(* The agent asks the policy about what it reads, so all readings are      *)
(* statuses the policy must expect.                                        *)
MCStatuses == [duty : {None, 10, 22, 50, 100},
               cpu : {None} \cup {m.cpu : m \in Temps},
               drive : {None} \cup {m.drive : m \in Temps}]

(* One command or save fails, or the watchdog commands the BMC once, or    *)
(* the process restarts once.                                              *)
MCOneMishap == budget.faults + budget.meddling + budget.crashes >= 2

=============================================================================
