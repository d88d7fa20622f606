--------------------------- MODULE MCSafetyPolicy ---------------------------
(***************************************************************************)
(* SafetyPolicy on small instances: readings on both sides of every        *)
(* threshold and one that is no number, the duties of the three profiles   *)
(* and one outside the range, a shortest and a longest time to live and    *)
(* one beyond.                                                             *)
(***************************************************************************)
EXTENDS SafetyPolicy

StatusesOf(duties, cpus, drives) ==
    [duty : duties, cpu : cpus, drive : drives]

MCStatuses == StatusesOf({None, 22, 60},
                         {None, RecoverCpu, RecoverCpu + 1, HotCpu + 1},
                         {None, NonFinite, RecoverDrive, HotDrive, HotDrive + 1})

MCRequests == {[duty |-> 22, ttl |-> 1], [duty |-> 100, ttl |-> MaxTtl],
               [duty |-> 60, ttl |-> MaxTtl + 1], [duty |-> 21, ttl |-> 1]}

=============================================================================
