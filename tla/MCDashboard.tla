---------------------------- MODULE MCDashboard ----------------------------
(***************************************************************************)
(* Dashboard on a small instance: the least and the full duty.             *)
(***************************************************************************)
EXTENDS Dashboard

MCOrders == [duty : {QuietDuty, FullDuty}, ttl : {1}]

=============================================================================
