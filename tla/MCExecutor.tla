------------------------------ MODULE MCExecutor ------------------------------
(* Executor for TLC: a drain of one of two nodes, a restart of a pod that   *)
(* the drain also evicts, a rollback and an unknown action, on one worker.  *)
EXTENDS Executor

MCPlan == [drain    |-> [action |-> "drain_node",      target |-> "node1"],
           restart  |-> [action |-> "restart_pod",     target |-> "amf"],
           rollback |-> [action |-> "rollback_config", target |-> "pcf"],
           other    |-> [action |-> "reboot_node",     target |-> "node1"]]
MCPlacement == [amf |-> "node1", smf |-> "node1"]
=============================================================================
