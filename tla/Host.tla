-------------------------------- MODULE Host --------------------------------
(***************************************************************************)
(* Around the process: its releases and deploys, the egress firewall, the  *)
(* backups, and what the operator gets to see.                             *)
(*                                                                         *)
(* These parts touch one another at a few points, and each takes what the  *)
(* others do to it as something that may happen at any time: a deploy      *)
(* stops the backup sidecar (StopSidecar) and applies the firewall         *)
(* (DeleteTable), the firewall's load fails under a deploy                 *)
(* (ReapplyEgress), the process the operator watches stops (Stop).  So one *)
(* part moves in a behaviour, and the others rest in one of their initial  *)
(* states.                                                                 *)
(***************************************************************************)
EXTENDS Ops, Deploy, Egress, Backup

CONSTANT Scenes   \* the parts that move, one per behaviour

VARIABLE scene

hostVars == <<scene, opsVars, deployVars, egressVars, backupVars>>

Resting ==
  /\ scene # "ops" => acts = {} /\ upstream = 1
  /\ scene = "ops" => acts # {}
  /\ scene # "deploy" => flaw.what = "none" /\ sudoers = TRUE /\ whatsapp = TRUE /\ secret = 0
                         /\ bridge = "pinned"

HostInit ==
  /\ scene \in Scenes
  /\ OpsInit /\ DeployInit /\ EgressInit /\ BackupInit
  /\ Resting

HostNext ==
  \/ scene = "ops"    /\ OpsNext    /\ UNCHANGED <<scene, deployVars, egressVars, backupVars>>
  \/ scene = "deploy" /\ DeployNext /\ UNCHANGED <<scene, opsVars, egressVars, backupVars>>
  \/ scene = "egress" /\ EgressNext /\ UNCHANGED <<scene, opsVars, deployVars, backupVars>>
  \/ scene = "backup" /\ BackupNext /\ UNCHANGED <<scene, opsVars, deployVars, egressVars>>

HostSpec == HostInit /\ [][HostNext]_hostVars
=============================================================================
