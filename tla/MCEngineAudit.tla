---------------------------- MODULE MCEngineAudit ----------------------------
(***************************************************************************)
(* EngineAudit over the queue and the rules of MCEngineQueue, bounded the  *)
(* same way by MaxTime, MaxLate and MaxLog.                                *)
(***************************************************************************)
EXTENDS EngineAudit, MCEngineQueue

MCAuditNext == \/ MCReceive /\ Unwatched
               \/ WatchedTick
               \/ WatchedSettle
               \/ Raise /\ Unwatched

MCAuditSpec == AuditInit /\ [][MCAuditNext]_auditVars

MCAuditFairSpec == MCAuditSpec /\ CallProgress
=============================================================================
