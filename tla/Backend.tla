------------------------------- MODULE Backend -------------------------------
(***************************************************************************)
(* The parts of the backend side by side.  They share no variable, so what *)
(* the whole does to one part is what the part does on its own, and each   *)
(* property, being about one part, is checked by letting the parts run one *)
(* at a time: `part` is the one that runs, the others keep to their        *)
(* initial states.  The state spaces add up instead of multiplying.        *)
(***************************************************************************)
EXTENDS Scheduler, Accounts, Sessions, Tenants, Realtime, AuditTrail

CONSTANT Parts

VARIABLE part

backendVars == <<part, schedVars, accountVars, sessionVars, tenantVars,
                 realtimeVars, auditVars>>

BackendInit ==
  /\ part \in Parts
  /\ SchedInit /\ AccountsInit /\ SessionsInit
  /\ TenantsInit /\ RealtimeInit /\ AuditInit
  /\ part # "scheduler" => transacted
  /\ part # "audit" => tables

BackendNext ==
  \/ /\ part = "scheduler" /\ SchedNext
     /\ UNCHANGED <<part, accountVars, sessionVars, tenantVars, realtimeVars, auditVars>>
  \/ /\ part = "accounts" /\ AccountsNext
     /\ UNCHANGED <<part, schedVars, sessionVars, tenantVars, realtimeVars, auditVars>>
  \/ /\ part = "sessions" /\ SessionsNext
     /\ UNCHANGED <<part, schedVars, accountVars, tenantVars, realtimeVars, auditVars>>
  \/ /\ part = "tenants" /\ TenantsNext
     /\ UNCHANGED <<part, schedVars, accountVars, sessionVars, realtimeVars, auditVars>>
  \/ /\ part = "realtime" /\ RealtimeNext
     /\ UNCHANGED <<part, schedVars, accountVars, sessionVars, tenantVars, auditVars>>
  \/ /\ part = "audit" /\ AuditNext
     /\ UNCHANGED <<part, schedVars, accountVars, sessionVars, tenantVars, realtimeVars>>

BackendSpec == BackendInit /\ [][BackendNext]_backendVars

-----------------------------------------------------------------------------

(* Every part's variables stay in their types; in particular no channel      *)
(* holds more messages than its capacity (notify_user).                      *)
TypesOK ==
  /\ SchedTypeOK /\ AccountsTypeOK /\ SessionsTypeOK
  /\ TenantsTypeOK /\ RealtimeTypeOK /\ AuditTypeOK

=============================================================================
