------------------------------ MODULE MCParts ------------------------------
(***************************************************************************)
(* Twelve parts that share no variable, in one run: `part` names the one    *)
(* that moves, the others keep their initial state.  An interleaving of    *)
(* several parts is, to each of them, a behaviour in which it moves alone, *)
(* so the sum of the parts' states stands for their product.               *)
(***************************************************************************)
EXTENDS Requests, ConfigWrap, Receipts, AuditBudget, CacheTtl, Restore, McpProxy,
        StreamSplice, McpInstall, GatewayQuota, GatewayState, Savings, TLC

VARIABLE part

parts == <<part, vars, wrapVars, receiptVars, auditVars, ttlVars, restoreVars, mcpVars,
           spliceVars, installVars, quotaVars, stateVars, savingsVars>>

PartsInit ==
  /\ part \in {"requests", "wrap", "receipts", "audit", "ttl", "restore", "mcp", "splice",
              "install", "quota", "state", "savings"}
  /\ Init /\ WrapInit /\ ReceiptsInit /\ AuditInit /\ RestoreInit /\ McpInit
  /\ SpliceInit /\ InstallInit /\ QuotaInit /\ StateInit /\ SavingsInit
  /\ TtlInit /\ (part # "ttl" => seen = {})
  /\ part # "install" => config.text = CHOOSE t \in Content : TRUE

PartsNext ==
  /\ UNCHANGED part
  /\ \/ part = "requests" /\ Next
     \/ part # "requests" /\ UNCHANGED vars
  /\ \/ part = "wrap" /\ WrapNext
     \/ part # "wrap" /\ UNCHANGED wrapVars
  /\ \/ part = "receipts" /\ ReceiptsNext
     \/ part # "receipts" /\ UNCHANGED receiptVars
  /\ \/ part = "audit" /\ AuditNext
     \/ part # "audit" /\ UNCHANGED auditVars
  /\ \/ part = "ttl" /\ TtlNext
     \/ part # "ttl" /\ UNCHANGED ttlVars
  /\ \/ part = "restore" /\ RestoreNext
     \/ part # "restore" /\ UNCHANGED restoreVars
  /\ \/ part = "mcp" /\ McpNext
     \/ part # "mcp" /\ UNCHANGED mcpVars
  /\ \/ part = "splice" /\ SpliceNext
     \/ part # "splice" /\ UNCHANGED spliceVars
  /\ \/ part = "install" /\ InstallNext
     \/ part # "install" /\ UNCHANGED installVars
  /\ \/ part = "quota" /\ QuotaNext
     \/ part # "quota" /\ UNCHANGED quotaVars
  /\ \/ part = "state" /\ StateNext
     \/ part # "state" /\ UNCHANGED stateVars
  /\ \/ part = "savings" /\ SavingsNext
     \/ part # "savings" /\ UNCHANGED savingsVars

PartsSpec == PartsInit /\ [][PartsNext]_parts

\* The type invariants of the twelve modules.
PartsTypeOK ==
  RequestsTypeOK /\ WrapTypeOK /\ ReceiptsTypeOK /\ AuditTypeOK /\ TtlTypeOK /\ RestoreTypeOK
  /\ McpTypeOK /\ SpliceTypeOK /\ InstallTypeOK /\ QuotaTypeOK /\ StateTypeOK /\ SavingsTypeOK
=============================================================================
