---------------------------- MODULE Parts_proofs ----------------------------
(***************************************************************************)
(* The twelve parts of MCParts, run one at a time, are the twelve          *)
(* specifications: a step of the sum is, to each part, a step of its own   *)
(* or none.  What is proved of a part therefore holds of the sum that the  *)
(* run `parts` checks.                                                     *)
(***************************************************************************)
EXTENDS MCParts, Answers_proofs, Accounts_proofs, Stores_proofs, Setup_proofs

LEMMA PartsStart ==
  PartsInit =>
    /\ Init /\ WrapInit /\ ReceiptsInit /\ AuditInit /\ TtlInit /\ RestoreInit
    /\ McpInit /\ SpliceInit /\ InstallInit /\ QuotaInit /\ StateInit /\ SavingsInit
  BY DEF PartsInit

LEMMA PartsStep ==
  [PartsNext]_parts =>
    /\ [Next]_vars
    /\ [WrapNext]_wrapVars
    /\ [ReceiptsNext]_receiptVars
    /\ [AuditNext]_auditVars
    /\ [TtlNext]_ttlVars
    /\ [RestoreNext]_restoreVars
    /\ [McpNext]_mcpVars
    /\ [SpliceNext]_spliceVars
    /\ [InstallNext]_installVars
    /\ [QuotaNext]_quotaVars
    /\ [StateNext]_stateVars
    /\ [SavingsNext]_savingsVars
<1>. SUFFICES ASSUME [PartsNext]_parts
              PROVE  /\ Next \/ UNCHANGED vars
                     /\ WrapNext \/ UNCHANGED wrapVars
                     /\ ReceiptsNext \/ UNCHANGED receiptVars
                     /\ AuditNext \/ UNCHANGED auditVars
                     /\ TtlNext \/ UNCHANGED ttlVars
                     /\ RestoreNext \/ UNCHANGED restoreVars
                     /\ McpNext \/ UNCHANGED mcpVars
                     /\ SpliceNext \/ UNCHANGED spliceVars
                     /\ InstallNext \/ UNCHANGED installVars
                     /\ QuotaNext \/ UNCHANGED quotaVars
                     /\ StateNext \/ UNCHANGED stateVars
                     /\ SavingsNext \/ UNCHANGED savingsVars
  OBVIOUS
<1>1. CASE PartsNext
  BY <1>1, Zenon DEF PartsNext
<1>2. CASE UNCHANGED parts
  BY <1>2 DEF parts
<1>. QED
  BY <1>1, <1>2

\* The sum of the parts is an implementation of each of them.
THEOREM PartsImplement ==
  PartsSpec =>
    /\ Spec
    /\ WrapSpec
    /\ ReceiptsSpec
    /\ AuditSpec
    /\ TtlSpec
    /\ RestoreSpec
    /\ McpSpec
    /\ SpliceSpec
    /\ InstallSpec
    /\ QuotaSpec
    /\ StateSpec
    /\ SavingsSpec
  BY PartsStart, PartsStep, PTL
     DEF PartsSpec, Spec, WrapSpec, ReceiptsSpec, AuditSpec, TtlSpec, RestoreSpec, McpSpec, SpliceSpec, InstallSpec, QuotaSpec, StateSpec, SavingsSpec

\* Whatever part moves, the state of every part stays of its type.
THEOREM PartsTyped == PartsSpec => []PartsTypeOK
<1>1. ReceiptsInv => ReceiptsTypeOK
  BY DEF ReceiptsInv
<1>2. AuditInv => AuditTypeOK
  BY DEF AuditInv
<1>3. TtlInv => TtlTypeOK
  BY DEF TtlInv
<1>4. RestoreInv => RestoreTypeOK
  BY DEF RestoreInv
<1>5. SpliceInv => SpliceTypeOK
  BY DEF SpliceInv
<1>6. InstallInv => InstallTypeOK
  BY DEF InstallInv
<1>7. QuotaInv => QuotaTypeOK
  BY DEF QuotaInv
<1>8. StateInv => StateTypeOK
  BY DEF StateInv
<1>9. SavingsInv => SavingsTypeOK
  BY DEF SavingsInv
<1>. QED
  BY PartsImplement, RequestsTyped, WrapTyped, ReceiptsInvariant, AuditBooks, TtlInvariant, RestoreInvariant, McpTyped, SpliceInvariant, InstallInvariant, QuotaInvariant, StateInvariant, SavingsInvariant,
     <1>1, <1>2, <1>3, <1>4, <1>5, <1>6, <1>7, <1>8, <1>9, PTL DEF PartsTypeOK
=============================================================================
