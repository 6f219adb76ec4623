-------------------------- MODULE MCMidnightLedger --------------------------
(***************************************************************************)
(* A validator and a relay node.  `update' and `deploy' spend the same     *)
(* coin, and the validity of `update' begins later; `dust' is a system     *)
(* transaction of the cNIGHT observation, `params' overwrites the          *)
(* parameters.                                                             *)
(***************************************************************************)
EXTENDS MidnightLedger, TLC

CONSTANTS n1, n2, update, deploy, dust, params, c1, c2, c3

MCSpends == [t \in Txs |-> {c1}]
MCCreates == [x \in Txs \cup SystemTxs |->
                CASE x = deploy -> {c2} [] x = dust -> {c3} [] OTHER -> {}]
MCCtime == [t \in Txs |-> IF t = update THEN 2 ELSE 0]
MCOperations == [t \in Txs |-> IF t = deploy THEN {"Call", "Deploy"} ELSE {"Maintain"}]

\* The cost of a deployment cannot be computed.
DeployUnpriced == {<<None, deploy>>}

\* Filters: off; on, without deployments; on, without deployments and updates.
Open == [enabled |-> FALSE, deny_deploy |-> TRUE, deny_maintain |-> TRUE, opaque |-> {}]
NoDeploys == [Open EXCEPT !.enabled = TRUE, !.deny_maintain = FALSE]
Closed == [Open EXCEPT !.enabled = TRUE]

\* The validator filters deployments, the relay node takes everything.
FilteringValidator == [n \in Nodes |-> IF n = n1 THEN NoDeploys ELSE Open]

\* The validator knows another encoding of the transactions, which its filter
\* therefore forwards; the relay node takes updates, or nothing.
FilteringRelay == [n \in Nodes |-> IF n = n1 THEN [Closed EXCEPT !.opaque = Txs] ELSE NoDeploys]
QuietRelay == [n \in Nodes |-> IF n = n1 THEN Open ELSE Closed]
=============================================================================
