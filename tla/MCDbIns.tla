------------------------------ MODULE MCDbIns ------------------------------
(* A small instance of DbIns: every operation on one instance, and a second *)
(* one whose pod a command may reach by mistake.                            *)
EXTENDS DbIns

CONSTANTS i1, i2

MCOps == [i \in {i1, i2} |-> IF i = i1 THEN AllOps ELSE {"stop"}]
=============================================================================
