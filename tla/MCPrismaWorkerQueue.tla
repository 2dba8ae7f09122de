------------------------- MODULE MCPrismaWorkerQueue -------------------------
(* A small instance of PrismaWorkerQueue.                                  *)
EXTENDS PrismaWorkerQueue, TLC

CONSTANTS d1, d2, ok, c1

MCOneJob == 1 .. 1
MCTwoDaemons == {d1, d2}
MCOk == {ok}
MCEmpty == {}
MCAnyScope == [w \in Workers |-> Inputs]
MCOneCanceller == {c1}
MCDaemonSymmetry == Permutations({d1, d2})
=============================================================================
