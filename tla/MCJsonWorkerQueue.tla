-------------------------- MODULE MCJsonWorkerQueue --------------------------
(* A small instance of JsonWorkerQueue.                                    *)
EXTENDS JsonWorkerQueue, TLC

CONSTANTS d1, web1, ok, c1

MCOneJob == 1 .. 1
MCMixed == {d1, web1}
MCDaemon == {d1}
MCOk == {ok}
MCEmpty == {}
MCAnyScope == [w \in Workers |-> Inputs]
MCOneCanceller == {c1}
=============================================================================
