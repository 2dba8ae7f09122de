---------------------------- MODULE MCWorkerQueue ----------------------------
(* A small instance of WorkerQueue: two daemons and a local run of the Web,*)
(* one input the policy allows and one it rejects.                         *)
EXTENDS WorkerQueue

CONSTANTS d1, d2, web1, ok, bad, c1

MCOneJob == 1 .. 1
MCTwoDaemons == {d1, d2}
MCThree == {d1, d2, web1}
MCBoth == {ok, bad}
MCBad == {bad}
(* The local run claims for one project; "ok" belongs to it.               *)
MCProjectScope == [w \in Workers |-> IF w = web1 THEN {ok} ELSE Inputs]
MCOneCanceller == {c1}

(* One stop, of a daemon or of the Web.                                    *)
MCSpec == Init /\ [][Next /\ crashes' + webRestarts' <= 1]_vars /\ Fairness
=============================================================================
