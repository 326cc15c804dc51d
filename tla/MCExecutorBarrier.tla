------------------------- MODULE MCExecutorBarrier -------------------------
(* Three executors in a chain: the first sends to the second, which then   *)
(* sends to the third.                                                     *)
EXTENDS ExecutorBarrier

CONSTANTS e1, e2, e3, s1, s2, r2, r3, k1, k2

ChainSend == [e \in Executor |-> IF e = e1 THEN s1 ELSE IF e = e2 THEN s2
                                 ELSE Nobody]
ChainRecv == [e \in Executor |-> IF e = e2 THEN r2 ELSE IF e = e3 THEN r3
                                 ELSE Nobody]
NoReceivers == {}

ChainInit ==
    /\ BInit
    /\ skey = [s \in Sender |-> IF s = s1 THEN k1 ELSE k2]
    /\ rkey = [r \in Receiver |-> IF r = r2 THEN k1 ELSE k2]

FairChainSpec == ChainInit /\ [][BNext]_allvars /\ Fairness
=============================================================================
