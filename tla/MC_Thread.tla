------------------------------- MODULE MC_Thread -------------------------------
EXTENDS Thread

CONSTANTS c1, c2

\* One owner that runs and stops the thread; two that race.
MC_OneCaller == {c1}
MC_TwoCallers == {c1, c2}
MC_BothOps == {"run", "stop"}
MC_AllOps == {"run", "stop", "setTask"}
==============================================================================
