---------------------------- MODULE MCLifecycle ----------------------------
(* Small instances of Lifecycle for TLC.                                    *)
EXTENDS Lifecycle

MCCaller == {"c1", "c2"}

\* After an early call TLC looks at who makes what, while main is in
\* getInstance: not at what the threads of two or three managers do.
EarlyRace ==
    early > 0 =>
        /\ mainPc = "get"
        /\ \A c \in Caller : use[c] = "no"
        /\ \A m \in Manager : procPc[m] \in {"no", "top"} /\ events[m] = 0
=============================================================================
