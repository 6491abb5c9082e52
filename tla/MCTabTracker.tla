---------------------------- MODULE MCTabTracker ----------------------------
(* Small instances of TabTracker: two tabs in three windows.        *)
EXTENDS TabTracker, TLC

CONSTANTS t1, t2, w1, w2, w3, c1

MCTwoTabs == {t1, t2}
MCWindows == {w1, w2, w3}
MCCalls   == {c1}

OtherSymmetry == Permutations(Tabs) \cup Permutations(Windows \ {Window})
=============================================================================
