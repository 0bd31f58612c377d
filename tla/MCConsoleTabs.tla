---------------------------- MODULE MCConsoleTabs ----------------------------
(* Two tabs, two sessions, and a run that reads before it writes.         *)
EXTENDS ConsoleTabs, TLC

CONSTANTS t1, t2, s1, s2

MCTabs == {t1, t2}
MCSids == {s1, s2}
MCRuns == {<<FALSE, TRUE>>}


=============================================================================
