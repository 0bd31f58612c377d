------------------------ MODULE MCConsoleSessions ------------------------
EXTENDS ConsoleSessions, TLC

\* Calls, users, tabs and tokens are interchangeable in the safety properties.
Symmetry == Permutations(Calls) \cup Permutations(Owners)
              \cup Permutations(Tabs) \cup Permutations(Ids)

=============================================================================
