----------------------------- MODULE MCUserAccess -----------------------------
EXTENDS UserAccess, TLC

\* Accounts, requests, logins and addresses are interchangeable.
Symmetry == Permutations(Users) \cup Permutations(Requests)
              \cup Permutations(Logins) \cup Permutations(Ips)
=============================================================================
