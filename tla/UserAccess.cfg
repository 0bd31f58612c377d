SPECIFICATION Spec
CONSTANTS
    Users = {u1, u2, u3}
    Requests = {r1, r2}
    Logins = {l1, l2}
    Ips = {ip1}
    MaxAttempts = 2
    Null = Null
INVARIANTS AdministratorRemains FailuresBounded
SYMMETRY Symmetry
