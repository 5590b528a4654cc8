SPECIFICATION AuthSpec
CONSTANTS
    Clients = {1, 2}
    MaxConns = 4
    Passwords = {p1, p2}
INVARIANTS LoginIsOwn
CHECK_DEADLOCK FALSE
