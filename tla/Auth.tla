--------------------------------- MODULE Auth ---------------------------------
(***************************************************************************)
(* Authentication: auth.rs, the ACL SETUSER and AUTH commands, the check in *)
(* read_socket that lets only an authenticated client run a command, and    *)
(* the two places in main.rs that touch the table of authenticated clients. *)
(* There is one user, "default".  A password stands for its hash.           *)
(***************************************************************************)
EXTENDS Connections

CONSTANT Passwords

NoPass == "nopass"
Users == {"default", "nobody"}

ASSUME AuthAssumption == NoPass \notin Passwords

VARIABLES
    passwords, nopass,  \* the credential of the default user
    auth,               \* clients that are authenticated (as "default")
    conn,               \* history: the connection a descriptor stands for
    login,              \* history: the connection that was authenticated, and how
    unheard             \* history: a rule failed and OK was replied

auth_vars == <<conn_vars, passwords, nopass, auth, conn, login, unheard>>

\* The types: one user with a set of password hashes and the nopass flag.
AuthTypeOK ==
    /\ ConnTypeOK
    /\ passwords \subseteq Passwords
    /\ nopass \in BOOLEAN
    /\ auth \subseteq Clients
    /\ conn \in [Clients -> Nat]
    /\ login \in [Clients -> [conn: Nat, by: Passwords \cup {NoPass}]]
    /\ unheard \in BOOLEAN

AuthInit ==
    /\ ConnInit
    /\ passwords = {} /\ nopass = TRUE
    /\ auth = {}
    /\ conn = [c \in Clients |-> 0]
    /\ login = [c \in Clients |-> [conn |-> 0, by |-> NoPass]]
    /\ unheard = FALSE

-----------------------------------------------------------------------------
check_auth(c) == c \in auth

\* The client enters the table, as the connection that it is now.
Enter(c, id, by) ==
    /\ auth' = auth \cup {c}
    /\ login' = [login EXCEPT ![c] = [conn |-> id, by |-> by]]

\* accept, then authenticate(None, None): the default user without a password.
AuthAccept(c) ==
    /\ Connect(c)
    /\ conn' = [conn EXCEPT ![c] = conns + 1]
    /\ IF nopass THEN Enter(c, conns + 1, NoPass) ELSE UNCHANGED <<auth, login>>
    /\ UNCHANGED <<passwords, nopass, unheard>>

\* A fault to detect: the client stays in the table.
DisconnectStillIn(c) ==
    /\ Drop(c)
    /\ UNCHANGED <<passwords, nopass, auth, conn, login, unheard>>

\* A disconnection takes the client out of the table.
AuthDisconnect(c) ==
    /\ Drop(c)
    /\ auth' = auth \ {c}
    /\ UNCHANGED <<passwords, nopass, conn, login, unheard>>

\* AUTH, the command that needs no authentication; a wrong user or password
\* changes nothing.
cmd_auth(c, user, password) ==
    /\ c \in clients
    /\ user = "default" /\ password \in passwords
    /\ Enter(c, conn[c], password)
    /\ UNCHANGED <<conn_vars, passwords, nopass, conn, unheard>>

\* One rule: nopass sets the flag, a password is added and clears it.
ApplyRule(rule) ==
    /\ passwords' = passwords \cup ({rule} \ {NoPass})
    /\ nopass' = (rule = NoPass)

\* ACL SETUSER, with the one rule that the builder makes of a request.  add_flag
\* fails when the flag is set already, and OK is replied all the same; an unknown
\* user is an error.
cmd_acl_setuser(c, user, rule) ==
    /\ c \in clients /\ check_auth(c)
    /\ user = "default"
    /\ ApplyRule(rule)
    /\ unheard' = (unheard \/ (rule = NoPass /\ nopass))
    /\ UNCHANGED <<conn_vars, auth, conn, login>>

AuthNext ==
    \E c \in Clients :
        \/ AuthAccept(c) \/ AuthDisconnect(c)
        \/ \E user \in Users :
             \/ \E password \in Passwords : cmd_auth(c, user, password)
             \/ \E rule \in Passwords \cup {NoPass} : cmd_acl_setuser(c, user, rule)

AuthSpec == AuthInit /\ [][AuthNext]_auth_vars

-----------------------------------------------------------------------------
\* A login belongs to a connection, not to a descriptor: who is authenticated is
\* connected, and it is this connection that authenticated, with no password
\* asked or with a password of the user.
LoginIsOwn ==
    \A c \in auth :
        /\ c \in clients /\ login[c].conn = conn[c]
        /\ login[c].by \in passwords \cup {NoPass}

\* cmd_acl_setuser makes an error of a rule that fails ("Error setting flag"):
\* the client hears of it.
FailedRuleIsReported == ~unheard

=============================================================================
