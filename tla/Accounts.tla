------------------------------ MODULE Accounts ------------------------------
(***************************************************************************)
(* User accounts: a row of the database, an account of the operating       *)
(* system and a home directory, which are created and deleted step by step *)
(* by programs of administrators that know nothing of each other, and the  *)
(* tokens by which the API lets a user in.                                 *)
(*                                                                         *)
(* useradd, userdel, chown and rm are external: they are modelled by what  *)
(* they do with the password file and the owner of a directory.            *)
(***************************************************************************)
EXTENDS Naturals, FiniteSets

CONSTANTS
    Admins,        \* programs that create or delete users
    Clients,       \* requests to the API
    Names,         \* user names; each has an e-mail address of its own
    TestNames,     \* those that cleanup_test_users removes
    UidMin, UidMax,\* the range of the mode
    Blocked,       \* UIDs of root, of the system and of the API user
    MaxIds,        \* bounds the rows ever created
    MaxMishaps     \* bounds commands that fail

AccountsAssumption ==
    /\ IsFiniteSet(Names) /\ TestNames \subseteq Names
    /\ {UidMin, UidMax, MaxIds, MaxMishaps} \subseteq Nat /\ 1 < UidMin /\ 1 \in Blocked

ASSUME AccountsAssumption

VARIABLES
    rows,      \* table users
    passwd,    \* Linux accounts: <<name, uid>>
    home,      \* USERS_DIR / name: its owner, and whether it has venv/bin/python3
    admin,     \* where each program is
    ids,       \* rows ever created, the source of User.id
    tokens,    \* User.id of the tokens that were handed out
    request,   \* where each request is
    mishaps,
    raced      \* history: names that two programs worked on at the same time

accountsVars == <<rows, passwd, home, admin, ids, tokens, request, mishaps, raced>>

NoUid == 0
Api == 1         \* UID of the API process
Uids == UidMin .. UidMax
Gone == [owner |-> NoUid, venv |-> FALSE]
AtRest == [op |-> "idle", name |-> "", uid |-> NoUid, id |-> 0]
Waiting == [pc |-> "idle", id |-> 0]

CommandFails == mishaps < MaxMishaps /\ mishaps' = mishaps + 1
CommandWorks == UNCHANGED mishaps

RowOf(n) == {r \in rows : r.name = n}
HasAccount(n) == \E u \in Uids : <<n, u>> \in passwd
UidTaken(u) == \E n \in Names : <<n, u>> \in passwd

AccountsInit ==
    /\ rows = {} /\ passwd = {} /\ home = [n \in Names |-> Gone]
    /\ admin = [a \in Admins |-> AtRest] /\ ids = 0
    /\ tokens = {} /\ request = [c \in Clients |-> Waiting] /\ mishaps = 0 /\ raced = {}

-----------------------------------------------------------------------------
(* UserService.create_user                                                 *)

Goto(a, op) == admin' = [admin EXCEPT ![a].op = op]
Stop(a) == admin' = [admin EXCEPT ![a] = AtRest]
StartProgram(a, op, n, i) ==
    /\ admin' = [admin EXCEPT ![a] = [op |-> op, name |-> n, uid |-> NoUid, id |-> i]]
    /\ raced' = IF \E b \in Admins : admin[b].name = n THEN raced \union {n} ELSE raced

\* The name must be free when the request looks.
CreateCheck(a, n) ==
    /\ admin[a] = AtRest /\ ids < MaxIds /\ RowOf(n) = {}
    /\ ids' = ids + 1
    /\ StartProgram(a, "uid", n, ids + 1)
    /\ UNCHANGED <<rows, passwd, home, tokens, request, mishaps>>

\* _generate_next_uid: one more than the highest in the table and in the range.
NextUid ==
    LET used == {r.uid : r \in rows} \intersect Uids
    IN  IF used = {} THEN UidMin ELSE (CHOOSE u \in used : \A v \in used : v <= u) + 1

ValidUid(u) == u \in Uids \ Blocked

CreateUid(a) ==
    /\ admin[a].op = "uid"
    /\ IF ValidUid(NextUid)
       THEN admin' = [admin EXCEPT ![a].op = "claim", ![a].uid = NextUid]
       ELSE Stop(a)
    /\ UNCHANGED <<rows, passwd, home, ids, tokens, request, mishaps, raced>>

\* mkdir, and chown -R to the API user.
ClaimHome(a) ==
    /\ admin[a].op = "claim"
    /\ \/ CommandWorks /\ Goto(a, "useradd") /\ home' = [home EXCEPT ![admin[a].name].owner = Api]
       \/ /\ CommandFails /\ Stop(a)
          /\ home' = [home EXCEPT ![admin[a].name].owner = IF @ = NoUid THEN Api ELSE @]
    /\ UNCHANGED <<rows, passwd, ids, tokens, request, raced>>

\* A variant of AddAccount: useradd -o, which does not mind a UID that exists.
AddAccountNonUnique(a) ==
    LET n == admin[a].name  u == admin[a].uid
    IN /\ Goto(a, "fill") /\ CommandWorks
       /\ passwd' = IF HasAccount(n) THEN passwd ELSE passwd \union {<<n, u>>}

\* A name that exists (code 9) is taken for an account made before; a UID that
\* exists (code 4) is an error.
AddAccount(a) ==
    LET n == admin[a].name  u == admin[a].uid
    IN \/ HasAccount(n) /\ CommandWorks /\ Goto(a, "fill") /\ UNCHANGED passwd
       \/ ~HasAccount(n) /\ UidTaken(u) /\ CommandWorks /\ Stop(a) /\ UNCHANGED passwd
       \/ /\ ~HasAccount(n) /\ ~UidTaken(u) /\ CommandWorks /\ Goto(a, "fill")
          /\ passwd' = passwd \union {<<n, u>>}
       \/ CommandFails /\ Stop(a) /\ UNCHANGED passwd

Useradd(a) ==
    /\ admin[a].op = "useradd"
    /\ AddAccount(a)
    /\ UNCHANGED <<rows, home, ids, tokens, request, raced>>

\* _create_user_venv: python3 stays, or is made, or what fails is only logged.
MakeVenv(n) ==
    \/ CommandWorks /\ home' = [home EXCEPT ![n].venv = TRUE]
    \/ CommandFails /\ UNCHANGED home

\* Directories, venv and secrets.  chmod of a directory that somebody else owns is an error.
FillHome(a) ==
    LET n == admin[a].name
    IN /\ admin[a].op = "fill"
       /\ \/ home[n].owner = Api /\ Goto(a, "chown") /\ MakeVenv(n)
          \/ home[n].owner # Api /\ CommandWorks /\ Stop(a) /\ UNCHANGED home
       /\ UNCHANGED <<rows, passwd, ids, tokens, request, raced>>

\* A variant of ChownHome that goes on after a failure.
ChownHomeIgnored(a) ==
    /\ admin[a].op = "chown"
    /\ \/ /\ CommandWorks /\ home[admin[a].name] # Gone /\ Goto(a, "commit")
          /\ home' = [home EXCEPT ![admin[a].name].owner = admin[a].uid]
       \/ CommandFails /\ Goto(a, "commit") /\ UNCHANGED home
    /\ UNCHANGED <<rows, passwd, ids, tokens, request, raced>>

\* chown -R to the new UID, then the group permissions, whose failure is ignored.
ChownHome(a) ==
    /\ admin[a].op = "chown"
    /\ \/ /\ CommandWorks /\ home[admin[a].name] # Gone /\ Goto(a, "commit")
          /\ home' = [home EXCEPT ![admin[a].name].owner = admin[a].uid]
       \/ CommandWorks /\ home[admin[a].name] = Gone /\ Stop(a) /\ UNCHANGED home
       \/ CommandFails /\ Stop(a) /\ UNCHANGED home
    /\ UNCHANGED <<rows, passwd, ids, tokens, request, raced>>

\* The names of the table are unique; the Linux account and the home remain when
\* the row is refused.
CreateCommit(a) ==
    /\ admin[a].op = "commit"
    /\ \/ /\ RowOf(admin[a].name) = {} /\ CommandWorks
          /\ rows' = rows \union {[id |-> admin[a].id, name |-> admin[a].name, uid |-> admin[a].uid]}
       \/ RowOf(admin[a].name) # {} /\ CommandWorks /\ UNCHANGED rows
       \/ CommandFails /\ UNCHANGED rows
    /\ Stop(a)
    /\ UNCHANGED <<passwd, home, ids, tokens, request, raced>>

-----------------------------------------------------------------------------
(* UserService.delete_user, cleanup_test_users                             *)

\* The command line keeps the Linux account, and goes on with the home.
DeleteFind(a, n) ==
    /\ admin[a] = AtRest
    /\ \E r \in RowOf(n), linux \in BOOLEAN :
          StartProgram(a, IF linux THEN "userdel" ELSE "rmtree", n, r.id)
    /\ UNCHANGED <<rows, passwd, home, ids, tokens, request, mishaps>>

RemoveAccount(n) == passwd' = {p \in passwd : p[1] # n}

\* _delete_linux_user; the deletion goes on when it fails.
DeleteAccount(a) ==
    /\ admin[a].op = "userdel"
    /\ Goto(a, "rmtree")
    /\ \/ CommandWorks /\ RemoveAccount(admin[a].name)
       \/ CommandFails /\ UNCHANGED passwd
    /\ UNCHANGED <<rows, home, ids, tokens, request, raced>>

DeleteHome(a) ==
    /\ admin[a].op = "rmtree"
    /\ Goto(a, "delete")
    /\ \/ CommandWorks /\ home' = [home EXCEPT ![admin[a].name] = Gone]
       \/ CommandFails /\ UNCHANGED home
    /\ UNCHANGED <<rows, passwd, ids, tokens, request, raced>>

DeleteUserRow(a) ==
    /\ admin[a].op = "delete"
    /\ rows' = {r \in rows : r.id # admin[a].id}
    /\ Stop(a)
    /\ UNCHANGED <<passwd, home, ids, tokens, request, mishaps, raced>>

\* The directories first, then the accounts, each unless it fails; the rows stay.
CleanupHome(n) ==
    /\ home' = [home EXCEPT ![n] = Gone]
    /\ UNCHANGED <<rows, passwd, admin, ids, tokens, request, mishaps, raced>>

CleanupAccount(n) ==
    /\ RemoveAccount(n)
    /\ UNCHANGED <<rows, home, admin, ids, tokens, request, mishaps, raced>>

CleanupTestUsers(n) == n \in TestNames /\ (CleanupHome(n) \/ CleanupAccount(n))

-----------------------------------------------------------------------------
(* AuthService and the dependencies of the routes                          *)

\* validate_user_environment: home, venv and its python3 are there.
ValidEnvironment(n) == home[n].venv

\* A token names the row and is signed with the row's secret.
Token(r) == r.id

\* authenticate: the row of the address, if its environment is complete.
Authenticated(n) == {r \in RowOf(n) : ValidEnvironment(n)}

Login(n) ==
    /\ \E r \in Authenticated(n) : tokens' = tokens \union {Token(r)}
    /\ UNCHANGED <<rows, passwd, home, admin, ids, request, mishaps, raced>>

\* validate_token: 401 without a row, 403 without an environment.
TokenIsValid(t) == \E r \in rows : Token(r) = t /\ ValidEnvironment(r.name)

Authorize(c, t) ==
    /\ request[c] = Waiting /\ t \in tokens /\ TokenIsValid(t)
    /\ request' = [request EXCEPT ![c] = [pc |-> "authorized", id |-> t]]
    /\ UNCHANGED <<rows, passwd, home, admin, ids, tokens, mishaps, raced>>

\* get_current_user loads the row once more: 401 if it is gone by then.
LoadUser(c) ==
    /\ request[c].pc = "authorized"
    /\ request' = [request EXCEPT ![c] = IF \E r \in rows : r.id = request[c].id
                                         THEN [pc |-> "loaded", id |-> request[c].id]
                                         ELSE Waiting]
    /\ UNCHANGED <<rows, passwd, home, admin, ids, tokens, mishaps, raced>>

Respond(c) ==
    /\ request[c].pc = "loaded"
    /\ request' = [request EXCEPT ![c] = Waiting]
    /\ UNCHANGED <<rows, passwd, home, admin, ids, tokens, mishaps, raced>>

AccountsNext ==
    \/ \E a \in Admins :
        \/ \E n \in Names : CreateCheck(a, n) \/ DeleteFind(a, n)
        \/ CreateUid(a) \/ ClaimHome(a) \/ Useradd(a) \/ FillHome(a) \/ ChownHome(a)
        \/ CreateCommit(a) \/ DeleteAccount(a) \/ DeleteHome(a) \/ DeleteUserRow(a)
    \/ \E n \in Names : Login(n) \/ CleanupTestUsers(n)
    \/ \E c \in Clients : LoadUser(c) \/ Respond(c) \/ \E t \in tokens : Authorize(c, t)

AccountsSpec == AccountsInit /\ [][AccountsNext]_accountsVars

-----------------------------------------------------------------------------
\* Everything has its type; rows and accounts have UIDs of the range.
AccountsTypeOK ==
    /\ rows \subseteq [id : 1 .. MaxIds, name : Names, uid : Uids]
    /\ passwd \subseteq Names \X Uids
    /\ home \in [Names -> [owner : {NoUid, Api} \union Uids, venv : BOOLEAN]]
    /\ admin \in [Admins -> [op : {"idle", "uid", "claim", "useradd", "fill", "chown", "commit",
                                   "userdel", "rmtree", "delete"},
                             name : Names \union {""}, uid : Uids \union {NoUid}, id : 0 .. MaxIds]]
    /\ tokens \subseteq 1 .. ids /\ ids \in 0 .. MaxIds
    /\ request \in [Clients -> [pc : {"idle", "authorized", "loaded"}, id : 0 .. MaxIds]]

\* Nothing keeps two creations from choosing the same UID, and the column is not
\* unique: it is useradd that refuses the second, unless it takes the name for an
\* account made before.  So where two rows share a UID, one of them has no
\* Linux account of that UID.
SharedUidHasNoAccount ==
    \A r, s \in rows : r # s /\ r.uid = s.uid =>
        <<r.name, r.uid>> \notin passwd \/ <<s.name, s.uid>> \notin passwd

\* What _generate_next_uid says it returns, "Next available UID in the valid range":
\* as long as no command failed and no two programs worked on a name, no other
\* account has the UID that a creation is about to use.
NextUidIsAvailable ==
    \A a \in Admins : (admin[a].op = "claim" /\ mishaps = 0 /\ raced = {}) =>
        \A n \in Names \ {admin[a].name} : <<n, admin[a].uid>> \notin passwd

\* Once no program works on the name and none ever did together with another, the
\* home of a user belongs to his UID or is gone; and as long as no command failed
\* he can log in.
AccountIsComplete ==
    \A r \in rows : (r.name \notin raced /\ \A a \in Admins : admin[a].name # r.name) =>
        /\ home[r.name].owner \in {r.uid, NoUid}
        /\ mishaps = 0 /\ r.name \notin TestNames =>
              home[r.name].owner = r.uid /\ ValidEnvironment(r.name)

=============================================================================
