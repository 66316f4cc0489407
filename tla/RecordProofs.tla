---------------------------- MODULE RecordProofs -----------------------------
(***************************************************************************)
(* Theorems about the records of the service: accounts and the rows of     *)
(* sessions.                                                               *)
(***************************************************************************)
EXTENDS Accounts, SessionStore, SequenceTheorems, WellFoundedInduction, TLAPS

-----------------------------------------------------------------------------
(* Accounts: for every value of the constants that AccountsAssumption      *)
(* allows                                                                  *)

Plain == {"idle", "uid", "userdel", "rmtree", "delete"}
Chosen == {"claim", "useradd", "fill", "chown", "commit"}

(* What a program keeps: one that works has a name and the number of a row *)
(* that was given out, and a creation past the choice of a UID has one.    *)
Program(p, last) ==
    /\ p \in [op : Plain \union Chosen, name : Names \union {""}, uid : Uids \union {NoUid}, id : 0 .. MaxIds]
    /\ p.op # "idle" => p.name \in Names /\ p.id \in 1 .. last
    /\ p.op \in Chosen => p.uid \in Uids

Working == \A a \in Admins : Program(admin[a], ids)
Numbered == \A r \in rows : r.id \in 1 .. ids

AccountTypes == AccountsTypeOK /\ Working /\ Numbered

(* Names are unique in the table, UIDs among the Linux accounts.           *)
OneRow == \A r, s \in rows : r.name = s.name => r = s
OneAccount == \A p, q \in passwd : p[2] = q[2] => p = q

LEMMA AccountConstants == AccountsAssumption => MaxIds \in Nat /\ NoUid \notin Uids /\ Api \notin Uids
BY DEF AccountsAssumption, NoUid, Api, Uids

LEMMA Types ==
    ASSUME AccountsTypeOK
    PROVE  /\ ids \in 0 .. MaxIds
           /\ passwd \subseteq Names \X Uids
           /\ rows \subseteq [id : 1 .. MaxIds, name : Names, uid : Uids]
           /\ tokens \subseteq 1 .. ids
           /\ admin \in [Admins -> [op : Plain \union Chosen, name : Names \union {""},
                                    uid : Uids \union {NoUid}, id : 0 .. MaxIds]]
<1>1. {"idle", "uid", "claim", "useradd", "fill", "chown", "commit", "userdel", "rmtree", "delete"}
      = Plain \union Chosen
  BY DEF Plain, Chosen
<1>2. QED
  BY <1>1, Zenon DEF AccountsTypeOK

LEMMA Ids == ASSUME AccountsAssumption, AccountsTypeOK PROVE ids \in Nat /\ MaxIds \in Nat /\ ids <= MaxIds
<1>1. ids \in 0 .. MaxIds /\ MaxIds \in Nat
  BY Types, AccountConstants
<1>2. QED
  BY <1>1

-----------------------------------------------------------------------------
(* Types.                                                                  *)

(* The numbers that were given out stay given out.                         *)
LEMMA ProgramKept ==
    ASSUME NEW m \in Nat, NEW k \in Nat, m <= k, NEW p, Program(p, m)
    PROVE  Program(p, k)
<1>1. ASSUME NEW i \in 1 .. m PROVE i \in 1 .. k
  OBVIOUS
<1>2. QED
  BY <1>1, Zenon DEF Program

(* A step of one program that leaves it well formed leaves them all so.    *)
LEMMA OneProgram ==
    ASSUME AccountsAssumption, AccountTypes, NEW a \in Admins, NEW p, NEW k \in ids .. MaxIds,
           Program(p, k), admin' = [admin EXCEPT ![a] = p], ids' = k
    PROVE  Working' /\ admin' \in [Admins -> [op : Plain \union Chosen, name : Names \union {""},
                                               uid : Uids \union {NoUid}, id : 0 .. MaxIds]]
<1>1. ids \in Nat /\ k \in Nat /\ ids <= k
  BY Ids DEF AccountTypes
<1>2. ASSUME NEW b \in Admins PROVE Program(admin'[b], k)
  <2>1. Program(admin[b], k)
    BY <1>1, ProgramKept DEF AccountTypes, Working
  <2>2. admin'[b] = IF b = a THEN p ELSE admin[b]
    BY Types DEF AccountTypes
  <2>3. QED
    BY <2>1, <2>2
<1>3. admin' \in [Admins -> [op : Plain \union Chosen, name : Names \union {""},
                             uid : Uids \union {NoUid}, id : 0 .. MaxIds]]
  BY <1>2, Types DEF AccountTypes, Program
<1>4. QED
  BY <1>2, <1>3 DEF Working

(* A step that changes where a program is, and nothing else of it.         *)
LEMMA Moved ==
    ASSUME AccountsAssumption, AccountTypes, NEW a \in Admins, admin[a].op # "idle",
           NEW op \in Plain \union Chosen, op \in Chosen => admin[a].op \in Chosen
    PROVE  Program([admin[a] EXCEPT !.op = op], ids)
BY DEF AccountTypes, Working, Program, Plain, Chosen

LEMMA Stopped == AccountsAssumption => Program(AtRest, ids)
BY AccountConstants DEF Program, AtRest, Plain, Chosen

AdminTypes == admin \in [Admins -> [op : Plain \union Chosen, name : Names \union {""},
                                   uid : Uids \union {NoUid}, id : 0 .. MaxIds]]
HomeTypes == home \in [Names -> [owner : {NoUid, Api} \union Uids, venv : BOOLEAN]]
RowTypes == rows \subseteq [id : 1 .. MaxIds, name : Names, uid : Uids]
RequestTypes == request \in [Clients -> [pc : {"idle", "authorized", "loaded"}, id : 0 .. MaxIds]]
Rest == RowTypes /\ passwd \subseteq Names \X Uids /\ HomeTypes /\ RequestTypes
        /\ tokens \subseteq 1 .. ids /\ ids \in 0 .. MaxIds

LEMMA Parts == AccountsTypeOK <=> AdminTypes /\ Rest
<1>1. {"idle", "uid", "claim", "useradd", "fill", "chown", "commit", "userdel", "rmtree", "delete"}
      = Plain \union Chosen
  BY DEF Plain, Chosen
<1>2. QED
  BY <1>1, Zenon DEF AccountsTypeOK, AdminTypes, Rest, RowTypes, HomeTypes, RequestTypes

LEMMA PartsPrimed == ASSUME AdminTypes', Rest' PROVE AccountsTypeOK'
<1>1. {"idle", "uid", "claim", "useradd", "fill", "chown", "commit", "userdel", "rmtree", "delete"}
      = Plain \union Chosen
  BY DEF Plain, Chosen
<1>2. QED
  BY <1>1, Zenon DEF AccountsTypeOK, AdminTypes, Rest, RowTypes, HomeTypes, RequestTypes

(* A step of a program that gives out no number.                           *)
LEMMA ProgramStep ==
    ASSUME AccountsAssumption, AccountTypes, NEW a \in Admins, NEW p, Program(p, ids),
           admin' = [admin EXCEPT ![a] = p], UNCHANGED <<ids, tokens, request>>,
           RowTypes', Numbered', (passwd \subseteq Names \X Uids)', HomeTypes'
    PROVE  AccountTypes'
<1>1. ids \in ids .. MaxIds
  BY Ids DEF AccountTypes
<1>2. Working' /\ AdminTypes'
  BY <1>1, OneProgram DEF AdminTypes
<1>3. Rest'
  BY Parts, Zenon DEF AccountTypes, Rest, RequestTypes
<1>4. QED
  BY <1>2, <1>3, PartsPrimed DEF AccountTypes

LEMMA CreateCheckTypes ==
    ASSUME AccountsAssumption, AccountTypes, NEW a \in Admins, NEW n \in Names, CreateCheck(a, n)
    PROVE  AccountTypes'
<1> DEFINE p == [op |-> "uid", name |-> n, uid |-> NoUid, id |-> ids + 1]
<1>1. ids \in Nat /\ MaxIds \in Nat /\ ids + 1 \in ids .. MaxIds /\ ids + 1 \in 1 .. ids + 1
      /\ ids + 1 \in 0 .. MaxIds
  BY Ids DEF AccountTypes, CreateCheck
<1>2. Program(p, ids + 1)
  BY <1>1 DEF Program, Plain, Chosen
<1>3. admin' = [admin EXCEPT ![a] = p] /\ ids' = ids + 1
  BY DEF CreateCheck, StartProgram
<1>4. Working' /\ AdminTypes'
  BY <1>1, <1>2, <1>3, OneProgram DEF AdminTypes
<1>5. \A i \in 1 .. ids : i \in 1 .. ids'
  BY <1>1, <1>3
<1>6. Numbered'
  BY <1>5 DEF AccountTypes, Numbered, CreateCheck
<1>7. tokens' \subseteq 1 .. ids' /\ ids' \in 0 .. MaxIds
  BY <1>1, <1>3, <1>5, Types DEF AccountTypes, CreateCheck
<1>8. Rest'
  BY <1>7, Parts DEF AccountTypes, Rest, RowTypes, HomeTypes, RequestTypes, CreateCheck
<1>9. QED
  BY <1>4, <1>6, <1>8, PartsPrimed DEF AccountTypes

(* What a step of a creation or deletion may do to the program itself.     *)
LEMMA GotoStep ==
    ASSUME AccountsAssumption, AccountTypes, NEW a \in Admins, admin[a].op # "idle",
           NEW op \in Plain \union Chosen, op \in Chosen => admin[a].op \in Chosen,
           Goto(a, op), UNCHANGED <<ids, tokens, request>>,
           RowTypes', Numbered', (passwd \subseteq Names \X Uids)', HomeTypes'
    PROVE  AccountTypes'
<1>1. admin' = [admin EXCEPT ![a] = [admin[a] EXCEPT !.op = op]]
  BY DEF Goto
<1>2. QED
  BY <1>1, Moved, ProgramStep

LEMMA StopStep ==
    ASSUME AccountsAssumption, AccountTypes, NEW a \in Admins,
           Stop(a), UNCHANGED <<ids, tokens, request>>,
           RowTypes', Numbered', (passwd \subseteq Names \X Uids)', HomeTypes'
    PROVE  AccountTypes'
BY Stopped, ProgramStep DEF Stop

LEMMA CreateUidTypes ==
    ASSUME AccountsAssumption, AccountTypes, NEW a \in Admins, CreateUid(a)
    PROVE  AccountTypes'
<1>1. RowTypes' /\ Numbered' /\ (passwd \subseteq Names \X Uids)' /\ HomeTypes'
  BY Parts DEF AccountTypes, Rest, RowTypes, Numbered, HomeTypes, CreateUid
<1>2. CASE ValidUid(NextUid)
  <2> DEFINE p == [admin[a] EXCEPT !.op = "claim", !.uid = NextUid]
  <2>1. NextUid \in Uids
    BY <1>2 DEF ValidUid
  <2>2. Program(p, ids)
    BY <2>1 DEF AccountTypes, Working, Program, Plain, Chosen, CreateUid
  <2>3. admin' = [admin EXCEPT ![a] = p]
    BY <1>2, Types DEF AccountTypes, CreateUid
  <2>4. QED
    BY <1>1, <2>2, <2>3, ProgramStep DEF CreateUid
<1>3. CASE ~ValidUid(NextUid)
  BY <1>1, <1>3, StopStep DEF CreateUid
<1>4. QED
  BY <1>2, <1>3

(* What changes nothing but the home and the program.                      *)
LEMMA HomeStep ==
    ASSUME AccountTypes, UNCHANGED <<rows, passwd, ids>>
    PROVE  RowTypes' /\ Numbered' /\ (passwd \subseteq Names \X Uids)'
BY Parts DEF AccountTypes, Rest, RowTypes, Numbered

LEMMA GoneTypes ==
    ASSUME HomeTypes, NEW n, home' = [home EXCEPT ![n] = Gone] \/ home' = home
    PROVE  HomeTypes'
<1>1. Gone \in [owner : {NoUid, Api} \union Uids, venv : BOOLEAN]
  BY DEF Gone
<1>2. QED
  BY <1>1 DEF HomeTypes

LEMMA ClaimHomeTypes ==
    ASSUME AccountsAssumption, AccountTypes, NEW a \in Admins, ClaimHome(a)
    PROVE  AccountTypes'
<1>1. RowTypes' /\ Numbered' /\ (passwd \subseteq Names \X Uids)'
  BY HomeStep DEF ClaimHome
<1>2. admin[a].op = "claim" /\ admin[a].op # "idle"
  BY DEF ClaimHome
<1>3. HomeTypes'
  BY Parts DEF ClaimHome, AccountTypes, Rest, HomeTypes
<1>4. CASE Goto(a, "useradd")
  BY <1>1, <1>2, <1>3, <1>4, GotoStep DEF ClaimHome, Plain, Chosen
<1>5. CASE Stop(a)
  BY <1>1, <1>3, <1>5, StopStep DEF ClaimHome
<1>6. QED
  BY <1>4, <1>5 DEF ClaimHome

LEMMA UseraddTypes ==
    ASSUME AccountsAssumption, AccountTypes, NEW a \in Admins, Useradd(a)
    PROVE  AccountTypes'
<1>1. admin[a].op = "useradd" /\ admin[a].op # "idle" /\ admin[a].name \in Names /\ admin[a].uid \in Uids
  BY DEF Useradd, AccountTypes, Working, Program, Chosen
<1>2. RowTypes' /\ Numbered' /\ HomeTypes'
  BY Parts DEF AccountTypes, Rest, RowTypes, Numbered, HomeTypes, Useradd
<1>3. (passwd \subseteq Names \X Uids)'
  <2>1. passwd \subseteq Names \X Uids
    BY Types DEF AccountTypes
  <2>2. passwd' = passwd \/ passwd' = passwd \union {<<admin[a].name, admin[a].uid>>}
    BY DEF Useradd, AddAccount
  <2>3. QED
    BY <1>1, <2>1, <2>2
<1>4. CASE Goto(a, "fill")
  BY <1>1, <1>2, <1>3, <1>4, GotoStep DEF Useradd, Plain, Chosen
<1>5. CASE Stop(a)
  BY <1>2, <1>3, <1>5, StopStep DEF Useradd
<1>6. QED
  BY <1>4, <1>5 DEF Useradd, AddAccount

LEMMA FillHomeTypes ==
    ASSUME AccountsAssumption, AccountTypes, NEW a \in Admins, FillHome(a)
    PROVE  AccountTypes'
<1>1. RowTypes' /\ Numbered' /\ (passwd \subseteq Names \X Uids)'
  BY HomeStep DEF FillHome
<1>2. admin[a].op = "fill" /\ admin[a].op # "idle"
  BY DEF FillHome
<1>3. HomeTypes'
  BY Parts DEF FillHome, MakeVenv, AccountTypes, Rest, HomeTypes
<1>4. CASE Goto(a, "chown")
  BY <1>1, <1>2, <1>3, <1>4, GotoStep DEF FillHome, Plain, Chosen
<1>5. CASE Stop(a)
  BY <1>1, <1>3, <1>5, StopStep DEF FillHome
<1>6. QED
  BY <1>4, <1>5 DEF FillHome

LEMMA ChownHomeTypes ==
    ASSUME AccountsAssumption, AccountTypes, NEW a \in Admins, ChownHome(a)
    PROVE  AccountTypes'
<1>1. RowTypes' /\ Numbered' /\ (passwd \subseteq Names \X Uids)'
  BY HomeStep DEF ChownHome
<1>2. admin[a].op = "chown" /\ admin[a].op # "idle" /\ admin[a].uid \in Uids
  BY DEF ChownHome, AccountTypes, Working, Program, Chosen
<1>3. HomeTypes'
  BY <1>2, Parts DEF ChownHome, AccountTypes, Rest, HomeTypes
<1>4. CASE Goto(a, "commit")
  BY <1>1, <1>2, <1>3, <1>4, GotoStep DEF ChownHome, Plain, Chosen
<1>5. CASE Stop(a)
  BY <1>1, <1>3, <1>5, StopStep DEF ChownHome
<1>6. QED
  BY <1>4, <1>5 DEF ChownHome

LEMMA CreateCommitTypes ==
    ASSUME AccountsAssumption, AccountTypes, NEW a \in Admins, CreateCommit(a)
    PROVE  AccountTypes'
<1>1. admin[a].name \in Names /\ admin[a].uid \in Uids /\ admin[a].id \in 1 .. ids
  BY DEF CreateCommit, AccountTypes, Working, Program, Chosen
<1>2. admin[a].id \in 1 .. MaxIds
  BY <1>1, Ids DEF AccountTypes
<1>3. (passwd \subseteq Names \X Uids)' /\ HomeTypes'
  BY Parts DEF AccountTypes, Rest, HomeTypes, CreateCommit
<1>4. RowTypes' /\ Numbered'
  <2>1. rows' = rows \/ rows' = rows \union {[id |-> admin[a].id, name |-> admin[a].name, uid |-> admin[a].uid]}
    BY DEF CreateCommit
  <2>2. RowTypes /\ Numbered /\ ids' = ids
    BY Parts DEF AccountTypes, Rest, CreateCommit
  <2>3. QED
    BY <1>1, <1>2, <2>1, <2>2 DEF RowTypes, Numbered
<1>5. QED
  BY <1>3, <1>4, StopStep DEF CreateCommit

LEMMA DeleteFindTypes ==
    ASSUME AccountsAssumption, AccountTypes, NEW a \in Admins, NEW n \in Names, DeleteFind(a, n)
    PROVE  AccountTypes'
<1>1. PICK r \in RowOf(n), linux \in BOOLEAN : StartProgram(a, IF linux THEN "userdel" ELSE "rmtree", n, r.id)
  BY DEF DeleteFind
<1> DEFINE p == [op |-> IF linux THEN "userdel" ELSE "rmtree", name |-> n, uid |-> NoUid, id |-> r.id]
<1>2. r.id \in 1 .. ids
  BY DEF RowOf, AccountTypes, Numbered
<1>3. r.id \in 0 .. MaxIds
  BY <1>2, Ids DEF AccountTypes
<1>4. Program(p, ids)
  BY <1>2, <1>3 DEF Program, Plain, Chosen
<1>5. admin' = [admin EXCEPT ![a] = p]
  BY <1>1 DEF StartProgram
<1>6. RowTypes' /\ Numbered' /\ (passwd \subseteq Names \X Uids)' /\ HomeTypes'
  BY Parts DEF AccountTypes, Rest, RowTypes, Numbered, HomeTypes, DeleteFind
<1>7. QED
  BY <1>4, <1>5, <1>6, ProgramStep DEF DeleteFind

LEMMA DeleteAccountTypes ==
    ASSUME AccountsAssumption, AccountTypes, NEW a \in Admins, DeleteAccount(a)
    PROVE  AccountTypes'
<1>1. RowTypes' /\ Numbered' /\ HomeTypes'
  BY Parts DEF AccountTypes, Rest, RowTypes, Numbered, HomeTypes, DeleteAccount
<1>2. (passwd \subseteq Names \X Uids)'
  BY Parts DEF AccountTypes, Rest, DeleteAccount, RemoveAccount
<1>3. QED
  BY <1>1, <1>2, GotoStep DEF DeleteAccount, Plain, Chosen

LEMMA DeleteHomeTypes ==
    ASSUME AccountsAssumption, AccountTypes, NEW a \in Admins, DeleteHome(a)
    PROVE  AccountTypes'
<1>1. RowTypes' /\ Numbered' /\ (passwd \subseteq Names \X Uids)'
  BY HomeStep DEF DeleteHome
<1>2. HomeTypes'
  BY Parts, GoneTypes DEF DeleteHome, AccountTypes, Rest
<1>3. QED
  BY <1>1, <1>2, GotoStep DEF DeleteHome, Plain, Chosen

LEMMA DeleteRowTypes ==
    ASSUME AccountsAssumption, AccountTypes, NEW a \in Admins, DeleteUserRow(a)
    PROVE  AccountTypes'
<1>1. RowTypes' /\ Numbered' /\ (passwd \subseteq Names \X Uids)' /\ HomeTypes'
  BY Parts DEF AccountTypes, Rest, RowTypes, Numbered, HomeTypes, DeleteUserRow
<1>2. QED
  BY <1>1, StopStep DEF DeleteUserRow

(* Steps of no program.                                                    *)
LEMMA OtherTypes ==
    ASSUME AccountTypes, UNCHANGED <<rows, admin, ids>>, tokens' \subseteq 1 .. ids,
           (passwd \subseteq Names \X Uids)', HomeTypes', RequestTypes'
    PROVE  AccountTypes'
<1>1. AdminTypes' /\ Rest'
  BY Parts DEF AccountTypes, AdminTypes, Rest, RowTypes
<1>2. Working' /\ Numbered'
  BY DEF AccountTypes, Working, Numbered
<1>3. QED
  BY <1>1, <1>2, PartsPrimed DEF AccountTypes

LEMMA CleanupTypes ==
    ASSUME AccountTypes, NEW n \in Names, CleanupTestUsers(n)
    PROVE  AccountTypes'
<1>1. Rest
  BY Parts DEF AccountTypes
<1>2. CASE CleanupHome(n)
  <2>1. HomeTypes /\ home' = [home EXCEPT ![n] = Gone]
    BY <1>1, <1>2 DEF CleanupHome, Rest
  <2>2. HomeTypes'
    BY <2>1, GoneTypes
  <2>3. QED
    BY <1>1, <1>2, <2>2, OtherTypes DEF CleanupHome, Rest, RequestTypes
<1>3. CASE CleanupAccount(n)
  BY <1>1, <1>3, OtherTypes DEF CleanupAccount, RemoveAccount, Rest, RequestTypes, HomeTypes
<1>4. QED
  BY <1>2, <1>3 DEF CleanupTestUsers

LEMMA LoginTypes ==
    ASSUME AccountTypes, NEW n \in Names, Login(n)
    PROVE  AccountTypes'
<1>1. Rest
  BY Parts DEF AccountTypes
<1>2. PICK r \in Authenticated(n) : tokens' = tokens \union {Token(r)}
  BY DEF Login
<1>3. Token(r) \in 1 .. ids
  BY <1>2 DEF Authenticated, RowOf, Token, AccountTypes, Numbered
<1>4. QED
  BY <1>1, <1>2, <1>3, OtherTypes DEF Login, Rest, HomeTypes, RequestTypes

LEMMA RequestStepTypes ==
    ASSUME AccountsAssumption, AccountTypes, NEW c \in Clients,
           LoadUser(c) \/ Respond(c) \/ \E t \in tokens : Authorize(c, t)
    PROVE  AccountTypes'
<1>1. Rest
  BY Parts DEF AccountTypes
<1>2. tokens \subseteq 0 .. MaxIds /\ 0 \in 0 .. MaxIds
  <2>1. \A i \in 1 .. ids : i \in 0 .. MaxIds
    BY Ids DEF AccountTypes
  <2>2. QED
    BY <1>1, <2>1, Ids DEF Rest, AccountTypes
<1>3. RequestTypes'
  BY <1>1, <1>2 DEF Rest, RequestTypes, LoadUser, Respond, Authorize, Waiting
<1>4. QED
  BY <1>1, <1>3, OtherTypes DEF Rest, HomeTypes, LoadUser, Respond, Authorize

LEMMA InitTypes == ASSUME AccountsAssumption, AccountsInit PROVE AccountTypes
<1>1. MaxIds \in Nat /\ ids = 0 /\ ids \in 0 .. MaxIds /\ 0 \in 0 .. MaxIds
  BY AccountConstants DEF AccountsInit
<1>2. AdminTypes /\ Working
  BY <1>1, Stopped DEF AccountsInit, AdminTypes, Working, Program, AtRest
<1>3. Rest /\ Numbered
  BY <1>1 DEF AccountsInit, Rest, RowTypes, HomeTypes, RequestTypes, Numbered, Gone, Waiting
<1>4. QED
  BY <1>2, <1>3, Parts DEF AccountTypes

LEMMA AccountTypeStep == ASSUME AccountsAssumption, AccountTypes, [AccountsNext]_accountsVars PROVE AccountTypes'
<1>1. ASSUME NEW a \in Admins, NEW n \in Names, CreateCheck(a, n) \/ DeleteFind(a, n) PROVE AccountTypes'
  BY <1>1, CreateCheckTypes, DeleteFindTypes
<1>2. ASSUME NEW a \in Admins,
             \/ CreateUid(a) \/ ClaimHome(a) \/ Useradd(a) \/ FillHome(a) \/ ChownHome(a)
             \/ CreateCommit(a) \/ DeleteAccount(a) \/ DeleteHome(a) \/ DeleteUserRow(a)
      PROVE  AccountTypes'
  BY <1>2, CreateUidTypes, ClaimHomeTypes, UseraddTypes, FillHomeTypes, ChownHomeTypes,
     CreateCommitTypes, DeleteAccountTypes, DeleteHomeTypes, DeleteRowTypes
<1>3. ASSUME NEW n \in Names, Login(n) \/ CleanupTestUsers(n) PROVE AccountTypes'
  BY <1>3, LoginTypes, CleanupTypes
<1>4. ASSUME NEW c \in Clients, LoadUser(c) \/ Respond(c) \/ \E t \in tokens : Authorize(c, t) PROVE AccountTypes'
  BY <1>4, RequestStepTypes
<1>5. CASE UNCHANGED accountsVars
  <2>1. Rest
    BY Parts DEF AccountTypes
  <2>2. QED
    BY <1>5, <2>1, OtherTypes DEF accountsVars, Rest, HomeTypes, RequestTypes
<1>6. QED
  BY <1>1, <1>2, <1>3, <1>4, <1>5 DEF AccountsNext

(* Every variable of Accounts stays in its domain; AccountTypes adds that no    *)
(* program works without a name or, past _generate_next_uid, without a UID *)
(* of the range.                                                           *)
THEOREM AccountsTypes == ASSUME AccountsAssumption PROVE AccountsSpec => []AccountsTypeOK
<1>1. AccountsInit => AccountTypes
  BY InitTypes
<1>2. AccountTypes /\ [AccountsNext]_accountsVars => AccountTypes'
  BY AccountTypeStep
<1>3. AccountTypes => AccountsTypeOK
  BY DEF AccountTypes
<1>4. QED
  BY <1>1, <1>2, <1>3, PTL DEF AccountsSpec

-----------------------------------------------------------------------------
(* Who has a UID.                                                          *)

(* Only CreateCommit adds a row, and the name is not in the table then.    *)
LEMMA OneRowStep == ASSUME OneRow, [AccountsNext]_accountsVars PROVE OneRow'
<1>1. CASE rows' \subseteq rows
  BY <1>1 DEF OneRow
<1>2. ASSUME NEW a \in Admins, CreateCommit(a) PROVE OneRow'
  <2>1. CASE RowOf(admin[a].name) = {}
    <3>1. \A r \in rows : r.name # admin[a].name
      BY <2>1 DEF RowOf
    <3>2. PICK new : new.name = admin[a].name /\ (rows' = rows \/ rows' = rows \union {new})
      BY <1>2 DEF CreateCommit
    <3>3. QED
      BY <3>1, <3>2 DEF OneRow
  <2>2. CASE RowOf(admin[a].name) # {}
    BY <1>1, <1>2, <2>2 DEF CreateCommit
  <2>3. QED
    BY <2>1, <2>2
<1>3. CASE UNCHANGED rows \/ \E a \in Admins : DeleteUserRow(a)
  BY <1>1, <1>3 DEF DeleteUserRow
<1>4. QED
  BY <1>2, <1>3 DEF AccountsNext, accountsVars, CreateCheck, DeleteFind, CreateUid, ClaimHome, Useradd, FillHome,
     ChownHome, DeleteAccount, DeleteHome, Login, CleanupTestUsers, CleanupHome, CleanupAccount,
     LoadUser, Respond, Authorize

(* Only useradd adds an account, and the UID is not in use then.           *)
LEMMA OneAccountStep == ASSUME AccountTypes, OneAccount, [AccountsNext]_accountsVars PROVE OneAccount'
<1>1. CASE passwd' \subseteq passwd
  BY <1>1 DEF OneAccount
<1>2. ASSUME NEW a \in Admins, Useradd(a) PROVE OneAccount'
  <2> DEFINE new == <<admin[a].name, admin[a].uid>>
  <2>1. CASE ~UidTaken(admin[a].uid) /\ passwd' = passwd \union {new}
    <3>1. \A p \in passwd : p[2] # new[2]
      <4>1. passwd \subseteq Names \X Uids
        BY Types DEF AccountTypes
      <4>2. ASSUME NEW p \in passwd PROVE p[2] # admin[a].uid
        <5>1. p = <<p[1], p[2]>> /\ p[1] \in Names
          BY <4>1
        <5>2. QED
          BY <2>1, <5>1 DEF UidTaken
      <4>3. QED
        BY <4>2
    <3>2. QED
      BY <2>1, <3>1 DEF OneAccount
  <2>2. CASE passwd' = passwd
    BY <1>1, <2>2
  <2>3. QED
    BY <1>2, <2>1, <2>2 DEF Useradd, AddAccount
<1>3. CASE UNCHANGED passwd \/ (\E n \in Names : RemoveAccount(n)) \/ (\E a \in Admins : RemoveAccount(admin[a].name))
  BY <1>1, <1>3 DEF RemoveAccount
<1>4. QED
  BY <1>2, <1>3 DEF AccountsNext, accountsVars, CreateCheck, DeleteFind, CreateUid, ClaimHome, FillHome,
     ChownHome, CreateCommit, DeleteAccount, DeleteHome, DeleteUserRow, Login, CleanupTestUsers,
     CleanupHome, CleanupAccount, LoadUser, Respond, Authorize

(* Two creations may choose the same UID, and neither the table nor        *)
(* _generate_next_uid refuses it; but useradd does, so that of two users   *)
(* who share a UID at most one has a Linux account that answers to it,     *)
(* however many programs create and delete users, and whatever fails.      *)
THEOREM SharedUidIsHarmless == ASSUME AccountsAssumption PROVE AccountsSpec => []SharedUidHasNoAccount
<1> DEFINE Inv == AccountTypes /\ OneRow /\ OneAccount
<1>1. AccountsInit => Inv
  BY InitTypes DEF AccountsInit, OneRow, OneAccount
<1>2. Inv /\ [AccountsNext]_accountsVars => Inv'
  BY AccountTypeStep, OneRowStep, OneAccountStep
<1>3. Inv => SharedUidHasNoAccount
  BY DEF OneRow, OneAccount, SharedUidHasNoAccount
<1>4. QED
  BY <1>1, <1>2, <1>3, PTL DEF AccountsSpec

-----------------------------------------------------------------------------
(* What a creation leaves behind.                                          *)

On(a, n) == admin[a].op # "idle" /\ admin[a].name = n
Smooth(n, m) == m = 0 /\ n \notin TestNames
Complete(n, h, u, m) ==
    /\ h.owner \in {u, NoUid}
    /\ Smooth(n, m) => h.owner = u /\ h.venv

(* What is so of the name n, its home h and its rows R, when the program p,*)
(* which alone works on it, is where it is, or has just stopped.           *)
Obliged(p, n, h, R, m) ==
    /\ p.op \in Chosen \union {"uid"} => R = {}
    /\ p.op = "chown" /\ Smooth(n, m) => h.venv
    /\ p.op = "commit" => Complete(n, h, p.uid, m)
    /\ p.op \in {"userdel", "rmtree", "delete"} => \A r \in R : r.id = p.id
    /\ p.op = "idle" => \A r \in R : Complete(n, h, r.uid, m)

(* A name on which two programs work is in raced; a program that works     *)
(* alone finds the name as it left it; and so is it left when it stops.    *)
Alone == \A a, b \in Admins : \A n \in Names \ raced : On(a, n) /\ On(b, n) => a = b
Known == \A a \in Admins : \A n \in Names \ raced :
    On(a, n) => Obliged(admin[a], n, home[n], RowOf(n), mishaps)
Settled == \A r \in rows :
    r.name \notin raced /\ (\A a \in Admins : ~On(a, r.name)) =>
        Complete(r.name, home[r.name], r.uid, mishaps)

AloneInv == mishaps \in Nat /\ Alone /\ Known /\ Settled

LEMMA Smoother ==
    ASSUME NEW p, NEW n, NEW h, NEW R, NEW u, NEW before, NEW after, after = 0 => before = 0
    PROVE  /\ Complete(n, h, u, before) => Complete(n, h, u, after)
           /\ Obliged(p, n, h, R, before) => Obliged(p, n, h, R, after)
BY DEF Complete, Obliged, Smooth

(* A step of a program that works, which touches nothing of other names.   *)
LEMMA WorkStep ==
    ASSUME AccountTypes, AloneInv, NEW a \in Admins, admin[a].op # "idle",
           NEW n0 \in Names, admin[a].name = n0,
           NEW p, admin' = [admin EXCEPT ![a] = p], p.op # "idle" => p.name = n0,
           UNCHANGED raced, mishaps' \in Nat, mishaps' = 0 => mishaps = 0, RowTypes',
           \A n \in Names \ {n0} : home'[n] = home[n] /\ RowOf(n)' = RowOf(n),
           n0 \notin raced => Obliged(p, n0, home'[n0], RowOf(n0)', mishaps')
    PROVE  AloneInv'
<1>1. \A b \in Admins : admin'[b] = IF b = a THEN p ELSE admin[b]
  BY Types DEF AccountTypes
<1>2. \A b \in Admins : \A n : On(b, n)' => On(b, n)
  BY <1>1 DEF On
<1>3. Alone'
  BY <1>2 DEF AloneInv, Alone
<1>4. On(a, n0)
  BY DEF On
<1>5. Known'
  <2>1. SUFFICES ASSUME NEW b \in Admins, NEW n \in Names \ raced, On(b, n)'
                 PROVE  Obliged(admin'[b], n, home'[n], RowOf(n)', mishaps')
    BY DEF Known
  <2>2. CASE b = a
    <3>1. n = n0 /\ admin'[b] = p
      BY <1>1, <1>2, <2>1, <2>2 DEF On
    <3>2. QED
      BY <3>1
  <2>3. CASE b # a
    <3>1. On(b, n) /\ n # n0 /\ admin'[b] = admin[b]
      BY <1>1, <1>2, <1>4, <2>1, <2>3 DEF AloneInv, Alone
    <3>2. Obliged(admin[b], n, home[n], RowOf(n), mishaps)
      BY <3>1 DEF AloneInv, Known
    <3>3. home'[n] = home[n] /\ RowOf(n)' = RowOf(n)
      BY <3>1
    <3>4. Obliged(admin[b], n, home[n], RowOf(n), mishaps')
      BY <3>2, Smoother
    <3>5. QED
      BY <3>1, <3>3, <3>4
  <2>4. QED
    BY <2>2, <2>3
<1>6. Settled'
  <2>1. SUFFICES ASSUME NEW r \in rows', r.name \notin raced, \A b \in Admins : ~On(b, r.name)'
                 PROVE  Complete(r.name, home'[r.name], r.uid, mishaps')
    BY DEF Settled
  <2>2. r.name \in Names /\ r \in RowOf(r.name)'
    BY DEF RowTypes, RowOf
  <2>3. CASE r.name = n0
    <3>1. p.op = "idle"
      BY <1>1, <2>1, <2>3 DEF On
    <3>2. Obliged(p, n0, home'[n0], RowOf(n0)', mishaps') /\ r \in RowOf(n0)'
      BY <2>1, <2>2, <2>3
    <3>3. QED
      BY <2>3, <3>1, <3>2 DEF Obliged
  <2>4. CASE r.name # n0
    <3>1. home'[r.name] = home[r.name] /\ RowOf(r.name)' = RowOf(r.name)
      BY <2>2, <2>4
    <3>2. r \in rows
      BY <2>2, <3>1 DEF RowOf
    <3>3. \A b \in Admins : ~On(b, r.name)
      BY <1>1, <1>4, <2>1, <2>4 DEF On
    <3>4. Complete(r.name, home[r.name], r.uid, mishaps)
      BY <2>1, <3>2, <3>3 DEF AloneInv, Settled
    <3>5. QED
      BY <3>1, <3>4, Smoother
  <2>5. QED
    BY <2>3, <2>4
<1>7. QED
  BY <1>3, <1>5, <1>6 DEF AloneInv

LEMMA Mishaps ==
    ASSUME mishaps \in Nat, CommandWorks \/ CommandFails \/ UNCHANGED mishaps
    PROVE  mishaps' \in Nat /\ (mishaps' = 0 => mishaps = 0 /\ ~CommandFails)
BY DEF CommandWorks, CommandFails

(* The same for a step that leaves the table alone.                        *)
LEMMA HomeOnlyStep ==
    ASSUME AccountTypes, AloneInv, NEW a \in Admins, admin[a].op # "idle",
           NEW n0 \in Names, admin[a].name = n0,
           NEW p, admin' = [admin EXCEPT ![a] = p], p.op # "idle" => p.name = n0,
           UNCHANGED <<rows, raced>>, CommandWorks \/ CommandFails \/ UNCHANGED mishaps,
           \A n \in Names \ {n0} : home'[n] = home[n],
           n0 \notin raced => Obliged(p, n0, home'[n0], RowOf(n0), mishaps')
    PROVE  AloneInv'
<1>1. \A n : RowOf(n)' = RowOf(n)
  BY DEF RowOf
<1>2. RowTypes'
  BY Parts DEF AccountTypes, Rest, RowTypes
<1>3. mishaps' \in Nat /\ (mishaps' = 0 => mishaps = 0)
  BY Mishaps DEF AloneInv
<1>4. QED
  BY <1>1, <1>2, <1>3, WorkStep

LEMMA KnownHere ==
    ASSUME AloneInv, NEW a \in Admins, admin[a].op # "idle", NEW n0 \in Names \ raced, admin[a].name = n0
    PROVE  Obliged(admin[a], n0, home[n0], RowOf(n0), mishaps)
BY DEF AloneInv, Known, On

(* A creation that is at op and has not touched the table, or has stopped. *)
LEMMA NoRowObliges ==
    ASSUME NEW p, p.op \in {"idle", "uid", "claim", "useradd", "fill"}, NEW n, NEW h, NEW m
    PROVE  Obliged(p, n, h, {}, m)
BY DEF Obliged, Plain, Chosen

LEMMA FreeIsIdle == AtRest.op = "idle"
BY DEF AtRest

(* Those that do not touch the home: _generate_next_uid and useradd.       *)
LEMMA ChoiceAlone ==
    ASSUME AccountTypes, AloneInv, NEW a \in Admins, NEW n0 \in Names, admin[a].name = n0,
           CreateUid(a) \/ Useradd(a)
    PROVE  AloneInv'
<1>1. admin[a].op \in {"uid", "useradd"} /\ admin[a].op # "idle"
  BY DEF CreateUid, Useradd
<1>2. PICK p : /\ admin' = [admin EXCEPT ![a] = p]
               /\ p.op \in {"idle", "claim", "fill"}
               /\ p.op # "idle" => p.name = n0
  <2>1. CASE Stop(a)
    BY <2>1, FreeIsIdle DEF Stop
  <2>2. CASE admin' = [admin EXCEPT ![a].op = "claim", ![a].uid = NextUid]
    <3> DEFINE p == [admin[a] EXCEPT !.op = "claim", !.uid = NextUid]
    <3>1. admin' = [admin EXCEPT ![a] = p]
      BY <2>2, Types DEF AccountTypes
    <3>2. p.op = "claim" /\ p.name = n0
      BY DEF AccountTypes, Working, Program
    <3>3. QED
      BY <3>1, <3>2
  <2>3. CASE Goto(a, "fill")
    <3> DEFINE p == [admin[a] EXCEPT !.op = "fill"]
    <3>1. admin' = [admin EXCEPT ![a] = p]
      BY <2>3 DEF Goto
    <3>2. p.op = "fill" /\ p.name = n0
      BY DEF AccountTypes, Working, Program
    <3>3. QED
      BY <3>1, <3>2
  <2>4. QED
    BY <2>1, <2>2, <2>3 DEF CreateUid, Useradd, AddAccount
<1>3. n0 \notin raced => RowOf(n0) = {}
  BY <1>1, KnownHere DEF Obliged, Chosen
<1>4. UNCHANGED <<rows, home, raced>> /\ (CommandWorks \/ CommandFails \/ UNCHANGED mishaps)
  BY DEF CreateUid, Useradd, AddAccount
<1>5. n0 \notin raced => Obliged(p, n0, home'[n0], RowOf(n0), mishaps')
  BY <1>2, <1>3, NoRowObliges
<1>6. QED
  BY <1>1, <1>2, <1>4, <1>5, HomeOnlyStep

(* Where a program goes.                                                   *)
LEMMA Went ==
    ASSUME AccountTypes, NEW a \in Admins, NEW op, Goto(a, op) \/ Stop(a)
    PROVE  \E p : /\ admin' = [admin EXCEPT ![a] = p]
                  /\ p.op \in {op, "idle"}
                  /\ p.op # "idle" => p.name = admin[a].name /\ p.id = admin[a].id /\ p.uid = admin[a].uid
                  /\ Goto(a, op) => p.op = op
<1>1. CASE Goto(a, op)
  <2> DEFINE p == [admin[a] EXCEPT !.op = op]
  <2>1. admin' = [admin EXCEPT ![a] = p]
    BY <1>1 DEF Goto
  <2>2. p.op = op /\ p.name = admin[a].name /\ p.id = admin[a].id /\ p.uid = admin[a].uid
    BY DEF AccountTypes, Working, Program
  <2>3. QED
    BY <2>1, <2>2
<1>2. CASE ~Goto(a, op) /\ Stop(a)
  BY <1>2, FreeIsIdle DEF Stop
<1>3. QED
  BY <1>1, <1>2

LEMMA ClaimHomeAlone ==
    ASSUME AccountTypes, AloneInv, NEW a \in Admins, NEW n0 \in Names, admin[a].name = n0, ClaimHome(a)
    PROVE  AloneInv'
<1>1. admin[a].op = "claim" /\ admin[a].op # "idle" /\ UNCHANGED <<rows, raced>> /\ (CommandWorks \/ CommandFails)
  BY DEF ClaimHome
<1>2. PICK p : /\ admin' = [admin EXCEPT ![a] = p]
               /\ p.op \in {"useradd", "idle"}
               /\ p.op # "idle" => p.name = n0
  <2>1. Goto(a, "useradd") \/ Stop(a)
    BY DEF ClaimHome
  <2>2. QED
    BY <2>1, Went
<1>3. \A n \in Names \ {n0} : home'[n] = home[n]
  BY Parts DEF AccountTypes, Rest, HomeTypes, ClaimHome
<1>4. n0 \notin raced => RowOf(n0) = {}
  BY <1>1, KnownHere DEF Obliged, Chosen
<1>5. n0 \notin raced => Obliged(p, n0, home'[n0], RowOf(n0), mishaps')
  BY <1>2, <1>4 DEF Obliged, Chosen
<1>6. QED
  BY <1>1, <1>2, <1>3, <1>5, HomeOnlyStep

LEMMA FillHomeAlone ==
    ASSUME AccountTypes, AloneInv, NEW a \in Admins, NEW n0 \in Names, admin[a].name = n0, FillHome(a)
    PROVE  AloneInv'
<1>1. admin[a].op = "fill" /\ admin[a].op # "idle" /\ UNCHANGED <<rows, raced>> /\ (CommandWorks \/ CommandFails)
  BY DEF FillHome, MakeVenv
<1>2. PICK p : /\ admin' = [admin EXCEPT ![a] = p]
               /\ p.op \in {"chown", "idle"}
               /\ p.op # "idle" => p.name = n0
  <2>1. Goto(a, "chown") \/ Stop(a)
    BY DEF FillHome
  <2>2. QED
    BY <2>1, Went
<1>3. HomeTypes /\ mishaps \in Nat
  BY Parts DEF AccountTypes, Rest, AloneInv
<1>4. \A n \in Names \ {n0} : home'[n] = home[n]
  BY <1>3 DEF HomeTypes, FillHome, MakeVenv
<1>5. n0 \notin raced => RowOf(n0) = {}
  BY <1>1, KnownHere DEF Obliged, Chosen
<1>6. p.op = "chown" /\ mishaps' = 0 => home'[n0].venv
  <2>1. CASE MakeVenv(n0)
    <3>1. ASSUME mishaps' = 0 PROVE home' = [home EXCEPT ![n0].venv = TRUE]
      BY <1>3, <2>1, <3>1, Mishaps DEF MakeVenv
    <3>2. QED
      BY <1>3, <3>1 DEF HomeTypes
  <2>2. CASE Stop(a)
    <3>1. admin'[a] = p /\ admin'[a] = AtRest
      BY <1>2, <2>2, Types DEF Stop, AccountTypes
    <3>2. QED
      BY <3>1, FreeIsIdle
  <2>3. QED
    BY <2>1, <2>2 DEF FillHome
<1>7. n0 \notin raced => Obliged(p, n0, home'[n0], RowOf(n0), mishaps')
  BY <1>2, <1>5, <1>6 DEF Obliged, Chosen, Smooth
<1>8. QED
  BY <1>1, <1>2, <1>4, <1>7, HomeOnlyStep

LEMMA ChownHomeAlone ==
    ASSUME AccountTypes, AloneInv, NEW a \in Admins, NEW n0 \in Names, admin[a].name = n0, ChownHome(a)
    PROVE  AloneInv'
<1>1. admin[a].op = "chown" /\ admin[a].op # "idle" /\ UNCHANGED <<rows, raced>> /\ (CommandWorks \/ CommandFails)
  BY DEF ChownHome
<1>2. HomeTypes /\ mishaps \in Nat
  BY Parts DEF AccountTypes, Rest, AloneInv
<1>3. n0 \notin raced => RowOf(n0) = {} /\ (Smooth(n0, mishaps) => home[n0].venv)
  BY <1>1, KnownHere DEF Obliged, Chosen
<1>4. CASE Goto(a, "commit") /\ CommandWorks /\ home' = [home EXCEPT ![n0].owner = admin[a].uid]
  <2>1. PICK p : /\ admin' = [admin EXCEPT ![a] = p]
                 /\ p.op = "commit" /\ p.name = n0 /\ p.uid = admin[a].uid
    BY <1>4, Went
  <2>2. home'[n0].owner = p.uid /\ home'[n0].venv = home[n0].venv
    BY <1>2, <1>4, <2>1 DEF HomeTypes
  <2>3. n0 \notin raced => Obliged(p, n0, home'[n0], RowOf(n0), mishaps')
    BY <1>3, <1>4, <2>1, <2>2 DEF Obliged, Chosen, Complete, Smooth, CommandWorks
  <2>4. \A n \in Names \ {n0} : home'[n] = home[n]
    BY <1>2, <1>4 DEF HomeTypes
  <2>5. QED
    BY <1>1, <2>1, <2>3, <2>4, HomeOnlyStep
<1>5. CASE Stop(a) /\ UNCHANGED home
  <2>1. n0 \notin raced => Obliged(AtRest, n0, home'[n0], RowOf(n0), mishaps')
    BY <1>3, FreeIsIdle, NoRowObliges
  <2>2. QED
    BY <1>1, <1>5, <2>1, FreeIsIdle, HomeOnlyStep DEF Stop
<1>6. QED
  BY <1>4, <1>5 DEF ChownHome

LEMMA CreateCommitAlone ==
    ASSUME AccountTypes, AccountTypes', AloneInv, NEW a \in Admins, NEW n0 \in Names, admin[a].name = n0,
           CreateCommit(a)
    PROVE  AloneInv'
<1>1. /\ admin[a].op = "commit" /\ admin[a].op # "idle" /\ UNCHANGED <<home, raced>> /\ (CommandWorks \/ CommandFails)
      /\ admin' = [admin EXCEPT ![a] = AtRest]
  BY DEF CreateCommit, Stop
<1>2. n0 \notin raced => RowOf(n0) = {} /\ Complete(n0, home[n0], admin[a].uid, mishaps)
  BY <1>1, KnownHere DEF Obliged, Chosen
<1>3. mishaps' \in Nat /\ (mishaps' = 0 => mishaps = 0)
  BY <1>1, Mishaps DEF AloneInv
<1>4. PICK new : /\ new.name = n0 /\ new.uid = admin[a].uid
                 /\ rows' = rows \/ rows' = rows \union {new}
  BY DEF CreateCommit
<1>5. \A n \in Names \ {n0} : RowOf(n)' = RowOf(n)
  BY <1>4 DEF RowOf
<1>6. n0 \notin raced => \A r \in RowOf(n0)' : r.uid = admin[a].uid
  BY <1>2, <1>4 DEF RowOf
<1>7. n0 \notin raced => Obliged(AtRest, n0, home'[n0], RowOf(n0)', mishaps')
  BY <1>1, <1>2, <1>3, <1>6, FreeIsIdle, Smoother DEF Obliged, Chosen
<1>8. RowTypes'
  BY PartsPrimed, Parts DEF AccountTypes, AccountsTypeOK, RowTypes
<1>9. QED
  BY <1>1, <1>3, <1>5, <1>7, <1>8, FreeIsIdle, WorkStep

LEMMA DeleteStepAlone ==
    ASSUME AccountTypes, AloneInv, NEW a \in Admins, NEW n0 \in Names, admin[a].name = n0,
           DeleteAccount(a) \/ DeleteHome(a)
    PROVE  AloneInv'
<1>1. /\ admin[a].op \in {"userdel", "rmtree"} /\ admin[a].op # "idle"
      /\ UNCHANGED <<rows, raced>> /\ (CommandWorks \/ CommandFails)
  BY DEF DeleteAccount, DeleteHome
<1>2. PICK p : /\ admin' = [admin EXCEPT ![a] = p]
               /\ p.op \in {"rmtree", "delete"} /\ p.name = n0 /\ p.id = admin[a].id
  <2>1. PICK op \in {"rmtree", "delete"} : Goto(a, op)
    BY DEF DeleteAccount, DeleteHome
  <2>2. QED
    BY <2>1, Went
<1>3. \A n \in Names \ {n0} : home'[n] = home[n]
  BY Parts DEF AccountTypes, Rest, HomeTypes, DeleteAccount, DeleteHome
<1>4. n0 \notin raced => \A r \in RowOf(n0) : r.id = admin[a].id
  BY <1>1, KnownHere DEF Obliged
<1>5. n0 \notin raced => Obliged(p, n0, home'[n0], RowOf(n0), mishaps')
  BY <1>2, <1>4 DEF Obliged, Chosen
<1>6. QED
  BY <1>1, <1>2, <1>3, <1>5, HomeOnlyStep

(* The numbers of the rows: one bears the name for which it was given out. *)
Bears(i, n) == (\E r \in rows : r.id = i /\ r.name = n) \/ (\E a \in Admins : On(a, n) /\ admin[a].id = i)
OneName == \A i, m, n : Bears(i, m) /\ Bears(i, n) => m = n

LEMMA DeleteRowAlone ==
    ASSUME AccountTypes, AccountTypes', AloneInv, OneName, NEW a \in Admins, NEW n0 \in Names, admin[a].name = n0,
           DeleteUserRow(a)
    PROVE  AloneInv'
<1>1. /\ admin[a].op = "delete" /\ admin[a].op # "idle" /\ UNCHANGED <<home, raced, mishaps>>
      /\ admin' = [admin EXCEPT ![a] = AtRest]
      /\ rows' = {r \in rows : r.id # admin[a].id}
  BY DEF DeleteUserRow, Stop
<1>2. Bears(admin[a].id, n0)
  BY <1>1 DEF Bears, On
<1>3. \A n \in Names \ {n0} : RowOf(n)' = RowOf(n)
  <2>1. \A r \in rows : r.id = admin[a].id => r.name = n0
    BY <1>2 DEF OneName, Bears
  <2>2. QED
    BY <1>1, <2>1 DEF RowOf
<1>4. n0 \notin raced => RowOf(n0)' = {}
  <2>1. n0 \notin raced => \A r \in RowOf(n0) : r.id = admin[a].id
    BY <1>1, KnownHere DEF Obliged
  <2>2. QED
    BY <1>1, <2>1 DEF RowOf
<1>5. n0 \notin raced => Obliged(AtRest, n0, home'[n0], RowOf(n0)', mishaps')
  BY <1>4, FreeIsIdle, NoRowObliges
<1>6. RowTypes' /\ mishaps' \in Nat /\ (mishaps' = 0 => mishaps = 0)
  BY <1>1, PartsPrimed, Parts DEF AccountTypes, AccountsTypeOK, RowTypes, AloneInv
<1>7. QED
  BY <1>1, <1>3, <1>5, <1>6, FreeIsIdle, WorkStep

(* The first step of a program.                                            *)
LEMMA FirstStepAlone ==
    ASSUME AccountTypes, AloneInv, NEW a \in Admins, NEW n0 \in Names,
           CreateCheck(a, n0) \/ DeleteFind(a, n0), OneRow
    PROVE  AloneInv'
<1>1. admin[a] = AtRest /\ UNCHANGED <<rows, home, mishaps>>
  BY DEF CreateCheck, DeleteFind
<1>2. PICK op, i : /\ StartProgram(a, op, n0, i)
                   /\ \/ op = "uid" /\ RowOf(n0) = {}
                      \/ op \in {"userdel", "rmtree"} /\ \A r \in RowOf(n0) : r.id = i
  <2>1. CASE CreateCheck(a, n0)
    BY <2>1 DEF CreateCheck
  <2>2. CASE DeleteFind(a, n0)
    <3>1. PICK r \in RowOf(n0), linux \in BOOLEAN : StartProgram(a, IF linux THEN "userdel" ELSE "rmtree", n0, r.id)
      BY <2>2 DEF DeleteFind
    <3>2. \A s \in RowOf(n0) : s.id = r.id
      BY <3>1 DEF RowOf, OneRow
    <3>3. QED
      BY <3>1, <3>2
  <2>3. QED
    BY <2>1, <2>2
<1> DEFINE p == [op |-> op, name |-> n0, uid |-> NoUid, id |-> i]
<1>3. p.op = op /\ p.name = n0 /\ p.id = i
  OBVIOUS
<1>4. \A b \in Admins : admin'[b] = IF b = a THEN p ELSE admin[b]
  BY <1>2, Types DEF StartProgram, AccountTypes
<1>5. \A b \in Admins : \A n : On(b, n)' => On(b, n) \/ (b = a /\ n = n0)
  BY <1>3, <1>4 DEF On
<1>6. raced \subseteq raced' /\ (n0 \notin raced' => \A b \in Admins : ~On(b, n0))
  BY <1>2 DEF StartProgram, On
<1>7. Alone'
  BY <1>5, <1>6 DEF AloneInv, Alone
<1>8. \A n : RowOf(n)' = RowOf(n)
  BY <1>1 DEF RowOf
<1>9. Known'
  <2>1. SUFFICES ASSUME NEW b \in Admins, NEW n \in Names \ raced', On(b, n)'
                 PROVE  Obliged(admin'[b], n, home'[n], RowOf(n)', mishaps')
    BY DEF Known
  <2>2. CASE b = a
    <3>1. admin'[b] = p /\ n = n0
      BY <1>3, <1>4, <2>1, <2>2 DEF On
    <3>2. Obliged(p, n0, home[n0], RowOf(n0), mishaps)
      BY <1>2, <1>3 DEF Obliged, Chosen
    <3>3. QED
      BY <1>1, <1>8, <3>1, <3>2
  <2>3. CASE b # a
    <3>1. On(b, n) /\ admin'[b] = admin[b] /\ n \in Names \ raced
      BY <1>4, <1>5, <1>6, <2>1, <2>3
    <3>2. Obliged(admin[b], n, home[n], RowOf(n), mishaps)
      BY <3>1 DEF AloneInv, Known
    <3>3. QED
      BY <1>1, <1>8, <3>1, <3>2
  <2>4. QED
    BY <2>2, <2>3
<1>10. Settled'
  <2>1. SUFFICES ASSUME NEW r \in rows, r.name \notin raced', \A b \in Admins : ~On(b, r.name)'
                 PROVE  Complete(r.name, home[r.name], r.uid, mishaps)
    BY <1>1 DEF Settled
  <2>2. op # "idle" /\ r.name # n0
    BY <1>2, <1>3, <1>4, <2>1 DEF On
  <2>3. \A b \in Admins : ~On(b, r.name)
    BY <1>1, <1>4, <2>1, FreeIsIdle DEF On
  <2>4. QED
    BY <1>6, <2>1, <2>3 DEF AloneInv, Settled
<1>11. QED
  BY <1>1, <1>7, <1>9, <1>10 DEF AloneInv

(* Steps of no program: only the clean-up of the tests touches a home.     *)
LEMMA OtherAlone ==
    ASSUME AccountTypes, AloneInv, UNCHANGED <<rows, admin, mishaps, raced>>,
           \A n \in Names : home'[n] = home[n] \/ (n \in TestNames /\ home'[n] = Gone)
    PROVE  AloneInv'
<1>1. \A n : RowOf(n)' = RowOf(n)
  BY DEF RowOf
<1>2. \A b \in Admins : \A n : On(b, n)' <=> On(b, n)
  BY DEF On
<1>3. Alone'
  BY <1>2 DEF AloneInv, Alone
<1>4. \A n \in TestNames : \A u : Complete(n, Gone, u, mishaps)
  BY DEF Complete, Gone, Smooth
<1>5. \A n \in TestNames : \A p, h, R : Obliged(p, n, h, R, mishaps) => Obliged(p, n, Gone, R, mishaps)
  BY <1>4 DEF Obliged, Smooth
<1>6. Known'
  <2>1. SUFFICES ASSUME NEW b \in Admins, NEW n \in Names \ raced, On(b, n)
                 PROVE  Obliged(admin[b], n, home'[n], RowOf(n), mishaps)
    BY <1>1, <1>2 DEF Known
  <2>2. Obliged(admin[b], n, home[n], RowOf(n), mishaps)
    BY <2>1 DEF AloneInv, Known
  <2>3. QED
    BY <1>5, <2>2
<1>7. Settled'
  <2>1. SUFFICES ASSUME NEW r \in rows, r.name \notin raced, \A b \in Admins : ~On(b, r.name)
                 PROVE  Complete(r.name, home'[r.name], r.uid, mishaps)
    BY <1>2 DEF Settled
  <2>2. Complete(r.name, home[r.name], r.uid, mishaps)
    BY <2>1 DEF AloneInv, Settled
  <2>3. r.name \in Names
    BY Types DEF AccountTypes
  <2>4. QED
    BY <1>4, <2>2, <2>3
<1>8. QED
  BY <1>3, <1>6, <1>7 DEF AloneInv

LEMMA CleanupAlone ==
    ASSUME AccountTypes, AloneInv, NEW n0 \in Names, CleanupTestUsers(n0)
    PROVE  AloneInv'
<1>1. HomeTypes
  BY Parts DEF AccountTypes, Rest
<1>2. \A n \in Names : home'[n] = home[n] \/ (n \in TestNames /\ home'[n] = Gone)
  BY <1>1 DEF HomeTypes, CleanupTestUsers, CleanupHome, CleanupAccount
<1>3. QED
  BY <1>2, OtherAlone DEF CleanupTestUsers, CleanupHome, CleanupAccount

LEMMA AloneStep ==
    ASSUME AccountTypes, AccountTypes', OneRow, OneName, AloneInv, [AccountsNext]_accountsVars
    PROVE  AloneInv'
<1>1. ASSUME NEW a \in Admins, NEW n \in Names, CreateCheck(a, n) \/ DeleteFind(a, n) PROVE AloneInv'
  BY <1>1, FirstStepAlone
<1>2. ASSUME NEW a \in Admins,
             \/ CreateUid(a) \/ ClaimHome(a) \/ Useradd(a) \/ FillHome(a) \/ ChownHome(a)
             \/ CreateCommit(a) \/ DeleteAccount(a) \/ DeleteHome(a) \/ DeleteUserRow(a)
      PROVE  AloneInv'
  <2>1. admin[a].op # "idle"
    BY <1>2 DEF CreateUid, ClaimHome, Useradd, FillHome, ChownHome, CreateCommit, DeleteAccount,
       DeleteHome, DeleteUserRow
  <2>2. PICK n0 \in Names : admin[a].name = n0
    BY <2>1 DEF AccountTypes, Working, Program
  <2>3. QED
    BY <1>2, <2>2, ChoiceAlone, ClaimHomeAlone, FillHomeAlone, ChownHomeAlone, CreateCommitAlone,
       DeleteStepAlone, DeleteRowAlone
<1>3. ASSUME NEW n \in Names, Login(n) \/ CleanupTestUsers(n) PROVE AloneInv'
  BY <1>3, CleanupAlone, OtherAlone DEF Login
<1>4. ASSUME NEW c \in Clients, LoadUser(c) \/ Respond(c) \/ \E t \in tokens : Authorize(c, t)
      PROVE  AloneInv'
  BY <1>4, OtherAlone DEF LoadUser, Respond, Authorize
<1>5. CASE UNCHANGED accountsVars
  BY <1>5, OtherAlone DEF accountsVars
<1>6. QED
  BY <1>1, <1>2, <1>3, <1>4, <1>5 DEF AccountsNext

LEMMA OneNameStep ==
    ASSUME AccountsAssumption, AccountTypes, OneName, [AccountsNext]_accountsVars
    PROVE  OneName'
<1>1. CASE \A i, n : Bears(i, n)' => Bears(i, n)
  BY <1>1 DEF OneName
<1>2. ASSUME NEW a \in Admins, NEW n0 \in Names, CreateCheck(a, n0) PROVE OneName'
  <2>1. \A i, n : Bears(i, n)' => Bears(i, n) \/ (i = ids + 1 /\ n = n0)
    BY <1>2, Types DEF AccountTypes, CreateCheck, StartProgram, Bears, On
  <2>2. \A i, n : Bears(i, n) => i \in 1 .. ids
    BY DEF AccountTypes, Numbered, Working, Program, Bears, On
  <2>3. ids + 1 \notin 1 .. ids
    BY Ids DEF AccountTypes
  <2>4. QED
    BY <2>1, <2>2, <2>3 DEF OneName
<1>3. ASSUME NEW a \in Admins, NEW n0 \in Names, DeleteFind(a, n0) PROVE OneName'
  <2>1. PICK r \in RowOf(n0), linux \in BOOLEAN : StartProgram(a, IF linux THEN "userdel" ELSE "rmtree", n0, r.id)
    BY <1>3 DEF DeleteFind
  <2>2. r \in rows /\ r.name = n0
    BY DEF RowOf
  <2>3. \A b \in Admins : \A n : On(b, n)' => (b = a /\ n = n0 /\ admin'[b].id = r.id) \/ (On(b, n) /\ admin'[b] = admin[b])
    BY <2>1, Types DEF AccountTypes, StartProgram, On
  <2>4. \A i, n : Bears(i, n)' => Bears(i, n)
    BY <1>3, <2>2, <2>3 DEF DeleteFind, Bears
  <2>5. QED
    BY <1>1, <2>4
<1>4. ASSUME NEW a \in Admins,
             \/ CreateUid(a) \/ ClaimHome(a) \/ Useradd(a) \/ FillHome(a) \/ ChownHome(a)
             \/ CreateCommit(a) \/ DeleteAccount(a) \/ DeleteHome(a) \/ DeleteUserRow(a)
      PROVE  OneName'
  <2>1. \A b \in Admins : \A n : On(b, n)' => On(b, n) /\ admin'[b].id = admin[b].id
    <3>1. \A b \in Admins \ {a} : admin'[b] = admin[b]
      BY <1>4, Types DEF AccountTypes, CreateUid, ClaimHome, Useradd, AddAccount, FillHome, ChownHome,
         CreateCommit, DeleteAccount, DeleteHome, DeleteUserRow, Goto, Stop
    <3>2. admin[a].op # "idle"
      BY <1>4 DEF CreateUid, ClaimHome, Useradd, FillHome, ChownHome, CreateCommit, DeleteAccount,
         DeleteHome, DeleteUserRow
    <3>3. admin'[a].op = "idle" \/ (admin'[a].name = admin[a].name /\ admin'[a].id = admin[a].id)
      <4>1. CASE CreateUid(a) /\ ~Stop(a)
        BY <4>1, Types DEF AccountTypes, CreateUid
      <4>2. CASE Stop(a)
        BY <4>2, Types, FreeIsIdle DEF AccountTypes, Stop
      <4>3. ASSUME NEW op, Goto(a, op) PROVE admin'[a].name = admin[a].name /\ admin'[a].id = admin[a].id
        BY <4>3, Types DEF AccountTypes, Goto
      <4>4. Stop(a) \/ (CreateUid(a) /\ ~Stop(a)) \/ \E op : Goto(a, op)
        BY <1>4 DEF ClaimHome, Useradd, AddAccount, FillHome, ChownHome, CreateCommit, DeleteAccount,
           DeleteHome, DeleteUserRow
      <4>5. QED
        BY <4>1, <4>2, <4>3, <4>4
    <3>4. QED
      BY <3>1, <3>2, <3>3 DEF On
  <2>2. \A r \in rows' : r \in rows \/ Bears(r.id, r.name)
    <3>1. CASE CreateCommit(a)
      <4>1. Bears(admin[a].id, admin[a].name)
        BY <3>1 DEF CreateCommit, Bears, On
      <4>2. QED
        BY <3>1, <4>1 DEF CreateCommit
    <3>2. CASE rows' \subseteq rows
      BY <3>2
    <3>3. QED
      BY <1>4, <3>1, <3>2 DEF CreateUid, ClaimHome, Useradd, FillHome, ChownHome,
         DeleteAccount, DeleteHome, DeleteUserRow
  <2>3. \A i, n : Bears(i, n)' => Bears(i, n)
    BY <2>1, <2>2 DEF Bears
  <2>4. QED
    BY <1>1, <2>3
<1>5. CASE UNCHANGED <<rows, admin>>
  BY <1>1, <1>5 DEF Bears, On
<1>6. QED
  BY <1>2, <1>3, <1>4, <1>5 DEF AccountsNext, accountsVars, Login, CleanupTestUsers, CleanupHome, CleanupAccount,
     LoadUser, Respond, Authorize

(* Once no program works on a name and none ever did together with another,*)
(* the home of a user belongs to the UID of his row or is gone, whatever   *)
(* failed on the way and in whatever order the programs ran; and if        *)
(* nothing failed and he is no user of the tests, he can log in.           *)
THEOREM AccountsAreComplete == ASSUME AccountsAssumption PROVE AccountsSpec => []AccountIsComplete
<1> DEFINE Inv == AccountTypes /\ OneRow /\ OneName /\ AloneInv
<1>1. AccountsInit => Inv
  <2>1. SUFFICES ASSUME AccountsInit PROVE Inv
    OBVIOUS
  <2>2. \A a \in Admins : \A n : ~On(a, n)
    BY <2>1, FreeIsIdle DEF AccountsInit, On
  <2>3. QED
    BY <2>1, <2>2, InitTypes DEF AccountsInit, OneRow, OneName, Bears, AloneInv, Alone, Known, Settled
<1>2. Inv /\ [AccountsNext]_accountsVars => Inv'
  BY AccountTypeStep, OneRowStep, OneNameStep, AloneStep
<1>3. Inv => AccountIsComplete
  BY DEF AloneInv, Settled, On, Complete, Smooth, AccountIsComplete, ValidEnvironment
<1>4. QED
  BY <1>1, <1>2, <1>3, PTL DEF AccountsSpec

-----------------------------------------------------------------------------
(* The store: for any number of requests, tool calls, runs and failures    *)

Ops == {"idle", "row", "cleanup", "loaded", "directory", "checkpoints", "turns"}

(* Copies of the row, and the row itself, never count a turn that was not  *)
(* given.                                                                  *)
StoreTypes ==
    /\ row \in RowType /\ row.turns <= runs
    /\ dir \in BOOLEAN /\ born \in BOOLEAN
CallerTypes ==
    /\ caller \in [Callers -> [op : Ops, row : RowType]]
    /\ \A c \in Callers : caller[c].row.turns <= runs
TrackerTypes ==
    /\ uses \in 0 .. MaxUses /\ pending \subseteq 1 .. uses /\ writes \subseteq 1 .. uses
    /\ made \in Seq(writes) /\ taken \in 0 .. Len(made)
CountTypes == runs \in 0 .. MaxRuns /\ failed \in Nat

StoreTypeInv == StoreTypes /\ CallerTypes /\ TrackerTypes /\ CountTypes

LEMMA StoreConstants == StoreAssumption => MaxUses \in Nat /\ MaxRuns \in Nat /\ MaxFailures \in Nat
BY DEF StoreAssumption

LEMMA AbsentType ==
    ASSUME StoreAssumption
    PROVE  Absent \in RowType /\ Absent.turns = 0 /\ ~Absent.there
<1>1. <<>> \in Seq(1 .. MaxUses)
  BY EmptySeq
<1>2. 0 \in 0 .. MaxRuns
  BY StoreConstants
<1>3. QED
  BY <1>1, <1>2 DEF Absent, RowType

LEMMA FreeType ==
    ASSUME StoreAssumption
    PROVE  Free \in [op : Ops, row : RowType] /\ Free.row = Absent /\ Free.op = "idle"
BY AbsentType DEF Free, Ops

LEMMA Failures == ASSUME failed \in Nat, Goes \/ Fails \/ UNCHANGED failed PROVE failed' \in Nat
BY DEF Goes, Fails

(* A step of one request.                                                  *)
LEMMA CallerTypeStep ==
    ASSUME StoreAssumption, CallerTypes, CountTypes, NEW c \in Callers, runs' \in Nat, runs <= runs',
           NEW r \in [op : Ops, row : RowType], r.row.turns <= runs', caller' = [caller EXCEPT ![c] = r]
    PROVE  CallerTypes'
<1>1. \A d \in Callers : caller[d].row.turns \in Nat /\ caller[d].row.turns <= runs
  BY DEF CallerTypes, RowType
<1>2. runs \in Nat
  BY StoreConstants DEF CountTypes
<1>3. \A d \in Callers : caller'[d].row.turns <= runs'
  BY <1>1, <1>2 DEF CallerTypes
<1>4. caller' \in [Callers -> [op : Ops, row : RowType]]
  BY DEF CallerTypes
<1>5. QED
  BY <1>3, <1>4 DEF CallerTypes

LEMMA MoveTypes ==
    ASSUME StoreAssumption, StoreTypeInv, NEW c \in Callers, UNCHANGED runs,
           (\E op \in Ops : Move(c, op)) \/ Done(c)
    PROVE  CallerTypes'
<1>1. runs \in Nat /\ runs <= runs
  BY StoreConstants DEF StoreTypeInv, CountTypes
<1>2. PICK r : /\ caller' = [caller EXCEPT ![c] = r]
               /\ r \in [op : Ops, row : RowType] /\ r.row.turns <= runs
  <2>1. CASE \E op \in Ops : Move(c, op)
    <3>1. PICK op \in Ops : caller' = [caller EXCEPT ![c] = [caller[c] EXCEPT !.op = op]]
      BY <2>1 DEF Move
    <3>2. [caller[c] EXCEPT !.op = op] \in [op : Ops, row : RowType]
          /\ [caller[c] EXCEPT !.op = op].row = caller[c].row
      BY DEF StoreTypeInv, CallerTypes
    <3>3. caller[c].row.turns <= runs
      BY DEF StoreTypeInv, CallerTypes
    <3>4. QED
      BY <3>1, <3>2, <3>3
  <2>2. CASE Done(c)
    <3>1. Free.row.turns = 0
      BY FreeType, AbsentType
    <3>2. Free.row.turns <= runs
      BY <1>1, <3>1
    <3>3. caller' = [caller EXCEPT ![c] = Free]
      BY <2>2 DEF Done
    <3>4. QED
      BY <3>2, <3>3, FreeType
  <2>3. QED
    BY <2>1, <2>2
<1>3. runs' \in Nat /\ runs <= runs' /\ r.row.turns <= runs'
  BY <1>1, <1>2
<1>4. CallerTypes /\ CountTypes
  BY DEF StoreTypeInv
<1>5. QED
  BY <1>2, <1>3, <1>4, CallerTypeStep

LEMMA CreateTypes ==
    ASSUME StoreAssumption, StoreTypeInv, NEW c \in Callers,
           CreateDirectory(c) \/ CreateRow(c) \/ CreateCleanup(c) \/ DeleteRow(c) \/ DeleteDirectory(c)
    PROVE  StoreTypeInv'
<1>1. UNCHANGED <<tracker, runs>> /\ (Goes \/ Fails)
  BY DEF CreateDirectory, CreateRow, CreateCleanup, DeleteRow, DeleteDirectory, CleanupDirectory
<1>2. (\E op \in Ops : Move(c, op)) \/ Done(c)
  BY DEF CreateDirectory, CreateRow, CreateCleanup, DeleteRow, DeleteDirectory, Ops
<1>3. CallerTypes'
  BY <1>1, <1>2, MoveTypes
<1>4. CountTypes' /\ TrackerTypes'
  BY <1>1, Failures DEF StoreTypeInv, CountTypes, TrackerTypes, tracker
<1>5. StoreTypes'
  <2>1. dir' \in BOOLEAN /\ born' \in BOOLEAN
    BY DEF StoreTypeInv, StoreTypes, CreateDirectory, CreateRow, CreateCleanup, DeleteRow, DeleteDirectory,
       CleanupDirectory
  <2>2. row' \in {row, Absent, [Absent EXCEPT !.there = TRUE]}
    BY DEF CreateDirectory, CreateRow, CreateCleanup, DeleteRow, DeleteDirectory
  <2>3. 0 <= runs
    BY StoreConstants DEF StoreTypeInv, CountTypes
  <2>4. row' \in RowType /\ row'.turns <= runs
    <3>1. [Absent EXCEPT !.there = TRUE] \in RowType /\ [Absent EXCEPT !.there = TRUE].turns = 0
      BY AbsentType DEF RowType
    <3>2. QED
      BY <2>2, <2>3, <3>1, AbsentType DEF StoreTypeInv, StoreTypes
  <2>5. QED
    BY <1>1, <2>1, <2>4 DEF StoreTypes
<1>6. QED
  BY <1>3, <1>4, <1>5 DEF StoreTypeInv

LEMMA LoadTypes ==
    ASSUME StoreAssumption, StoreTypeInv, NEW c \in Callers, Load(c)
    PROVE  StoreTypeInv'
<1>1. runs \in Nat /\ runs <= runs
  BY StoreConstants DEF StoreTypeInv, CountTypes
<1>2. PICK r : caller' = [caller EXCEPT ![c] = r] /\ r \in [op : Ops, row : RowType] /\ r.row.turns <= runs
  <2> DEFINE r == [op |-> "loaded", row |-> row]
  <2>1. row \in RowType /\ row.turns <= runs
    BY DEF StoreTypeInv, StoreTypes
  <2>2. r \in [op : Ops, row : RowType] /\ r.row = row
    BY <2>1 DEF Ops
  <2>3. caller' = [caller EXCEPT ![c] = r]
    BY DEF Load
  <2>4. QED
    BY <2>1, <2>2, <2>3
<1>3. CallerTypes /\ CountTypes /\ UNCHANGED <<born, row, dir, tracker, runs, failed>>
  BY DEF StoreTypeInv, Load
<1>4. CallerTypes'
  BY <1>1, <1>2, <1>3, CallerTypeStep
<1>5. QED
  BY <1>3, <1>4 DEF StoreTypeInv, StoreTypes, TrackerTypes, CountTypes, tracker

LEMMA CommitTypes ==
    ASSUME StoreAssumption, StoreTypeInv, NEW c \in Callers, Commit(c)
    PROVE  StoreTypeInv'
<1>1. UNCHANGED <<born, dir, tracker, runs>> /\ (Goes \/ Fails) /\ Done(c)
  BY DEF Commit
<1>2. CallerTypes' /\ CountTypes' /\ TrackerTypes'
  BY <1>1, MoveTypes, Failures DEF StoreTypeInv, CountTypes, TrackerTypes, tracker
<1>3. caller[c].row \in RowType /\ caller[c].row.turns <= runs /\ row \in RowType /\ row.turns <= runs
  BY DEF StoreTypeInv, CallerTypes, StoreTypes
<1>4. row' \in {row, [row EXCEPT !.turns = caller[c].row.turns],
                 [row EXCEPT !.checkpoints = caller[c].row.checkpoints]}
  BY DEF Commit
<1>5. row' \in RowType /\ row'.turns <= runs
  BY <1>3, <1>4 DEF RowType
<1>6. QED
  BY <1>1, <1>2, <1>5 DEF StoreTypeInv, StoreTypes

LEMMA TurnTypes ==
    ASSUME StoreAssumption, StoreTypeInv, NEW c \in Callers, NEW turns \in 1 .. MaxRuns, UpdateCompletionStats(c, turns)
    PROVE  StoreTypeInv'
<1>1. /\ runs \in Nat /\ runs' = runs + turns /\ runs' \in 0 .. MaxRuns /\ runs' \in Nat /\ runs <= runs'
  BY StoreConstants DEF StoreTypeInv, CountTypes, UpdateCompletionStats
<1>2. caller[c] \in [op : Ops, row : RowType] /\ caller[c].row.turns \in Nat /\ caller[c].row.turns <= runs
  BY DEF StoreTypeInv, CallerTypes, RowType
<1>3. caller[c].row.turns + turns \in 0 .. MaxRuns /\ caller[c].row.turns + turns <= runs'
  BY <1>1, <1>2, StoreConstants
<1>4. PICK r : caller' = [caller EXCEPT ![c] = r] /\ r \in [op : Ops, row : RowType] /\ r.row.turns <= runs'
  <2> DEFINE r == [caller[c] EXCEPT !.op = "turns", !.row.turns = @ + turns]
  <2>1. r \in [op : Ops, row : RowType] /\ r.row.turns = caller[c].row.turns + turns
    BY <1>2, <1>3 DEF RowType, Ops
  <2>2. caller' = [caller EXCEPT ![c] = r]
    BY DEF UpdateCompletionStats
  <2>3. QED
    BY <1>3, <2>1, <2>2
<1>5. CallerTypes /\ CountTypes
  BY DEF StoreTypeInv
<1>6. CallerTypes'
  BY <1>1, <1>4, <1>5, CallerTypeStep
<1>7. row \in RowType /\ row.turns \in Nat /\ row.turns <= runs
  BY DEF StoreTypeInv, StoreTypes, RowType
<1>8. StoreTypes'
  BY <1>1, <1>7 DEF StoreTypeInv, StoreTypes, UpdateCompletionStats
<1>9. QED
  BY <1>1, <1>6, <1>8 DEF StoreTypeInv, TrackerTypes, CountTypes, UpdateCompletionStats, tracker

LEMMA CheckpointTypes ==
    ASSUME StoreAssumption, StoreTypeInv, NEW c \in Callers, AddCheckpoint(c)
    PROVE  StoreTypeInv'
<1>1. /\ runs \in Nat /\ runs <= runs /\ uses \in Nat /\ uses <= MaxUses /\ MaxUses \in Nat
      /\ made \in Seq(writes) /\ Len(made) \in Nat /\ taken \in Nat /\ taken + 1 \in 1 .. Len(made)
  BY StoreConstants DEF StoreTypeInv, CountTypes, TrackerTypes, AddCheckpoint
<1>2. made[taken + 1] \in 1 .. MaxUses
  <2>1. made[taken + 1] \in writes
    BY <1>1, ElementOfSeq
  <2>2. writes \subseteq 1 .. uses
    BY DEF StoreTypeInv, TrackerTypes
  <2>3. made[taken + 1] \in 1 .. uses
    BY <2>1, <2>2
  <2>4. QED
    BY <1>1, <2>3
<1>3. PICK r : caller' = [caller EXCEPT ![c] = r] /\ r \in [op : Ops, row : RowType] /\ r.row.turns <= runs
  <2> DEFINE list == Append(caller[c].row.checkpoints, made[taken + 1])
             r == [caller[c] EXCEPT !.op = "checkpoints", !.row.checkpoints = list]
  <2>1. caller[c] \in [op : Ops, row : RowType] /\ caller[c].row.turns <= runs
    BY DEF StoreTypeInv, CallerTypes
  <2>2. list \in Seq(1 .. MaxUses)
    BY <1>2, <2>1, AppendProperties DEF RowType
  <2>3. r \in [op : Ops, row : RowType] /\ r.row.turns = caller[c].row.turns
    <3> HIDE DEF list
    <3>1. QED
      BY <2>1, <2>2 DEF RowType, Ops
  <2>4. caller' = [caller EXCEPT ![c] = r]
    BY DEF AddCheckpoint
  <2>5. QED
    BY <2>1, <2>3, <2>4
<1>4. CallerTypes /\ CountTypes /\ UNCHANGED <<born, row, dir, pending, made, uses, writes, runs, failed>>
  BY DEF StoreTypeInv, AddCheckpoint
<1>5. CallerTypes'
  BY <1>1, <1>3, <1>4, CallerTypeStep
<1>6. taken' \in 0 .. Len(made)
  BY <1>1 DEF AddCheckpoint
<1>7. QED
  BY <1>4, <1>5, <1>6 DEF StoreTypeInv, StoreTypes, TrackerTypes, CountTypes

LEMMA Least ==
    ASSUME NEW N \in SUBSET Nat, N # {}
    PROVE  \E m \in N : \A k \in N : m <= k
<1> DEFINE Less == OpToRel(<, Nat)
<1>1. \A i, j \in Nat : i < j => <<i, j>> \in Less
  BY DEF OpToRel
<1>2. IsWellFoundedOn(Less, Nat)
  BY NatLessThanWellFounded
<1> HIDE DEF Less
<1>3. PICK m \in N : \A k \in N : <<k, m>> \notin Less
  BY <1>2, WFMin
<1>4. ASSUME NEW k \in N PROVE m <= k
  <2>1. ~(k < m)
    BY <1>1, <1>3, Zenon
  <2>2. k \in Nat /\ m \in Nat
    OBVIOUS
  <2>3. QED
    BY <2>1, <2>2
<1>5. QED
  BY <1>4

(* What a rewind keeps is the beginning of the list.                       *)
LEMMA KeptIsPrefix ==
    ASSUME NEW S, NEW list \in Seq(S), NEW u \in RewindTarget(list)
    PROVE  \E n \in 1 .. Len(list) : Kept(list, u) = SubSeq(list, 1, n)
<1> DEFINE at == {i \in DOMAIN list : list[i] = u}
           n == CHOOSE i \in at : \A j \in at : i <= j
<1>1. Len(list) \in Nat /\ DOMAIN list = 1 .. Len(list)
  BY LenProperties
<1>2. Len(list) - 1 \in at
  BY <1>1 DEF RewindTarget
<1>3. \E i \in at : \A j \in at : i <= j
  <2>1. at \subseteq Nat
    BY <1>1
  <2> HIDE DEF at
  <2>2. QED
    BY <1>2, <2>1, Least
<1>4. n \in at
  <2> HIDE DEF at
  <2>1. QED
    BY <1>3
<1>5. n \in 1 .. Len(list) /\ at # {}
  BY <1>1, <1>4
<1>6. Kept(list, u) = SubSeq(list, 1, n)
  BY <1>5 DEF Kept
<1> HIDE DEF n
<1>7. QED
  BY <1>5, <1>6

LEMMA PrefixElements ==
    ASSUME NEW S, NEW list \in Seq(S), NEW n \in 1 .. Len(list)
    PROVE  /\ SubSeq(list, 1, n) \in Seq(S) /\ Len(SubSeq(list, 1, n)) = n
           /\ \A i \in 1 .. n : SubSeq(list, 1, n)[i] = list[i]
<1>1. n \in Int /\ 1 <= n /\ \A i \in 1 .. n : list[i] \in S
  BY LenProperties, ElementOfSeq
<1>2. /\ SubSeq(list, 1, n) \in Seq(S)
      /\ Len(SubSeq(list, 1, n)) = n - 1 + 1
      /\ \A i \in 1 .. n - 1 + 1 : SubSeq(list, 1, n)[i] = list[1 + i - 1]
  BY <1>1, SubSeqProperties
<1>3. QED
  BY <1>1, <1>2

LEMMA RewindTypes ==
    ASSUME StoreAssumption, StoreTypeInv, NEW c \in Callers, ClearCheckpointsAfter(c)
    PROVE  StoreTypeInv'
<1>1. runs \in Nat /\ runs <= runs
  BY StoreConstants DEF StoreTypeInv, CountTypes
<1>2. PICK r : caller' = [caller EXCEPT ![c] = r] /\ r \in [op : Ops, row : RowType] /\ r.row.turns <= runs
  <2>1. PICK u \in RewindTarget(caller[c].row.checkpoints) :
            caller' = [caller EXCEPT ![c].op = "checkpoints", ![c].row.checkpoints = Kept(@, u)]
    BY DEF ClearCheckpointsAfter
  <2> DEFINE list == Kept(caller[c].row.checkpoints, u)
             r == [caller[c] EXCEPT !.op = "checkpoints", !.row.checkpoints = list]
  <2>2. caller[c] \in [op : Ops, row : RowType] /\ caller[c].row.turns <= runs
    BY DEF StoreTypeInv, CallerTypes
  <2>3. caller[c].row.checkpoints \in Seq(1 .. MaxUses)
    BY <2>2 DEF RowType
  <2>4. list \in Seq(1 .. MaxUses)
    BY <2>3, KeptIsPrefix, PrefixElements
  <2>5. r \in [op : Ops, row : RowType] /\ r.row.turns = caller[c].row.turns
    <3> HIDE DEF list
    <3>1. QED
      BY <2>2, <2>4 DEF RowType, Ops
  <2>6. caller' = [caller EXCEPT ![c] = r]
    BY <2>1
  <2>7. QED
    BY <2>2, <2>5, <2>6
<1>3. CallerTypes /\ CountTypes /\ UNCHANGED <<born, row, dir, tracker, runs, failed>>
  BY DEF StoreTypeInv, ClearCheckpointsAfter
<1>4. CallerTypes'
  BY <1>1, <1>2, <1>3, CallerTypeStep
<1>5. QED
  BY <1>3, <1>4 DEF StoreTypeInv, StoreTypes, TrackerTypes, CountTypes, tracker

LEMMA WiderSeq ==
    ASSUME NEW S, NEW T, S \subseteq T, NEW list \in Seq(S)
    PROVE  list \in Seq(T)
BY ElementOfSeq, LenProperties, SeqDef

LEMMA TrackTypes ==
    ASSUME StoreAssumption, StoreTypeInv, NEW n \in 1 .. MaxUses, NEW file \in BOOLEAN, TrackToolUses(n, file)
    PROVE  StoreTypeInv'
<1>1. uses \in Nat /\ n \in Nat /\ MaxUses \in Nat /\ uses' = uses + n /\ uses' <= MaxUses
  BY StoreConstants DEF StoreTypeInv, TrackerTypes, TrackToolUses
<1>2. (uses + 1) .. (uses + n) \subseteq 1 .. uses' /\ 1 .. uses \subseteq 1 .. uses' /\ uses' \in 0 .. MaxUses
  BY <1>1
<1>3. pending' \subseteq 1 .. uses' /\ writes' \subseteq 1 .. uses' /\ writes \subseteq writes'
  BY <1>2 DEF StoreTypeInv, TrackerTypes, TrackToolUses
<1>4. made \in Seq(writes') /\ taken \in 0 .. Len(made)
  BY <1>3, WiderSeq DEF StoreTypeInv, TrackerTypes
<1>5. UNCHANGED <<born, row, dir, caller, made, taken, runs, failed>>
  BY DEF TrackToolUses
<1>6. QED
  BY <1>2, <1>3, <1>4, <1>5 DEF StoreTypeInv, StoreTypes, CallerTypes, TrackerTypes, CountTypes

LEMMA ResultTypes ==
    ASSUME StoreAssumption, StoreTypeInv, NEW results \in SUBSET pending, ProcessMessage(results)
    PROVE  /\ StoreTypeInv' /\ Len(made') \in Nat /\ Len(made) <= Len(made')
           /\ \A k \in 1 .. Len(made) : made'[k] = made[k]
<1>1. PICK u \in results : ProcessToolResult(u)
  BY DEF ProcessMessage
<1>2. /\ UNCHANGED <<born, row, dir, caller, uses, writes, taken, runs, failed>> /\ pending' \subseteq pending
      /\ made' = IF u \in pending \intersect writes THEN Append(made, u) ELSE made
  BY <1>1 DEF ProcessMessage, ProcessToolResult
<1>3. made \in Seq(writes) /\ Len(made) \in Nat /\ taken \in 0 .. Len(made)
  BY DEF StoreTypeInv, TrackerTypes
<1>4. /\ made' \in Seq(writes) /\ Len(made') \in Nat /\ Len(made) <= Len(made')
      /\ \A k \in 1 .. Len(made) : made'[k] = made[k]
  <2>1. CASE u \in pending \intersect writes
    <3>1. made' = Append(made, u) /\ u \in writes
      BY <1>2, <2>1
    <3>2. QED
      BY <1>3, <3>1, AppendProperties
  <2>2. CASE u \notin pending \intersect writes
    BY <1>2, <1>3, <2>2
  <2>3. QED
    BY <2>1, <2>2
<1>5. taken' \in 0 .. Len(made')
  BY <1>2, <1>3, <1>4
<1>6. QED
  BY <1>2, <1>4, <1>5 DEF StoreTypeInv, StoreTypes, CallerTypes, TrackerTypes, CountTypes

LEMMA StoreTypeStep ==
    ASSUME StoreAssumption, StoreTypeInv, [StoreNext]_storeVars
    PROVE  StoreTypeInv'
<1>1. ASSUME NEW c \in Callers,
             CreateDirectory(c) \/ CreateRow(c) \/ CreateCleanup(c) \/ DeleteRow(c) \/ DeleteDirectory(c)
      PROVE  StoreTypeInv'
  BY <1>1, CreateTypes
<1>2. ASSUME NEW c \in Callers, Load(c) PROVE StoreTypeInv'
  BY <1>2, LoadTypes
<1>3. ASSUME NEW c \in Callers, AddCheckpoint(c) PROVE StoreTypeInv'
  BY <1>3, CheckpointTypes
<1>4. ASSUME NEW c \in Callers, ClearCheckpointsAfter(c) PROVE StoreTypeInv'
  BY <1>4, RewindTypes
<1>5. ASSUME NEW c \in Callers, Commit(c) PROVE StoreTypeInv'
  BY <1>5, CommitTypes
<1>6. ASSUME NEW c \in Callers, NEW turns \in 1 .. MaxRuns, UpdateCompletionStats(c, turns) PROVE StoreTypeInv'
  BY <1>6, TurnTypes
<1>7. ASSUME NEW n \in 1 .. MaxUses, NEW file \in BOOLEAN, TrackToolUses(n, file) PROVE StoreTypeInv'
  BY <1>7, TrackTypes
<1>8. ASSUME NEW results \in SUBSET pending, ProcessMessage(results) PROVE StoreTypeInv'
  BY <1>8, ResultTypes
<1>9. CASE UNCHANGED storeVars
  BY <1>9 DEF storeVars, StoreTypeInv, StoreTypes, CallerTypes, TrackerTypes, CountTypes
<1>10. QED
  BY <1>1, <1>2, <1>3, <1>4, <1>5, <1>6, <1>7, <1>8, <1>9 DEF StoreNext

LEMMA TypeInit ==
    ASSUME StoreAssumption, StoreInit
    PROVE  StoreTypeInv
<1>1. row \in RowType /\ row.turns = 0
  BY AbsentType DEF StoreInit
<1>2. CallerTypes
  <2>1. \A c \in Callers : Free.row.turns <= runs
    BY FreeType, AbsentType DEF StoreInit
  <2>2. QED
    BY <2>1, FreeType DEF StoreInit, CallerTypes
<1>3. TrackerTypes
  <2>1. made \in Seq(writes) /\ Len(made) = 0
    BY EmptySeq DEF StoreInit
  <2>2. QED
    BY <2>1, StoreConstants DEF StoreInit, TrackerTypes
<1>4. CountTypes /\ dir \in BOOLEAN /\ born \in BOOLEAN /\ runs = 0
  <2>1. runs = 0 /\ failed = 0
    BY DEF StoreInit
  <2>2. dir \in BOOLEAN /\ born \in BOOLEAN
    BY DEF StoreInit
  <2>3. QED
    BY <2>1, <2>2, StoreConstants DEF CountTypes
<1>5. QED
  BY <1>1, <1>2, <1>3, <1>4 DEF StoreTypeInv, StoreTypes

(* Whatever fails, and however the requests overlap, every variable of the *)
(* record keeps its type; StoreTypeInv adds that no copy of the row counts a    *)
(* turn that was not given.                                                *)
THEOREM StoreTypesHold ==
    ASSUME StoreAssumption
    PROVE  StoreSpec => []StoreTypeOK
<1>1. StoreInit => StoreTypeInv
  BY TypeInit
<1>2. StoreTypeInv /\ [StoreNext]_storeVars => StoreTypeInv'
  BY StoreTypeStep
<1>3. StoreTypeInv => StoreTypeOK
  <2> SUFFICES ASSUME StoreTypeInv PROVE StoreTypeOK
    OBVIOUS
  <2>1. row \in RowType /\ {dir, born} \subseteq BOOLEAN
    BY DEF StoreTypeInv, StoreTypes
  <2>2. \A c \in Callers : caller[c].row \in RowType /\ caller[c].op \in Ops
    BY DEF StoreTypeInv, CallerTypes
  <2>3. /\ pending \subseteq 1 .. uses /\ writes \subseteq 1 .. uses /\ uses \in 0 .. MaxUses
        /\ made \in Seq(writes) /\ taken \in 0 .. Len(made) /\ runs \in 0 .. MaxRuns
    BY DEF StoreTypeInv, TrackerTypes, CountTypes
  <2>4. QED
    BY <2>1, <2>2, <2>3 DEF StoreTypeOK, Ops
<1>4. QED
  BY <1>1, <1>2, <1>3, PTL DEF StoreSpec

-----------------------------------------------------------------------------
(* Directory and row                                                       *)

Making == {"row", "cleanup"}

(* Who makes the session is alone with it, and a row that is gone does not *)
(* come back.                                                              *)
DirectoryInv ==
    /\ ~born => ~row.there /\ ~dir /\ \A c \in Callers : caller[c] = Free
    /\ \A c \in Callers :
        /\ caller[c].op \in Making =>
              ~row.there /\ \A d \in Callers : d # c => caller[d] = Free
        /\ caller[c].op = "row" => dir
        /\ caller[c].op = "directory" => ~row.there
    /\ RowHasDirectory

(* A request that only reads, or writes columns of the row.                *)
LEMMA RowWork ==
    ASSUME StoreAssumption, StoreTypeInv, DirectoryInv, NEW c \in Callers,
           (caller[c] = Free /\ row.there) \/ caller[c].op \in {"loaded", "checkpoints", "turns"},
           caller'[c].op \in {"idle", "loaded", "checkpoints", "turns"},
           \A d \in Callers : d # c => caller'[d] = caller[d],
           row'.there = row.there, UNCHANGED <<dir, born>>, failed' \in {failed, failed + 1}
    PROVE  DirectoryInv'
<1>1. Free.op = "idle" /\ failed \in Nat
  BY FreeType DEF StoreTypeInv, CountTypes
<1>2. born
  BY <1>1 DEF DirectoryInv
<1>3. \A d \in Callers : caller[d].op \notin Making
  BY <1>1 DEF DirectoryInv, Making
<1>4. \A d \in Callers : caller'[d].op \notin Making
  BY <1>3 DEF Making
<1>5. \A d \in Callers : caller'[d].op = "directory" => ~row'.there
  BY DEF DirectoryInv
<1>6. RowHasDirectory'
  <2>1. row'.there => dir'
    BY DEF DirectoryInv, RowHasDirectory
  <2>2. dir' => row'.there \/ failed' > 0
                 \/ \E d \in Callers : caller'[d].op \in {"row", "cleanup", "directory"}
    <3>1. failed > 0 => failed' > 0
      BY <1>1
    <3>2. \A d \in Callers : caller[d].op \in {"row", "cleanup", "directory"} => caller'[d] = caller[d]
      BY <1>1
    <3>3. QED
      BY <3>1, <3>2 DEF DirectoryInv, RowHasDirectory
  <2>3. QED
    BY <2>1, <2>2 DEF RowHasDirectory
<1>7. QED
  BY <1>2, <1>4, <1>5, <1>6 DEF DirectoryInv, Making

LEMMA Makes ==
    ASSUME StoreAssumption, StoreTypeInv, DirectoryInv, NEW c \in Callers,
           CreateDirectory(c) \/ CreateRow(c) \/ CreateCleanup(c)
    PROVE  DirectoryInv'
<1>1. Free.op = "idle" /\ failed \in Nat /\ ~Absent.there /\ [Absent EXCEPT !.there = TRUE].there
  BY FreeType, AbsentType DEF StoreTypeInv, CountTypes, Absent
<1>2. ~row.there /\ \A d \in Callers : d # c => caller[d] = Free
  BY DEF DirectoryInv, Making, CreateDirectory, CreateRow, CreateCleanup
<1>3. /\ born'
      /\ \A d \in Callers : d # c => caller'[d] = Free
  <2>1. born'
    BY <1>1 DEF DirectoryInv, CreateDirectory, CreateRow, CreateCleanup
  <2>2. (\E op \in Ops : Move(c, op)) \/ Done(c)
    BY DEF CreateDirectory, CreateRow, CreateCleanup, Ops
  <2>3. \A d \in Callers : d # c => caller'[d] = caller[d]
    BY <2>2 DEF Move, Done, StoreTypeInv, CallerTypes
  <2>4. QED
    BY <1>2, <2>1, <2>3
<1>4. CASE CreateDirectory(c)
  <2>1. caller'[c].op = "row" /\ dir' /\ row' = row
    BY <1>4 DEF CreateDirectory, Move, StoreTypeInv, CallerTypes
  <2>2. QED
    BY <1>1, <1>2, <1>3, <2>1 DEF DirectoryInv, RowHasDirectory, Making
<1>5. CASE CreateRow(c)
  <2>1. CASE Goes /\ row' = [Absent EXCEPT !.there = TRUE] /\ Done(c) /\ UNCHANGED dir
    <3>1. caller'[c] = Free /\ row'.there /\ dir'
      BY <1>1, <1>5, <2>1 DEF Done, StoreTypeInv, CallerTypes, CreateRow, DirectoryInv
    <3>2. QED
      BY <1>1, <1>3, <3>1 DEF DirectoryInv, RowHasDirectory, Making
  <2>2. CASE Fails /\ Move(c, "cleanup") /\ UNCHANGED <<row, dir>>
    <3>1. caller'[c].op = "cleanup" /\ ~row'.there
      BY <1>2, <2>2 DEF Move, StoreTypeInv, CallerTypes
    <3>2. QED
      BY <1>1, <1>3, <3>1 DEF DirectoryInv, RowHasDirectory, Making
  <2>3. QED
    BY <1>5, <2>1, <2>2 DEF CreateRow
<1>6. CASE CreateCleanup(c)
  <2>1. caller'[c] = Free /\ ~row'.there
    BY <1>2, <1>6 DEF Done, StoreTypeInv, CallerTypes, CreateCleanup
  <2>2. dir' => failed' > 0
    BY <1>1, <1>6 DEF CreateCleanup, CleanupDirectory, Fails
  <2>3. QED
    BY <1>1, <1>3, <2>1, <2>2 DEF DirectoryInv, RowHasDirectory, Making
<1>7. QED
  BY <1>4, <1>5, <1>6

LEMMA Deletes ==
    ASSUME StoreAssumption, StoreTypeInv, DirectoryInv, NEW c \in Callers, DeleteRow(c) \/ DeleteDirectory(c)
    PROVE  DirectoryInv'
<1>1. Free.op = "idle" /\ failed \in Nat /\ ~Absent.there
  BY FreeType, AbsentType DEF StoreTypeInv, CountTypes
<1>2. born /\ born' /\ \A d \in Callers : caller[d].op \notin Making
  BY <1>1 DEF DirectoryInv, Making, DeleteRow, DeleteDirectory
<1>3. \A d \in Callers : d # c => caller'[d] = caller[d]
  BY DEF DeleteRow, DeleteDirectory, Move, Done, StoreTypeInv, CallerTypes
<1>4. CASE DeleteRow(c) /\ Goes /\ row' = Absent /\ Move(c, "directory")
  <2>1. caller'[c].op = "directory" /\ ~row'.there
    BY <1>1, <1>4 DEF Move, StoreTypeInv, CallerTypes
  <2>2. QED
    BY <1>2, <1>3, <2>1 DEF DirectoryInv, RowHasDirectory, Making
<1>5. CASE DeleteRow(c) /\ Fails /\ Done(c) /\ UNCHANGED row
  <2>1. caller'[c] = Free /\ failed' > 0 /\ UNCHANGED <<row, dir>>
    BY <1>1, <1>5 DEF DeleteRow, Done, Fails, StoreTypeInv, CallerTypes
  <2>2. QED
    BY <1>1, <1>2, <1>3, <2>1 DEF DirectoryInv, RowHasDirectory, Making
<1>6. CASE DeleteDirectory(c)
  <2>1. caller'[c] = Free /\ row' = row /\ ~row'.there
    BY <1>6 DEF DeleteDirectory, Done, StoreTypeInv, CallerTypes, DirectoryInv
  <2>2. dir' => failed' > 0 \/ failed' > 0
    BY <1>1, <1>6 DEF DeleteDirectory, CleanupDirectory, Fails
  <2>3. QED
    BY <1>1, <1>2, <1>3, <2>1, <2>2 DEF DirectoryInv, RowHasDirectory, Making
<1>7. QED
  BY <1>4, <1>5, <1>6 DEF DeleteRow

LEMMA DirectoryStep ==
    ASSUME StoreAssumption, StoreTypeInv, DirectoryInv, [StoreNext]_storeVars
    PROVE  DirectoryInv'
<1> USE DEF StoreTypeInv, CallerTypes
<1>1. Free.op = "idle" /\ failed \in Nat
  BY FreeType DEF CountTypes
<1>2. ASSUME NEW c \in Callers, CreateDirectory(c) \/ CreateRow(c) \/ CreateCleanup(c)
      PROVE  DirectoryInv'
  BY <1>2, Makes
<1>3. ASSUME NEW c \in Callers, DeleteRow(c) \/ DeleteDirectory(c) PROVE DirectoryInv'
  BY <1>3, Deletes
<1>4. ASSUME NEW c \in Callers, Load(c) \/ AddCheckpoint(c) \/ ClearCheckpointsAfter(c)
      PROVE  DirectoryInv'
  <2>1. caller'[c].op \in {"loaded", "checkpoints"} /\ \A d \in Callers : d # c => caller'[d] = caller[d]
    BY <1>4 DEF Load, AddCheckpoint, ClearCheckpointsAfter
  <2>2. /\ (caller[c] = Free /\ row.there) \/ caller[c].op \in {"loaded", "checkpoints", "turns"}
        /\ UNCHANGED <<row, dir, born, failed>>
    BY <1>4 DEF Load, AddCheckpoint, ClearCheckpointsAfter, tracker
  <2>3. QED
    BY <2>1, <2>2, RowWork
<1>5. ASSUME NEW c \in Callers, NEW turns \in 1 .. MaxRuns, UpdateCompletionStats(c, turns)
      PROVE  DirectoryInv'
  <2>1. caller'[c].op = "turns" /\ caller[c].op = "loaded" /\ UNCHANGED <<row, dir, born, failed>>
        /\ \A d \in Callers : d # c => caller'[d] = caller[d]
    BY <1>5 DEF UpdateCompletionStats
  <2>2. QED
    BY <2>1, RowWork
<1>6. ASSUME NEW c \in Callers, Commit(c) PROVE DirectoryInv'
  <2>1. /\ caller'[c].op = "idle" /\ caller[c].op \in {"checkpoints", "turns"} /\ UNCHANGED <<dir, born>>
        /\ \A d \in Callers : d # c => caller'[d] = caller[d]
    BY <1>1, <1>6 DEF Commit, Done
  <2>2. failed' \in {failed, failed + 1}
    BY <1>6 DEF Commit, Goes, Fails
  <2>3. row'.there = row.there
    <3>1. row' \in {row, [row EXCEPT !.turns = caller[c].row.turns],
                    [row EXCEPT !.checkpoints = caller[c].row.checkpoints]}
      BY <1>6 DEF Commit
    <3>2. QED
      BY <3>1 DEF StoreTypes, RowType
  <2>4. QED
    BY <2>1, <2>2, <2>3, RowWork
<1>7. ASSUME UNCHANGED <<row, dir, born, caller, failed>> PROVE DirectoryInv'
  BY <1>7 DEF DirectoryInv, RowHasDirectory
<1>8. ASSUME NEW n \in 1 .. MaxUses, NEW file \in BOOLEAN, TrackToolUses(n, file) PROVE DirectoryInv'
  BY <1>7, <1>8 DEF TrackToolUses
<1>9. ASSUME NEW results \in SUBSET pending, ProcessMessage(results) PROVE DirectoryInv'
  BY <1>7, <1>9 DEF ProcessMessage
<1>10. CASE UNCHANGED storeVars
  BY <1>7, <1>10 DEF storeVars
<1>11. QED
  BY <1>2, <1>3, <1>4, <1>5, <1>6, <1>8, <1>9, <1>10 DEF StoreNext

(* The row of a session has its directory, for any requests that create,   *)
(* delete and write it at the same time, and a directory that no row names *)
(* is left only by a call that failed (create_session, delete_session).    *)
THEOREM RowsHaveDirectories ==
    ASSUME StoreAssumption
    PROVE  StoreSpec => []RowHasDirectory
<1>1. StoreInit => StoreTypeInv /\ DirectoryInv
  <2> SUFFICES ASSUME StoreInit PROVE DirectoryInv
    BY TypeInit
  <2>2. Free.op = "idle" /\ \A c \in Callers : caller[c] = Free
    BY FreeType DEF StoreInit
  <2>3. ~row.there /\ ~dir
    BY AbsentType DEF StoreInit
  <2>4. QED
    BY <2>2, <2>3 DEF DirectoryInv, RowHasDirectory, Making
<1>2. StoreTypeInv /\ DirectoryInv /\ [StoreNext]_storeVars => (StoreTypeInv /\ DirectoryInv)'
  BY StoreTypeStep, DirectoryStep
<1>3. DirectoryInv => RowHasDirectory
  BY DEF DirectoryInv
<1>4. QED
  BY <1>1, <1>2, <1>3, PTL DEF StoreSpec

-----------------------------------------------------------------------------
(* The list of checkpoints                                                 *)

(* Every entry is one of the checkpoints of m that were taken, in the      *)
(* order of m.                                                             *)
Listed(list, m, t) ==
    /\ \A i \in DOMAIN list : \E k \in 1 .. t : list[i] = m[k]
    /\ \A i, j \in DOMAIN list : i < j =>
          \E k, l \in 1 .. t : k < l /\ m[k] = list[i] /\ m[l] = list[j]

(* The list of the row and that of every copy: a copy is stale at most in  *)
(* what it lacks, never in the order.                                      *)
ListInv ==
    /\ Listed(row.checkpoints, made, taken)
    /\ \A c \in Callers : Listed(caller[c].row.checkpoints, made, taken)

LEMMA ListedEmpty == ASSUME NEW m, NEW t PROVE Listed(<<>>, m, t)
<1>1. DOMAIN <<>> = {}
  OBVIOUS
<1>2. QED
  BY <1>1 DEF Listed

LEMMA ListedGrows ==
    ASSUME NEW list, NEW m, NEW n, NEW t \in Nat, NEW u \in Nat, t <= u,
           \A k \in 1 .. t : n[k] = m[k], Listed(list, m, t)
    PROVE  Listed(list, n, u)
<1>1. 1 .. t \subseteq 1 .. u
  OBVIOUS
<1>2. QED
  BY <1>1 DEF Listed

LEMMA ListedAppend ==
    ASSUME NEW S, NEW list \in Seq(S), NEW m \in Seq(S), NEW t \in Nat, t + 1 <= Len(m),
           Listed(list, m, t)
    PROVE  Listed(Append(list, m[t + 1]), m, t + 1)
<1> DEFINE longer == Append(list, m[t + 1])
<1>1. /\ Len(list) \in Nat /\ DOMAIN list = 1 .. Len(list)
      /\ DOMAIN longer = 1 .. Len(list) + 1
      /\ \A i \in 1 .. Len(list) : longer[i] = list[i]
      /\ longer[Len(list) + 1] = m[t + 1]
  <2>1. Len(m) \in Nat /\ t + 1 \in 1 .. Len(m)
    BY LenProperties
  <2>2. m[t + 1] \in S
    BY <2>1, ElementOfSeq
  <2>3. longer \in Seq(S) /\ Len(longer) = Len(list) + 1 /\ Len(list) \in Nat
        /\ \A i \in 1 .. Len(list) : longer[i] = list[i]
        /\ longer[Len(list) + 1] = m[t + 1]
    BY <2>2, AppendProperties, LenProperties
  <2>4. DOMAIN list = 1 .. Len(list) /\ DOMAIN longer = 1 .. Len(longer)
    <3> HIDE DEF longer
    <3>1. QED
      BY <2>3, LenProperties
  <2>5. DOMAIN longer = 1 .. (Len(list) + 1)
    BY <2>3, <2>4, Zenon
  <2>6. QED
    BY <2>3, <2>4, <2>5
<1> HIDE DEF longer
<1>2. 1 .. t \subseteq 1 .. t + 1 /\ t + 1 \in 1 .. t + 1 /\ \A k \in 1 .. t : k < t + 1
  OBVIOUS
<1>3. ASSUME NEW i \in DOMAIN longer PROVE \E k \in 1 .. t + 1 : longer[i] = m[k]
  <2>1. i \in DOMAIN list \/ i = Len(list) + 1
    BY <1>1
  <2>2. QED
    BY <1>1, <1>2, <2>1 DEF Listed
<1>4. ASSUME NEW i \in DOMAIN longer, NEW j \in DOMAIN longer, i < j
      PROVE  \E k, l \in 1 .. t + 1 : k < l /\ m[k] = longer[i] /\ m[l] = longer[j]
  <2>1. i \in DOMAIN list /\ (j \in DOMAIN list \/ j = Len(list) + 1)
    BY <1>1, <1>4
  <2>2. CASE j \in DOMAIN list
    <3>1. PICK k, l \in 1 .. t : k < l /\ m[k] = list[i] /\ m[l] = list[j]
      BY <1>4, <2>1, <2>2 DEF Listed
    <3>2. QED
      BY <1>1, <1>2, <2>1, <2>2, <3>1
  <2>3. CASE j = Len(list) + 1
    <3>1. PICK k \in 1 .. t : m[k] = list[i]
      BY <2>1 DEF Listed
    <3>2. QED
      BY <1>1, <1>2, <2>1, <2>3, <3>1
  <2>4. QED
    BY <2>1, <2>2, <2>3
<1>5. Listed(longer, m, t + 1)
  BY <1>3, <1>4 DEF Listed
<1>6. QED
  BY <1>5 DEF longer

LEMMA ListedPrefix ==
    ASSUME NEW S, NEW list \in Seq(S), NEW n \in 1 .. Len(list), NEW m, NEW t, Listed(list, m, t)
    PROVE  Listed(SubSeq(list, 1, n), m, t)
<1> DEFINE prefix == SubSeq(list, 1, n)
<1>1. /\ DOMAIN list = 1 .. Len(list) /\ DOMAIN prefix = 1 .. n /\ 1 .. n \subseteq 1 .. Len(list)
      /\ \A i \in 1 .. n : prefix[i] = list[i]
  BY PrefixElements, LenProperties
<1> HIDE DEF prefix
<1>2. \A i \in DOMAIN prefix : i \in DOMAIN list /\ prefix[i] = list[i]
  BY <1>1
<1>3. Listed(prefix, m, t)
  <2>1. \A i \in DOMAIN prefix : \E k \in 1 .. t : prefix[i] = m[k]
    BY <1>2 DEF Listed
  <2>2. \A i, j \in DOMAIN prefix : i < j =>
            \E k, l \in 1 .. t : k < l /\ m[k] = prefix[i] /\ m[l] = prefix[j]
    <3>1. TAKE i, j \in DOMAIN prefix
    <3>2. HAVE i < j
    <3>3. PICK k, l \in 1 .. t : k < l /\ m[k] = list[i] /\ m[l] = list[j]
      BY <1>2, <3>2, Zenon DEF Listed
    <3>4. QED
      BY <1>2, <3>3, Zenon
  <2>3. QED
    BY <2>1, <2>2 DEF Listed
<1>4. QED
  BY <1>3 DEF prefix

(* A step that neither takes nor makes a checkpoint, and gives the row and *)
(* the requests only lists that were there before.                         *)
LEMMA SameLists ==
    ASSUME ListInv, UNCHANGED <<made, taken>>,
           \/ row'.checkpoints \in {<<>>, row.checkpoints}
           \/ \E c \in Callers : row'.checkpoints = caller[c].row.checkpoints,
           \A c \in Callers : caller'[c].row.checkpoints \in
               {<<>>, row.checkpoints, caller[c].row.checkpoints}
    PROVE  ListInv'
<1>1. Listed(<<>>, made, taken)
  BY ListedEmpty
<1>2. Listed(row'.checkpoints, made, taken)
  BY <1>1 DEF ListInv
<1>3. \A c \in Callers : Listed(caller'[c].row.checkpoints, made, taken)
  BY <1>1 DEF ListInv
<1>4. Listed(row'.checkpoints, made', taken') /\ \A c \in Callers : Listed(caller'[c].row.checkpoints, made', taken')
  BY <1>2, <1>3
<1>5. QED
  BY <1>4 DEF ListInv

LEMMA TakenType ==
    ASSUME StoreAssumption, StoreTypeInv
    PROVE  /\ made \in Seq(writes) /\ Len(made) \in Nat /\ taken \in Nat /\ taken <= Len(made)
           /\ writes \subseteq 1 .. MaxUses /\ made \in Seq(1 .. MaxUses)
<1>1. made \in Seq(writes) /\ Len(made) \in Nat /\ taken \in Nat /\ taken <= Len(made)
  BY LenProperties DEF StoreTypeInv, TrackerTypes
<1>2. writes \subseteq 1 .. MaxUses
  <2>1. writes \subseteq 1 .. uses /\ uses \in Nat /\ uses <= MaxUses /\ MaxUses \in Nat
    BY StoreConstants DEF StoreTypeInv, TrackerTypes
  <2>2. QED
    BY <2>1
<1>3. QED
  BY <1>1, <1>2, WiderSeq

LEMMA ListsTaken ==
    ASSUME StoreAssumption, StoreTypeInv, ListInv, NEW c \in Callers, AddCheckpoint(c)
    PROVE  ListInv'
<1>1. /\ made \in Seq(1 .. MaxUses) /\ taken \in Nat /\ taken + 1 \in Nat /\ taken <= taken + 1
      /\ taken + 1 <= Len(made) /\ UNCHANGED <<row, made>> /\ taken' = taken + 1
  BY TakenType DEF AddCheckpoint
<1>2. caller[c].row.checkpoints \in Seq(1 .. MaxUses)
  BY DEF StoreTypeInv, CallerTypes, RowType
<1>3. \A k \in 1 .. taken : made[k] = made[k]
  OBVIOUS
<1>4. /\ caller'[c].row.checkpoints = Append(caller[c].row.checkpoints, made[taken + 1])
      /\ \A d \in Callers : d # c => caller'[d] = caller[d]
  BY DEF AddCheckpoint, StoreTypeInv, CallerTypes, RowType
<1>5. Listed(caller'[c].row.checkpoints, made, taken + 1)
  BY <1>1, <1>2, <1>4, ListedAppend DEF ListInv
<1>6. \A d \in Callers : d # c => Listed(caller'[d].row.checkpoints, made, taken + 1)
  <2>1. \A d \in Callers : Listed(caller[d].row.checkpoints, made, taken + 1)
    BY <1>1, <1>3, ListedGrows DEF ListInv
  <2>2. QED
    BY <1>4, <2>1
<1>7. Listed(row.checkpoints, made, taken + 1)
  BY <1>1, <1>3, ListedGrows DEF ListInv
<1>8. \A d \in Callers : Listed(caller'[d].row.checkpoints, made, taken + 1)
  BY <1>5, <1>6
<1>9. Listed(row'.checkpoints, made', taken') /\ \A d \in Callers : Listed(caller'[d].row.checkpoints, made', taken')
  BY <1>1, <1>7, <1>8
<1>10. QED
  BY <1>9 DEF ListInv

LEMMA ListsRewound ==
    ASSUME StoreAssumption, StoreTypeInv, ListInv, NEW c \in Callers, ClearCheckpointsAfter(c)
    PROVE  ListInv'
<1>1. caller[c].row.checkpoints \in Seq(1 .. MaxUses)
  BY DEF StoreTypeInv, CallerTypes, RowType
<1>2. PICK u \in RewindTarget(caller[c].row.checkpoints) :
          caller' = [caller EXCEPT ![c].op = "checkpoints", ![c].row.checkpoints = Kept(@, u)]
  BY DEF ClearCheckpointsAfter
<1>3. Listed(Kept(caller[c].row.checkpoints, u), made, taken)
  <2>1. PICK n \in 1 .. Len(caller[c].row.checkpoints) :
            Kept(caller[c].row.checkpoints, u) = SubSeq(caller[c].row.checkpoints, 1, n)
    BY <1>1, KeptIsPrefix
  <2>2. QED
    BY <1>1, <2>1, ListedPrefix DEF ListInv
<1>4. /\ caller'[c].row.checkpoints = Kept(caller[c].row.checkpoints, u)
      /\ \A d \in Callers : d # c => caller'[d] = caller[d]
  BY <1>2 DEF StoreTypeInv, CallerTypes, RowType
<1>5. \A d \in Callers : Listed(caller'[d].row.checkpoints, made, taken)
  BY <1>3, <1>4 DEF ListInv
<1>6. UNCHANGED <<row, made, taken>>
  BY DEF ClearCheckpointsAfter, tracker
<1>7. Listed(row'.checkpoints, made', taken') /\ \A d \in Callers : Listed(caller'[d].row.checkpoints, made', taken')
  BY <1>5, <1>6 DEF ListInv
<1>8. QED
  BY <1>7 DEF ListInv

LEMMA ListStep ==
    ASSUME StoreAssumption, StoreTypeInv, ListInv, [StoreNext]_storeVars
    PROVE  ListInv'
<1> USE DEF StoreTypeInv, CallerTypes
<1>1. Absent.checkpoints = <<>> /\ [Absent EXCEPT !.there = TRUE].checkpoints = <<>> /\ Free.row = Absent
  BY DEF Absent, Free
<1>2. ASSUME NEW c \in Callers,
             CreateDirectory(c) \/ CreateRow(c) \/ CreateCleanup(c) \/ DeleteRow(c) \/ DeleteDirectory(c)
      PROVE  ListInv'
  <2>1. UNCHANGED <<made, taken>> /\ row' \in {row, Absent, [Absent EXCEPT !.there = TRUE]}
    BY <1>2 DEF CreateDirectory, CreateRow, CreateCleanup, DeleteRow, DeleteDirectory, tracker
  <2>2. (\E op \in Ops : Move(c, op)) \/ Done(c)
    BY <1>2 DEF CreateDirectory, CreateRow, CreateCleanup, DeleteRow, DeleteDirectory, Ops
  <2>3. \A d \in Callers : caller'[d].row \in {Absent, caller[d].row}
    BY <1>1, <2>2 DEF Move, Done
  <2>4. QED
    BY <1>1, <2>1, <2>3, SameLists
<1>3. ASSUME NEW c \in Callers, Load(c) PROVE ListInv'
  <2>1. UNCHANGED <<row, made, taken>> /\ \A d \in Callers : caller'[d].row \in {row, caller[d].row}
    BY <1>3 DEF Load, tracker
  <2>2. QED
    BY <2>1, SameLists
<1>4. ASSUME NEW c \in Callers, AddCheckpoint(c) PROVE ListInv'
  BY <1>4, ListsTaken
<1>5. ASSUME NEW c \in Callers, ClearCheckpointsAfter(c) PROVE ListInv'
  BY <1>5, ListsRewound
<1>6. ASSUME NEW c \in Callers, Commit(c) PROVE ListInv'
  <2>1. row' \in {row, [row EXCEPT !.turns = caller[c].row.turns],
                  [row EXCEPT !.checkpoints = caller[c].row.checkpoints]}
    BY <1>6 DEF Commit
  <2>2. row'.checkpoints \in {row.checkpoints, caller[c].row.checkpoints}
    BY <2>1 DEF StoreTypes, RowType
  <2>3. UNCHANGED <<made, taken>> /\ \A d \in Callers : caller'[d].row \in {Absent, caller[d].row}
    BY <1>1, <1>6 DEF Commit, Done, tracker
  <2>4. QED
    BY <1>1, <2>2, <2>3, SameLists
<1>7. ASSUME NEW c \in Callers, NEW turns \in 1 .. MaxRuns, UpdateCompletionStats(c, turns)
      PROVE  ListInv'
  <2>1. UNCHANGED <<row, made, taken>>
        /\ \A d \in Callers : caller'[d].row.checkpoints = caller[d].row.checkpoints
    BY <1>7 DEF UpdateCompletionStats, tracker, RowType
  <2>2. QED
    BY <2>1, SameLists
<1>8. ASSUME UNCHANGED <<row, caller, made, taken>> PROVE ListInv'
  BY <1>8, SameLists
<1>9. ASSUME NEW n \in 1 .. MaxUses, NEW file \in BOOLEAN, TrackToolUses(n, file) PROVE ListInv'
  BY <1>8, <1>9 DEF TrackToolUses
<1>10. ASSUME NEW results \in SUBSET pending, ProcessMessage(results) PROVE ListInv'
  <2>1. UNCHANGED <<row, caller, taken>> /\ taken \in Nat /\ taken <= taken
        /\ \A k \in 1 .. taken : made'[k] = made[k]
    BY <1>10, ResultTypes, TakenType DEF ProcessMessage
  <2>2. Listed(row.checkpoints, made', taken) /\ \A c \in Callers : Listed(caller[c].row.checkpoints, made', taken)
    BY <2>1, ListedGrows DEF ListInv
  <2>3. Listed(row'.checkpoints, made', taken') /\ \A c \in Callers : Listed(caller'[c].row.checkpoints, made', taken')
    BY <2>1, <2>2
  <2>4. QED
    BY <2>3 DEF ListInv
<1>11. CASE UNCHANGED storeVars
  BY <1>8, <1>11 DEF storeVars
<1>12. QED
  BY <1>2, <1>3, <1>4, <1>5, <1>6, <1>7, <1>9, <1>10, <1>11 DEF StoreNext

(* However many requests add checkpoints, rewind and write the totals from *)
(* copies they loaded before, and whatever calls fail after their commit,  *)
(* checkpoints_json lists the tracker's checkpoints in the order they were *)
(* made and cumulative_turns never counts a run twice.                     *)
THEOREM NothingStoredTwice ==
    ASSUME StoreAssumption
    PROVE  StoreSpec => []StoredOnce
<1>1. StoreInit => StoreTypeInv /\ ListInv
  <2> SUFFICES ASSUME StoreInit PROVE ListInv
    BY TypeInit
  <2>2. row.checkpoints = <<>> /\ \A c \in Callers : caller[c].row.checkpoints = <<>>
    BY DEF StoreInit, Absent, Free
  <2>3. QED
    BY <2>2, ListedEmpty DEF ListInv
<1>2. StoreTypeInv /\ ListInv /\ [StoreNext]_storeVars => (StoreTypeInv /\ ListInv)'
  BY StoreTypeStep, ListStep
<1>3. StoreTypeInv /\ ListInv => StoredOnce
  <2> SUFFICES ASSUME StoreTypeInv, ListInv PROVE StoredOnce
    OBVIOUS
  <2>2. 1 .. taken \subseteq DOMAIN made
    BY TakenType, LenProperties
  <2>3. \A i, j \in DOMAIN row.checkpoints : i < j =>
            \E k, l \in 1 .. taken : k < l /\ made[k] = row.checkpoints[i] /\ made[l] = row.checkpoints[j]
    BY DEF ListInv, Listed
  <2>4. row.turns <= runs
    BY DEF StoreTypeInv, StoreTypes
  <2>5. QED
    BY <2>2, <2>3, <2>4 DEF StoredOnce
<1>4. QED
  BY <1>1, <1>2, <1>3, PTL DEF StoreSpec

=============================================================================
