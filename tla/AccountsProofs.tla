---------------------------- MODULE AccountsProofs ----------------------------
(***************************************************************************)
(* Proofs about Accounts and SingleSignOn, for any finite set of names, any *)
(* lifetimes and limits, and any number of operations, failed saves and     *)
(* restarts.                                                                *)
(***************************************************************************)
EXTENDS SingleSignOn, SequenceTheorems, FiniteSetTheorems, TLAPS

-----------------------------------------------------------------------------
\* Users and tokens, in memory or in the file, after n operations: nothing is
\* numbered beyond them, somebody is an enabled administrator, and the tokens
\* that are gone, those whose revocation was acknowledged, are revoked.
AccountsIn(us, toks, n, gone) ==
  /\ us \in [DOMAIN us -> Users] /\ DOMAIN us \subseteq Names /\ HasAdmin(us)
  /\ \A u \in DOMAIN us : us[u].password <= n /\ \A c \in us[u].codes : c <= n + 1
  /\ toks \in Seq(Tokens)
  /\ \A t \in gone : t \in DOMAIN toks /\ toks[t].revoked

AccountsOK ==
  /\ spent \in [Bounds -> Nat] /\ spent.ops <= MaxOps
  /\ AccountsIn(users, tokens, spent.ops, retired)
  /\ AccountsIn(disk.users, disk.tokens, spent.ops, retired)
  /\ spent.faults = 0 => disk.users = users /\ disk.tokens = tokens
  /\ redeemed \subseteq Names \X (1..(spent.ops + 1))
  /\ spent.faults = 0 \/ spent.restarts = 0 => Unredeemed(users)

SessionOK(s) == s \in Sessions /\ s.expires = s.asked + Idle /\ s.absolute = s.born + Absolute
SessionsOK ==
  /\ now \in 0..MaxTime
  /\ \A i \in DOMAIN sessions : SessionOK(sessions[i])
  /\ SessionsFollowAccounts
  /\ \A k \in DOMAIN sockets : sockets[k][1] \in {"session", "token"}

\* The failed logins still within the last Lockout are numbered within their
\* time.  While a name may log in they are counted, and when it is locked they
\* will be older than Lockout once it is not.
Failures == [count : 0..(MaxFailures - 1), last : Nat, locked : Nat]
Numbered(S) ==
  /\ S \in SUBSET (Nat \X Nat) /\ IsFiniteSet(S)
  /\ \A m \in S : m[2] <= Cardinality({x \in S : x[1] = m[1]})
Counted(f, S, t) ==
  /\ Numbered(S) /\ f.last <= t
  /\ \A m \in S : m[1] <= f.last /\ m[1] + Lockout > t
  /\ f.locked <= t => Cardinality(S) <= f.count
  /\ f.locked > t => Cardinality(S) <= MaxFailures /\ f.locked = f.last + Lockout
AttemptsOK ==
  /\ failures \in [Names -> Failures] /\ misses \in [Names -> SUBSET (Nat \X Nat)]
  /\ \A n \in Names : Counted(failures[n], misses[n], now)

\* Where a login that was begun is: it waits, its callback runs, or it opened a
\* session; in one of these places, once, or nowhere.
LoginsOK ==
  /\ begun \in 0..MaxBegun
  /\ DOMAIN pending \subseteq 1..begun
  /\ exchanging \in Seq(1..begun)
  /\ opened \in Seq([login : 1..begun, user : Names])
  /\ \A i, j \in DOMAIN exchanging : exchanging[i] = exchanging[j] => i = j
  /\ \A i, j \in DOMAIN opened : opened[i].login = opened[j].login => i = j
  /\ \A i \in DOMAIN exchanging : exchanging[i] \notin DOMAIN pending
  /\ \A i \in DOMAIN opened :
       /\ opened[i].login \notin DOMAIN pending
       /\ \A j \in DOMAIN exchanging : exchanging[j] # opened[i].login
       /\ opened[i].user = Identity[opened[i].login]

\* What every step preserves.
Inv == AccountsOK /\ SessionsOK /\ AttemptsOK /\ LoginsOK

-----------------------------------------------------------------------------
(* The accounts *)

LEMMA EmptyMap == DOMAIN <<>> = {}
<1>1. <<>> \in Seq({}) /\ Len(<<>>) = 0 /\ 1..0 = {}
  BY EmptySeq
<1> QED BY <1>1, LenProperties

LEMMA SpendFacts ==
  ASSUME spent \in [Bounds -> Nat], NEW kinds, "ops" \in kinds, Spend(kinds)
  PROVE  /\ spent' \in [Bounds -> Nat]
         /\ spent'.ops = spent.ops + 1 /\ spent.ops < MaxOps /\ spent'.ops <= MaxOps
         /\ spent.ops \in Nat
         /\ spent'.faults = IF "faults" \in kinds THEN spent.faults + 1 ELSE spent.faults
         /\ spent'.restarts = IF "restarts" \in kinds THEN spent.restarts + 1 ELSE spent.restarts
         /\ spent.faults \in Nat /\ spent.restarts \in Nat
<1>1. {"ops", "faults", "restarts"} \subseteq Bounds
  BY DEF Bounds
<1>2. MaxOps \in Nat
  BY AccountsAssumption
<1> QED BY <1>1, <1>2 DEF Spend

\* The numbers may grow.
LEMMA AccountsGrow ==
  ASSUME NEW us, NEW toks, NEW n \in Nat, NEW gone, AccountsIn(us, toks, n, gone)
  PROVE  AccountsIn(us, toks, n + 1, gone)
  BY DEF AccountsIn, Users, Codes

\* One more operation with its save.
LEMMA AccountsKept ==
  ASSUME AccountsOK, NEW kinds, "ops" \in kinds, Spend(kinds), "restarts" \notin kinds,
         NEW faulty \in BOOLEAN, Saved(faulty), faulty <=> "faults" \in kinds,
         AccountsIn(users', tokens', spent.ops + 1, retired'), faulty => retired' = retired,
         redeemed' \subseteq Names \X (1..(spent.ops + 2)),
         Unredeemed(users) => Unredeemed(users)'
  PROVE  AccountsOK'
<1>1. /\ spent' \in [Bounds -> Nat] /\ spent.ops \in Nat
      /\ spent'.ops = spent.ops + 1 /\ spent'.ops <= MaxOps
      /\ spent'.faults = IF "faults" \in kinds THEN spent.faults + 1 ELSE spent.faults
      /\ spent'.restarts = spent.restarts /\ spent.faults \in Nat
  BY SpendFacts DEF AccountsOK
<1>2. spent'.faults = 0 => ~faulty /\ spent.faults = 0
  BY <1>1
<1>3. ~faulty => disk'.users = users' /\ disk'.tokens = tokens'
  BY DEF Saved
<1>4. AccountsIn(disk'.users, disk'.tokens, spent.ops + 1, retired')
  <2>1. CASE faulty
    <3>1. disk' = disk /\ retired' = retired
      BY <2>1 DEF Saved
    <3>2. AccountsIn(disk.users, disk.tokens, spent.ops + 1, retired)
      BY <1>1, AccountsGrow DEF AccountsOK
    <3> QED BY <3>1, <3>2
  <2>2. CASE ~faulty
    BY <1>3, <2>2
  <2> QED BY <2>1, <2>2
<1>5. redeemed' \subseteq Names \X (1..(spent'.ops + 1))
  BY <1>1
<1>6. spent'.faults = 0 \/ spent'.restarts = 0 => Unredeemed(users)'
  BY <1>1, <1>2 DEF AccountsOK
<1> QED BY <1>1, <1>2, <1>3, <1>4, <1>5, <1>6 DEF AccountsOK

\* A change of one user, who is no administrator less.
LEMMA UserChange ==
  ASSUME AccountsOK, NEW n \in DOMAIN users, NEW faulty \in BOOLEAN,
         NEW kinds, "ops" \in kinds, Spend(kinds), "restarts" \notin kinds,
         Saved(faulty), faulty <=> "faults" \in kinds,
         NEW u \in Users, users' = [users EXCEPT ![n] = u], tokens' = tokens, retired' = retired,
         u.password <= spent.ops + 1, \A c \in u.codes : c <= spent.ops + 2, HasAdmin(users'),
         redeemed' \subseteq Names \X (1..(spent.ops + 2)),
         Unredeemed(users) => Unredeemed(users)'
  PROVE  AccountsOK'
<1>1. /\ AccountsIn(users, tokens, spent.ops + 1, retired) /\ spent.ops \in Nat
  BY SpendFacts, AccountsGrow DEF AccountsOK
<1>2. AccountsIn(users', tokens', spent.ops + 1, retired')
  <2>1. DOMAIN users' = DOMAIN users /\ users' \in [DOMAIN users' -> Users]
    BY <1>1 DEF AccountsIn
  <2>2. ASSUME NEW m \in DOMAIN users'
        PROVE  users'[m].password <= spent.ops + 1
               /\ \A c \in users'[m].codes : c <= spent.ops + 1 + 1
    BY <1>1, <2>1 DEF AccountsIn
  <2> QED BY <1>1, <2>1, <2>2 DEF AccountsIn
<1> QED BY <1>2, AccountsKept

\* Who is not the last enabled administrator leaves another one.
LEMMA AnotherAdmin ==
  ASSUME HasAdmin(users), NEW n, ~LastAdmin(n)
  PROVE  \E m \in DOMAIN users : m # n /\ users[m].role = "admin" /\ ~users[m].disabled
<1>1. CASE n \in EnabledAdmins
  <2>1. EnabledAdmins # {n}
    <3> SUFFICES ASSUME EnabledAdmins = {n} PROVE FALSE
      OBVIOUS
    <3>1. Cardinality(EnabledAdmins) = 1
      BY FS_Singleton
    <3> QED BY <1>1, <3>1 DEF LastAdmin
  <2> QED BY <1>1, <2>1 DEF EnabledAdmins
<1>2. CASE n \notin EnabledAdmins
  BY <1>2 DEF HasAdmin, EnabledAdmins
<1> QED BY <1>1, <1>2

LEMMA UserFacts ==
  ASSUME AccountsOK, NEW n \in DOMAIN users
  PROVE  /\ users[n] \in Users /\ users[n].password <= spent.ops /\ users[n].password \in Nat
         /\ \A c \in users[n].codes : c \in Nat /\ c <= spent.ops + 1
         /\ n \in Names /\ spent.ops \in Nat /\ MaxOps \in Nat
<1>1. users[n] \in Users /\ n \in Names /\ MaxOps \in Nat /\ spent.ops \in Nat
  BY AccountsAssumption DEF AccountsOK, AccountsIn, Bounds
<1>2. users[n].password \in Nat /\ \A c \in users[n].codes : c \in Nat
  BY <1>1 DEF Users, Codes
<1> QED BY <1>1, <1>2 DEF AccountsOK, AccountsIn

\* A user who keeps role and state changes no administrator.
LEMMA AdminStays ==
  ASSUME AccountsOK, NEW n \in DOMAIN users, NEW u, users' = [users EXCEPT ![n] = u],
         u.role = users[n].role, u.disabled = users[n].disabled
  PROVE  HasAdmin(users')
<1>1. PICK m \in DOMAIN users : users[m].role = "admin" /\ ~users[m].disabled
  BY DEF AccountsOK, AccountsIn, HasAdmin
<1>2. users'[m].role = users[m].role /\ users'[m].disabled = users[m].disabled
      /\ m \in DOMAIN users'
  BY <1>1
<1> QED BY <1>1, <1>2 DEF HasAdmin

\* The faults of a step that may fail to save.
LEMMA FaultyKinds ==
  ASSUME NEW faulty \in BOOLEAN
  PROVE  /\ "ops" \in {"ops"} \cup FaultyIf(faulty)
         /\ "restarts" \notin {"ops"} \cup FaultyIf(faulty)
         /\ faulty <=> "faults" \in {"ops"} \cup FaultyIf(faulty)
         /\ "ops" \in {"ops", "logins"} \cup FaultyIf(faulty)
         /\ "restarts" \notin {"ops", "logins"} \cup FaultyIf(faulty)
         /\ faulty <=> "faults" \in {"ops", "logins"} \cup FaultyIf(faulty)
  BY DEF FaultyIf

LEMMA LoginAccounts ==
  ASSUME AccountsOK, NEW n \in Names, NEW code \in Codes \cup {0}, NEW faulty \in BOOLEAN,
         LoginSucceeds(n, code, faulty)
  PROVE  AccountsOK'
<1> DEFINE kinds == {"ops", "logins"} \cup FaultyIf(faulty)
           u == [users[n] EXCEPT !.codes = @ \ {code}]
<1>1. /\ n \in DOMAIN users /\ Spend(kinds) /\ Saved(faulty)
      /\ users' = [users EXCEPT ![n].codes = @ \ {code}]
      /\ redeemed' = redeemed \cup ({n} \X ({code} \ {0}))
      /\ tokens' = tokens /\ retired' = retired
      /\ code # 0 => code \in users[n].codes
  BY DEF LoginSucceeds, Redeem, Available
<1>2. /\ users[n] \in Users /\ users[n].password <= spent.ops /\ users[n].password \in Nat
      /\ \A c \in users[n].codes : c \in Nat /\ c <= spent.ops + 1
      /\ spent.ops \in Nat
  BY <1>1, UserFacts
<1>3. "ops" \in kinds /\ "restarts" \notin kinds /\ (faulty <=> "faults" \in kinds)
  BY FaultyKinds
<1>4. /\ u \in Users /\ users' = [users EXCEPT ![n] = u]
      /\ u.password = users[n].password /\ u.codes = users[n].codes \ {code}
      /\ u.role = users[n].role /\ u.disabled = users[n].disabled
  BY <1>1, <1>2 DEF Users
<1> HIDE DEF kinds, u
<1>5. u.password <= spent.ops + 1 /\ \A c \in u.codes : c <= spent.ops + 2
  BY <1>2, <1>4
<1>6. HasAdmin(users')
  BY <1>1, <1>4, AdminStays
<1>7. redeemed' \subseteq Names \X (1..(spent.ops + 2))
  <2>1. redeemed \subseteq Names \X (1..(spent.ops + 1))
    BY DEF AccountsOK
  <2>2. {n} \X ({code} \ {0}) \subseteq Names \X (1..(spent.ops + 1))
    BY <1>1, <1>2 DEF Codes
  <2> QED BY <1>1, <1>2, <2>1, <2>2
<1>8. Unredeemed(users) => Unredeemed(users)'
  <2> SUFFICES ASSUME Unredeemed(users), NEW p \in redeemed', p[1] \in DOMAIN users'
               PROVE  p[2] \notin users'[p[1]].codes
    BY DEF Unredeemed
  <2>1. CASE p \in redeemed
    BY <1>1, <1>4, <2>1 DEF Unredeemed
  <2>2. CASE p = <<n, code>>
    BY <1>1, <1>4, <2>2
  <2> QED BY <1>1, <2>1, <2>2
<1> QED BY <1>1, <1>3, <1>4, <1>5, <1>6, <1>7, <1>8, UserChange

LEMMA CreateUserAccounts ==
  ASSUME AccountsOK, NEW n \in Names, NEW role \in Roles, NEW faulty \in BOOLEAN,
         CreateUser(n, role, faulty)
  PROVE  AccountsOK'
<1> DEFINE kinds == {"ops"} \cup FaultyIf(faulty)
           v == NewUser(role)
<1>1. /\ n \notin DOMAIN users /\ users' = With(users, n, v) /\ tokens' = tokens
      /\ Spend(kinds) /\ Saved(faulty) /\ UNCHANGED <<redeemed, retired>>
  BY DEF CreateUser, Change, ghosts
<1>2. "ops" \in kinds /\ "restarts" \notin kinds /\ (faulty <=> "faults" \in kinds)
  BY FaultyKinds
<1>3. spent.ops \in Nat /\ AccountsIn(users, tokens, spent.ops + 1, retired)
  BY <1>1, <1>2, SpendFacts, AccountsGrow DEF AccountsOK
<1>4. v \in Users /\ v.password = 0 /\ v.codes = {}
  BY AccountsAssumption DEF NewUser, Users, Roles
<1> HIDE DEF v, kinds
<1>5. /\ DOMAIN users' = DOMAIN users \cup {n} /\ users'[n] = v
      /\ \A y \in DOMAIN users : users'[y] = users[y]
  BY <1>1 DEF With
<1>6. AccountsIn(users', tokens', spent.ops + 1, retired')
  <2>1. users' \in [DOMAIN users' -> Users]
    <3>1. \A y \in DOMAIN users' : users'[y] \in Users
      BY <1>3, <1>4, <1>5 DEF AccountsIn
    <3>2. users' = [y \in DOMAIN users \cup {n} |-> IF y = n THEN v ELSE users[y]]
      BY <1>1 DEF With
    <3> QED BY <3>1, <3>2
  <2>3. DOMAIN users' \subseteq Names /\ HasAdmin(users')
    BY <1>3, <1>5 DEF AccountsIn, HasAdmin
  <2>2. ASSUME NEW u \in DOMAIN users'
        PROVE  users'[u].password <= spent.ops + 1
               /\ \A c \in users'[u].codes : c <= spent.ops + 1 + 1
    BY <1>3, <1>4, <1>5 DEF AccountsIn
  <2> QED BY <1>1, <1>3, <2>1, <2>2, <2>3 DEF AccountsIn
<1>7. redeemed' \subseteq Names \X (1..(spent.ops + 2))
  BY <1>1, <1>3 DEF AccountsOK
<1>8. Unredeemed(users) => Unredeemed(users)'
  BY <1>1, <1>4, <1>5 DEF Unredeemed
<1> QED BY <1>1, <1>2, <1>6, <1>7, <1>8, AccountsKept

\* The changes of one user that leave the recovery codes alone or end them.
LEMMA EditAccounts ==
  ASSUME AccountsOK, NEW n \in DOMAIN users, NEW faulty \in BOOLEAN, Change(faulty),
         NEW u \in Users, users' = [users EXCEPT ![n] = u], UNCHANGED <<tokens, redeemed, retired>>,
         u.password <= spent.ops + 1, u.codes \subseteq users[n].codes, HasAdmin(users')
  PROVE  AccountsOK'
<1> DEFINE kinds == {"ops"} \cup FaultyIf(faulty)
<1>1. /\ Spend(kinds) /\ Saved(faulty)
      /\ "ops" \in kinds /\ "restarts" \notin kinds /\ (faulty <=> "faults" \in kinds)
  BY FaultyKinds DEF Change
<1>2. /\ \A c \in users[n].codes : c \in Nat /\ c <= spent.ops + 1
      /\ spent.ops \in Nat
  BY UserFacts
<1>3. \A c \in u.codes : c <= spent.ops + 2
  BY <1>2
<1>4. redeemed' \subseteq Names \X (1..(spent.ops + 2))
  BY <1>2 DEF AccountsOK
<1>5. Unredeemed(users) => Unredeemed(users)'
  BY DEF Unredeemed
<1> HIDE DEF kinds
<1> QED BY <1>1, <1>3, <1>4, <1>5, UserChange

LEMMA SetRoleAccounts ==
  ASSUME AccountsOK, NEW n \in Names, NEW role \in Roles, NEW faulty \in BOOLEAN,
         SetRole(n, role, faulty)
  PROVE  AccountsOK'
<1> DEFINE u == [users[n] EXCEPT !.role = role]
<1>1. /\ n \in DOMAIN users /\ ~(role # "admin" /\ LastAdmin(n)) /\ Change(faulty)
      /\ users' = [users EXCEPT ![n].role = role] /\ UNCHANGED <<tokens, redeemed, retired>>
  BY DEF SetRole, ghosts
<1>2. users[n] \in Users /\ users[n].password <= spent.ops /\ users[n].password \in Nat
      /\ spent.ops \in Nat
  BY <1>1, UserFacts
<1>3. /\ u \in Users /\ users' = [users EXCEPT ![n] = u] /\ u.role = role
      /\ u.disabled = users[n].disabled /\ u.password = users[n].password
      /\ u.codes = users[n].codes
  BY <1>1, <1>2 DEF Users
<1> HIDE DEF u
<1>4. u.password <= spent.ops + 1
  BY <1>2, <1>3
<1>5. HasAdmin(users')
  <2>1. HasAdmin(users)
    BY DEF AccountsOK, AccountsIn
  <2>2. CASE role = "admin"
    BY <1>1, <1>3, <2>1, <2>2 DEF HasAdmin
  <2>3. CASE role # "admin"
    BY <1>1, <1>3, <2>1, <2>3, AnotherAdmin DEF HasAdmin
  <2> QED BY <2>2, <2>3
<1> QED BY <1>1, <1>3, <1>4, <1>5, EditAccounts

LEMMA SetDisabledAccounts ==
  ASSUME AccountsOK, NEW n \in Names, NEW disabled \in BOOLEAN, NEW faulty \in BOOLEAN,
         SetDisabled(n, disabled, faulty)
  PROVE  AccountsOK'
<1> DEFINE u == [users[n] EXCEPT !.disabled = disabled]
<1>1. /\ n \in DOMAIN users /\ ~(disabled /\ LastAdmin(n)) /\ Change(faulty)
      /\ users' = [users EXCEPT ![n].disabled = disabled]
      /\ UNCHANGED <<tokens, redeemed, retired>>
  BY DEF SetDisabled, ghosts
<1>2. users[n] \in Users /\ users[n].password <= spent.ops /\ users[n].password \in Nat
      /\ spent.ops \in Nat
  BY <1>1, UserFacts
<1>3. /\ u \in Users /\ users' = [users EXCEPT ![n] = u] /\ u.role = users[n].role
      /\ u.disabled = disabled /\ u.password = users[n].password /\ u.codes = users[n].codes
  BY <1>1, <1>2 DEF Users
<1> HIDE DEF u
<1>4. u.password <= spent.ops + 1
  BY <1>2, <1>3
<1>5. HasAdmin(users')
  <2>1. HasAdmin(users)
    BY DEF AccountsOK, AccountsIn
  <2>2. CASE ~disabled
    BY <1>1, <1>3, <2>1, <2>2 DEF HasAdmin
  <2>3. CASE disabled
    BY <1>1, <1>3, <2>1, <2>3, AnotherAdmin DEF HasAdmin
  <2> QED BY <2>2, <2>3
<1> QED BY <1>1, <1>3, <1>4, <1>5, EditAccounts

LEMMA SetPasswordAccounts ==
  ASSUME AccountsOK, NEW n \in Names, NEW faulty \in BOOLEAN, SetPassword(n, faulty)
  PROVE  AccountsOK'
<1> DEFINE u == [users[n] EXCEPT !.password = @ + 1]
<1>1. /\ n \in DOMAIN users /\ Change(faulty) /\ spent.ops < MaxOps
      /\ users' = [users EXCEPT ![n].password = @ + 1] /\ UNCHANGED <<tokens, redeemed, retired>>
  BY DEF SetPassword, ghosts, Change, Spend
<1>2. users[n] \in Users /\ users[n].password <= spent.ops /\ users[n].password \in Nat
      /\ spent.ops \in Nat /\ MaxOps \in Nat
  BY <1>1, UserFacts
<1>3. users[n].password + 1 \in 0..MaxOps /\ users[n].password + 1 <= spent.ops + 1
  BY <1>1, <1>2
<1>4. /\ u \in Users /\ users' = [users EXCEPT ![n] = u] /\ u.role = users[n].role
      /\ u.disabled = users[n].disabled /\ u.password = users[n].password + 1
      /\ u.codes = users[n].codes
  BY <1>1, <1>2, <1>3 DEF Users
<1> HIDE DEF u
<1>5. HasAdmin(users')
  BY <1>1, <1>4, AdminStays
<1> QED BY <1>1, <1>3, <1>4, <1>5, EditAccounts

LEMMA SetupTOTPAccounts ==
  ASSUME AccountsOK, NEW n \in Names, NEW faulty \in BOOLEAN, SetupTOTP(n, faulty)
  PROVE  AccountsOK'
<1> DEFINE u == [users[n] EXCEPT !.totp = "setup", !.codes = {}]
<1>1. /\ n \in DOMAIN users /\ Change(faulty) /\ UNCHANGED <<tokens, redeemed, retired>>
      /\ users' = [users EXCEPT ![n].totp = "setup", ![n].codes = {}]
  BY DEF SetupTOTP, ghosts
<1>2. users[n] \in Users /\ users[n].password <= spent.ops /\ users[n].password \in Nat
      /\ spent.ops \in Nat
  BY <1>1, UserFacts
<1>3. /\ u \in Users /\ users' = [users EXCEPT ![n] = u] /\ u.role = users[n].role
      /\ u.disabled = users[n].disabled /\ u.password = users[n].password /\ u.codes = {}
  BY <1>1, <1>2 DEF Users
<1> HIDE DEF u
<1>4. u.password <= spent.ops + 1
  BY <1>2, <1>3
<1>5. HasAdmin(users')
  BY <1>1, <1>3, AdminStays
<1> QED BY <1>1, <1>3, <1>4, <1>5, EditAccounts

\* The codes of an enrolment are new.
LEMMA EnableTOTPAccounts ==
  ASSUME AccountsOK, NEW n \in Names, NEW faulty \in BOOLEAN, EnableTOTP(n, faulty)
  PROVE  AccountsOK'
<1> DEFINE kinds == {"ops"} \cup FaultyIf(faulty)
           u == [users[n] EXCEPT !.totp = "on", !.codes = {spent.ops + 2}]
<1>1. /\ n \in DOMAIN users /\ Spend(kinds) /\ Saved(faulty)
      /\ UNCHANGED <<tokens, redeemed, retired>> /\ spent.ops < MaxOps
      /\ users' = [users EXCEPT ![n].totp = "on", ![n].codes = {spent.ops + 2}]
  BY DEF EnableTOTP, Change, Spend, ghosts
<1>2. users[n] \in Users /\ users[n].password <= spent.ops /\ users[n].password \in Nat
      /\ spent.ops \in Nat /\ MaxOps \in Nat
  BY <1>1, UserFacts
<1>3. "ops" \in kinds /\ "restarts" \notin kinds /\ (faulty <=> "faults" \in kinds)
  BY FaultyKinds
<1>4. spent.ops + 2 \in Codes
  BY <1>1, <1>2 DEF Codes
<1>5. /\ u \in Users /\ users' = [users EXCEPT ![n] = u] /\ u.role = users[n].role
      /\ u.disabled = users[n].disabled /\ u.password = users[n].password
      /\ u.codes = {spent.ops + 2}
  BY <1>1, <1>2, <1>4 DEF Users
<1> HIDE DEF u, kinds
<1>6. u.password <= spent.ops + 1 /\ \A c \in u.codes : c <= spent.ops + 2
  BY <1>2, <1>5
<1>7. HasAdmin(users')
  BY <1>1, <1>5, AdminStays
<1>8. redeemed' \subseteq Names \X (1..(spent.ops + 2))
  BY <1>1, <1>2 DEF AccountsOK
<1>9. Unredeemed(users) => Unredeemed(users)'
  <2>1. \A p \in redeemed : p[2] # spent.ops + 2
    BY <1>2 DEF AccountsOK
  <2> QED BY <1>1, <1>5, <2>1 DEF Unredeemed
<1> QED BY <1>1, <1>3, <1>5, <1>6, <1>7, <1>8, <1>9, UserChange

LEMMA DisableTOTPAccounts ==
  ASSUME AccountsOK, NEW n \in Names, NEW code \in Codes \cup {0}, NEW faulty \in BOOLEAN,
         DisableTOTP(n, code, faulty)
  PROVE  AccountsOK'
<1> DEFINE kinds == {"ops"} \cup FaultyIf(faulty)
           u == [users[n] EXCEPT !.totp = "off", !.codes = {}]
<1>1. /\ n \in DOMAIN users /\ Spend(kinds) /\ Saved(faulty)
      /\ users' = [users EXCEPT ![n].totp = "off", ![n].codes = {}]
      /\ redeemed' = redeemed \cup ({n} \X ({code} \ {0}))
      /\ tokens' = tokens /\ retired' = retired
      /\ code # 0 => code \in users[n].codes
  BY DEF DisableTOTP, Change
<1>2. /\ users[n] \in Users /\ users[n].password <= spent.ops /\ users[n].password \in Nat
      /\ \A c \in users[n].codes : c \in Nat /\ c <= spent.ops + 1
      /\ spent.ops \in Nat
  BY <1>1, UserFacts
<1>3. "ops" \in kinds /\ "restarts" \notin kinds /\ (faulty <=> "faults" \in kinds)
  BY FaultyKinds
<1>4. /\ u \in Users /\ users' = [users EXCEPT ![n] = u]
      /\ u.password = users[n].password /\ u.codes = {}
      /\ u.role = users[n].role /\ u.disabled = users[n].disabled
  BY <1>1, <1>2 DEF Users
<1> HIDE DEF kinds, u
<1>5. u.password <= spent.ops + 1 /\ \A c \in u.codes : c <= spent.ops + 2
  BY <1>2, <1>4
<1>6. HasAdmin(users')
  BY <1>1, <1>4, AdminStays
<1>7. redeemed' \subseteq Names \X (1..(spent.ops + 2))
  <2>1. redeemed \subseteq Names \X (1..(spent.ops + 1))
    BY DEF AccountsOK
  <2>2. {n} \X ({code} \ {0}) \subseteq Names \X (1..(spent.ops + 1))
    BY <1>1, <1>2 DEF Codes
  <2> QED BY <1>1, <1>2, <2>1, <2>2
<1>8. Unredeemed(users) => Unredeemed(users)'
  BY <1>1, <1>4 DEF Unredeemed
<1> QED BY <1>1, <1>3, <1>4, <1>5, <1>6, <1>7, <1>8, UserChange

LEMMA TokenAccounts ==
  ASSUME AccountsOK, NEW n \in Names, NEW ttl \in Nat, now \in Nat, NEW faulty \in BOOLEAN,
         CreateToken(n, ttl, faulty)
  PROVE  AccountsOK'
<1> DEFINE kinds == {"ops"} \cup FaultyIf(faulty)
           e == [user |-> n, expires |-> now + ttl, revoked |-> FALSE]
<1>1. /\ Spend(kinds) /\ Saved(faulty) /\ tokens' = Append(tokens, e)
      /\ users' = users /\ UNCHANGED <<redeemed, retired>>
  BY DEF CreateToken, Change, ghosts
<1>2. "ops" \in kinds /\ "restarts" \notin kinds /\ (faulty <=> "faults" \in kinds)
  BY FaultyKinds
<1>3. e \in Tokens
  BY DEF Tokens
<1> HIDE DEF kinds, e
<1>4. spent.ops \in Nat /\ AccountsIn(users, tokens, spent.ops + 1, retired)
  BY <1>1, <1>2, SpendFacts, AccountsGrow DEF AccountsOK
<1>5. /\ tokens \in Seq(Tokens) /\ Len(tokens) \in Nat /\ DOMAIN tokens = 1..Len(tokens)
      /\ tokens' \in Seq(Tokens) /\ Len(tokens') = Len(tokens) + 1
      /\ \A i \in 1..Len(tokens) : tokens'[i] = tokens[i]
  BY <1>1, <1>3, <1>4, LenProperties, AppendProperties DEF AccountsIn
<1>6. DOMAIN tokens' = 1..Len(tokens')
  BY <1>5, LenProperties
<1>7. AccountsIn(users', tokens', spent.ops + 1, retired')
  <2>1. \A t \in retired' : t \in DOMAIN tokens' /\ tokens'[t].revoked
    BY <1>1, <1>4, <1>5, <1>6 DEF AccountsIn
  <2> QED BY <1>1, <1>4, <1>5, <2>1 DEF AccountsIn
<1>8. redeemed' \subseteq Names \X (1..(spent.ops + 2))
  BY <1>1, <1>4 DEF AccountsOK
<1>9. Unredeemed(users) => Unredeemed(users)'
  BY <1>1 DEF Unredeemed
<1> QED BY <1>1, <1>2, <1>7, <1>8, <1>9, AccountsKept

LEMMA RevokeTokenAccounts ==
  ASSUME AccountsOK, NEW t \in DOMAIN tokens, NEW faulty \in BOOLEAN, RevokeToken(t, faulty)
  PROVE  AccountsOK'
<1> DEFINE kinds == {"ops"} \cup FaultyIf(faulty)
           e == [tokens[t] EXCEPT !.revoked = TRUE]
<1>1. /\ Spend(kinds) /\ Saved(faulty) /\ tokens' = [tokens EXCEPT ![t].revoked = TRUE]
      /\ users' = users /\ redeemed' = redeemed
      /\ retired' = IF faulty THEN retired ELSE retired \cup {t}
  BY DEF RevokeToken, Change
<1>2. "ops" \in kinds /\ "restarts" \notin kinds /\ (faulty <=> "faults" \in kinds)
  BY FaultyKinds
<1> HIDE DEF kinds
<1>3. spent.ops \in Nat /\ AccountsIn(users, tokens, spent.ops + 1, retired)
  BY <1>1, <1>2, SpendFacts, AccountsGrow DEF AccountsOK
<1>4. tokens \in Seq(Tokens) /\ t \in 1..Len(tokens) /\ DOMAIN tokens = 1..Len(tokens)
  BY <1>3, LenProperties DEF AccountsIn
<1>5. tokens[t] \in Tokens
  BY <1>4, ElementOfSeq
<1>6. e \in Tokens /\ e.revoked /\ tokens' = [tokens EXCEPT ![t] = e]
  BY <1>1, <1>5 DEF Tokens
<1> HIDE DEF e
<1>7. tokens' \in Seq(Tokens)
  BY <1>4, <1>6, ExceptSeq
<1>8. AccountsIn(users', tokens', spent.ops + 1, retired')
  <2>1. \A i \in retired' : i \in DOMAIN tokens' /\ tokens'[i].revoked
    BY <1>1, <1>3, <1>6 DEF AccountsIn
  <2> QED BY <1>1, <1>3, <1>7, <2>1 DEF AccountsIn
<1>9. redeemed' \subseteq Names \X (1..(spent.ops + 2))
  BY <1>1, <1>3 DEF AccountsOK
<1>10. Unredeemed(users) => Unredeemed(users)'
  BY <1>1 DEF Unredeemed
<1> QED BY <1>1, <1>2, <1>8, <1>9, <1>10, AccountsKept

\* The file may be older than what was in memory, but only after a failed save.
LEMMA RestartAccounts ==
  ASSUME AccountsOK, Restart
  PROVE  AccountsOK'
<1> DEFINE kinds == {"ops", "restarts"}
<1>1. /\ Spend(kinds) /\ "ops" \in kinds /\ "restarts" \in kinds /\ "faults" \notin kinds
      /\ users' = disk.users /\ tokens' = disk.tokens /\ UNCHANGED <<disk, redeemed, retired>>
  BY DEF Restart
<1> HIDE DEF kinds
<1>2. /\ spent' \in [Bounds -> Nat] /\ spent'.ops = spent.ops + 1 /\ spent'.ops <= MaxOps
      /\ spent'.faults = spent.faults /\ spent'.restarts # 0 /\ spent.ops \in Nat
  BY <1>1, SpendFacts DEF AccountsOK
<1>3. AccountsIn(disk.users, disk.tokens, spent.ops + 1, retired)
  BY <1>2, AccountsGrow DEF AccountsOK
<1>4. redeemed' \subseteq Names \X (1..(spent'.ops + 1))
  BY <1>1, <1>2 DEF AccountsOK
<1>5. spent'.faults = 0 \/ spent'.restarts = 0 => Unredeemed(users)'
  BY <1>1, <1>2 DEF AccountsOK, Unredeemed
<1> QED BY <1>1, <1>2, <1>3, <1>4, <1>5 DEF AccountsOK

\* An operation that is none on accounts.
LEMMA OtherAccounts ==
  ASSUME AccountsOK, NEW kinds, "ops" \in kinds, "restarts" \notin kinds, "faults" \notin kinds,
         Spend(kinds), UNCHANGED <<stored, redeemed, retired>>
  PROVE  AccountsOK'
<1>1. UNCHANGED <<users, tokens, disk, redeemed, retired>>
  BY DEF stored
<1>2. /\ spent' \in [Bounds -> Nat] /\ spent'.ops = spent.ops + 1 /\ spent'.ops <= MaxOps
      /\ spent'.faults = spent.faults /\ spent'.restarts = spent.restarts /\ spent.ops \in Nat
  BY SpendFacts DEF AccountsOK
<1>3. /\ AccountsIn(disk.users, disk.tokens, spent.ops + 1, retired)
      /\ AccountsIn(users, tokens, spent.ops + 1, retired)
  BY <1>2, AccountsGrow DEF AccountsOK
<1>4. redeemed' \subseteq Names \X (1..(spent'.ops + 1))
  BY <1>1, <1>2 DEF AccountsOK
<1>5. spent'.faults = 0 \/ spent'.restarts = 0 => Unredeemed(users)'
  BY <1>1, <1>2 DEF AccountsOK, Unredeemed
<1> QED BY <1>1, <1>2, <1>3, <1>4, <1>5 DEF AccountsOK

LEMMA SameAccounts ==
  ASSUME AccountsOK, UNCHANGED <<stored, spent, redeemed, retired>>
  PROVE  AccountsOK'
  BY DEF AccountsOK, stored, Unredeemed

LEMMA AccountsInit == SSOInit => AccountsOK
<1> SUFFICES ASSUME SSOInit PROVE AccountsOK
  OBVIOUS
<1>1. /\ disk.users = users /\ disk.tokens = tokens /\ spent = [b \in Bounds |-> 0]
      /\ redeemed = {} /\ retired = {} /\ MaxOps \in Nat /\ Root \in Names /\ Idle \in Nat
  BY AccountsAssumption DEF SSOInit, Init
<1>2. /\ spent \in [Bounds -> Nat] /\ spent.ops = 0 /\ spent.faults = 0
      /\ redeemed \subseteq Names \X (1..(spent.ops + 1)) /\ Unredeemed(users)
  BY <1>1 DEF Bounds, Unredeemed
<1>3. AccountsIn(users, tokens, 0, {})
  <2>1. /\ \A role \in Roles : /\ NewUser(role) \in Users /\ NewUser(role).password = 0
                              /\ NewUser(role).codes = {} /\ NewUser(role).role = role
                              /\ ~NewUser(role).disabled
        /\ "admin" \in Roles /\ 1 \in Codes
    BY <1>1 DEF NewUser, Users, Roles, Codes
  <2>2. CASE users = [n \in {Root} |-> NewUser("admin")] /\ tokens = <<>>
    <3>1. tokens \in Seq(Tokens)
      BY <2>2, EmptySeq
    <3> QED BY <1>1, <2>1, <2>2, <3>1 DEF AccountsIn, HasAdmin
  <2>3. CASE /\ users \in {Loaded(role) : role \in Roles}
             /\ tokens \in [1..1 -> [user : Names \ {Root}, expires : {Idle}, revoked : {FALSE}]]
    <3>1. PICK role \in Roles : users = Loaded(role)
      BY <2>3
    <3>2. /\ DOMAIN users = Names /\ users[Root] = NewUser("admin")
          /\ \A n \in Names \ {Root} :
               users[n] = [NewUser(role) EXCEPT !.totp = "on", !.codes = {1}]
      BY <1>1, <3>1 DEF Loaded
    <3>3. ASSUME NEW n \in Names
          PROVE  /\ users[n] \in Users /\ users[n].password = 0
                 /\ \A c \in users[n].codes : c = 1
      <4>1. CASE n = Root
        BY <2>1, <3>2, <4>1
      <4>2. CASE n # Root
        <5>1. users[n] = [role |-> role, disabled |-> FALSE, password |-> 0,
                          totp |-> "on", codes |-> {1}]
          <6>1. users[n] = [NewUser(role) EXCEPT !.totp = "on", !.codes = {1}]
            BY <3>2, <4>2
          <6>2. users[n] = [[NewUser(role) EXCEPT !.totp = "on"] EXCEPT !.codes = {1}]
            BY <6>1
          <6> QED BY <6>2 DEF NewUser
        <5>2. 0 \in 0..MaxOps /\ {1} \in SUBSET Codes
          BY <1>1, <2>1
        <5> QED BY <5>1, <5>2 DEF Users
      <4> QED BY <4>1, <4>2
    <3>4. users \in [DOMAIN users -> Users]
      BY <3>1, <3>2, <3>3 DEF Loaded
    <3>5. HasAdmin(users)
      BY <1>1, <2>1, <3>2 DEF HasAdmin
    <3>6. tokens \in Seq(Tokens)
      <4>1. tokens \in [1..1 -> Tokens]
        BY <1>1, <2>3 DEF Tokens
      <4> QED BY <4>1, SeqDef
    <3> QED BY <3>2, <3>3, <3>4, <3>5, <3>6 DEF AccountsIn
  <2> QED BY <2>2, <2>3 DEF SSOInit, Init
<1> QED BY <1>1, <1>2, <1>3 DEF AccountsOK

LEMMA AccountsStep == AccountsOK /\ now \in Nat /\ [SSONext]_allVars => AccountsOK'
<1> SUFFICES ASSUME AccountsOK, now \in Nat, [SSONext]_allVars PROVE AccountsOK'
  OBVIOUS
<1>1. CASE Visits
  <2>1. ASSUME NEW n \in Names, LoginFails(n) PROVE AccountsOK'
    BY <2>1, OtherAccounts DEF LoginFails
  <2>2. ASSUME NEW n \in Names, NEW c \in Codes \cup {0}, NEW f \in BOOLEAN,
               LoginSucceeds(n, c, f)
        PROVE  AccountsOK'
    BY <2>2, LoginAccounts
  <2>3. ASSUME NEW i \in DOMAIN sessions,
               \/ Request(i) \/ RequestRefused(i) \/ SessionsHandler(i)
               \/ \E k \in Sockets : Connect(k, i)
        PROVE  AccountsOK'
    BY <2>3, SameAccounts DEF Request, RequestRefused, SessionsHandler, Logout,
         RevokeOtherSessions, ListSessions, Connect, ghosts
  <2>4. ASSUME NEW k \in Sockets, NEW t, ConnectWithToken(k, t) PROVE AccountsOK'
    BY <2>4, SameAccounts DEF ConnectWithToken, ghosts
  <2>5. ASSUME NEW k \in Sockets, Frame(k) \/ Disconnect(k) PROVE AccountsOK'
    BY <2>5, SameAccounts DEF Frame, Disconnect, ghosts, vars
  <2> QED BY <1>1, <2>1, <2>2, <2>3, <2>4, <2>5 DEF Visits
<1>2. CASE Changes
  <2>1. ASSUME NEW f \in BOOLEAN, NEW n \in Names,
               \/ AdminUsers(n, f) \/ AdminUserAction(n, f) \/ SetupTOTP(n, f) \/ EnableTOTP(n, f)
        PROVE  AccountsOK'
    BY <2>1, CreateUserAccounts, SetRoleAccounts, SetDisabledAccounts, SetPasswordAccounts,
       SetupTOTPAccounts, EnableTOTPAccounts DEF AdminUsers, AdminUserAction
  <2>2. ASSUME NEW f \in BOOLEAN, NEW n \in Names, AdminTokens(n, f) PROVE AccountsOK'
    <3>1. {Idle, MaxTime} \subseteq Nat
      BY AccountsAssumption
    <3> QED BY <2>2, <3>1, TokenAccounts DEF AdminTokens
  <2>3. ASSUME NEW f \in BOOLEAN, NEW n \in Names, NEW c \in Codes \cup {0},
               DisableTOTP(n, c, f)
        PROVE  AccountsOK'
    BY <2>3, DisableTOTPAccounts
  <2>4. ASSUME NEW f \in BOOLEAN, NEW t \in DOMAIN tokens, RevokeToken(t, f) PROVE AccountsOK'
    BY <2>4, RevokeTokenAccounts
  <2> QED BY <1>2, <2>1, <2>2, <2>3, <2>4 DEF Changes
<1>3. CASE Tick
  BY <1>3, SameAccounts DEF Tick
<1>4. CASE Begin
  BY <1>4, OtherAccounts DEF Begin, ghosts
<1>5. ASSUME NEW l \in 1..begun, TakeState(l) PROVE AccountsOK'
  BY <1>5, SameAccounts DEF TakeState, vars, ghosts
<1>6. ASSUME NEW c \in DOMAIN exchanging, ExchangeFails(c) PROVE AccountsOK'
  BY <1>6, SameAccounts DEF ExchangeFails, vars, ghosts
<1>7. ASSUME NEW c \in DOMAIN exchanging, NEW t \in 1..begun, ExchangeSucceeds(c, t)
      PROVE  AccountsOK'
  BY <1>7, OtherAccounts DEF ExchangeSucceeds
<1>8. CASE RestartAll
  BY <1>8, RestartAccounts DEF RestartAll
<1>9. CASE UNCHANGED allVars
  BY <1>9, SameAccounts DEF allVars, vars, ghosts
<1> QED BY <1>1, <1>2, <1>3, <1>4, <1>5, <1>6, <1>7, <1>8, <1>9 DEF SSONext

-----------------------------------------------------------------------------
(* The sessions *)

\* Sessions end, and the users of those that go on keep what they stand on.
LEMMA FewerSessions ==
  ASSUME SessionsOK, now' \in 0..MaxTime,
         DOMAIN sessions' \subseteq DOMAIN sessions,
         \A i \in DOMAIN sessions' : sessions'[i] = sessions[i],
         DOMAIN sockets' \subseteq DOMAIN sockets,
         \A k \in DOMAIN sockets' : sockets'[k] = sockets[k],
         \A i \in DOMAIN sessions' :
           LET n == sessions[i].user IN
           n \in DOMAIN users =>
             /\ n \in DOMAIN users' /\ users'[n].role = users[n].role
             /\ users'[n].password = users[n].password
             /\ ~users[n].disabled => ~users'[n].disabled
  PROVE  SessionsOK'
<1>1. SessionsFollowAccounts'
  <2> SUFFICES ASSUME NEW i \in DOMAIN sessions', ~sessions'[i].external
               PROVE  /\ Available(sessions[i].user)'
                      /\ users'[sessions'[i].user].password = sessions'[i].password
                      /\ users'[sessions'[i].user].role = sessions'[i].role
    BY DEF SessionsFollowAccounts
  <2>1. i \in DOMAIN sessions /\ sessions'[i] = sessions[i]
    OBVIOUS
  <2>2. /\ Available(sessions[i].user)
        /\ users[sessions[i].user].password = sessions[i].password
        /\ users[sessions[i].user].role = sessions[i].role
    BY <2>1 DEF SessionsOK, SessionsFollowAccounts
  <2> DEFINE n == sessions[i].user
  <2>3. n \in DOMAIN users /\ ~users[n].disabled
    BY <2>2 DEF Available
  <2>4. /\ n \in DOMAIN users' /\ users'[n].role = users[n].role
        /\ users'[n].password = users[n].password /\ ~users'[n].disabled
    BY <2>3
  <2>5. Available(sessions[i].user)'
    BY <2>1, <2>4 DEF Available
  <2> QED BY <2>1, <2>2, <2>4, <2>5
<1> QED BY <1>1 DEF SessionsOK

\* The same, when no user changes.
LEMMA SameUsers ==
  ASSUME SessionsOK, now' \in 0..MaxTime, UNCHANGED users,
         DOMAIN sessions' \subseteq DOMAIN sessions,
         \A i \in DOMAIN sessions' : sessions'[i] = sessions[i],
         DOMAIN sockets' \subseteq DOMAIN sockets,
         \A k \in DOMAIN sockets' : sockets'[k] = sockets[k]
  PROVE  SessionsOK'
  BY FewerSessions

\* A new session, which carries what its user has now.
LEMMA OpenSessions ==
  ASSUME SessionsOK, UNCHANGED <<now, sockets>>, NEW i, NEW n \in Names, NEW role \in Roles,
         NEW external \in BOOLEAN, Open(i, n, role, external),
         DOMAIN users' = DOMAIN users,
         \A u \in DOMAIN users : /\ users'[u].role = users[u].role
                                /\ users'[u].password = users[u].password
                                /\ users'[u].disabled = users[u].disabled,
         ~external => /\ Available(n) /\ role = users[n].role /\ users[n].password \in Nat
  PROVE  SessionsOK'
<1> DEFINE s == [user |-> n, role |-> role, external |-> external,
                 expires |-> now + Idle, absolute |-> now + Absolute,
                 password |-> IF external THEN 0 ELSE users[n].password,
                 born |-> now, asked |-> now]
<1>1. sessions' = With(sessions, i, s)
  BY DEF Open
<1>2. now \in Nat /\ Idle \in Nat /\ Absolute \in Nat
  BY AccountsAssumption DEF SessionsOK
<1>3. SessionOK(s)
  BY <1>2 DEF SessionOK, Sessions
<1>4. s.user = n /\ s.role = role /\ s.external = external
      /\ (~external => s.password = users[n].password)
  OBVIOUS
<1> HIDE DEF s
<1>5. /\ DOMAIN sessions' = DOMAIN sessions \cup {i} /\ sessions'[i] = s
      /\ \A j \in DOMAIN sessions : j # i => sessions'[j] = sessions[j]
  BY <1>1 DEF With
<1>6. \A j \in DOMAIN sessions' : SessionOK(sessions'[j])
  BY <1>3, <1>5 DEF SessionsOK
<1>7. SessionsFollowAccounts'
  <2> SUFFICES ASSUME NEW j \in DOMAIN sessions', ~sessions'[j].external
               PROVE  /\ Available(sessions[j].user)'
                      /\ users'[sessions'[j].user].password = sessions'[j].password
                      /\ users'[sessions'[j].user].role = sessions'[j].role
    BY DEF SessionsFollowAccounts
  <2>1. CASE j = i
    BY <1>4, <1>5, <2>1 DEF Available
  <2>2. CASE j # i
    <3>1. j \in DOMAIN sessions /\ sessions'[j] = sessions[j]
      BY <1>5, <2>2
    <3>2. /\ Available(sessions[j].user)
          /\ users[sessions[j].user].password = sessions[j].password
          /\ users[sessions[j].user].role = sessions[j].role
      BY <3>1 DEF SessionsOK, SessionsFollowAccounts
    <3> QED BY <3>1, <3>2 DEF Available
  <2> QED BY <2>1, <2>2
<1> QED BY <1>6, <1>7 DEF SessionsOK

LEMMA LoginSessions ==
  ASSUME AccountsOK, SessionsOK, NEW n \in Names, NEW code, NEW faulty \in BOOLEAN,
         LoginSucceeds(n, code, faulty)
  PROVE  SessionsOK'
<1>1. /\ Available(n) /\ n \in DOMAIN users /\ users' = [users EXCEPT ![n].codes = @ \ {code}]
      /\ Open(spent.logins + 1, n, users[n].role, FALSE) /\ UNCHANGED <<now, sockets>>
  BY DEF LoginSucceeds, Redeem, Available
<1>2. \A u \in DOMAIN users : users[u] \in Users
  BY UserFacts
<1>3. users[n].role \in Roles /\ users[n].password \in Nat
  BY <1>1, <1>2, UserFacts DEF Users
<1>4. /\ DOMAIN users' = DOMAIN users
      /\ \A u \in DOMAIN users : /\ users'[u].role = users[u].role
                                /\ users'[u].password = users[u].password
                                /\ users'[u].disabled = users[u].disabled
  BY <1>1, <1>2 DEF Users
<1> QED BY <1>1, <1>3, <1>4, OpenSessions

\* A request renews the session, within its absolute limit.
LEMMA RequestSessions ==
  ASSUME SessionsOK, NEW i, RequestAccepted(i), UNCHANGED <<now, users>>,
         \A k \in DOMAIN sockets' : sockets'[k][1] \in {"session", "token"}
  PROVE  SessionsOK'
<1>1. /\ i \in DOMAIN sessions
      /\ sessions' = [sessions EXCEPT ![i].expires = now + Idle, ![i].asked = now]
  BY DEF RequestAccepted, Valid
<1>2. now \in Nat /\ Idle \in Nat /\ SessionOK(sessions[i])
  BY <1>1, AccountsAssumption DEF SessionsOK
<1> DEFINE s == [sessions[i] EXCEPT !.expires = now + Idle, !.asked = now]
<1>3. /\ SessionOK(s) /\ s.user = sessions[i].user /\ s.role = sessions[i].role
      /\ s.external = sessions[i].external /\ s.password = sessions[i].password
  <2> DEFINE o == sessions[i]
             e == now + Idle
  <2>1. o \in Sessions /\ e \in Nat /\ e = now + Idle /\ o.absolute = o.born + Absolute
    BY <1>2 DEF SessionOK
  <2> HIDE DEF o, e
  <2>2. LET r == [o EXCEPT !.expires = e, !.asked = now] IN
        /\ r \in Sessions /\ r.expires = e /\ r.asked = now /\ r.absolute = o.absolute
        /\ r.born = o.born /\ r.user = o.user /\ r.role = o.role
        /\ r.external = o.external /\ r.password = o.password
    BY <1>2, <2>1 DEF Sessions
  <2>3. s = [o EXCEPT !.expires = e, !.asked = now]
    BY DEF o, e
  <2> QED BY <2>1, <2>2, <2>3 DEF SessionOK, o
<1>4. /\ DOMAIN sessions' = DOMAIN sessions /\ sessions'[i] = s
      /\ \A j \in DOMAIN sessions : j # i => sessions'[j] = sessions[j]
  BY <1>1
<1> HIDE DEF s
<1>5. \A j \in DOMAIN sessions' : SessionOK(sessions'[j])
  BY <1>3, <1>4 DEF SessionsOK
<1>6. SessionsFollowAccounts'
  BY <1>1, <1>3, <1>4 DEF SessionsOK, SessionsFollowAccounts, Available
<1> QED BY <1>5, <1>6 DEF SessionsOK

LEMMA SetRoleSessions ==
  ASSUME AccountsOK, SessionsOK, NEW n \in Names, NEW role \in Roles, NEW faulty \in BOOLEAN,
         SetRole(n, role, faulty)
  PROVE  SessionsOK'
<1>1. /\ n \in DOMAIN users /\ users' = [users EXCEPT ![n].role = role]
      /\ sessions' = [i \in DOMAIN sessions |->
                        IF i \in SessionsOf(n) THEN [sessions[i] EXCEPT !.role = role]
                                               ELSE sessions[i]]
      /\ UNCHANGED <<now, sockets>>
  BY DEF SetRole, Change
<1>2. \A u \in DOMAIN users : users[u] \in Users
  BY UserFacts
<1>3. /\ DOMAIN users' = DOMAIN users
      /\ \A u \in DOMAIN users : /\ users'[u].role = (IF u = n THEN role ELSE users[u].role)
                                /\ users'[u].password = users[u].password
                                /\ users'[u].disabled = users[u].disabled
  BY <1>1, <1>2 DEF Users
<1>4. ASSUME NEW i \in DOMAIN sessions
      PROVE  /\ SessionOK(sessions'[i]) /\ sessions'[i].user = sessions[i].user
             /\ sessions'[i].external = sessions[i].external
             /\ sessions'[i].password = sessions[i].password
             /\ sessions'[i].role = IF sessions[i].user = n THEN role ELSE sessions[i].role
  <2>1. SessionOK(sessions[i])
    BY DEF SessionsOK
  <2>2. sessions'[i] = IF sessions[i].user = n THEN [sessions[i] EXCEPT !.role = role]
                                               ELSE sessions[i]
    BY <1>1 DEF SessionsOf
  <2> QED BY <2>1, <2>2 DEF SessionOK, Sessions
<1>5. DOMAIN sessions' = DOMAIN sessions
  BY <1>1
<1>6. SessionsFollowAccounts'
  BY <1>3, <1>4, <1>5 DEF SessionsOK, SessionsFollowAccounts, Available
<1> QED BY <1>1, <1>4, <1>5, <1>6 DEF SessionsOK

\* The other changes of accounts end the sessions of the user, when they touch
\* what those stand on.
LEMMA ChangeSessions ==
  ASSUME AccountsOK, SessionsOK, NEW n \in Names, NEW f \in BOOLEAN,
         \/ AdminUsers(n, f) \/ SetPassword(n, f) \/ SetupTOTP(n, f) \/ EnableTOTP(n, f)
         \/ \E d \in BOOLEAN : SetDisabled(n, d, f)
         \/ \E c \in Codes \cup {0} : DisableTOTP(n, c, f)
  PROVE  SessionsOK'
<1>1. \A u \in DOMAIN users : users[u] \in Users
  BY UserFacts
<1>2. ASSUME Change(f) PROVE UNCHANGED <<now, sockets>> /\ now' \in 0..MaxTime
  BY <1>2 DEF Change, SessionsOK
<1>3. \A S : /\ DOMAIN Without(sessions, S) = DOMAIN sessions \ S
             /\ \A i \in DOMAIN sessions \ S : Without(sessions, S)[i] = sessions[i]
  BY DEF Without, Restrict
<1>4. CASE AdminUsers(n, f)
  <2>1. PICK role \in Roles : CreateUser(n, role, f)
    BY <1>4 DEF AdminUsers
  <2>2. /\ UNCHANGED sessions /\ DOMAIN users \subseteq DOMAIN users'
        /\ \A u \in DOMAIN users : users'[u] = users[u]
    BY <2>1 DEF CreateUser, With
  <2>3. UNCHANGED <<now, sockets>> /\ now' \in 0..MaxTime
    BY <1>2, <2>1 DEF CreateUser
  <2> QED BY <2>2, <2>3, FewerSessions
<1>5. CASE SetPassword(n, f)
  <2>1. /\ sessions' = Without(sessions, SessionsOf(n)) /\ DOMAIN users' = DOMAIN users
        /\ \A u \in DOMAIN users : u # n => users'[u] = users[u]
    BY <1>5 DEF SetPassword
  <2>2. /\ DOMAIN sessions' \subseteq DOMAIN sessions
        /\ \A i \in DOMAIN sessions' : sessions'[i] = sessions[i] /\ sessions[i].user # n
    BY <2>1 DEF Without, Restrict, SessionsOf
  <2>3. UNCHANGED <<now, sockets>> /\ now' \in 0..MaxTime
    BY <1>2, <1>5 DEF SetPassword
  <2> QED BY <2>1, <2>2, <2>3, FewerSessions
<1>6. ASSUME NEW d \in BOOLEAN, SetDisabled(n, d, f) PROVE SessionsOK'
  <2>1. /\ sessions' = (IF d THEN Without(sessions, SessionsOf(n)) ELSE sessions)
        /\ users' = [users EXCEPT ![n].disabled = d]
        /\ n \in DOMAIN users
    BY <1>6 DEF SetDisabled
  <2>2. /\ DOMAIN sessions' \subseteq DOMAIN sessions
        /\ \A i \in DOMAIN sessions' : sessions'[i] = sessions[i] /\ (sessions[i].user = n => ~d)
    BY <2>1 DEF Without, Restrict, SessionsOf
  <2>3. /\ DOMAIN users' = DOMAIN users
        /\ \A u \in DOMAIN users : /\ users'[u].role = users[u].role
                                  /\ users'[u].password = users[u].password
                                  /\ users'[u].disabled = IF u = n THEN d ELSE users[u].disabled
    BY <1>1, <2>1 DEF Users
  <2>4. UNCHANGED <<now, sockets>> /\ now' \in 0..MaxTime
    BY <1>2, <1>6 DEF SetDisabled
  <2> QED BY <2>2, <2>3, <2>4, FewerSessions
<1>7. ASSUME SetupTOTP(n, f) \/ EnableTOTP(n, f) \/ \E c \in Codes \cup {0} : DisableTOTP(n, c, f)
      PROVE  SessionsOK'
  <2>1. \E t, c : users' = [users EXCEPT ![n].totp = t, ![n].codes = c]
    BY <1>7 DEF SetupTOTP, EnableTOTP, DisableTOTP
  <2>2. /\ DOMAIN users' = DOMAIN users
        /\ \A u \in DOMAIN users : /\ users'[u].role = users[u].role
                                  /\ users'[u].password = users[u].password
                                  /\ users'[u].disabled = users[u].disabled
    BY <1>1, <2>1 DEF Users
  <2>3. UNCHANGED sessions /\ UNCHANGED <<now, sockets>> /\ now' \in 0..MaxTime
    BY <1>2, <1>7 DEF SetupTOTP, EnableTOTP, DisableTOTP
  <2> QED BY <2>2, <2>3, FewerSessions
<1> QED BY <1>4, <1>5, <1>6, <1>7

LEMMA SessionsInit == SSOInit => SessionsOK
  BY AccountsAssumption, EmptyMap DEF SSOInit, Init, SessionsOK, SessionsFollowAccounts

LEMMA SessionsStep == AccountsOK /\ SessionsOK /\ LoginsOK /\ [SSONext]_allVars => SessionsOK'
<1> SUFFICES ASSUME AccountsOK, SessionsOK, LoginsOK, [SSONext]_allVars PROVE SessionsOK'
  OBVIOUS
<1>1. now \in 0..MaxTime /\ now \in Nat /\ MaxTime \in Nat
  BY AccountsAssumption DEF SessionsOK
<1>2. ASSUME UNCHANGED <<now, users, sessions, sockets>> PROVE SessionsOK'
  BY <1>1, <1>2, SameUsers
<1>3. \A S : /\ DOMAIN Without(sessions, S) \subseteq DOMAIN sessions
             /\ \A i \in DOMAIN Without(sessions, S) : Without(sessions, S)[i] = sessions[i]
  BY DEF Without, Restrict
<1>4. CASE Visits
  <2>1. ASSUME NEW n \in Names, LoginFails(n) PROVE SessionsOK'
    BY <1>2, <2>1 DEF LoginFails, stored
  <2>2. ASSUME NEW n \in Names, NEW c, NEW f \in BOOLEAN, LoginSucceeds(n, c, f)
        PROVE  SessionsOK'
    BY <2>2, LoginSessions
  <2>3. ASSUME NEW i \in DOMAIN sessions, Request(i) PROVE SessionsOK'
    <3>1. RequestAccepted(i) /\ UNCHANGED <<now, users, sockets>>
      BY <2>3 DEF Request, stored
    <3> QED BY <3>1, RequestSessions DEF SessionsOK
  <2>4. ASSUME NEW i \in DOMAIN sessions, RequestRefused(i) \/ SessionsHandler(i)
        PROVE  SessionsOK'
    <3>1. \E S : sessions' = Without(sessions, S)
      BY <2>4 DEF RequestRefused, SessionsHandler, Logout, RevokeOtherSessions, ListSessions
    <3>2. UNCHANGED <<now, users, sockets>>
      BY <2>4 DEF RequestRefused, SessionsHandler, Logout, RevokeOtherSessions, ListSessions, stored
    <3> QED BY <1>1, <1>3, <3>1, <3>2, SameUsers
  <2>5. ASSUME NEW i \in DOMAIN sessions, NEW k \in Sockets, Connect(k, i) PROVE SessionsOK'
    <3>1. /\ RequestAccepted(i) /\ UNCHANGED <<now, users>>
          /\ sockets' = With(sockets, k, <<"session", i>>)
      BY <2>5 DEF Connect, stored
    <3>2. \A j \in DOMAIN sockets' : sockets'[j][1] \in {"session", "token"}
      BY <3>1 DEF SessionsOK, With
    <3> QED BY <3>1, <3>2, RequestSessions
  <2>6. ASSUME NEW k \in Sockets, NEW t, ConnectWithToken(k, t) PROVE SessionsOK'
    <3>1. UNCHANGED <<now, users, sessions>> /\ sockets' = With(sockets, k, <<"token", t>>)
      BY <2>6 DEF ConnectWithToken, stored
    <3>2. \A j \in DOMAIN sockets' : sockets'[j][1] \in {"session", "token"}
      BY <3>1 DEF SessionsOK, With
    <3>3. SessionsFollowAccounts'
      BY <3>1 DEF SessionsOK, SessionsFollowAccounts, Available
    <3> QED BY <3>1, <3>2, <3>3 DEF SessionsOK
  <2>7. ASSUME NEW k \in Sockets, Frame(k) PROVE SessionsOK'
    BY <1>2, <2>7 DEF Frame, vars, stored
  <2>8. ASSUME NEW k \in Sockets, Disconnect(k) PROVE SessionsOK'
    <3>1. /\ sockets' = Without(sockets, {k}) /\ UNCHANGED <<now, users>>
          /\ UNCHANGED sessions \/ \E S : sessions' = Without(sessions, S)
      BY <2>8 DEF Disconnect, stored
    <3>2. /\ DOMAIN sockets' \subseteq DOMAIN sockets
          /\ \A j \in DOMAIN sockets' : sockets'[j] = sockets[j]
      BY <3>1 DEF Without, Restrict
    <3>3. /\ DOMAIN sessions' \subseteq DOMAIN sessions
          /\ \A i \in DOMAIN sessions' : sessions'[i] = sessions[i]
      BY <1>3, <3>1
    <3> QED BY <1>1, <3>1, <3>2, <3>3, SameUsers
  <2> QED BY <1>4, <2>1, <2>2, <2>3, <2>4, <2>5, <2>6, <2>7, <2>8 DEF Visits
<1>5. CASE Changes
  <2>1. ASSUME NEW f \in BOOLEAN, NEW n \in Names, NEW r \in Roles, SetRole(n, r, f)
        PROVE  SessionsOK'
    BY <2>1, SetRoleSessions
  <2>2. ASSUME NEW f \in BOOLEAN, NEW n \in Names, AdminTokens(n, f) PROVE SessionsOK'
    BY <1>2, <2>2 DEF AdminTokens, CreateToken, Change
  <2>3. ASSUME NEW f \in BOOLEAN, NEW t \in DOMAIN tokens, RevokeToken(t, f) PROVE SessionsOK'
    BY <1>2, <2>3 DEF RevokeToken, Change
  <2> QED BY <1>5, <2>1, <2>2, <2>3, ChangeSessions DEF Changes, AdminUserAction
<1>6. CASE Tick
  <2>1. UNCHANGED <<users, sessions, sockets>> /\ now' \in 0..MaxTime
    BY <1>1, <1>6 DEF Tick, stored
  <2> QED BY <2>1, SameUsers
<1>7. CASE RestartAll
  <2>1. sessions' = <<>> /\ sockets' = <<>> /\ now' = now
    BY <1>7 DEF RestartAll, Restart
  <2> QED BY <1>1, <2>1, EmptyMap DEF SessionsOK, SessionsFollowAccounts
<1>8. ASSUME NEW c \in DOMAIN exchanging, NEW t \in 1..begun, ExchangeSucceeds(c, t)
      PROVE  SessionsOK'
  <2>1. /\ Open(spent.logins + 1, Identity[t], "viewer", TRUE) /\ UNCHANGED <<now, users, sockets>>
    BY <1>8 DEF ExchangeSucceeds, stored
  <2>2. Identity[t] \in Names
    BY SingleSignOnAssumption, <1>8 DEF LoginsOK
  <2> QED BY <2>1, <2>2, OpenSessions DEF Roles
<1>9. ASSUME \/ Begin \/ UNCHANGED allVars
             \/ \E l \in 1..begun : TakeState(l)
             \/ \E c \in DOMAIN exchanging : ExchangeFails(c)
      PROVE  SessionsOK'
  BY <1>2, <1>9 DEF Begin, TakeState, ExchangeFails, allVars, vars, stored
<1> QED BY <1>4, <1>5, <1>6, <1>7, <1>8, <1>9 DEF SSONext

-----------------------------------------------------------------------------
(* The failed logins *)

LEMMA AttemptParameters ==
  /\ MaxFailures \in Nat \ {0} /\ Lockout \in Nat \ {0} /\ Window \in Nat /\ Lockout <= Window
  BY AccountsAssumption

\* One more failed login has a number of its own.
LEMMA OneMoreMiss ==
  ASSUME NEW S, Numbered(S), NEW t \in Nat,
         NEW e, e = <<t, Cardinality({x \in S : x[1] = t}) + 1>>
  PROVE  /\ Numbered(S \cup {e}) /\ Cardinality(S \cup {e}) = Cardinality(S) + 1
         /\ Cardinality(S) \in Nat /\ e[1] = t
<1> DEFINE At(T, u) == {x \in T : x[1] = u}
           k == Cardinality(At(S, t))
           S2 == S \cup {e}
<1>1. S \in SUBSET (Nat \X Nat) /\ IsFiniteSet(S) /\ \A m \in S : m[2] <= Cardinality(At(S, m[1]))
  BY DEF Numbered
<1>2. \A u : IsFiniteSet(At(S, u)) /\ Cardinality(At(S, u)) \in Nat
  <2> SUFFICES ASSUME NEW u PROVE IsFiniteSet(At(S, u)) /\ Cardinality(At(S, u)) \in Nat
    OBVIOUS
  <2>1. At(S, u) \in SUBSET S
    OBVIOUS
  <2> HIDE DEF At
  <2> QED BY <1>1, <2>1, FS_Subset, FS_CardinalityType
<1>3. e = <<t, k + 1>> /\ k \in Nat /\ e[1] = t /\ e[2] = k + 1 /\ e \in Nat \X Nat
  <2>1. k \in Nat
    BY <1>2
  <2>2. e = <<t, k + 1>>
    OBVIOUS
  <2> HIDE DEF k
  <2> QED BY <2>1, <2>2
<1>4. e \notin S
  <2> SUFFICES ASSUME e \in S PROVE FALSE
    OBVIOUS
  <2>1. e[2] <= Cardinality(At(S, e[1]))
    BY <1>1
  <2> HIDE DEF k, At
  <2>2. k + 1 <= k
    BY <1>3, <2>1 DEF k
  <2> QED BY <1>3, <2>2
<1>5. IsFiniteSet(S2) /\ Cardinality(S2) = Cardinality(S) + 1 /\ Cardinality(S) \in Nat
  BY <1>1, <1>4, FS_AddElement, FS_CardinalityType
<1>6. At(S2, t) = At(S, t) \cup {e} /\ \A u : u # t => At(S2, u) = At(S, u)
  BY <1>3
<1>7. Cardinality(At(S2, t)) = k + 1
  <2>1. e \notin At(S, t)
    BY <1>4
  <2>2. IsFiniteSet(At(S, t)) /\ k = Cardinality(At(S, t)) /\ At(S2, t) = At(S, t) \cup {e}
    BY <1>2, <1>6
  <2> HIDE DEF At, k, S2
  <2> QED BY <2>1, <2>2, FS_AddElement
<1>8. ASSUME NEW m \in S2 PROVE m[2] <= Cardinality(At(S2, m[1]))
  <2>1. CASE m = e
    <3> HIDE DEF At, k, S2
    <3> QED BY <1>3, <1>7, <2>1
  <2>2. CASE m \in S /\ m[1] = t
    <3>1. m[2] <= k /\ m[2] \in Nat
      BY <1>1, <2>2
    <3> HIDE DEF At, k, S2
    <3> QED BY <1>3, <1>7, <2>2, <3>1
  <2>3. CASE m \in S /\ m[1] # t
    <3>1. m[2] <= Cardinality(At(S, m[1])) /\ At(S2, m[1]) = At(S, m[1])
      BY <1>1, <1>6, <2>3
    <3> HIDE DEF At, k, S2
    <3> QED BY <3>1
  <2> QED BY <2>1, <2>2, <2>3
<1>9. S2 \in SUBSET (Nat \X Nat)
  BY <1>1, <1>3
<1> QED BY <1>3, <1>5, <1>8, <1>9 DEF Numbered

\* What is older than a time is forgotten.
LEMMA OlderForgotten ==
  ASSUME NEW S, Numbered(S), NEW t \in Nat, NEW T, T = {m \in S : m[1] + Lockout > t}
  PROVE  /\ Numbered(T) /\ Cardinality(T) <= Cardinality(S)
         /\ Cardinality(S) \in Nat /\ Cardinality(T) \in Nat
<1>1. S \in SUBSET (Nat \X Nat) /\ IsFiniteSet(S) /\ T \in SUBSET S
  BY DEF Numbered
<1>2. IsFiniteSet(T) /\ Cardinality(T) <= Cardinality(S) /\ Cardinality(S) \in Nat
      /\ Cardinality(T) \in Nat
  BY <1>1, FS_Subset, FS_CardinalityType
<1>3. ASSUME NEW m \in T PROVE m[2] <= Cardinality({x \in T : x[1] = m[1]})
  <2>1. {x \in T : x[1] = m[1]} = {x \in S : x[1] = m[1]}
    OBVIOUS
  <2> QED BY <1>1, <2>1 DEF Numbered
<1> QED BY <1>1, <1>2, <1>3 DEF Numbered

LEMMA NothingCounted ==
  ASSUME NEW t \in Nat
  PROVE  NoFailures \in Failures /\ Counted(NoFailures, {}, t)
<1>1. Numbered({}) /\ Cardinality({}) = 0
  BY FS_EmptySet DEF Numbered
<1> QED BY <1>1, AttemptParameters DEF NoFailures, Failures, Counted

\* A failed login of a name that is not locked.
LEMMA FailureCounted ==
  ASSUME NEW f \in Failures, NEW S, now \in Nat, Counted(f, S, now), now >= f.locked,
         NEW e, e = <<now, Cardinality({x \in S : x[1] = now}) + 1>>
  PROVE  Failed(f) \in Failures /\ Counted(Failed(f), S \cup {e}, now)
<1> DEFINE S2 == S \cup {e}
           n == Cardinality(S)
           recent == IF now - f.last > Window THEN 0 ELSE f.count
<1>1. /\ f.count \in 0..(MaxFailures - 1) /\ f.last \in Nat /\ f.locked \in Nat
      /\ Numbered(S) /\ f.last <= now /\ S \in SUBSET (Nat \X Nat)
      /\ \A m \in S : m[1] \in Nat /\ m[1] <= f.last /\ m[1] + Lockout > now
  BY DEF Failures, Counted, Numbered
<1>2. Numbered(S2) /\ Cardinality(S2) = n + 1 /\ n \in Nat /\ e[1] = now
  BY <1>1, OneMoreMiss
<1>3. n <= f.count
  BY <1>1 DEF Counted
<1>4. n <= recent
  <2>1. CASE now - f.last > Window
    <3>1. S = {}
      BY <1>1, <2>1, AttemptParameters
    <3> QED BY <2>1, <3>1, FS_EmptySet
  <2> QED BY <1>3, <2>1
<1>5. \A m \in S2 : m[1] <= now /\ m[1] + Lockout > now
  BY <1>1, <1>2, AttemptParameters
<1> HIDE DEF S2, n
<1>6. CASE recent + 1 >= MaxFailures
  <2>1. Failed(f) = [count |-> 0, last |-> now, locked |-> now + Lockout]
    BY <1>6 DEF Failed
  <2>2. Cardinality(S2) <= MaxFailures
    BY <1>1, <1>2, <1>3, AttemptParameters
  <2>3. Failed(f) \in Failures
    BY <2>1, AttemptParameters DEF Failures
  <2>4. Counted(Failed(f), S2, now)
    BY <1>2, <1>5, <2>1, <2>2, AttemptParameters DEF Counted
  <2> QED BY <2>3, <2>4 DEF S2
<1>7. CASE ~(recent + 1 >= MaxFailures)
  <2>1. Failed(f) = [f EXCEPT !.count = recent + 1, !.last = now]
    BY <1>7 DEF Failed
  <2>2. recent + 1 \in 0..(MaxFailures - 1) /\ Cardinality(S2) <= recent + 1
    BY <1>1, <1>2, <1>4, <1>7, AttemptParameters
  <2> HIDE DEF recent
  <2>3. /\ Failed(f) \in Failures /\ Failed(f).count = recent + 1 /\ Failed(f).last = now
        /\ Failed(f).locked = f.locked
    BY <2>1, <2>2 DEF Failures
  <2>4. Counted(Failed(f), S2, now)
    BY <1>1, <1>2, <1>5, <2>2, <2>3 DEF Counted
  <2> QED BY <2>3, <2>4 DEF S2
<1> QED BY <1>6, <1>7

\* A tick of the clock.
LEMMA TickCounted ==
  ASSUME NEW f \in Failures, NEW S, now \in Nat, Counted(f, S, now),
         NEW T, T = {m \in S : m[1] + Lockout > now + 1}
  PROVE  Counted(f, T, now + 1)
<1>1. /\ f.count \in 0..(MaxFailures - 1) /\ f.last \in Nat /\ f.locked \in Nat
      /\ Numbered(S) /\ f.last <= now /\ S \in SUBSET (Nat \X Nat)
      /\ \A m \in S : m[1] \in Nat /\ m[1] <= f.last
  BY AttemptParameters DEF Failures, Counted, Numbered
<1>2. /\ Numbered(T) /\ Cardinality(T) <= Cardinality(S)
      /\ Cardinality(S) \in Nat /\ Cardinality(T) \in Nat
  BY <1>1, OlderForgotten
<1>3. \A m \in T : m[1] <= f.last /\ m[1] + Lockout > now + 1
  BY <1>1
<1>4. f.locked <= now + 1 => Cardinality(T) <= f.count
  <2>1. CASE f.locked <= now
    BY <1>1, <1>2, <2>1, AttemptParameters DEF Counted
  <2>2. CASE f.locked = now + 1
    <3>1. f.locked = f.last + Lockout
      BY <1>1, <2>2 DEF Counted
    <3>2. T = {}
      BY <1>1, <2>2, <3>1, AttemptParameters
    <3>3. Cardinality(T) = 0 /\ f.count >= 0
      BY <1>1, <3>2, FS_EmptySet, AttemptParameters
    <3> QED BY <3>3
  <2> QED BY <1>1, <2>1, <2>2
<1>5. f.locked > now + 1 => Cardinality(T) <= MaxFailures /\ f.locked = f.last + Lockout
  BY <1>1, <1>2, AttemptParameters DEF Counted
<1>6. f.last <= now + 1
  BY <1>1
<1> QED BY <1>2, <1>3, <1>4, <1>5, <1>6 DEF Counted

LEMMA AttemptsInit == SSOInit => AttemptsOK
<1>1. NoFailures \in Failures /\ Counted(NoFailures, {}, 0)
  BY NothingCounted
<1> QED BY <1>1 DEF SSOInit, Init, AttemptsOK

LEMMA AttemptsStep == AttemptsOK /\ now \in Nat /\ [SSONext]_allVars => AttemptsOK'
<1> SUFFICES ASSUME AttemptsOK, now \in Nat, [SSONext]_allVars PROVE AttemptsOK'
  OBVIOUS
<1>1. ASSUME UNCHANGED <<now, failures, misses>> PROVE AttemptsOK'
  BY <1>1 DEF AttemptsOK
<1>2. /\ failures \in [Names -> Failures] /\ misses \in [Names -> SUBSET (Nat \X Nat)]
      /\ \A n \in Names : Counted(failures[n], misses[n], now)
  BY DEF AttemptsOK
<1>3. NoFailures \in Failures /\ Counted(NoFailures, {}, now)
  BY NothingCounted
<1>4. ASSUME NEW n \in Names, LoginFails(n) PROVE AttemptsOK'
  <2> DEFINE e == <<now, Cardinality(Misses(n, now)) + 1>>
  <2>1. /\ now >= failures[n].locked /\ now' = now
        /\ failures' = [failures EXCEPT ![n] = Failed(failures[n])]
        /\ misses' = [misses EXCEPT ![n] = misses[n] \cup {e}]
    BY <1>4 DEF LoginFails
  <2>2. e = <<now, Cardinality({x \in misses[n] : x[1] = now}) + 1>>
    BY DEF Misses
  <2> HIDE DEF e
  <2>3. /\ Failed(failures[n]) \in Failures
        /\ Counted(Failed(failures[n]), misses[n] \cup {e}, now)
    BY <1>2, <2>1, <2>2, FailureCounted
  <2>4. failures' \in [Names -> Failures] /\ misses' \in [Names -> SUBSET (Nat \X Nat)]
    BY <1>2, <2>1, <2>3 DEF Counted, Numbered
  <2>5. \A u \in Names : Counted(failures'[u], misses'[u], now)
    BY <1>2, <2>1, <2>3
  <2> QED BY <2>1, <2>4, <2>5 DEF AttemptsOK
<1>5. ASSUME NEW n \in Names, NEW c, NEW f, LoginSucceeds(n, c, f) PROVE AttemptsOK'
  <2>1. /\ now' = now /\ failures' = [failures EXCEPT ![n] = NoFailures]
        /\ misses' = [misses EXCEPT ![n] = {}]
    BY <1>5 DEF LoginSucceeds
  <2>2. failures' \in [Names -> Failures] /\ misses' \in [Names -> SUBSET (Nat \X Nat)]
    BY <1>2, <1>3, <2>1
  <2>3. \A u \in Names : Counted(failures'[u], misses'[u], now)
    BY <1>2, <1>3, <2>1
  <2> QED BY <2>1, <2>2, <2>3 DEF AttemptsOK
<1>6. CASE Tick
  <2>1. /\ now' = now + 1 /\ failures' = failures
        /\ misses' = [n \in Names |-> {m \in misses[n] : m[1] + Lockout > now + 1}]
    BY <1>6 DEF Tick
  <2>2. misses' \in [Names -> SUBSET (Nat \X Nat)]
    BY <1>2, <2>1
  <2>3. \A u \in Names : Counted(failures'[u], misses'[u], now + 1)
    BY <1>2, <2>1, TickCounted
  <2> QED BY <1>2, <2>1, <2>2, <2>3 DEF AttemptsOK
<1>7. CASE RestartAll
  <2>1. /\ now' = now /\ failures' = [n \in Names |-> NoFailures] /\ misses' = [n \in Names |-> {}]
    BY <1>7 DEF RestartAll, Restart
  <2> QED BY <1>3, <2>1 DEF AttemptsOK
<1>8. CASE Visits
  <2>1. ASSUME NEW i \in DOMAIN sessions,
               \/ Request(i) \/ RequestRefused(i) \/ SessionsHandler(i)
               \/ \E k \in Sockets : Connect(k, i)
        PROVE  UNCHANGED <<now, failures, misses>>
    BY <2>1 DEF Request, RequestRefused, SessionsHandler, Logout, RevokeOtherSessions,
         ListSessions, Connect, ghosts
  <2>2. ASSUME NEW k \in Sockets,
               (\E t \in DOMAIN tokens : ConnectWithToken(k, t)) \/ Frame(k) \/ Disconnect(k)
        PROVE  UNCHANGED <<now, failures, misses>>
    BY <2>2 DEF ConnectWithToken, Frame, Disconnect, vars, ghosts
  <2> QED BY <1>1, <1>4, <1>5, <1>8, <2>1, <2>2 DEF Visits
<1>9. CASE Changes
  <2>1. ASSUME NEW f, Change(f), misses' = misses PROVE AttemptsOK'
    BY <1>1, <2>1 DEF Change
  <2>2. ASSUME NEW n, NEW f, AdminUsers(n, f) \/ AdminUserAction(n, f) PROVE AttemptsOK'
    BY <2>1, <2>2 DEF AdminUsers, AdminUserAction, CreateUser, SetRole, SetDisabled, SetPassword,
       ghosts
  <2>3. ASSUME NEW n, NEW f, AdminTokens(n, f) \/ SetupTOTP(n, f) \/ EnableTOTP(n, f)
        PROVE  AttemptsOK'
    BY <2>1, <2>3 DEF AdminTokens, CreateToken, SetupTOTP, EnableTOTP, ghosts
  <2>4. ASSUME NEW n, NEW f, NEW c, DisableTOTP(n, c, f) PROVE AttemptsOK'
    BY <2>1, <2>4 DEF DisableTOTP
  <2>5. ASSUME NEW t, NEW f, RevokeToken(t, f) PROVE AttemptsOK'
    BY <2>1, <2>5 DEF RevokeToken
  <2> QED BY <1>9, <2>2, <2>3, <2>4, <2>5 DEF Changes
<1>10. ASSUME \/ Begin \/ UNCHANGED allVars
              \/ \E l \in 1..begun : TakeState(l)
              \/ \E c \in DOMAIN exchanging : ExchangeFails(c) \/ \E t \in 1..begun : ExchangeSucceeds(c, t)
       PROVE  AttemptsOK'
  BY <1>1, <1>10 DEF Begin, TakeState, ExchangeFails, ExchangeSucceeds, allVars, vars, ghosts
<1> QED BY <1>6, <1>7, <1>8, <1>9, <1>10 DEF SSONext

-----------------------------------------------------------------------------
(* The logins with the provider *)

LEMMA LoginParameters == MaxBegun \in Nat /\ Identity \in [1..MaxBegun -> Names]
  BY SingleSignOnAssumption

LEMMA LoginTypes ==
  ASSUME LoginsOK
  PROVE  /\ begun \in Nat /\ Len(exchanging) \in Nat /\ DOMAIN exchanging = 1..Len(exchanging)
         /\ \A i \in DOMAIN exchanging : exchanging[i] \in 1..begun
         /\ Len(opened) \in Nat /\ DOMAIN opened = 1..Len(opened)
         /\ \A i \in DOMAIN opened : opened[i] \in [login : 1..begun, user : Names]
<1>1. exchanging \in Seq(1..begun) /\ opened \in Seq([login : 1..begun, user : Names])
  BY DEF LoginsOK
<1>2. begun \in Nat
  BY LoginParameters DEF LoginsOK
<1>3. /\ Len(exchanging) \in Nat /\ DOMAIN exchanging = 1..Len(exchanging)
      /\ \A i \in 1..Len(exchanging) : exchanging[i] \in 1..begun
  BY <1>1, LenProperties, ElementOfSeq
<1>4. /\ Len(opened) \in Nat /\ DOMAIN opened = 1..Len(opened)
      /\ \A i \in 1..Len(opened) : opened[i] \in [login : 1..begun, user : Names]
  BY <1>1, LenProperties, ElementOfSeq
<1> QED BY <1>2, <1>3, <1>4

\* A callback that ends leaves the others.
LEMMA LeaveFacts ==
  ASSUME LoginsOK, NEW c \in DOMAIN exchanging, Leave(c)
  PROVE  /\ exchanging' \in Seq(1..begun)
         /\ \A i, j \in DOMAIN exchanging' : exchanging'[i] = exchanging'[j] => i = j
         /\ \A i \in DOMAIN exchanging' :
              /\ exchanging'[i] # exchanging[c]
              /\ \E j \in DOMAIN exchanging : exchanging'[i] = exchanging[j]
<1> DEFINE n == Len(exchanging)
           at(i) == IF i < c THEN i ELSE i + 1
<1>1. /\ n \in Nat /\ DOMAIN exchanging = 1..n /\ c \in 1..n
      /\ \A i \in 1..n : exchanging[i] \in 1..begun
      /\ \A i, j \in 1..n : exchanging[i] = exchanging[j] => i = j
  BY LoginTypes DEF LoginsOK
<1>2. exchanging' = [i \in 1..(n - 1) |-> exchanging[at(i)]]
  BY DEF Leave
<1> HIDE DEF n
<1>3. \A i \in 1..(n - 1) : at(i) \in 1..n /\ at(i) # c
  BY <1>1
<1>4. \A i, j \in 1..(n - 1) : at(i) = at(j) => i = j
  BY <1>1
<1> HIDE DEF at
<1>5. exchanging' \in [1..(n - 1) -> 1..begun] /\ n - 1 \in Nat
  BY <1>1, <1>2, <1>3
<1>6. exchanging' \in Seq(1..begun)
  <2> DEFINE S == 1..begun
  <2>1. exchanging' \in [1..(n - 1) -> S]
    BY <1>5
  <2> HIDE DEF S
  <2>2. exchanging' \in Seq(S)
    BY <1>5, <2>1, SeqDef
  <2> QED BY <2>2 DEF S
<1>7. ASSUME NEW i \in 1..(n - 1), NEW j \in 1..(n - 1), exchanging'[i] = exchanging'[j]
      PROVE  i = j
  <2>1. exchanging[at(i)] = exchanging[at(j)]
    BY <1>2, <1>7
  <2> QED BY <1>1, <1>3, <1>4, <2>1
<1>8. ASSUME NEW i \in 1..(n - 1)
      PROVE  /\ exchanging'[i] # exchanging[c]
             /\ \E j \in DOMAIN exchanging : exchanging'[i] = exchanging[j]
  <2>1. exchanging'[i] = exchanging[at(i)] /\ at(i) \in 1..n /\ at(i) # c
    BY <1>2, <1>3
  <2> QED BY <1>1, <2>1
<1>9. DOMAIN exchanging' = 1..(n - 1)
  BY <1>2
<1> QED BY <1>6, <1>7, <1>8, <1>9

LEMMA BeginLogins ==
  ASSUME LoginsOK, Begin
  PROVE  LoginsOK'
<1>1. /\ begun' = begun + 1 /\ begun < MaxBegun /\ UNCHANGED <<exchanging, opened>>
      /\ pending' = With(pending, begun', now + PendingTTL)
  BY DEF Begin
<1>2. /\ begun \in Nat /\ begun' \in 0..MaxBegun
      /\ \A i \in DOMAIN exchanging : exchanging[i] \in 1..begun
      /\ \A i \in DOMAIN opened : opened[i] \in [login : 1..begun, user : Names]
  BY <1>1, LoginTypes, LoginParameters
<1>3. DOMAIN pending' = DOMAIN pending \cup {begun + 1}
  BY <1>1 DEF With
<1>4. 1..begun' = 1..begun \cup {begun + 1} /\ begun + 1 \notin 1..begun
  BY <1>1, <1>2
<1>5. exchanging' \in Seq(1..begun') /\ opened' \in Seq([login : 1..begun', user : Names])
  <2>1. [login : 1..begun, user : Names] \subseteq [login : 1..begun', user : Names]
    BY <1>4
  <2>2. exchanging \in Seq(1..begun) /\ opened \in Seq([login : 1..begun, user : Names])
    BY DEF LoginsOK
  <2>3. 1..begun \subseteq 1..begun'
    BY <1>4
  <2>4. exchanging \in Seq(1..begun')
    BY <2>2, <2>3, SeqMonotonic
  <2>5. opened \in Seq([login : 1..begun', user : Names])
    BY <2>1, <2>2, SeqMonotonic
  <2> QED BY <1>1, <2>4, <2>5
<1>6. \A i \in DOMAIN opened : opened[i].login \in 1..begun
  BY <1>2
<1> QED BY <1>1, <1>2, <1>3, <1>4, <1>5, <1>6 DEF LoginsOK

LEMMA TakeLogins ==
  ASSUME LoginsOK, NEW l \in 1..begun, TakeState(l)
  PROVE  LoginsOK'
<1>1. /\ l \in DOMAIN pending /\ pending' = Without(pending, {l}) /\ UNCHANGED <<begun, opened>>
      /\ exchanging' \in {exchanging, Append(exchanging, l)}
  BY DEF TakeState
<1>2. DOMAIN pending' = DOMAIN pending \ {l}
  BY <1>1 DEF Without, Restrict
<1>3. CASE exchanging' = exchanging
  BY <1>1, <1>2, <1>3 DEF LoginsOK
<1>4. CASE exchanging' = Append(exchanging, l)
  <2> DEFINE n == Len(exchanging)
  <2>1. /\ n \in Nat /\ DOMAIN exchanging = 1..n /\ exchanging \in Seq(1..begun)
        /\ \A i \in 1..n : exchanging[i] \in 1..begun /\ exchanging[i] # l
        /\ \A i \in DOMAIN opened : opened[i].login # l
    BY <1>1, LoginTypes DEF LoginsOK
  <2>2. /\ exchanging' \in Seq(1..begun) /\ Len(exchanging') = n + 1
        /\ \A i \in 1..n : exchanging'[i] = exchanging[i]
        /\ exchanging'[n + 1] = l
    BY <1>4, <2>1, AppendProperties
  <2>3. DOMAIN exchanging' = 1..(n + 1)
    BY <2>2, LenProperties
  <2> HIDE DEF n
  <2>4. \A i \in 1..(n + 1) : i \in 1..n \/ i = n + 1
    BY <2>1
  <2>5. \A i, j \in DOMAIN exchanging' : exchanging'[i] = exchanging'[j] => i = j
    <3>1. \A i, j \in 1..n : exchanging[i] = exchanging[j] => i = j
      BY <2>1 DEF LoginsOK
    <3> QED BY <2>1, <2>2, <2>3, <2>4, <3>1
  <2>6. \A i \in DOMAIN exchanging' : exchanging'[i] \notin DOMAIN pending'
    BY <1>2, <2>1, <2>2, <2>3, <2>4 DEF LoginsOK
  <2>7. ASSUME NEW i \in DOMAIN opened'
        PROVE  /\ opened'[i].login \notin DOMAIN pending'
               /\ \A j \in DOMAIN exchanging' : exchanging'[j] # opened'[i].login
               /\ opened'[i].user = Identity[opened'[i].login]
    <3>1. /\ opened' = opened /\ opened[i].login \notin DOMAIN pending
          /\ opened[i].user = Identity[opened[i].login]
          /\ \A j \in 1..n : exchanging[j] # opened[i].login
          /\ opened[i].login # l
      BY <1>1, <2>1 DEF LoginsOK
    <3>2. \A j \in 1..(n + 1) : exchanging'[j] # opened[i].login
      BY <2>2, <2>4, <3>1
    <3> QED BY <1>2, <2>3, <3>1, <3>2
  <2> QED BY <1>1, <1>2, <2>2, <2>5, <2>6, <2>7 DEF LoginsOK
<1> QED BY <1>1, <1>3, <1>4

LEMMA FailsLogins ==
  ASSUME LoginsOK, NEW c \in DOMAIN exchanging, ExchangeFails(c)
  PROVE  LoginsOK'
<1>1. Leave(c) /\ UNCHANGED <<begun, pending, opened>>
  BY DEF ExchangeFails
<1>2. /\ exchanging' \in Seq(1..begun)
      /\ \A i, j \in DOMAIN exchanging' : exchanging'[i] = exchanging'[j] => i = j
      /\ \A i \in DOMAIN exchanging' :
           \E j \in DOMAIN exchanging : exchanging'[i] = exchanging[j]
  BY <1>1, LeaveFacts
<1> QED BY <1>1, <1>2 DEF LoginsOK

LEMMA SucceedsLogins ==
  ASSUME LoginsOK, NEW c \in DOMAIN exchanging, NEW t, ExchangeSucceeds(c, t)
  PROVE  LoginsOK'
<1> DEFINE l == exchanging[c]
           e == [login |-> l, user |-> Identity[t]]
           n == Len(opened)
           Sessioned == [login : 1..begun, user : Names]
<1>1. t = l /\ Leave(c) /\ UNCHANGED <<begun, pending>> /\ opened' = Append(opened, e)
  BY DEF ExchangeSucceeds, Verified
<1>2. /\ exchanging' \in Seq(1..begun)
      /\ \A i, j \in DOMAIN exchanging' : exchanging'[i] = exchanging'[j] => i = j
      /\ \A i \in DOMAIN exchanging' :
           /\ exchanging'[i] # l
           /\ \E j \in DOMAIN exchanging : exchanging'[i] = exchanging[j]
  BY <1>1, LeaveFacts
<1>3. /\ l \in 1..begun /\ Identity[l] \in Names /\ l \notin DOMAIN pending
      /\ \A i \in DOMAIN opened : opened[i].login # l
  BY LoginTypes, LoginParameters DEF LoginsOK
<1>4. e \in Sessioned /\ e.login = l /\ e.user = Identity[l]
  BY <1>1, <1>3
<1>5. n \in Nat /\ DOMAIN opened = 1..n /\ opened \in Seq(Sessioned)
  BY LoginTypes DEF LoginsOK
<1> HIDE DEF l, e, n, Sessioned
<1>6. /\ opened' \in Seq(Sessioned) /\ Len(opened') = n + 1
      /\ \A i \in 1..n : opened'[i] = opened[i]
      /\ opened'[n + 1] = e
  BY <1>1, <1>4, <1>5, AppendProperties DEF n
<1>7. DOMAIN opened' = 1..(n + 1) /\ \A i \in 1..(n + 1) : i \in 1..n \/ i = n + 1
  BY <1>5, <1>6, LenProperties
<1>8. \A i, j \in DOMAIN opened' : opened'[i].login = opened'[j].login => i = j
  BY <1>3, <1>4, <1>5, <1>6, <1>7 DEF LoginsOK
<1>9. \A i \in DOMAIN exchanging' : exchanging'[i] \notin DOMAIN pending'
  BY <1>1, <1>2 DEF LoginsOK
<1>10. ASSUME NEW i \in DOMAIN opened'
       PROVE  /\ opened'[i].login \notin DOMAIN pending'
              /\ \A j \in DOMAIN exchanging' : exchanging'[j] # opened'[i].login
              /\ opened'[i].user = Identity[opened'[i].login]
  <2>1. CASE i = n + 1
    BY <1>1, <1>2, <1>3, <1>4, <1>6, <2>1
  <2>2. CASE i \in 1..n
    <3>1. opened'[i] = opened[i] /\ i \in DOMAIN opened
      BY <1>5, <1>6, <2>2
    <3> QED BY <1>1, <1>2, <3>1 DEF LoginsOK
  <2> QED BY <1>7, <2>1, <2>2
<1>11. opened' \in Seq([login : 1..begun', user : Names]) /\ exchanging' \in Seq(1..begun')
  BY <1>1, <1>2, <1>6 DEF Sessioned
<1> QED BY <1>1, <1>2, <1>8, <1>9, <1>10, <1>11 DEF LoginsOK

LEMMA LoginsInit == SSOInit => LoginsOK
<1> SUFFICES ASSUME SSOInit PROVE LoginsOK
  OBVIOUS
<1>1. \A S : <<>> \in Seq(S)
  BY EmptySeq
<1> QED BY <1>1, EmptyMap, LoginParameters DEF SSOInit, LoginsOK

LEMMA LoginsStep == LoginsOK /\ [SSONext]_allVars => LoginsOK'
<1> SUFFICES ASSUME LoginsOK, [SSONext]_allVars PROVE LoginsOK'
  OBVIOUS
<1>1. ASSUME UNCHANGED local PROVE LoginsOK'
  BY <1>1 DEF LoginsOK, local
<1>2. CASE RestartAll
  <2>1. pending' = <<>> /\ exchanging' = <<>> /\ UNCHANGED <<begun, opened>>
    BY <1>2 DEF RestartAll
  <2>2. <<>> \in Seq(1..begun)
    BY EmptySeq
  <2> QED BY <2>1, <2>2, EmptyMap DEF LoginsOK
<1>3. CASE UNCHANGED allVars
  BY <1>1, <1>3 DEF allVars
<1> QED BY <1>1, <1>2, <1>3, BeginLogins, TakeLogins, FailsLogins, SucceedsLogins DEF SSONext

-----------------------------------------------------------------------------
\* Inv holds in every state.
THEOREM Invariance == SSOSpec => []Inv
<1>1. SSOInit => Inv
  BY AccountsInit, SessionsInit, AttemptsInit, LoginsInit DEF Inv
<1>2. Inv /\ [SSONext]_allVars => Inv'
  <2>1. Inv => now \in Nat
    BY AccountsAssumption DEF Inv, SessionsOK
  <2> QED BY <2>1, AccountsStep, SessionsStep, AttemptsStep, LoginsStep DEF Inv
<1> QED BY <1>1, <1>2, PTL DEF SSOSpec

\* There is always an enabled administrator, in memory and in the file: SetRole
\* and SetDisabled refuse to take the last one away, and a restart loads no file
\* without one (internal/auth/manager.go).
THEOREM AnAdminRemainsCorrect == SSOSpec => []AnAdminRemains
<1>1. Inv => AnAdminRemains
  BY DEF Inv, AccountsOK, AccountsIn, AnAdminRemains
<1> QED BY <1>1, Invariance, PTL

\* Sessions stand on the account they were opened for as it is, and none is used
\* later than its two limits (Login, AuthenticateRequest, SetRole, SetDisabled,
\* ChangePassword and the loop of a WebSocket).
THEOREM SessionsTruthfulCorrect == SSOSpec => []SessionsTruthful
<1>1. ASSUME Inv PROVE TypeOK
  <2>1. /\ DOMAIN users \subseteq Names /\ \A n \in DOMAIN users : users[n] \in Users
        /\ \A n \in DOMAIN disk.users : disk.users[n] \in Users
    BY <1>1 DEF Inv, AccountsOK, AccountsIn
  <2>2. \A t \in DOMAIN tokens : tokens[t] \in Tokens
    <3>1. tokens \in Seq(Tokens)
      BY <1>1 DEF Inv, AccountsOK, AccountsIn
    <3> QED BY <3>1, LenProperties, ElementOfSeq
  <2>3. \A n \in Names : failures[n].count \in 0..(MaxFailures - 1)
    BY <1>1 DEF Inv, AttemptsOK, Failures
  <2> QED BY <1>1, <2>1, <2>2, <2>3 DEF TypeOK, Inv, SessionsOK, SessionOK
<1>2. ASSUME Inv PROVE SessionsBounded
  <2> SUFFICES ASSUME NEW i \in DOMAIN sessions, Valid(i)
               PROVE  now <= sessions[i].asked + Idle /\ now <= sessions[i].born + Absolute
    BY DEF SessionsBounded
  <2>1. /\ SessionOK(sessions[i]) /\ now \in Nat
        /\ ~(now > sessions[i].expires) /\ ~(now > sessions[i].absolute)
    BY <1>2, AccountsAssumption DEF Inv, SessionsOK, Valid, Lapsed
  <2>2. sessions[i].expires \in Nat /\ sessions[i].absolute \in Nat
    BY <2>1 DEF SessionOK, Sessions
  <2>3. now <= sessions[i].expires /\ now <= sessions[i].absolute
    BY <2>1, <2>2
  <2> QED BY <2>1, <2>3 DEF SessionOK
<1>3. Inv => SessionsTruthful
  BY <1>1, <1>2 DEF SessionsTruthful, Inv, SessionsOK
<1> QED BY <1>3, Invariance, PTL

\* A set without two elements has at most one.
LEMMA AtMostOne ==
  ASSUME NEW S, \A x, y \in S : x = y
  PROVE  Cardinality(S) = IF S = {} THEN 0 ELSE 1
<1>1. CASE S = {}
  BY <1>1, FS_EmptySet
<1>2. CASE S # {}
  <2>1. PICK x : x \in S
    BY <1>2
  <2>2. S = {x}
    BY <2>1
  <2> QED BY <1>2, <2>2, FS_Singleton
<1> QED BY <1>1, <1>2

\* Wrong passwords are counted, and what can be used once is used once: recovery
\* codes, revoked tokens, and the logins of a provider, which open at most one
\* session each, of their own identity (Login, verifyMFALocked, RevokeToken
\* and the callback of internal/oidc).
THEOREM CredentialsOnceCorrect == SSOSpec => []CredentialsOnce
<1>1. ASSUME Inv PROVE AttemptsBounded
  <2> SUFFICES ASSUME NEW n \in Names PROVE Cardinality(misses[n]) <= MaxFailures
    BY DEF AttemptsBounded
  <2>1. /\ failures[n] \in Failures /\ Counted(failures[n], misses[n], now) /\ now \in Nat
    BY <1>1, AccountsAssumption DEF Inv, AttemptsOK, SessionsOK
  <2>2. Cardinality(misses[n]) \in Nat
    BY <2>1, FS_CardinalityType DEF Counted, Numbered
  <2>3. failures[n].locked \in Nat /\ failures[n].count \in 0..(MaxFailures - 1)
    BY <2>1 DEF Failures
  <2> QED BY <2>1, <2>2, <2>3, AttemptParameters DEF Counted
<1>2. ASSUME Inv PROVE CredentialsRetire
  <2>1. spent.faults = 0 => Unredeemed(disk.users) /\ Unredeemed(users)
    BY <1>2 DEF Inv, AccountsOK
  <2>2. \A t \in retired : ~TokenAccepted(t)
    BY <1>2 DEF Inv, AccountsOK, AccountsIn, TokenAccepted
  <2> QED BY <1>2, <2>1, <2>2 DEF CredentialsRetire, Inv, AccountsOK
<1>3. ASSUME Inv PROVE OneSessionPerLogin
  <2>1. LoginsOK
    BY <1>3 DEF Inv
  <2>2. ASSUME NEW l \in 1..begun
        PROVE  Cardinality({i \in DOMAIN opened : opened[i].login = l})
                 + Cardinality({c \in DOMAIN exchanging : exchanging[c] = l})
                 + Cardinality({l} \cap DOMAIN pending) <= 1
    <3> DEFINE A == {i \in DOMAIN opened : opened[i].login = l}
               B == {c \in DOMAIN exchanging : exchanging[c] = l}
               C == {l} \cap DOMAIN pending
    <3>1. /\ \A x, y \in A : x = y
          /\ \A x, y \in B : x = y
          /\ \A x, y \in C : x = y
      BY <2>1 DEF LoginsOK
    <3>2. (A = {} \/ B = {}) /\ (A = {} \/ C = {}) /\ (B = {} \/ C = {})
      BY <2>1 DEF LoginsOK
    <3> HIDE DEF A, B, C
    <3>3. /\ Cardinality(A) = IF A = {} THEN 0 ELSE 1
          /\ Cardinality(B) = IF B = {} THEN 0 ELSE 1
          /\ Cardinality(C) = IF C = {} THEN 0 ELSE 1
      BY <3>1, AtMostOne
    <3>4. Cardinality(A) + Cardinality(B) + Cardinality(C) <= 1
      BY <3>2, <3>3
    <3> QED BY <3>4 DEF A, B, C
  <2> QED BY <2>1, <2>2 DEF OneSessionPerLogin, LoginsOK
<1>4. Inv => CredentialsOnce
  BY <1>1, <1>2, <1>3 DEF CredentialsOnce
<1> QED BY <1>4, Invariance, PTL
=============================================================================
