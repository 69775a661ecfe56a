------------------------------ MODULE Accounts ------------------------------
(***************************************************************************)
(* Accounts, sessions and API tokens (internal/auth/manager.go) with the   *)
(* two users of a session in internal/server: the guard of the handlers    *)
(* and the loop of an open WebSocket, which revalidates its principal      *)
(* every second.                                                           *)
(*                                                                         *)
(* Every method holds m.mu from its start to its end, so a method is one   *)
(* action.  Users and tokens are saved whole after a change; a save may    *)
(* fail, and then memory keeps the change.  Sessions and failure counters  *)
(* live in memory only.  Time is a clock of a few ticks.  A password is    *)
(* the number of times it was changed, a recovery code the number of the   *)
(* enrolment that issued it (the code issues ten at a time), and a TOTP    *)
(* code is right or wrong.  The flag must_change_password, which only the  *)
(* handlers read, is left out.                                             *)
(***************************************************************************)
EXTENDS Naturals, Sequences, FiniteSets, Functions

CONSTANTS Names,        \* user names; the first user is Root
          Root,         \* cfg.DefaultUsername
          Idle,         \* cfg.SessionIdle
          Absolute,     \* cfg.SessionAbsolute
          MaxFailures,  \* cfg.MaxFailures
          Lockout,      \* cfg.Lockout
          Window,       \* the 15 minutes after which failures are forgotten
          Sockets,      \* WebSocket connections
          MaxTime, MaxOps, MaxLogins, MaxTokens, MaxFaults,
          MaxRestarts   \* bounds

ASSUME AccountsAssumption ==
         /\ Root \in Names
         /\ {Idle, Absolute, MaxFailures, Lockout, Window} \subseteq Nat \ {0}
         /\ Lockout <= Window
         /\ {MaxTime, MaxOps, MaxLogins, MaxTokens, MaxFaults, MaxRestarts}
              \subseteq Nat

VARIABLES now,
          users,       \* m.users, by name
          tokens,      \* m.tokens, by number
          sessions,    \* m.sessions, by number
          failures,    \* m.failures, by name (one source address)
          disk,        \* the users and tokens in the file
          sockets,     \* the principal of each open WebSocket
          spent,       \* what of each bound is used up
          misses,      \* the failed logins of a name since its last success,
                       \* within the last Lockout: the time and the number
                       \* within that time (history)
          redeemed,    \* users with recovery codes they used (history)
          retired      \* tokens whose revocation was acknowledged (history)

stored == <<users, tokens, disk>>
ghosts == <<misses, redeemed, retired>>
vars == <<now, stored, sessions, failures, sockets, spent, ghosts>>

Roles == {"admin", "viewer"}
Codes == 1..(MaxOps + 1)
Users == [role : Roles, disabled : BOOLEAN, password : 0..MaxOps,
          totp : {"off", "setup", "on"}, codes : SUBSET Codes]
\* password, born and asked are history: the password the session was opened
\* with, and the times it was opened and last used by a request.
Sessions == [user : Names, role : Roles, external : BOOLEAN,
             expires : Nat, absolute : Nat, password : Nat,
             born : Nat, asked : Nat]
Tokens == [user : Names, expires : Nat, revoked : BOOLEAN]

NewUser(role) == [role |-> role, disabled |-> FALSE, password |-> 0,
                  totp |-> "off", codes |-> {}]
NoFailures == [count |-> 0, last |-> 0, locked |-> 0]

\* One more operation, which may be one whose save fails.
Bounds == {"ops", "logins", "faults", "restarts"}
Spend(kinds) ==
  /\ spent.ops < MaxOps
  /\ spent' = [b \in Bounds |-> IF b \in kinds THEN spent[b] + 1 ELSE spent[b]]
  /\ spent'.logins <= MaxLogins
  /\ spent'.faults <= MaxFaults
  /\ spent'.restarts <= MaxRestarts
FaultyIf(faulty) == IF faulty THEN {"faults"} ELSE {}

\* New without a file creates and saves the first administrator; with one it
\* loads the accounts and tokens, here a second user with MFA and a token.
Loaded(role) == [n \in Names |-> IF n = Root THEN NewUser("admin")
                   ELSE [NewUser(role) EXCEPT !.totp = "on", !.codes = {1}]]
Init ==
  /\ now = 0
  /\ \/ users = [n \in {Root} |-> NewUser("admin")] /\ tokens = <<>>
     \/ /\ users \in {Loaded(role) : role \in Roles}
        /\ tokens \in [1..1 ->
             [user : Names \ {Root}, expires : {Idle}, revoked : {FALSE}]]
  /\ sessions = <<>>
  /\ failures = [n \in Names |-> NoFailures]
  /\ disk = [users |-> users, tokens |-> tokens]
  /\ sockets = <<>>
  /\ spent = [b \in Bounds |-> 0]
  /\ misses = [n \in Names |-> {}]
  /\ redeemed = {} /\ retired = {}

Without(f, S) == Restrict(f, DOMAIN f \ S)
With(f, x, v) == [y \in DOMAIN f \cup {x} |-> IF y = x THEN v ELSE f[y]]

Available(n) == n \in DOMAIN users /\ ~users[n].disabled
SessionsOf(n) == {i \in DOMAIN sessions : sessions[i].user = n}
Lapsed(s) == now > s.expires \/ now > s.absolute

(***************************************************************************)
(* saveLocked writes a temporary file and renames it.  faulty says whether *)
(* this one fails.                                                         *)
(***************************************************************************)
Saved(faulty) ==
  IF faulty THEN disk' = disk ELSE disk' = [users |-> users', tokens |-> tokens']

Change(faulty) ==
  /\ Spend({"ops"} \cup FaultyIf(faulty))
  /\ Saved(faulty)
  /\ UNCHANGED <<now, failures, sockets>>

-----------------------------------------------------------------------------
(***************************************************************************)
(* Login.  A failure is counted under the name and the source, for unknown *)
(* names too; a login that finds the pair locked changes nothing.          *)
(***************************************************************************)

Failed(f) ==
  LET recent == IF now - f.last > Window THEN 0 ELSE f.count
  IN IF recent + 1 >= MaxFailures
     THEN [count |-> 0, last |-> now, locked |-> now + Lockout]
     ELSE [f EXCEPT !.count = recent + 1, !.last = now]

Misses(n, t) == {m \in misses[n] : m[1] = t}

LoginFails(n) ==
  /\ now >= failures[n].locked
  /\ Spend({"ops"})
  /\ failures' = [failures EXCEPT ![n] = Failed(@)]
  /\ misses' = [misses EXCEPT ![n] = @ \cup {<<now, Cardinality(Misses(n, now)) + 1>>}]
  /\ UNCHANGED <<now, stored, sessions, sockets, redeemed, retired>>

Open(i, n, role, external) ==
  /\ sessions' = With(sessions, i,
       [user |-> n, role |-> role, external |-> external,
        expires |-> now + Idle, absolute |-> now + Absolute,
        password |-> IF external THEN 0 ELSE users[n].password,
        born |-> now, asked |-> now])

\* The recovery codes left when code, or none (0), was used.
Redeem(n, code) == users' = [users EXCEPT ![n].codes = @ \ {code}]

\* code is the recovery code used, 0 with a TOTP code or when MFA is off.
\* The code is removed with a save of its own, Login saves again, and both
\* errors are ignored.
LoginSucceeds(n, code, faulty) ==
  /\ now >= failures[n].locked
  /\ Available(n)
  /\ code # 0 => users[n].totp = "on" /\ code \in users[n].codes
  /\ Spend({"ops", "logins"} \cup FaultyIf(faulty))
  /\ Redeem(n, code)
  /\ redeemed' = redeemed \cup ({n} \X ({code} \ {0}))
  /\ failures' = [failures EXCEPT ![n] = NoFailures]
  /\ misses' = [misses EXCEPT ![n] = {}]
  /\ Open(spent.logins + 1, n, users[n].role, FALSE)
  /\ UNCHANGED <<now, tokens, sockets, retired>>
  /\ Saved(faulty)

-----------------------------------------------------------------------------
(***************************************************************************)
(* The guard of the handlers: a request with a session cookie renews the   *)
(* session or finds that it has lapsed.                                    *)
(***************************************************************************)
Valid(i) ==
  /\ i \in DOMAIN sessions /\ ~Lapsed(sessions[i])
  /\ sessions[i].external \/ Available(sessions[i].user)

RequestAccepted(i) ==
  /\ Valid(i)
  /\ sessions' = [sessions EXCEPT ![i].expires = now + Idle, ![i].asked = now]

Request(i) ==
  /\ RequestAccepted(i)
  /\ UNCHANGED <<now, stored, failures, sockets, spent, misses, redeemed, retired>>

RequestRefused(i) ==
  /\ i \in DOMAIN sessions /\ ~Valid(i)
  /\ sessions' = Without(sessions, {i})
  /\ UNCHANGED <<now, stored, failures, sockets, spent, ghosts>>

\* A request with a token is accepted while the token is neither revoked nor
\* expired.
TokenAccepted(t) ==
  /\ t \in DOMAIN tokens /\ ~tokens[t].revoked /\ now <= tokens[t].expires

\* The handler of the live stream runs behind the same guard.
Connect(k, i) ==
  /\ k \notin DOMAIN sockets
  /\ RequestAccepted(i)
  /\ sockets' = With(sockets, k, <<"session", i>>)
  /\ UNCHANGED <<now, stored, failures, spent, misses, redeemed, retired>>

ConnectWithToken(k, t) ==
  /\ k \notin DOMAIN sockets
  /\ TokenAccepted(t)
  /\ sockets' = With(sockets, k, <<"token", t>>)
  /\ UNCHANGED <<now, stored, sessions, failures, spent, ghosts>>

(***************************************************************************)
(* A tick of the loop of a WebSocket: RevalidatePrincipal, then a frame or *)
(* the end of the connection.  A session is not renewed.                   *)
(***************************************************************************)
Revalidated(p) ==
  IF p[1] = "session" THEN Valid(p[2])
  ELSE TokenAccepted(p[2]) /\ Available(tokens[p[2]].user)

\* Mutant: a frame renews the session like a request.
FrameRenews(k) ==
  /\ k \in DOMAIN sockets /\ Revalidated(sockets[k])
  /\ sessions' = [i \in DOMAIN sessions |->
       IF sockets[k] = <<"session", i>> THEN [sessions[i] EXCEPT !.expires = now + Idle]
                                        ELSE sessions[i]]
  /\ UNCHANGED <<now, stored, failures, sockets, spent, ghosts>>

Frame(k) ==
  /\ k \in DOMAIN sockets /\ Revalidated(sockets[k])
  /\ UNCHANGED vars

Disconnect(k) ==
  /\ k \in DOMAIN sockets /\ ~Revalidated(sockets[k])
  /\ sockets' = Without(sockets, {k})
  /\ sessions' = IF sockets[k][1] = "session"
                 THEN Without(sessions, {sockets[k][2]}) ELSE sessions
  /\ UNCHANGED <<now, stored, failures, spent, ghosts>>

-----------------------------------------------------------------------------
\* Logout, RevokeSession, RevokeOtherSessions, and the listing, which drops
\* every session that has lapsed.
Logout(i) ==
  /\ i \in DOMAIN sessions
  /\ sessions' = Without(sessions, {i})
  /\ UNCHANGED <<now, stored, failures, sockets, spent, ghosts>>

RevokeOtherSessions(i) ==
  /\ i \in DOMAIN sessions
  /\ sessions' = Without(sessions, SessionsOf(sessions[i].user) \ {i})
  /\ UNCHANGED <<now, stored, failures, sockets, spent, ghosts>>

ListSessions ==
  /\ sessions' = Without(sessions, {i \in DOMAIN sessions : Lapsed(sessions[i])})
  /\ UNCHANGED <<now, stored, failures, sockets, spent, ghosts>>

-----------------------------------------------------------------------------
(* Changes of accounts. *)
CreateUser(n, role, faulty) ==
  /\ n \notin DOMAIN users
  /\ users' = With(users, n, NewUser(role))
  /\ UNCHANGED <<tokens, sessions, ghosts>>
  /\ Change(faulty)

\* Mutant: disabled administrators count.
AllAdmins == {n \in DOMAIN users : users[n].role = "admin"}

EnabledAdmins == {n \in DOMAIN users : users[n].role = "admin" /\ ~users[n].disabled}
LastAdmin(n) == n \in EnabledAdmins /\ Cardinality(EnabledAdmins) <= 1

SetRole(n, role, faulty) ==
  /\ n \in DOMAIN users /\ ~(role # "admin" /\ LastAdmin(n))
  /\ users' = [users EXCEPT ![n].role = role]
  /\ sessions' = [i \in DOMAIN sessions |->
                    IF i \in SessionsOf(n) THEN [sessions[i] EXCEPT !.role = role]
                                           ELSE sessions[i]]
  /\ UNCHANGED <<tokens, ghosts>>
  /\ Change(faulty)

SetDisabled(n, disabled, faulty) ==
  /\ n \in DOMAIN users /\ ~(disabled /\ LastAdmin(n))
  /\ users' = [users EXCEPT ![n].disabled = disabled]
  /\ sessions' = IF disabled THEN Without(sessions, SessionsOf(n)) ELSE sessions
  /\ UNCHANGED <<tokens, ghosts>>
  /\ Change(faulty)

\* ChangePassword and AdminResetPassword.
SetPassword(n, faulty) ==
  /\ n \in DOMAIN users
  /\ users' = [users EXCEPT ![n].password = @ + 1]
  /\ sessions' = Without(sessions, SessionsOf(n))
  /\ UNCHANGED <<tokens, ghosts>>
  /\ Change(faulty)

SetupTOTP(n, faulty) ==
  /\ n \in DOMAIN users
  /\ users' = [users EXCEPT ![n].totp = "setup", ![n].codes = {}]
  /\ UNCHANGED <<tokens, sessions, ghosts>>
  /\ Change(faulty)

\* A user whose TOTP is on may enable it again, which replaces the codes.
EnableTOTP(n, faulty) ==
  /\ n \in DOMAIN users /\ users[n].totp # "off"
  /\ users' = [users EXCEPT ![n].totp = "on", ![n].codes = {spent.ops + 2}]
  /\ UNCHANGED <<tokens, sessions, ghosts>>
  /\ Change(faulty)

\* The second factor may be a recovery code, which ends with all others.
DisableTOTP(n, code, faulty) ==
  /\ n \in DOMAIN users
  /\ code # 0 => users[n].totp = "on" /\ code \in users[n].codes
  /\ users' = [users EXCEPT ![n].totp = "off", ![n].codes = {}]
  /\ redeemed' = redeemed \cup ({n} \X ({code} \ {0}))
  /\ UNCHANGED <<tokens, sessions, misses, retired>>
  /\ Change(faulty)

CreateToken(n, ttl, faulty) ==
  /\ Cardinality(DOMAIN tokens) < MaxTokens
  /\ tokens' = Append(tokens, [user |-> n, expires |-> now + ttl, revoked |-> FALSE])
  /\ users' = users
  /\ UNCHANGED <<sessions, ghosts>>
  /\ Change(faulty)

RevokeToken(t, faulty) ==
  /\ t \in DOMAIN tokens
  /\ tokens' = [tokens EXCEPT ![t].revoked = TRUE]
  /\ users' = users
  /\ retired' = IF faulty THEN retired ELSE retired \cup {t}
  /\ UNCHANGED <<sessions, misses, redeemed>>
  /\ Change(faulty)

-----------------------------------------------------------------------------
Tick ==
  /\ now < MaxTime /\ now' = now + 1
  /\ misses' = [n \in Names |-> {m \in misses[n] : m[1] + Lockout > now'}]
  /\ UNCHANGED <<stored, sessions, failures, sockets, spent, redeemed, retired>>

\* A new process loads the file; an empty one would create Root again.
Restart ==
  /\ Spend({"ops", "restarts"})
  /\ users' = disk.users /\ tokens' = disk.tokens
  /\ sessions' = <<>> /\ sockets' = <<>>
  /\ failures' = [n \in Names |-> NoFailures]
  /\ misses' = [n \in Names |-> {}]
  /\ UNCHANGED <<now, disk, redeemed, retired>>

(* The handlers of the console, by the operations they offer. *)
SessionsHandler(i) == Logout(i) \/ RevokeOtherSessions(i) \/ ListSessions
AdminUsers(n, f) == \E r \in Roles : CreateUser(n, r, f)
AdminUserAction(n, f) ==
  \/ \E r \in Roles : SetRole(n, r, f)
  \/ \E d \in BOOLEAN : SetDisabled(n, d, f)
  \/ SetPassword(n, f)
AdminTokens(n, f) == \E ttl \in {Idle, MaxTime} : CreateToken(n, ttl, f)

Visits ==
  \/ \E n \in Names : LoginFails(n)
  \/ \E n \in Names, c \in Codes \cup {0}, f \in BOOLEAN : LoginSucceeds(n, c, f)
  \/ \E i \in DOMAIN sessions : \/ Request(i) \/ RequestRefused(i) \/ SessionsHandler(i)
                                \/ \E k \in Sockets : Connect(k, i)
  \/ \E k \in Sockets, t \in DOMAIN tokens : ConnectWithToken(k, t)
  \/ \E k \in Sockets : Frame(k) \/ Disconnect(k)

Changes == \E f \in BOOLEAN :
  \/ \E n \in Names :
       \/ AdminUsers(n, f) \/ AdminUserAction(n, f) \/ AdminTokens(n, f)
       \/ SetupTOTP(n, f) \/ EnableTOTP(n, f)
       \/ \E c \in Codes \cup {0} : DisableTOTP(n, c, f)
  \/ \E t \in DOMAIN tokens : RevokeToken(t, f)

Next == Visits \/ Changes \/ Tick \/ Restart

Spec == Init /\ [][Next]_vars
-----------------------------------------------------------------------------
TypeOK ==
  /\ now \in 0..MaxTime
  /\ DOMAIN users \subseteq Names /\ \A n \in DOMAIN users : users[n] \in Users
  /\ \A t \in DOMAIN tokens : tokens[t] \in Tokens
  /\ \A i \in DOMAIN sessions : sessions[i] \in Sessions
  /\ \A n \in Names : failures[n].count \in 0..(MaxFailures - 1)
  /\ \A n \in DOMAIN disk.users : disk.users[n] \in Users
  /\ \A k \in DOMAIN sockets : sockets[k][1] \in {"session", "token"}

(***************************************************************************)
(* SetRole and SetDisabled refuse to take the last enabled administrator   *)
(* away: there is always one, in memory and in the file a restart loads.   *)
(***************************************************************************)
HasAdmin(us) == \E n \in DOMAIN us : us[n].role = "admin" /\ ~us[n].disabled
AnAdminRemains == HasAdmin(users) /\ HasAdmin(disk.users)

(***************************************************************************)
(* A session never outlives what it was opened on: its user exists, is not *)
(* disabled, has kept the password and holds the role the session carries. *)
(***************************************************************************)
SessionsFollowAccounts ==
  \A i \in DOMAIN sessions : ~sessions[i].external =>
    /\ Available(sessions[i].user)
    /\ users[sessions[i].user].password = sessions[i].password
    /\ users[sessions[i].user].role = sessions[i].role

(***************************************************************************)
(* Nothing is served under a session later than Idle after its last        *)
(* request or Absolute after its login: the frames of an unattended        *)
(* console do not keep it alive.                                           *)
(***************************************************************************)
SessionsBounded ==
  \A i \in DOMAIN sessions : Valid(i) =>
    /\ now <= sessions[i].asked + Idle
    /\ now <= sessions[i].born + Absolute

SessionsTruthful == TypeOK /\ SessionsFollowAccounts /\ SessionsBounded

(***************************************************************************)
(* In any stretch of time as long as a lockout, at most MaxFailures wrong  *)
(* logins of a name are evaluated without a success between them.          *)
(***************************************************************************)
AttemptsBounded == \A n \in Names : Cardinality(misses[n]) <= MaxFailures

(***************************************************************************)
(* What was used up or revoked stays so: a recovery code is accepted once, *)
(* across restarts too while saves succeed, and a token whose revocation   *)
(* was acknowledged is never accepted again.                               *)
(***************************************************************************)
Unredeemed(us) == \A p \in redeemed : p[1] \in DOMAIN us => p[2] \notin us[p[1]].codes

CredentialsRetire ==
  /\ spent.faults = 0 => Unredeemed(disk.users)
  /\ spent.faults = 0 \/ spent.restarts = 0 => Unredeemed(users)
  /\ \A t \in retired : ~TokenAccepted(t)
=============================================================================
