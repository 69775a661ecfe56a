---------------------------- MODULE SingleSignOn ----------------------------
(***************************************************************************)
(* Logging in with an identity provider (internal/oidc/oidc.go and the two *)
(* handlers of internal/server/security_v05.go), on top of Accounts: the   *)
(* session it ends with is an external one.                                *)
(*                                                                         *)
(* A login that was begun is a number, which stands for its state, nonce   *)
(* and verifier.  The callback takes the entry under the mutex and talks   *)
(* to the provider with the mutex released; a browser may repeat it.  The  *)
(* provider is external: it answers with the token of some login, or fails.*)
(***************************************************************************)
EXTENDS Accounts

CONSTANTS PendingTTL,  \* 10 minutes
          Identity,    \* the user the provider knows behind a login
          MaxBegun     \* bound on the logins begun

ASSUME SingleSignOnAssumption ==
         /\ {PendingTTL, MaxBegun} \subseteq Nat
         /\ Identity \in [1..MaxBegun -> Names]

VARIABLES begun,       \* the logins begun so far
          pending,     \* c.pending: when each of them expires
          exchanging,  \* callbacks that talk to the provider
          opened       \* the sessions that came of each login (history)

local == <<begun, pending, exchanging, opened>>
allVars == <<vars, local>>

SSOInit ==
  /\ Init
  /\ begun = 0 /\ pending = <<>>
  /\ exchanging = <<>> /\ opened = <<>>

Begin ==
  /\ begun < MaxBegun /\ begun' = begun + 1 /\ Spend({"ops"})
  /\ pending' = With(pending, begun', now + PendingTTL)
  /\ UNCHANGED <<now, stored, sessions, failures, sockets, ghosts, exchanging, opened>>

\* Mutant: the state is not removed.
TakeStateKept(l) ==
  /\ l \in DOMAIN pending /\ now <= pending[l]
  /\ exchanging' = Append(exchanging, l) /\ Len(exchanging') <= MaxBegun
  /\ UNCHANGED <<vars, begun, pending, opened>>

\* The first part of Callback: an unknown or expired state is refused.
TakeState(l) ==
  /\ l \in DOMAIN pending
  /\ pending' = Without(pending, {l})
  /\ exchanging' = IF now > pending[l] THEN exchanging ELSE Append(exchanging, l)
  /\ UNCHANGED <<vars, begun, opened>>

Leave(c) == exchanging' = [i \in 1..(Len(exchanging) - 1) |->
                             exchanging[IF i < c THEN i ELSE i + 1]]

\* verifyIDToken: the nonce of the token is that of the login.
Verified(l, token) == token = l

\* The answer for token verifies, and oidcCallback opens a session.
ExchangeSucceeds(c, token) ==
  /\ Verified(exchanging[c], token)
  /\ Spend({"ops", "logins"})
  /\ Open(spent.logins + 1, Identity[token], "viewer", TRUE)
  /\ opened' = Append(opened, [login |-> exchanging[c], user |-> Identity[token]])
  /\ Leave(c)
  /\ UNCHANGED <<now, stored, failures, sockets, misses, redeemed, retired, begun, pending>>

ExchangeFails(c) ==
  /\ Leave(c)
  /\ UNCHANGED <<vars, begun, pending, opened>>

\* A new process knows neither the logins begun nor the callbacks.
RestartAll ==
  /\ Restart
  /\ pending' = <<>> /\ exchanging' = <<>>
  /\ UNCHANGED <<begun, opened>>

SSONext ==
  \/ Begin
  \/ \E l \in 1..begun : TakeState(l)
  \/ \E c \in DOMAIN exchanging : \/ ExchangeFails(c)
                                  \/ \E t \in 1..begun : ExchangeSucceeds(c, t)
  \/ RestartAll
  \/ (Visits \/ Changes \/ Tick) /\ UNCHANGED local

SSOSpec == SSOInit /\ [][SSONext]_allVars

-----------------------------------------------------------------------------
(***************************************************************************)
(* A login that was begun opens at most one session, whatever the browser  *)
(* repeats, and the session is that of its own identity.                   *)
(***************************************************************************)
OneSessionPerLogin ==
  /\ \A l \in 1..begun :
       Cardinality({i \in DOMAIN opened : opened[i].login = l})
         + Cardinality({c \in DOMAIN exchanging : exchanging[c] = l})
         + Cardinality({l} \cap DOMAIN pending) <= 1
  /\ \A i \in DOMAIN opened : opened[i].user = Identity[opened[i].login]

(***************************************************************************)
(* Credentials are limited to their use, in both modules: wrong ones are   *)
(* counted, and one that can be used once is used once.                    *)
(***************************************************************************)
CredentialsOnce == AttemptsBounded /\ CredentialsRetire /\ OneSessionPerLogin
=============================================================================
