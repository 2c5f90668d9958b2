------------------------------- MODULE Accounts -------------------------------
(***************************************************************************)
(* Signing in by SMS and the sessions that follow, for one phone and its   *)
(* user: server/src/routes/authSms.js.                                     *)
(*                                                                         *)
(* A code is sent, verified and consumed; a session has a refresh token,   *)
(* which is exchanged for the token of a new session.  Reading a code or a *)
(* token and marking it are separate statements, outside a transaction, so *)
(* requests that overlap may use it more than once.  The user is upserted  *)
(* by phone, tokens are random and access tokens are not stored.           *)
(***************************************************************************)
EXTENDS Naturals, FiniteSets

CONSTANTS Codes,     \* the codes that can be sent, 1..n (a bound)
          Sessions,  \* the sessions that can be made, 1..n (a bound)
          Logins     \* requests the server works on at the same time

ASSUME AccountsAssumption ==
  Codes \subseteq Nat /\ Sessions \subseteq Nat \ {0} /\ IsFiniteSet(Logins)

VARIABLES
  codes,      \* auth_sms_codes, in the order of created_at
  accounts,   \* auth_sessions: whether the token works, the code it goes back
              \* to and the session it was exchanged for (0: none, a new sign-in)
  cooling,    \* whether the last code is younger than smsCooldownSeconds, and how
              \* many codes were sent since it was not
  login,      \* the local state of each request
  signedOut   \* codes whose sessions a sign-out ended while no request was open

accountsVars == <<codes, accounts, cooling, login, signedOut>>

CodeState == {"unsent", "usable", "consumed", "expired"}

SessionState == {"none", "live", "revoked", "expired"}

Login == [at : {"idle", "send", "consume", "revoke", "open"},
          code : Codes \union {0}, session : Sessions \union {0}]

NoLogin == [at |-> "idle", code |-> 0, session |-> 0]

Go(g, at, code, session) ==
  login' = [login EXCEPT ![g] = [at |-> at, code |-> code, session |-> session]]

Respond(g) == login' = [login EXCEPT ![g] = NoLogin]

Ready(g) == login[g].at = "idle"

(***************************************************************************)
(* Codes.                                                                  *)
(***************************************************************************)
\* Sending reads the last code of the phone ...
SendRead(g) ==
  /\ Ready(g)
  /\ ~cooling.on
  /\ Go(g, "send", 0, 0)
  /\ UNCHANGED <<codes, accounts, cooling, signedOut>>

\* ... and inserts the next one (the gateway's failure comes after that).
SendInsert(g, c) ==
  /\ login[g].at = "send"
  /\ codes[c] = "unsent" /\ \A d \in Codes : d < c => codes[d] # "unsent"
  /\ codes' = [codes EXCEPT ![c] = "usable"]
  /\ cooling' = [on |-> TRUE, sent |-> cooling.sent + 1]
  /\ Respond(g)
  /\ UNCHANGED <<accounts, signedOut>>

\* The last code that is neither consumed nor expired; an older one comes back
\* when it is consumed.
Latest(c) == codes[c] = "usable" /\ \A d \in Codes : d > c => codes[d] # "usable"

VerifyRead(g, c) ==
  /\ Ready(g)
  /\ Latest(c)
  /\ Go(g, "consume", c, 0)
  /\ UNCHANGED <<codes, accounts, cooling, signedOut>>

\* Mutant of Consume: the code is left as it was.
Consume_Unmarked(g) ==
  /\ login[g].at = "consume"
  /\ Go(g, "open", login[g].code, 0)
  /\ UNCHANGED <<codes, accounts, cooling, signedOut>>

Consume(g) ==
  /\ login[g].at = "consume"
  /\ codes' = [codes EXCEPT ![login[g].code] = "consumed"]
  /\ Go(g, "open", login[g].code, 0)
  /\ UNCHANGED <<accounts, cooling, signedOut>>

(***************************************************************************)
(* Sessions.                                                               *)
(***************************************************************************)
\* The session of a sign-in or of a refresh is inserted.
OpenSession(g, s) ==
  /\ login[g].at = "open"
  /\ accounts[s].is = "none" /\ \A u \in Sessions : u < s => accounts[u].is # "none"
  /\ accounts' = [accounts EXCEPT ![s] = [is |-> "live", root |-> login[g].code, from |-> login[g].session]]
  /\ Respond(g)
  /\ UNCHANGED <<codes, cooling, signedOut>>

\* Mutant of Refreshable: revoked tokens still work.
Refreshable_Revoked(s) == accounts[s].is \in {"live", "revoked"}

Refreshable(s) == accounts[s].is = "live"

RefreshRead(g, s) ==
  /\ Ready(g)
  /\ Refreshable(s)
  /\ Go(g, "revoke", accounts[s].root, s)
  /\ UNCHANGED <<codes, accounts, cooling, signedOut>>

\* UPDATE ... WHERE id, whatever has become of the session.
Revoke(g) ==
  /\ login[g].at = "revoke"
  /\ accounts' = [accounts EXCEPT ![login[g].session].is = "revoked"]
  /\ Go(g, "open", login[g].code, login[g].session)
  /\ UNCHANGED <<codes, cooling, signedOut>>

\* Logout with a refresh token ends its session, ...
Logout(s) ==
  /\ accounts[s].is # "none"
  /\ accounts' = [accounts EXCEPT ![s].is = "revoked"]
  /\ UNCHANGED <<codes, cooling, login, signedOut>>

\* with a device the live ones of that device, whichever these are, ...
LogoutDevice(S) ==
  /\ accounts' = [s \in Sessions |->
       IF s \in S /\ accounts[s].is = "live" THEN [accounts[s] EXCEPT !.is = "revoked"] ELSE accounts[s]]
  /\ UNCHANGED <<codes, cooling, login, signedOut>>

\* ... and without either all of the user.
LogoutAll ==
  /\ accounts' = [s \in Sessions |-> IF accounts[s].is = "live" THEN [accounts[s] EXCEPT !.is = "revoked"]
                                                                ELSE accounts[s]]
  /\ signedOut' = IF \A g \in Logins : Ready(g) THEN {c \in Codes : codes[c] = "consumed"} ELSE signedOut
  /\ UNCHANGED <<codes, cooling, login>>

(***************************************************************************)
(* Time, failures and the specification.                                   *)
(***************************************************************************)
CodeExpires(c) ==
  /\ codes[c] = "usable"
  /\ codes' = [codes EXCEPT ![c] = "expired"]
  /\ UNCHANGED <<accounts, cooling, login, signedOut>>

SessionExpires(s) ==
  /\ accounts[s].is = "live"
  /\ accounts' = [accounts EXCEPT ![s].is = "expired"]
  /\ UNCHANGED <<codes, cooling, login, signedOut>>

\* The cooldown is longer than any request is open.
CooldownEnds ==
  /\ cooling.on
  /\ \A g \in Logins : login[g].at # "send"
  /\ cooling' = [on |-> FALSE, sent |-> 0]
  /\ UNCHANGED <<codes, accounts, login, signedOut>>

\* A statement fails: what the request has consumed or revoked stays so.
LoginFails(g) ==
  /\ ~Ready(g)
  /\ Respond(g)
  /\ UNCHANGED <<codes, accounts, cooling, signedOut>>

AccountsInit ==
  /\ codes = [c \in Codes |-> "unsent"]
  /\ accounts = [s \in Sessions |-> [is |-> "none", root |-> 0, from |-> 0]]
  /\ cooling = [on |-> FALSE, sent |-> 0]
  /\ login = [g \in Logins |-> NoLogin]
  /\ signedOut = {}

AccountsNext ==
  \/ \E g \in Logins :
       \/ SendRead(g) \/ Consume(g) \/ Revoke(g) \/ LoginFails(g)
       \/ \E c \in Codes : SendInsert(g, c) \/ VerifyRead(g, c)
       \/ \E s \in Sessions : OpenSession(g, s) \/ RefreshRead(g, s)
  \/ \E c \in Codes : CodeExpires(c)
  \/ \E s \in Sessions : Logout(s) \/ SessionExpires(s)
  \/ \E S \in SUBSET Sessions : LogoutDevice(S)
  \/ LogoutAll
  \/ CooldownEnds

AccountsSpec == AccountsInit /\ [][AccountsNext]_accountsVars

(***************************************************************************)
(* Properties.                                                             *)
(***************************************************************************)
\* Every variable has its type.
AccountsTypeOK ==
  /\ codes \in [Codes -> CodeState]
  /\ accounts \in [Sessions -> [is : SessionState, root : Codes \union {0}, from : Sessions \union {0}]]
  /\ cooling \in [on : BOOLEAN, sent : Nat]
  /\ login \in [Logins -> Login]
  /\ signedOut \subseteq Codes

SessionsFrom(c, s) == {u \in Sessions : accounts[u].is # "none" /\ accounts[u].root = c /\ accounts[u].from = s}

\* The check of a code, a refresh token or the cooldown and its mark are apart,
\* so requests that overlap pass it together; but no more of them than are open
\* at once, however the requests follow one another: a code signs in, a token
\* is exchanged and a cooldown is passed at most that many times.
ReuseIsBounded ==
  /\ \A c \in Codes, s \in Sessions \union {0} : Cardinality(SessionsFrom(c, s)) <= Cardinality(Logins)
  /\ cooling.sent <= Cardinality(Logins)

\* A sign-out of all sessions that meets no open request is final: no chain of
\* refreshes and no code used before brings one of these sign-ins back.  (A
\* refresh that is under way survives it, with a token nobody has revoked.)
SignOutIsFinal ==
  \A s \in Sessions : accounts[s].is = "live" => accounts[s].root \notin signedOut
=============================================================================
