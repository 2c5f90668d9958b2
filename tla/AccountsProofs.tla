---------------------------- MODULE AccountsProofs ----------------------------
(***************************************************************************)
(* Proofs about sign-in and, in the second part, about upload limits.      *)
(*                                                                         *)
(* Signing out of everything is final, and codes, tokens and the cooldown  *)
(* are used a bounded number of times, for any number of codes, sessions   *)
(* and requests.  Neither is inductive.  A request that was open when the  *)
(* sign-out came would bring the sign-in back: AccountsInv says that no    *)
(* request holds on to a code that was signed out, and that such a code    *)
(* stays consumed.  ReuseInv counts the requests that are under way.       *)
(***************************************************************************)
EXTENDS Accounts, Uploads, Integers, FiniteSetTheorems, SequenceTheorems, WellFoundedInduction, TLAPS

\* A request that is to open a session holds the code of the sign-in.
Holding == {"consume", "revoke", "open"}

Opened(s) == s \in Sessions /\ accounts[s].is # "none"

\* Nothing is left of a sign-in that was signed out.
Ended(c) ==
  /\ codes[c] = "consumed"
  /\ \A g \in Logins : login[g].at \in Holding => login[g].code # c
  /\ \A s \in Sessions : accounts[s].is = "live" => accounts[s].root # c

AccountsInv ==
  /\ AccountsTypeOK
  /\ \A g \in Logins :
       /\ login[g].at \in Holding => login[g].code \in Codes
       /\ login[g].at = "revoke" => Opened(login[g].session)
  /\ \A s \in Sessions : accounts[s].is # "none" => accounts[s].root \in Codes
  /\ \A c \in signedOut : Ended(c)

SessionRow == [is : SessionState, root : Codes \union {0}, from : Sessions \union {0}]

\* A session that is ended keeps the rest of its row.
LEMMA EndedRow ==
  ASSUME AccountsInv, NEW s \in Sessions, NEW is \in SessionState
  PROVE  LET row == [accounts[s] EXCEPT !.is = is] IN
         /\ row \in SessionRow /\ row.is = is /\ row.root = accounts[s].root /\ row.from = accounts[s].from
<1>1. accounts[s] \in SessionRow
  BY DEF AccountsInv, AccountsTypeOK, SessionRow
<1> QED
  BY <1>1 DEF SessionRow

\* The next state of a request.
LEMMA GoesTo ==
  ASSUME AccountsInv, NEW g \in Logins, NEW at, NEW code, NEW session,
         [at |-> at, code |-> code, session |-> session] \in Login,
         Go(g, at, code, session)
  PROVE  /\ login' \in [Logins -> Login]
         /\ login'[g].at = at /\ login'[g].code = code /\ login'[g].session = session
         /\ \A h \in Logins \ {g} : login'[h] = login[h]
BY DEF AccountsInv, AccountsTypeOK, Go

LEMMA Responds ==
  ASSUME AccountsInv, NEW g \in Logins, Respond(g)
  PROVE  /\ login' \in [Logins -> Login]
         /\ login'[g].at = "idle"
         /\ \A h \in Logins \ {g} : login'[h] = login[h]
BY DEF AccountsInv, AccountsTypeOK, Respond, NoLogin, Login

\* Only requests move, and who holds a code holds one that was not signed out.
LEMMA LoginMoves ==
  ASSUME AccountsInv, NEW g \in Logins, UNCHANGED <<accounts, signedOut>>,
         codes' \in [Codes -> CodeState], cooling' \in [on : BOOLEAN, sent : Nat],
         \A c \in Codes : codes[c] = "consumed" => codes'[c] = "consumed",
         login' \in [Logins -> Login],
         \A h \in Logins \ {g} : login'[h] = login[h],
         login'[g].at \in Holding => login'[g].code \in Codes \ signedOut,
         login'[g].at = "revoke" => Opened(login'[g].session)
  PROVE  AccountsInv'
<1>1. AccountsTypeOK'
  BY DEF AccountsInv, AccountsTypeOK
<1>2. \A h \in Logins : /\ login'[h].at \in Holding => login'[h].code \in Codes
                        /\ login'[h].at = "revoke" => Opened(login'[h].session)
  BY DEF AccountsInv
<1>3. \A c \in signedOut' : Ended(c)'
  BY DEF AccountsInv, AccountsTypeOK, Ended
<1> QED
  BY <1>1, <1>2, <1>3 DEF AccountsInv, Opened

\* Sending, verifying, and the requests that fail.
LEMMA CodeSteps ==
  ASSUME AccountsInv, NEW g \in Logins,
         \/ SendRead(g) \/ Consume(g) \/ LoginFails(g)
         \/ \E c \in Codes : SendInsert(g, c) \/ VerifyRead(g, c)
         \/ \E s \in Sessions : RefreshRead(g, s)
  PROVE  AccountsInv'
<1>0. /\ codes \in [Codes -> CodeState] /\ login \in [Logins -> Login]
      /\ cooling \in [on : BOOLEAN, sent : Nat] /\ accounts \in [Sessions -> SessionRow]
  BY DEF AccountsInv, AccountsTypeOK, SessionRow
<1>1. CASE SendRead(g)
  <2>1. login' \in [Logins -> Login] /\ login'[g].at = "send" /\ \A h \in Logins \ {g} : login'[h] = login[h]
    BY <1>1, GoesTo DEF SendRead, Login
  <2> QED
    BY <1>0, <1>1, <2>1, LoginMoves DEF SendRead, Holding
<1>2. CASE LoginFails(g)
  <2>1. login' \in [Logins -> Login] /\ login'[g].at = "idle" /\ \A h \in Logins \ {g} : login'[h] = login[h]
    BY <1>2, Responds DEF LoginFails
  <2> QED
    BY <1>0, <1>2, <2>1, LoginMoves DEF LoginFails, Holding
<1>3. ASSUME NEW c \in Codes, SendInsert(g, c)
      PROVE  AccountsInv'
  <2>1. login' \in [Logins -> Login] /\ login'[g].at = "idle" /\ \A h \in Logins \ {g} : login'[h] = login[h]
    BY <1>3, Responds DEF SendInsert
  <2>2. codes' \in [Codes -> CodeState] /\ \A d \in Codes : codes[d] = "consumed" => codes'[d] = "consumed"
    BY <1>0, <1>3 DEF SendInsert, CodeState
  <2>3. cooling' \in [on : BOOLEAN, sent : Nat]
    BY <1>0, <1>3 DEF SendInsert
  <2> QED
    BY <1>3, <2>1, <2>2, <2>3, LoginMoves DEF SendInsert, Holding
<1>4. ASSUME NEW c \in Codes, VerifyRead(g, c)
      PROVE  AccountsInv'
  <2>1. /\ login' \in [Logins -> Login] /\ login'[g].at = "consume" /\ login'[g].code = c
        /\ \A h \in Logins \ {g} : login'[h] = login[h]
    BY <1>4, GoesTo DEF VerifyRead, Login
  <2>2. c \notin signedOut
    BY <1>4 DEF VerifyRead, Latest, AccountsInv, Ended
  <2> QED
    BY <1>0, <1>4, <2>1, <2>2, LoginMoves DEF VerifyRead, Holding
<1>5. CASE Consume(g)
  <2>1. PICK c : c = login[g].code
    OBVIOUS
  <2>2. c \in Codes \ signedOut
    BY <1>5, <2>1 DEF Consume, AccountsInv, Ended, Holding
  <2>3. /\ login' \in [Logins -> Login] /\ login'[g].at = "open" /\ login'[g].code = c
        /\ \A h \in Logins \ {g} : login'[h] = login[h]
    BY <1>5, <2>1, <2>2, GoesTo DEF Consume, Login
  <2>4. codes' \in [Codes -> CodeState] /\ \A d \in Codes : codes[d] = "consumed" => codes'[d] = "consumed"
    BY <1>0, <1>5, <2>1 DEF Consume, CodeState
  <2> QED
    BY <1>0, <1>5, <2>2, <2>3, <2>4, LoginMoves DEF Consume, Holding
<1>6. ASSUME NEW s \in Sessions, RefreshRead(g, s)
      PROVE  AccountsInv'
  <2>1. PICK c : c = accounts[s].root
    OBVIOUS
  <2>2. accounts[s].is = "live" /\ c \in Codes \ signedOut
    BY <1>6, <2>1 DEF RefreshRead, Refreshable, AccountsInv, Ended
  <2>3. /\ login' \in [Logins -> Login] /\ login'[g].at = "revoke" /\ login'[g].code = c
        /\ login'[g].session = s /\ \A h \in Logins \ {g} : login'[h] = login[h]
    BY <1>6, <2>1, <2>2, GoesTo DEF RefreshRead, Login
  <2> QED
    BY <1>0, <1>6, <2>2, <2>3, LoginMoves DEF RefreshRead, Holding, Opened
<1> QED
  BY <1>1, <1>2, <1>3, <1>4, <1>5, <1>6

\* Sessions end and nothing else happens: no row is live that was not.
LEMMA SessionsEnd ==
  ASSUME AccountsInv, UNCHANGED <<codes, cooling, login>>,
         accounts' \in [Sessions -> SessionRow],
         \A s \in Sessions : /\ accounts'[s].root = accounts[s].root
                             /\ accounts'[s].is = "live" => accounts[s].is = "live"
                             /\ accounts'[s].is = "none" <=> accounts[s].is = "none",
         signedOut' \subseteq Codes,
         \A c \in signedOut' : c \in signedOut \/ Ended(c)'
  PROVE  AccountsInv'
<1>1. AccountsTypeOK'
  BY DEF AccountsInv, AccountsTypeOK, SessionRow
<1>2. \A c \in signedOut' : Ended(c)'
  BY DEF AccountsInv, Ended
<1> QED
  BY <1>1, <1>2 DEF AccountsInv, Opened

LEMMA SessionSteps ==
  ASSUME AccountsInv,
         \/ LogoutAll
         \/ \E s \in Sessions : Logout(s) \/ SessionExpires(s)
         \/ \E S \in SUBSET Sessions : LogoutDevice(S)
  PROVE  AccountsInv'
<1>0. accounts \in [Sessions -> SessionRow] /\ {"revoked", "expired"} \subseteq SessionState
  BY DEF AccountsInv, AccountsTypeOK, SessionRow, SessionState
<1>1. ASSUME NEW s \in Sessions, NEW is \in {"revoked", "expired"}, accounts[s].is # "none",
             accounts' = [accounts EXCEPT ![s].is = is], UNCHANGED <<codes, cooling, login, signedOut>>
      PROVE  AccountsInv'
  <2>1. PICK row : row = [accounts[s] EXCEPT !.is = is]
    OBVIOUS
  <2>2. row \in SessionRow /\ row.is = is /\ row.root = accounts[s].root
    BY <1>0, <1>1, <2>1, EndedRow
  <2>3. accounts' = [accounts EXCEPT ![s] = row]
    BY <1>1, <2>1
  <2> QED
    BY <1>0, <1>1, <2>2, <2>3, SessionsEnd DEF AccountsInv, AccountsTypeOK
<1>2. ASSUME NEW S \in SUBSET Sessions, UNCHANGED <<codes, cooling, login>>,
             accounts' = [s \in Sessions |-> IF s \in S /\ accounts[s].is = "live"
                                             THEN [accounts[s] EXCEPT !.is = "revoked"] ELSE accounts[s]]
      PROVE  /\ accounts' \in [Sessions -> SessionRow]
             /\ \A s \in Sessions : /\ accounts'[s].root = accounts[s].root
                                    /\ accounts'[s].is = "live" => accounts[s].is = "live" /\ s \notin S
                                    /\ accounts'[s].is = "none" <=> accounts[s].is = "none"
  <2>1. \A s \in Sessions : LET row == [accounts[s] EXCEPT !.is = "revoked"] IN
          row \in SessionRow /\ row.is = "revoked" /\ row.root = accounts[s].root
    BY <1>0, EndedRow
  <2>2. \A s \in Sessions : accounts'[s] = IF s \in S /\ accounts[s].is = "live"
                                            THEN [accounts[s] EXCEPT !.is = "revoked"] ELSE accounts[s]
    BY <1>2
  <2>3. \A s \in Sessions : accounts'[s] \in SessionRow
    BY <1>0, <2>1, <2>2
  <2>4. accounts' \in [Sessions -> SessionRow]
    BY <1>2, <2>3
  <2> QED
    BY <2>1, <2>2, <2>4
<1>3. ASSUME NEW S \in SUBSET Sessions, LogoutDevice(S)
      PROVE  AccountsInv'
  BY <1>2, <1>3, SessionsEnd DEF LogoutDevice, AccountsInv, AccountsTypeOK
<1>4. CASE LogoutAll
  <2>1. accounts' = [s \in Sessions |-> IF s \in Sessions /\ accounts[s].is = "live"
                                        THEN [accounts[s] EXCEPT !.is = "revoked"] ELSE accounts[s]]
    BY <1>4 DEF LogoutAll
  <2>2. /\ accounts' \in [Sessions -> SessionRow]
        /\ \A s \in Sessions : /\ accounts'[s].root = accounts[s].root
                               /\ accounts'[s].is # "live"
                               /\ accounts'[s].is = "none" <=> accounts[s].is = "none"
    BY <1>2, <1>4, <2>1 DEF LogoutAll
  <2>3. CASE UNCHANGED signedOut
    BY <1>4, <2>2, <2>3, SessionsEnd DEF LogoutAll, AccountsInv, AccountsTypeOK
  <2>4. CASE /\ \A g \in Logins : Ready(g)
             /\ signedOut' = {c \in Codes : codes[c] = "consumed"}
    <3>1. \A c \in signedOut' : Ended(c)'
      BY <1>4, <2>2, <2>4 DEF LogoutAll, Ended, Ready, Holding
    <3> QED
      BY <1>4, <2>2, <2>4, <3>1, SessionsEnd DEF LogoutAll
  <2> QED
    BY <1>4, <2>3, <2>4 DEF LogoutAll
<1>5. ASSUME NEW s \in Sessions, Logout(s) \/ SessionExpires(s)
      PROVE  AccountsInv'
  BY <1>1, <1>5 DEF Logout, SessionExpires
<1> QED
  BY <1>3, <1>4, <1>5

\* A refresh marks its session, and a request opens one.
LEMMA RefreshSteps ==
  ASSUME AccountsInv, NEW g \in Logins,
         Revoke(g) \/ \E s \in Sessions : OpenSession(g, s)
  PROVE  AccountsInv'
<1>0. accounts \in [Sessions -> SessionRow] /\ {"revoked", "live"} \subseteq SessionState
  BY DEF AccountsInv, AccountsTypeOK, SessionRow, SessionState
<1>1. PICK c, s : c = login[g].code /\ s = login[g].session
  OBVIOUS
<1>2. login[g].at \in Holding => c \in Codes \ signedOut
  BY <1>1 DEF AccountsInv, Ended
<1>3. s \in Sessions \union {0}
  BY <1>1 DEF AccountsInv, AccountsTypeOK, Login
<1>4. ASSUME NEW u \in Sessions, NEW row \in SessionRow, accounts' = [accounts EXCEPT ![u] = row],
             row.is = "live" => row.root \notin signedOut, row.root \in Codes, row.is # "none",
             UNCHANGED <<codes, cooling, signedOut>>,
             login' \in [Logins -> Login],
             \A h \in Logins \ {g} : login'[h] = login[h],
             login'[g].at \in Holding => login'[g].code \in Codes \ signedOut,
             login'[g].at # "revoke"
      PROVE  AccountsInv'
  <2>1. accounts' \in [Sessions -> SessionRow]
    BY <1>0, <1>4
  <2>2. \A x \in Sessions : accounts'[x] = IF x = u THEN row ELSE accounts[x]
    BY <1>0, <1>4
  <2>3. AccountsTypeOK'
    BY <1>4, <2>1 DEF AccountsInv, AccountsTypeOK, SessionRow
  <2>4. \A x \in signedOut' : Ended(x)'
    BY <1>4, <2>2 DEF AccountsInv, Ended
  <2> QED
    BY <1>4, <2>2, <2>3, <2>4 DEF AccountsInv, Opened
<1>5. CASE Revoke(g)
  <2>1. s \in Sessions /\ c \in Codes \ signedOut /\ accounts[s].root \in Codes
    BY <1>1, <1>2, <1>5 DEF Revoke, AccountsInv, Holding, Opened
  <2>2. PICK row : row = [accounts[s] EXCEPT !.is = "revoked"]
    OBVIOUS
  <2>3. row \in SessionRow /\ row.is = "revoked" /\ row.root = accounts[s].root
    BY <1>0, <2>1, <2>2, EndedRow
  <2>4. accounts' = [accounts EXCEPT ![s] = row]
    BY <1>1, <1>5, <2>2 DEF Revoke
  <2>5. /\ login' \in [Logins -> Login] /\ login'[g].at = "open" /\ login'[g].code = c
        /\ \A h \in Logins \ {g} : login'[h] = login[h]
    BY <1>1, <1>3, <1>5, <2>1, GoesTo DEF Revoke, Login
  <2> QED
    BY <1>4, <1>5, <2>1, <2>3, <2>4, <2>5 DEF Revoke
<1>6. ASSUME NEW u \in Sessions, OpenSession(g, u)
      PROVE  AccountsInv'
  <2>1. c \in Codes \ signedOut
    BY <1>2, <1>6, <1>1 DEF OpenSession, Holding
  <2>2. PICK row : row = [is |-> "live", root |-> c, from |-> s]
    OBVIOUS
  <2>3. row \in SessionRow /\ row.root = c /\ row.is # "none"
    BY <1>0, <1>3, <2>1, <2>2 DEF SessionRow
  <2>4. accounts' = [accounts EXCEPT ![u] = row]
    BY <1>1, <1>6, <2>2 DEF OpenSession
  <2>5. login' \in [Logins -> Login] /\ login'[g].at = "idle" /\ \A h \in Logins \ {g} : login'[h] = login[h]
    BY <1>6, Responds DEF OpenSession
  <2> QED
    BY <1>4, <1>6, <2>1, <2>3, <2>4, <2>5 DEF OpenSession, Holding
<1> QED
  BY <1>5, <1>6

LEMMA AccountsStart == AccountsInit => AccountsInv
<1> SUFFICES ASSUME AccountsInit PROVE AccountsInv
  OBVIOUS
<1>1. AccountsTypeOK
  BY DEF AccountsInit, AccountsTypeOK, CodeState, SessionState, Login, NoLogin
<1> QED
  BY <1>1 DEF AccountsInit, AccountsInv, NoLogin, Holding

LEMMA AccountsStep == AccountsInv /\ [AccountsNext]_accountsVars => AccountsInv'
<1> SUFFICES ASSUME AccountsInv, [AccountsNext]_accountsVars PROVE AccountsInv'
  OBVIOUS
<1>1. CASE UNCHANGED accountsVars
  BY <1>1 DEF accountsVars, AccountsInv, AccountsTypeOK, Ended, Opened
<1>2. ASSUME NEW c \in Codes, CodeExpires(c)
      PROVE  AccountsInv'
  <2>1. codes' \in [Codes -> CodeState] /\ \A d \in Codes : codes[d] = "consumed" => codes'[d] = "consumed"
    BY <1>2 DEF CodeExpires, AccountsInv, AccountsTypeOK, CodeState
  <2> QED
    BY <1>2, <2>1 DEF CodeExpires, AccountsInv, AccountsTypeOK, Ended, Opened
<1>3. CASE CooldownEnds
  BY <1>3 DEF CooldownEnds, AccountsInv, AccountsTypeOK, Ended, Opened
<1> QED
  BY <1>1, <1>2, <1>3, CodeSteps, SessionSteps, RefreshSteps DEF AccountsNext

\* In every behaviour the codes, the sessions, the cooldown and the local state
\* of the requests of authSms.js have their types.
THEOREM AccountsTypes == AccountsSpec => []AccountsTypeOK
<1>1. AccountsInv => AccountsTypeOK
  BY DEF AccountsInv
<1> QED
  BY <1>1, AccountsStart, AccountsStep, PTL DEF AccountsSpec

\* A sign-out of everything (authSms.js, logout without a token) that meets no
\* open request is final, however requests overlap and fail afterwards.
THEOREM SignedOutForGood == AccountsSpec => []SignOutIsFinal
<1>1. AccountsInv => SignOutIsFinal
  BY DEF AccountsInv, Ended, SignOutIsFinal
<1> QED
  BY <1>1, AccountsStart, AccountsStep, PTL DEF AccountsSpec

(***************************************************************************)
(* Codes, tokens and the cooldown are used no more often than requests can *)
(* overlap.  Every use is made by a request that passed the check before   *)
(* the first one of them was marked, so uses and requests under way        *)
(* together are never more than there are requests.                        *)
(***************************************************************************)
\* The requests that are under way with a code (s = 0) or a refresh token.
Waiting(c, s) ==
  {g \in Logins : login[g].at \in Holding /\ login[g].code = c /\ login[g].session = s}

Unused(c, s) ==
  IF s = 0 THEN codes[c] \in {"unsent", "usable"} ELSE accounts[s].is \in {"none", "live"}

Untouched(c, s) == SessionsFrom(c, s) = {} /\ \A g \in Waiting(c, s) : login[g].at # "open"

Bounded(c, s) ==
  /\ IsFiniteSet(SessionsFrom(c, s))
  /\ Cardinality(SessionsFrom(c, s)) + Cardinality(Waiting(c, s)) <= Cardinality(Logins)
  /\ Unused(c, s) => Untouched(c, s)

Senders == {g \in Logins : login[g].at = "send"}

ReuseInv ==
  /\ \A c \in Codes, s \in Sessions \union {0} : Bounded(c, s)
  /\ \A g \in Logins : login[g].at = "consume" => login[g].session = 0
  /\ cooling.sent + Cardinality(Senders) <= Cardinality(Logins)
  /\ ~cooling.on => cooling.sent = 0

LEMMA LoginSets ==
  ASSUME NEW S \in SUBSET Logins
  PROVE  /\ IsFiniteSet(S) /\ Cardinality(S) \in Nat /\ Cardinality(Logins) \in Nat
         /\ Cardinality(S) <= Cardinality(Logins)
         /\ \A T \in SUBSET S : Cardinality(T) <= Cardinality(S)
         /\ \A g \in S : Cardinality(S \ {g}) = Cardinality(S) - 1
<1>1. IsFiniteSet(Logins)
  BY AccountsAssumption
<1>2. IsFiniteSet(S)
  BY <1>1, FS_Subset
<1> QED
  BY <1>1, <1>2, FS_Subset, FS_CardinalityType, FS_RemoveElement

\* Nothing was made of a code or a token that may still be used.
LEMMA StaysUntouched ==
  ASSUME NEW c, NEW s, Untouched(c, s)'
  PROVE  Bounded(c, s)'
<1>1. SessionsFrom(c, s)' = {} /\ Waiting(c, s)' \subseteq Logins
  BY DEF Untouched, Waiting
<1>2. Cardinality({}) = 0 /\ IsFiniteSet({})
  BY FS_EmptySet
<1>3. PICK W : W = Waiting(c, s)'
  OBVIOUS
<1>4. Cardinality(W) \in Nat /\ Cardinality(W) <= Cardinality(Logins)
  BY <1>1, <1>3, LoginSets
<1> QED
  BY <1>1, <1>2, <1>3, <1>4 DEF Bounded

\* Of a used one nothing more is made than the requests under way make.
LEMMA StaysBounded ==
  ASSUME NEW c, NEW s, Bounded(c, s), ~Unused(c, s)',
         SessionsFrom(c, s)' = SessionsFrom(c, s),
         Waiting(c, s)' \subseteq Waiting(c, s)
  PROVE  Bounded(c, s)'
<1>1. PICK V, W, S : V = Waiting(c, s) /\ W = Waiting(c, s)' /\ S = SessionsFrom(c, s)
  OBVIOUS
<1>2. V \subseteq Logins
  BY <1>1 DEF Waiting
<1>3. /\ Cardinality(W) \in Nat /\ Cardinality(V) \in Nat /\ Cardinality(Logins) \in Nat
      /\ Cardinality(W) <= Cardinality(V)
  BY <1>1, <1>2, LoginSets
<1>4. IsFiniteSet(S) /\ Cardinality(S) + Cardinality(V) <= Cardinality(Logins)
  BY <1>1 DEF Bounded
<1>5. Cardinality(S) \in Nat
  BY <1>4, FS_CardinalityType
<1>6. Cardinality(S) + Cardinality(W) <= Cardinality(Logins)
  BY <1>3, <1>4, <1>5
<1> QED
  BY <1>1, <1>4, <1>6 DEF Bounded

\* A request makes a session of what it waited with.
LEMMA OneMore ==
  ASSUME NEW c, NEW s, Bounded(c, s), ~Unused(c, s)',
         NEW u, NEW g \in Waiting(c, s),
         SessionsFrom(c, s)' = SessionsFrom(c, s) \union {u},
         Waiting(c, s)' = Waiting(c, s) \ {g}
  PROVE  Bounded(c, s)'
<1>1. PICK V, W, S, R : /\ V = Waiting(c, s) /\ W = Waiting(c, s)'
                        /\ S = SessionsFrom(c, s) /\ R = SessionsFrom(c, s)'
  OBVIOUS
<1>2. V \subseteq Logins /\ g \in V /\ W = V \ {g} /\ R = S \union {u}
  BY <1>1 DEF Waiting
<1>3. /\ Cardinality(V) \in Nat /\ Cardinality(Logins) \in Nat
      /\ Cardinality(W) = Cardinality(V) - 1
  BY <1>2, LoginSets
<1>4. IsFiniteSet(S) /\ Cardinality(S) + Cardinality(V) <= Cardinality(Logins)
  BY <1>1 DEF Bounded
<1>5. IsFiniteSet(R) /\ (Cardinality(R) = Cardinality(S) \/ Cardinality(R) = Cardinality(S) + 1)
  BY <1>2, <1>4, FS_AddElement
<1>6. Cardinality(S) \in Nat /\ Cardinality(R) \in Nat
  BY <1>4, <1>5, FS_CardinalityType
<1>7. Cardinality(R) + Cardinality(W) <= Cardinality(Logins)
  BY <1>3, <1>4, <1>5, <1>6
<1> QED
  BY <1>1, <1>5, <1>7 DEF Bounded

\* A step that opens no session: only of what is unused a request begins to
\* wait, and none that waits with an unused one is about to open a session.
LEMMA NoSession ==
  ASSUME NEW c, NEW s, Bounded(c, s),
         \A u \in Sessions : /\ accounts'[u].is = "none" <=> accounts[u].is = "none"
                             /\ accounts'[u].root = accounts[u].root
                             /\ accounts'[u].from = accounts[u].from,
         Unused(c, s)' => Unused(c, s),
         \A g \in Waiting(c, s)' : g \in Waiting(c, s) \/ Unused(c, s),
         Unused(c, s)' => \A g \in Waiting(c, s)' :
           login'[g].at = "open" => g \in Waiting(c, s) /\ login[g].at = "open"
  PROVE  Bounded(c, s)'
<1>1. SessionsFrom(c, s)' = SessionsFrom(c, s)
  BY DEF SessionsFrom
<1>2. CASE Unused(c, s)'
  <2>1. Untouched(c, s)'
    BY <1>1, <1>2 DEF Bounded, Untouched
  <2> QED
    BY <2>1, StaysUntouched
<1>3. CASE ~Unused(c, s)' /\ Waiting(c, s)' \subseteq Waiting(c, s)
  BY <1>1, <1>3, StaysBounded
<1>4. CASE ~Unused(c, s)' /\ Unused(c, s)
  <2>1. SessionsFrom(c, s)' = {}
    BY <1>1, <1>4 DEF Bounded, Untouched
  <2>2. PICK W : W = Waiting(c, s)'
    OBVIOUS
  <2>3. W \subseteq Logins
    BY <2>2 DEF Waiting
  <2>4. Cardinality(W) \in Nat /\ Cardinality(W) <= Cardinality(Logins)
    BY <2>3, LoginSets
  <2>5. IsFiniteSet({}) /\ Cardinality({}) = 0
    BY FS_EmptySet
  <2> QED
    BY <1>4, <2>1, <2>2, <2>4, <2>5 DEF Bounded
<1> QED
  BY <1>2, <1>3, <1>4

\* The cooldown is what it was, and no other request sends.
LEMMA SendersStay ==
  ASSUME AccountsInv, ReuseInv, Senders' \subseteq Senders, cooling' = cooling
  PROVE  /\ cooling'.sent + Cardinality(Senders') <= Cardinality(Logins)
         /\ ~cooling'.on => cooling'.sent = 0
<1>1. PICK T, S : T = Senders' /\ S = Senders
  OBVIOUS
<1>2. S \subseteq Logins /\ T \subseteq S
  BY <1>1 DEF Senders
<1>3. /\ Cardinality(S) \in Nat /\ Cardinality(T) \in Nat /\ Cardinality(Logins) \in Nat
      /\ Cardinality(T) <= Cardinality(S)
  BY <1>2, LoginSets
<1>4. cooling.sent \in Nat
  BY DEF AccountsInv, AccountsTypeOK
<1> QED
  BY <1>1, <1>3, <1>4 DEF ReuseInv

\* Signing out, expiry and the end of the cooldown: no request moves.
LEMMA ReuseRests ==
  ASSUME AccountsInv, ReuseInv, UNCHANGED login,
         \A c \in Codes : codes'[c] \in {"unsent", "usable"} => codes[c] \in {"unsent", "usable"},
         \A s \in Sessions : /\ accounts'[s].is = "none" <=> accounts[s].is = "none"
                             /\ accounts'[s].is = "live" => accounts[s].is = "live"
                             /\ accounts'[s].root = accounts[s].root
                             /\ accounts'[s].from = accounts[s].from,
         cooling' = cooling \/ cooling' = [on |-> FALSE, sent |-> 0]
  PROVE  ReuseInv'
<1>1. ASSUME NEW c \in Codes, NEW s \in Sessions \union {0}
      PROVE  Bounded(c, s)'
  <2>1. Bounded(c, s)
    BY DEF ReuseInv
  <2>2. Waiting(c, s)' = Waiting(c, s)
    BY DEF Waiting
  <2>3. Unused(c, s)' => Unused(c, s)
    BY DEF Unused
  <2> QED
    BY <2>1, <2>2, <2>3, NoSession
<1>2. Senders' = Senders
  BY DEF Senders
<1>3. CASE cooling' = cooling
  BY <1>1, <1>2, <1>3, SendersStay DEF ReuseInv
<1>4. CASE cooling' = [on |-> FALSE, sent |-> 0]
  <2>1. PICK S : S = Senders
    OBVIOUS
  <2>2. Cardinality(S) \in Nat /\ Cardinality(Logins) \in Nat /\ Cardinality(S) <= Cardinality(Logins)
    BY <2>1, LoginSets DEF Senders
  <2> QED
    BY <1>1, <1>2, <1>4, <2>1, <2>2 DEF ReuseInv
<1> QED
  BY <1>3, <1>4

LEMMA ReuseAtRest ==
  ASSUME AccountsInv, ReuseInv,
         \/ UNCHANGED accountsVars
         \/ LogoutAll \/ CooldownEnds
         \/ \E c \in Codes : CodeExpires(c)
         \/ \E s \in Sessions : Logout(s) \/ SessionExpires(s)
         \/ \E S \in SUBSET Sessions : LogoutDevice(S)
  PROVE  ReuseInv'
<1>0. accounts \in [Sessions -> SessionRow] /\ {"revoked", "expired"} \subseteq SessionState
  BY DEF AccountsInv, AccountsTypeOK, SessionRow, SessionState
<1>1. CASE UNCHANGED accountsVars \/ CooldownEnds
  BY <1>1, ReuseRests DEF accountsVars, CooldownEnds
<1>2. ASSUME NEW c \in Codes, CodeExpires(c)
      PROVE  ReuseInv'
  <2>1. \A d \in Codes : codes'[d] \in {"unsent", "usable"} => codes[d] \in {"unsent", "usable"}
    BY <1>2 DEF CodeExpires, AccountsInv, AccountsTypeOK
  <2> QED
    BY <1>2, <2>1, ReuseRests DEF CodeExpires
<1>3. ASSUME NEW s \in Sessions, Logout(s) \/ SessionExpires(s)
      PROVE  ReuseInv'
  <2>1. PICK is \in {"revoked", "expired"} : accounts' = [accounts EXCEPT ![s].is = is]
    BY <1>3 DEF Logout, SessionExpires
  <2>2. PICK row : row = [accounts[s] EXCEPT !.is = is]
    OBVIOUS
  <2>3. row.is = is /\ row.root = accounts[s].root /\ row.from = accounts[s].from
    BY <1>0, <2>2, EndedRow
  <2>4. accounts' = [accounts EXCEPT ![s] = row]
    BY <2>1, <2>2
  <2>5. \A u \in Sessions : accounts'[u] = IF u = s THEN row ELSE accounts[u]
    BY <1>0, <2>4
  <2>6. accounts[s].is # "none"
    BY <1>3 DEF Logout, SessionExpires
  <2> QED
    BY <1>3, <2>3, <2>5, <2>6, ReuseRests DEF Logout, SessionExpires
<1>4. ASSUME NEW S \in SUBSET Sessions, UNCHANGED <<codes, cooling, login>>,
             accounts' = [s \in Sessions |-> IF s \in S /\ accounts[s].is = "live"
                                             THEN [accounts[s] EXCEPT !.is = "revoked"] ELSE accounts[s]]
      PROVE  ReuseInv'
  <2>1. \A s \in Sessions : LET row == [accounts[s] EXCEPT !.is = "revoked"] IN
          row.is = "revoked" /\ row.root = accounts[s].root /\ row.from = accounts[s].from
    BY <1>0, EndedRow
  <2>2. \A s \in Sessions : accounts'[s] = IF s \in S /\ accounts[s].is = "live"
                                            THEN [accounts[s] EXCEPT !.is = "revoked"] ELSE accounts[s]
    BY <1>4
  <2>3. \A s \in Sessions : /\ accounts'[s].is = "none" <=> accounts[s].is = "none"
                            /\ accounts'[s].is = "live" => accounts[s].is = "live"
                            /\ accounts'[s].root = accounts[s].root
                            /\ accounts'[s].from = accounts[s].from
    BY <2>1, <2>2
  <2> QED
    BY <1>4, <2>3, ReuseRests
<1>5. ASSUME NEW S \in SUBSET Sessions, LogoutDevice(S)
      PROVE  ReuseInv'
  BY <1>4, <1>5 DEF LogoutDevice
<1>6. CASE LogoutAll
  <2>1. accounts' = [s \in Sessions |-> IF s \in Sessions /\ accounts[s].is = "live"
                                        THEN [accounts[s] EXCEPT !.is = "revoked"] ELSE accounts[s]]
    BY <1>6 DEF LogoutAll
  <2> QED
    BY <1>4, <1>6, <2>1 DEF LogoutAll
<1> QED
  BY <1>1, <1>2, <1>3, <1>5, <1>6

\* A request moves on and no session is opened: it holds what it held, or
\* something unused, and is about to open a session only with something used.
LEMMA ReuseMoves ==
  ASSUME AccountsInv, ReuseInv, NEW g \in Logins,
         login' \in [Logins -> Login],
         \A h \in Logins \ {g} : login'[h] = login[h],
         \A c \in Codes : codes'[c] \in {"unsent", "usable"} => codes[c] \in {"unsent", "usable"},
         \A s \in Sessions : /\ accounts'[s].is = "none" <=> accounts[s].is = "none"
                             /\ accounts'[s].is = "live" => accounts[s].is = "live"
                             /\ accounts'[s].root = accounts[s].root
                             /\ accounts'[s].from = accounts[s].from,
         \A c \in Codes, s \in Sessions \union {0} : g \in Waiting(c, s)' =>
           /\ g \in Waiting(c, s) \/ Unused(c, s)
           /\ login'[g].at = "open" => ~Unused(c, s)',
         login'[g].at = "consume" => login'[g].session = 0,
         /\ cooling'.sent + Cardinality(Senders') <= Cardinality(Logins)
         /\ ~cooling'.on => cooling'.sent = 0
  PROVE  ReuseInv'
<1>1. ASSUME NEW c \in Codes, NEW s \in Sessions \union {0}
      PROVE  Bounded(c, s)'
  <2>1. Bounded(c, s)
    BY DEF ReuseInv
  <2>2. \A h \in Logins \ {g} : h \in Waiting(c, s)' <=> h \in Waiting(c, s)
    BY DEF Waiting
  <2>3. Unused(c, s)' => Unused(c, s)
    BY DEF Unused
  <2>4. Waiting(c, s)' \subseteq Logins
    BY DEF Waiting
  <2>5. \A h \in Waiting(c, s)' : h \in Waiting(c, s) \/ Unused(c, s)
    BY <2>2, <2>4
  <2>6. Unused(c, s)' => \A h \in Waiting(c, s)' :
          login'[h].at = "open" => h \in Waiting(c, s) /\ login[h].at = "open"
    BY <2>2, <2>4
  <2> QED
    BY <2>1, <2>3, <2>5, <2>6, NoSession
<1> QED
  BY <1>1 DEF ReuseInv

LEMMA SendingReuse ==
  ASSUME AccountsInv, ReuseInv, NEW g \in Logins,
         SendRead(g) \/ LoginFails(g) \/ \E c \in Codes : SendInsert(g, c)
  PROVE  ReuseInv'
<1>0. /\ codes \in [Codes -> CodeState] /\ login \in [Logins -> Login] /\ cooling.sent \in Nat
  BY DEF AccountsInv, AccountsTypeOK
<1>1. CASE LoginFails(g)
  <2>1. login' \in [Logins -> Login] /\ login'[g].at = "idle" /\ \A h \in Logins \ {g} : login'[h] = login[h]
    BY <1>1, Responds DEF LoginFails
  <2>2. Senders' \subseteq Senders
    BY <2>1 DEF Senders
  <2>3. \A c \in Codes, s \in Sessions \union {0} : g \notin Waiting(c, s)'
    BY <2>1 DEF Waiting, Holding
  <2> QED
    BY <1>1, <2>1, <2>2, <2>3, ReuseMoves, SendersStay DEF LoginFails
<1>2. CASE SendRead(g)
  <2>1. login' \in [Logins -> Login] /\ login'[g].at = "send" /\ \A h \in Logins \ {g} : login'[h] = login[h]
    BY <1>2, GoesTo DEF SendRead, Login
  <2>2. \A c \in Codes, s \in Sessions \union {0} : g \notin Waiting(c, s)'
    BY <2>1 DEF Waiting, Holding
  <2>3. PICK T : T = Senders'
    OBVIOUS
  <2>4. Cardinality(T) \in Nat /\ Cardinality(T) <= Cardinality(Logins) /\ Cardinality(Logins) \in Nat
    BY <2>3, LoginSets DEF Senders
  <2>5. cooling' = cooling /\ cooling.sent = 0
    BY <1>2 DEF SendRead, ReuseInv
  <2> QED
    BY <1>2, <2>1, <2>2, <2>3, <2>4, <2>5, ReuseMoves DEF SendRead
<1>3. ASSUME NEW c \in Codes, SendInsert(g, c)
      PROVE  ReuseInv'
  <2>1. login' \in [Logins -> Login] /\ login'[g].at = "idle" /\ \A h \in Logins \ {g} : login'[h] = login[h]
    BY <1>3, Responds DEF SendInsert
  <2>2. \A d \in Codes, s \in Sessions \union {0} : g \notin Waiting(d, s)'
    BY <2>1 DEF Waiting, Holding
  <2>3. \A d \in Codes : codes'[d] \in {"unsent", "usable"} => codes[d] \in {"unsent", "usable"}
    BY <1>0, <1>3 DEF SendInsert
  <2>4. PICK S, T : S = Senders /\ T = Senders'
    OBVIOUS
  <2>5. S \subseteq Logins /\ g \in S /\ T = S \ {g}
    BY <1>3, <2>1, <2>4 DEF Senders, SendInsert
  <2>6. Cardinality(S) \in Nat /\ Cardinality(T) = Cardinality(S) - 1 /\ Cardinality(Logins) \in Nat
    BY <2>5, LoginSets
  <2>7. cooling'.on /\ cooling'.sent = cooling.sent + 1
    BY <1>3 DEF SendInsert
  <2>8. cooling'.sent + Cardinality(T) <= Cardinality(Logins)
    BY <1>0, <2>4, <2>6, <2>7 DEF ReuseInv
  <2> QED
    BY <1>3, <2>1, <2>2, <2>3, <2>4, <2>7, <2>8, ReuseMoves DEF SendInsert
<1> QED
  BY <1>1, <1>2, <1>3

LEMMA UsingReuse ==
  ASSUME AccountsInv, ReuseInv, NEW g \in Logins,
         \/ Consume(g) \/ Revoke(g)
         \/ \E c \in Codes : VerifyRead(g, c)
         \/ \E s \in Sessions : RefreshRead(g, s)
  PROVE  ReuseInv'
<1>0. /\ codes \in [Codes -> CodeState] /\ login \in [Logins -> Login]
      /\ accounts \in [Sessions -> SessionRow] /\ "revoked" \in SessionState
  BY DEF AccountsInv, AccountsTypeOK, SessionRow, SessionState
<1>1. PICK x, y : x = login[g].code /\ y = login[g].session
  OBVIOUS
<1>2. login[g].at \in Holding => x \in Codes
  BY <1>1 DEF AccountsInv
<1>3. y \in Sessions \union {0}
  BY <1>0, <1>1 DEF Login
<1>4. ASSUME login'[g].at \in Holding, \A h \in Logins \ {g} : login'[h] = login[h]
      PROVE  Senders' \subseteq Senders
  BY <1>4 DEF Senders, Holding
<1>5. ASSUME NEW c \in Codes, VerifyRead(g, c)
      PROVE  ReuseInv'
  <2>1. /\ login' \in [Logins -> Login] /\ login'[g].at = "consume" /\ login'[g].code = c
        /\ login'[g].session = 0 /\ \A h \in Logins \ {g} : login'[h] = login[h]
    BY <1>5, GoesTo DEF VerifyRead, Login
  <2>2. Unused(c, 0)
    BY <1>5 DEF VerifyRead, Latest, Unused
  <2>3. \A d \in Codes, s \in Sessions \union {0} : g \in Waiting(d, s)' => Unused(d, s)
    BY <2>1, <2>2 DEF Waiting
  <2>4. Senders' \subseteq Senders
    BY <1>4, <2>1 DEF Holding
  <2> QED
    BY <1>5, <2>1, <2>3, <2>4, ReuseMoves, SendersStay DEF VerifyRead
<1>6. ASSUME NEW s \in Sessions, RefreshRead(g, s)
      PROVE  ReuseInv'
  <2>1. PICK c : c = accounts[s].root
    OBVIOUS
  <2>2. accounts[s].is = "live" /\ c \in Codes /\ s # 0
    BY <1>6, <2>1, AccountsAssumption DEF RefreshRead, Refreshable, AccountsInv
  <2>3. /\ login' \in [Logins -> Login] /\ login'[g].at = "revoke" /\ login'[g].code = c
        /\ login'[g].session = s /\ \A h \in Logins \ {g} : login'[h] = login[h]
    BY <1>6, <2>1, <2>2, GoesTo DEF RefreshRead, Login
  <2>4. \A d \in Codes, u \in Sessions \union {0} : g \in Waiting(d, u)' => Unused(d, u)
    BY <2>2, <2>3 DEF Waiting, Unused
  <2>5. Senders' \subseteq Senders
    BY <1>4, <2>3 DEF Holding
  <2> QED
    BY <1>6, <2>3, <2>4, <2>5, ReuseMoves, SendersStay DEF RefreshRead
<1>7. CASE Consume(g)
  <2>1. x \in Codes /\ y = 0 /\ login[g].at = "consume"
    BY <1>1, <1>2, <1>7 DEF Consume, Holding, ReuseInv
  <2>2. /\ login' \in [Logins -> Login] /\ login'[g].at = "open" /\ login'[g].code = x
        /\ login'[g].session = 0 /\ \A h \in Logins \ {g} : login'[h] = login[h]
    BY <1>1, <1>7, <2>1, GoesTo DEF Consume, Login
  <2>3. codes' = [codes EXCEPT ![x] = "consumed"]
    BY <1>1, <1>7 DEF Consume
  <2>4. ~Unused(x, 0)' /\ \A d \in Codes : codes'[d] \in {"unsent", "usable"} => codes[d] \in {"unsent", "usable"}
    BY <1>0, <2>1, <2>3 DEF Unused
  <2>5. \A d \in Codes, u \in Sessions \union {0} : g \in Waiting(d, u)' =>
          g \in Waiting(d, u) /\ ~Unused(d, u)'
    BY <1>1, <2>1, <2>2, <2>4 DEF Waiting, Holding
  <2>6. Senders' \subseteq Senders
    BY <1>4, <2>2 DEF Holding
  <2> QED
    BY <1>7, <2>2, <2>4, <2>5, <2>6, ReuseMoves, SendersStay DEF Consume
<1>8. CASE Revoke(g)
  <2>1. x \in Codes /\ y \in Sessions /\ y # 0 /\ login[g].at = "revoke" /\ accounts[y].is # "none"
    BY <1>1, <1>2, <1>8, AccountsAssumption DEF Revoke, Holding, AccountsInv, Opened
  <2>2. PICK row : row = [accounts[y] EXCEPT !.is = "revoked"]
    OBVIOUS
  <2>3. row.is = "revoked" /\ row.root = accounts[y].root /\ row.from = accounts[y].from
    BY <1>0, <2>1, <2>2, EndedRow
  <2>4. accounts' = [accounts EXCEPT ![y] = row]
    BY <1>1, <1>8, <2>2 DEF Revoke
  <2>5. \A u \in Sessions : accounts'[u] = IF u = y THEN row ELSE accounts[u]
    BY <1>0, <2>4
  <2>6. /\ login' \in [Logins -> Login] /\ login'[g].at = "open" /\ login'[g].code = x
        /\ login'[g].session = y /\ \A h \in Logins \ {g} : login'[h] = login[h]
    BY <1>1, <1>8, <2>1, GoesTo DEF Revoke, Login
  <2>7. ~Unused(x, y)'
    BY <2>1, <2>3, <2>5 DEF Unused
  <2>8. \A d \in Codes, u \in Sessions \union {0} : g \in Waiting(d, u)' =>
          g \in Waiting(d, u) /\ ~Unused(d, u)'
    BY <1>1, <2>1, <2>6, <2>7 DEF Waiting, Holding
  <2>9. Senders' \subseteq Senders
    BY <1>4, <2>6 DEF Holding
  <2>10. \A u \in Sessions : /\ accounts'[u].is = "none" <=> accounts[u].is = "none"
                             /\ accounts'[u].is = "live" => accounts[u].is = "live"
                             /\ accounts'[u].root = accounts[u].root
                             /\ accounts'[u].from = accounts[u].from
    BY <2>1, <2>3, <2>5
  <2> QED
    BY <1>8, <2>6, <2>8, <2>9, <2>10, ReuseMoves, SendersStay DEF Revoke
<1> QED
  BY <1>5, <1>6, <1>7, <1>8

\* A session is opened: one more of what the request waited with.
LEMMA OpeningReuse ==
  ASSUME AccountsInv, ReuseInv, NEW g \in Logins, NEW u \in Sessions, OpenSession(g, u)
  PROVE  ReuseInv'
<1>0. login \in [Logins -> Login] /\ accounts \in [Sessions -> SessionRow]
  BY DEF AccountsInv, AccountsTypeOK, SessionRow
<1>1. PICK x, y : x = login[g].code /\ y = login[g].session
  OBVIOUS
<1>2. x \in Codes /\ y \in Sessions \union {0} /\ login[g].at = "open"
  BY <1>0, <1>1 DEF OpenSession, AccountsInv, Holding, Login
<1>3. PICK row : row = [is |-> "live", root |-> x, from |-> y]
  OBVIOUS
<1>4. row.is = "live" /\ row.root = x /\ row.from = y
  BY <1>3
<1>5. accounts' = [accounts EXCEPT ![u] = row]
  BY <1>1, <1>3 DEF OpenSession
<1>6. accounts[u].is = "none" /\ \A s \in Sessions : accounts'[s] = IF s = u THEN row ELSE accounts[s]
  BY <1>0, <1>5 DEF OpenSession
<1>7. login' \in [Logins -> Login] /\ login'[g].at = "idle" /\ \A h \in Logins \ {g} : login'[h] = login[h]
  BY Responds DEF OpenSession
<1>8. ASSUME NEW c \in Codes, NEW s \in Sessions \union {0}
      PROVE  Bounded(c, s)'
  <2>1. Bounded(c, s) /\ (Unused(c, s)' <=> Unused(c, s))
    BY <1>4, <1>6 DEF ReuseInv, Unused, OpenSession
  <2>2. CASE c = x /\ s = y
    <3>1. g \in Waiting(c, s) /\ ~Unused(c, s)
      BY <1>1, <1>2, <2>1, <2>2 DEF Waiting, Holding, Bounded, Untouched
    <3>2. Waiting(c, s)' = Waiting(c, s) \ {g}
      BY <1>7 DEF Waiting, Holding
    <3>3. SessionsFrom(c, s)' = SessionsFrom(c, s) \union {u}
      BY <1>4, <1>6, <2>2 DEF SessionsFrom
    <3> QED
      BY <2>1, <3>1, <3>2, <3>3, OneMore
  <2>3. CASE ~(c = x /\ s = y)
    <3>1. g \notin Waiting(c, s)
      BY <1>1, <2>3 DEF Waiting
    <3>2. Waiting(c, s)' = Waiting(c, s)
      BY <1>7, <3>1 DEF Waiting, Holding
    <3>3. SessionsFrom(c, s)' = SessionsFrom(c, s)
      BY <1>4, <1>6, <2>3 DEF SessionsFrom
    <3>4. CASE Unused(c, s)
      <4>1. Untouched(c, s)
        BY <2>1, <3>4 DEF Bounded
      <4>2. \A h \in Waiting(c, s) : login'[h] = login[h]
        BY <1>7, <3>1 DEF Waiting
      <4>3. Untouched(c, s)'
        BY <3>2, <3>3, <4>1, <4>2 DEF Untouched
      <4> QED
        BY <4>3, StaysUntouched
    <3>5. CASE ~Unused(c, s)
      BY <2>1, <3>2, <3>3, <3>5, StaysBounded
    <3> QED
      BY <3>4, <3>5
  <2> QED
    BY <2>2, <2>3
<1>9. Senders' \subseteq Senders
  BY <1>7 DEF Senders
<1>10. \A h \in Logins : login'[h].at = "consume" => login'[h].session = 0
  BY <1>7 DEF ReuseInv
<1> QED
  BY <1>8, <1>9, <1>10, SendersStay DEF ReuseInv, OpenSession

LEMMA ReuseStart == AccountsInit => ReuseInv
<1> SUFFICES ASSUME AccountsInit PROVE ReuseInv
  OBVIOUS
<1>1. \A c, s : SessionsFrom(c, s) = {} /\ Waiting(c, s) = {}
  BY DEF AccountsInit, SessionsFrom, Waiting, NoLogin, Holding
<1>2. Senders = {}
  BY DEF AccountsInit, Senders, NoLogin
<1>3. IsFiniteSet({}) /\ Cardinality({}) = 0 /\ Cardinality(Logins) \in Nat
  BY FS_EmptySet, FS_CardinalityType, AccountsAssumption
<1>4. ASSUME NEW c \in Codes, NEW s \in Sessions \union {0}
      PROVE  Bounded(c, s)
  <2>1. SessionsFrom(c, s) = {} /\ Waiting(c, s) = {}
    BY <1>1
  <2>2. Cardinality({}) + Cardinality({}) <= Cardinality(Logins)
    <3>1. PICK n : n = Cardinality(Logins)
      OBVIOUS
    <3>2. n \in Nat /\ 0 + 0 <= n
      BY <1>3, <3>1
    <3> QED
      BY <1>3, <3>1, <3>2
  <2> QED
    BY <1>3, <2>1, <2>2, Zenon DEF Bounded, Untouched
<1> QED
  BY <1>2, <1>3, <1>4 DEF AccountsInit, ReuseInv, NoLogin

LEMMA ReuseStep == AccountsInv /\ ReuseInv /\ [AccountsNext]_accountsVars => ReuseInv'
<1> SUFFICES ASSUME AccountsInv, ReuseInv, [AccountsNext]_accountsVars PROVE ReuseInv'
  OBVIOUS
<1> QED
  BY ReuseAtRest, SendingReuse, UsingReuse, OpeningReuse DEF AccountsNext

\* However requests overlap, fail and follow one another, a code of authSms.js
\* signs in, a refresh token is exchanged and a cooldown is passed no more often
\* than there are requests open at the same time.
THEOREM ReusesAreBounded == AccountsSpec => []ReuseIsBounded
<1>1. AccountsInv /\ ReuseInv => ReuseIsBounded
  <2> SUFFICES ASSUME AccountsInv, ReuseInv PROVE ReuseIsBounded
    OBVIOUS
  <2>1. ASSUME NEW c \in Codes, NEW s \in Sessions \union {0}
        PROVE  Cardinality(SessionsFrom(c, s)) <= Cardinality(Logins)
    <3>1. PICK W, S : W = Waiting(c, s) /\ S = SessionsFrom(c, s)
      OBVIOUS
    <3>2. Cardinality(W) \in Nat /\ Cardinality(Logins) \in Nat
      BY <3>1, LoginSets DEF Waiting
    <3>3. IsFiniteSet(S) /\ Cardinality(S) + Cardinality(W) <= Cardinality(Logins)
      BY <3>1 DEF ReuseInv, Bounded
    <3>4. Cardinality(S) \in Nat
      BY <3>3, FS_CardinalityType
    <3> QED
      BY <3>1, <3>2, <3>3, <3>4
  <2>2. cooling.sent <= Cardinality(Logins)
    <3>1. PICK T : T = Senders
      OBVIOUS
    <3>2. Cardinality(T) \in Nat /\ Cardinality(Logins) \in Nat
      BY <3>1, LoginSets DEF Senders
    <3> QED
      BY <3>1, <3>2 DEF ReuseInv, AccountsInv, AccountsTypeOK
  <2> QED
    BY <2>1, <2>2 DEF ReuseIsBounded
<1> QED
  BY <1>1, AccountsStart, AccountsStep, ReuseStart, ReuseStep, PTL DEF AccountsSpec

(***************************************************************************)
(* The upload limits of module Uploads hold for any number of users and    *)
(* addresses, any limits and any window.                                   *)
(*                                                                         *)
(* Lists of times are compared from their ends: cutting stale entries off  *)
(* the front of a list changes nothing there.                              *)
(***************************************************************************)
\* The entry j places before the last one.
Back(times, j) == times[Len(times) - j]

Places(times) == 0..(Len(times) - 1)

Sorted(times) == \A j, k \in Places(times) : j <= k => Back(times, k) <= Back(times, j)

(***************************************************************************)
(* The invariant.  The list of a user is the end of the log of its grants, *)
(* and what was cut is stale (Kept); one grant and the one UserMax places  *)
(* later are a window apart (Spread); the list of an address is never      *)
(* younger than the log, place by place (NoYounger); whoever was refused   *)
(* was told when some entry of its list leaves the window (Advised).       *)
(***************************************************************************)
Kept(u) ==
  /\ Len(byUser[u]) <= Len(granted[u]) /\ Len(byUser[u]) <= UserMax
  /\ \A j \in Places(byUser[u]) : Back(byUser[u], j) = Back(granted[u], j)
  /\ \A j \in Places(granted[u]) : j >= Len(byUser[u]) => ~IsActive(Back(granted[u], j))

Spread(u) ==
  \A j \in Places(granted[u]) :
    j >= UserMax => Back(granted[u], j) + Window <= Back(granted[u], j - UserMax)

NoYounger(u, a) ==
  /\ Len(byAddress[u][a]) <= Len(granted[u])
  /\ \A j \in Places(byAddress[u][a]) : Back(byAddress[u][a], j) <= Back(granted[u], j)

Advised(u) ==
  told[u] = Never \/ \E j \in Places(byUser[u]) : told[u] = Back(byUser[u], j) + Window

Logged(u) ==
  /\ \A j \in Places(granted[u]) : Back(granted[u], j) <= clock
  /\ Sorted(granted[u])

UploadInv ==
  /\ UploadTypeOK
  /\ \A u \in Uploaders :
       Logged(u) /\ Kept(u) /\ Spread(u) /\ Advised(u) /\ \A a \in Addresses : NoYounger(u, a)

(***************************************************************************)
(* Lists.                                                                  *)
(***************************************************************************)
LEMMA LeastIndex ==
  ASSUME NEW S \in SUBSET Nat, S # {}
  PROVE  \E x \in S : \A y \in S : x <= y
<1>1. PICK R : R = OpToRel(<, Nat)
  OBVIOUS
<1>2. IsWellFoundedOn(R, Nat)
  BY <1>1, NatLessThanWellFounded
<1>3. PICK x \in S : \A y \in S : <<y, x>> \notin R
  BY <1>2, WFMin
<1>4. ASSUME NEW y \in S
      PROVE  x <= y
  <2>1. ~(y < x)
    BY <1>1, <1>3 DEF OpToRel
  <2> QED
    BY <2>1
<1> QED
  BY <1>4

\* An entry that is looked up from the end.
LEMMA BackIs ==
  ASSUME NEW times \in Seq(Ticks), NEW j \in Places(times)
  PROVE  Back(times, j) \in Ticks /\ Len(times) - j \in DOMAIN times /\ j \in Nat
BY DEF Back, Places

\* The loop stops: at the first entry in the window, or behind the last one.
LEMMA IdxStops ==
  ASSUME NEW times \in Seq(Ticks)
  PROVE  /\ Idx(times) \in 1..(Len(times) + 1)
         /\ Idx(times) \in DOMAIN times => IsActive(times[Idx(times)])
         /\ \A j \in 1..(Idx(times) - 1) : ~IsActive(times[j])
<1>1. PICK S : S = {i \in 1..(Len(times) + 1) : i \in DOMAIN times => IsActive(times[i])}
  OBVIOUS
<1>2. S \in SUBSET Nat /\ Len(times) + 1 \in S
  BY <1>1
<1>3. PICK i \in S : \A k \in S : i <= k
  BY <1>2, LeastIndex
<1>4. \A j \in 1..(i - 1) : ~IsActive(times[j])
  BY <1>1, <1>3
<1> QED
  BY <1>1, <1>3, <1>4 DEF Idx

LEMMA Cutting ==
  ASSUME NEW times \in Seq(Ticks), NEW active, active = Active(times)
  PROVE  /\ active \in Seq(Ticks) /\ Len(active) <= Len(times)
         /\ \A j \in Places(active) : j \in Places(times) /\ Back(active, j) = Back(times, j)
         /\ \A j \in Places(times) : j >= Len(active) => ~IsActive(Back(times, j))
         /\ Len(active) > 0 => IsActive(Back(active, Len(active) - 1)) /\ Head(active) = Back(active, Len(active) - 1)
<1>1. PICK i : i = Idx(times)
  OBVIOUS
<1>2. /\ i \in 1..(Len(times) + 1)
      /\ i \in DOMAIN times => IsActive(times[i])
      /\ \A j \in 1..(i - 1) : ~IsActive(times[j])
  BY <1>1, IdxStops
<1>3. PICK n \in Nat : n = Len(times)
  OBVIOUS
<1>4. DOMAIN times = 1..n /\ i \in 1..(n + 1) /\ \A k \in 1..n : times[k] \in Ticks
  <2>1. DOMAIN times = 1..Len(times) /\ \A k \in 1..Len(times) : times[k] \in Ticks
    OBVIOUS
  <2>2. i \in 1..(n + 1)
    BY <1>2, <1>3
  <2> QED
    BY <1>3, <2>1, <2>2, Zenon
<1>5. active = SubSeq(times, i, n)
  BY <1>1, <1>3 DEF Active
<1>6. PICK m : m = n + 1 - i
  OBVIOUS
<1>7. active \in Seq(Ticks) /\ Len(active) = m /\ \A k \in 1..m : active[k] = times[i + k - 1]
  <2>1. \A k \in i..n : times[k] \in Ticks
    BY <1>4
  <2> QED
    BY <1>4, <1>5, <1>6, <2>1, SubSeqProperties
<1>8. m \in 0..n
  BY <1>4, <1>6
<1>9. ASSUME NEW j \in 0..(m - 1)
      PROVE  j \in 0..(n - 1) /\ active[m - j] = times[n - j]
  <2>1. m - j \in 1..m /\ i + (m - j) - 1 = n - j
    BY <1>4, <1>6, <1>8
  <2> QED
    BY <1>7, <1>8, <2>1
<1>10. ASSUME NEW j \in 0..(n - 1), j >= m
       PROVE  ~IsActive(times[n - j])
  <2>1. n - j \in 1..(i - 1)
    BY <1>4, <1>6, <1>10
  <2> QED
    BY <1>2, <2>1
<1>11. ASSUME m > 0
       PROVE  IsActive(active[m - (m - 1)]) /\ Head(active) = active[m - (m - 1)]
  <2>1. m - (m - 1) = 1 /\ 1 \in 1..m /\ i + 1 - 1 = i /\ i \in 1..n
    BY <1>4, <1>6, <1>8, <1>11
  <2>2. Head(active) = active[1]
    BY <1>7, <1>11
  <2> QED
    BY <1>2, <1>4, <1>7, <2>1, <2>2
<1> QED
  BY <1>3, <1>7, <1>8, <1>9, <1>10, <1>11 DEF Places, Back

\* What check() makes of a list: the entries in the window, and the clock.
LEMMA Hits ==
  ASSUME UploadTypeOK, NEW times \in Seq(Ticks), NEW hit, hit = Hit(times)
  PROVE  /\ hit \in Seq(Ticks) /\ Len(hit) = Len(Active(times)) + 1 /\ Len(hit) <= Len(times) + 1
         /\ Back(hit, 0) = clock
         /\ \A j \in Places(hit) : j # 0 => j - 1 \in Places(times) /\ Back(hit, j) = Back(times, j - 1)
<1>1. PICK active : active = Active(times)
  OBVIOUS
<1>2. /\ active \in Seq(Ticks) /\ Len(active) <= Len(times)
      /\ \A j \in Places(active) : j \in Places(times) /\ Back(active, j) = Back(times, j)
  BY <1>1, Cutting
<1>3. hit = Append(active, clock) /\ clock \in Ticks
  BY <1>1 DEF Hit, UploadTypeOK
<1>4. /\ hit \in Seq(Ticks) /\ Len(hit) = Len(active) + 1
      /\ Back(hit, 0) = clock
      /\ \A j \in Places(hit) : j # 0 => j - 1 \in Places(active) /\ Back(hit, j) = Back(active, j - 1)
  <2>1. PICK t \in Ticks : t = clock
    BY <1>3
  <2>2. hit = Append(active, t)
    BY <1>3, <2>1
  <2>3. active \in Seq(Ticks)
    BY <1>2
  <2>4. /\ hit \in Seq(Ticks) /\ Len(hit) = Len(active) + 1
        /\ Back(hit, 0) = t
        /\ \A j \in Places(hit) : j # 0 => j - 1 \in Places(active) /\ Back(hit, j) = Back(active, j - 1)
    BY <2>1, <2>2, <2>3 DEF Back, Places
  <2> QED
    BY <2>1, <2>4
<1>5. Len(active) \in Nat /\ Len(times) \in Nat /\ Len(hit) \in Nat
  BY <1>2, <1>4
<1> QED
  BY <1>1, <1>2, <1>4, <1>5

(***************************************************************************)
(* The clock ticks, and a user is refused.                                 *)
(***************************************************************************)
LEMMA StaysStale ==
  ASSUME UploadTypeOK, clock' = clock \/ clock' = clock + 1, NEW time \in Ticks, ~IsActive(time)
  PROVE  ~IsActive(time)'
BY UploadsAssumption DEF UploadTypeOK, IsActive, Ticks

LEMMA TickStep ==
  ASSUME UploadInv, ClockTicks
  PROVE  UploadInv'
<1>0. UNCHANGED <<byUser, byAddress, granted, told>> /\ clock' = clock + 1 /\ clock' \in Ticks
  BY UploadsAssumption DEF ClockTicks, UploadInv, UploadTypeOK, Ticks
<1>1. UploadTypeOK'
  BY <1>0 DEF UploadInv, UploadTypeOK
<1>2. ASSUME NEW u \in Uploaders
      PROVE  /\ Logged(u)' /\ Kept(u)' /\ Spread(u)' /\ Advised(u)'
             /\ \A a \in Addresses : NoYounger(u, a)'
  <2>1. Logged(u) /\ Kept(u) /\ Spread(u) /\ Advised(u) /\ \A a \in Addresses : NoYounger(u, a)
    BY DEF UploadInv
  <2>2. granted[u] \in Seq(Ticks)
    BY DEF UploadInv, UploadTypeOK
  <2>3. \A j \in Places(granted[u]) : Back(granted[u], j) \in Ticks
    BY <2>2, BackIs
  <2>4. Logged(u)'
    BY <1>0, <2>1, <2>3 DEF Logged, Ticks, UploadInv, UploadTypeOK
  <2>5. Kept(u)'
    BY <1>0, <2>1, <2>3, StaysStale DEF Kept, UploadInv
  <2> QED
    BY <1>0, <2>1, <2>4, <2>5 DEF Spread, Advised, NoYounger
<1> QED
  BY <1>1, <1>2 DEF UploadInv

LEMMA RefuseStep ==
  ASSUME UploadInv, NEW u \in Uploaders, Refuse(u)
  PROVE  UploadInv'
<1>0. /\ UNCHANGED <<clock, byUser, byAddress, granted>>
      /\ byUser[u] \in Seq(Ticks) /\ told \in [Uploaders -> 0..Never]
  BY DEF Refuse, UploadInv, UploadTypeOK
<1>1. PICK active : active = Active(byUser[u])
  OBVIOUS
<1>2. Len(active) >= UserMax /\ told' = [told EXCEPT ![u] = Head(active) + Window]
  BY <1>1, Cutting, <1>0, UploadsAssumption DEF Refuse, Allows
<1>3. /\ active \in Seq(Ticks)
      /\ Len(active) > 0 => Head(active) = Back(active, Len(active) - 1)
      /\ \A j \in Places(active) : j \in Places(byUser[u]) /\ Back(active, j) = Back(byUser[u], j)
  BY <1>0, <1>1, Cutting
<1>4. Len(active) > 0 /\ Len(active) - 1 \in Places(active)
  BY <1>2, <1>3, UploadsAssumption DEF Places
<1>5. PICK j \in Places(byUser[u]) : told'[u] = Back(byUser[u], j) + Window
  BY <1>0, <1>2, <1>3, <1>4
<1>6. Back(byUser[u], j) \in Ticks
  BY <1>0, BackIs
<1>7. told'[u] \in 0..Never
  BY <1>5, <1>6, UploadsAssumption DEF Ticks, Never
<1>8. told' \in [Uploaders -> 0..Never]
  BY <1>0, <1>2, <1>7
<1>9. \A v \in Uploaders : Advised(v)'
  BY <1>0, <1>2, <1>5 DEF Advised, UploadInv
<1> QED
  BY <1>0, <1>8, <1>9 DEF UploadInv, UploadTypeOK, Logged, Kept, Spread, NoYounger, Sorted, IsActive

(***************************************************************************)
(* An upload is granted.                                                   *)
(***************************************************************************)
LEMMA GrantStep ==
  ASSUME UploadInv, NEW u \in Uploaders, NEW a \in Addresses, Grant(u, a)
  PROVE  UploadInv'
<1>0. /\ clock' = clock /\ clock \in Ticks /\ clock \in Nat
      /\ granted \in [Uploaders -> Seq(Ticks)] /\ byUser \in [Uploaders -> Seq(Ticks)]
      /\ byAddress \in [Uploaders -> [Addresses -> Seq(Ticks)]] /\ told \in [Uploaders -> 0..Never]
  BY DEF Grant, UploadInv, UploadTypeOK, Ticks
<1>1. PICK log, user, address, grown, hit, other :
        /\ log = granted[u] /\ user = byUser[u] /\ address = byAddress[u][a]
        /\ grown = Append(log, clock) /\ hit = Hit(user) /\ other = Hit(address)
  OBVIOUS
<1>2. log \in Seq(Ticks) /\ user \in Seq(Ticks) /\ address \in Seq(Ticks)
  BY <1>0, <1>1
<1>3. PICK active : active = Active(user)
  OBVIOUS
<1>4. /\ active \in Seq(Ticks) /\ Len(active) <= Len(user) /\ Len(active) < UserMax
      /\ \A j \in Places(user) : j >= Len(active) => ~IsActive(Back(user, j))
  BY <1>1, <1>2, <1>3, Cutting DEF Grant, Allows
<1>5. /\ grown \in Seq(Ticks) /\ Len(grown) = Len(log) + 1
      /\ Back(grown, 0) = clock
      /\ \A j \in Places(grown) : j # 0 => j - 1 \in Places(log) /\ Back(grown, j) = Back(log, j - 1)
  BY <1>0, <1>1, <1>2 DEF Back, Places
<1>6. /\ hit \in Seq(Ticks) /\ Len(hit) = Len(active) + 1
      /\ Back(hit, 0) = clock
      /\ \A j \in Places(hit) : j # 0 => j - 1 \in Places(user) /\ Back(hit, j) = Back(user, j - 1)
  BY <1>1, <1>2, <1>3, Hits DEF UploadInv
<1>7. /\ other \in Seq(Ticks) /\ Len(other) <= Len(address) + 1
      /\ Back(other, 0) = clock
      /\ \A j \in Places(other) : j # 0 => j - 1 \in Places(address) /\ Back(other, j) = Back(address, j - 1)
  BY <1>1, <1>2, Hits DEF UploadInv
<1>8. /\ granted' = [granted EXCEPT ![u] = grown] /\ byUser' = [byUser EXCEPT ![u] = hit]
      /\ byAddress' = [byAddress EXCEPT ![u][a] = other] /\ told' = [told EXCEPT ![u] = Never]
  BY <1>1 DEF Grant
<1>9. UploadTypeOK'
  <2>1. Never \in 0..Never
    BY UploadsAssumption DEF Never
  <2>2. /\ granted' \in [Uploaders -> Seq(Ticks)] /\ byUser' \in [Uploaders -> Seq(Ticks)]
        /\ told' \in [Uploaders -> 0..Never]
    BY <1>0, <1>5, <1>6, <1>8, <2>1
  <2>3. PICK row : row = [byAddress[u] EXCEPT ![a] = other]
    OBVIOUS
  <2>4. row \in [Addresses -> Seq(Ticks)] /\ byAddress' = [byAddress EXCEPT ![u] = row]
    BY <1>0, <1>7, <1>8, <2>3
  <2>5. byAddress' \in [Uploaders -> [Addresses -> Seq(Ticks)]]
    BY <1>0, <2>4
  <2> QED
    BY <1>0, <2>2, <2>5 DEF UploadTypeOK
<1>10. /\ granted'[u] = grown /\ byUser'[u] = hit /\ byAddress'[u][a] = other /\ told'[u] = Never
       /\ \A v \in Uploaders \ {u} : /\ granted'[v] = granted[v] /\ byUser'[v] = byUser[v]
                                     /\ byAddress'[v] = byAddress[v] /\ told'[v] = told[v]
       /\ \A b \in Addresses \ {a} : byAddress'[u][b] = byAddress[u][b]
  BY <1>0, <1>8
<1>11. ASSUME NEW v \in Uploaders \ {u}
       PROVE  /\ Logged(v)' /\ Kept(v)' /\ Spread(v)' /\ Advised(v)'
              /\ \A b \in Addresses : NoYounger(v, b)'
  BY <1>0, <1>10 DEF UploadInv, Logged, Sorted, Kept, Spread, Advised, NoYounger, IsActive
<1>12. PICK n, m, k, d, e \in Nat :
         /\ n = Len(log) /\ m = Len(user) /\ k = Len(active) /\ d = Len(address) /\ e = Len(other)
         /\ Len(grown) = n + 1 /\ Len(hit) = k + 1 /\ k <= m /\ k < UserMax /\ e <= d + 1
  <2>1. /\ Len(log) \in Nat /\ Len(user) \in Nat /\ Len(active) \in Nat /\ Len(address) \in Nat
        /\ Len(other) \in Nat
    BY <1>2, <1>4, <1>7
  <2>2. Len(grown) = Len(log) + 1 /\ Len(hit) = Len(active) + 1
    BY <1>5, <1>6
  <2>3. Len(active) <= Len(user) /\ Len(active) < UserMax /\ Len(other) <= Len(address) + 1
    BY <1>4, <1>7
  <2> QED
    BY <2>1, <2>2, <2>3, Zenon
<1>13. /\ \A j \in 0..(n - 1) : Back(log, j) \in Nat /\ Back(log, j) <= clock
       /\ \A i, j \in 0..(n - 1) : i <= j => Back(log, j) <= Back(log, i)
  <2>1. Places(log) = 0..(n - 1)
    BY <1>12 DEF Places
  <2>2. \A j \in Places(log) : Back(log, j) \in Ticks
    BY <1>2, BackIs
  <2>3. Logged(u)
    BY DEF UploadInv
  <2>4. /\ \A j \in Places(log) : Back(log, j) <= clock
        /\ \A i, j \in Places(log) : i <= j => Back(log, j) <= Back(log, i)
    BY <1>1, <2>3, Zenon DEF Logged, Sorted
  <2>5. Ticks \subseteq Nat
    BY UploadsAssumption DEF Ticks
  <2> QED
    BY <2>1, <2>2, <2>4, <2>5, Zenon
<1>14. /\ m <= n
       /\ \A j \in 0..(m - 1) : Back(user, j) = Back(log, j)
       /\ \A j \in 0..(n - 1) : j >= k => ~IsActive(Back(log, j))
  <2>1. Kept(u)
    BY DEF UploadInv
  <2>2. /\ m <= n
        /\ \A j \in 0..(m - 1) : Back(user, j) = Back(log, j)
        /\ \A j \in 0..(n - 1) : j >= m => ~IsActive(Back(log, j))
    BY <1>1, <1>12, <2>1 DEF Kept, Places
  <2>3. \A j \in 0..(m - 1) : j >= k => ~IsActive(Back(user, j))
    BY <1>4, <1>12 DEF Places
  <2>4. ASSUME NEW j \in 0..(n - 1), j >= k
        PROVE  ~IsActive(Back(log, j))
    <3>1. CASE j >= m
      BY <2>2, <3>1
    <3>2. CASE j < m
      <4>1. j \in 0..(m - 1)
        BY <1>12, <3>2
      <4>2. ~IsActive(Back(user, j)) /\ Back(user, j) = Back(log, j)
        BY <2>2, <2>3, <2>4, <4>1
      <4> QED
        BY <4>2
    <3> QED
      BY <1>12, <3>1, <3>2
  <2> QED
    BY <2>2, <2>4
<1>15. \A j \in 1..n : Back(grown, j) = Back(log, j - 1)
  BY <1>5, <1>12 DEF Places
<1>16. Logged(u)'
  <2>1. \A j \in 0..n : Back(grown, j) <= clock
    BY <1>0, <1>5, <1>12, <1>13, <1>15
  <2>2. \A i, j \in 0..n : i <= j => Back(grown, j) <= Back(grown, i)
    <3> SUFFICES ASSUME NEW i \in 0..n, NEW j \in 0..n, i <= j
                 PROVE  Back(grown, j) <= Back(grown, i)
      OBVIOUS
    <3>1. CASE i = 0
      BY <1>5, <2>1, <3>1
    <3>2. CASE i # 0
      <4>1. i - 1 \in 0..(n - 1) /\ j - 1 \in 0..(n - 1) /\ i - 1 <= j - 1 /\ i \in 1..n /\ j \in 1..n
        BY <1>12, <3>2
      <4>2. Back(log, j - 1) <= Back(log, i - 1)
        BY <1>13, <4>1
      <4> QED
        BY <1>15, <4>1, <4>2
    <3> QED
      BY <3>1, <3>2
  <2> QED
    BY <1>0, <1>10, <1>12, <2>1, <2>2 DEF Logged, Sorted, Places
<1>17. Kept(u)'
  <2>1. \A j \in 1..k : Back(hit, j) = Back(user, j - 1) /\ j - 1 \in 0..(m - 1)
    BY <1>6, <1>12 DEF Places
  <2>2. \A j \in 0..k : Back(hit, j) = Back(grown, j)
    <3> SUFFICES ASSUME NEW j \in 0..k PROVE Back(hit, j) = Back(grown, j)
      OBVIOUS
    <3>1. CASE j = 0
      BY <1>5, <1>6, <3>1
    <3>2. CASE j \in 1..k
      <4>1. j - 1 \in 0..(m - 1) /\ j \in 1..n
        BY <1>12, <1>14, <3>2
      <4>2. Back(hit, j) = Back(user, j - 1) /\ Back(grown, j) = Back(log, j - 1)
        BY <1>15, <2>1, <3>2, <4>1
      <4>3. Back(user, j - 1) = Back(log, j - 1)
        BY <1>14, <4>1
      <4> QED
        BY <4>2, <4>3
    <3> QED
      BY <1>12, <3>1, <3>2
  <2>3. \A j \in 0..n : j >= k + 1 => ~IsActive(Back(grown, j))'
    BY <1>0, <1>12, <1>14, <1>15 DEF IsActive
  <2>4. k + 1 <= n + 1 /\ k + 1 <= UserMax
    BY <1>12, <1>14, UploadsAssumption
  <2> QED
    BY <1>10, <1>12, <2>2, <2>3, <2>4 DEF Kept, Places
<1>18. Spread(u)'
  <2>1. \A j \in 0..(n - 1) : j >= UserMax => Back(log, j) + Window <= Back(log, j - UserMax)
    BY <1>1, <1>12 DEF UploadInv, Spread, Places
  <2>2. ASSUME NEW j \in 0..n, j >= UserMax
        PROVE  Back(grown, j) + Window <= Back(grown, j - UserMax)
    <3>1. j \in 1..n /\ j - 1 \in 0..(n - 1) /\ j - 1 >= k
      BY <1>12, <2>2, UploadsAssumption
    <3>2. CASE j = UserMax
      <4>1. ~IsActive(Back(log, j - 1)) /\ Back(log, j - 1) \in Nat
        BY <1>13, <1>14, <3>1
      <4>2. Back(log, j - 1) + Window <= clock
        BY <1>0, <4>1, UploadsAssumption DEF IsActive
      <4> QED
        BY <1>5, <1>15, <3>1, <3>2, <4>2, UploadsAssumption
    <3>3. CASE j > UserMax
      <4>1. j - UserMax \in 1..n /\ j - 1 >= UserMax /\ (j - 1) - UserMax = (j - UserMax) - 1
        BY <2>2, <3>3, UploadsAssumption, <1>12
      <4>2. Back(log, j - 1) + Window <= Back(log, (j - 1) - UserMax)
        BY <2>1, <3>1, <4>1
      <4> QED
        BY <1>15, <3>1, <4>1, <4>2
    <3> QED
      BY <2>2, <3>2, <3>3, UploadsAssumption
  <2> QED
    BY <1>10, <1>12, <2>2 DEF Spread, Places
<1>19. NoYounger(u, a)'
  <2>1. d <= n /\ \A j \in 0..(d - 1) : Back(address, j) <= Back(log, j)
    BY <1>1, <1>12 DEF UploadInv, NoYounger, Places
  <2>2. \A j \in 1..(e - 1) : Back(other, j) = Back(address, j - 1) /\ j - 1 \in 0..(d - 1)
    BY <1>7, <1>12 DEF Places
  <2>3. \A j \in 0..(e - 1) : Back(other, j) <= Back(grown, j)
    <3> SUFFICES ASSUME NEW j \in 0..(e - 1) PROVE Back(other, j) <= Back(grown, j)
      OBVIOUS
    <3>1. CASE j = 0
      BY <1>0, <1>5, <1>7, <3>1
    <3>2. CASE j # 0
      <4>1. j \in 1..(e - 1) /\ j \in 1..n
        BY <1>12, <2>1, <3>2
      <4>2. Back(other, j) = Back(address, j - 1) /\ Back(grown, j) = Back(log, j - 1)
        BY <1>15, <2>2, <4>1
      <4>3. Back(address, j - 1) <= Back(log, j - 1)
        BY <2>1, <2>2, <4>1
      <4> QED
        BY <4>2, <4>3
    <3> QED
      BY <3>1, <3>2
  <2> QED
    BY <1>10, <1>12, <2>1, <2>3 DEF NoYounger, Places
<1>20. ASSUME NEW b \in Addresses \ {a}
       PROVE  NoYounger(u, b)'
  <2>1. PICK same : same = byAddress[u][b]
    OBVIOUS
  <2>2. same \in Seq(Ticks)
    BY <1>0, <2>1
  <2>3. PICK l \in Nat : l = Len(same)
    BY <2>2
  <2>4. l <= n /\ \A j \in 0..(l - 1) : Back(same, j) <= Back(log, j) /\ Back(same, j) \in Nat
    BY <1>1, <1>12, <2>1, <2>2, <2>3, BackIs DEF UploadInv, NoYounger, Places, Ticks
  <2>5. ASSUME NEW j \in 0..(l - 1)
        PROVE  Back(same, j) <= Back(grown, j)
    <3>1. CASE j = 0
      <4>1. l <= n
        BY <2>4
      <4>2. j \in 0..(n - 1)
        BY <3>1, <4>1
      <4>3. Back(log, j) <= clock /\ Back(log, j) \in Nat
        BY <1>13, <4>2
      <4>4. Back(same, j) <= Back(log, j) /\ Back(same, j) \in Nat
        BY <2>4
      <4>5. Back(same, j) <= clock
        BY <1>0, <4>3, <4>4
      <4>6. Back(grown, j) = clock
        BY <1>5, <3>1
      <4> QED
        BY <4>5, <4>6
    <3>2. CASE j \in 1..(l - 1)
      <4>1. j \in 0..(n - 1) /\ j - 1 \in 0..(n - 1) /\ j \in 1..n
        <5>1. l <= n
          BY <2>4
        <5> QED
          BY <5>1, <3>2
      <4>2. Back(log, j) <= Back(log, j - 1) /\ Back(log, j) \in Nat /\ Back(log, j - 1) \in Nat
        BY <1>13, <4>1
      <4>3. Back(same, j) <= Back(log, j) /\ Back(same, j) \in Nat
        BY <2>4
      <4> QED
        BY <1>15, <4>1, <4>2, <4>3
    <3> QED
      BY <3>1, <3>2, <2>3
  <2> QED
    <3>1. granted'[u] = grown /\ byAddress'[u][b] = same
      BY <1>10, <2>1
    <3>2. Len(same) <= Len(grown)
      <4>1. l <= n
        BY <2>4
      <4>2. l = Len(same) /\ Len(grown) = n + 1
        BY <1>12, <2>3
      <4> QED
        BY <4>1, <4>2
    <3>3. Places(same) = 0..(l - 1)
      BY <2>3 DEF Places
    <3>4. \A j \in Places(same) : Back(same, j) <= Back(grown, j)
      BY <2>5, <3>3
    <3> QED
      BY <3>1, <3>2, <3>4 DEF NoYounger
<1>21. Advised(u)'
  BY <1>10 DEF Advised, Never
<1> QED
  BY <1>9, <1>11, <1>16, <1>17, <1>18, <1>19, <1>20, <1>21 DEF UploadInv

LEMMA UploadStart == UploadInit => UploadInv
<1> SUFFICES ASSUME UploadInit PROVE UploadInv
  OBVIOUS
<1>1. <<>> \in Seq(Ticks) /\ Len(<<>>) = 0 /\ 0 \in Ticks /\ Never \in 0..Never
  BY UploadsAssumption DEF Ticks, Never
<1>2. UploadTypeOK
  BY <1>1 DEF UploadInit, UploadTypeOK
<1>3. Places(<<>>) = {}
  BY <1>1 DEF Places
<1>4. ASSUME NEW u \in Uploaders
      PROVE  Logged(u) /\ Kept(u) /\ Spread(u) /\ Advised(u) /\ \A a \in Addresses : NoYounger(u, a)
  <2>1. granted[u] = <<>> /\ byUser[u] = <<>> /\ told[u] = Never /\ \A a \in Addresses : byAddress[u][a] = <<>>
    BY DEF UploadInit
  <2>2. 0 <= UserMax
    BY UploadsAssumption
  <2> QED
    BY <1>1, <1>3, <2>1, <2>2 DEF Logged, Sorted, Kept, Spread, Advised, NoYounger
<1> QED
  BY <1>2, <1>4 DEF UploadInv

LEMMA UploadStep == UploadInv /\ [UploadNext]_uploadVars => UploadInv'
<1> SUFFICES ASSUME UploadInv, [UploadNext]_uploadVars PROVE UploadInv'
  OBVIOUS
<1>1. CASE UNCHANGED uploadVars
  BY <1>1 DEF uploadVars, UploadInv, UploadTypeOK, Logged, Sorted, Kept, Spread, Advised, NoYounger, IsActive
<1> QED
  BY <1>1, TickStep, RefuseStep, GrantStep DEF UploadNext

\* In every behaviour the clock, the lists of both windows and the log of the
\* grants have their types.
THEOREM UploadTypes == UploadSpec => []UploadTypeOK
<1>1. UploadInv => UploadTypeOK
  BY DEF UploadInv
<1> QED
  BY <1>1, UploadStart, UploadStep, PTL DEF UploadSpec

\* Wherever a window is laid, a user was granted no more uploads in it than the
\* limit (rateLimiter.js): two grants that are UserMax places apart in the log
\* are a window apart in time.
THEOREM GrantsAreLimited == UploadSpec => []WindowHolds
<1>1. UploadInv => WindowHolds
  <2> SUFFICES ASSUME UploadInv, NEW u \in Uploaders, NEW s \in Ticks
               PROVE  Cardinality(GrantedFrom(u, s)) <= UserMax
    BY DEF WindowHolds
  <2>1. PICK log, G : log = granted[u] /\ G = GrantedFrom(u, s)
    OBVIOUS
  <2>2. log \in Seq(Ticks)
    BY <2>1 DEF UploadInv, UploadTypeOK
  <2>3. PICK n \in Nat : n = Len(log)
    BY <2>2
  <2>4. /\ \A i \in 1..n : log[i] \in Nat
        /\ \A i \in G : i \in 1..n /\ s <= log[i] /\ log[i] < s + Window
    <3>1. DOMAIN log = 1..n /\ \A i \in 1..n : log[i] \in Ticks
      BY <2>2, <2>3
    <3>2. Ticks \subseteq Nat
      BY UploadsAssumption DEF Ticks
    <3>3. \A i \in 1..n : log[i] \in Nat
      BY <3>1, <3>2
    <3>4. \A i \in G : i \in DOMAIN log /\ s <= log[i] /\ log[i] < s + Window
      BY <2>1 DEF GrantedFrom
    <3> QED
      BY <3>1, <3>3, <3>4
  <2>5. \A i, j \in 1..n : i <= j => log[i] <= log[j]
    <3> SUFFICES ASSUME NEW i \in 1..n, NEW j \in 1..n, i <= j PROVE log[i] <= log[j]
      OBVIOUS
    <3>1. n - j \in 0..(n - 1) /\ n - i \in 0..(n - 1) /\ n - j <= n - i
      OBVIOUS
    <3>2. log[n - (n - i)] <= log[n - (n - j)]
      BY <2>1, <2>3, <3>1 DEF UploadInv, Logged, Sorted, Places, Back
    <3>3. n - (n - i) = i /\ n - (n - j) = j
      OBVIOUS
    <3> QED
      BY <3>2, <3>3
  <2>6. \A i \in 1..n : i + UserMax <= n => log[i] + Window <= log[i + UserMax]
    <3> SUFFICES ASSUME NEW i \in 1..n, i + UserMax <= n PROVE log[i] + Window <= log[i + UserMax]
      OBVIOUS
    <3>1. n - i \in 0..(n - 1) /\ n - i >= UserMax
      BY UploadsAssumption
    <3>2. log[n - (n - i)] + Window <= log[n - ((n - i) - UserMax)]
      BY <2>1, <2>3, <3>1 DEF UploadInv, Spread, Places, Back
    <3>3. n - (n - i) = i /\ n - ((n - i) - UserMax) = i + UserMax
      BY UploadsAssumption
    <3> QED
      BY <3>2, <3>3
  <2>7. CASE G = {}
    BY <2>1, <2>7, FS_EmptySet, UploadsAssumption
  <2>8. CASE G # {}
    <3>1. G \in SUBSET Nat
      BY <2>4
    <3>2. PICK i \in G : \A j \in G : i <= j
      BY <2>8, <3>1, LeastIndex
    <3>3. i \in 1..n /\ s <= log[i] /\ s \in Nat
      BY <2>4 DEF Ticks
    <3>4. ASSUME NEW j \in G
          PROVE  j \in i..(i + UserMax - 1)
      <4>1. j \in 1..n /\ log[j] < s + Window /\ i <= j
        BY <2>4, <3>2
      <4>2. ASSUME j >= i + UserMax
            PROVE  FALSE
        <5>1. i + UserMax \in 1..n
          BY <3>3, <4>1, <4>2, UploadsAssumption
        <5>2. log[i] + Window <= log[i + UserMax] /\ log[i + UserMax] <= log[j]
          BY <2>5, <2>6, <3>3, <4>1, <4>2, <5>1
        <5>3. log[i] \in Nat /\ log[j] \in Nat /\ log[i + UserMax] \in Nat
          BY <2>4, <3>3, <4>1, <5>1
        <5> QED
          BY <3>3, <4>1, <5>2, <5>3, UploadsAssumption
      <4> QED
        BY <3>3, <4>1, <4>2, UploadsAssumption
    <3>5. i \in Int /\ i + UserMax - 1 \in Int /\ i <= i + UserMax - 1
      BY <3>3, UploadsAssumption
    <3>6. PICK W : W = i..(i + UserMax - 1)
      OBVIOUS
    <3>7. IsFiniteSet(W) /\ Cardinality(W) = (i + UserMax - 1) - i + 1
      BY <3>5, <3>6, FS_Interval
    <3>8. Cardinality(W) = UserMax
      BY <3>3, <3>7, UploadsAssumption
    <3>9. Cardinality(G) <= Cardinality(W)
      BY <3>4, <3>6, <3>7, FS_Subset
    <3> QED
      BY <2>1, <3>8, <3>9
  <2> QED
    BY <2>7, <2>8
<1> QED
  BY <1>1, UploadStart, UploadStep, PTL DEF UploadSpec

\* Whoever comes back when retryAfterSeconds of a refusal are over, and was
\* granted nothing in between, is let through.
THEOREM WaitingIsEnough == UploadSpec => []RetryIsEnough
<1>1. UploadInv => RetryIsEnough
  <2> SUFFICES ASSUME UploadInv, NEW u \in Uploaders, told[u] <= clock
               PROVE  Allows(byUser[u], UserMax)
    BY DEF RetryIsEnough
  <2>1. PICK log, user, active : log = granted[u] /\ user = byUser[u] /\ active = Active(user)
    OBVIOUS
  <2>2. log \in Seq(Ticks) /\ user \in Seq(Ticks) /\ clock \in Nat /\ clock < Never
    BY <2>1, UploadsAssumption DEF UploadInv, UploadTypeOK, Ticks, Never
  <2>3. PICK j \in Places(user) : told[u] = Back(user, j) + Window
    BY <2>1, <2>2, UploadsAssumption DEF UploadInv, Advised, Never
  <2>4. /\ active \in Seq(Ticks) /\ Len(active) <= Len(user)
        /\ \A i \in Places(active) : i \in Places(user) /\ Back(active, i) = Back(user, i)
        /\ Len(active) > 0 => IsActive(Back(active, Len(active) - 1))
    BY <2>1, <2>2, Cutting
  <2>5. PICK n, m, k \in Nat : n = Len(log) /\ m = Len(user) /\ k = Len(active)
    BY <2>2, <2>4
  <2>6. m <= n /\ m <= UserMax /\ \A i \in 0..(m - 1) : Back(user, i) = Back(log, i)
    BY <2>1, <2>5 DEF UploadInv, Kept, Places
  <2>7. ASSUME k > j
        PROVE  FALSE
    <3>1. k - 1 \in 0..(k - 1) /\ k - 1 \in 0..(m - 1) /\ j \in 0..(m - 1) /\ j <= k - 1
      BY <2>3, <2>4, <2>5, <2>7 DEF Places
    <3>2. IsActive(Back(user, k - 1))
      BY <2>4, <2>5, <2>7, <3>1 DEF Places
    <3>3. Back(log, k - 1) <= Back(log, j)
      BY <2>1, <2>5, <2>6, <3>1 DEF UploadInv, Logged, Sorted, Places
    <3>4. Back(user, k - 1) <= Back(user, j)
      BY <2>6, <3>1, <3>3
    <3>5. Back(user, k - 1) \in Nat /\ Back(user, j) \in Nat
      BY <2>2, <2>5, <3>1, BackIs DEF Places, Ticks
    <3> QED
      BY <2>2, <2>3, <3>2, <3>4, <3>5, UploadsAssumption DEF IsActive
  <2>8. k < UserMax
    BY <2>3, <2>5, <2>6, <2>7, UploadsAssumption DEF Places
  <2> QED
    BY <2>1, <2>5, <2>8 DEF Allows
<1> QED
  BY <1>1, UploadStart, UploadStep, PTL DEF UploadSpec

\* The second limiter of enforceRateLimit (routes/media.js), by address and
\* user, refuses nobody the first one lets through.
THEOREM SecondWindowNeverRefuses == UploadSpec => []SecondWindowIsIdle
<1>1. UploadInv => SecondWindowIsIdle
  <2> SUFFICES ASSUME UploadInv, NEW u \in Uploaders, NEW a \in Addresses, Allows(byUser[u], UserMax)
               PROVE  Allows(byAddress[u][a], AddressMax)
    BY DEF SecondWindowIsIdle
  <2>1. PICK log, user, address, active, other :
          /\ log = granted[u] /\ user = byUser[u] /\ address = byAddress[u][a]
          /\ active = Active(user) /\ other = Active(address)
    OBVIOUS
  <2>2. log \in Seq(Ticks) /\ user \in Seq(Ticks) /\ address \in Seq(Ticks) /\ clock \in Nat
    BY <2>1 DEF UploadInv, UploadTypeOK, Ticks
  <2>3. /\ active \in Seq(Ticks) /\ Len(active) <= Len(user)
        /\ \A i \in Places(user) : i >= Len(active) => ~IsActive(Back(user, i))
    BY <2>1, <2>2, Cutting
  <2>4. /\ other \in Seq(Ticks) /\ Len(other) <= Len(address)
        /\ \A i \in Places(other) : i \in Places(address) /\ Back(other, i) = Back(address, i)
        /\ Len(other) > 0 => IsActive(Back(other, Len(other) - 1))
    BY <2>1, <2>2, Cutting
  <2>5. PICK n, m, k, d, e \in Nat :
          n = Len(log) /\ m = Len(user) /\ k = Len(active) /\ d = Len(address) /\ e = Len(other)
    BY <2>2, <2>3, <2>4
  <2>6. /\ m <= n /\ \A i \in 0..(m - 1) : Back(user, i) = Back(log, i)
        /\ \A i \in 0..(n - 1) : i >= m => ~IsActive(Back(log, i))
    BY <2>1, <2>5 DEF UploadInv, Kept, Places
  <2>7. d <= n /\ \A i \in 0..(d - 1) : Back(address, i) <= Back(log, i)
    BY <2>1, <2>5 DEF UploadInv, NoYounger, Places
  <2>8. ASSUME e > k
        PROVE  FALSE
    <3>1. e - 1 \in 0..(d - 1) /\ e - 1 \in 0..(n - 1) /\ e - 1 >= k /\ e - 1 \in 0..(e - 1)
      BY <2>4, <2>5, <2>7, <2>8
    <3>2. IsActive(Back(address, e - 1))
      BY <2>4, <2>5, <2>8, <3>1 DEF Places
    <3>3. Back(address, e - 1) \in Nat /\ Back(log, e - 1) \in Nat
      BY <2>2, <2>5, <3>1, BackIs DEF Places, Ticks
    <3>4. IsActive(Back(log, e - 1))
      BY <2>2, <2>7, <3>1, <3>2, <3>3, UploadsAssumption DEF IsActive
    <3>5. CASE e - 1 < m
      BY <2>3, <2>5, <2>6, <3>1, <3>4, <3>5 DEF Places
    <3>6. CASE e - 1 >= m
      BY <2>6, <3>1, <3>4, <3>6
    <3> QED
      BY <2>5, <3>1, <3>5, <3>6
  <2>9. k < UserMax
    BY <2>1, <2>5 DEF Allows
  <2>10. e < AddressMax
    BY <2>5, <2>8, <2>9, UploadsAssumption
  <2> QED
    BY <2>1, <2>5, <2>10 DEF Allows
<1> QED
  BY <1>1, UploadStart, UploadStep, PTL DEF UploadSpec
=============================================================================
