------------------------------ MODULE MatchBoard ------------------------------
(***************************************************************************)
(* What the matchmaking promises, as if start_match, try_match and the     *)
(* worker did their work in one step each: requests are put on a board,    *)
(* one per profile at a time, taken down for good, or matched with one     *)
(* that is up.  The first request of a match may have been taken down      *)
(* already: try_match reads its own request without a lock.                *)
(***************************************************************************)
CONSTANTS MatchIds, Owner, Compatible, NoThread, ClientThread

VARIABLES
  posted,   \* the requests that were ever put on the board
  waiting,  \* the requests that are up
  matches   \* the thread of each match, a pair of requests

boardVars == <<posted, waiting, matches>>

Fits(a, b) == {a, b} \in Compatible /\ Owner[a] # Owner[b]

\* Requests leave the board at any time, and never come back to it.
Shrinks(added, removed) == waiting' \subseteq (waiting \union added) \ removed

AloneOf(r) == \A q \in waiting' \ {r} : Owner[q] # Owner[r]

BoardInit == posted = {} /\ waiting = {} /\ matches = [m \in {} |-> NoThread]

\* A request is put up once, and all others of its owner are taken down, with
\* some, perhaps, that nobody kept fresh.
Post(r) ==
  /\ r \notin posted /\ posted' = posted \union {r}
  /\ r \in waiting' /\ Shrinks({r}, {}) /\ AloneOf(r)
  /\ UNCHANGED matches

TakeDown == waiting' \subseteq waiting /\ UNCHANGED <<posted, matches>>

\* A request finds one that fits and is up; a new one has the others of its
\* owner taken down.  Nobody is the first, or the second, of two matches.
Match(a, b) ==
  /\ b \in waiting /\ Fits(a, b)
  /\ \A m \in DOMAIN matches : m[1] # a /\ m[2] # b
  /\ matches' = [m \in DOMAIN matches \union {<<a, b>>} |->
                   IF m \in DOMAIN matches THEN matches[m] ELSE NoThread]
  /\ posted' = posted \union {a}
  /\ Shrinks({}, {a, b}) /\ (a \notin posted => AloneOf(a))

\* A match gets the thread of its two members, or one that a client names.
Attach(m) ==
  /\ \E thread \in {ClientThread, {Owner[m[1]], Owner[m[2]]}} :
       matches' = [matches EXCEPT ![m] = thread]
  /\ UNCHANGED <<posted, waiting>>

BoardNext ==
  \/ TakeDown
  \/ \E r \in posted' : Post(r) \/ \E b \in waiting : Match(r, b)
  \/ \E m \in DOMAIN matches : Attach(m)

BoardSpec == BoardInit /\ [][BoardNext]_boardVars
=============================================================================
