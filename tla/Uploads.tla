------------------------------- MODULE Uploads -------------------------------
(***************************************************************************)
(* How often a user may ask for an upload: the sliding window of           *)
(* server/src/utils/rateLimiter.js and its two uses, one after the other,  *)
(* in enforceRateLimit of routes/media.js, first by user and then by       *)
(* address and user.  The windows are in the memory of the server: all     *)
(* this is about one run of it.                                            *)
(***************************************************************************)
EXTENDS Naturals, Sequences, FiniteSets

CONSTANTS Uploaders, Addresses,
          UserMax, AddressMax, \* 30 and 60; 10 and 10 for kyc
          Window,              \* 60 seconds
          LastTick             \* a bound on the clock

ASSUME UploadsAssumption ==
  /\ UserMax \in Nat \ {0} /\ AddressMax \in Nat
  /\ Window \in Nat \ {0} /\ LastTick \in Nat
  /\ AddressMax >= UserMax

VARIABLES
  clock,
  byUser,     \* hits of userLimiter: when the last requests of a user were let through
  byAddress,  \* hits of ipUserLimiter
  granted,    \* when uploads of a user were granted, all of them
  told        \* when a user who was refused was told to come back, until the next grant

uploadVars == <<clock, byUser, byAddress, granted, told>>

Ticks == 0..LastTick

Never == LastTick + Window + 1

\* Mutant of IsActive: an entry counts on the last tick of its window, too.
IsActive_Late(time) == time + Window >= clock

\* timestamps[idx] > windowStart
IsActive(time) == time + Window > clock

\* Where the loop over the entries stops.
Idx(timestamps) ==
  CHOOSE i \in 1..(Len(timestamps) + 1) :
    /\ i \in DOMAIN timestamps => IsActive(timestamps[i])
    /\ \A j \in 1..(i - 1) : ~IsActive(timestamps[j])

\* timestamps.slice(idx)
Active(timestamps) == SubSeq(timestamps, Idx(timestamps), Len(timestamps))

\* Mutant of Allows: the window takes one more.
Allows_OneMore(timestamps, max) == Len(Active(timestamps)) <= max

Allows(timestamps, max) == Len(Active(timestamps)) < max

\* check() of an allowed key: the entry list is cut and the time appended.
Hit(timestamps) == Append(Active(timestamps), clock)

\* Both windows have room: the request goes on to the signed URL.
Grant(u, a) ==
  /\ Allows(byUser[u], UserMax)
  /\ Allows(byAddress[u][a], AddressMax)
  /\ byUser' = [byUser EXCEPT ![u] = Hit(@)]
  /\ byAddress' = [byAddress EXCEPT ![u][a] = Hit(@)]
  /\ granted' = [granted EXCEPT ![u] = Append(@, clock)]
  /\ told' = [told EXCEPT ![u] = Never]
  /\ UNCHANGED clock

\* Mutant of Refuse: the second window is asked first and has counted.
Refuse_Counted(u) ==
  /\ ~Allows(byUser[u], UserMax)
  /\ byAddress' = [byAddress EXCEPT ![u] = [a \in Addresses |-> Hit(@[a])]]
  /\ told' = [told EXCEPT ![u] = Head(Active(byUser[u])) + Window]
  /\ UNCHANGED <<clock, byUser, granted>>

\* The first window is full: nothing is recorded, and the user is told when its
\* oldest entry leaves the window.  (The second window does not refuse anybody:
\* SecondWindowIsIdle.)
Refuse(u) ==
  /\ ~Allows(byUser[u], UserMax)
  /\ told' = [told EXCEPT ![u] = Head(Active(byUser[u])) + Window]
  /\ UNCHANGED <<clock, byUser, byAddress, granted>>

ClockTicks ==
  /\ clock < LastTick
  /\ clock' = clock + 1
  /\ UNCHANGED <<byUser, byAddress, granted, told>>

UploadInit ==
  /\ clock = 0
  /\ byUser = [u \in Uploaders |-> <<>>]
  /\ byAddress = [u \in Uploaders |-> [a \in Addresses |-> <<>>]]
  /\ granted = [u \in Uploaders |-> <<>>]
  /\ told = [u \in Uploaders |-> Never]

UploadNext ==
  \/ \E u \in Uploaders : Refuse(u) \/ \E a \in Addresses : Grant(u, a)
  \/ ClockTicks

UploadSpec == UploadInit /\ [][UploadNext]_uploadVars

(***************************************************************************)
(* Properties.                                                             *)
(***************************************************************************)
\* Every variable has its type.
UploadTypeOK ==
  /\ clock \in Ticks
  /\ byUser \in [Uploaders -> Seq(Ticks)]
  /\ byAddress \in [Uploaders -> [Addresses -> Seq(Ticks)]]
  /\ granted \in [Uploaders -> Seq(Ticks)]
  /\ told \in [Uploaders -> 0..Never]

GrantedFrom(u, s) == {i \in DOMAIN granted[u] : s <= granted[u][i] /\ granted[u][i] < s + Window}

\* Wherever a window is laid, a user was granted no more uploads in it than the
\* limit, although entries are dropped when they leave the window of the moment
\* and one user comes from several addresses.
WindowHolds == \A u \in Uploaders, s \in Ticks : Cardinality(GrantedFrom(u, s)) <= UserMax

\* Whoever comes back when retryAfterSeconds are over is let through.
RetryIsEnough == \A u \in Uploaders : told[u] <= clock => Allows(byUser[u], UserMax)

\* The window by address and user never refuses what the one by user lets
\* through, for its limit is not lower and its key counts a part of the same
\* requests.
SecondWindowIsIdle ==
  \A u \in Uploaders, a \in Addresses :
    Allows(byUser[u], UserMax) => Allows(byAddress[u][a], AddressMax)
=============================================================================
