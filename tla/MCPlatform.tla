------------------------------ MODULE MCPlatform ------------------------------
(***************************************************************************)
(* Small instances for TLC of the components around the order service:     *)
(* hosting, the plaza, page-wise reading, sign-in, upload limits and the   *)
(* messages of a thread.  They share no row and no memory, so they are     *)
(* checked one beside the other and not interleaved: in every behavior one *)
(* of them runs, and the others stay in their initial states.              *)
(***************************************************************************)
EXTENDS Hosting, Plaza, Feeds, Accounts, Uploads, Messages, TLC

Symmetry == Permutations(Tasks) \union Permutations(ExperienceIds)

PlatformInit == HostInit /\ PlazaInit /\ FeedInit /\ AccountsInit /\ UploadInit /\ MsgInit

(***************************************************************************)
(* A bound on hosting: while the certification moves, one experience may   *)
(* be created, edited and read to be copied; that a status is written, or  *)
(* a second experience exists, is explored where the certification rests   *)
(* approved and its cached status is that one, or forgotten.               *)
(***************************************************************************)
CertQuiet ==
  /\ cert = [status |-> "approved", docs |-> "complete"]
  /\ cache \in {[status |-> "approved", live |-> TRUE], [status |-> "unknown", live |-> FALSE]}
  /\ \A x \in ExperienceIds : exp[x].badge \in {"unset", "approved"}
  /\ \A t \in Tasks : task[t].pc \in {"idle", "open", "write"}

Offered ==
  \/ \E x \in ExperienceIds : exp[x].status \notin {"absent", "draft"}
  \/ \E t \in Tasks : task[t].pc = "write" /\ task[t].op # "duplicate"
  \/ Cardinality({x \in ExperienceIds : exp[x].status # "absent"}) > 1

PlatformNext ==
  \/ /\ PlazaInit /\ FeedInit /\ AccountsInit /\ UploadInit /\ MsgInit
     /\ HostNext /\ (Offered' => CertQuiet')
     /\ UNCHANGED <<plazaVars, feedVars, accountsVars, uploadVars, msgVars>>
  \/ /\ HostInit /\ FeedInit /\ AccountsInit /\ UploadInit /\ MsgInit
     /\ PlazaNext
     /\ UNCHANGED <<hostVars, feedVars, accountsVars, uploadVars, msgVars>>
  \/ /\ HostInit /\ PlazaInit /\ AccountsInit /\ UploadInit /\ MsgInit
     /\ FeedNext
     /\ UNCHANGED <<hostVars, plazaVars, accountsVars, uploadVars, msgVars>>
  \/ /\ HostInit /\ PlazaInit /\ FeedInit /\ UploadInit /\ MsgInit
     /\ AccountsNext
     /\ UNCHANGED <<hostVars, plazaVars, feedVars, uploadVars, msgVars>>
  \/ /\ HostInit /\ PlazaInit /\ FeedInit /\ AccountsInit /\ MsgInit
     /\ UploadNext
     /\ UNCHANGED <<hostVars, plazaVars, feedVars, accountsVars, msgVars>>
  \/ /\ HostInit /\ PlazaInit /\ FeedInit /\ AccountsInit /\ UploadInit
     /\ MsgNext
     /\ UNCHANGED <<hostVars, plazaVars, feedVars, accountsVars, uploadVars>>

PlatformSpec ==
  PlatformInit /\ [][PlatformNext]_<<hostVars, plazaVars, feedVars, accountsVars, uploadVars, msgVars>>

\* Every variable has its type, the counters of the post, which deletions take
\* down, among them.
PlatformTypeOK ==
  /\ HostTypeOK /\ PlazaTypeOK /\ FeedTypeOK /\ AccountsTypeOK /\ UploadTypeOK /\ MsgTypeOK
=============================================================================
