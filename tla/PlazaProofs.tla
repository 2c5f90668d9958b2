------------------------------ MODULE PlazaProofs ------------------------------
(***************************************************************************)
(* Proofs about the plaza.  Of module Plaza: for any number of users,      *)
(* comments and requests, what its two counters have to do with the rows   *)
(* they count.  Of module Feeds: for any rows, any times and any size of a *)
(* page, what a reader who pages through a list can miss or meet again.    *)
(***************************************************************************)
EXTENDS Plaza, Feeds, Integers, FiniteSetTheorems, WellFoundedInduction, TLAPS

(***************************************************************************)
(* The invariant.  A request that is about to count a like or an unlike    *)
(* has the row of its user for itself, and its statement changed that row  *)
(* (LikesFit); a comment that is being inserted is in no table and no      *)
(* other request has it, and who read a comment hidden read one that an    *)
(* admin had touched (CommentsFit).                                        *)
(***************************************************************************)
LikesFit ==
  /\ \A k \in Calls : /\ plaza[k].at \in {"like", "unlike"} => plaza[k].user \in Users
                      /\ plaza[k].at = "like" => plaza[k].user \notin likes
                      /\ plaza[k].at = "unlike" => plaza[k].user \in likes
  /\ \A j, k \in Calls :
       plaza[j].at \in {"like", "unlike"} /\ plaza[k].at \in {"like", "unlike"} /\ j # k
         => plaza[j].user # plaza[k].user

CommentsFit ==
  /\ \A k \in Calls :
       /\ plaza[k].at \in {"comment", "delete"} => plaza[k].comment \in Comments
       /\ plaza[k].at = "comment" => comments[plaza[k].comment] = "none"
       /\ plaza[k].at = "delete" => /\ comments[plaza[k].comment] # "none"
                                    /\ plaza[k].status \in {"published", "hidden"}
                                    /\ plaza[k].status = "hidden" => plaza[k].comment \in moderated
       /\ plaza[k].at = "patch" => plaza[k].status \in PostStatus
  /\ \A j, k \in Calls :
       plaza[j].at = "comment" /\ plaza[k].at = "comment" /\ j # k
         => plaza[j].comment # plaza[k].comment
  /\ \A c \in Comments : /\ comments[c] = "none" => c \notin moderated
                         /\ comments[c] = "hidden" => c \in moderated

\* The comments the counter may count.
Countable == {c \in Comments : comments[c] = "published" \/ c \in moderated}

Counted ==
  /\ IsFiniteSet(likes) /\ post.likes = Cardinality(likes)
  /\ IsFiniteSet(Countable) /\ post.comments <= Cardinality(Countable)

PlazaInv == PlazaTypeOK /\ LikesFit /\ CommentsFit /\ Counted

\* A request enters or returns, and nothing else changes.
RowsAlone == UNCHANGED <<post, likes, comments, moderated>>

LEMMA CountedAlone == ASSUME Counted, RowsAlone PROVE Counted'
  <1>1. Countable' = Countable
    BY DEF Countable, RowsAlone
  <1> QED
    BY <1>1 DEF Counted, RowsAlone

LEMMA NoCallIsOne == NoCall \in PlazaCall /\ NoCall.at = "idle"
  BY DEF NoCall, PlazaCall, PostStatus

\* The local state of a request after it entered, or returned.
LEMMA Entered ==
  ASSUME PlazaTypeOK, NEW k \in Calls,
         NEW at \in {"idle", "like", "unlike", "comment", "delete", "patch"},
         NEW user \in Users \union {"none"}, NEW comment \in Comments \union {"none"},
         NEW status \in PostStatus \union CommentStatus, Enter(k, at, user, comment, status)
  PROVE  /\ plaza' \in [Calls -> PlazaCall]
         /\ plaza'[k].at = at /\ plaza'[k].user = user
         /\ plaza'[k].comment = comment /\ plaza'[k].status = status
         /\ \A j \in Calls : j # k => plaza'[j] = plaza[j]
  BY DEF Enter, PlazaTypeOK, PlazaCall

LEMMA Returned ==
  ASSUME PlazaTypeOK, NEW k \in Calls, Return(k)
  PROVE  /\ plaza' \in [Calls -> PlazaCall]
         /\ plaza'[k].at = "idle"
         /\ \A j \in Calls : j # k => plaza'[j] = plaza[j]
  BY NoCallIsOne DEF Return, PlazaTypeOK

LEMMA InitCounts == PlazaInit => PlazaInv
  <1> SUFFICES ASSUME PlazaInit PROVE PlazaInv
    OBVIOUS
  <1>1. PlazaTypeOK
    BY NoCallIsOne DEF PlazaInit, PlazaTypeOK, PostStatus
  <1>2. LikesFit /\ CommentsFit
    BY NoCallIsOne DEF PlazaInit, LikesFit, CommentsFit
  <1>3. likes = {} /\ Countable = {} /\ post.likes = 0 /\ post.comments = 0
    BY DEF PlazaInit, Countable
  <1>4. Counted
    BY <1>3, FS_EmptySet DEF Counted
  <1> QED
    BY <1>1, <1>2, <1>4 DEF PlazaInv

(***************************************************************************)
(* Likes.                                                                  *)
(***************************************************************************)
LEMMA LikesEnter ==
  ASSUME PlazaInv, NEW k \in Calls, NEW u \in Users, LikeInsert(k, u) \/ UnlikeDelete(k, u)
  PROVE  PlazaInv'
  <1>1. PICK at \in {"like", "unlike"} : Enter(k, at, u, "none", "published")
                                         /\ (at = "like" => u \notin likes) /\ (at = "unlike" => u \in likes)
    BY DEF LikeInsert, UnlikeDelete, Inserts
  <1>2. RowsAlone /\ ~LikeLocked(u)
    BY DEF LikeInsert, UnlikeDelete, RowsAlone
  <1>3. /\ plaza' \in [Calls -> PlazaCall] /\ plaza'[k].at = at /\ plaza'[k].user = u
        /\ \A j \in Calls : j # k => plaza'[j] = plaza[j]
    BY <1>1, Entered DEF PlazaInv, PostStatus
  <1>4. LikesFit'
    BY <1>1, <1>2, <1>3 DEF PlazaInv, LikesFit, LikeLocked, RowsAlone
  <1>5. CommentsFit'
    BY <1>1, <1>2, <1>3 DEF PlazaInv, CommentsFit, RowsAlone
  <1> QED
    BY <1>2, <1>3, <1>4, <1>5, CountedAlone DEF PlazaInv, PlazaTypeOK, RowsAlone

LEMMA LikesCount == ASSUME PlazaInv, NEW k \in Calls, LikeCount(k) PROVE PlazaInv'
  <1> DEFINE u == plaza[k].user
  <1>1. /\ u \in Users /\ u \notin likes /\ likes' = likes \union {u}
        /\ post' = [post EXCEPT !.likes = @ + 1] /\ UNCHANGED <<comments, moderated>>
    BY DEF LikeCount, PlazaInv, LikesFit
  <1>2. /\ plaza' \in [Calls -> PlazaCall] /\ plaza'[k].at = "idle"
        /\ \A j \in Calls : j # k => plaza'[j] = plaza[j]
    BY Returned DEF LikeCount, PlazaInv
  <1>3. \A j \in Calls : j # k /\ plaza[j].at \in {"like", "unlike"} => plaza[j].user # u
    BY DEF PlazaInv, LikesFit, LikeCount
  <1>4. LikesFit'
    BY <1>1, <1>2, <1>3 DEF PlazaInv, LikesFit
  <1>5. CommentsFit'
    BY <1>1, <1>2 DEF PlazaInv, CommentsFit
  <1> HIDE DEF u
  <1>6. /\ post' \in [status : PostStatus, likes : Nat, comments : Nat]
        /\ post'.likes = post.likes + 1 /\ post'.comments = post.comments
    BY <1>1 DEF PlazaInv, PlazaTypeOK
  <1>7. Countable' = Countable
    BY <1>1 DEF Countable
  <1>8. IsFiniteSet(likes') /\ Cardinality(likes') = Cardinality(likes) + 1
    BY <1>1, FS_AddElement DEF PlazaInv, Counted
  <1>9. Counted'
    BY <1>6, <1>7, <1>8 DEF PlazaInv, Counted
  <1> QED
    BY <1>1, <1>2, <1>4, <1>5, <1>6, <1>9 DEF PlazaInv, PlazaTypeOK

LEMMA UnlikesCount == ASSUME PlazaInv, NEW k \in Calls, UnlikeCount(k) PROVE PlazaInv'
  <1> DEFINE u == plaza[k].user
  <1>1. /\ u \in Users /\ u \in likes /\ likes' = likes \ {u}
        /\ post' = [post EXCEPT !.likes = OneLess(@)] /\ UNCHANGED <<comments, moderated>>
    BY DEF UnlikeCount, PlazaInv, LikesFit
  <1>2. /\ plaza' \in [Calls -> PlazaCall] /\ plaza'[k].at = "idle"
        /\ \A j \in Calls : j # k => plaza'[j] = plaza[j]
    BY Returned DEF UnlikeCount, PlazaInv
  <1>3. \A j \in Calls : j # k /\ plaza[j].at \in {"like", "unlike"} => plaza[j].user # u
    BY DEF PlazaInv, LikesFit, UnlikeCount
  <1>4. LikesFit'
    BY <1>1, <1>2, <1>3 DEF PlazaInv, LikesFit
  <1>5. CommentsFit'
    BY <1>1, <1>2 DEF PlazaInv, CommentsFit
  <1> HIDE DEF u
  <1>6. IsFiniteSet(likes') /\ Cardinality(likes') = Cardinality(likes) - 1
    BY <1>1, FS_RemoveElement DEF PlazaInv, Counted
  <1>7. Cardinality(likes') \in Nat
    BY <1>6, FS_CardinalityType
  <1>8. /\ post' \in [status : PostStatus, likes : Nat, comments : Nat]
        /\ post'.likes = post.likes - 1 /\ post'.comments = post.comments
    BY <1>1, <1>6, <1>7 DEF PlazaInv, PlazaTypeOK, Counted, OneLess
  <1>9. Countable' = Countable
    BY <1>1 DEF Countable
  <1>10. Counted'
    BY <1>6, <1>8, <1>9 DEF PlazaInv, Counted
  <1> QED
    BY <1>1, <1>2, <1>4, <1>5, <1>8, <1>10 DEF PlazaInv, PlazaTypeOK

(***************************************************************************)
(* Comments.                                                               *)
(***************************************************************************)
LEMMA CommentsEnter ==
  ASSUME PlazaInv, NEW k \in Calls, NEW c \in Comments, CommentRead(k, c) \/ DeleteRead(k, c)
  PROVE  PlazaInv'
  <1>1. PICK at \in {"comment", "delete"}, status \in {"published", "hidden"} :
          /\ Enter(k, at, "none", c, status)
          /\ at = "comment" => /\ comments[c] = "none"
                               /\ \A j \in Calls : plaza[j].at = "comment" => plaza[j].comment # c
          /\ at = "delete" => comments[c] = status
    BY DEF CommentRead, DeleteRead
  <1>2. RowsAlone
    BY DEF CommentRead, DeleteRead, RowsAlone
  <1>3. /\ plaza' \in [Calls -> PlazaCall] /\ plaza'[k].at = at
        /\ plaza'[k].comment = c /\ plaza'[k].status = status
        /\ \A j \in Calls : j # k => plaza'[j] = plaza[j]
    BY <1>1, Entered DEF PlazaInv, PostStatus
  <1>4. LikesFit'
    BY <1>1, <1>2, <1>3 DEF PlazaInv, LikesFit, RowsAlone
  <1>5. CommentsFit'
    BY <1>1, <1>2, <1>3 DEF PlazaInv, CommentsFit, RowsAlone
  <1> QED
    BY <1>2, <1>3, <1>4, <1>5, CountedAlone DEF PlazaInv, PlazaTypeOK, RowsAlone

LEMMA CommentsCommit == ASSUME PlazaInv, NEW k \in Calls, CommentCommit(k) PROVE PlazaInv'
  <1> DEFINE c == plaza[k].comment
  <1>1. /\ c \in Comments /\ comments[c] = "none" /\ c \notin moderated
        /\ comments' = [comments EXCEPT ![c] = "published"]
        /\ post' = [post EXCEPT !.comments = @ + 1] /\ UNCHANGED <<likes, moderated>>
    BY DEF CommentCommit, PlazaInv, CommentsFit
  <1>2. /\ plaza' \in [Calls -> PlazaCall] /\ plaza'[k].at = "idle"
        /\ \A j \in Calls : j # k => plaza'[j] = plaza[j]
    BY Returned DEF CommentCommit, PlazaInv
  <1>3. \A j \in Calls : j # k /\ plaza[j].at = "comment" => plaza[j].comment # c
    BY DEF PlazaInv, CommentsFit, CommentCommit
  <1>4. LikesFit'
    BY <1>1, <1>2 DEF PlazaInv, LikesFit
  <1> HIDE DEF c
  <1>5. /\ comments' \in [Comments -> CommentStatus \union {"none"}]
        /\ \A d \in Comments : comments'[d] = IF d = c THEN "published" ELSE comments[d]
    BY <1>1 DEF PlazaInv, PlazaTypeOK, CommentStatus
  <1>6. CommentsFit'
    BY <1>1, <1>2, <1>3, <1>5 DEF PlazaInv, CommentsFit
  <1>7. /\ post' \in [status : PostStatus, likes : Nat, comments : Nat]
        /\ post'.comments = post.comments + 1 /\ post'.likes = post.likes
    BY <1>1 DEF PlazaInv, PlazaTypeOK
  <1>8. Countable' = Countable \union {c} /\ c \notin Countable
    BY <1>1, <1>5 DEF Countable
  <1>9. IsFiniteSet(Countable') /\ Cardinality(Countable') = Cardinality(Countable) + 1
    BY <1>8, FS_AddElement DEF PlazaInv, Counted
  <1>10. post.comments \in Nat /\ Cardinality(Countable) \in Nat
    BY FS_CardinalityType DEF PlazaInv, PlazaTypeOK, Counted
  <1>11. Counted'
    BY <1>1, <1>7, <1>9, <1>10 DEF PlazaInv, Counted
  <1> QED
    BY <1>1, <1>2, <1>4, <1>5, <1>6, <1>7, <1>11 DEF PlazaInv, PlazaTypeOK

\* What moderation and deletion leave countable is all but at most one comment.
LEMMA OneFewer ==
  ASSUME Counted, post.comments \in Nat, NEW c, IsFiniteSet(Countable'),
         Countable \ {c} \subseteq Countable',
         post'.comments \in Nat, post'.likes = post.likes, UNCHANGED likes,
         \/ post'.comments = post.comments /\ Countable \subseteq Countable'
         \/ post'.comments = OneLess(post.comments)
  PROVE  Counted'
  <1>1. Cardinality(Countable) \in Nat /\ Cardinality(Countable') \in Nat
    BY FS_CardinalityType DEF Counted
  <1>2. CASE post'.comments = post.comments /\ Countable \subseteq Countable'
    <2>1. Cardinality(Countable) <= Cardinality(Countable')
      BY <1>2, FS_Subset
    <2> QED
      BY <1>1, <1>2, <2>1 DEF Counted
  <1>3. CASE post'.comments = OneLess(post.comments)
    <2>1. Cardinality(Countable \ {c}) >= Cardinality(Countable) - 1
      <3>1. IsFiniteSet(Countable)
        BY DEF Counted
      <3>2. Cardinality(Countable \ {c}) = IF c \in Countable THEN Cardinality(Countable) - 1
                                          ELSE Cardinality(Countable)
        BY <3>1, FS_RemoveElement
      <3> QED
        BY <1>1, <3>2
    <2>2. Cardinality(Countable \ {c}) <= Cardinality(Countable')
      BY FS_Subset
    <2>3. Cardinality(Countable \ {c}) \in Nat
      BY FS_RemoveElement, FS_CardinalityType DEF Counted
    <2> QED
      BY <1>1, <1>3, <2>1, <2>2, <2>3 DEF Counted, OneLess
  <1> QED
    BY <1>2, <1>3

LEMMA DeletesCommit == ASSUME PlazaInv, NEW k \in Calls, DeleteCommit(k) PROVE PlazaInv'
  <1> DEFINE c == plaza[k].comment  status == plaza[k].status
  <1>1. /\ c \in Comments /\ comments[c] # "none" /\ status \in {"published", "hidden"}
        /\ status = "hidden" => c \in moderated
        /\ comments' = [comments EXCEPT ![c] = "deleted"]
        /\ post' = [post EXCEPT !.comments = IF Uncounts(status) THEN OneLess(@) ELSE @]
        /\ UNCHANGED <<likes, moderated>>
    BY DEF DeleteCommit, PlazaInv, CommentsFit
  <1>2. /\ plaza' \in [Calls -> PlazaCall] /\ plaza'[k].at = "idle"
        /\ \A j \in Calls : j # k => plaza'[j] = plaza[j]
    BY Returned DEF DeleteCommit, PlazaInv
  <1>3. LikesFit'
    BY <1>1, <1>2 DEF PlazaInv, LikesFit
  <1> HIDE DEF c, status
  <1>4. /\ comments' \in [Comments -> CommentStatus \union {"none"}]
        /\ \A d \in Comments : comments'[d] = IF d = c THEN "deleted" ELSE comments[d]
    BY <1>1 DEF PlazaInv, PlazaTypeOK, CommentStatus
  <1>5. CommentsFit'
    BY <1>1, <1>2, <1>4 DEF PlazaInv, CommentsFit
  <1>6. post.comments \in Nat /\ OneLess(post.comments) \in Nat
    BY DEF PlazaInv, PlazaTypeOK, OneLess
  <1>7. /\ post' \in [status : PostStatus, likes : Nat, comments : Nat]
        /\ post'.likes = post.likes
        /\ post'.comments = IF Uncounts(status) THEN OneLess(post.comments) ELSE post.comments
    BY <1>1, <1>6 DEF PlazaInv, PlazaTypeOK
  <1>8. /\ Countable' \subseteq Countable /\ Countable \ {c} \subseteq Countable'
        /\ c \in moderated => Countable \subseteq Countable'
    BY <1>1, <1>4 DEF Countable
  <1>9. IsFiniteSet(Countable')
    BY <1>8, FS_Subset DEF PlazaInv, Counted
  <1>10. \/ post'.comments = post.comments /\ Countable \subseteq Countable'
         \/ post'.comments = OneLess(post.comments)
    BY <1>1, <1>7, <1>8 DEF Uncounts
  <1>11. post'.comments \in Nat /\ UNCHANGED likes /\ Counted
    BY <1>1, <1>7 DEF PlazaInv
  <1>12. Counted'
    BY <1>6, <1>7, <1>8, <1>9, <1>10, <1>11, OneFewer
  <1> QED
    BY <1>1, <1>2, <1>3, <1>4, <1>5, <1>7, <1>12 DEF PlazaInv, PlazaTypeOK

LEMMA Moderates ==
  ASSUME PlazaInv, NEW c \in Comments, NEW status \in CommentStatus, ModerateComment(c, status)
  PROVE  PlazaInv'
  <1>1. /\ comments[c] # "none" /\ comments' = [comments EXCEPT ![c] = status]
        /\ moderated' = moderated \union {c} /\ UNCHANGED <<post, likes, plaza>>
    BY DEF ModerateComment
  <1>2. /\ comments' \in [Comments -> CommentStatus \union {"none"}]
        /\ \A d \in Comments : comments'[d] = IF d = c THEN status ELSE comments[d]
        /\ status # "none"
    BY <1>1 DEF PlazaInv, PlazaTypeOK, CommentStatus
  <1>3. LikesFit'
    BY <1>1 DEF PlazaInv, LikesFit
  <1>4. CommentsFit'
    BY <1>1, <1>2 DEF PlazaInv, CommentsFit
  <1>5. Countable' = Countable \union {c}
    BY <1>1, <1>2 DEF Countable
  <1>6. IsFiniteSet(Countable') /\ Cardinality(Countable') >= Cardinality(Countable)
    <2>1. Cardinality(Countable) \in Nat /\ IsFiniteSet(Countable)
      BY FS_CardinalityType DEF PlazaInv, Counted
    <2>2. CASE c \in Countable
      <3>1. Countable' = Countable
        BY <1>5, <2>2
      <3> QED
        BY <2>1, <3>1
    <2>3. CASE c \notin Countable
      <3>1. IsFiniteSet(Countable') /\ Cardinality(Countable') = Cardinality(Countable) + 1
        BY <1>5, <2>1, <2>3, FS_AddElement
      <3> QED
        BY <2>1, <3>1
    <2> QED
      BY <2>2, <2>3
  <1>7. /\ post.comments \in Nat /\ Cardinality(Countable) \in Nat
        /\ Cardinality(Countable') \in Nat /\ post.comments <= Cardinality(Countable)
    BY <1>6, FS_CardinalityType DEF PlazaInv, PlazaTypeOK, Counted
  <1>8. Counted'
    BY <1>1, <1>6, <1>7 DEF PlazaInv, Counted
  <1> QED
    BY <1>1, <1>2, <1>3, <1>4, <1>8 DEF PlazaInv, PlazaTypeOK

(***************************************************************************)
(* The status of the post, failures, and the invariant.                    *)
(***************************************************************************)
\* A request returns, or enters to write the status of the post, and of the
\* rows at most that status changes.
LEMMA OnlyStatus ==
  ASSUME PlazaInv, UNCHANGED <<likes, comments, moderated>>,
         NEW status \in PostStatus, post' = [post EXCEPT !.status = status] \/ post' = post,
         \/ UNCHANGED plaza
         \/ \E k \in Calls : Return(k) \/ Enter(k, "patch", "none", "none", status)
  PROVE  PlazaInv'
  <1>1. /\ post' \in [status : PostStatus, likes : Nat, comments : Nat]
        /\ post'.likes = post.likes /\ post'.comments = post.comments
    BY DEF PlazaInv, PlazaTypeOK
  <1>2. Countable' = Countable
    BY DEF Countable
  <1>3. Counted'
    BY <1>1, <1>2 DEF PlazaInv, Counted
  <1>4. /\ plaza' \in [Calls -> PlazaCall]
        /\ \A j \in Calls : \/ plaza'[j] = plaza[j]
                            \/ plaza'[j].at = "idle"
                            \/ plaza'[j].at = "patch" /\ plaza'[j].status = status
    <2>1. CASE UNCHANGED plaza
      BY <2>1 DEF PlazaInv, PlazaTypeOK
    <2>2. ASSUME NEW k \in Calls, Return(k)
          PROVE  /\ plaza' \in [Calls -> PlazaCall]
                 /\ \A j \in Calls : plaza'[j] = plaza[j] \/ plaza'[j].at = "idle"
      BY <2>2, Returned DEF PlazaInv
    <2>3. ASSUME NEW k \in Calls, Enter(k, "patch", "none", "none", status)
          PROVE  /\ plaza' \in [Calls -> PlazaCall]
                 /\ \A j \in Calls : \/ plaza'[j] = plaza[j]
                                     \/ plaza'[j].at = "patch" /\ plaza'[j].status = status
      BY <2>3, Entered DEF PlazaInv
    <2> QED
      BY <2>1, <2>2, <2>3
  <1>5. LikesFit'
    BY <1>4 DEF PlazaInv, LikesFit
  <1>6. CommentsFit'
    BY <1>4 DEF PlazaInv, CommentsFit
  <1> QED
    BY <1>1, <1>3, <1>4, <1>5, <1>6 DEF PlazaInv, PlazaTypeOK

LEMMA StatusMoves ==
  ASSUME PlazaInv, NEW k \in Calls,
         (\E status \in PostStatus : PatchRead(k, status)) \/ PatchWrite(k) \/ CallFails(k)
  PROVE  PlazaInv'
  <1>1. ASSUME NEW status \in PostStatus, PatchRead(k, status) PROVE PlazaInv'
    BY <1>1, OnlyStatus DEF PatchRead
  <1>2. CASE PatchWrite(k)
    <2>1. plaza[k].status \in PostStatus
      BY <1>2 DEF PatchWrite, PlazaInv, CommentsFit
    <2> QED
      BY <1>2, <2>1, OnlyStatus DEF PatchWrite
  <1>3. CASE CallFails(k)
    BY <1>3, OnlyStatus DEF CallFails, PostStatus
  <1> QED
    BY <1>1, <1>2, <1>3

LEMMA NextKeepsCounts == PlazaInv /\ [PlazaNext]_plazaVars => PlazaInv'
  <1> SUFFICES ASSUME PlazaInv, [PlazaNext]_plazaVars PROVE PlazaInv'
    OBVIOUS
  <1>1. ASSUME NEW status \in PostStatus, ModeratePost(status) PROVE PlazaInv'
    BY <1>1, OnlyStatus DEF ModeratePost
  <1>2. CASE UNCHANGED plazaVars
    BY <1>2, OnlyStatus DEF plazaVars, PostStatus
  <1> QED
    BY <1>1, <1>2, LikesEnter, LikesCount, UnlikesCount, CommentsEnter, CommentsCommit,
       DeletesCommit, Moderates, StatusMoves
    DEF PlazaNext

LEMMA PlazaAlways == PlazaSpec => []PlazaInv
  BY InitCounts, NextKeepsCounts, PTL DEF PlazaSpec

(***************************************************************************)
(* The theorems.                                                           *)
(***************************************************************************)
\* Every variable keeps its type: in particular no counter is ever negative.
THEOREM PlazaTypes == PlazaSpec => []PlazaTypeOK
  <1>1. PlazaInv => PlazaTypeOK
    BY DEF PlazaInv
  <1> QED
    BY <1>1, PlazaAlways, PTL

\* like_count is the number of likes, however many requests like and unlike at
\* the same time, for one user or for many.
THEOREM LikeCountIsExact == PlazaSpec => []LikesAreCounted
  <1>1. PlazaInv => LikesAreCounted
    BY DEF PlazaInv, Counted, LikesAreCounted
  <1> QED
    BY <1>1, PlazaAlways, PTL

\* comment_count does not run ahead of the comments, although deletions decide
\* on a status they read without a lock and admins change it meanwhile.
THEOREM CommentCountIsBounded == PlazaSpec => []CommentsNotOvercounted
  <1>1. PlazaInv => CommentsNotOvercounted
    BY DEF PlazaInv, Counted, Countable, CommentsNotOvercounted
  <1> QED
    BY <1>1, PlazaAlways, PTL

(***************************************************************************)
(* The pages of module Feeds.  Readers lose or meet again only rows of the *)
(* millisecond a page ended in, for any rows and any size of a page.       *)
(*                                                                         *)
(* The invariant: of the rows there were at the first page, those that are *)
(* still to be read lie ahead of the cursor, and those that were read      *)
(* behind it; the cut of the cursor's time moves it, towards the rows that *)
(* are to come downwards and towards those that were read upwards, but     *)
(* never out of its millisecond.                                           *)
(***************************************************************************)
Met == {r \in RowIds : rows[r].is \in {"shown", "gone"}}

NearEnd(r) == \E e \in reader.ends : SameMillisecond(r, e)

Ahead ==
  \A r \in (reader.had \intersect Shown) \ reader.seen :
    \/ ~reader.done /\ Follows(r)
    \/ feed = "down" /\ NearEnd(r)

Behind == \A r \in reader.seen : ~Follows(r) \/ (feed = "up" /\ NearEnd(r))

\* The reader has had, and read, rows that were shown, and nothing before it began.
Begun ==
  /\ reader.had \subseteq Met /\ reader.seen \subseteq Met
  /\ reader.ends \subseteq reader.seen /\ reader.again \subseteq reader.seen
  /\ ~reader.begun => ~reader.done /\ reader.had = {} /\ reader.seen = {}

FeedInv == FeedTypeOK /\ Begun /\ Ahead /\ Behind /\ NothingComesAgain

(***************************************************************************)
(* Times, the order of rows, and the first and last of them.               *)
(***************************************************************************)
LEMMA CutTimes ==
  ASSUME NEW a \in Nat
  PROVE  InMilliseconds(a) \in Nat /\ InMilliseconds(a) <= a
<1>1. PICK m \in Nat : m = Millisecond /\ m > 0
  BY FeedAssumption
<1>2. a % m \in Nat
  BY <1>1
<1>3. PICK d : d = a \div m
  OBVIOUS
<1>4. d \in Nat /\ a = m * d + (a % m)
  BY <1>1, <1>3
<1>5. m * d \in Nat
  BY <1>1, <1>4
<1> QED
  BY <1>1, <1>2, <1>4, <1>5 DEF InMilliseconds

\* A time between the cut of another one and that one is cut to the same.
LEMMA SameCut ==
  ASSUME NEW a \in Nat, NEW b \in Nat, InMilliseconds(a) <= b, b <= a
  PROVE  InMilliseconds(b) = InMilliseconds(a)
<1>1. PICK m \in Nat : m = Millisecond /\ m > 0
  BY FeedAssumption
<1>2. PICK d, e, p, q : d = a \div m /\ e = b \div m /\ p = a % m /\ q = b % m
  OBVIOUS
<1>3. d \in Int /\ p \in Nat /\ p < m /\ a = m * d + p
  BY <1>1, <1>2
<1>4. e \in Int /\ q \in Nat /\ q < m /\ b = m * e + q
  BY <1>1, <1>2
<1>5. m * d <= b
  BY <1>1, <1>2, <1>3 DEF InMilliseconds
<1>6. d < e + 1
  <2>1. m * d < m * (e + 1)
    BY <1>1, <1>3, <1>4, <1>5
  <2> QED
    BY <1>1, <1>3, <1>4, <2>1
<1>7. e < d + 1
  <2>1. m * e < m * (d + 1)
    BY <1>1, <1>3, <1>4
  <2> QED
    BY <1>1, <1>3, <1>4, <2>1
<1>8. d = e
  BY <1>3, <1>4, <1>6, <1>7
<1> QED
  BY <1>1, <1>2, <1>3, <1>4, <1>8 DEF InMilliseconds

LEMMA CreatedTimes ==
  ASSUME FeedTypeOK
  PROVE  \A r \in RowIds : rows[r] \in Row /\ rows[r].created \in Nat /\ r \in Nat
<1>1. \A r \in RowIds : rows[r] \in Row
  BY DEF FeedTypeOK
<1>2. 0..MaxTime \subseteq Nat
  BY FeedAssumption
<1>3. \A r \in RowIds : rows[r].created \in 0..MaxTime
  BY <1>1 DEF Row
<1> QED
  BY <1>1, <1>2, <1>3, FeedAssumption

LEMMA BeforeIsAnOrder ==
  ASSUME FeedTypeOK
  PROVE  /\ \A r \in RowIds : ~Before(r, r)
         /\ \A p, q, r \in RowIds : Before(p, q) /\ Before(q, r) => Before(p, r)
         /\ \A q, r \in RowIds : q = r \/ Before(q, r) \/ Before(r, q)
<1>1. \A r \in RowIds : rows[r].created \in Nat /\ r \in Nat
  BY CreatedTimes
<1> QED
  BY <1>1 DEF Before, Below

LEMMA Least ==
  ASSUME NEW S \in SUBSET Nat, S # {}
  PROVE  \E x \in S : \A y \in S : x <= y
<1>1. PICK R : R = OpToRel(<, Nat)
  OBVIOUS
<1>2. IsWellFoundedOn(R, Nat)
  BY <1>1, NatLessThanWellFounded
<1>3. PICK x \in S : \A y \in S : <<y, x>> \notin R
  BY <1>2, WFMin
<1>4. ASSUME NEW y \in S
      PROVE  x <= y
  <2>1. ~(y < x)
    BY <1>1, <1>3 DEF OpToRel
  <2> QED
    BY <2>1
<1> QED
  BY <1>4

\* A finite set has a first element in any strict order.
LEMMA FirstOf ==
  ASSUME NEW S, IsFiniteSet(S), S # {}, NEW R,
         \A x \in S : <<x, x>> \notin R,
         \A x, y, z \in S : <<x, y>> \in R /\ <<y, z>> \in R => <<x, z>> \in R
  PROVE  \E x \in S : \A y \in S : <<y, x>> \notin R
<1> DEFINE Under(x) == {y \in S : <<y, x>> \in R}
           N == {Cardinality(Under(x)) : x \in S}
<1>1. \A x \in S : Under(x) \in SUBSET S
  OBVIOUS
<1> HIDE DEF Under
<1>2. \A x \in S : IsFiniteSet(Under(x)) /\ Cardinality(Under(x)) \in Nat
  BY <1>1, FS_Subset, FS_CardinalityType
<1>3. N \in SUBSET Nat /\ N # {}
  BY <1>2
<1>4. PICK n \in N : \A k \in N : n <= k
  BY <1>3, Least
<1>5. PICK x \in S : n = Cardinality(Under(x))
  BY <1>4
<1>6. ASSUME NEW y \in S, <<y, x>> \in R
      PROVE  FALSE
  <2>1. Under(y) \in SUBSET Under(x) /\ y \in Under(x) /\ y \notin Under(y)
    BY <1>6 DEF Under
  <2>2. Cardinality(Under(y)) < Cardinality(Under(x))
    BY <1>2, <2>1, FS_Subset
  <2> QED
    BY <1>2, <1>4, <1>5, <2>2
<1> QED
  BY <1>6

\* A page is the beginning of what is left, and ends with its last row.
LEMMA Pages ==
  ASSUME FeedTypeOK
  PROVE  /\ Page \subseteq Rest /\ Rest \subseteq Shown
         /\ \A p \in Page, r \in Rest \ Page : Before(p, r)
         /\ Page # {} => PageEnd \in Page /\ \A q \in Page : q = PageEnd \/ Before(q, PageEnd)
         /\ Page = {} => Rest = {}
         /\ ~HasMore => Page = Rest
<1>0. Page \subseteq Rest /\ Rest \subseteq Shown /\ Shown \subseteq RowIds
  BY DEF Page, Rest, Shown
<1>1. PICK S, P : S = Rest /\ P = Page
  OBVIOUS
<1>2. /\ S \subseteq RowIds /\ P \subseteq S /\ IsFiniteSet(S) /\ IsFiniteSet(P)
      /\ PageSize \in Nat /\ PageSize > 0 /\ Cardinality(S) \in Nat
  <2>1. S \subseteq RowIds /\ P \subseteq S /\ IsFiniteSet(RowIds)
    BY <1>0, <1>1, FeedAssumption
  <2>2. IsFiniteSet(S)
    BY <2>1, FS_Subset
  <2>3. IsFiniteSet(P)
    BY <2>1, <2>2, FS_Subset
  <2>4. Cardinality(S) \in Nat
    BY <2>2, FS_CardinalityType
  <2> QED
    BY <2>1, <2>2, <2>3, <2>4, FeedAssumption
<1>3. PICK R : R = {pair \in RowIds \X RowIds : Before(pair[1], pair[2])}
  OBVIOUS
<1>4. \A q, r \in RowIds : <<q, r>> \in R <=> Before(q, r)
  BY <1>3
<1>5. /\ \A r \in RowIds : <<r, r>> \notin R
      /\ \A p, q, r \in RowIds : <<p, q>> \in R /\ <<q, r>> \in R => <<p, r>> \in R
      /\ \A q, r \in RowIds : q = r \/ <<q, r>> \in R \/ <<r, q>> \in R
  BY <1>4, BeforeIsAnOrder
<1> DEFINE Under(r) == {q \in S : <<q, r>> \in R}
<1>6. \A r \in S : r \in P <=> Cardinality(Under(r)) < PageSize
  BY <1>0, <1>1, <1>2, <1>4 DEF Page
<1>7. \A r \in RowIds : Under(r) \in SUBSET S /\ IsFiniteSet(Under(r)) /\ Cardinality(Under(r)) \in Nat
  BY <1>2, FS_Subset, FS_CardinalityType
<1> HIDE DEF Under
<1>8. ASSUME NEW p \in P, NEW r \in S, <<r, p>> \in R
      PROVE  r \in P
  <2>0. p \in S /\ p \in RowIds /\ r \in RowIds
    BY <1>2
  <2>1. Under(r) \in SUBSET Under(p)
    BY <1>2, <1>5, <1>8, <2>0 DEF Under
  <2>2. Cardinality(Under(r)) <= Cardinality(Under(p))
    BY <1>7, <2>0, <2>1, FS_Subset
  <2>3. Cardinality(Under(p)) < PageSize
    BY <1>6, <2>0
  <2>4. Cardinality(Under(r)) < PageSize
    BY <1>2, <1>7, <2>0, <2>2, <2>3
  <2> QED
    BY <1>6, <2>4
<1>9. \A p \in P, r \in S \ P : <<p, r>> \in R
  BY <1>2, <1>5, <1>8
<1>10. ASSUME P = {}
       PROVE  S = {}
  <2>1. SUFFICES ASSUME S # {} PROVE FALSE
    OBVIOUS
  <2>2. PICK r \in S : \A q \in S : <<q, r>> \notin R
    <3>1. \A x \in S : <<x, x>> \notin R
      BY <1>2, <1>5
    <3>2. \A x, y, z \in S : <<x, y>> \in R /\ <<y, z>> \in R => <<x, z>> \in R
      BY <1>2, <1>5
    <3> QED
      BY <1>2, <2>1, <3>1, <3>2, FirstOf
  <2>3. Under(r) = {}
    BY <2>2 DEF Under
  <2>4. Cardinality(Under(r)) < PageSize
    BY <1>2, <2>3, FS_EmptySet
  <2> QED
    BY <1>6, <1>10, <2>4
<1>11. ASSUME P # {}
       PROVE  PageEnd \in P /\ \A q \in P : q = PageEnd \/ Before(q, PageEnd)
  <2>1. PICK B : B = {pair \in RowIds \X RowIds : <<pair[2], pair[1]>> \in R}
    OBVIOUS
  <2>2. \A q, r \in RowIds : <<q, r>> \in B <=> <<r, q>> \in R
    BY <2>1
  <2>3. PICK e \in P : \A q \in P : <<q, e>> \notin B
    <3>0. P \subseteq RowIds
      BY <1>2
    <3>1. \A x \in P : <<x, x>> \notin B
      BY <1>5, <2>2, <3>0
    <3>2. \A x, y, z \in P : <<x, y>> \in B /\ <<y, z>> \in B => <<x, z>> \in B
      <4> SUFFICES ASSUME NEW x \in P, NEW y \in P, NEW z \in P, <<x, y>> \in B, <<y, z>> \in B
                   PROVE  <<x, z>> \in B
        OBVIOUS
      <4>1. <<y, x>> \in R /\ <<z, y>> \in R
        BY <2>2, <3>0
      <4>2. <<z, x>> \in R
        BY <1>5, <3>0, <4>1
      <4> QED
        BY <2>2, <3>0, <4>2
    <3> QED
      BY <1>2, <1>11, <3>1, <3>2, FirstOf
  <2>4. \A q \in P : q = e \/ Before(q, e)
    BY <1>2, <1>4, <1>5, <2>2, <2>3
  <2> QED
    BY <1>1, <2>4 DEF PageEnd
<1>12. ASSUME ~HasMore
       PROVE  P = S
  <2>1. Cardinality(S) <= PageSize
    BY <1>1, <1>2, <1>12 DEF HasMore
  <2>2. ASSUME NEW r \in S
        PROVE  r \in P
    <3>1. Under(r) \in SUBSET (S \ {r})
      BY <1>2, <1>5 DEF Under
    <3>2. IsFiniteSet(S \ {r}) /\ Cardinality(S \ {r}) = Cardinality(S) - 1
      BY <1>2, FS_RemoveElement
    <3>3. Cardinality(Under(r)) <= Cardinality(S \ {r})
      BY <3>1, <3>2, FS_Subset
    <3>4. PICK k, n : k = Cardinality(Under(r)) /\ n = Cardinality(S)
      OBVIOUS
    <3>5. k \in Nat /\ n \in Nat /\ k <= n - 1 /\ n <= PageSize
      BY <1>2, <1>7, <2>1, <3>2, <3>3, <3>4
    <3>6. k < PageSize
      BY <1>2, <3>5
    <3> QED
      BY <1>6, <3>4, <3>6
  <2> QED
    BY <1>2, <2>2
<1> QED
  BY <1>0, <1>1, <1>2, <1>4, <1>9, <1>10, <1>11, <1>12

(***************************************************************************)
(* Rows are written, shown and hidden: what a reader has met stays where   *)
(* it was.                                                                 *)
(***************************************************************************)
LEMMA RowsMove ==
  ASSUME FeedInv, UNCHANGED <<feed, reader>>, now' \in 0..MaxTime, rows' \in [RowIds -> Row],
         \A r \in Met : rows'[r].created = rows[r].created /\ r \in Met',
         Shown' \intersect Met \subseteq Shown
  PROVE  FeedInv'
<1> USE DEF FeedInv
<1>1. FeedTypeOK'
  BY DEF FeedTypeOK
<1>2. reader.had \subseteq Met /\ reader.seen \subseteq Met /\ reader.ends \subseteq Met
      /\ reader.again \subseteq Met
  BY DEF Begun
<1>3. Begun'
  BY <1>2 DEF Begun
<1>4. \A r \in Met : /\ Follows(r) => Follows(r)'
                     /\ Follows(r)' => Follows(r)
                     /\ NearEnd(r) => NearEnd(r)'
  BY <1>2 DEF Follows, Below, NearEnd, SameMillisecond, InMilliseconds
<1>5. Ahead'
  <2> SUFFICES ASSUME NEW r \in (reader.had \intersect Shown') \ reader.seen
               PROVE  (~reader.done /\ Follows(r)') \/ (feed = "down" /\ NearEnd(r)')
    BY DEF Ahead
  <2>1. r \in Met /\ r \in (reader.had \intersect Shown) \ reader.seen
    BY <1>2
  <2> QED
    BY <1>4, <2>1 DEF Ahead
<1>6. Behind'
  <2> SUFFICES ASSUME NEW r \in reader.seen
               PROVE  ~Follows(r)' \/ (feed = "up" /\ NearEnd(r)')
    BY DEF Behind
  <2> QED
    BY <1>2, <1>4 DEF Behind
<1>7. NothingComesAgain'
  <2> SUFFICES ASSUME NEW r \in reader.again
               PROVE  feed = "up" /\ NearEnd(r)'
    BY DEF NothingComesAgain, NearEnd
  <2>1. feed = "up" /\ NearEnd(r)
    BY DEF NothingComesAgain, NearEnd
  <2> QED
    BY <1>2, <1>4, <2>1
<1> QED
  BY <1>1, <1>3, <1>5, <1>6, <1>7

\* The actions of the writers.
LEMMA WriterSteps ==
  ASSUME FeedInv, NEW r \in RowIds, WriteRow(r) \/ ShowRow(r) \/ HideRow(r)
  PROVE  FeedInv'
<1>1. FeedTypeOK /\ now \in 0..MaxTime /\ rows \in [RowIds -> Row] /\ rows[r] \in Row
  BY DEF FeedInv, FeedTypeOK
<1>2. PICK u : rows' = [rows EXCEPT ![r] = u] /\ u \in Row
               /\ \/ rows[r].is \in {"to come"} /\ u.is = "written"
                  \/ rows[r].is \in {"written"} /\ u.is = "shown"
                  \/ rows[r].is = "shown" /\ u.is = "gone" /\ u.created = rows[r].created
  <2>1. CASE WriteRow(r)
    <3>1. PICK u : u = [created |-> now, is |-> "written"]
      OBVIOUS
    <3>2. u \in Row /\ u.is = "written"
      BY <1>1, <3>1 DEF Row
    <3> QED
      BY <1>1, <2>1, <3>1, <3>2 DEF WriteRow
  <2>2. CASE ShowRow(r)
    <3>1. PICK u : u = [rows[r] EXCEPT !.is = "shown"]
      OBVIOUS
    <3>2. u \in Row /\ u.is = "shown"
      BY <1>1, <3>1 DEF Row
    <3> QED
      BY <1>1, <2>2, <3>1, <3>2 DEF ShowRow
  <2>3. CASE HideRow(r)
    <3>1. PICK u : u = [rows[r] EXCEPT !.is = "gone"]
      OBVIOUS
    <3>2. u \in Row /\ u.is = "gone" /\ u.created = rows[r].created
      BY <1>1, <3>1 DEF Row
    <3> QED
      BY <1>1, <2>3, <3>1, <3>2 DEF HideRow
  <2> QED
    BY <2>1, <2>2, <2>3
<1>3. UNCHANGED <<feed, now, reader>>
  BY DEF WriteRow, ShowRow, HideRow
<1>4. rows' \in [RowIds -> Row] /\ rows'[r] = u /\ \A q \in RowIds \ {r} : rows'[q] = rows[q]
  BY <1>1, <1>2
<1>5. \A q \in Met : rows'[q].created = rows[q].created /\ q \in Met'
  BY <1>2, <1>4 DEF Met
<1>6. Shown' \intersect Met \subseteq Shown
  BY <1>2, <1>4 DEF Met, Shown
<1> QED
  BY <1>1, <1>3, <1>4, <1>5, <1>6, RowsMove

(***************************************************************************)
(* A page is read.                                                         *)
(***************************************************************************)
LEMMA PageStep ==
  ASSUME FeedInv, ReadPage
  PROVE  FeedInv'
<1>1. FeedTypeOK /\ Begun /\ Ahead /\ Behind /\ NothingComesAgain
  BY DEF FeedInv
<1>2. UNCHANGED <<feed, now, rows>> /\ UNCHANGED Shown /\ UNCHANGED Met /\ ~reader.done
  BY DEF ReadPage, Shown, Met
<1>3. PICK P, S, e : P = Page /\ S = Rest /\ e = PageEnd
  OBVIOUS
<1>4. /\ P \subseteq S /\ S \subseteq Shown /\ Shown \subseteq RowIds /\ Shown \subseteq Met
      /\ S = {r \in Shown : Follows(r)}
      /\ \A p \in P, r \in S \ P : Before(p, r)
      /\ P # {} => e \in P /\ \A q \in P : q = e \/ Before(q, e)
      /\ P = {} => S = {}
      /\ ~HasMore => P = S
  BY <1>1, <1>3, Pages DEF Rest, Shown, Met
<1>5. PICK cut : cut = InMilliseconds(rows[e].created)
  OBVIOUS
<1>6. /\ reader'.begun = TRUE
      /\ reader'.time = IF P = {} THEN reader.time ELSE cut
      /\ reader'.id = IF P = {} THEN reader.id ELSE e
      /\ reader'.had = IF reader.begun THEN reader.had ELSE Shown
      /\ reader'.seen = reader.seen \union P
      /\ reader'.again = reader.again \union (reader.seen \intersect P)
      /\ reader'.ends = reader.ends \union (IF P = {} THEN {} ELSE {e})
      /\ reader'.done = ~HasMore
  BY <1>3, <1>5 DEF ReadPage
<1>7. /\ feed \in {"up", "down"} /\ reader \in Reader
      /\ \A r \in RowIds : rows[r].created \in Nat /\ rows[r].created \in 0..MaxTime /\ r \in Nat
      /\ reader.time \in Nat /\ reader.id \in Nat /\ 0..MaxTime \subseteq Nat
  <2>1. \A r \in RowIds : rows[r].created \in Nat /\ rows[r] \in Row /\ r \in Nat
    BY <1>1, CreatedTimes
  <2>2. 0..MaxTime \subseteq Nat /\ RowIds \subseteq Nat
    BY FeedAssumption
  <2>3. reader.time \in 0..MaxTime /\ reader.id \in RowIds \union {0}
    BY <1>1 DEF FeedTypeOK, Reader
  <2>4. \A r \in RowIds : rows[r].created \in 0..MaxTime
    BY <2>1 DEF Row
  <2>5. feed \in {"up", "down"} /\ reader \in Reader
    BY <1>1 DEF FeedTypeOK
  <2>6. reader.time \in Nat
    BY <2>3, FeedAssumption
  <2>7. reader.id \in Nat
    <3>1. PICK i : i = reader.id
      OBVIOUS
    <3>2. i \in RowIds \/ i = 0
      BY <2>3, <3>1
    <3>3. RowIds \subseteq Nat
      BY FeedAssumption
    <3>4. CASE i \in RowIds
      BY <3>1, <3>3, <3>4
    <3>5. CASE i = 0
      BY <3>1, <3>5
    <3> QED
      BY <3>2, <3>4, <3>5
  <2> QED
    BY <2>1, <2>2, <2>4, <2>5, <2>6, <2>7
<1>8. P # {} => /\ e \in RowIds /\ e \in S /\ cut \in Nat /\ cut <= rows[e].created
                /\ cut \in 0..MaxTime
  <2> SUFFICES ASSUME P # {} PROVE e \in RowIds /\ e \in S /\ cut \in Nat /\ cut <= rows[e].created
                                   /\ cut \in 0..MaxTime
    OBVIOUS
  <2>1. e \in RowIds /\ e \in S
    BY <1>4
  <2>2. cut \in Nat /\ cut <= rows[e].created
    BY <1>5, <1>7, <2>1, CutTimes
  <2> QED
    BY <1>7, <2>1, <2>2, FeedAssumption
<1>9. FeedTypeOK'
  <2>1. /\ reader.had \subseteq RowIds /\ reader.seen \subseteq RowIds /\ reader.again \subseteq RowIds
        /\ reader.ends \subseteq RowIds /\ reader.time \in 0..MaxTime /\ reader.id \in RowIds \union {0}
    BY <1>7 DEF Reader
  <2>2. PICK t, i, h, n, a, d, f :
          /\ t = IF P = {} THEN reader.time ELSE cut
          /\ i = IF P = {} THEN reader.id ELSE e
          /\ h = IF reader.begun THEN reader.had ELSE Shown
          /\ n = reader.seen \union P
          /\ a = reader.again \union (reader.seen \intersect P)
          /\ d = reader.ends \union (IF P = {} THEN {} ELSE {e})
          /\ f = ~HasMore
    OBVIOUS
  <2>3. reader' = [begun |-> TRUE, time |-> t, id |-> i, had |-> h, seen |-> n, again |-> a,
                   ends |-> d, done |-> f]
    BY <1>3, <1>5, <2>2 DEF ReadPage
  <2>4. t \in 0..MaxTime /\ i \in RowIds \union {0}
    BY <1>8, <2>1, <2>2
  <2>5. h \in SUBSET RowIds /\ n \in SUBSET RowIds /\ a \in SUBSET RowIds /\ d \in SUBSET RowIds
    BY <1>4, <1>8, <2>1, <2>2
  <2>6. f \in BOOLEAN
    BY <2>2 DEF HasMore
  <2>7. reader' \in Reader
    BY <2>3, <2>4, <2>5, <2>6 DEF Reader
  <2> QED
    BY <1>1, <1>2, <2>7 DEF FeedTypeOK
<1>10. Begun'
  BY <1>1, <1>2, <1>4, <1>6 DEF Begun
\* The cut of the cursor stays in the millisecond of the end of the page.
<1>11. ASSUME P # {}, NEW r \in RowIds, cut <= rows[r].created, rows[r].created <= rows[e].created
       PROVE  NearEnd(r)'
  <2>1. InMilliseconds(rows[r].created) = InMilliseconds(rows[e].created)
    BY <1>5, <1>7, <1>8, <1>11, SameCut
  <2>2. e \in reader'.ends /\ SameMillisecond(r, e)'
    BY <1>2, <1>6, <1>11, <2>1 DEF SameMillisecond, InMilliseconds
  <2> QED
    BY <2>2 DEF NearEnd
<1>12. \A r \in RowIds : NearEnd(r) => NearEnd(r)'
  BY <1>2, <1>6 DEF NearEnd, SameMillisecond, InMilliseconds
\* Where the next page begins, and where this one began.
<1>13. ASSUME P # {}, NEW r \in RowIds
       PROVE  Follows(r)' <=> IF feed = "up" THEN Below(cut, e, rows[r].created, r)
                                             ELSE Below(rows[r].created, r, cut, e)
  BY <1>2, <1>6, <1>13 DEF Follows, Below
<1>14. ASSUME P # {}, reader.begun
       PROVE  IF feed = "up" THEN Below(reader.time, reader.id, rows[e].created, e)
                             ELSE Below(rows[e].created, e, reader.time, reader.id)
  BY <1>4, <1>8, <1>14 DEF Follows
<1>15. ASSUME P = {}, reader.begun, NEW r \in RowIds
       PROVE  Follows(r)' <=> Follows(r)
  BY <1>2, <1>6, <1>15 DEF Follows, Below
\* What is after the page lies ahead,
<1>16. ASSUME NEW r \in S \ P
       PROVE  (~reader'.done /\ Follows(r)') \/ (feed = "down" /\ NearEnd(r)')
  <2>1. P # {} /\ HasMore /\ r \in RowIds /\ e \in RowIds
    BY <1>4, <1>8
  <2>2. Before(e, r)
    BY <1>4, <1>8, <2>1
  <2>3. CASE feed = "up"
    <3>1. Below(rows[e].created, e, rows[r].created, r)
      BY <2>2, <2>3 DEF Before
    <3>2. Below(cut, e, rows[r].created, r)
      BY <1>7, <1>8, <2>1, <3>1 DEF Below
    <3>3. Follows(r)'
      BY <1>13, <2>1, <2>3, <3>2
    <3> QED
      BY <1>6, <2>1, <3>3
  <2>4. CASE feed = "down"
    <3>1. Below(rows[r].created, r, rows[e].created, e)
      BY <2>2, <2>4 DEF Before
    <3>2. CASE Below(rows[r].created, r, cut, e)
      BY <1>6, <1>13, <2>1, <2>4, <3>2
    <3>3. CASE ~Below(rows[r].created, r, cut, e)
      <4>1. cut <= rows[r].created /\ rows[r].created <= rows[e].created
        BY <1>7, <1>8, <2>1, <3>1, <3>3 DEF Below
      <4> QED
        BY <1>11, <2>1, <2>4, <4>1
    <3> QED
      BY <3>2, <3>3
  <2> QED
    BY <1>7, <2>3, <2>4
<1>17. Ahead'
  <2> SUFFICES ASSUME NEW r \in (reader'.had \intersect Shown) \ reader'.seen
               PROVE  (~reader'.done /\ Follows(r)') \/ (feed = "down" /\ NearEnd(r)')
    BY <1>2 DEF Ahead
  <2>1. r \in Shown /\ r \in RowIds /\ r \notin P /\ r \notin reader.seen
    BY <1>4, <1>6
  <2>2. CASE Follows(r)
    BY <1>4, <1>16, <2>1, <2>2
  <2>3. CASE ~Follows(r)
    <3>1. r \in reader.had
      BY <1>6, <2>3 DEF Follows
    <3> QED
      BY <1>1, <1>12, <2>1, <2>3, <3>1 DEF Ahead
  <2> QED
    BY <2>2, <2>3
\* and what was before its end lies behind.
<1>18. ASSUME P # {}, NEW r \in RowIds,
              r = e \/ (IF feed = "up" THEN Below(rows[r].created, r, rows[e].created, e)
                                       ELSE Below(rows[e].created, e, rows[r].created, r))
       PROVE  ~Follows(r)' \/ (feed = "up" /\ NearEnd(r)')
  <2>1. rows[r].created \in Nat /\ rows[e].created \in Nat /\ r \in Nat /\ e \in Nat
    BY <1>7, <1>8, <1>18
  <2>2. CASE feed = "up"
    <3>1. rows[r].created <= rows[e].created
      BY <1>18, <2>1, <2>2 DEF Below
    <3>2. Follows(r)' => cut <= rows[r].created
      BY <1>8, <1>13, <1>18, <2>1, <2>2 DEF Below
    <3> QED
      BY <1>11, <1>18, <2>2, <3>1, <3>2
  <2>3. CASE feed = "down"
    BY <1>8, <1>13, <1>18, <2>1, <2>3 DEF Below
  <2> QED
    BY <1>7, <2>2, <2>3
<1>19. Behind'
  <2> SUFFICES ASSUME NEW r \in reader'.seen
               PROVE  ~Follows(r)' \/ (feed = "up" /\ NearEnd(r)')
    BY <1>2 DEF Behind
  <2>0. r \in RowIds /\ r \in reader.seen \union P
    BY <1>1, <1>4, <1>6 DEF Begun, Met
  <2>1. CASE r \in P
    <3>1. r = e \/ Before(r, e)
      BY <1>4, <2>1
    <3> QED
      BY <1>18, <2>0, <2>1, <3>1 DEF Before
  <2>2. CASE r \in reader.seen /\ ~Follows(r)
    <3>0. reader.begun
      BY <1>1, <2>2 DEF Begun
    <3>1. CASE P = {}
      BY <1>15, <2>0, <2>2, <3>0, <3>1
    <3>2. CASE P # {}
      <4>1. CASE feed = "up"
        <5>1. Below(reader.time, reader.id, rows[e].created, e)
          BY <1>14, <3>0, <3>2, <4>1
        <5>2. ~Below(reader.time, reader.id, rows[r].created, r)
          BY <2>2, <4>1 DEF Follows
        <5>3. r = e \/ Below(rows[r].created, r, rows[e].created, e)
          BY <1>7, <1>8, <2>0, <3>2, <5>1, <5>2 DEF Below
        <5> QED
          BY <1>18, <2>0, <3>2, <4>1, <5>3
      <4>2. CASE feed = "down"
        <5>1. Below(rows[e].created, e, reader.time, reader.id)
          BY <1>14, <3>0, <3>2, <4>2
        <5>2. ~Below(rows[r].created, r, reader.time, reader.id)
          BY <2>2, <4>2 DEF Follows
        <5>3. r = e \/ Below(rows[e].created, e, rows[r].created, r)
          BY <1>7, <1>8, <2>0, <3>2, <5>1, <5>2 DEF Below
        <5> QED
          BY <1>18, <2>0, <3>2, <4>2, <5>3
      <4> QED
        BY <1>7, <4>1, <4>2
    <3> QED
      BY <3>1, <3>2
  <2>3. CASE r \in reader.seen /\ Follows(r)
    BY <1>1, <1>12, <2>0, <2>3 DEF Behind
  <2> QED
    BY <2>0, <2>1, <2>2, <2>3
\* A row that comes again followed the old cursor.
<1>20. NothingComesAgain'
  <2> SUFFICES ASSUME NEW r \in reader'.again
               PROVE  feed = "up" /\ NearEnd(r)'
    BY <1>2 DEF NothingComesAgain, NearEnd
  <2>1. r \in RowIds /\ (r \in reader.again \/ (r \in reader.seen /\ r \in P))
    BY <1>1, <1>4, <1>6 DEF Begun, Met
  <2>2. feed = "up" /\ NearEnd(r)
    <3>1. CASE r \in reader.again
      BY <1>1, <3>1 DEF NothingComesAgain, NearEnd
    <3>2. CASE r \in reader.seen /\ r \in P
      BY <1>1, <1>4, <3>2 DEF Behind
    <3> QED
      BY <2>1, <3>1, <3>2
  <2> QED
    BY <1>12, <2>1, <2>2
<1> QED
  BY <1>9, <1>10, <1>17, <1>19, <1>20 DEF FeedInv

(***************************************************************************)
(* The theorems.                                                           *)
(***************************************************************************)
LEMMA FeedInvStarts == FeedInit => FeedInv
<1> SUFFICES ASSUME FeedInit PROVE FeedInv
  OBVIOUS
<1>1. 0 \in 0..MaxTime
  BY FeedAssumption
<1>2. FeedTypeOK
  BY <1>1 DEF FeedInit, FeedTypeOK, Row, Reader
<1> QED
  BY <1>2 DEF FeedInit, FeedInv, Begun, Ahead, Behind, NothingComesAgain

LEMMA FeedInvStays == FeedInv /\ [FeedNext]_feedVars => FeedInv'
<1> SUFFICES ASSUME FeedInv, [FeedNext]_feedVars PROVE FeedInv'
  OBVIOUS
<1>1. CASE ReadPage
  BY <1>1, PageStep
<1>2. CASE \E r \in RowIds : WriteRow(r) \/ ShowRow(r) \/ HideRow(r)
  BY <1>2, WriterSteps
<1>3. CASE TimePasses \/ UNCHANGED feedVars
  <2>1. now' \in 0..MaxTime /\ UNCHANGED <<feed, reader, rows>>
    BY <1>3, FeedAssumption DEF TimePasses, feedVars, FeedInv, FeedTypeOK
  <2>2. rows' \in [RowIds -> Row] /\ UNCHANGED <<Shown, Met>>
    BY <2>1 DEF FeedInv, FeedTypeOK, Shown, Met
  <2> QED
    BY <2>1, <2>2, RowsMove
<1> QED
  BY <1>1, <1>2, <1>3 DEF FeedNext

\* Every variable of the feeds keeps its type, and so does every reader.
THEOREM FeedTypes == FeedSpec => []FeedTypeOK
<1>1. FeedInv => FeedTypeOK
  BY DEF FeedInv
<1> QED
  BY <1>1, FeedInvStarts, FeedInvStays, PTL DEF FeedSpec

\* Who is done has read every row that was there from the first page on and
\* still is; downwards, all but rows of a millisecond in which a page ended.
THEOREM ReadersMissOnlyTies == FeedSpec => []NothingIsLost
<1>1. FeedInv => NothingIsLost
  BY DEF FeedInv, Ahead, NothingIsLost, NearEnd
<1> QED
  BY <1>1, FeedInvStarts, FeedInvStays, PTL DEF FeedSpec

\* Downwards no row comes twice; upwards only rows of a millisecond in which a
\* page ended.
THEOREM ReadersRepeatOnlyTies == FeedSpec => []NothingComesAgain
<1>1. FeedInv => NothingComesAgain
  BY DEF FeedInv
<1> QED
  BY <1>1, FeedInvStarts, FeedInvStays, PTL DEF FeedSpec

\* No two rows that readers have met are of the same millisecond.
Apart == \A q, r \in Met : SameMillisecond(q, r) => q = r

\* Unless two rows fall into one millisecond, who is done has read every row
\* that was there all the time, and upwards only ends of pages come twice.
THEOREM ReadersMissNothing ==
  FeedSpec => [](Apart => /\ reader.done => reader.had \intersect Shown \subseteq reader.seen
                          /\ reader.again \subseteq reader.ends
                          /\ feed = "down" => reader.again = {})
<1>1. ASSUME FeedInv, Apart
      PROVE  /\ reader.done => reader.had \intersect Shown \subseteq reader.seen
             /\ reader.again \subseteq reader.ends
             /\ feed = "down" => reader.again = {}
  <2>1. reader.ends \subseteq reader.seen /\ reader.had \subseteq Met /\ reader.seen \subseteq Met
        /\ reader.again \subseteq Met
    BY <1>1 DEF FeedInv, Begun
  <2>2. ASSUME NEW r \in Met, NearEnd(r)
        PROVE  r \in reader.ends
    <3>1. PICK e \in reader.ends : SameMillisecond(r, e)
      BY <2>2 DEF NearEnd
    <3>2. r = e
      BY <1>1, <2>1, <3>1 DEF Apart
    <3> QED
      BY <3>2
  <2>3. \A r \in reader.again : feed = "up" /\ NearEnd(r)
    BY <1>1 DEF FeedInv, NothingComesAgain, NearEnd
  <2>4. ASSUME reader.done, NEW r \in (reader.had \intersect Shown) \ reader.seen
        PROVE  FALSE
    <3>1. NearEnd(r)
      BY <1>1, <2>4 DEF FeedInv, Ahead
    <3> QED
      BY <2>1, <2>2, <2>4, <3>1
  <2>5. reader.again \subseteq reader.ends
    BY <2>1, <2>2, <2>3
  <2>6. feed = "down" => reader.again = {}
    BY <2>3
  <2> QED
    BY <2>4, <2>5, <2>6
<1> QED
  BY <1>1, FeedInvStarts, FeedInvStays, PTL DEF FeedSpec
=============================================================================
