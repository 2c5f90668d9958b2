-------------------------------- MODULE Plaza --------------------------------
(***************************************************************************)
(* One post of the plaza, its likes and its comments:                      *)
(* server/src/routes/discoverPlaza.js, with the moderation of              *)
(* routes/adminPosts.js and routes/adminComments.js.                       *)
(*                                                                         *)
(* The post keeps two counters, like_count and comment_count, beside the   *)
(* tables they count.  Likes and comments are written in transactions at   *)
(* READ COMMITTED: a statement that meets a row another transaction has    *)
(* written waits for it, and a row that was read is not locked.            *)
(***************************************************************************)
EXTENDS Naturals, FiniteSets

CONSTANTS Users,     \* who may like the post
          Comments,  \* the comments that can be made (a bound)
          Calls      \* requests the server works on at the same time

VARIABLES
  post,       \* discover_posts: status, like_count and comment_count of the row
  likes,      \* discover_post_likes: who likes the post
  comments,   \* discover_comments: the status of each
  moderated,  \* comments whose status an admin has set
  plaza       \* the local state of each request

plazaVars == <<post, likes, comments, moderated, plaza>>

PostStatus == {"published", "hidden", "removed"}

CommentStatus == {"published", "hidden", "deleted"}

\* What a request is at: the statement, the user or the comment it is about,
\* and the status it read (of a comment) or will write (of the post).
PlazaCall == [at : {"idle", "like", "unlike", "comment", "delete", "patch"},
              user : Users \union {"none"}, comment : Comments \union {"none"},
              status : PostStatus \union CommentStatus]

NoCall == [at |-> "idle", user |-> "none", comment |-> "none", status |-> "published"]

Enter(k, at, user, comment, status) ==
  plaza' = [plaza EXCEPT ![k] = [at |-> at, user |-> user, comment |-> comment, status |-> status]]

Return(k) == plaza' = [plaza EXCEPT ![k] = NoCall]

Free(k) == plaza[k].at = "idle"

(***************************************************************************)
(* Likes.  The insertion, or the deletion, locks the row of the user until *)
(* the transaction ends; the counter is written by its last statement.     *)
(***************************************************************************)
LikeLocked(u) == \E k \in Calls : plaza[k].at \in {"like", "unlike"} /\ plaza[k].user = u

\* Mutant of Inserts: on conflict do nothing, and yet the like is counted.
Inserts_Again(u) == TRUE

\* insert ... on conflict do nothing: rowCount > 0.
Inserts(u) == u \notin likes

\* A like that is there already ends the transaction without a change.
LikeInsert(k, u) ==
  /\ Free(k) /\ ~LikeLocked(u)
  /\ Inserts(u)
  /\ Enter(k, "like", u, "none", "published")
  /\ UNCHANGED <<post, likes, comments, moderated>>

LikeCount(k) ==
  /\ plaza[k].at = "like"
  /\ likes' = likes \union {plaza[k].user}
  /\ post' = [post EXCEPT !.likes = @ + 1]
  /\ Return(k)
  /\ UNCHANGED <<comments, moderated>>

UnlikeDelete(k, u) ==
  /\ Free(k) /\ ~LikeLocked(u)
  /\ u \in likes
  /\ Enter(k, "unlike", u, "none", "published")
  /\ UNCHANGED <<post, likes, comments, moderated>>

\* Mutant of OneLess: n - 1.
OneLess_Plain(n) == n - 1

\* greatest(n - 1, 0)
OneLess(n) == IF n > 0 THEN n - 1 ELSE 0

UnlikeCount(k) ==
  /\ plaza[k].at = "unlike"
  /\ likes' = likes \ {plaza[k].user}
  /\ post' = [post EXCEPT !.likes = OneLess(@)]
  /\ Return(k)
  /\ UNCHANGED <<comments, moderated>>

(***************************************************************************)
(* Comments.                                                               *)
(***************************************************************************)
\* The transaction reads the status of the post, ...
CommentRead(k, c) ==
  /\ Free(k)
  /\ comments[c] = "none" /\ \A j \in Calls : plaza[j].at = "comment" => plaza[j].comment # c
  /\ post.status = "published"
  /\ Enter(k, "comment", "none", c, "published")
  /\ UNCHANGED <<post, likes, comments, moderated>>

\* ... inserts the comment, counts it and commits.
CommentCommit(k) ==
  /\ plaza[k].at = "comment"
  /\ comments' = [comments EXCEPT ![plaza[k].comment] = "published"]
  /\ post' = [post EXCEPT !.comments = @ + 1]
  /\ Return(k)
  /\ UNCHANGED <<likes, moderated>>

\* A deletion reads the comment, without a lock, ...
DeleteRead(k, c) ==
  /\ Free(k)
  /\ comments[c] \in {"published", "hidden"}
  /\ Enter(k, "delete", "none", c, comments[c])
  /\ UNCHANGED <<post, likes, comments, moderated>>

\* Mutant of Uncounts: only hidden comments are taken from the counter.
Uncounts_Hidden(status) == status = "hidden"

Uncounts(status) == status = "published"

\* ... marks it by id, takes one from the counter if it read it published,
\* and commits.
DeleteCommit(k) ==
  /\ plaza[k].at = "delete"
  /\ comments' = [comments EXCEPT ![plaza[k].comment] = "deleted"]
  /\ post' = [post EXCEPT !.comments = IF Uncounts(plaza[k].status) THEN OneLess(@) ELSE @]
  /\ Return(k)
  /\ UNCHANGED <<likes, moderated>>

\* An admin sets any status, by id, and leaves the counter alone.
ModerateComment(c, status) ==
  /\ comments[c] # "none"
  /\ comments' = [comments EXCEPT ![c] = status]
  /\ moderated' = moderated \union {c}
  /\ UNCHANGED <<post, likes, plaza>>

(***************************************************************************)
(* The status of the post.                                                 *)
(***************************************************************************)
\* nextStatusForAction, hide, unhide and delete in turn.
NextStatuses(status) ==
  CASE status = "published" -> {"hidden", "removed"}
    [] status = "hidden"    -> {"published", "removed"}
    [] OTHER                -> {}

\* The author's request reads the post ...
PatchRead(k, status) ==
  /\ Free(k)
  /\ status \in NextStatuses(post.status)
  /\ Enter(k, "patch", "none", "none", status)
  /\ UNCHANGED <<post, likes, comments, moderated>>

\* ... and writes it by id.
PatchWrite(k) ==
  /\ plaza[k].at = "patch"
  /\ post' = [post EXCEPT !.status = plaza[k].status]
  /\ Return(k)
  /\ UNCHANGED <<likes, comments, moderated>>

ModeratePost(status) ==
  /\ post' = [post EXCEPT !.status = status]
  /\ UNCHANGED <<likes, comments, moderated, plaza>>

\* A statement fails and the transaction is rolled back.
CallFails(k) ==
  /\ ~Free(k)
  /\ Return(k)
  /\ UNCHANGED <<post, likes, comments, moderated>>

PlazaInit ==
  /\ post = [status |-> "published", likes |-> 0, comments |-> 0]
  /\ likes = {}
  /\ comments = [c \in Comments |-> "none"]
  /\ moderated = {}
  /\ plaza = [k \in Calls |-> NoCall]

PlazaNext ==
  \/ \E k \in Calls :
       \/ \E u \in Users : LikeInsert(k, u) \/ UnlikeDelete(k, u)
       \/ LikeCount(k) \/ UnlikeCount(k)
       \/ \E c \in Comments : CommentRead(k, c) \/ DeleteRead(k, c)
       \/ CommentCommit(k) \/ DeleteCommit(k)
       \/ \E status \in PostStatus : PatchRead(k, status)
       \/ PatchWrite(k)
       \/ CallFails(k)
  \/ \E c \in Comments, status \in CommentStatus : ModerateComment(c, status)
  \/ \E status \in PostStatus : ModeratePost(status)

PlazaSpec == PlazaInit /\ [][PlazaNext]_plazaVars

(***************************************************************************)
(* Properties.                                                             *)
(***************************************************************************)
\* Every variable has its type.
PlazaTypeOK ==
  /\ post \in [status : PostStatus, likes : Nat, comments : Nat]
  /\ likes \subseteq Users
  /\ comments \in [Comments -> CommentStatus \union {"none"}]
  /\ moderated \subseteq Comments
  /\ plaza \in [Calls -> PlazaCall]

\* like_count is the number of likes, although one user may like and unlike in
\* several requests at once and greatest(n - 1, 0) would hide a wrong count:
\* the row of the like, inserted or deleted, decides who counts.
LikesAreCounted == post.likes = Cardinality(likes)

\* comment_count is never more than the comments that are published, those an
\* admin has touched left aside: two deletions of one comment may take two
\* from the counter, but no order of requests lets it run ahead.
CommentsNotOvercounted ==
  post.comments <= Cardinality({c \in Comments : comments[c] = "published" \/ c \in moderated})
=============================================================================
