---------------------------- MODULE MCScheduler ----------------------------
EXTENDS Scheduler, TLC

CONSTANTS s1, s2, s3, s4, u1, u2

\* Who owns the sessions of an instance.
Alone == s1 :> u1
OneUser == s1 :> u1 @@ s2 :> u1
TwoUsers == s1 :> u1 @@ s2 :> u2
TwoUsersThree == s1 :> u1 @@ s2 :> u2 @@ s3 :> u2
TwoUsersFour == s1 :> u1 @@ s2 :> u1 @@ s3 :> u2 @@ s4 :> u2

\* User.queue_priority: all the same, or the second user goes first.
SamePriority == [u \in Users |-> 0]
SecondFirst == [u \in Users |-> IF u = u2 THEN 1 ELSE 0]

\* No property tells handlers apart, nor sessions of one user.
HandlerSymmetry == Permutations(Handlers)
OneUserSymmetry == Permutations(Handlers) \cup Permutations(Sessions)
SecondUserSymmetry == Permutations({s2, s3})
=============================================================================
