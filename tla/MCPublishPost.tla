--------------------------- MODULE MCPublishPost ---------------------------
(* Instances of PublishPost for TLC: all the targets belong to one post.   *)
EXTENDS PublishPost, TLC

CONSTANTS t1, t2, p1, w1, w2

SharedPost == [t \in Targets |-> p1]

\* Safety runs only: neither targets nor workers are distinguished.
Symmetry == Permutations(Workers) \union Permutations(Targets)

=============================================================================
