--------------------------- MODULE MCLearningNetwork ---------------------------
(* Two people review two experiences, one of them perhaps in both dimensions. *)
EXTENDS LearningNetwork, TLC

CONSTANTS lesson, drill, ann, bob

Review(experience, reviewer, dimension, decision) ==
    [experience |-> experience, reviewer |-> reviewer, dimension |-> dimension,
     decision |-> decision]

TwoDimensions == [e \in Experiences |-> {"DOMAIN", "SAFETY"}]
FewReviews ==
    {Review(lesson, ann, "DOMAIN", "APPROVE"), Review(lesson, bob, "SAFETY", "APPROVE"),
     Review(lesson, ann, "SAFETY", "APPROVE"), Review(drill, ann, "DOMAIN", "APPROVE"),
     Review(drill, bob, "SAFETY", "APPROVE"), Review(drill, bob, "DOMAIN", "REJECT")}

Symmetry == Permutations(Records)
=============================================================================
