------------------------------ MODULE MCSession ------------------------------
(* Small instances of Session for TLC. *)
EXTENDS Session, TLC

CONSTANTS s1, s2, ann, bob, noUser, boxA, boxB

\* Ann and bob with a maildir each, and the two sharing one: what
\* create_for_user makes of two accounts that differ in the domain alone.
OwnMaildirs == ann :> boxA @@ bob :> boxB
SharedMaildir == [u \in Users |-> boxA]

\* Connections are interchangeable, and so are two accounts each with its own
\* maildir, as long as the maildirs change places with them.
SessionSymmetry ==
  Permutations(Sessions) \cup
    {ann :> bob @@ bob :> ann @@ boxA :> boxB @@ boxB :> boxA}
=============================================================================
