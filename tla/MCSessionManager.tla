-------------------------- MODULE MCSessionManager --------------------------
(***************************************************************************)
(* Small instances of SessionManager: task t1 has two sessions, so a       *)
(* second spawn can meet what the first one's teardown left behind.        *)
(***************************************************************************)
EXTENDS SessionInvariant

CONSTANTS t1, t2, s1, s2, s3, c1, c2

TwoTasks == s1 :> t1 @@ s2 :> t1 @@ s3 :> t2
TwoSingle == s1 :> t1 @@ s3 :> t2
(* The two sessions of t1 are alike. *)
Twins == Permutations({s1, s2})
OneColumn == [t \in Tasks |-> c1]
=============================================================================
