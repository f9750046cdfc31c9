------------------------- MODULE MCAccessReconcile -------------------------
(***************************************************************************)
(* Small instances of AccessReconcile: one access, requested once or       *)
(* twice, approved by one person, that comes and goes on the platform.     *)
(***************************************************************************)
EXTENDS AccessReconcile, MCAccessWorkflow

\* One approval by anyone who may decide, for a day.
OneApproval == <<[CatchAll EXCEPT !.maximumDays = 1]>>
\* The two references are interchangeable.
TwoReferences == Permutations({r1, r2})

\* GitLab may report an end with an access.
EndOrNone == {Unset, 0}
==============================================================================
