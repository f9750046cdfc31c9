---------------------------- MODULE MCFindingEngine ----------------------------
(***************************************************************************)
(* Small instances of FindingEngine.                                       *)
(***************************************************************************)
EXTENDS FindingEngine, TLC

CONSTANTS s1, s2, y1, y2, e1, e2

\* The account is on the first platform; a run covers all platforms or the other one.
OnePlatform == [s \in {s1} |-> y1]
AllOrOther == {{y1, y2}, {y2}}
==============================================================================
