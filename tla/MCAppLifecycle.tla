--------------------------- MODULE MCAppLifecycle ---------------------------
(***************************************************************************)
(* Instances of AppLifecycle for TLC: what the PADs of the small instances *)
(* declare.  Every instance takes its PADs from {"p1", "p2"}, its userroles*)
(* from {"r1", "r2"} and its constants from {"c1", "c2"}.                  *)
(***************************************************************************)
EXTENDS AppLifecycle, TLC

\* p1 declares c1, which has a default; p2 also declares c2, which has none.
MCDeclares == [p \in Pads |-> ConstNames \cap (IF p = "p1" THEN {"c1"} ELSE {"c1", "c2"})]
MCDefaulted == ConstNames \cap {"c1"}

\* p2 drops the userrole r2 of p1.
MCRolesIn == [p \in Pads |-> UserRoles \cap (IF p = "p1" THEN {"r1", "r2"} ELSE {"r1"})]

Symmetry == Permutations(Workers)
=============================================================================
