----------------------------- MODULE MCPolicies -----------------------------
(***************************************************************************)
(* The policies of one repository, edited in two forms.  The forms are     *)
(* interchangeable, and so are the policies they save.                     *)
(***************************************************************************)
EXTENDS Policies, TLC

Symmetry == Permutations(Editors) \cup Permutations(Payloads)
=============================================================================
