---------------------------- MODULE MCSiteServing ----------------------------
(***************************************************************************)
(* Instances of SiteServing for TLC.                                       *)
(***************************************************************************)
EXTENDS SiteServing, TLC

\* Requests are interchangeable, and so are sites.
VisitSymmetry == Permutations(Requests) \cup Permutations(Deployments)
===============================================================================
