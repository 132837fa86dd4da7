---------------------------- MODULE MCEventStream ----------------------------
(***************************************************************************)
(* Instances of EventStream for TLC.                                       *)
(***************************************************************************)
EXTENDS EventStream, TLC

\* Writers are interchangeable, and so are connections.
StreamSymmetry == Permutations(Writers) \cup Permutations(Streams)
===============================================================================
