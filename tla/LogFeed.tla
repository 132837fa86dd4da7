------------------------------- MODULE LogFeed --------------------------------
(***************************************************************************)
(* What a stream promises the page that follows a log, with no handlers,   *)
(* cursors, doorbells or connections in sight: lines are added behind all  *)
(* that are there and all that was delivered, and each that is delivered   *)
(* is the next one. WebClient follows such a feed.                         *)
(***************************************************************************)
EXTENDS Naturals

CONSTANT Ids

VARIABLES log,    \* the lines that there are
          last,   \* the line that was delivered last
          got     \* what was delivered since the page was loaded

feed == <<log, last, got>>

Init == log = {} /\ last = 0 /\ got = {}

\* The lines after the last one.
Rest == { i \in log : last < i }

\* A batch of lines: nobody has been given anything that comes after one of them.
Extend == /\ \E batch \in SUBSET Ids :
               /\ \A i \in batch : last < i /\ \A j \in log : j < i
               /\ log' = log \cup batch
          /\ UNCHANGED <<last, got>>

Deliver == /\ \E i \in Rest :
                /\ \A j \in Rest : i <= j
                /\ last' = i /\ got' = got \cup {i}
           /\ UNCHANGED log

Reload == last' = 0 /\ got' = {} /\ UNCHANGED log

Next == Extend \/ Deliver \/ Reload

Spec == Init /\ [][Next]_feed
===============================================================================
