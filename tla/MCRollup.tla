------------------------------ MODULE MCRollup ------------------------------
(***************************************************************************)
(* Scaled time for Rollup: one unit is a tick, a "minute" is 2 of them and *)
(* an "hour" 4.  The grace is two hours, as in the code.  The raw table    *)
(* keeps 14 units and the finest tier 18, so that some window is read from *)
(* each of the three tables (24 h and 30 d would only lengthen the run).   *)
(* A stop of 5 is longer than each threshold of the lane of the site.      *)
(***************************************************************************)
EXTENDS SiteLane

MCKeep == [s \in Sizes |-> IF s = 2 THEN 18 ELSE 20]
=============================================================================
