-------------------------- MODULE MCSTRtreeLazyBuild --------------------------
(* Instances of STRtreeLazyBuild for TLC. *)
EXTENDS STRtreeLazyBuild, TLC

\* Threads are interchangeable; used only where no liveness is checked.
ThreadSymmetry == Permutations(Thread)
===============================================================================
