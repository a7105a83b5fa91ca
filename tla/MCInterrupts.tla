------------------------------ MODULE MCInterrupts ------------------------------
(***************************************************************************)
(* What may go wrong while a call runs: interrupts that come from outside, *)
(* callbacks that make calls, attempts that fail, noding that does not     *)
(* settle, and a factory that others release.  One machine in a run: calls *)
(* of several threads, or the ladder of attempts of one call, or one       *)
(* iterated noding, or the life of one factory.                            *)
(***************************************************************************)
EXTENDS InterruptibleCalls, RobustAttempts, IteratedNoder, GeometryFactory

VARIABLE machine

allVars == << machine, vars, attemptVars, noderVars, lifeVars >>

InitAll == /\ machine \in {"calls", "attempts", "noding", "factory"}
           /\ Init /\ NothingCalled /\ NotNoding /\ NewFactory
NextAll ==
  /\ \/ machine = "calls" /\ Next /\ UNCHANGED << attemptVars, noderVars, lifeVars >>
     \/ machine = "attempts" /\ NextOfAttempts /\ UNCHANGED << vars, noderVars, lifeVars >>
     \/ machine = "noding" /\ NextOfNoder /\ UNCHANGED << vars, attemptVars, lifeVars >>
     \/ machine = "factory" /\ NextOfFactory /\ UNCHANGED << vars, attemptVars, noderVars >>
  /\ UNCHANGED machine
SpecAll == InitAll /\ [][NextAll]_allVars
=================================================================================
