------------------------------ MODULE SharedIndex ------------------------------
(***************************************************************************)
(* What the threads that share a filled spatial index are promised: the    *)
(* index holds its items from the start, calls do not disturb each other,  *)
(* and a call answers from all the items.  Nothing is said of a build.     *)
(***************************************************************************)
EXTENDS Naturals

CONSTANT Thread

VARIABLES contents,  \* the number of items in the index
          status,    \* "idle", "busy" or "done", for each thread
          answer     \* how many items the call of a thread drew on

vars == << contents, status, answer >>

Init == /\ contents \in Nat
        /\ status = [t \in Thread |-> "idle"]
        /\ answer = [t \in Thread |-> 0]

Call(t) == /\ status[t] = "idle"
           /\ status' = [status EXCEPT ![t] = "busy"]
           /\ UNCHANGED << contents, answer >>

Answer(t) == /\ status[t] = "busy"
             /\ status' = [status EXCEPT ![t] = "done"]
             /\ answer' = [answer EXCEPT ![t] = contents]
             /\ UNCHANGED contents

Return(t) == /\ status[t] = "done"
             /\ status' = [status EXCEPT ![t] = "idle"]
             /\ answer' = [answer EXCEPT ![t] = 0]
             /\ UNCHANGED contents

Next == \E t \in Thread : Call(t) \/ Answer(t) \/ Return(t)

Spec == Init /\ [][Next]_vars
===============================================================================
