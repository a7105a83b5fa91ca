-------------------------- MODULE InterruptibleCalls --------------------------
(***************************************************************************)
(* Calls of the reentrant C API and how they are interrupted.              *)
(*                                                                         *)
(* execute() wraps every call: it notes the interrupt callback of its      *)
(* context, registers it for the thread while the function runs, and takes *)
(* it out on the way back, whether the function returns or throws.  The    *)
(* overload for functions without a result drops its InterruptManager      *)
(* before it runs the function; none of these functions checks for         *)
(* interrupts, some call a visitor.  (NotInterruptible, for functions that *)
(* never check, registers nothing; such calls are left out.)  A callback   *)
(* of the user, an interrupt or progress callback or a visitor, may make   *)
(* calls of its own, so the calls of a thread form a stack.                *)
(*                                                                         *)
(* GEOS_CHECK_FOR_INTERRUPTS first looks at the process-wide request,      *)
(* which it resets in a step of its own, then asks the thread's callback.  *)
(***************************************************************************)
EXTENDS Naturals, Sequences

CONSTANTS Thread, Context, NoContext,
          MaxDepth,     \* bound: calls nested in one thread
          MaxRequests   \* bound: calls of GEOS_interruptRequest

ASSUME ContextAssumption == NoContext \notin Context
ASSUME BoundAssumption == MaxRequests \in Nat

VARIABLES requested,       \* Interrupt.cpp: a request is pending
          callback_thread, \* per thread: the context whose callback is registered
          interrupt_cb,    \* per context: whether it has an interrupt callback
          calls,           \* per thread: the running calls, innermost last
          requests, interruptions  \* requests made, and calls these stopped

interruptVars == << requested, requests, interruptions >>
vars == << interruptVars, callback_thread, interrupt_cb, calls >>

\* Where a call is: in its function, in one that never checks, about to throw
\* for the request it saw, about to ask the callback, or waiting for its answer.
Place == {"run", "visit", "requested", "ask", "asked"}
InUserCode == {"run", "visit", "asked"}

Running(t) == calls[t] # << >>
Innermost(t) == calls[t][Len(calls[t])]
At(t, place) == Running(t) /\ Innermost(t).at = place
GoTo(t, place) == calls' = [calls EXCEPT ![t][Len(calls[t])].at = place]
CallbackOf(c) == IF interrupt_cb[c] THEN c ELSE NoContext

\* A running call: its context, the callback its InterruptManager holds, where
\* it is, and, a history, whether a call nested in it has registered a callback.
Call(c, cb, at) == [context |-> c, cb |-> cb, at |-> at, disturbed |-> FALSE]

\* A context is used by one thread at a time, and by a thread that runs code of
\* the user: between two calls, or in a callback or visitor of one.
MayUse(t, c) ==
  /\ Running(t) => Innermost(t).at \in InUserCode
  /\ \A u \in Thread \ {t} : \A k \in DOMAIN calls[u] : calls[u][k].context # c

Init == /\ requested = FALSE /\ requests = 0 /\ interruptions = 0
        /\ callback_thread = [t \in Thread |-> NoContext]
        /\ interrupt_cb = [c \in Context |-> FALSE]
        /\ calls = [t \in Thread |-> << >>]

-------------------------------------------------------------------------------
\* GEOSContext_setInterruptCallback_r, also from a callback of a running call
setInterruptHandler(t, c) ==
  /\ MayUse(t, c)
  /\ \E cb \in BOOLEAN : interrupt_cb' = [interrupt_cb EXCEPT ![c] = cb]
  /\ UNCHANGED << interruptVars, callback_thread, calls >>

\* GEOS_interruptRequest, from a signal handler, a callback or another thread
request == /\ requests < MaxRequests
           /\ requested' = TRUE
           /\ requests' = requests + 1
           /\ UNCHANGED << interruptions, callback_thread, interrupt_cb, calls >>

\* GEOS_interruptCancel, and GEOS_init_r
cancel == /\ requested' = FALSE
          /\ UNCHANGED << requests, interruptions, callback_thread, interrupt_cb, calls >>

\* The calls around one that registers or takes out a callback.
Disturbed(stack) == [k \in DOMAIN stack |-> [stack[k] EXCEPT !.disturbed = TRUE]]

\* A call of context c whose InterruptManager noted a callback and whose function,
\* at the place given, runs under cbDuring.
Enter(t, c, noted, cbDuring, at) ==
  LET cb == CallbackOf(c)
      around == IF cb = NoContext THEN calls[t] ELSE Disturbed(calls[t])
  IN  /\ Len(calls[t]) < MaxDepth
      /\ calls' = [calls EXCEPT ![t] = Append(around, Call(c, noted, at))]
      /\ callback_thread' = IF cb = NoContext THEN callback_thread
                            ELSE [callback_thread EXCEPT ![t] = cbDuring]
      /\ UNCHANGED << interruptVars, interrupt_cb >>

\* mutated form of execute: the callback is taken out before the function runs
executeDropping(t, c) == MayUse(t, c) /\ Enter(t, c, CallbackOf(c), NoContext, "run")

\* execute(), for functions with a result
execute(t, c) == MayUse(t, c) /\ Enter(t, c, CallbackOf(c), CallbackOf(c), "run")

\* execute(), for functions without: registered and taken out again at once
executeVoid(t, c) == MayUse(t, c) /\ Enter(t, c, NoContext, NoContext, "visit")

\* mutated form of Leave: only a normal return takes the callback out
LeaveRegistered(t) ==
  /\ calls' = [calls EXCEPT ![t] = SubSeq(calls[t], 1, Len(calls[t]) - 1)]
  /\ callback_thread' = IF Innermost(t).cb = NoContext \/ ~At(t, "run") THEN callback_thread
                        ELSE [callback_thread EXCEPT ![t] = NoContext]

\* The end of execute(): ~InterruptManager, and the exception is caught.
Leave(t) ==
  /\ calls' = [calls EXCEPT ![t] = SubSeq(calls[t], 1, Len(calls[t]) - 1)]
  /\ callback_thread' = IF Innermost(t).cb = NoContext THEN callback_thread
                        ELSE [callback_thread EXCEPT ![t] = NoContext]

\* The function returns, or throws for a reason of its own.
Return(t) == /\ At(t, "run") \/ At(t, "visit")
             /\ Leave(t)
             /\ UNCHANGED << interruptVars, interrupt_cb >>

\* Interrupt::process: check()
check(t) == /\ At(t, "run")
            /\ GoTo(t, IF requested THEN "requested" ELSE "ask")
            /\ UNCHANGED << interruptVars, callback_thread, interrupt_cb >>

\* Interrupt::interrupt resets the request and throws.
interrupt(t) == /\ At(t, "requested")
                /\ requested' = FALSE
                /\ interruptions' = interruptions + 1
                /\ Leave(t)
                /\ UNCHANGED << requests, interrupt_cb >>

\* CurrentThreadInterrupt::process calls the registered callback, if any.
process(t) == /\ At(t, "ask")
              /\ GoTo(t, IF callback_thread[t] = NoContext THEN "run" ELSE "asked")
              /\ UNCHANGED << interruptVars, callback_thread, interrupt_cb >>

\* The callback answers: go on, or CurrentThreadInterrupt::interrupt throws.
Answered(t) == /\ At(t, "asked")
               /\ \/ GoTo(t, "run") /\ UNCHANGED callback_thread
                  \/ Leave(t)
               /\ UNCHANGED << interruptVars, interrupt_cb >>

Next == \/ request \/ cancel
        \/ \E t \in Thread :
             \/ Return(t) \/ check(t) \/ interrupt(t) \/ process(t) \/ Answered(t)
             \/ \E c \in Context :
                  setInterruptHandler(t, c) \/ execute(t, c) \/ executeVoid(t, c)

Spec == Init /\ [][Next]_vars

-------------------------------------------------------------------------------
\* Types; a call that waits for calls nested in it waits in code of the user.
TypeOK ==
  /\ requested \in BOOLEAN /\ requests \in 0 .. MaxRequests /\ interruptions \in Nat
  /\ callback_thread \in [Thread -> Context \cup {NoContext}]
  /\ interrupt_cb \in [Context -> BOOLEAN]
  /\ calls \in [Thread -> Seq([context : Context, cb : Context \cup {NoContext},
                               at : Place, disturbed : BOOLEAN])]
  /\ \A t \in Thread : \A k \in 1 .. Len(calls[t]) - 1 : calls[t][k].at \in InUserCode

(***************************************************************************)
(* Whatever returns, throws or is nested, the callback registered for a    *)
(* thread is that of a call still running in it: no thread keeps the       *)
(* callback, and the data pointer, of a call that is over.                 *)
(***************************************************************************)
NoStaleCallback ==
  \A t \in Thread : callback_thread[t] # NoContext =>
    \E k \in DOMAIN calls[t] : calls[t][k].cb = callback_thread[t]

(***************************************************************************)
(* Whom a check for interrupts asks, in every call: the callback of the    *)
(* call that noted one last, until another is registered in a call nested  *)
(* in it; after that nobody, also when the nested call is over.  A call    *)
(* without a result, or of a context without a callback, notes none: it    *)
(* runs under what is registered around it, which the former takes out.    *)
(***************************************************************************)
Noted(t) == {k \in DOMAIN calls[t] : calls[t][k].cb # NoContext}
AskedIsNewest ==
  \A t \in Thread :
    /\ \A k \in Noted(t) : ~calls[t][k].disturbed => callback_thread[t] = calls[t][k].cb
    /\ (\A k \in Noted(t) : calls[t][k].disturbed) => callback_thread[t] = NoContext

(***************************************************************************)
(* geos_c.h of GEOSContext_setInterruptCallback_r: the function is called  *)
(* when a possible interruption point is reached in code executed in the   *)
(* context.  Not so in a call after another that one of its callbacks or   *)
(* visitors made: that takes out what is registered and restores nothing.  *)
(***************************************************************************)
ContextCallbackAsked ==
  \A t \in Thread : At(t, "ask") /\ Innermost(t).cb # NoContext
    => callback_thread[t] = Innermost(t).cb

(***************************************************************************)
(* geos_c.h of GEOS_interruptRequest: the next thread to check for an      *)
(* interrupt will be interrupted.  One request stops one call.             *)
(***************************************************************************)
OneRequestStopsOneCall == interruptions <= requests
===============================================================================
