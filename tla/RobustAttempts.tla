---------------------------- MODULE RobustAttempts ----------------------------
(***************************************************************************)
(* The ladders of attempts that overlay, union and buffer climb down when  *)
(* floating-point geometry fails: OverlayNGRobust::Overlay, BufferOp, and  *)
(* ClassicUnionStrategy::Union, which goes from the one to the other.      *)
(*                                                                         *)
(* An attempt is one run of OverlayNG or BufferBuilder; whether it gives a *)
(* result or throws, and what, is chosen from outside.  Every attempt asks *)
(* several times whether it is to be interrupted.  Only what exceptions    *)
(* there are, who catches which, and what is tried next is left.           *)
(***************************************************************************)
EXTENDS Integers, Sequences, FiniteSets

CONSTANTS
  NUM_SNAP_TRIES,
  MAX_PRECISION_DIGITS, MIN_PRECISION_DIGITS,
  MaxAsked      \* bound: requests to interrupt

\* In the code 5 tolerances, and 12 down to 6 digits.
ASSUME SomeTriesAssumption ==
  /\ NUM_SNAP_TRIES \in Nat \ {0}
  /\ MIN_PRECISION_DIGITS \in Int /\ MAX_PRECISION_DIGITS \in Int
  /\ MIN_PRECISION_DIGITS <= MAX_PRECISION_DIGITS

VARIABLES
  call,           \* what was called, and of its arguments what matters
  rung,           \* the attempt that is next, "idle" or "answered"
  level,          \* tolerances tried, or digits left
  exOriginal,     \* of OverlayNGRobust: the first exception
  saveException,  \* of BufferOp: the last one
  answer,
  asking,         \* a request: "once" (Interrupt) or "always" (a thread's callback)
  asked,          \* how many there were
  failures        \* history: what failed in this call, and how

attemptVars == <<call, rung, level, exOriginal, saveException, answer, asking, asked, failures>>

------------------------------------------------------------------------------
(***************************************************************************)
(* Exceptions.  All but bad_alloc are std::runtime_errors; an exception    *)
(* copied into one is no longer what it was, only its text is.             *)
(***************************************************************************)
Type == {"TopologyException", "InterruptedException", "GEOSException", "bad_alloc", "runtime_error"}
Thrown == Type \ {"runtime_error"}
Exception(type) == [type |-> type, text |-> type]
NoException == [type |-> "runtime_error", text |-> ""]

Sliced(ex) == [ex EXCEPT !.type = "runtime_error"]
isRuntimeError(ex) == ex.type # "bad_alloc"

\* mutated form of isTopology: a catch that is too wide
isTopologyOrOther(ex) == isRuntimeError(ex)

isTopology(ex) == ex.type = "TopologyException"

Calls == [op : {"overlay", "union", "buffer"}, fixed : BOOLEAN, curved : BOOLEAN,
          areas : BOOLEAN, finite : BOOLEAN]
NoCall == [op |-> "none"]
NoAnswer == [kind |-> "none"]
Result == [kind |-> "result", rung |-> rung, level |-> level]

OverlayRungs == {"fixed", "floating", "snapping", "snapSelf0", "snapSelf1", "snapBoth", "rounding"}
BufferRungs == {"original", "fixedPrecision", "reduced"}

NothingCalled ==
  /\ call = NoCall /\ rung = "idle" /\ level = 0 /\ answer = NoAnswer /\ failures = <<>>
  /\ exOriginal = NoException /\ saveException = NoException
  /\ asking = "no" /\ asked = 0

Request(how) ==
  /\ asked < MaxAsked /\ asking = "no"
  /\ asking' = how /\ asked' = asked + 1
  /\ UNCHANGED <<call, rung, level, exOriginal, saveException, answer, failures>>

Cancel ==
  /\ asking # "no" /\ asking' = "no"
  /\ UNCHANGED <<call, rung, level, exOriginal, saveException, answer, asked, failures>>

Overlaying == call.op # "buffer" /\ rung \in OverlayRungs

FirstRung(c) == IF c.op = "buffer" THEN "original" ELSE IF c.fixed THEN "fixed" ELSE "floating"

\* A distance that is not finite is refused at once.
BeginCall(c) ==
  /\ rung = "idle" /\ call' = c
  /\ IF c.op = "buffer" /\ ~c.finite
     THEN rung' = "answered" /\ answer' = [kind |-> "thrown", ex |-> Exception("GEOSException")]
     ELSE rung' = FirstRung(c) /\ UNCHANGED answer
  /\ UNCHANGED <<level, exOriginal, saveException, asking, asked, failures>>

------------------------------------------------------------------------------
Goto(r, l) == rung' = r /\ level' = l /\ UNCHANGED answer
Throw(ex) == rung' = "answered" /\ answer' = [kind |-> "thrown", ex |-> ex] /\ UNCHANGED level

\* Only a topology exception of the overlay of two areas leads to buffer(0).
caught(ex) == Overlaying /\ call.op = "union" /\ isTopology(ex) /\ call.areas

\* ClassicUnionStrategy::Union around the overlay.
ThrowOut(ex) == IF caught(ex) THEN Goto("original", level) ELSE Throw(ex)

Succeeds(r) ==
  /\ rung = r /\ rung' = "answered" /\ answer' = Result
  /\ UNCHANGED <<call, level, exOriginal, saveException, asking, asked, failures>>

\* The attempt at rung r throws ex: an interrupt when, and as long as, someone asks.
Fails(r, ex) ==
  /\ rung = r
  /\ ex.type = "InterruptedException" => asking # "no"
  /\ asking' = IF ex.type = "InterruptedException" /\ asking = "once" THEN "no" ELSE asking
  /\ failures' = Append(failures, [rung |-> rung, level |-> level, ex |-> ex])
  /\ UNCHANGED <<call, asked>>

\* A failure that this rung does not catch.
Escapes(r, ex) == Fails(r, ex) /\ ThrowOut(ex) /\ UNCHANGED <<exOriginal, saveException>>

------------------------------------------------------------------------------
(***************************************************************************)
(* OverlayNGRobust                                                         *)
(***************************************************************************)
FixedFails(ex) == Escapes("fixed", ex)

retried(ex) == isRuntimeError(ex) /\ ~call.curved

FloatingFails(ex) ==
  /\ Fails("floating", ex)
  /\ IF retried(ex)
     THEN exOriginal' = ex /\ Goto("snapping", 0)
     ELSE ThrowOut(ex) /\ UNCHANGED exOriginal
  /\ UNCHANGED saveException

\* mutated form of NextTolerance: one too few
NextToleranceTooFew ==
  IF level + 2 < NUM_SNAP_TRIES THEN Goto("snapping", level + 1) ELSE Goto("rounding", 0)

NextTolerance ==
  IF level + 1 < NUM_SNAP_TRIES THEN Goto("snapping", level + 1) ELSE Goto("rounding", 0)

SnappingFails(ex) ==
  /\ Fails("snapping", ex)
  /\ IF isTopology(ex) THEN Goto("snapSelf0", level) ELSE ThrowOut(ex)
  /\ UNCHANGED <<exOriginal, saveException>>

SnapSelfSucceeds(r, next) ==
  /\ rung = r /\ Goto(next, level)
  /\ UNCHANGED <<call, exOriginal, saveException, asking, asked, failures>>

\* One of the three attempts of overlaySnapBoth.
SnapBothFails(r, ex) ==
  /\ Fails(r, ex)
  /\ IF isTopology(ex) THEN NextTolerance ELSE ThrowOut(ex)
  /\ UNCHANGED <<exOriginal, saveException>>

RoundingFails(ex) ==
  /\ Fails("rounding", ex)
  /\ ThrowOut(IF isTopology(ex) THEN Sliced(exOriginal) ELSE ex)
  /\ UNCHANGED <<exOriginal, saveException>>

------------------------------------------------------------------------------
(***************************************************************************)
(* BufferOp                                                                *)
(***************************************************************************)
OriginalFails(ex) ==
  /\ Fails("original", ex)
  /\ IF isTopology(ex)
     THEN /\ saveException' = ex
          /\ IF call.fixed THEN Goto("fixedPrecision", 0) ELSE Goto("reduced", MAX_PRECISION_DIGITS)
     ELSE Throw(ex) /\ UNCHANGED saveException
  /\ UNCHANGED exOriginal

FixedPrecisionFails(ex) == Escapes("fixedPrecision", ex)

\* mutated form of FewerDigits: goes on below the least precision
FewerDigitsThanLeast == level >= MIN_PRECISION_DIGITS

FewerDigits == level - 1 >= MIN_PRECISION_DIGITS

ReducedFails(ex) ==
  /\ Fails("reduced", ex)
  /\ IF isTopology(ex)
     THEN saveException' = ex /\ (IF FewerDigits THEN Goto("reduced", level - 1) ELSE Throw(ex))
     ELSE Throw(ex) /\ UNCHANGED saveException
  /\ UNCHANGED exOriginal

------------------------------------------------------------------------------
EndCall ==
  /\ rung = "answered" /\ rung' = "idle" /\ call' = NoCall /\ level' = 0
  /\ answer' = NoAnswer /\ failures' = <<>>
  /\ exOriginal' = NoException /\ saveException' = NoException
  /\ UNCHANGED <<asking, asked>>

Attempt ==
  \/ \E r \in (OverlayRungs \cup BufferRungs) \ {"snapSelf0", "snapSelf1"} : Succeeds(r)
  \/ SnapSelfSucceeds("snapSelf0", "snapSelf1")
  \/ SnapSelfSucceeds("snapSelf1", "snapBoth")
  \/ \E type \in Thrown :
       LET ex == Exception(type)
       IN  \/ FixedFails(ex) \/ FloatingFails(ex) \/ SnappingFails(ex) \/ RoundingFails(ex)
           \/ \E r \in {"snapSelf0", "snapSelf1", "snapBoth"} : SnapBothFails(r, ex)
           \/ OriginalFails(ex) \/ FixedPrecisionFails(ex) \/ ReducedFails(ex)

NextOfAttempts == \/ \E c \in Calls : BeginCall(c)
                  \/ Attempt \/ EndCall
                  \/ \E how \in {"once", "always"} : Request(how)
                  \/ Cancel

AttemptsSpec == NothingCalled /\ [][NextOfAttempts]_attemptVars

------------------------------------------------------------------------------
(***************************************************************************)
(* Everything a call may try, in order.  Both geometries are snapped, and  *)
(* then overlaid, as one try.                                              *)
(***************************************************************************)
Tries == [k \in 1..(2 * NUM_SNAP_TRIES) |->
            <<IF k % 2 = 1 THEN "snapping" ELSE "snapBoth", (k - 1) \div 2>>]
WaysToOverlay(c) ==
  IF c.fixed THEN <<<<"fixed", 0>>>>
  ELSE IF c.curved THEN <<<<"floating", 0>>>>
  ELSE <<<<"floating", 0>>>> \o Tries \o <<<<"rounding", 0>>>>
WaysToBuffer(c) ==
  <<<<"original", 0>>>> \o
    IF c.fixed THEN <<<<"fixedPrecision", 0>>>>
    ELSE [k \in 1..(MAX_PRECISION_DIGITS - MIN_PRECISION_DIGITS + 1) |->
            <<"reduced", MAX_PRECISION_DIGITS + 1 - k>>]
Ways(c) ==
  CASE c.op = "overlay" -> WaysToOverlay(c)
    [] c.op = "buffer" -> WaysToBuffer(c)
    [] c.op = "union" -> WaysToOverlay(c) \o
         (IF c.areas THEN WaysToBuffer(c) ELSE <<>>)

Way(failure) ==
  <<IF failure.rung \in {"snapSelf0", "snapSelf1"} THEN "snapBoth" ELSE failure.rung, failure.level>>

\* OverlayNGRobust gives up, and throws a copy of its first exception.
GivesUp(failure) == failure.rung = "rounding" /\ isTopology(failure.ex)

(***************************************************************************)
(* Overlay, union and buffer: nothing is skipped and nothing is tried      *)
(* twice; a call fails with a topology problem only when every way has     *)
(* failed, and then throws the last failure.  Where OverlayNGRobust gives  *)
(* up only the ways to overlay have failed, and what is thrown is no       *)
(* TopologyException: ClassicUnionStrategy::Union does not catch it, so a  *)
(* union in floating precision never gets as far as buffer(0).             *)
(***************************************************************************)
FailsOnlyWhenAllFail ==
  rung # "idle" =>
    /\ Len(failures) <= Len(Ways(call))
    /\ \A i \in DOMAIN failures : Way(failures[i]) = Ways(call)[i]
    /\ answer.kind = "thrown" /\ failures # <<>> =>
         LET last == failures[Len(failures)]
         IN  /\ isTopology(last.ex) =>
                  Len(failures) = Len(IF GivesUp(last) THEN WaysToOverlay(call) ELSE Ways(call))
             /\ answer.ex = IF GivesUp(last) THEN Sliced(failures[1].ex) ELSE last.ex

(***************************************************************************)
(* OverlayNGRobust.h: if the heuristics fail, the original Topology-       *)
(* Exception is thrown.  Not so: it is assigned to a std::runtime_error,   *)
(* and that is thrown.                                                     *)
(***************************************************************************)
ThrowsTheOriginal ==
  \A i \in DOMAIN failures :
    rung = "answered" /\ GivesUp(failures[i]) /\ isTopology(failures[1].ex) =>
      answer.ex = failures[1].ex

(***************************************************************************)
(* Any failure but a topology problem, an interrupt above all, ends the    *)
(* call at once and as what it is, unless it is the first attempt in       *)
(* floating precision that fails.                                          *)
(***************************************************************************)
Swallowed(failure) == failure.rung = "floating" /\ isRuntimeError(failure.ex) /\ ~call.curved
OthersEndTheCall ==
  \A i \in DOMAIN failures :
    failures[i].ex.type # "TopologyException" /\ ~Swallowed(failures[i]) =>
      i = Len(failures) /\ answer = [kind |-> "thrown", ex |-> failures[i].ex]

(***************************************************************************)
(* Interrupt.h: operations will be terminated by an interrupt exception at *)
(* first occasion.  Not so: Overlay() takes it for a failed attempt, goes  *)
(* on, and may return a result.                                            *)
(***************************************************************************)
InterruptEndsCall ==
  \A i \in DOMAIN failures :
    failures[i].ex.type = "InterruptedException" /\ rung = "answered" =>
      answer = [kind |-> "thrown", ex |-> failures[i].ex]
===============================================================================
