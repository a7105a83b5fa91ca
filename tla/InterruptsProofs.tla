--------------------------- MODULE InterruptsProofs ---------------------------
(***************************************************************************)
(* Proofs about InterruptibleCalls, for any threads, contexts and depth;   *)
(* about RobustAttempts, for any number of tolerances and any range of     *)
(* digits; and about IteratedNoder, for any numbers of nodes.              *)
(***************************************************************************)
EXTENDS InterruptibleCalls, RobustAttempts, IteratedNoder, TLAPS

CallRecord == [context : Context, cb : Context \cup {NoContext},
               at : Place, disturbed : BOOLEAN]

\* A callback registered since a call began marks that call.
RegisteringDisturbs ==
  \A t \in Thread : \A k, j \in DOMAIN calls[t] :
    k < j /\ calls[t][j].cb # NoContext => calls[t][k].disturbed

\* AskedIsNewest: the callback of an undisturbed call is the registered one, and
\* the registered one is that of an undisturbed call.
UndisturbedOwn ==
  \A t \in Thread : \A k \in DOMAIN calls[t] :
    ~calls[t][k].disturbed /\ calls[t][k].cb # NoContext
      => callback_thread[t] = calls[t][k].cb

RegisteredIsUndisturbed ==
  \A t \in Thread : callback_thread[t] # NoContext =>
    \E k \in DOMAIN calls[t] :
      ~calls[t][k].disturbed /\ calls[t][k].cb = callback_thread[t]

\* What the invariant says of the stacks and the registered callbacks.
StackInv ==
  /\ callback_thread \in [Thread -> Context \cup {NoContext}]
  /\ calls \in [Thread -> Seq(CallRecord)]
  /\ \A t \in Thread : \A k \in 1 .. Len(calls[t]) - 1 : calls[t][k].at \in InUserCode
  /\ RegisteringDisturbs
  /\ UndisturbedOwn
  /\ RegisteredIsUndisturbed

IInv == TypeOK /\ StackInv

-------------------------------------------------------------------------------
\* What the three changes of a stack of calls leave alone.
LEMMA SetLast ==
  ASSUME NEW s \in Seq(CallRecord), s # << >>, NEW p \in Place
  PROVE  LET r == [s EXCEPT ![Len(s)].at = p]
         IN  /\ r \in Seq(CallRecord) /\ Len(r) = Len(s)
             /\ \A k \in DOMAIN s : /\ r[k].cb = s[k].cb
                                    /\ r[k].disturbed = s[k].disturbed
                                    /\ k # Len(s) => r[k] = s[k]
<1> DEFINE n == Len(s)
           r == [s EXCEPT ![n].at = p]
<1>1. n \in Nat \ {0} /\ DOMAIN s = 1 .. n /\ s \in [1 .. n -> CallRecord]
  OBVIOUS
<1>2. [s[n] EXCEPT !.at = p] \in CallRecord
      /\ [s[n] EXCEPT !.at = p].cb = s[n].cb
      /\ [s[n] EXCEPT !.at = p].disturbed = s[n].disturbed
  BY <1>1 DEF CallRecord
<1>3. r \in [1 .. n -> CallRecord]
  BY <1>1, <1>2
<1>4. r \in Seq(CallRecord) /\ Len(r) = n
  BY <1>1, <1>3
<1>5. \A k \in 1 .. n : r[k] = IF k = n THEN [s[n] EXCEPT !.at = p] ELSE s[k]
  BY <1>1
<1> QED
  BY <1>1, <1>2, <1>4, <1>5

LEMMA DropLast ==
  ASSUME NEW s \in Seq(CallRecord), s # << >>
  PROVE  LET r == SubSeq(s, 1, Len(s) - 1)
         IN  /\ r \in Seq(CallRecord) /\ Len(r) = Len(s) - 1
             /\ \A k \in 1 .. Len(s) - 1 : r[k] = s[k]
<1>1. Len(s) \in Nat \ {0} /\ s \in [1 .. Len(s) -> CallRecord]
  OBVIOUS
<1>2. SubSeq(s, 1, Len(s) - 1) = [k \in 1 .. Len(s) - 1 |-> s[k]]
  BY <1>1
<1>3. [k \in 1 .. Len(s) - 1 |-> s[k]] \in [1 .. Len(s) - 1 -> CallRecord]
  BY <1>1
<1> QED
  BY <1>1, <1>2, <1>3

LEMMA DisturbedStack ==
  ASSUME NEW s \in Seq(CallRecord)
  PROVE  /\ Disturbed(s) \in Seq(CallRecord) /\ Len(Disturbed(s)) = Len(s)
         /\ \A k \in DOMAIN s : /\ Disturbed(s)[k].disturbed
                                /\ Disturbed(s)[k].cb = s[k].cb
                                /\ Disturbed(s)[k].at = s[k].at
<1>1. Len(s) \in Nat /\ DOMAIN s = 1 .. Len(s) /\ s \in [1 .. Len(s) -> CallRecord]
  OBVIOUS
<1>2. \A k \in 1 .. Len(s) : [s[k] EXCEPT !.disturbed = TRUE] \in CallRecord
                             /\ [s[k] EXCEPT !.disturbed = TRUE].disturbed = TRUE
                             /\ [s[k] EXCEPT !.disturbed = TRUE].cb = s[k].cb
                             /\ [s[k] EXCEPT !.disturbed = TRUE].at = s[k].at
  BY <1>1 DEF CallRecord
<1>3. Disturbed(s) \in [1 .. Len(s) -> CallRecord]
      /\ \A k \in 1 .. Len(s) : Disturbed(s)[k] = [s[k] EXCEPT !.disturbed = TRUE]
  BY <1>1, <1>2 DEF Disturbed
<1>4. Disturbed(s) \in Seq(CallRecord) /\ Len(Disturbed(s)) = Len(s)
  BY <1>1, <1>3
<1> QED
  BY <1>1, <1>2, <1>3, <1>4

-------------------------------------------------------------------------------
\* The three changes as steps of one thread.
LEMMA GoToStep ==
  ASSUME TypeOK, NEW t \in Thread, Running(t), NEW p \in Place, GoTo(t, p)
  PROVE  /\ calls' \in [Thread -> Seq(CallRecord)]
         /\ \A u \in Thread \ {t} : calls'[u] = calls[u]
         /\ Len(calls'[t]) = Len(calls[t]) /\ DOMAIN calls'[t] = DOMAIN calls[t]
         /\ \A k \in DOMAIN calls[t] : /\ calls'[t][k].cb = calls[t][k].cb
                                       /\ calls'[t][k].disturbed = calls[t][k].disturbed
                                       /\ k # Len(calls[t]) => calls'[t][k] = calls[t][k]
<1>1. calls \in [Thread -> Seq(CallRecord)] /\ calls[t] \in Seq(CallRecord)
      /\ calls[t] # << >>
  BY DEF TypeOK, CallRecord, Running
<1>2. calls' = [calls EXCEPT ![t] = [calls[t] EXCEPT ![Len(calls[t])].at = p]]
  BY <1>1 DEF GoTo
<1>3. calls'[t] = [calls[t] EXCEPT ![Len(calls[t])].at = p]
      /\ \A u \in Thread \ {t} : calls'[u] = calls[u]
  BY <1>1, <1>2
<1>4. calls'[t] \in Seq(CallRecord) /\ Len(calls'[t]) = Len(calls[t])
      /\ \A k \in DOMAIN calls[t] : /\ calls'[t][k].cb = calls[t][k].cb
                                    /\ calls'[t][k].disturbed = calls[t][k].disturbed
                                    /\ k # Len(calls[t]) => calls'[t][k] = calls[t][k]
  BY <1>1, <1>3, SetLast
<1>5. DOMAIN calls'[t] = DOMAIN calls[t]
  BY <1>1, <1>4
<1>6. calls' \in [Thread -> Seq(CallRecord)]
  BY <1>1, <1>2, <1>3, <1>4
<1> QED
  BY <1>3, <1>4, <1>5, <1>6

LEMMA LeaveStep ==
  ASSUME TypeOK, NEW t \in Thread, Running(t), Leave(t)
  PROVE  /\ calls' \in [Thread -> Seq(CallRecord)]
         /\ \A u \in Thread \ {t} : calls'[u] = calls[u]
         /\ Len(calls'[t]) = Len(calls[t]) - 1
         /\ \A k \in DOMAIN calls'[t] : k \in DOMAIN calls[t] \ {Len(calls[t])}
                                        /\ calls'[t][k] = calls[t][k]
         /\ \A k \in DOMAIN calls[t] \ {Len(calls[t])} : k \in DOMAIN calls'[t]
<1>1. calls \in [Thread -> Seq(CallRecord)] /\ calls[t] \in Seq(CallRecord)
      /\ calls[t] # << >>
  BY DEF TypeOK, CallRecord, Running
<1> DEFINE front == SubSeq(calls[t], 1, Len(calls[t]) - 1)
<1>2. front \in Seq(CallRecord) /\ Len(front) = Len(calls[t]) - 1
      /\ \A k \in 1 .. Len(calls[t]) - 1 : front[k] = calls[t][k]
  BY <1>1, DropLast
<1>3. calls' = [calls EXCEPT ![t] = front]
  BY DEF Leave
<1> HIDE DEF front
<1>4. calls'[t] = front /\ \A u \in Thread \ {t} : calls'[u] = calls[u]
  BY <1>1, <1>3
<1>5. DOMAIN calls'[t] = 1 .. Len(calls[t]) - 1 /\ DOMAIN calls[t] = 1 .. Len(calls[t])
      /\ Len(calls[t]) \in Nat
  BY <1>1, <1>2, <1>4
<1>6. /\ \A k \in DOMAIN calls'[t] : k \in DOMAIN calls[t] \ {Len(calls[t])}
                                     /\ calls'[t][k] = calls[t][k]
      /\ \A k \in DOMAIN calls[t] \ {Len(calls[t])} : k \in DOMAIN calls'[t]
  BY <1>2, <1>4, <1>5
<1>7. calls' \in [Thread -> Seq(CallRecord)]
  BY <1>1, <1>2, <1>3
<1> QED
  BY <1>2, <1>4, <1>6, <1>7

\* The callback of a context is its own, or none.
LEMMA CallbackOfType ==
  \A c \in Context : CallbackOf(c) \in Context \cup {NoContext}
  BY DEF CallbackOf

LEMMA EnterStep ==
  ASSUME TypeOK, NEW t \in Thread, NEW c \in Context,
         NEW noted \in Context \cup {NoContext}, NEW cbDuring, NEW at \in {"run", "visit"},
         Enter(t, c, noted, cbDuring, at)
  PROVE  /\ calls' \in [Thread -> Seq(CallRecord)]
         /\ \A u \in Thread \ {t} : calls'[u] = calls[u]
         /\ Len(calls'[t]) = Len(calls[t]) + 1 /\ DOMAIN calls'[t] = 1 .. Len(calls[t]) + 1
         /\ calls'[t][Len(calls[t]) + 1] = Call(c, noted, at)
         /\ \A k \in DOMAIN calls[t] :
              /\ k \in DOMAIN calls'[t] /\ calls'[t][k].cb = calls[t][k].cb
              /\ calls'[t][k].at = calls[t][k].at
              /\ CallbackOf(c) # NoContext => calls'[t][k].disturbed
              /\ CallbackOf(c) = NoContext => calls'[t][k] = calls[t][k]
<1> DEFINE around == IF CallbackOf(c) = NoContext THEN calls[t] ELSE Disturbed(calls[t])
<1>1. calls \in [Thread -> Seq(CallRecord)] /\ calls[t] \in Seq(CallRecord)
  BY DEF TypeOK, CallRecord
<1>2. around \in Seq(CallRecord) /\ Len(around) = Len(calls[t])
      /\ \A k \in DOMAIN calls[t] :
           /\ around[k].cb = calls[t][k].cb /\ around[k].at = calls[t][k].at
           /\ CallbackOf(c) # NoContext => around[k].disturbed
           /\ CallbackOf(c) = NoContext => around[k] = calls[t][k]
  BY <1>1, DisturbedStack
<1>3. Call(c, noted, at) \in CallRecord
  BY CallbackOfType DEF Call, CallRecord, Place
<1>4. calls' = [calls EXCEPT ![t] = Append(around, Call(c, noted, at))]
  BY DEF Enter
<1> HIDE DEF around
<1>5. calls'[t] = Append(around, Call(c, noted, at))
      /\ \A u \in Thread \ {t} : calls'[u] = calls[u]
  BY <1>1, <1>4
<1>6. calls'[t] \in Seq(CallRecord) /\ Len(calls'[t]) = Len(calls[t]) + 1
      /\ DOMAIN calls'[t] = 1 .. Len(calls[t]) + 1
      /\ calls'[t][Len(calls[t]) + 1] = Call(c, noted, at)
      /\ \A k \in DOMAIN calls[t] : k \in DOMAIN calls'[t] /\ calls'[t][k] = around[k]
  BY <1>1, <1>2, <1>3, <1>5
<1>7. calls' \in [Thread -> Seq(CallRecord)]
  BY <1>1, <1>4, <1>6
<1> QED
  BY <1>2, <1>5, <1>6, <1>7

-------------------------------------------------------------------------------
\* A step within a call changes nothing the invariant tells apart, if it stays
\* in the innermost call.
LEMMA GoToKeeps ==
  ASSUME IInv, NEW t \in Thread, Running(t), NEW p \in Place, GoTo(t, p),
         UNCHANGED callback_thread
  PROVE  StackInv'
<1>1. TypeOK /\ StackInv
  BY DEF IInv
<1>2. /\ calls' \in [Thread -> Seq(CallRecord)]
      /\ \A u \in Thread \ {t} : calls'[u] = calls[u]
      /\ Len(calls'[t]) = Len(calls[t]) /\ DOMAIN calls'[t] = DOMAIN calls[t]
      /\ \A k \in DOMAIN calls[t] : /\ calls'[t][k].cb = calls[t][k].cb
                                    /\ calls'[t][k].disturbed = calls[t][k].disturbed
                                    /\ k # Len(calls[t]) => calls'[t][k] = calls[t][k]
  BY <1>1, GoToStep
<1>3. \A u \in Thread : DOMAIN calls[u] = 1 .. Len(calls[u]) /\ Len(calls[u]) \in Nat
  BY <1>1 DEF StackInv
<1>4. \A u \in Thread : /\ DOMAIN calls'[u] = DOMAIN calls[u]
                        /\ \A k \in DOMAIN calls[u] :
                             /\ calls'[u][k].cb = calls[u][k].cb
                             /\ calls'[u][k].disturbed = calls[u][k].disturbed
  BY <1>2
<1>5. (\A u \in Thread : \A k \in 1 .. Len(calls[u]) - 1 : calls[u][k].at \in InUserCode)'
  <2> SUFFICES ASSUME NEW u \in Thread, NEW k \in 1 .. Len(calls'[u]) - 1
               PROVE  calls'[u][k].at \in InUserCode
    BY DEF InUserCode
  <2>1. k \in 1 .. Len(calls[u]) - 1 /\ k # Len(calls[u]) /\ k \in DOMAIN calls[u]
    BY <1>2, <1>3
  <2>2. calls'[u][k] = calls[u][k]
    BY <1>2, <2>1
  <2> QED
    BY <1>1, <2>1, <2>2 DEF StackInv
<1>6. RegisteringDisturbs'
  <2> SUFFICES ASSUME NEW u \in Thread, NEW k \in DOMAIN calls'[u], NEW j \in DOMAIN calls'[u],
                      k < j, calls'[u][j].cb # NoContext
               PROVE  calls'[u][k].disturbed
    BY DEF RegisteringDisturbs
  <2>1. calls[u][k].disturbed
    BY <1>1, <1>4 DEF StackInv, RegisteringDisturbs
  <2>2. calls'[u][k].disturbed = calls[u][k].disturbed
    BY <1>4
  <2> QED
    BY <2>1, <2>2
<1>7. UndisturbedOwn'
  <2> SUFFICES ASSUME NEW u \in Thread, NEW k \in DOMAIN calls'[u],
                      ~calls'[u][k].disturbed, calls'[u][k].cb # NoContext
               PROVE  callback_thread[u] = calls'[u][k].cb
    BY DEF UndisturbedOwn
  <2>1. k \in DOMAIN calls[u] /\ calls'[u][k].cb = calls[u][k].cb
        /\ calls'[u][k].disturbed = calls[u][k].disturbed
    BY <1>4
  <2>2. ~calls[u][k].disturbed
    BY <2>1
  <2> QED
    BY <1>1, <2>1, <2>2 DEF StackInv, UndisturbedOwn
<1>8. RegisteredIsUndisturbed'
  <2> SUFFICES ASSUME NEW u \in Thread, callback_thread[u] # NoContext
               PROVE  \E k \in DOMAIN calls'[u] :
                        ~calls'[u][k].disturbed /\ calls'[u][k].cb = callback_thread[u]
    BY DEF RegisteredIsUndisturbed
  <2>1. PICK k \in DOMAIN calls[u] :
          ~calls[u][k].disturbed /\ calls[u][k].cb = callback_thread[u]
    BY <1>1 DEF StackInv, RegisteredIsUndisturbed
  <2>2. calls'[u][k].disturbed = calls[u][k].disturbed /\ k \in DOMAIN calls'[u]
        /\ calls'[u][k].cb = calls[u][k].cb
    BY <1>4
  <2> QED BY <2>1, <2>2
<1> QED
  BY <1>1, <1>2, <1>5, <1>6, <1>7, <1>8 DEF StackInv

\* The end of a call: either it had registered a callback, then every call
\* around it is disturbed, or it had not, then nothing is taken out.
LEMMA LeaveKeeps ==
  ASSUME IInv, NEW t \in Thread, Running(t), Leave(t)
  PROVE  StackInv'
<1>1. TypeOK /\ StackInv
  BY DEF IInv
<1>2. /\ calls' \in [Thread -> Seq(CallRecord)]
      /\ \A u \in Thread \ {t} : calls'[u] = calls[u]
      /\ Len(calls'[t]) = Len(calls[t]) - 1
      /\ \A k \in DOMAIN calls'[t] : k \in DOMAIN calls[t] \ {Len(calls[t])}
                                     /\ calls'[t][k] = calls[t][k]
      /\ \A k \in DOMAIN calls[t] \ {Len(calls[t])} : k \in DOMAIN calls'[t]
  BY <1>1, LeaveStep
<1> DEFINE n == Len(calls[t])
<1>3. \A u \in Thread : DOMAIN calls[u] = 1 .. Len(calls[u]) /\ Len(calls[u]) \in Nat
  BY <1>1 DEF StackInv
<1>4. n \in DOMAIN calls[t] /\ Innermost(t) = calls[t][n]
  BY <1>1, <1>3 DEF StackInv, Running, Innermost
<1>5. \A u \in Thread : \A k \in DOMAIN calls'[u] :
        k \in DOMAIN calls[u] /\ calls'[u][k] = calls[u][k]
  BY <1>2
<1>6. /\ calls[t][n].cb = NoContext => callback_thread' = callback_thread
      /\ calls[t][n].cb # NoContext =>
           callback_thread' = [callback_thread EXCEPT ![t] = NoContext]
  BY <1>4 DEF Leave
<1>7. /\ callback_thread' \in [Thread -> Context \cup {NoContext}]
      /\ \A u \in Thread \ {t} : callback_thread'[u] = callback_thread[u]
      /\ calls[t][n].cb # NoContext => callback_thread'[t] = NoContext
  BY <1>1, <1>6 DEF StackInv
<1>8. (\A u \in Thread : \A k \in 1 .. Len(calls[u]) - 1 : calls[u][k].at \in InUserCode)'
  <2> SUFFICES ASSUME NEW u \in Thread, NEW k \in 1 .. Len(calls'[u]) - 1
               PROVE  calls'[u][k].at \in InUserCode
    BY DEF InUserCode
  <2>1. DOMAIN calls'[u] = 1 .. Len(calls'[u]) /\ Len(calls'[u]) \in Nat
    BY <1>2
  <2>2. calls'[u][k] = calls[u][k] /\ k \in 1 .. Len(calls[u]) - 1
    BY <1>2, <1>3, <1>5, <2>1
  <2> QED
    BY <1>1, <2>2 DEF StackInv
<1>9. RegisteringDisturbs'
  BY <1>1, <1>5 DEF StackInv, RegisteringDisturbs
<1>10. UndisturbedOwn'
  <2> SUFFICES ASSUME NEW u \in Thread, NEW k \in DOMAIN calls'[u],
                      ~calls'[u][k].disturbed, calls'[u][k].cb # NoContext
               PROVE  callback_thread'[u] = calls'[u][k].cb
    BY DEF UndisturbedOwn
  <2>1. callback_thread[u] = calls'[u][k].cb
    BY <1>1, <1>5 DEF StackInv, UndisturbedOwn
  <2>2. CASE u # t
    BY <1>7, <2>1, <2>2
  <2>3. CASE u = t
    <3>1. k \in DOMAIN calls[t] /\ k < n
      BY <1>2, <1>3, <2>3
    <3>2. calls[t][n].cb = NoContext
      BY <1>1, <1>4, <1>5, <2>3, <3>1 DEF StackInv, RegisteringDisturbs
    <3> QED
      BY <1>6, <2>1, <2>3, <3>2
  <2> QED
    BY <2>2, <2>3
<1>11. RegisteredIsUndisturbed'
  <2> SUFFICES ASSUME NEW u \in Thread, callback_thread'[u] # NoContext
               PROVE  \E k \in DOMAIN calls'[u] :
                        ~calls'[u][k].disturbed /\ calls'[u][k].cb = callback_thread'[u]
    BY DEF RegisteredIsUndisturbed
  <2>1. callback_thread'[u] = callback_thread[u]
    BY <1>6, <1>7
  <2>2. PICK k \in DOMAIN calls[u] :
          ~calls[u][k].disturbed /\ calls[u][k].cb = callback_thread[u]
    BY <1>1, <2>1 DEF StackInv, RegisteredIsUndisturbed
  <2>3. u = t => k # n
    BY <1>7, <2>1, <2>2
  <2>4. k \in DOMAIN calls'[u]
    BY <1>2, <2>3
  <2> QED
    BY <1>5, <2>1, <2>2, <2>4
<1> QED
  BY <1>2, <1>7, <1>8, <1>9, <1>10, <1>11 DEF StackInv

\* The start of a call: an overload of execute() either registers the callback
\* it holds, or holds none and leaves none registered.
LEMMA EnterKeeps ==
  ASSUME IInv, NEW t \in Thread, NEW c \in Context, MayUse(t, c),
         NEW noted \in {CallbackOf(c), NoContext}, NEW at \in {"run", "visit"},
         Enter(t, c, noted, noted, at)
  PROVE  StackInv'
<1>1. TypeOK /\ StackInv
  BY DEF IInv
<1>2. noted \in Context \cup {NoContext}
  BY CallbackOfType
<1> DEFINE n == Len(calls[t])
<1>3. /\ calls' \in [Thread -> Seq(CallRecord)]
      /\ \A u \in Thread \ {t} : calls'[u] = calls[u]
      /\ Len(calls'[t]) = n + 1 /\ DOMAIN calls'[t] = 1 .. n + 1
      /\ calls'[t][n + 1] = Call(c, noted, at)
      /\ \A k \in DOMAIN calls[t] :
           /\ k \in DOMAIN calls'[t] /\ calls'[t][k].cb = calls[t][k].cb
           /\ calls'[t][k].at = calls[t][k].at
           /\ CallbackOf(c) # NoContext => calls'[t][k].disturbed
           /\ CallbackOf(c) = NoContext => calls'[t][k] = calls[t][k]
  BY <1>1, <1>2, EnterStep
<1>4. \A u \in Thread : DOMAIN calls[u] = 1 .. Len(calls[u]) /\ Len(calls[u]) \in Nat
  BY <1>1 DEF StackInv
<1>5. /\ CallbackOf(c) = NoContext => callback_thread' = callback_thread
      /\ CallbackOf(c) # NoContext =>
           callback_thread' = [callback_thread EXCEPT ![t] = noted]
  BY DEF Enter
<1>6. /\ callback_thread' \in [Thread -> Context \cup {NoContext}]
      /\ \A u \in Thread \ {t} : callback_thread'[u] = callback_thread[u]
      /\ CallbackOf(c) # NoContext => callback_thread'[t] = noted
  BY <1>1, <1>2, <1>5 DEF StackInv
<1>7. /\ calls'[t][n + 1].cb = noted /\ calls'[t][n + 1].disturbed = FALSE
  BY <1>3 DEF Call
<1>8. (\A u \in Thread : \A k \in 1 .. Len(calls[u]) - 1 : calls[u][k].at \in InUserCode)'
  <2> SUFFICES ASSUME NEW u \in Thread, NEW k \in 1 .. Len(calls'[u]) - 1
               PROVE  calls'[u][k].at \in InUserCode
    BY DEF InUserCode
  <2>1. CASE u # t
    BY <1>1, <1>3, <2>1 DEF StackInv
  <2>2. CASE u = t
    <3>1. k \in DOMAIN calls[t]
      BY <1>3, <1>4, <2>2
    <3>2. calls[t][k].at \in InUserCode
      <4>1. CASE k = n
        BY <1>4, <3>1, <4>1 DEF MayUse, Running, Innermost
      <4>2. CASE k # n
        BY <1>1, <1>4, <3>1, <4>2 DEF StackInv
      <4> QED
        BY <4>1, <4>2
    <3> QED
      BY <1>3, <2>2, <3>1, <3>2
  <2> QED
    BY <2>1, <2>2
<1>9. RegisteringDisturbs'
  <2> SUFFICES ASSUME NEW u \in Thread, NEW k \in DOMAIN calls'[u], NEW j \in DOMAIN calls'[u],
                      k < j, calls'[u][j].cb # NoContext
               PROVE  calls'[u][k].disturbed
    BY DEF RegisteringDisturbs
  <2>1. CASE u # t
    BY <1>1, <1>3, <2>1 DEF StackInv, RegisteringDisturbs
  <2>2. CASE u = t
    <3>1. k \in DOMAIN calls[t] /\ (j \in DOMAIN calls[t] \/ j = n + 1)
      <4>1. k \in 1 .. n + 1 /\ j \in 1 .. n + 1 /\ DOMAIN calls[t] = 1 .. n /\ n \in Nat
        BY <1>3, <1>4, <2>2
      <4> HIDE DEF n
      <4> QED
        BY <4>1
    <3>2. CASE CallbackOf(c) # NoContext
      BY <1>3, <2>2, <3>1, <3>2
    <3>3. CASE CallbackOf(c) = NoContext
      <4>1. j # n + 1
        BY <1>7, <2>2, <3>3
      <4> QED
        BY <1>1, <1>3, <2>2, <3>1, <3>3, <4>1 DEF StackInv, RegisteringDisturbs
    <3> QED
      BY <3>2, <3>3
  <2> QED
    BY <2>1, <2>2
<1>10. UndisturbedOwn'
  <2> SUFFICES ASSUME NEW u \in Thread, NEW k \in DOMAIN calls'[u],
                      ~calls'[u][k].disturbed, calls'[u][k].cb # NoContext
               PROVE  callback_thread'[u] = calls'[u][k].cb
    BY DEF UndisturbedOwn
  <2>1. CASE u # t
    BY <1>1, <1>3, <1>6, <2>1 DEF StackInv, UndisturbedOwn
  <2>2. CASE u = t
    <3>1. k \in DOMAIN calls[t] \/ k = n + 1
      BY <1>3, <1>4, <2>2
    <3>2. CASE k = n + 1
      BY <1>6, <1>7, <2>2, <3>2
    <3>3. CASE k # n + 1
      <4>1. k \in DOMAIN calls[t] /\ CallbackOf(c) = NoContext /\ calls'[t][k] = calls[t][k]
        BY <1>3, <2>2, <3>1, <3>3
      <4> QED
        BY <1>1, <1>5, <2>2, <4>1 DEF StackInv, UndisturbedOwn
    <3> QED
      BY <3>2, <3>3
  <2> QED
    BY <2>1, <2>2
<1>11. RegisteredIsUndisturbed'
  <2> SUFFICES ASSUME NEW u \in Thread, callback_thread'[u] # NoContext
               PROVE  \E k \in DOMAIN calls'[u] :
                        ~calls'[u][k].disturbed /\ calls'[u][k].cb = callback_thread'[u]
    BY DEF RegisteredIsUndisturbed
  <2>1. CASE u = t /\ CallbackOf(c) # NoContext
    <3>1. n + 1 \in DOMAIN calls'[t]
      BY <1>3, <1>4
    <3> QED
      BY <1>6, <1>7, <2>1, <3>1
  <2>2. CASE ~(u = t /\ CallbackOf(c) # NoContext)
    <3>1. callback_thread'[u] = callback_thread[u]
      BY <1>5, <1>6, <2>2
    <3>2. PICK k \in DOMAIN calls[u] :
            ~calls[u][k].disturbed /\ calls[u][k].cb = callback_thread[u]
      BY <1>1, <3>1 DEF StackInv, RegisteredIsUndisturbed
    <3>3. k \in DOMAIN calls'[u] /\ calls'[u][k] = calls[u][k]
      BY <1>3, <2>2
    <3> QED
      BY <3>1, <3>2, <3>3
  <2> QED
    BY <2>1, <2>2
<1> QED
  BY <1>3, <1>6, <1>8, <1>9, <1>10, <1>11 DEF StackInv

-------------------------------------------------------------------------------
LEMMA Initially == Init => IInv
<1> SUFFICES ASSUME Init PROVE IInv
  OBVIOUS
<1>1. \A t \in Thread : calls[t] = << >> /\ callback_thread[t] = NoContext
  BY DEF Init
<1>2. calls \in [Thread -> Seq(CallRecord)]
  BY DEF Init
<1>3. \A t \in Thread : DOMAIN calls[t] = {} /\ Len(calls[t]) = 0
  <2>1. DOMAIN << >> = {} /\ Len(<< >>) = 0
    OBVIOUS
  <2> QED
    BY <1>1, <2>1
<1>4. \A t \in Thread : \A k \in 1 .. Len(calls[t]) - 1 : FALSE
  <2>1. \A k \in 1 .. 0 - 1 : FALSE
    OBVIOUS
  <2> QED
    BY <1>3, <2>1
<1>5. callback_thread \in [Thread -> Context \cup {NoContext}]
      /\ interrupt_cb \in [Context -> BOOLEAN]
  BY DEF Init
<1>6. requested \in BOOLEAN /\ interruptions \in Nat /\ requests = 0
  BY DEF Init
<1>7. StackInv
  BY <1>1, <1>2, <1>3, <1>4, <1>5
     DEF StackInv, RegisteringDisturbs, UndisturbedOwn, RegisteredIsUndisturbed
<1>8. requests \in 0 .. MaxRequests
  BY <1>6, BoundAssumption
<1> QED
  BY <1>5, <1>6, <1>7, <1>8 DEF IInv, StackInv, TypeOK, CallRecord

LEMMA Inductive == IInv /\ [Next]_vars => IInv'
<1> SUFFICES ASSUME IInv, [Next]_vars PROVE IInv'
  OBVIOUS
<1>1. TypeOK /\ StackInv
  BY DEF IInv
<1>2. ASSUME UNCHANGED << callback_thread, calls >> PROVE StackInv'
  BY <1>1, <1>2 DEF StackInv, RegisteringDisturbs, UndisturbedOwn, RegisteredIsUndisturbed
<1>3. ASSUME StackInv', requested' \in BOOLEAN, requests' \in 0 .. MaxRequests,
             interruptions' \in Nat, interrupt_cb' \in [Context -> BOOLEAN]
      PROVE  IInv'
  BY <1>3 DEF IInv, StackInv, TypeOK, CallRecord
<1> DEFINE Same == UNCHANGED << requested, requests, interruptions, interrupt_cb >>
<1>4. ASSUME StackInv', Same PROVE IInv'
  BY <1>1, <1>3, <1>4 DEF TypeOK
<1>5. CASE request
  <2> USE <1>5 DEF request
  <2>1. StackInv'
    BY <1>2
  <2>2. requests' \in 0 .. MaxRequests
    BY <1>1, BoundAssumption DEF TypeOK
  <2> QED
    BY <1>1, <1>3, <2>1, <2>2 DEF TypeOK
<1>6. CASE cancel
  <2> USE <1>6 DEF cancel
  <2>1. StackInv'
    BY <1>2
  <2> QED
    BY <1>1, <1>3, <2>1 DEF TypeOK
<1>7. ASSUME NEW t \in Thread, Return(t) PROVE IInv'
  BY <1>4, <1>7, LeaveKeeps DEF Return, At, interruptVars
<1>8. ASSUME NEW t \in Thread, check(t) PROVE IInv'
  <2> DEFINE p == IF requested THEN "requested" ELSE "ask"
  <2>1. p \in Place
    BY DEF Place
  <2>2. GoTo(t, p) /\ Running(t) /\ UNCHANGED callback_thread /\ Same
    BY <1>8 DEF check, At, interruptVars
  <2> HIDE DEF p
  <2> QED
    BY <1>4, <2>1, <2>2, GoToKeeps
<1>9. ASSUME NEW t \in Thread, interrupt(t) PROVE IInv'
  <2> USE <1>9 DEF interrupt
  <2>1. StackInv'
    BY LeaveKeeps DEF At
  <2>2. interruptions' \in Nat
    BY <1>1 DEF TypeOK
  <2> QED
    BY <1>1, <1>3, <2>1, <2>2 DEF TypeOK
<1>10. ASSUME NEW t \in Thread, process(t) PROVE IInv'
  <2> DEFINE p == IF callback_thread[t] = NoContext THEN "run" ELSE "asked"
  <2>1. p \in Place
    BY DEF Place
  <2>2. GoTo(t, p) /\ Running(t) /\ UNCHANGED callback_thread /\ Same
    BY <1>10 DEF process, At, interruptVars
  <2> HIDE DEF p
  <2> QED
    BY <1>4, <2>1, <2>2, GoToKeeps
<1>11. ASSUME NEW t \in Thread, Answered(t) PROVE IInv'
  <2>1. Running(t) /\ Same
    BY <1>11 DEF Answered, At, interruptVars
  <2>2. CASE GoTo(t, "run") /\ UNCHANGED callback_thread
    <3>1. "run" \in Place
      BY DEF Place
    <3> QED
      BY <1>4, <2>1, <2>2, <3>1, GoToKeeps
  <2>3. CASE Leave(t)
    BY <1>4, <2>1, <2>3, LeaveKeeps
  <2> QED
    BY <1>11, <2>2, <2>3 DEF Answered
<1>12. ASSUME NEW t \in Thread, NEW c \in Context, setInterruptHandler(t, c) PROVE IInv'
  <2> USE <1>12 DEF setInterruptHandler, interruptVars
  <2>1. StackInv'
    BY <1>2
  <2>2. interrupt_cb' \in [Context -> BOOLEAN]
    BY <1>1 DEF TypeOK
  <2> QED
    BY <1>1, <1>3, <2>1, <2>2 DEF TypeOK
<1>13. ASSUME NEW t \in Thread, NEW c \in Context, execute(t, c) PROVE IInv'
  <2>1. MayUse(t, c) /\ Enter(t, c, CallbackOf(c), CallbackOf(c), "run")
    BY <1>13 DEF execute
  <2>2. StackInv'
    BY <2>1, EnterKeeps
  <2> QED
    BY <1>4, <2>1, <2>2 DEF Enter, interruptVars
<1>14. ASSUME NEW t \in Thread, NEW c \in Context, executeVoid(t, c) PROVE IInv'
  <2>1. MayUse(t, c) /\ Enter(t, c, NoContext, NoContext, "visit")
    BY <1>14 DEF executeVoid
  <2>2. StackInv'
    BY <2>1, EnterKeeps
  <2> QED
    BY <1>4, <2>1, <2>2 DEF Enter, interruptVars
<1>15. CASE UNCHANGED vars
  BY <1>2, <1>4, <1>15 DEF vars, interruptVars
<1> QED
  BY <1>5, <1>6, <1>7, <1>8, <1>9, <1>10, <1>11, <1>12, <1>13, <1>14, <1>15 DEF Next

LEMMA Invariance == Spec => []IInv
  BY Initially, Inductive, PTL DEF Spec

-------------------------------------------------------------------------------
\* Types of Interrupt.cpp's variables and the stacks of calls; a call with calls
\* nested in it waits in code of the user.
THEOREM TypeCorrect == Spec => []TypeOK
<1>1. IInv => TypeOK
  BY DEF IInv
<1> QED
  BY <1>1, Invariance, PTL

(***************************************************************************)
(* However deep calls nest, and however they end, a callback registered    *)
(* for a thread (callback_thread) is that of a call still running in it.   *)
(***************************************************************************)
THEOREM NoCallbackIsStale == Spec => []NoStaleCallback
<1>1. IInv => NoStaleCallback
  BY DEF IInv, StackInv, RegisteredIsUndisturbed, NoStaleCallback
<1> QED
  BY <1>1, Invariance, PTL

(***************************************************************************)
(* However deep calls of both overloads of execute() nest, and however     *)
(* they end: a check asks the callback that was noted last, if no other    *)
(* was registered since, and else nobody.                                  *)
(***************************************************************************)
THEOREM NewestCallbackIsAsked == Spec => []AskedIsNewest
<1>1. IInv => AskedIsNewest
  BY DEF IInv, StackInv, UndisturbedOwn, RegisteredIsUndisturbed, AskedIsNewest, Noted
<1> QED
  BY <1>1, Invariance, PTL

-------------------------------------------------------------------------------
(***************************************************************************)
(* RobustAttempts.  Where a call stands on the ladders tells how many of   *)
(* its ways have failed: Turn.  So nothing is skipped, and the last rungs  *)
(* are those whose turn is the last.                                       *)
(***************************************************************************)
LaterOverlayRungs == {"snapping", "snapSelf0", "snapSelf1", "snapBoth", "rounding"}
ActiveRungs == OverlayRungs \cup BufferRungs

\* The rungs, with their levels, that a call can stand at.
Standing(c, r, l) ==
  \/ c.op # "buffer" /\ c.fixed /\ r = "fixed" /\ l = 0
  \/ c.op # "buffer" /\ ~c.fixed /\ r = "floating" /\ l = 0
  \/ /\ c.op # "buffer" /\ ~c.fixed /\ ~c.curved
     /\ \/ r \in LaterOverlayRungs \ {"rounding"} /\ l \in 0 .. NUM_SNAP_TRIES - 1
        \/ r = "rounding" /\ l = 0
  \/ /\ c.op = "buffer" \/ (c.op = "union" /\ c.areas /\ (c.fixed \/ c.curved))
     /\ \/ r = "original" /\ l = 0
        \/ c.fixed /\ r = "fixedPrecision" /\ l = 0
        \/ ~c.fixed /\ r = "reduced" /\ l \in MIN_PRECISION_DIGITS .. MAX_PRECISION_DIGITS

\* Which of the ways of a call the attempt at a rung is.
OverlaysBefore(c) == IF c.op = "union" THEN 1 ELSE 0
Turn(c, r, l) ==
  CASE r \in {"fixed", "floating"} -> 1
    [] r = "snapping" -> 2 * l + 2
    [] r \in {"snapSelf0", "snapSelf1", "snapBoth"} -> 2 * l + 3
    [] r = "rounding" -> 2 * NUM_SNAP_TRIES + 2
    [] r = "original" -> OverlaysBefore(c) + 1
    [] r = "fixedPrecision" -> OverlaysBefore(c) + 2
    [] r = "reduced" -> OverlaysBefore(c) + MAX_PRECISION_DIGITS - l + 2

Failure == [rung : ActiveRungs, level : Int, ex : {Exception(type) : type \in Thrown}]
GoneOn(failure) == failure.ex.type = "TopologyException" \/ Swallowed(failure)

AttemptTypes ==
  /\ rung \in ActiveRungs \cup {"idle", "answered"}
  /\ level \in Int
  /\ failures \in Seq(Failure)
  /\ rung # "idle" => call \in Calls
  /\ rung = "idle" => level = 0 /\ failures = <<>> /\ answer = NoAnswer

InOrder == rung # "idle" => /\ Len(failures) <= Len(Ways(call))
                            /\ \A i \in DOMAIN failures : Way(failures[i]) = Ways(call)[i]

\* While attempts are made, the next is that after those that failed.
WhileTrying ==
  rung \in ActiveRungs =>
    /\ Standing(call, rung, level)
    /\ Len(failures) + 1 = Turn(call, rung, level)
    /\ answer = NoAnswer
    /\ \A i \in DOMAIN failures : GoneOn(failures[i])
    /\ rung \in LaterOverlayRungs => exOriginal = failures[1].ex

WhenAnswered == rung = "answered" => FailsOnlyWhenAllFail /\ OthersEndTheCall

AttemptsInv == AttemptTypes /\ InOrder /\ WhileTrying /\ WhenAnswered
-------------------------------------------------------------------------------
Try == ActiveRungs \X Int

LEMMA OneWay ==
  ASSUME NEW S, NEW x \in S
  PROVE  <<x>> \in Seq(S) /\ Len(<<x>>) = 1 /\ <<x>>[1] = x
OBVIOUS

LEMMA Joined ==
  ASSUME NEW S, NEW s \in Seq(S), NEW u \in Seq(S)
  PROVE  /\ s \o u \in Seq(S) /\ Len(s \o u) = Len(s) + Len(u)
         /\ \A k \in 1 .. Len(s) : (s \o u)[k] = s[k]
         /\ \A k \in 1 .. Len(u) : (s \o u)[Len(s) + k] = u[k]
OBVIOUS

LEMMA Tabulated ==
  ASSUME NEW S, NEW n \in Nat, NEW f \in [1 .. n -> S]
  PROVE  f \in Seq(S) /\ Len(f) = n
OBVIOUS

\* How many ways there are, and which.
LEMMA OverlayWays ==
  ASSUME NEW c \in Calls
  PROVE  LET w == WaysToOverlay(c)
         IN  /\ w \in Seq(Try)
             /\ c.fixed => w = <<<<"fixed", 0>>>>
             /\ ~c.fixed /\ c.curved => w = <<<<"floating", 0>>>>
             /\ ~c.fixed /\ ~c.curved =>
                  /\ Len(w) = 2 * NUM_SNAP_TRIES + 2
                  /\ w[1] = <<"floating", 0>> /\ w[2 * NUM_SNAP_TRIES + 2] = <<"rounding", 0>>
                  /\ \A l \in 0 .. NUM_SNAP_TRIES - 1 : /\ w[2 * l + 2] = <<"snapping", l>>
                                                        /\ w[2 * l + 3] = <<"snapBoth", l>>
<1> USE SomeTriesAssumption
<1> DEFINE a == <<"floating", 0>>
           b == <<"rounding", 0>>
           n == 2 * NUM_SNAP_TRIES
           w == <<a>> \o Tries \o <<b>>
<1>1. /\ Tries \in Seq(Try) /\ Len(Tries) = n
      /\ \A l \in 0 .. NUM_SNAP_TRIES - 1 : /\ Tries[2 * l + 1] = <<"snapping", l>>
                                            /\ Tries[2 * l + 2] = <<"snapBoth", l>>
  <2>1. ASSUME NEW k \in 1 .. n
        PROVE  <<IF k % 2 = 1 THEN "snapping" ELSE "snapBoth", (k - 1) \div 2>> \in Try
    BY DEF Try, ActiveRungs, OverlayRungs, BufferRungs
  <2>2. Tries \in [1 .. n -> Try]
    BY <2>1 DEF Tries
  <2>3. Tries \in Seq(Try) /\ Len(Tries) = n
    BY <2>2, Tabulated
  <2>4. ASSUME NEW l \in 0 .. NUM_SNAP_TRIES - 1
        PROVE  Tries[2 * l + 1] = <<"snapping", l>> /\ Tries[2 * l + 2] = <<"snapBoth", l>>
    <3>1. 2 * l + 1 \in 1 .. n /\ 2 * l + 2 \in 1 .. n
      OBVIOUS
    <3>2. /\ (2 * l + 1) % 2 = 1 /\ (2 * l + 1 - 1) \div 2 = l
          /\ (2 * l + 2) % 2 = 0 /\ (2 * l + 2 - 1) \div 2 = l
      OBVIOUS
    <3> QED
      BY <3>1, <3>2 DEF Tries
  <2> QED
    BY <2>3, <2>4
<1> HIDE DEF w
<1>2. /\ w \in Seq(Try) /\ Len(w) = n + 2 /\ w[1] = <<"floating", 0>>
      /\ w[n + 2] = <<"rounding", 0>> /\ \A k \in 1 .. n : w[k + 1] = Tries[k]
  <2>1. a \in Try /\ b \in Try
    BY DEF Try, ActiveRungs, OverlayRungs, BufferRungs
  <2> HIDE DEF a, b
  <2>2. /\ <<a>> \in Seq(Try) /\ Len(<<a>>) = 1 /\ <<a>>[1] = a
        /\ <<b>> \in Seq(Try) /\ Len(<<b>>) = 1 /\ <<b>>[1] = b
    BY <2>1, OneWay
  <2>3. LET v == <<a>> \o Tries
        IN  v \in Seq(Try) /\ Len(v) = n + 1 /\ v[1] = a /\ \A k \in 1 .. n : v[k + 1] = Tries[k]
    BY <1>1, <2>2, Joined
  <2>4. w \in Seq(Try) /\ Len(w) = n + 2 /\ w[1] = a /\ w[n + 2] = b
        /\ \A k \in 1 .. n : w[k + 1] = Tries[k]
    BY <2>2, <2>3, Joined DEF w
  <2> QED
    BY <2>4 DEF a, b
<1>3. ASSUME NEW l \in 0 .. NUM_SNAP_TRIES - 1
      PROVE  w[2 * l + 2] = <<"snapping", l>> /\ w[2 * l + 3] = <<"snapBoth", l>>
  <2>1. /\ 2 * l + 1 \in 1 .. n /\ 2 * l + 2 \in 1 .. n
        /\ (2 * l + 1) + 1 = 2 * l + 2 /\ (2 * l + 2) + 1 = 2 * l + 3
    OBVIOUS
  <2> QED
    BY <1>1, <1>2, <2>1
<1>4. /\ c.fixed => WaysToOverlay(c) = <<<<"fixed", 0>>>>
      /\ ~c.fixed /\ c.curved => WaysToOverlay(c) = <<<<"floating", 0>>>>
      /\ ~c.fixed /\ ~c.curved => WaysToOverlay(c) = w
  BY DEF WaysToOverlay, w
<1>5. <<<<"fixed", 0>>>> \in Seq(Try) /\ <<<<"floating", 0>>>> \in Seq(Try)
  <2>1. <<"fixed", 0>> \in Try /\ <<"floating", 0>> \in Try
    BY DEF Try, ActiveRungs, OverlayRungs, BufferRungs
  <2> QED
    BY <2>1, OneWay
<1>6. WaysToOverlay(c) \in Seq(Try)
  BY <1>2, <1>4, <1>5, Zenon
<1> QED
  BY <1>2, <1>3, <1>4, <1>6, Zenon

LEMMA BufferWays ==
  ASSUME NEW c \in Calls
  PROVE  LET w == WaysToBuffer(c)
             digits == MAX_PRECISION_DIGITS - MIN_PRECISION_DIGITS + 1
         IN  /\ w \in Seq(Try)
             /\ w[1] = <<"original", 0>>
             /\ c.fixed => Len(w) = 2 /\ w[2] = <<"fixedPrecision", 0>>
             /\ ~c.fixed =>
                  /\ Len(w) = digits + 1
                  /\ \A k \in 1 .. digits : w[k + 1] = <<"reduced", MAX_PRECISION_DIGITS + 1 - k>>
<1> USE SomeTriesAssumption
<1> DEFINE a == <<"original", 0>>
           b == <<"fixedPrecision", 0>>
           digits == MAX_PRECISION_DIGITS - MIN_PRECISION_DIGITS + 1
           rest == [k \in 1 .. digits |-> <<"reduced", MAX_PRECISION_DIGITS + 1 - k>>]
<1>1. a \in Try /\ b \in Try /\ digits \in Nat
  BY DEF Try, ActiveRungs, OverlayRungs, BufferRungs
<1>2. /\ rest \in Seq(Try) /\ Len(rest) = digits
      /\ \A k \in 1 .. digits : rest[k] = <<"reduced", MAX_PRECISION_DIGITS + 1 - k>>
  <2>1. \A k \in 1 .. digits : <<"reduced", MAX_PRECISION_DIGITS + 1 - k>> \in Try
    BY DEF Try, ActiveRungs, OverlayRungs, BufferRungs
  <2>2. rest \in [1 .. digits -> Try]
    BY <2>1
  <2> QED
    BY <1>1, <2>2, Tabulated
<1>3. WaysToBuffer(c) = <<a>> \o IF c.fixed THEN <<b>> ELSE rest
  BY DEF WaysToBuffer
<1> HIDE DEF rest, digits, a, b
<1>4. /\ <<a>> \in Seq(Try) /\ Len(<<a>>) = 1 /\ <<a>>[1] = a
      /\ <<b>> \in Seq(Try) /\ Len(<<b>>) = 1 /\ <<b>>[1] = b
  BY <1>1, OneWay
<1>5. LET w == <<a>> \o <<b>>
      IN  w \in Seq(Try) /\ Len(w) = 2 /\ w[1] = a /\ w[2] = b
  BY <1>4, Joined
<1>6. LET w == <<a>> \o rest
      IN  /\ w \in Seq(Try) /\ Len(w) = digits + 1 /\ w[1] = a
          /\ \A k \in 1 .. digits : w[k + 1] = rest[k]
  BY <1>1, <1>2, <1>4, Joined
<1>7. CASE c.fixed
  BY <1>3, <1>5, <1>7 DEF a, b
<1>8. CASE ~c.fixed
  BY <1>2, <1>3, <1>6, <1>8 DEF a, digits
<1> QED
  BY <1>7, <1>8

\* The place where a call stands is one of its ways, at its turn.
LEMMA WayAtTurn ==
  ASSUME NEW c \in Calls, NEW r \in ActiveRungs, NEW l \in Int, Standing(c, r, l),
         NEW f, f.rung = r, f.level = l
  PROVE  /\ Len(Ways(c)) \in Nat /\ Turn(c, r, l) \in 1 .. Len(Ways(c))
         /\ Ways(c)[Turn(c, r, l)] = Way(f)
<1> DEFINE o == WaysToOverlay(c)
           b == WaysToBuffer(c)
           k == Turn(c, r, l)
<1> USE SomeTriesAssumption
<1>a. c.op \in {"overlay", "union", "buffer"} /\ c.fixed \in BOOLEAN /\ c.curved \in BOOLEAN
  BY DEF Calls
<1>o. /\ o \in Seq(Try)
      /\ c.fixed => o = <<<<"fixed", 0>>>>
      /\ ~c.fixed /\ c.curved => o = <<<<"floating", 0>>>>
      /\ ~c.fixed /\ ~c.curved =>
           /\ Len(o) = 2 * NUM_SNAP_TRIES + 2
           /\ o[1] = <<"floating", 0>> /\ o[2 * NUM_SNAP_TRIES + 2] = <<"rounding", 0>>
           /\ \A i \in 0 .. NUM_SNAP_TRIES - 1 : /\ o[2 * i + 2] = <<"snapping", i>>
                                                 /\ o[2 * i + 3] = <<"snapBoth", i>>
  BY OverlayWays
<1> DEFINE digits == MAX_PRECISION_DIGITS - MIN_PRECISION_DIGITS + 1
<1>b. /\ b \in Seq(Try) /\ b[1] = <<"original", 0>>
      /\ c.fixed => Len(b) = 2 /\ b[2] = <<"fixedPrecision", 0>>
      /\ ~c.fixed => Len(b) = digits + 1
      /\ ~c.fixed => \A i \in 1 .. digits : b[i + 1] = <<"reduced", MAX_PRECISION_DIGITS + 1 - i>>
  BY BufferWays
<1>w. Ways(c) = CASE c.op = "overlay" -> o
                  [] c.op = "buffer" -> b
                  [] c.op = "union" -> o \o IF c.areas THEN b ELSE <<>>
  BY DEF Ways
<1> HIDE DEF o, b
<1>1. CASE r \in OverlayRungs
  <2>1. c.op \in {"overlay", "union"}
    BY <1>1, <1>a DEF Standing, OverlayRungs, BufferRungs
  <2>2. /\ o \in Seq(Try) /\ k \in 1 .. Len(o) /\ o[k] = Way(f)
    <3>1. CASE r \in {"fixed", "floating"}
      <4>1. k = 1 /\ l = 0 /\ Way(f) = <<r, 0>>
        BY <3>1 DEF Turn, Standing, Way, LaterOverlayRungs
      <4>2. r = IF c.fixed THEN "fixed" ELSE "floating"
        BY <3>1 DEF Standing, LaterOverlayRungs
      <4> HIDE DEF k
      <4> QED
        BY <1>a, <1>o, <4>1, <4>2
    <3>2. CASE r \in LaterOverlayRungs \ {"rounding"}
      <4>1. ~c.fixed /\ ~c.curved /\ l \in 0 .. NUM_SNAP_TRIES - 1
        BY <3>2 DEF Standing, LaterOverlayRungs
      <4>2. \/ r = "snapping" /\ k = 2 * l + 2 /\ Way(f) = <<"snapping", l>>
            \/ r # "snapping" /\ k = 2 * l + 3 /\ Way(f) = <<"snapBoth", l>>
        BY <3>2 DEF Turn, Way, LaterOverlayRungs
      <4>3. /\ 2 * l + 2 \in 1 .. Len(o) /\ o[2 * l + 2] = <<"snapping", l>>
            /\ 2 * l + 3 \in 1 .. Len(o) /\ o[2 * l + 3] = <<"snapBoth", l>>
        BY <1>o, <4>1
      <4> HIDE DEF k
      <4> QED
        BY <1>o, <4>2, <4>3
    <3>3. CASE r = "rounding"
      <4>1. /\ ~c.fixed /\ ~c.curved /\ l = 0
            /\ k = 2 * NUM_SNAP_TRIES + 2 /\ Way(f) = <<"rounding", 0>>
        BY <3>3 DEF Turn, Standing, Way, LaterOverlayRungs
      <4> HIDE DEF k
      <4> QED
        BY <1>o, <4>1
    <3> QED
      BY <1>1, <3>1, <3>2, <3>3 DEF OverlayRungs, LaterOverlayRungs
  <2>3. CASE Ways(c) = o
    BY <2>2, <2>3
  <2>4. CASE Ways(c) = o \o b
    BY <2>2, <2>4, <1>b, Joined
  <2>5. CASE Ways(c) = o \o <<>>
    BY <2>2, <2>5
  <2> QED
    BY <1>w, <2>1, <2>3, <2>4, <2>5
<1>2. CASE r \in BufferRungs
  <2> DEFINE before == OverlaysBefore(c)
             j == k - before
  <2>1. /\ c.op \in {"buffer", "union"} /\ before = IF c.op = "union" THEN 1 ELSE 0
        /\ c.op = "union" => c.areas /\ (c.fixed \/ c.curved)
    BY <1>2, <1>a DEF Standing, OverlayRungs, BufferRungs, LaterOverlayRungs, OverlaysBefore
  <2>j. k = before + j /\ j \in Int
    BY <1>2, <2>1 DEF BufferRungs, Turn
  <2>2. b \in Seq(Try) /\ j \in 1 .. Len(b) /\ b[j] = Way(f)
    <3>1. CASE r = "original"
      <4>1. j = 1 /\ Way(f) = <<r, 0>>
        BY <2>1, <3>1 DEF Standing, Turn, Way, LaterOverlayRungs
      <4> HIDE DEF j
      <4> QED
        BY <1>a, <1>b, <3>1, <4>1
    <3>2. CASE r = "fixedPrecision"
      <4>1. j = 2 /\ c.fixed /\ Way(f) = <<r, 0>>
        BY <2>1, <3>2 DEF Standing, Turn, Way, LaterOverlayRungs
      <4> HIDE DEF j
      <4>2. b \in Seq(Try) /\ Len(b) = 2 /\ b[2] = <<r, 0>>
        BY <1>b, <3>2, <4>1
      <4> QED
        BY <4>1, <4>2
    <3>3. CASE r = "reduced"
      <4>1. /\ ~c.fixed /\ l \in MIN_PRECISION_DIGITS .. MAX_PRECISION_DIGITS
            /\ j = MAX_PRECISION_DIGITS - l + 2 /\ Way(f) = <<r, l>>
        BY <2>1, <3>3 DEF Standing, Turn, Way, LaterOverlayRungs
      <4> HIDE DEF j
      <4> DEFINE i == MAX_PRECISION_DIGITS - l + 1
      <4>2. /\ i \in 1 .. MAX_PRECISION_DIGITS - MIN_PRECISION_DIGITS + 1 /\ j = i + 1
            /\ MAX_PRECISION_DIGITS + 1 - i = l
        BY <4>1
      <4> HIDE DEF i
      <4>3. b[i + 1] = <<"reduced", MAX_PRECISION_DIGITS + 1 - i>>
        BY <4>1, <4>2, <1>b
      <4> QED
        BY <1>b, <3>3, <4>1, <4>2, <4>3
    <3> QED
      BY <1>2, <3>1, <3>2, <3>3 DEF BufferRungs
  <2> HIDE DEF j, k, before
  <2>3. CASE c.op = "buffer"
    BY <1>w, <2>1, <2>2, <2>3, <2>j DEF k
  <2>4. CASE c.op = "union"
    <3>1. Ways(c) = o \o b
      BY <1>w, <2>1, <2>4
    <3>2. o \in Seq(Try) /\ Len(o) = 1
      BY <1>o, <2>1, <2>4
    <3>3. /\ Len(o \o b) = Len(o) + Len(b)
          /\ \A i \in 1 .. Len(b) : (o \o b)[Len(o) + i] = b[i]
      BY <1>b, <3>2, Joined
    <3> QED
      BY <2>1, <2>2, <2>4, <2>j, <3>1, <3>2, <3>3 DEF k
  <2> QED
    BY <2>1, <2>3, <2>4 DEF k
<1> QED
  BY <1>1, <1>2 DEF ActiveRungs

\* The places whose way is the last, or the last of those to overlay.
LEMMA LastWay ==
  ASSUME NEW c \in Calls, NEW r \in ActiveRungs, NEW l \in Int, Standing(c, r, l),
         \/ r \in {"fixed", "floating"} /\ (c.fixed \/ c.curved) /\ ~(c.op = "union" /\ c.areas)
         \/ r \in {"rounding", "fixedPrecision"}
         \/ r = "reduced" /\ l = MIN_PRECISION_DIGITS
  PROVE  Len(IF r = "rounding" THEN WaysToOverlay(c) ELSE Ways(c)) = Turn(c, r, l)
<1> DEFINE o == WaysToOverlay(c)
           b == WaysToBuffer(c)
<1> USE SomeTriesAssumption
<1>a. c.op \in {"overlay", "union", "buffer"} /\ c.fixed \in BOOLEAN /\ c.curved \in BOOLEAN
  BY DEF Calls
<1>o. /\ o \in Seq(Try)
      /\ c.fixed => o = <<<<"fixed", 0>>>>
      /\ ~c.fixed /\ c.curved => o = <<<<"floating", 0>>>>
      /\ ~c.fixed /\ ~c.curved =>
           /\ Len(o) = 2 * NUM_SNAP_TRIES + 2
           /\ o[1] = <<"floating", 0>> /\ o[2 * NUM_SNAP_TRIES + 2] = <<"rounding", 0>>
           /\ \A i \in 0 .. NUM_SNAP_TRIES - 1 : /\ o[2 * i + 2] = <<"snapping", i>>
                                                 /\ o[2 * i + 3] = <<"snapBoth", i>>
  BY OverlayWays
<1> DEFINE digits == MAX_PRECISION_DIGITS - MIN_PRECISION_DIGITS + 1
<1>b. /\ b \in Seq(Try) /\ b[1] = <<"original", 0>>
      /\ c.fixed => Len(b) = 2 /\ b[2] = <<"fixedPrecision", 0>>
      /\ ~c.fixed => Len(b) = digits + 1
      /\ ~c.fixed => \A i \in 1 .. digits : b[i + 1] = <<"reduced", MAX_PRECISION_DIGITS + 1 - i>>
  BY BufferWays
<1>w. Ways(c) = CASE c.op = "overlay" -> o
                  [] c.op = "buffer" -> b
                  [] c.op = "union" -> o \o IF c.areas THEN b ELSE <<>>
  BY DEF Ways
<1> HIDE DEF o, b
<1>1. CASE r \in {"fixed", "floating", "rounding"}
  <2>1. o \in Seq(Try) /\ Len(o) = Turn(c, r, l)
    BY <1>1, <1>a, <1>o DEF Standing, Turn, LaterOverlayRungs
  <2>2. r # "rounding" => Ways(c) = o \/ Ways(c) = o \o <<>>
    BY <1>1, <1>a, <1>w DEF Standing, LaterOverlayRungs
  <2>3. r # "rounding" => Len(Ways(c)) = Len(o)
    BY <2>1, <2>2
  <2> QED
    BY <2>1, <2>3 DEF o
<1>2. CASE r \in {"fixedPrecision", "reduced"}
  <2> SUFFICES Len(Ways(c)) = Turn(c, r, l)
    BY <1>2
  <2>1. /\ c.op \in {"buffer", "union"}
        /\ c.op = "union" => c.areas /\ (c.fixed \/ c.curved)
    BY <1>2, <1>a DEF Standing, LaterOverlayRungs
  <2>2. b \in Seq(Try) /\ Turn(c, r, l) = OverlaysBefore(c) + Len(b)
    <3>1. CASE r = "fixedPrecision"
      <4>1. c.fixed /\ Turn(c, r, l) = OverlaysBefore(c) + 2
        BY <3>1 DEF Standing, Turn, LaterOverlayRungs
      <4> QED
        BY <1>b, <4>1
    <3>2. CASE r = "reduced"
      <4>1. /\ ~c.fixed
            /\ Turn(c, r, l) =
                 OverlaysBefore(c) + MAX_PRECISION_DIGITS - MIN_PRECISION_DIGITS + 2
        BY <3>2 DEF Standing, Turn, LaterOverlayRungs
      <4> QED
        BY <1>b, <4>1 DEF OverlaysBefore
    <3> QED
      BY <1>2, <3>1, <3>2
  <2>3. CASE c.op = "buffer"
    BY <1>w, <2>2, <2>3 DEF OverlaysBefore
  <2>4. CASE c.op = "union"
    <3>1. Ways(c) = o \o b
      BY <1>w, <2>1, <2>4
    <3>2. o \in Seq(Try) /\ Len(o) = 1
      BY <1>o, <2>1, <2>4
    <3>3. Len(o \o b) = Len(o) + Len(b)
      BY <1>b, <3>2, Joined
    <3> QED
      BY <2>2, <2>4, <3>1, <3>2, <3>3 DEF OverlaysBefore
  <2> QED
    BY <2>1, <2>3, <2>4
<1> QED
  BY <1>1, <1>2

-------------------------------------------------------------------------------
\* What a failure adds, whatever comes of it.
Recorded(r, ex) == [rung |-> r, level |-> level, ex |-> ex]

LEMMA FailureIsRecorded ==
  ASSUME AttemptsInv, NEW r \in ActiveRungs, NEW type \in Thrown, Fails(r, Exception(type))
  PROVE  /\ rung = r /\ call' = call /\ call \in Calls /\ level \in Int
         /\ Standing(call, r, level) /\ Len(failures) + 1 = Turn(call, r, level)
         /\ failures' \in Seq(Failure) /\ Len(failures) \in Nat
         /\ Len(failures') = Len(failures) + 1
         /\ failures'[Len(failures')] = Recorded(r, Exception(type))
         /\ Len(failures') <= Len(Ways(call))
         /\ \A i \in DOMAIN failures' : Way(failures'[i]) = Ways(call)[i]
         /\ \A i \in 1 .. Len(failures) : failures'[i] = failures[i] /\ GoneOn(failures[i])
<1> DEFINE f == Recorded(r, Exception(type))
<1>1. /\ rung = r /\ call' = call /\ failures' = Append(failures, f)
      /\ r # "idle" /\ r # "answered"
  BY DEF Fails, Recorded, ActiveRungs, OverlayRungs, BufferRungs
<1>2. /\ call \in Calls /\ level \in Int /\ failures \in Seq(Failure)
      /\ Standing(call, r, level) /\ Len(failures) + 1 = Turn(call, r, level)
      /\ \A i \in DOMAIN failures : GoneOn(failures[i]) /\ Way(failures[i]) = Ways(call)[i]
  BY <1>1 DEF AttemptsInv, AttemptTypes, InOrder, WhileTrying
<1>3. f.rung = r /\ f.level = level /\ f \in Failure
  BY <1>1, <1>2 DEF Recorded, Failure
<1> HIDE DEF f
<1>4. /\ Len(Ways(call)) \in Nat /\ Turn(call, r, level) \in 1 .. Len(Ways(call))
      /\ Ways(call)[Turn(call, r, level)] = Way(f)
  BY <1>2, <1>3, WayAtTurn
<1>5. /\ failures' \in Seq(Failure) /\ Len(failures) \in Nat /\ Len(failures') = Len(failures) + 1
      /\ failures'[Len(failures) + 1] = f /\ DOMAIN failures' = 1 .. Len(failures) + 1
      /\ DOMAIN failures = 1 .. Len(failures)
      /\ \A i \in 1 .. Len(failures) : failures'[i] = failures[i]
  BY <1>1, <1>2, <1>3
<1>6. \A i \in DOMAIN failures' : Way(failures'[i]) = Ways(call)[i]
  BY <1>2, <1>4, <1>5
<1> QED
  BY <1>1, <1>2, <1>4, <1>5, <1>6 DEF f

\* A failure that ends the call.
LEMMA ThrowKeeps ==
  ASSUME AttemptsInv, NEW r \in ActiveRungs, NEW type \in Thrown, Fails(r, Exception(type)),
         NEW e, Throw(e),
         type = "TopologyException" =>
           /\ Turn(call, r, level) =
                Len(IF r = "rounding" THEN WaysToOverlay(call) ELSE Ways(call))
           /\ e = IF r = "rounding" THEN Sliced(failures[1].ex) ELSE Exception(type),
         type # "TopologyException" => e = Exception(type) /\ ~Swallowed(Recorded(r, Exception(type)))
  PROVE  AttemptsInv'
<1> DEFINE f == Recorded(r, Exception(type))
           n == Len(failures)
<1>1. /\ rung = r /\ call' = call /\ call \in Calls /\ level \in Int
      /\ Standing(call, r, level) /\ n + 1 = Turn(call, r, level)
      /\ failures' \in Seq(Failure) /\ n \in Nat
      /\ Len(failures') = n + 1 /\ failures'[n + 1] = f
      /\ Len(failures') <= Len(Ways(call))
      /\ \A i \in DOMAIN failures' : Way(failures'[i]) = Ways(call)[i]
      /\ \A i \in 1 .. n : failures'[i] = failures[i] /\ GoneOn(failures[i])
  BY FailureIsRecorded
<1>2. rung' = "answered" /\ answer' = [kind |-> "thrown", ex |-> e] /\ level' = level
  BY DEF Throw
<1>3. f.rung = r /\ f.ex = Exception(type) /\ f.ex.type = type /\ f.ex.text = type
  BY DEF Recorded, Exception
<1>4. type # "TopologyException" => ~(f.rung = "floating" /\ isRuntimeError(f.ex) /\ ~call.curved)
  BY DEF Swallowed
<1> HIDE DEF f
<1>5. n = 0 \/ (n > 0 /\ failures'[1] = failures[1])
  BY <1>1
<1>6. AttemptTypes' /\ InOrder' /\ WhileTrying'
  BY <1>1, <1>2 DEF AttemptTypes, InOrder, WhileTrying, ActiveRungs, OverlayRungs, BufferRungs
<1>7. FailsOnlyWhenAllFail'
  <2>1. type = "TopologyException" =>
          Len(failures') = Len(IF r = "rounding" THEN WaysToOverlay(call) ELSE Ways(call))
    BY <1>1
  <2>2. r = "rounding" => n > 0
    <3>1. r = "rounding" => n + 1 = 2 * NUM_SNAP_TRIES + 2
      BY <1>1 DEF Turn
    <3> QED
      BY <1>1, <3>1, SomeTriesAssumption
  <2>3. e = IF r = "rounding" /\ type = "TopologyException" THEN Sliced(failures'[1].ex) ELSE f.ex
    BY <1>3, <1>5, <2>2
  <2>4. (f.rung = "rounding" /\ isTopology(f.ex)) <=> (r = "rounding" /\ type = "TopologyException")
    BY <1>3 DEF isTopology
  <2>5. WaysToOverlay(call)' = WaysToOverlay(call) /\ Ways(call)' = Ways(call)
    BY <1>1
  <2> QED
    BY <1>1, <1>2, <1>3, <2>1, <2>3, <2>4, <2>5 DEF FailsOnlyWhenAllFail, GivesUp, isTopology
<1>8. OthersEndTheCall'
  <2> SUFFICES ASSUME NEW i \in DOMAIN failures',
                      failures'[i].ex.type # "TopologyException",
                      ~ /\ failures'[i].rung = "floating" /\ isRuntimeError(failures'[i].ex)
                        /\ ~call.curved
               PROVE  i = Len(failures') /\ answer' = [kind |-> "thrown", ex |-> failures'[i].ex]
    BY <1>1 DEF OthersEndTheCall, Swallowed, isRuntimeError
  <2>1. i \in 1 .. n \/ i = n + 1
    BY <1>1
  <2>2. CASE i \in 1 .. n
    BY <1>1, <2>2 DEF GoneOn, Swallowed
  <2> QED
    BY <1>1, <1>2, <1>3, <2>1, <2>2
<1> QED
  BY <1>6, <1>7, <1>8 DEF AttemptsInv, WhenAnswered

\* A failure after which the next way is tried.
LEMMA GotoKeeps ==
  ASSUME AttemptsInv, NEW r \in ActiveRungs, NEW type \in Thrown, Fails(r, Exception(type)),
         NEW s \in ActiveRungs, NEW l \in Int, Goto(s, l), Standing(call, s, l),
         Turn(call, s, l) = Turn(call, r, level) + 1,
         type = "TopologyException" \/ Swallowed(Recorded(r, Exception(type))),
         s \in LaterOverlayRungs =>
           exOriginal' = IF r = "floating" THEN Exception(type) ELSE failures[1].ex
  PROVE  AttemptsInv'
<1> DEFINE f == Recorded(r, Exception(type))
           n == Len(failures)
<1>1. /\ rung = r /\ call' = call /\ call \in Calls /\ level \in Int
      /\ Standing(call, r, level) /\ n + 1 = Turn(call, r, level)
      /\ failures' \in Seq(Failure) /\ n \in Nat
      /\ Len(failures') = n + 1 /\ failures'[n + 1] = f
      /\ Len(failures') <= Len(Ways(call))
      /\ \A i \in DOMAIN failures' : Way(failures'[i]) = Ways(call)[i]
      /\ \A i \in 1 .. n : failures'[i] = failures[i] /\ GoneOn(failures[i])
  BY FailureIsRecorded
<1>2. rung' = s /\ level' = l /\ answer' = NoAnswer
  BY <1>1 DEF Goto, AttemptsInv, WhileTrying
<1>3. f.ex = Exception(type) /\ f.ex.type = type
  BY DEF Recorded, Exception
<1>4. GoneOn(f)
  BY <1>3 DEF GoneOn
<1> HIDE DEF f
<1>5. s # "idle" /\ s # "answered"
  BY DEF ActiveRungs, OverlayRungs, BufferRungs
<1>6. AttemptTypes' /\ InOrder' /\ WhenAnswered'
  BY <1>1, <1>2, <1>5 DEF AttemptTypes, InOrder, WhenAnswered
<1>7. \A i \in DOMAIN failures' : GoneOn(failures'[i])
  <2> TAKE i \in DOMAIN failures'
  <2>1. i \in 1 .. n \/ i = n + 1
    BY <1>1
  <2> QED
    BY <1>1, <1>4, <2>1
<1>8. s \in LaterOverlayRungs => exOriginal' = failures'[1].ex
  <2>1. CASE r = "floating"
    <3>1. n = 0
      BY <1>1, <2>1 DEF Turn
    <3> QED
      BY <1>1, <1>3, <2>1, <3>1
  <2>2. CASE r # "floating" /\ s \in LaterOverlayRungs
    <3>1. r \in LaterOverlayRungs
      <4>1. call.op # "buffer" /\ ~call.fixed /\ ~call.curved
        BY <2>2 DEF Standing, LaterOverlayRungs
      <4> QED
        BY <1>1, <2>2, <4>1 DEF Standing, LaterOverlayRungs
    <3>2. n >= 1
      <4>1. level >= 0
        BY <1>1, <3>1 DEF Standing, LaterOverlayRungs
      <4>2. Turn(call, r, level) >= 2 /\ Turn(call, r, level) \in Int
        BY <1>1, <3>1, <4>1, SomeTriesAssumption DEF Turn, LaterOverlayRungs
      <4> QED
        BY <1>1, <4>2
    <3> QED
      BY <1>1, <2>2, <3>2
  <2> QED
    BY <2>1, <2>2
<1>9. WhileTrying'
  <2>1. \A i \in DOMAIN failures' : (GoneOn(failures[i]))'
    BY <1>1, <1>7 DEF GoneOn, Swallowed, isRuntimeError
  <2>2. Standing(call, s, l) = Standing(call, rung, level)'
    BY <1>1, <1>2 DEF Standing
  <2>3. Turn(call, s, l) = Turn(call, rung, level)'
    BY <1>1, <1>2 DEF Turn, OverlaysBefore
  <2> QED
    BY <1>1, <1>2, <1>8, <2>1, <2>2, <2>3 DEF WhileTrying
<1> QED
  BY <1>6, <1>9 DEF AttemptsInv

-------------------------------------------------------------------------------
\* A failure that the rung does not catch: the call ends, or buffer(0) is next.
LEMMA ThrowOutKeeps ==
  ASSUME AttemptsInv, NEW r \in ActiveRungs, NEW type \in Thrown, Fails(r, Exception(type)),
         NEW e, ThrowOut(e), caught(e) => isTopology(Exception(type)),
         UNCHANGED exOriginal,
         type = "TopologyException" =>
           /\ r \in {"fixed", "rounding", "fixedPrecision"} \/ (r = "floating" /\ call.curved)
           /\ IF r = "rounding" THEN e = Sliced(exOriginal) ELSE e = Exception(type),
         type # "TopologyException" =>
           e = Exception(type) /\ ~Swallowed(Recorded(r, Exception(type)))
  PROVE  AttemptsInv'
<1>1. /\ rung = r /\ call' = call /\ call \in Calls /\ level \in Int
      /\ Standing(call, r, level) /\ Len(failures) + 1 = Turn(call, r, level)
  BY FailureIsRecorded
<1>r. r = "rounding" => /\ exOriginal = failures[1].ex /\ Len(failures) >= 1
                        /\ \E k \in Thrown : exOriginal = Exception(k)
  <2> HAVE r = "rounding"
  <2>1. exOriginal = failures[1].ex /\ failures \in Seq(Failure) /\ Len(failures) >= 1
    BY <1>1, SomeTriesAssumption
       DEF AttemptsInv, AttemptTypes, WhileTrying, LaterOverlayRungs, Turn
  <2>2. failures[1] \in Failure
    BY <2>1
  <2> QED
    BY <2>1, <2>2 DEF Failure
<1>2. CASE caught(e)
  <2>1. /\ type = "TopologyException" /\ call.op = "union" /\ call.areas
        /\ r \in {"fixed", "floating"} /\ (call.fixed \/ call.curved) /\ level = 0
    <3>1. e.type = "TopologyException" /\ type = "TopologyException"
      BY <1>2 DEF caught, isTopology, Exception
    <3>2. r # "rounding"
      BY <1>r, <3>1 DEF Sliced, Exception
    <3> QED
      BY <1>1, <1>2, <3>1, <3>2 DEF caught, Overlaying, OverlayRungs, Standing, LaterOverlayRungs
  <2>2. Goto("original", level)
    BY <1>2 DEF ThrowOut
  <2>3. Standing(call, "original", level)
    BY <2>1 DEF Standing
  <2>4. Turn(call, r, level) = 1 /\ Turn(call, "original", level) = 2
    BY <2>1 DEF Turn, OverlaysBefore
  <2>5. "original" \in ActiveRungs /\ "original" \notin LaterOverlayRungs
    BY DEF ActiveRungs, BufferRungs, LaterOverlayRungs
  <2> QED
    BY <1>1, <2>1, <2>2, <2>3, <2>4, <2>5, GotoKeeps
<1>3. CASE ~caught(e)
  <2>1. Throw(e)
    BY <1>3 DEF ThrowOut
  <2>2. ASSUME type = "TopologyException"
        PROVE  /\ Turn(call, r, level) =
                    Len(IF r = "rounding" THEN WaysToOverlay(call) ELSE Ways(call))
               /\ e = IF r = "rounding" THEN Sliced(failures[1].ex) ELSE Exception(type)
    <3>1. CASE r = "rounding"
      BY <1>1, <1>r, <2>2, <3>1, LastWay
    <3>2. CASE r = "fixedPrecision"
      BY <1>1, <2>2, <3>2, LastWay
    <3>3. CASE r \in {"fixed", "floating"}
      <4>1. e = Exception(type)
        BY <2>2, <3>3
      <4>2. (call.fixed \/ call.curved) /\ ~(call.op = "union" /\ call.areas)
        BY <1>1, <1>3, <2>2, <3>3, <4>1
           DEF caught, isTopology, Exception, Overlaying, OverlayRungs, Standing, LaterOverlayRungs
      <4> QED
        BY <1>1, <3>3, <4>1, <4>2, LastWay
    <3> QED
      BY <2>2, <3>1, <3>2, <3>3
  <2> QED
    BY <2>1, <2>2, ThrowKeeps
<1> QED
  BY <1>2, <1>3

\* An attempt that succeeds.
LEMMA SucceedsKeeps ==
  ASSUME AttemptsInv, NEW r \in ActiveRungs, Succeeds(r)
  PROVE  AttemptsInv'
<1>1. /\ rung = r /\ r # "idle" /\ r # "answered"
      /\ rung' = "answered" /\ answer' = Result /\ Result.kind = "result"
      /\ UNCHANGED <<call, level, failures>>
  BY DEF Succeeds, Result, ActiveRungs, OverlayRungs, BufferRungs
<1>2. AttemptTypes' /\ InOrder' /\ WhileTrying'
  BY <1>1 DEF AttemptsInv, AttemptTypes, InOrder, WhileTrying, Way, ActiveRungs, OverlayRungs,
              BufferRungs
<1>3. WhenAnswered'
  <2>1. FailsOnlyWhenAllFail'
    BY <1>1 DEF AttemptsInv, InOrder, FailsOnlyWhenAllFail, Way
  <2>2. OthersEndTheCall'
    BY <1>1 DEF AttemptsInv, WhileTrying, GoneOn, OthersEndTheCall, Swallowed, isRuntimeError
  <2> QED
    BY <2>1, <2>2 DEF WhenAnswered
<1> QED
  BY <1>2, <1>3 DEF AttemptsInv

LEMMA FailureKeeps ==
  ASSUME AttemptsInv, NEW type \in Thrown,
         \/ FixedFails(Exception(type)) \/ FloatingFails(Exception(type))
         \/ SnappingFails(Exception(type)) \/ RoundingFails(Exception(type))
         \/ \E r \in {"snapSelf0", "snapSelf1", "snapBoth"} : SnapBothFails(r, Exception(type))
         \/ OriginalFails(Exception(type)) \/ FixedPrecisionFails(Exception(type))
         \/ ReducedFails(Exception(type))
  PROVE  AttemptsInv'
<1> DEFINE ex == Exception(type)
<1> USE SomeTriesAssumption
<1>1. /\ ex.type = type /\ (isTopology(ex) <=> type = "TopologyException")
      /\ isTopology(ex) => isRuntimeError(ex)
  BY DEF Exception, isTopology, isRuntimeError
<1>2. \A s \in OverlayRungs \cup BufferRungs : s \in ActiveRungs
  BY DEF ActiveRungs
<1>3. ASSUME NEW r \in ActiveRungs, Fails(r, ex)
      PROVE  /\ rung = r /\ call \in Calls /\ level \in Int /\ Standing(call, r, level)
             /\ call.fixed \in BOOLEAN /\ call.curved \in BOOLEAN
             /\ r # "floating" => ~Swallowed(Recorded(r, ex))
  BY <1>3, FailureIsRecorded DEF Swallowed, Recorded, Calls
<1> HIDE DEF ex
<1>4. CASE FixedFails(ex)
  <2>1. "fixed" \in ActiveRungs
    BY <1>2 DEF OverlayRungs
  <2>2. Fails("fixed", ex) /\ ThrowOut(ex) /\ UNCHANGED exOriginal
    BY <1>4 DEF FixedFails, Escapes
  <2> QED
    BY <1>1, <1>3, <2>1, <2>2, ThrowOutKeeps DEF ex, caught
<1>5. CASE FloatingFails(ex)
  <2>1. "floating" \in ActiveRungs /\ "snapping" \in ActiveRungs
    BY <1>2 DEF OverlayRungs
  <2>2. /\ Fails("floating", ex)
        /\ IF retried(ex) THEN exOriginal' = ex /\ Goto("snapping", 0)
                          ELSE ThrowOut(ex) /\ UNCHANGED exOriginal
    BY <1>5 DEF FloatingFails
  <2>3. /\ call \in Calls /\ level \in Int /\ Standing(call, "floating", level)
        /\ call.fixed \in BOOLEAN /\ call.curved \in BOOLEAN
    BY <1>3, <2>1, <2>2
  <2>4. Swallowed(Recorded("floating", ex)) <=> retried(ex)
    BY DEF Swallowed, Recorded, retried
  <2>5. CASE retried(ex)
    <3>1. Standing(call, "snapping", 0) /\ Turn(call, "snapping", 0) = Turn(call, "floating", level) + 1
      BY <2>3, <2>5 DEF Standing, Turn, retried, LaterOverlayRungs
    <3> QED
      BY <2>1, <2>2, <2>4, <2>5, <3>1, GotoKeeps DEF ex
  <2>6. CASE ~retried(ex)
    <3>1. type = "TopologyException" => call.curved
      BY <1>1, <2>3, <2>6 DEF retried
    <3> QED
      BY <1>1, <2>1, <2>2, <2>4, <2>6, <3>1, ThrowOutKeeps DEF ex, caught
  <2> QED
    BY <2>5, <2>6
<1>6. CASE SnappingFails(ex)
  <2>1. "snapping" \in ActiveRungs /\ "snapSelf0" \in ActiveRungs
    BY <1>2 DEF OverlayRungs
  <2>2. /\ Fails("snapping", ex) /\ UNCHANGED exOriginal
        /\ IF isTopology(ex) THEN Goto("snapSelf0", level) ELSE ThrowOut(ex)
    BY <1>6 DEF SnappingFails
  <2>3. /\ call \in Calls /\ level \in Int /\ Standing(call, "snapping", level) /\ rung = "snapping"
        /\ ~Swallowed(Recorded("snapping", ex))
    BY <1>3, <2>1, <2>2
  <2>4. CASE isTopology(ex)
    <3>1. /\ Standing(call, "snapSelf0", level)
          /\ Turn(call, "snapSelf0", level) = Turn(call, "snapping", level) + 1
      BY <2>3 DEF Standing, Turn, LaterOverlayRungs
    <3>2. exOriginal = failures[1].ex
      BY <2>1, <2>3 DEF AttemptsInv, WhileTrying, LaterOverlayRungs
    <3> QED
      BY <1>1, <2>1, <2>2, <2>3, <2>4, <3>1, <3>2, GotoKeeps DEF ex
  <2>5. CASE ~isTopology(ex)
    BY <1>1, <2>1, <2>2, <2>3, <2>5, ThrowOutKeeps DEF ex, caught
  <2> QED
    BY <2>4, <2>5
<1>7. ASSUME NEW r \in {"snapSelf0", "snapSelf1", "snapBoth"}, SnapBothFails(r, ex)
      PROVE  AttemptsInv'
  <2>1. r \in ActiveRungs /\ r # "floating" /\ "snapping" \in ActiveRungs /\ "rounding" \in ActiveRungs
    BY <1>2 DEF OverlayRungs
  <2>2. /\ Fails(r, ex) /\ UNCHANGED exOriginal
        /\ IF isTopology(ex) THEN NextTolerance ELSE ThrowOut(ex)
    BY <1>7 DEF SnapBothFails
  <2>3. /\ call \in Calls /\ level \in Int /\ Standing(call, r, level) /\ rung = r
        /\ ~Swallowed(Recorded(r, ex))
    BY <1>3, <2>1, <2>2
  <2>4. CASE isTopology(ex)
    <3>1. exOriginal = failures[1].ex
      BY <2>1, <2>3 DEF AttemptsInv, WhileTrying, LaterOverlayRungs
    <3>2. /\ call.op # "buffer" /\ ~call.fixed /\ ~call.curved /\ level \in 0 .. NUM_SNAP_TRIES - 1
      BY <2>3 DEF Standing, LaterOverlayRungs
    <3>3. Turn(call, r, level) = 2 * level + 3
      BY DEF Turn
    <3>4. CASE level + 1 < NUM_SNAP_TRIES
      <4>1. Goto("snapping", level + 1)
        BY <2>2, <2>4, <3>4 DEF NextTolerance
      <4>2. /\ Standing(call, "snapping", level + 1)
            /\ Turn(call, "snapping", level + 1) = Turn(call, r, level) + 1
        BY <3>2, <3>3, <3>4 DEF Standing, Turn, LaterOverlayRungs
      <4> QED
        BY <1>1, <2>1, <2>2, <2>3, <2>4, <3>1, <4>1, <4>2, GotoKeeps DEF ex
    <3>5. CASE ~(level + 1 < NUM_SNAP_TRIES)
      <4>1. Goto("rounding", 0)
        BY <2>2, <2>4, <3>5 DEF NextTolerance
      <4>2. /\ Standing(call, "rounding", 0)
            /\ Turn(call, "rounding", 0) = Turn(call, r, level) + 1
        BY <3>2, <3>3, <3>5 DEF Standing, Turn, LaterOverlayRungs
      <4> QED
        BY <1>1, <2>1, <2>2, <2>3, <2>4, <3>1, <4>1, <4>2, GotoKeeps DEF ex
    <3> QED
      BY <3>4, <3>5
  <2>5. CASE ~isTopology(ex)
    BY <1>1, <2>1, <2>2, <2>3, <2>5, ThrowOutKeeps DEF ex, caught
  <2> QED
    BY <2>4, <2>5
<1>8. CASE RoundingFails(ex)
  <2>1. "rounding" \in ActiveRungs
    BY <1>2 DEF OverlayRungs
  <2>2. /\ Fails("rounding", ex) /\ UNCHANGED exOriginal
        /\ ThrowOut(IF isTopology(ex) THEN Sliced(exOriginal) ELSE ex)
    BY <1>8 DEF RoundingFails
  <2>3. ~Swallowed(Recorded("rounding", ex))
    BY <1>3, <2>1, <2>2
  <2>4. CASE isTopology(ex)
    <3>1. ThrowOut(Sliced(exOriginal))
      BY <2>2, <2>4
    <3> QED
      BY <1>1, <2>1, <2>2, <2>4, <3>1, ThrowOutKeeps DEF ex, caught
  <2>5. CASE ~isTopology(ex)
    BY <1>1, <2>1, <2>2, <2>3, <2>5, ThrowOutKeeps DEF ex, caught
  <2> QED
    BY <2>4, <2>5
<1>9. CASE OriginalFails(ex)
  <2>1. {"original", "fixedPrecision", "reduced"} \subseteq ActiveRungs \ LaterOverlayRungs
    BY DEF ActiveRungs, BufferRungs, LaterOverlayRungs
  <2>2. /\ Fails("original", ex)
        /\ IF isTopology(ex)
           THEN IF call.fixed THEN Goto("fixedPrecision", 0) ELSE Goto("reduced", MAX_PRECISION_DIGITS)
           ELSE Throw(ex)
    BY <1>9 DEF OriginalFails
  <2>3. /\ call \in Calls /\ level \in Int /\ Standing(call, "original", level)
        /\ call.fixed \in BOOLEAN /\ ~Swallowed(Recorded("original", ex))
    BY <1>3, <2>1, <2>2
  <2>4. CASE isTopology(ex) /\ call.fixed
    <3>1. /\ Standing(call, "fixedPrecision", 0)
          /\ Turn(call, "fixedPrecision", 0) = Turn(call, "original", level) + 1
      BY <2>3, <2>4 DEF Standing, Turn, OverlaysBefore, LaterOverlayRungs
    <3> QED
      BY <1>1, <2>1, <2>2, <2>4, <3>1, GotoKeeps DEF ex
  <2>5. CASE isTopology(ex) /\ ~call.fixed
    <3>1. /\ Standing(call, "reduced", MAX_PRECISION_DIGITS)
          /\ Turn(call, "reduced", MAX_PRECISION_DIGITS) = Turn(call, "original", level) + 1
      BY <2>3, <2>5 DEF Standing, Turn, OverlaysBefore, LaterOverlayRungs
    <3> QED
      BY <1>1, <2>1, <2>2, <2>5, <3>1, GotoKeeps DEF ex
  <2>6. CASE ~isTopology(ex)
    BY <1>1, <2>1, <2>2, <2>3, <2>6, ThrowKeeps DEF ex
  <2> QED
    BY <2>3, <2>4, <2>5, <2>6
<1>10. CASE FixedPrecisionFails(ex)
  <2>1. "fixedPrecision" \in ActiveRungs
    BY <1>2 DEF BufferRungs
  <2>2. Fails("fixedPrecision", ex) /\ ThrowOut(ex) /\ UNCHANGED exOriginal
    BY <1>10 DEF FixedPrecisionFails, Escapes
  <2> QED
    BY <1>1, <1>3, <2>1, <2>2, ThrowOutKeeps DEF ex, caught
<1>11. CASE ReducedFails(ex)
  <2>1. "reduced" \in ActiveRungs \ LaterOverlayRungs
    BY DEF ActiveRungs, BufferRungs, LaterOverlayRungs
  <2>2. /\ Fails("reduced", ex)
        /\ IF isTopology(ex)
           THEN IF FewerDigits THEN Goto("reduced", level - 1) ELSE Throw(ex)
           ELSE Throw(ex)
    BY <1>11 DEF ReducedFails
  <2>3. /\ call \in Calls /\ level \in Int /\ Standing(call, "reduced", level)
        /\ level \in MIN_PRECISION_DIGITS .. MAX_PRECISION_DIGITS
        /\ ~Swallowed(Recorded("reduced", ex))
    BY <1>3, <2>1, <2>2 DEF Standing, LaterOverlayRungs
  <2>4. CASE isTopology(ex) /\ FewerDigits
    <3>1. /\ Standing(call, "reduced", level - 1)
          /\ Turn(call, "reduced", level - 1) = Turn(call, "reduced", level) + 1
      BY <2>3, <2>4 DEF Standing, Turn, OverlaysBefore, LaterOverlayRungs, FewerDigits
    <3> QED
      BY <1>1, <2>1, <2>2, <2>3, <2>4, <3>1, GotoKeeps DEF ex
  <2>5. CASE isTopology(ex) /\ ~FewerDigits
    <3>1. level = MIN_PRECISION_DIGITS
      BY <2>3, <2>5 DEF FewerDigits
    <3>2. Turn(call, "reduced", level) = Len(Ways(call))
      BY <2>1, <2>3, <3>1, LastWay
    <3> QED
      BY <1>1, <2>1, <2>2, <2>5, <3>2, ThrowKeeps DEF ex
  <2>6. CASE ~isTopology(ex)
    BY <1>1, <2>1, <2>2, <2>3, <2>6, ThrowKeeps DEF ex
  <2> QED
    BY <2>4, <2>5, <2>6
<1> QED
  BY <1>4, <1>5, <1>6, <1>7, <1>8, <1>9, <1>10, <1>11 DEF ex

\* A call of any kind has ways, and stands at the first when it begins.
LEMMA FirstWay ==
  ASSUME NEW c \in Calls
  PROVE  /\ Len(Ways(c)) \in Nat /\ FirstRung(c) \in ActiveRungs
         /\ Standing(c, FirstRung(c), 0) /\ Turn(c, FirstRung(c), 0) = 1
         /\ FirstRung(c) \notin LaterOverlayRungs
<1>1. c.op \in {"overlay", "union", "buffer"} /\ c.fixed \in BOOLEAN
  BY DEF Calls
<1>2. /\ FirstRung(c) \in ActiveRungs /\ Standing(c, FirstRung(c), 0)
      /\ Turn(c, FirstRung(c), 0) = 1 /\ FirstRung(c) \notin LaterOverlayRungs
  BY <1>1 DEF FirstRung, Standing, Turn, OverlaysBefore, ActiveRungs, OverlayRungs, BufferRungs,
              LaterOverlayRungs
<1>3. Len(Ways(c)) \in Nat
  <2> DEFINE f == [rung |-> FirstRung(c), level |-> 0]
  <2>1. f.rung = FirstRung(c) /\ f.level = 0
    OBVIOUS
  <2> HIDE DEF f
  <2> QED
    BY <1>2, <2>1, WayAtTurn
<1> QED
  BY <1>2, <1>3

\* Steps in which no attempt fails.
LEMMA BeginCallKeeps ==
  ASSUME AttemptsInv, NEW c \in Calls, BeginCall(c)
  PROVE  AttemptsInv'
<1>1. /\ rung = "idle" /\ call' = c /\ level = 0 /\ level' = 0 /\ failures = <<>> /\ failures' = <<>>
      /\ answer = NoAnswer
  BY DEF BeginCall, AttemptsInv, AttemptTypes
<1>2. failures' \in Seq(Failure) /\ DOMAIN failures' = {} /\ Len(failures') = 0
  BY <1>1
<1>3. InOrder'
  BY <1>1, <1>2, FirstWay DEF InOrder
<1>4. CASE c.op = "buffer" /\ ~c.finite
  <2>1. rung' = "answered"
    BY <1>4 DEF BeginCall
  <2>2. FailsOnlyWhenAllFail' /\ OthersEndTheCall'
    BY <1>1, <1>2, <1>3 DEF FailsOnlyWhenAllFail, OthersEndTheCall, InOrder
  <2> QED
    BY <1>1, <1>2, <1>3, <2>1, <2>2
       DEF AttemptsInv, AttemptTypes, WhileTrying, WhenAnswered, ActiveRungs, OverlayRungs, BufferRungs
<1>5. CASE ~(c.op = "buffer" /\ ~c.finite)
  <2>1. rung' = FirstRung(c) /\ answer' = NoAnswer
    BY <1>1, <1>5 DEF BeginCall
  <2>2. rung' \in ActiveRungs /\ rung' \notin LaterOverlayRungs
    BY <2>1, FirstWay
  <2>3. Standing(call, rung, level)' /\ Turn(call, rung, level)' = 1
    <3>1. Standing(call', rung', level') /\ Turn(call', rung', level') = 1
      BY <1>1, <2>1, FirstWay
    <3> QED
      BY <3>1 DEF Standing, Turn, OverlaysBefore
  <2>4. WhileTrying'
    BY <1>2, <2>1, <2>2, <2>3 DEF WhileTrying
  <2> QED
    BY <1>1, <1>2, <1>3, <2>2, <2>4
       DEF AttemptsInv, AttemptTypes, WhenAnswered, ActiveRungs, OverlayRungs, BufferRungs
<1> QED
  BY <1>4, <1>5

LEMMA SnapSelfKeeps ==
  ASSUME AttemptsInv,
         NEW r \in {"snapSelf0", "snapSelf1"}, NEW s \in {"snapSelf1", "snapBoth"},
         SnapSelfSucceeds(r, s)
  PROVE  AttemptsInv'
<1>1. /\ rung = r /\ rung' = s /\ UNCHANGED <<answer, level, call, failures, exOriginal>>
      /\ r \in LaterOverlayRungs /\ s \in LaterOverlayRungs /\ r \in ActiveRungs /\ s \in ActiveRungs
      /\ r \notin {"idle", "answered"} /\ s \notin {"idle", "answered"}
  BY DEF SnapSelfSucceeds, Goto, LaterOverlayRungs, ActiveRungs, OverlayRungs
<1>2. AttemptTypes' /\ InOrder' /\ WhenAnswered'
  BY <1>1 DEF AttemptsInv, AttemptTypes, InOrder, WhenAnswered, Way
<1>3. Standing(call, rung, level)' /\ Turn(call, rung, level)' = Turn(call, rung, level)
  <2>1. Standing(call, r, level)
    BY <1>1 DEF AttemptsInv, WhileTrying
  <2> QED
    BY <1>1, <2>1 DEF Standing, Turn, LaterOverlayRungs
<1>4. WhileTrying'
  BY <1>1, <1>3 DEF AttemptsInv, WhileTrying, GoneOn, Swallowed, isRuntimeError
<1> QED
  BY <1>2, <1>4 DEF AttemptsInv

LEMMA OtherStepsKeep ==
  ASSUME AttemptsInv, UNCHANGED <<call, rung, level, exOriginal, answer, failures>>
  PROVE  AttemptsInv'
BY DEF AttemptsInv, AttemptTypes, InOrder, WhileTrying, WhenAnswered, Way, GoneOn, Swallowed,
       isRuntimeError, FailsOnlyWhenAllFail, GivesUp, OthersEndTheCall, isTopology, Standing, Turn,
       OverlaysBefore

LEMMA AttemptsInductive == AttemptsInv /\ [NextOfAttempts]_attemptVars => AttemptsInv'
<1> SUFFICES ASSUME AttemptsInv, [NextOfAttempts]_attemptVars PROVE AttemptsInv'
  OBVIOUS
<1>1. ASSUME NEW c \in Calls, BeginCall(c) PROVE AttemptsInv'
  BY <1>1, BeginCallKeeps
<1>2. CASE Attempt
  <2>1. ASSUME NEW r \in (OverlayRungs \cup BufferRungs) \ {"snapSelf0", "snapSelf1"}, Succeeds(r)
        PROVE  AttemptsInv'
    BY <2>1, SucceedsKeeps DEF ActiveRungs
  <2>2. CASE SnapSelfSucceeds("snapSelf0", "snapSelf1")
    BY <2>2, SnapSelfKeeps
  <2>3. CASE SnapSelfSucceeds("snapSelf1", "snapBoth")
    BY <2>3, SnapSelfKeeps
  <2>4. ASSUME NEW type \in Thrown,
               LET ex == Exception(type)
               IN  \/ FixedFails(ex) \/ FloatingFails(ex) \/ SnappingFails(ex) \/ RoundingFails(ex)
                   \/ \E r \in {"snapSelf0", "snapSelf1", "snapBoth"} : SnapBothFails(r, ex)
                   \/ OriginalFails(ex) \/ FixedPrecisionFails(ex) \/ ReducedFails(ex)
        PROVE  AttemptsInv'
    BY <2>4, FailureKeeps
  <2> QED
    BY <1>2, <2>1, <2>2, <2>3, <2>4 DEF Attempt
<1>3. CASE EndCall
  <2>1. rung' = "idle" /\ level' = 0 /\ failures' = <<>> /\ answer' = NoAnswer
    BY <1>3 DEF EndCall
  <2> QED
    BY <2>1 DEF AttemptsInv, AttemptTypes, InOrder, WhileTrying, WhenAnswered, ActiveRungs,
                OverlayRungs, BufferRungs
<1>4. ASSUME NEW how \in {"once", "always"}, Request(how) PROVE AttemptsInv'
  BY <1>4, OtherStepsKeep DEF Request
<1>5. CASE Cancel
  BY <1>5, OtherStepsKeep DEF Cancel
<1>6. CASE UNCHANGED attemptVars
  BY <1>6, OtherStepsKeep DEF attemptVars
<1> QED
  BY <1>1, <1>2, <1>3, <1>4, <1>5, <1>6 DEF NextOfAttempts

LEMMA AttemptsInvSays == AttemptsInv => FailsOnlyWhenAllFail /\ OthersEndTheCall
<1> SUFFICES ASSUME AttemptsInv PROVE FailsOnlyWhenAllFail /\ OthersEndTheCall
  OBVIOUS
<1>1. CASE rung = "idle"
  BY <1>1 DEF AttemptsInv, AttemptTypes, FailsOnlyWhenAllFail, OthersEndTheCall
<1>2. CASE rung \in ActiveRungs
  <2>1. rung # "idle" /\ answer.kind # "thrown"
    BY <1>2 DEF AttemptsInv, WhileTrying, NoAnswer, ActiveRungs, OverlayRungs, BufferRungs
  <2> QED
    BY <1>2, <2>1
       DEF AttemptsInv, InOrder, WhileTrying, GoneOn, FailsOnlyWhenAllFail, OthersEndTheCall
<1>3. CASE rung = "answered"
  BY <1>3 DEF AttemptsInv, WhenAnswered
<1> QED
  BY <1>1, <1>2, <1>3 DEF AttemptsInv, AttemptTypes

(***************************************************************************)
(* Where a call stands is what its failures say, at every moment.          *)
(***************************************************************************)
THEOREM AttemptsInvariance == AttemptsSpec => []AttemptsInv
<1>1. NothingCalled => AttemptsInv
  BY DEF NothingCalled, AttemptsInv, AttemptTypes, InOrder, WhileTrying, WhenAnswered, ActiveRungs,
         OverlayRungs, BufferRungs
<1> QED
  BY <1>1, AttemptsInductive, PTL DEF AttemptsSpec

(***************************************************************************)
(* OverlayNGRobust::Overlay, BufferOp and ClassicUnionStrategy::Union skip *)
(* nothing and fail with a topology problem only when every way has, for   *)
(* any numbers of tolerances and digits; where the overlay gives up, when  *)
(* every way to overlay has.  It is also exactly which exception is thrown *)
(* that this says, so that of floating unions none gets to buffer(0).      *)
(***************************************************************************)
THEOREM CallsFailOnlyWhenAllFail == AttemptsSpec => []FailsOnlyWhenAllFail
  BY AttemptsInvariance, AttemptsInvSays, PTL

(***************************************************************************)
(* Any other failure ends the call as what it is, unless it is the first   *)
(* overlay in floating precision that fails.                               *)
(***************************************************************************)
THEOREM OtherFailuresEndTheCall == AttemptsSpec => []OthersEndTheCall
  BY AttemptsInvariance, AttemptsInvSays, PTL

-------------------------------------------------------------------------------
\* From the first pass on nodes were created, or the noding is over.
NoderInv ==
  /\ noding \in {"idle", "pass", "noded", "thrown"}
  /\ maxIter \in Int /\ nodingIterationCount \in Nat /\ lastNodesCreated \in -1 .. MaxNodes
  /\ noding = "idle" => nodingIterationCount = 0
  /\ noding \in {"idle", "pass"} => (nodingIterationCount = 0 <=> lastNodesCreated <= 0)
  /\ PassesAreBounded

LEMMA NoderInductive == NoderInv /\ [NextOfNoder]_noderVars => NoderInv'
<1> USE CountsAssumption
<1> SUFFICES ASSUME NoderInv, [NextOfNoder]_noderVars PROVE NoderInv'
  OBVIOUS
<1>1. CASE StartNoding
  BY <1>1 DEF StartNoding, NoderInv, PassesAreBounded
<1>2. ASSUME NEW nodesCreated \in 0 .. MaxNodes, Pass(nodesCreated) PROVE NoderInv'
  <2>1. /\ noding = "pass" /\ nodingIterationCount' = nodingIterationCount + 1
        /\ nodingIterationCount \in Nat /\ maxIter' = maxIter
    BY <1>2 DEF Pass, NoderInv
  <2>2. CASE notDeclining(nodesCreated)
    BY <1>2, <2>1, <2>2 DEF Pass, NoderInv, PassesAreBounded
  <2>3. CASE ~notDeclining(nodesCreated)
    <3>1. /\ lastNodesCreated' = nodesCreated
          /\ noding' = IF nodesCreated > 0 THEN "pass" ELSE "noded"
      BY <1>2, <2>3 DEF Pass
    <3>2. \/ lastNodesCreated <= 0 \/ nodesCreated < lastNodesCreated
          \/ nodingIterationCount + 1 <= maxIter
      BY <2>1, <2>3 DEF notDeclining, NoderInv
    <3>3. PassesAreBounded'
      BY <2>1, <3>1, <3>2 DEF NoderInv, PassesAreBounded, Larger
    <3> QED
      BY <2>1, <3>1, <3>3 DEF NoderInv
  <2> QED
    BY <2>2, <2>3
<1>3. CASE PassThrows
  BY <1>3 DEF PassThrows, NoderInv, PassesAreBounded
<1>4. CASE LeaveNoder
  BY <1>4 DEF LeaveNoder, NoderInv, PassesAreBounded
<1>5. CASE UNCHANGED noderVars
  BY <1>5 DEF noderVars, NoderInv, PassesAreBounded, Larger
<1> QED
  BY <1>1, <1>2, <1>3, <1>4, <1>5 DEF NextOfNoder

(***************************************************************************)
(* IteratedNoder::computeNodes makes a bounded number of passes, whatever  *)
(* numbers of nodes they create.                                           *)
(***************************************************************************)
THEOREM NodingIsBounded == NoderSpec => []PassesAreBounded
<1>1. NotNoding => NoderInv
  BY CountsAssumption DEF NotNoding, NoderInv, PassesAreBounded
<1>2. NoderInv => PassesAreBounded
  BY DEF NoderInv
<1> QED
  BY <1>1, <1>2, NoderInductive, PTL DEF NoderSpec
===============================================================================
