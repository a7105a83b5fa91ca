-------------------------- MODULE MCSTRtreeDistance ---------------------------
(***************************************************************************)
(* Three trees over intervals of a line: one of three levels, one of two,  *)
(* and a single leaf that is larger than some of the branches.             *)
(***************************************************************************)
EXTENDS STRtreeDistance, FiniteSetsExt

CONSTANT Nil

TreeNodes == {1, 2, 3, 4, 5, 6, 10, 11, 12, 20}
TreeRoots == {10, 20, 6, Nil}

TreeChildren == [n \in TreeNodes |-> CASE n = 10 -> {11, 12}
                                       [] n = 11 -> {1, 2}
                                       [] n = 12 -> {3}
                                       [] n = 20 -> {4, 5}
                                       [] OTHER -> {}]

TreeItems == [n \in TreeNodes |-> CASE n = 10 -> {1, 2, 3}
                                    [] n = 11 -> {1, 2}
                                    [] n = 12 -> {3}
                                    [] n = 20 -> {4, 5}
                                    [] OTHER -> {n}]

LeafLow == << 0, 2, 8, 5, 11, 13 >>
LeafHigh == << 0, 3, 9, 5, 12, 17 >>
Low(n) == Min({LeafLow[l] : l \in TreeItems[n]})
High(n) == Max({LeafHigh[l] : l \in TreeItems[n]})

Gap(m, n) == IF Low(n) > High(m) THEN Low(n) - High(m)
             ELSE IF Low(m) > High(n) THEN Low(m) - High(n) ELSE 0
Reach(m, n) == Max({High(m), High(n)}) - Min({Low(m), Low(n)})

Gaps == [p \in TreeNodes \X TreeNodes |-> Gap(p[1], p[2])]
Reaches == [p \in TreeNodes \X TreeNodes |-> Reach(p[1], p[2])]
Sizes == [n \in TreeNodes |-> High(n) - Low(n)]

TreeLeaves == 1 .. 6

\* The pairs whose distance is varied.
Varied == {<< 1, 4 >>, << 2, 4 >>, << 3, 4 >>, << 3, 5 >>, << 3, 6 >>}

\* Item distances of at least Shortest, plus two for some pairs of leaves.
MetricsFrom(Shortest(_)) ==
  {[p \in TreeLeaves \X TreeLeaves |->
      IF p \in farther THEN Min({Shortest(p) + 2, Reaches[p]}) ELSE Shortest(p)] :
   farther \in SUBSET Varied}

EnvelopeMetrics == MetricsFrom(LAMBDA p : Gaps[p])

\* As the documentation asks: at most the distance of the envelopes.
DocumentedMetrics ==
  {[p \in TreeLeaves \X TreeLeaves |-> IF p \in closer THEN 0 ELSE Gaps[p]] :
   closer \in SUBSET Varied}


===============================================================================
