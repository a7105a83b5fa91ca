------------------------------- MODULE MCLinework -------------------------------
(***************************************************************************)
(* Lines merged, put in sequence, and polygonized: one task in a run.      *)
(***************************************************************************)
EXTENDS LineMerger, LineSequencer, Polygonizer, PlanarInputs

VARIABLE task

Code(line) == 4 * line.from + line.to
InOrder(list) == \A i \in 1..(Len(list) - 1) : Code(list[i]) <= Code(list[i + 1])

\* Only the order of nodes matters, so the numbers in use have no gap.
NoGap(list) == \A i \in DOMAIN list : \A k \in 1..Max({list[i].from, list[i].to}) : k \in EndsIn(list)
Lists(n, k) == {list \in [1..n -> {Line(a, b) : a, b \in 1..k}] : InOrder(list) /\ NoGap(list)}

\* Up to four lines between four nodes, five between three.
ListsBetweenNodes == UNION {Lists(n, 4) : n \in 1..4} \cup Lists(5, 3)

\* To be merged: three lines between four nodes, four between three.
Fewer(list) == Len(list) < 4 \/ (Len(list) = 4 /\ 4 \notin EndsIn(list))

\* A line that is added after a first call, and one of no length.
LinesToAdd == {Line(2, 3), [Line(2, 2) EXCEPT !.collapsed = TRUE]}

\* Three lines between three nodes, four between two; four without loops.
SmallGraphs ==
  {list \in Lists(3, 3) \cup Lists(4, 2) \cup {l \in Lists(4, 3) : \A i \in 1..4 : l[i].from # l[i].to} :
     /\ \A i \in DOMAIN list : list[i].from <= list[i].to
     /\ \A k \in 1..3 : Cardinality(OutOf(list, k)) <= 4}

\* Four nodes, each two of which are joined.
K4 == <<Line(1, 2), Line(1, 3), Line(2, 3), Line(1, 4), Line(2, 4), Line(3, 4)>>

\* Three rectangles in a row, each of which overlaps the next.
Rectangles ==
  [lines |-> <<Line(2, 1), Line(1, 2), Line(4, 3), Line(3, 4), Line(1, 2), Line(1, 4), Line(2, 3), Line(3, 4)>>,
   star |-> << <<<<5, TRUE>>, <<6, TRUE>>, <<1, FALSE>>, <<2, TRUE>>>>,
               <<<<7, TRUE>>, <<5, FALSE>>, <<2, FALSE>>, <<1, TRUE>>>>,
               <<<<4, TRUE>>, <<8, TRUE>>, <<7, FALSE>>, <<3, FALSE>>>>,
               <<<<3, TRUE>>, <<6, FALSE>>, <<8, FALSE>>, <<4, FALSE>>>> >>]

SmallDrawings == UNION {Drawings(list) : list \in SmallGraphs \cup {K4}} \cup {Rectangles}

notLines == <<star, stage, nodeStack, marked, dangles, cutEdges, next, label, toSplit, rings, ringVars>>

Init == /\ task \in {"merge", "sequence", "polygonize"}
        /\ lines \in IF task = "merge" THEN {list \in ListsOfLines : Fewer(list)} ELSE {<<>>}
        /\ Empty /\ (task # "merge" => ~isDirected)
        /\ NotSequenced
        /\ NoGraph /\ NoRings
Next == /\ \/ task = "merge" /\ NextOfMerger /\ UNCHANGED <<sequencerVars, notLines>>
           \/ task = "sequence" /\ NextOfSequencer /\ UNCHANGED <<mergerVars, notLines>>
           \/ task = "polygonize" /\ NextOfPolygonizer /\ UNCHANGED <<mergerVars, sequencerVars>>
        /\ UNCHANGED task
Spec == Init /\ [][Next]_<<task, lines, mergerVars, sequencerVars, notLines>>
=================================================================================
