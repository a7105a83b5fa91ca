------------------------------ MODULE MCClusters ------------------------------
(***************************************************************************)
(* Clusters of five components and spanning trees of four nodes, computed  *)
(* in turn.  With five components and four as the least number of points   *)
(* two cores that are not near each other share three border components.   *)
(***************************************************************************)
EXTENDS ClusterFinder, SpanningTree, TLC

Distinct == {x \in SUBSET Component : Cardinality(x) = 2}
Symmetric(pairs) == {x \in Component \X Component : {x[1], x[2]} \in pairs}
Alone == {{i} : i \in Component}
Turns(a, b, c, d, e) == 0 :> a @@ 1 :> b @@ 2 :> c @@ 3 :> d @@ 4 :> e

InputsToJoin ==
  {[finder |-> "join", minPoints |-> 0, near |-> Symmetric(pairs \cup Alone),
    found |-> pairs \cup Alone, empty |-> {}, turn |-> Turns(1, 3, 4, 0, 2), points |-> points] :
     pairs \in SUBSET Distinct,
     points \in {[i \in Component |-> 1], [i \in Component |-> i], [i \in Component |-> i % 2]}}

\* The envelopes of all components meet, or only those of near ones, which come
\* in another order.
InputsToScan ==
  {[finder |-> "dbscan", minPoints |-> least, near |-> Symmetric(pairs \cup Alone),
    found |-> (IF wide THEN Distinct ELSE pairs) \cup Alone, empty |-> {},
    turn |-> IF wide THEN Turns(0, 1, 2, 3, 4) ELSE Turns(1, 3, 4, 0, 2),
    points |-> [i \in Component |-> 1]] :
     least \in {2, 3, 4}, pairs \in SUBSET Distinct, wide \in BOOLEAN}

\* One component is empty, and near itself alone; clusters of one.
InputsWithEmpty ==
  {[finder |-> finder, minPoints |-> least, near |-> Symmetric(pairs \cup Alone),
    found |-> pairs \cup Alone, empty |-> {2},
    turn |-> Turns(4, 3, 2, 1, 0), points |-> [i \in Component |-> 1]] :
     finder \in {"join", "dbscan"}, least \in {0, 1, 2},
     pairs \in SUBSET {x \in Distinct : 2 \notin x}}

Inputs == InputsToScan \cup InputsToJoin \cup InputsWithEmpty

------------------------------------------------------------------------------
Nodes == {"a", "b", "c", "d"}
Ends == <<<<"a", "b">>, <<"b", "c">>, <<"c", "d">>, <<"d", "a">>, <<"a", "c">>, <<"b", "a">>, <<"d", "d">>>>

\* The last curve is a loop; a curve of no length stands for one that is null.
ListsOfCurves ==
  {[i \in 1..7 |-> [u |-> IF i < 7 /\ weights[i] = 0 THEN "none" ELSE Ends[i][1],
                    v |-> Ends[i][2], weight |-> IF i < 7 THEN weights[i] ELSE 1]] :
     weights \in [1..6 -> 0..2]}

allVars == <<vars, treeVars>>

InitAll == Init /\ NoCurves
NextAll == \/ step = "idle" /\ Next /\ UNCHANGED treeVars
           \/ pc = "idle" /\ NextOfTree /\ UNCHANGED vars
SpecAll == InitAll /\ [][NextAll]_allVars
===============================================================================
