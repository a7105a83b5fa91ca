----------------------------- MODULE MCSTRtreeCalls ----------------------------
(***************************************************************************)
(* Do calls of an STRtree end, and what may they answer when stores are    *)
(* seen out of order?  Either threads share a tree they build lazily, and  *)
(* the search next to them is one of two empty trees, or there is only a   *)
(* search of two of the trees of MCSTRtreeDistance.                        *)
(***************************************************************************)
EXTENDS STRtreeLazyBuild, MCSTRtreeDistance

VARIABLE machine

allVars == << machine, vars, searchVars >>

SearchOfNothing == /\ root1 = Null /\ root2 = Null /\ maxDistance = Infinity
                   /\ itemDistance = CHOOSE m \in Metrics : TRUE

InitAll == /\ machine \in {"shared", "search"}
           /\ Init /\ SearchInit
           /\ machine = "shared" => SearchOfNothing
           /\ machine = "search" => inserted = 0 /\ capacity = 0

NextAll == /\ \/ machine = "shared" /\ Next /\ UNCHANGED searchVars
              \/ SearchNext /\ UNCHANGED vars
           /\ UNCHANGED machine

SpecAll == InitAll /\ [][NextAll]_allVars /\ Fairness /\ WF_searchVars(SearchNext)
================================================================================
