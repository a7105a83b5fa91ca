------------------------------ MODULE PlanarInputs ------------------------------
(* Lines between few nodes, and all ways to draw them without crossings. *)
EXTENDS Naturals, Sequences, FiniteSets, SequencesExt, TLC

Line(a, b) == [from |-> a, to |-> b, collapsed |-> FALSE]
EndsIn(list) == {list[i].from : i \in DOMAIN list} \cup {list[i].to : i \in DOMAIN list}
Sides(list) == (DOMAIN list) \X BOOLEAN
Origin(list, de) == IF de[2] THEN list[de[1]].from ELSE list[de[1]].to
OutOf(list, n) == {de \in Sides(list) : Origin(list, de) = n}

\* All orders of the edges around each node.
Stars(list) ==
  FoldLeft(LAMBDA stars, n : {s @@ (n :> p) : s \in stars, p \in SetToSeqs(OutOf(list, n))},
           {<<>>}, SetToSeq(EndsIn(list)))

\* The edge that comes after de around a face.
After(list, s, de) ==
  LET sym == <<de[1], ~de[2]>>
      p == s[Origin(list, sym)]
      i == CHOOSE k \in DOMAIN p : p[k] = sym
  IN  p[(i % Len(p)) + 1]

RECURSIVE Around(_, _, _)
Around(list, s, S) == LET more == S \cup {After(list, s, de) : de \in S}
                      IN  IF more = S THEN S ELSE Around(list, s, more)

RECURSIVE Reach(_, _)
Reach(list, S) ==
  LET more == S \cup UNION {{list[i].from, list[i].to} :
                i \in {k \in DOMAIN list : {list[k].from, list[k].to} \cap S # {}}}
  IN  IF more = S THEN S ELSE Reach(list, more)

\* Euler: nodes - edges + faces = 2 for each connected part.
IsPlanar(list, s) ==
  LET faces == Cardinality({Around(list, s, {de}) : de \in Sides(list)})
      parts == Cardinality({Reach(list, {n}) : n \in EndsIn(list)})
  IN  Cardinality(EndsIn(list)) + faces = Len(list) + 2 * parts

Drawings(list) == {[lines |-> list, star |-> s] : s \in {t \in Stars(list) : IsPlanar(list, t)}}
=================================================================================
