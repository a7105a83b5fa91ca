----------------------------- MODULE MCRelateNG ------------------------------
(* Instances of RelateNG for TLC: shapes of every type in the plane of MCPlane. *)
EXTENDS RelateNG, MCPlane

Shapes ==
  [P0 |-> Points({}), P1 |-> Points({"o"}), P2 |-> Points({"p"}),
   P3 |-> Points({"e", "q"}), P4 |-> Points({"o", "p"}),
   L0 |-> Lines({}),
   L1 |-> Lines({<<"w", "o", "e">>}),
   L2 |-> Lines({<<"n", "o">>, <<"o", "s">>}),
   L3 |-> Lines({<<"p", "q">>, <<"o", "e">>}),
   L4 |-> Lines({<<"o", "e", "n", "o">>}),
   L5 |-> Lines({<<"o", "e">>, <<"o", "n">>, <<"w", "o">>}),
   L6 |-> Lines({<<"q", "r", "p", "q">>}),
   L8 |-> Lines({<<"p", "q">>, <<"w", "s">>}),
   A0 |-> Areas({}),
   A1 |-> Areas({Polygon({"NE", "T", "SE"}, <<<<"o", "s", "e", "n">>>>)}),
   A2 |-> Areas({Polygon({"NE", "T", "NW"}, <<<<"w", "o", "e", "n">>>>)}),
   A3 |-> Areas({T}),
   A4 |-> Areas({Polygon({"NE"}, <<<<"o", "e", "n">>, <<"q", "r", "p">>>>)}),
   A5 |-> Areas({NE}),
   A6 |-> Areas({Polygon({"NE", "T", "NW", "SW", "SE"}, <<<<"e", "n", "w", "s">>>>)}),
   A7 |-> Areas({NE, SW}),
   A8 |-> Areas({T, SW}),
   A9 |-> Areas({Polygon({"NW", "SW"}, <<<<"n", "w", "s", "o">>>>)})]

Evaluated ==
  {Named(name) : name \in Name \ {"matches"}}
    \cup {Matching(<<"T","*","F","*","*","F","F","F","*">>),
          Matching(<<"F","F","*","F","F","*","*","*","*">>),
          Matching(<<"1","*","*","*","0","*","T","*","*">>),
          Matching(<<"*","*","*","1","*","*","*","1","2">>)}
==============================================================================
