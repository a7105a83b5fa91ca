------------------------- MODULE MCPreparedGeometry --------------------------
(***************************************************************************)
(* The plane of MCPlane with a vertex d between o and n, inside a triangle *)
(* a-b-c: of three rings each may lie within the next, and a line from s   *)
(* to d may cross the boundary of the northern half at o and nowhere else. *)
(***************************************************************************)
EXTENDS PreparedGeometry, MCPlane, TLC

WiderPlane == Plane @@ [d |-> <<0, 4>>, a |-> <<-30, -20>>, b |-> <<30, -20>>, c |-> <<0, 40>>]
WiderFaces ==
  FacesBeside((Sides \ {<<"o", "n", "NW", "NE">>})
                \cup {<<"o", "d", "NW", "NE">>, <<"d", "n", "NW", "NE">>, <<"a", "b", "out", "far">>,
                      <<"b", "c", "out", "far">>, <<"c", "a", "out", "far">>})

Diamond == {"NE", "T", "NW", "SW", "SE"}
Shell == <<"a", "b", "c">>

PolygonsPrepared ==
  [A1 |-> Areas({Polygon({"NE", "T", "SE"}, <<<<"s", "e", "n", "d", "o">>>>)}),
   A2 |-> Areas({Polygon({"NE", "NW"}, <<<<"w", "o", "e", "n">>, <<"q", "r", "p">>>>)}),
   A4 |-> Areas({Polygon({"NE", "T"}, <<<<"n", "d", "o", "e">>>>), SW}),
   A5 |-> Areas({Polygon((Diamond \ {"T"}) \cup {"out"}, <<Shell, <<"p", "r", "q">>>>)}),
   A6 |-> Areas({Polygon({"SW", "SE", "out"}, <<Shell, <<"w", "n", "e", "o">>>>), T})]
OthersPrepared ==
  [P3 |-> Points({"e", "q"}), L1 |-> Lines({<<"w", "o", "e">>}),
   L2 |-> Lines({<<"p", "q">>, <<"o", "d">>})]
Tests ==
  [P0 |-> Points({}), P1 |-> Points({"d"}), P2 |-> Points({"o", "p"}), P4 |-> Points({"e", "s"}),
   L0 |-> Lines({}), L3 |-> Lines({<<"s", "o", "d">>}), L4 |-> Lines({<<"p", "q", "r">>}),
   L5 |-> Lines({<<"o", "e", "n">>}), L6 |-> Lines({<<"w", "o", "e">>, <<"a", "c">>}),
   A0 |-> Areas({}), A3 |-> Areas({T}),
   A7 |-> Areas({Polygon(Diamond, <<<<"e", "n", "w", "s">>>>)}),
   A8 |-> Areas({Polygon({"NW", "SW"}, <<<<"n", "w", "s", "o", "d">>>>)})]
Shapes == PolygonsPrepared @@ OthersPrepared @@ Tests

Targets == DOMAIN PolygonsPrepared \cup DOMAIN OthersPrepared
TestGeometries == DOMAIN Tests \cup {"A5"}
===============================================================================
