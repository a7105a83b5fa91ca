------------------------------- MODULE MCPlane -------------------------------
(***************************************************************************)
(* A diamond w-s-e-n cut into quarters at o, and a triangle p-q-r inside   *)
(* the north-eastern quarter that touches nothing.                         *)
(***************************************************************************)
EXTENDS RelateGeometry

Plane == [o |-> <<0, 0>>, e |-> <<6, 0>>, n |-> <<0, 6>>, w |-> <<-6, 0>>, s |-> <<0, -6>>,
          p |-> <<1, 1>>, q |-> <<3, 1>>, r |-> <<1, 3>>]

\* For each edge <<from, to, face on the left, face on the right>>.
Sides == {<<"o", "e", "NE", "SE">>, <<"o", "n", "NW", "NE">>, <<"o", "w", "SW", "NW">>,
          <<"o", "s", "SE", "SW">>, <<"e", "n", "NE", "out">>, <<"n", "w", "NW", "out">>,
          <<"w", "s", "SW", "out">>, <<"s", "e", "SE", "out">>, <<"p", "q", "T", "NE">>,
          <<"q", "r", "T", "NE">>, <<"r", "p", "T", "NE">>}
FacesBeside(sides) ==
  [d \in {<<x[1], x[2]>> : x \in sides} \cup {<<x[2], x[1]>> : x \in sides} |->
     CHOOSE f \in {x[3] : x \in sides} \cup {x[4] : x \in sides} :
       \E x \in sides : \/ x[1] = d[1] /\ x[2] = d[2] /\ x[3] = f
                        \/ x[2] = d[1] /\ x[1] = d[2] /\ x[4] = f]
Faces == FacesBeside(Sides)

Points(S) == [type |-> P, points |-> S, lines |-> {}, polygons |-> {}]
Lines(S) == [type |-> L, points |-> {}, lines |-> S, polygons |-> {}]
Areas(S) == [type |-> A, points |-> {}, lines |-> {}, polygons |-> S]
Polygon(faces, rings) == [faces |-> faces, rings |-> rings]

T == Polygon({"T"}, <<<<"p", "q", "r">>>>)
SW == Polygon({"SW"}, <<<<"o", "w", "s">>>>)
NE == Polygon({"NE", "T"}, <<<<"n", "o", "e">>>>)
===============================================================================
