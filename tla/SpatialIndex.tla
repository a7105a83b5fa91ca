----------------------------- MODULE SpatialIndex -----------------------------
(***************************************************************************)
(* What a spatial index promises, without a tree: a set of entries, each   *)
(* an item with its bounds, to which entries are added, from which single  *)
(* entries are removed, and which answers queries exactly.  A request is   *)
(* made, and answered in a later step.                                     *)
(***************************************************************************)
EXTENDS Naturals, Sequences, FiniteSets

CONSTANTS Meets(_, _),   \* whether two envelopes intersect
          Requests,      \* what may be asked
          NoRequest

VARIABLES entries, pending, answer

vars == << entries, pending, answer >>

Lowest(a, b) == IF a <= b THEN a ELSE b

\* s lists members of S, none twice, and does not end before it has limit of
\* them or all.
ListsAtLeast(s, S, limit) ==
  /\ Len(s) >= Lowest(limit, Cardinality(S))
  /\ \A k \in DOMAIN s : s[k] \in S
  /\ \A j, k \in DOMAIN s : j # k => s[j] # s[k]

Lists(s, S, limit) == /\ ListsAtLeast(s, S, limit)
                      /\ Len(s) = Lowest(limit, Cardinality(S))

Matching(env) == {e \in entries : Meets(e.bounds, env)}

\* The pairs of entries that intersect, in either order of the two.
MeetingPairs == {P \in SUBSET entries :
                   /\ Cardinality(P) = 2
                   /\ \A d, e \in P : Meets(d.bounds, e.bounds)}

AsSets(s) == [k \in DOMAIN s |-> {s[k][1], s[k][2]}]

Init == entries = {} /\ pending = NoRequest /\ answer = << >>

\* An entry is added, or the item is ignored.
Add == /\ pending = NoRequest
       /\ entries \subseteq entries'
       /\ Cardinality(entries') <= Cardinality(entries) + 1
       /\ answer' = << >>
       /\ UNCHANGED pending

Ask(r) == /\ pending = NoRequest
          /\ pending' = r
          /\ answer' = << >>
          /\ UNCHANGED entries

AnswerQuery == /\ pending # NoRequest /\ pending.op = "query"
               /\ Lists(answer', Matching(pending.env), pending.limit)
               /\ pending' = NoRequest
               /\ UNCHANGED entries

AnswerPairs == /\ pending # NoRequest /\ pending.op = "queryPairs"
               /\ ListsAtLeast(AsSets(answer'), MeetingPairs, pending.limit)
               /\ pending' = NoRequest
               /\ UNCHANGED entries

\* Exactly one entry of the item goes, if there is one where the caller looks.
AnswerRemove ==
  /\ pending # NoRequest /\ pending.op = "remove"
  /\ LET found == {e \in Matching(pending.env) : e.item = pending.item}
     IN  IF found = {} THEN answer' = << >> /\ UNCHANGED entries
         ELSE \E e \in found : answer' = << e >> /\ entries' = entries \ {e}
  /\ pending' = NoRequest

AnswerItems == /\ pending # NoRequest /\ pending.op = "items"
               /\ Lists(answer', entries, Cardinality(entries))
               /\ pending' = NoRequest
               /\ UNCHANGED entries

\* Everything there is, at once.
Enumerate == /\ pending = NoRequest
             /\ Lists(answer', entries, Cardinality(entries))
             /\ UNCHANGED << entries, pending >>

Next == \/ Add
        \/ \E r \in Requests : Ask(r)
        \/ AnswerQuery \/ AnswerPairs \/ AnswerItems \/ AnswerRemove
        \/ Enumerate

Spec == Init /\ [][Next]_vars
===============================================================================
