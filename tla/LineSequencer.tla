------------------------------ MODULE LineSequencer ------------------------------
(***************************************************************************)
(* LineSequencer: the lines of each connected part are put in the order of *)
(* a trail that uses each of them once.  A trail is followed to where it   *)
(* ends; then, from its end back to its start, detours over unused edges   *)
(* are put in, and each has to come back to where it left.                 *)
(*                                                                         *)
(* The order of the edges around a node depends on angles; here they come  *)
(* in any order.                                                           *)
(***************************************************************************)
EXTENDS LineMergeGraph, SequencesExt

CONSTANTS ListsOfLines  \* the geometries that may be given

ASSUME ListsAssumption == ListsOfLines \subseteq Seq(LineString)

VARIABLES
  isRun, isSequenceable,
  sequencing,   \* "new", "idle", "parts", "trail" or "back"
  partsLeft,    \* connected parts to come, the current one included: sets of edges
  seq, lit,     \* the sequence of the current part, and where to insert
  visited,      \* edges of the part that are used
  at,           \* the node a trail has come to
  endNode,      \* the node it has to come to, or NoNode
  sequences,    \* of the parts done
  answer        \* of the last call: "none", "yes", "no" or "thrown"

NoNode == -1
partVars == <<seq, lit, visited, at, endNode>>
sequencerVars == <<isRun, isSequenceable, sequencing, partsLeft, partVars, sequences, answer>>

NotSequenced ==
  /\ isRun = FALSE /\ isSequenceable = FALSE /\ sequencing = "new" /\ partsLeft = {}
  /\ seq = <<>> /\ lit = 1 /\ visited = {} /\ at = NoNode /\ endNode = NoNode
  /\ sequences = <<>> /\ answer = "none"

\* sequence(): a sequencer is given all lines, and then asked.
AddAll(list) == /\ sequencing = "new" /\ sequencing' = "idle" /\ lines' = list
                /\ UNCHANGED <<isRun, isSequenceable, partsLeft, partVars, sequences, answer>>

\* ConnectedSubgraphFinder; the parts come in the order of their first edges.
ConnectedSubgraphs == {Connected({e}, Edges) : e \in Edges}
part == CHOOSE E \in partsLeft : \A F \in partsLeft : First(E) <= First(F)

OddNodes(E) == {n \in EndsOfAll(E) : getDegree(n) % 2 = 1}

\* mutated form of hasSequence: only closed sequences
hasSequenceClosed(E) == OddNodes(E) = {}

hasSequence(E) == Cardinality(OddNodes(E)) <= 2

findLowestDegreeNode(E) ==
  First({n \in EndsOfAll(E) : \A k \in EndsOfAll(E) : getDegree(n) <= getDegree(k)})

\* findUnvisitedBestOrientedDE
Best(n, used) ==
  LET unvisited == {de \in outEdges(n) : edge(de) \notin used}
      wellOriented == {de \in unvisited : getEdgeDirection(de)}
  IN  IF wellOriented # {} THEN wellOriented ELSE unvisited

------------------------------------------------------------------------------
Ask ==
  /\ sequencing = "idle"
  /\ IF isRun THEN answer' = (IF isSequenceable THEN "yes" ELSE "no") /\ UNCHANGED <<isRun, sequencing, partsLeft>>
     ELSE isRun' = TRUE /\ sequencing' = "parts" /\ partsLeft' = ConnectedSubgraphs /\ answer' = "none"
  /\ UNCHANGED <<lines, isSequenceable, partVars, sequences>>

AbortParts ==
  /\ sequencing = "parts" /\ partsLeft # {} /\ ~hasSequence(part)
  /\ sequencing' = "idle" /\ answer' = "no" /\ sequences' = <<>> /\ partsLeft' = {}
  /\ UNCHANGED <<lines, isRun, isSequenceable, partVars>>

\* The first line, and from there on wherever the trail goes.
Use(de, place) == /\ seq' = InsertAt(seq, place, de) /\ lit' = place + 1
                  /\ visited' = visited \cup {edge(de)} /\ at' = toNode(de)

StartPart(de) ==
  /\ sequencing = "parts" /\ partsLeft # {} /\ hasSequence(part)
  /\ sequencing' = "trail" /\ endNode' = NoNode
  /\ fromNode(de) = findLowestDegreeNode(part)
  /\ seq' = <<de>> /\ lit' = 2 /\ visited' = {edge(de)} /\ at' = toNode(de)
  /\ UNCHANGED <<lines, isRun, isSequenceable, partsLeft, sequences, answer>>

Extend(de) ==
  /\ sequencing = "trail" /\ de \in Best(at, visited) /\ Use(de, lit)
  /\ UNCHANGED <<lines, isRun, isSequenceable, sequencing, partsLeft, endNode, sequences, answer>>

EndTrail ==
  /\ sequencing = "trail" /\ Best(at, visited) = {}
  /\ IF endNode \in {NoNode, at}
     THEN sequencing' = "back" /\ UNCHANGED <<partsLeft, sequences, answer>>
     ELSE sequencing' = "idle" /\ answer' = "thrown" /\ partsLeft' = {} /\ sequences' = <<>>
  /\ UNCHANGED <<lines, isRun, isSequenceable, partVars>>

\* mutated form of detour: it is put in after the edge it leaves from
detourAfter(de) == Use(de, lit)

\* A detour is put in before the edge it leaves from.
detour(de) == Use(de, lit - 1)

StartDetour(de) ==
  /\ sequencing = "back" /\ lit > 1
  /\ de \in Best(fromNode(seq[lit - 1]), visited) /\ detour(de)
  /\ endNode' = fromNode(de) /\ sequencing' = "trail"
  /\ UNCHANGED <<lines, isRun, isSequenceable, partsLeft, sequences, answer>>

StepBack ==
  /\ sequencing = "back" /\ lit > 1
  /\ Best(fromNode(seq[lit - 1]), visited) = {} /\ lit' = lit - 1
  /\ UNCHANGED <<lines, isRun, isSequenceable, sequencing, partsLeft, seq, visited, at, endNode, sequences, answer>>

------------------------------------------------------------------------------
reverse(s) == [i \in DOMAIN s |-> getSym(s[Len(s) + 1 - i])]
isEnd(n) == getDegree(n) = 1

\* orient(): a start where a line starts is kept, an end where a line starts
\* becomes the start, and any other start of degree one becomes the end.
flipSeq(s) ==
  LET first == s[1] last == s[Len(s)]
      goodStart == isEnd(fromNode(first)) /\ getEdgeDirection(first)
      goodEnd == isEnd(toNode(last)) /\ ~getEdgeDirection(last)
  IN  ~goodStart /\ (goodEnd \/ isEnd(fromNode(first)))

EndPart ==
  /\ sequencing = "back" /\ lit = 1
  /\ sequences' = Append(sequences, IF flipSeq(seq) THEN reverse(seq) ELSE seq)
  /\ partsLeft' = partsLeft \ {part} /\ sequencing' = "parts"
  /\ seq' = <<>> /\ visited' = {} /\ at' = NoNode /\ endNode' = NoNode
  /\ UNCHANGED <<lines, isRun, isSequenceable, lit, answer>>

\* buildSequencedGeometry
Build ==
  /\ sequencing = "parts" /\ partsLeft = {}
  /\ isSequenceable' = TRUE /\ answer' = "yes" /\ sequencing' = "idle"
  /\ UNCHANGED <<lines, isRun, partsLeft, partVars, sequences>>

NextOfSequencer ==
  \/ sequencing = "new" /\ \E list \in ListsOfLines : AddAll(list)
  \/ Ask \/ AbortParts \/ EndTrail \/ StepBack \/ EndPart \/ Build
  \/ \E de \in DirEdges : StartPart(de) \/ Extend(de) \/ StartDetour(de)

SpecOfSequencer == lines = <<>> /\ NotSequenced /\ [][NextOfSequencer]_<<lines, sequencerVars>>
------------------------------------------------------------------------------
\* The lines of the result, each as it is or reversed.
sequencedGeometry == LET all == FlattenSeq(sequences)
                     IN  [i \in DOMAIN all |-> [from |-> fromNode(all[i]), to |-> toNode(all[i])]]

\* Nodes of the connected sequences that were complete before line i.
prevSubgraphNodes(mls, i) ==
  LET breaks == {k \in 2..(i - 1) : mls[k].from # mls[k - 1].to}
      done == IF breaks = {} THEN {} ELSE 1..(Max(breaks) - 1)
  IN  UNION {{mls[k].from, mls[k].to} : k \in done}

isSequenced(mls) ==
  \A i \in DOMAIN mls : {mls[i].from, mls[i].to} \cap prevSubgraphNodes(mls, i) = {}

\* s uses each line of E once and goes from line to line without a gap, from a line
\* that starts at a node of degree one, if any does, to one that ends at one.
IsTrailOver(s, E) ==
  LET free == {de \in E \X {TRUE} : isEnd(fromNode(de))}
      last == {de \in E \X {TRUE} : isEnd(toNode(de))}
  IN  /\ {edge(s[i]) : i \in DOMAIN s} = E /\ Len(s) = Cardinality(E)
      /\ \A i \in 2..Len(s) : fromNode(s[i]) = toNode(s[i - 1])
      /\ free # {} => s[1] \in free
      /\ last # {} => s[Len(s)] \in last

(***************************************************************************)
(* Each part has a sequence, which uses each of its lines once and goes    *)
(* from line to line without a gap; isSequenced() accepts the whole.       *)
(* LineSequencer.h: if a line starts at a node of degree one, so does the  *)
(* sequence; if a line ends at one, so does the sequence.                  *)
(***************************************************************************)
SequencesAreTrails ==
  answer = "yes" =>
    /\ Len(sequences) = Cardinality(ConnectedSubgraphs)
    /\ \A E \in ConnectedSubgraphs : \E k \in DOMAIN sequences : IsTrailOver(sequences[k], E)
    /\ isSequenced(sequencedGeometry)

\* The edges of E in some order, each one way or the other, without a gap.
HasTrail(E) ==
  LET n == Cardinality(E)
  IN  \E order \in Bijection(1..n, E) : \E along \in [1..n -> BOOLEAN] :
        \A i \in 2..n : fromNode(<<order[i], along[i]>>) = toNode(<<order[i - 1], along[i - 1]>>)

(***************************************************************************)
(* The answer is yes if there is a trail over the lines of each part; if   *)
(* there is one and the answer is no, or the first call throws, then some  *)
(* part has two odd nodes and the trail started at neither: the node of    *)
(* lowest degree is even.                                                  *)
(***************************************************************************)
StartsAstray(E) == OddNodes(E) # {} /\ findLowestDegreeNode(E) \notin OddNodes(E)
AnswerIsEulers ==
  answer # "none" =>
    (answer = "yes" <=> \A E \in ConnectedSubgraphs : HasTrail(E) /\ ~StartsAstray(E))

(***************************************************************************)
(* LineSequencer.h: there is a sequence if and only if no more than two    *)
(* nodes are of odd degree, that is, if there is a trail.  Not so: see     *)
(* StartsAstray.                                                           *)
(***************************************************************************)
SequencedWheneverPossible ==
  answer # "none" => (answer = "yes" <=> \A E \in ConnectedSubgraphs : HasTrail(E))
=================================================================================
