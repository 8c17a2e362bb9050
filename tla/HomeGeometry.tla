---------------------------- MODULE HomeGeometry -----------------------------
(***************************************************************************)
(* What the validator of packages/geometry-kernel decides in the plane,    *)
(* beside what its findings mean: where two segments meet, whether the     *)
(* boundary of a room and the path of a wall are simple, whether walls     *)
(* bound a room, which openings of a wall overlap, how long a wall is; and *)
(* the point in polygon of C13's substitutions.                            *)
(*                                                                         *)
(* A figure grows by a point, a wall or an opening at a time, and is       *)
(* validated at every size.  Coordinates are integers, as in the code,     *)
(* which computes with BigInt; they are bounded by the contract so that    *)
(* only areas of many points can leave the safe integers, and those are    *)
(* left out with the budget of comparisons, the order and the wording of   *)
(* findings, unknown values and references between elements.               *)
(***************************************************************************)
EXTENDS Integers, Sequences, FiniteSets, SequencesExt

CONSTANTS
    Size,             \* bound: coordinates are 0 .. Size
    MaximumPoints,    \* bound: points of a path
    MaximumOpenings,  \* bound: openings of a wall
    Corners           \* bound: points where the walls of a room begin and end

VARIABLE figure  \* a path, the walls around a room, or the openings of a wall

vars == <<figure>>

Points == (0 .. Size) \X (0 .. Size)

-----------------------------------------------------------------------------
(* Segments.                                                               *)

\* Twice the signed area of a triangle.
Cross(a, b, c) == (b[1] - a[1]) * (c[2] - a[2]) - (b[2] - a[2]) * (c[1] - a[1])

\* orientation2d
Orientation(a, b, c) ==
    LET d == Cross(a, b, c) IN IF d > 0 THEN 1 ELSE IF d < 0 THEN -1 ELSE 0

Between(x, low, high) == (low <= x /\ x <= high) \/ (high <= x /\ x <= low)

\* pointWithinInclusiveBounds
Within(p, a, b) == Between(p[1], a[1], b[1]) /\ Between(p[2], a[2], b[2])

\* onSegment
OnEdge(p, a, b) == Cross(a, b, p) = 0 /\ Within(p, a, b)

\* segmentsIntersect2d
SegmentsIntersect(a, b, c, d) ==
    LET ofC == Orientation(a, b, c)  ofD == Orientation(a, b, d)
        ofA == Orientation(c, d, a)  ofB == Orientation(c, d, b)
        shared == {p \in {a, b, c, d} : Within(p, a, b) /\ Within(p, c, d)}
    IN  IF {ofA, ofB, ofC, ofD} = {0}
        THEN IF shared = {} THEN "none" ELSE IF Cardinality(shared) = 1 THEN "touch" ELSE "overlap"
        ELSE IF ofC * ofD = -1 /\ ofA * ofB = -1 THEN "cross"
        ELSE IF OnEdge(c, a, b) \/ OnEdge(d, a, b) \/ OnEdge(a, c, d) \/ OnEdge(b, c, d) THEN "touch"
        ELSE "none"

-----------------------------------------------------------------------------
(* Paths: walls, and the boundaries of rooms and surfaces, which close.    *)

Segments(path, closed) == IF closed THEN 1 .. Len(path) ELSE 1 .. Len(path) - 1

End(path, i) == path[(i % Len(path)) + 1]

\* Neighbours in the order of the path only.
Consecutive(i, j, path, closed) == j = i + 1 /\ j \in Segments(path, closed)

\* segmentsAreAdjacent
Adjacent(i, j, path, closed) ==
    j = i + 1 \/ (closed /\ i = 1 /\ j = Len(path))

\* validatePointPath
PathIsValid(path, closed) ==
    /\ \A i \in Segments(path, closed) : path[i] # End(path, i)
    /\ \A i, j \in DOMAIN path : path[i] = path[j] => i = j
    /\ \A i, j \in Segments(path, closed) :
          i < j /\ ~Adjacent(i, j, path, closed) =>
             SegmentsIntersect(path[i], End(path, i), path[j], End(path, j)) = "none"

\* signedDoubleArea2d
DoubleArea(path) ==
    LET Sum[i \in 0 .. Len(path)] ==
            IF i = 0 THEN 0
            ELSE Sum[i - 1] + path[i][1] * End(path, i)[2] - path[i][2] * End(path, i)[1]
    IN  Sum[Len(path)]

\* validatePolygon2d
PolygonIsValid(path) == DoubleArea(path) # 0 /\ PathIsValid(path, TRUE)

\* The ray to the right of p passes this edge.
Passes(p, a, b) ==
    /\ (a[2] > p[2]) # (b[2] > p[2])
    /\ IF b[2] > a[2] THEN Cross(a, b, p) > 0 ELSE Cross(a, b, p) < 0

\* pointInPolygon that does without onSegment
PassesOdd(p, path) == Cardinality({i \in DOMAIN path : Passes(p, path[i], End(path, i))}) % 2 = 1

\* pointInPolygon
PointInPolygon(p, path) ==
    \/ \E i \in DOMAIN path : OnEdge(p, path[i], End(path, i))
    \/ Cardinality({i \in DOMAIN path : Passes(p, path[i], End(path, i))}) % 2 = 1

\* integerSquareRoot
SquareRoot(value) ==
    LET Improved[current \in Nat] ==
            LET next == (current + value \div current) \div 2
            IN  IF next < current THEN Improved[next] ELSE current
    IN  IF value < 2 THEN value ELSE Improved[value]

\* polylineLengthBoundsMm, of one segment
LengthBounds(square) ==
    LET root == SquareRoot(square)
    IN  [lower |-> root, upper |-> IF root * root = square THEN root ELSE root + 1]

-----------------------------------------------------------------------------
(* The walls that bound a room, as the pairs of their first and last point.*)

Nodes(walls) == UNION walls

Neighbours(walls, node) == {other \in Nodes(walls) : other # node /\ {node, other} \in walls}

\* The search over wallEdges, from one node.
Component(walls, node) ==
    LET Visited[n \in 0 .. Cardinality(Nodes(walls))] ==
            IF n = 0 THEN {node}
            ELSE Visited[n - 1] \cup UNION {Neighbours(walls, v) : v \in Visited[n - 1]}
    IN  Visited[Cardinality(Nodes(walls))]

IsConnected(walls) == \A node \in Nodes(walls) : Component(walls, node) = Nodes(walls)

\* Neither disconnected nor notClosed.
EveryNodeHasTwo(walls) == \A node \in Nodes(walls) : Cardinality(Neighbours(walls, node)) = 2

BoundaryIsClosed(walls) == EveryNodeHasTwo(walls) /\ IsConnected(walls)

-----------------------------------------------------------------------------
(* The openings of one wall.                                               *)

Overlap(o, p) == o.start < p.end /\ p.start < o.end

\* The order of validateOpeningOverlaps; the index of an opening is its id.
Before(openings, i, j) ==
    \/ openings[i].start < openings[j].start
    \/ openings[i].start = openings[j].start /\ openings[i].end < openings[j].end
    \/ openings[i].start = openings[j].start /\ openings[i].end = openings[j].end /\ i < j

\* The opening before, whatever its end.
TheLatest(openings, active, i) == i

\* The opening that reaches furthest.
Reaching(openings, active, i) ==
    IF /\ active # 0
       /\ \/ openings[i].end < openings[active].end
          \/ openings[i].end = openings[active].end /\ active < i
    THEN active ELSE i

\* validateOpeningOverlaps, as the pairs it finds
Overlaps(openings) ==
    LET Visit(sweep, i) ==
            [active |-> Reaching(openings, sweep.active, i),
             found |-> sweep.found \cup
                 IF sweep.active # 0 /\ openings[i].start < openings[sweep.active].end
                 THEN {{sweep.active, i}} ELSE {}]
    IN  FoldLeft(Visit, [active |-> 0, found |-> {}],
            SetToSortSeq(DOMAIN openings, LAMBDA i, j : Before(openings, i, j))).found

-----------------------------------------------------------------------------

Init == figure \in {[kind |-> "path", of |-> <<>>],
                    [kind |-> "room", of |-> {}],
                    [kind |-> "wall", of |-> <<>>]}

Draw ==
    /\ figure.kind = "path" /\ Len(figure.of) < MaximumPoints
    /\ \E p \in Points : figure' = [figure EXCEPT !.of = Append(@, p)]

BoundByWall ==
    /\ figure.kind = "room"
    /\ \E first, last \in Corners :
          first # last /\ figure' = [figure EXCEPT !.of = @ \cup {{first, last}}]

PlaceOpening ==
    /\ figure.kind = "wall" /\ Len(figure.of) < MaximumOpenings
    /\ \E start \in 0 .. Size, end \in 1 .. Size + 1 :
          start < end /\ figure' = [figure EXCEPT !.of = Append(@, [start |-> start, end |-> end])]

Next == Draw \/ BoundByWall \/ PlaceOpening

Spec == Init /\ [][Next]_vars

-----------------------------------------------------------------------------
(* What the findings mean.                                                 *)

Dot(a, b, c) == (b[1] - a[1]) * (c[1] - a[1]) + (b[2] - a[2]) * (c[2] - a[2])

\* All of p, q is on one side of all of r, s as seen in the direction u, v.
Separates(u, v, p, q, r, s) ==
    LET At(x) == u * x[1] + v * x[2]
    IN  \A x \in {p, q}, y \in {r, s} : At(x) < At(y)

\* Two segments have no point in common if and only if the normals of one of
\* them, or the directions of both, tell them apart.
Meet(a, b, c, d) ==
    LET x == b[1] - a[1]  y == b[2] - a[2]  z == d[1] - c[1]  w == d[2] - c[2]
        Axes == {<<x, y>>, <<y, -x>>, <<z, w>>, <<w, -z>>, <<c[1] - a[1], c[2] - a[2]>>}
    IN  \A axis \in Axes :
          /\ ~Separates(axis[1], axis[2], a, b, c, d)
          /\ ~Separates(axis[1], axis[2], c, d, a, b)

\* The path comes back along the segment before at its point i.
DoublesBack(a, b, c) == Orientation(a, b, c) = 0 /\ Dot(b, a, c) > 0

\* No two segments have a point in common but the one between neighbours.
IsSimple(path, closed) ==
    /\ \A i, j \in DOMAIN path : path[i] = path[j] => i = j
    /\ \A i, j \in Segments(path, closed) :
          i # j =>
              IF path[j] = End(path, i) THEN ~DoublesBack(path[i], path[j], End(path, j))
              ELSE path[i] = End(path, j) \/ ~Meet(path[i], End(path, i), path[j], End(path, j))

\* A wall that comes back along its own first or last segment.
EndsDoubledBack(path) ==
    Len(path) > 2 /\
    (DoublesBack(path[1], path[2], path[3])
     \/ DoublesBack(path[Len(path) - 2], path[Len(path) - 1], path[Len(path)]))

\* As many walls as corners, two of which lead out of any part of them.
IsOneRound(walls) ==
    /\ Cardinality(walls) = Cardinality(Nodes(walls))
    /\ \A some \in SUBSET Nodes(walls) \ {{}, Nodes(walls)} :
          \E wall, other \in walls :
             wall # other /\ Cardinality(wall \cap some) = 1 /\ Cardinality(other \cap some) = 1

Transposed(path) == [i \in DOMAIN path |-> <<path[i][2], path[i][1]>>]

\* Rooms and surfaces pass if and only if they are simple polygons, and walls
\* if they are simple or else come back along their first or last segment:
\* neighbours are never compared.  Where two segments meet is told exactly.
\* A point is in a room in whichever direction one looks, and in a convex one
\* if it is on the same side of all edges.
FindingsOfPathsAreRight ==
    LET path == figure.of IN
    figure.kind = "path" =>
    /\ Len(path) >= 2 /\ IsSimple(path, FALSE) => PathIsValid(path, FALSE)
    /\ Len(path) >= 2 /\ PathIsValid(path, FALSE) => IsSimple(path, FALSE) \/ EndsDoubledBack(path)
    /\ Len(path) >= 3 => (PolygonIsValid(path) <=> IsSimple(path, TRUE))
    /\ Len(path) = 4 =>
          LET kind == SegmentsIntersect(path[1], path[2], path[3], path[4])
              OnOther == {p \in {path[1], path[2]} : OnEdge(p, path[3], path[4])}
                         \cup {p \in {path[3], path[4]} : OnEdge(p, path[1], path[2])}
          IN  /\ kind = "none" <=> ~Meet(path[1], path[2], path[3], path[4])
              /\ kind = "cross" <=> Meet(path[1], path[2], path[3], path[4]) /\ OnOther = {}
              /\ kind = "overlap" <=> Cardinality(OnOther) > 1 /\ \A p, q, r \in Range(path) : Cross(p, q, r) = 0
    /\ Len(path) \in 3 .. 4 /\ PolygonIsValid(path) => \A p \in Points :
          LET sides == {Orientation(path[i], End(path, i), p) : i \in DOMAIN path}
          IN  /\ PointInPolygon(p, path) <=> PointInPolygon(<<p[2], p[1]>>, Transposed(path))
              /\ (\A i, j \in DOMAIN path : Orientation(path[i], End(path, i), path[j]) \in {0, 1}) =>
                    (PointInPolygon(p, path) <=> sides \subseteq {0, 1})

\* The walls pass that are one round through all their corners and no others;
\* an opening is named in a finding if and only if it overlaps another, and
\* the pairs named do; and a wall is as long as its bounds say.
FindingsOfWallsAreRight ==
    LET of == figure.of IN
    /\ figure.kind = "room" /\ of # {} => (BoundaryIsClosed(of) <=> IsOneRound(of))
    /\ figure.kind = "wall" =>
          /\ \A pair \in Overlaps(of) : \A i, j \in pair : Overlap(of[i], of[j])
          /\ UNION Overlaps(of) =
                {i \in DOMAIN of : \E j \in DOMAIN of : i # j /\ Overlap(of[i], of[j])}
    /\ figure.kind = "wall" /\ of = <<>> =>
          \A square \in 0 .. 500 :
             LET bounds == LengthBounds(square)
             IN  /\ bounds.lower * bounds.lower <= square /\ square <= bounds.upper * bounds.upper
                 /\ bounds.upper <= bounds.lower + 1
                 /\ (bounds.lower + 1) * (bounds.lower + 1) > square
=============================================================================
