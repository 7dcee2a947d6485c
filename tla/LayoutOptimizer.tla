--------------------------- MODULE LayoutOptimizer ---------------------------
(***************************************************************************)
(* The layout optimiser: assets that were dragged somewhere stay there, the *)
(* others are spread along x, and a layout with an asset outside the canvas *)
(* is refused as a whole.  Lengths are millimetres; an automatic position   *)
(* is rounded to centimetres, and a tie goes either way, as the binary      *)
(* fraction that stands for it happens to lie.                              *)
(***************************************************************************)
EXTENDS Integers, Sequences

CONSTANT Unset  \* target_pos_x, _y or _z is None

Axes == {"x", "y", "z"}

\* A canvas without room is refused before anything is placed.
CanvasBounds(b) == \A a \in Axes : b[a] > 0

\* Mutant: only the far sides are looked at.
IsWithinBounds_FarSides(p, b) == \A a \in Axes : p[a] <= b[a]

IsWithinBounds(p, b) == \A a \in Axes : 0 <= p[a] /\ p[a] <= b[a]

\* The centimetres nearest to n/d millimetres: one, or two for a tie.
Rounded(n, d) ==
  LET below == 10 * (n \div (10 * d))
  IN {r \in {below, below + 10} : 2 * (r * d - n) \in (-10 * d)..(10 * d)}

\* Where asset i of the list may be put.
Placements(i, assets, b) ==
  LET given == assets[i] IN
  {[x |-> x, y |-> IF given.y = Unset THEN 0 ELSE given.y,
             z |-> IF given.z = Unset THEN 0 ELSE given.z] :
     x \in IF given.x = Unset THEN Rounded(i * b.x, Len(assets) + 1) ELSE {given.x}}

\* The layouts the optimiser may arrive at.  It raises for the first asset outside.
OptimizePlacement(assets, b) ==
  {layout \in [DOMAIN assets -> UNION {Placements(i, assets, b) : i \in DOMAIN assets}] :
     \A i \in DOMAIN assets : layout[i] \in Placements(i, assets, b)}
==============================================================================
