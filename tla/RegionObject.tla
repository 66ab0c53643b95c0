---------------------------- MODULE RegionObject ----------------------------
(***************************************************************************)
(* A life of one rfb::Region: any sequence of the operations that change   *)
(* it in place.  A region stands for a set of points; every operation is   *)
(* compared with the operation on sets it is named for.                    *)
(***************************************************************************)
EXTENDS Regions, PixelBuffers

CONSTANTS
  Side,     \* the points on a side of the square the region stays in
  Operands, \* the regions it is united, intersected with and reduced by
  MaxArea   \* the largest pieces get_rects() is asked for

VARIABLE region

Square == Rect(0, 0, Side, Side)

Rects == {r \in [x1 : 0 .. Side, y1 : 0 .. Side, x2 : 0 .. Side, y2 : 0 .. Side] : ~is_empty(r)}

Shifts == (1 - Side) .. (Side - 1)

Init == region = EmptyRegion

assign_union(r) == region' = XUnionRegion(region, r)
assign_intersect(r) == region' = XIntersectRegion(region, r)
assign_subtract(r) == region' = XSubtractRegion(region, r)

(* Only as far as the extents, which move even when nothing is in them,   *)
(* stay in the square.                                                     *)
Translate(dx, dy) ==
  /\ enclosed_by(translate(region.extents, dx, dy), Square)
  /\ region' = XOffsetRegion(region, dx, dy)

Next ==
  \/ \E r \in Rects : \/ assign_union(Reset(r))
                     \/ assign_intersect(Reset(r))
                     \/ assign_subtract(Reset(r))
                     \/ region' = Reset(r)
  \/ \E dx, dy \in {-1, 0, 1} : Translate(dx, dy)

Spec == Init /\ [][Next]_region

-----------------------------------------------------------------------------
PointsOf(reg) == UNION {Points(reg.rects[k]) : k \in DOMAIN reg.rects}

(* Whatever the region and the operand are, the operations are those on    *)
(* the sets of points, be the result empty, or the regions disjoint, equal *)
(* or one within the other.                                                *)
OpsAreSetOps ==
  LET P == PointsOf(region)
  IN  \A r \in Operands :
        LET O == PointsOf(r)
        IN  /\ PointsOf(XUnionRegion(region, r)) = P \cup O
            /\ PointsOf(XIntersectRegion(region, r)) = P \cap O
            /\ PointsOf(XSubtractRegion(region, r)) = P \ O
            /\ PointsOf(XXorRegion(region, r)) = SymDiff(P, O)

(* What the head of region.c says of a region, and all its operations rely *)
(* on: bands from top to bottom with rectangles of one height that do not  *)
(* touch, no two bands that could be one, and extents that fit.  Together  *)
(* they make the rectangles unique, which equals() needs.                  *)
StaysBanded ==
  LET rs == region.rects
      Starts == {i \in DOMAIN rs : i = 1 \/ rs[i - 1].y1 # rs[i].y1}
      Places(i) == {<<r.x1, r.x2>> : r \in Range(SubSeq(rs, i, BandEnd(rs, i) - 1))}
  IN  /\ \A i \in DOMAIN rs : ~is_empty(rs[i]) /\ enclosed_by(rs[i], region.extents)
      /\ \A i \in 1 .. Len(rs) - 1 :
           \/ rs[i].y1 = rs[i + 1].y1 /\ rs[i].y2 = rs[i + 1].y2 /\ rs[i].x2 < rs[i + 1].x1
           \/ rs[i].y2 <= rs[i + 1].y1
      /\ \A i, j \in Starts :
           (j = BandEnd(rs, i) /\ rs[i].y2 = rs[j].y1) => Places(i) # Places(j)
      /\ rs # <<>> => /\ region.extents.x1 = Min({r.x1 : r \in Range(rs)})
                      /\ region.extents.x2 = Max({r.x2 : r \in Range(rs)})
                      /\ region.extents.y1 = rs[1].y1
                      /\ region.extents.y2 = Last(rs).y2

(* The rectangles get_rects() returns cover the region once, none larger   *)
(* than asked for unless a single line is.                                 *)
RectsTile ==
  \A l, t \in BOOLEAN, a \in 0 .. MaxArea :
    LET rs == get_rects(region.rects, l, t, a)
    IN  /\ UNION {Points(r) : r \in Range(rs)} = PointsOf(region)
        /\ \A i, j \in DOMAIN rs : i # j => ~overlaps(rs[i], rs[j])
        /\ \A i \in DOMAIN rs : area(rs[i]) <= a \/ width(rs[i]) > a

(* Rectangles copied one after the other, in the order that writeRects()   *)
(* and compare() ask for and a row at a time, move the whole region as if  *)
(* at once: nothing is overwritten before it has been copied itself.       *)
CopiesAreSimultaneous ==
  LET plane == ((1 - Side) .. (2 * Side - 2)) \X ((1 - Side) .. (2 * Side - 2))
      before == [p \in plane |-> p]
      P == PointsOf(region)
  IN  \A dx, dy \in Shifts :
        FoldLeft(LAMBDA img, r : copyRect(img, r, dx, dy), before,
                 get_rects(region.rects, dx <= 0, dy <= 0, 0))
          = [p \in plane |-> IF p \in P THEN <<p[1] - dx, p[2] - dy>> ELSE p]

(* The queries, and the operations that go through temporary regions.      *)
(* shrinking asks for all the points within reach, growing for any.        *)
QueriesAgree ==
  LET P == PointsOf(region)
      Near(p, dx, dy) == {<<p[1] + i, p[2] + j>> : i \in -dx .. dx, j \in -dy .. dy}
      Around == (-2 .. Side + 1) \X (-2 .. Side + 1)
  IN  /\ \A p \in Around : XPointInRegion(region, p) = (p \in P)
      /\ \A r \in Rects :
           XRectInRegion(region, r) = IF Points(r) \subseteq P THEN "RectangleIn"
                                      ELSE IF Points(r) \cap P = {} THEN "RectangleOut"
                                      ELSE "RectanglePart"
      /\ \A dx, dy \in 0 .. 1 :
           /\ PointsOf(XShrinkRegion(region, dx, dy)) = {p \in P : Near(p, dx, dy) \subseteq P}
           /\ PointsOf(XShrinkRegion(region, -dx, -dy)) = UNION {Near(p, dx, dy) : p \in P}
      /\ setOrderedRects(get_rects(region.rects, TRUE, TRUE, 0)).rects = region.rects

=============================================================================
