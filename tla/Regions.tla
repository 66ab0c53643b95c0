------------------------------- MODULE Regions -------------------------------
(***************************************************************************)
(* The X11 region code (Xregion/region.c) and the class around it          *)
(* (rfb/Region.cxx).  A region is a sequence of rectangles in bands, from  *)
(* top to bottom and from left to right, and the extents of all of them.   *)
(* A pass over an array of rectangles is a recursion over a sequence; a    *)
(* pointer into the destination array is an index into it.  Allocation is  *)
(* left out: it succeeds.                                                  *)
(***************************************************************************)
EXTENDS Rectangles, SequencesExt, FiniteSetsExt

Region(rects, extents) == [rects |-> rects, extents |-> extents]

EmptyRegion == Region(<<>>, Rect(0, 0, 0, 0))

(* The region of one rectangle: reset(), and _RectRegion. *)
Reset(r) == IF is_empty(r) THEN EmptyRegion ELSE Region(<<r>>, r)

-----------------------------------------------------------------------------
(* The position after the band that starts at i. *)
BandEnd(rects, i) ==
  CHOOSE j \in i + 1 .. Len(rects) + 1 :
    /\ j > Len(rects) \/ rects[j].y1 # rects[i].y1
    /\ \A k \in i .. j - 1 : rects[k].y1 = rects[i].y1

(* The position where the last band starts. *)
LastBand(rects) ==
  CHOOSE i \in 1 .. Len(rects) :
    /\ i = 1 \/ rects[i - 1].y1 # rects[i].y1
    /\ \A k \in i .. Len(rects) : rects[k].y1 = rects[i].y1

Band(rects) == SubSeq(rects, 1, BandEnd(rects, 1) - 1)

(* The band has just been added at curStart.  When it continues the one at *)
(* prevStart that one grows down and the new one goes.  Of several new     *)
(* bands only the first is compared.  The result is the rectangles and the *)
(* start of the last band.                                                 *)
miCoalesce(rects, prevStart, curStart) ==
  LET curEnd == BandEnd(rects, curStart)
      num == curEnd - curStart
      several == curEnd <= Len(rects)
      same == /\ num = curStart - prevStart
              /\ rects[prevStart].y2 = rects[curStart].y1
              /\ \A k \in 0 .. num - 1 :
                   /\ rects[prevStart + k].x1 = rects[curStart + k].x1
                   /\ rects[prevStart + k].x2 = rects[curStart + k].x2
      grown == [k \in 1 .. num |->
                  [rects[prevStart + k - 1] EXCEPT !.y2 = rects[curStart + k - 1].y2]]
  IN  [rects |-> IF same THEN SubSeq(rects, 1, prevStart - 1) \o grown
                                \o SubSeq(rects, curEnd, Len(rects))
                         ELSE rects,
       band  |-> IF several THEN LastBand(rects)
                 ELSE IF same THEN prevStart ELSE curStart]

(* More rectangles behind what there was, out: a record of the rectangles  *)
(* so far and the start of their last band.                                *)
Coalesced(out, rects) ==
  IF Len(rects) = Len(out.rects) THEN out
  ELSE miCoalesce(rects, out.band, Len(out.rects) + 1)

-----------------------------------------------------------------------------
(* What the two sides have in common between y1 and y2. *)
RECURSIVE miIntersectO(_, _, _, _)
miIntersectO(r1, r2, y1, y2) ==
  IF r1 = <<>> \/ r2 = <<>> THEN <<>>
  ELSE LET a == Head(r1)
           b == Head(r2)
           x1 == max_vnc(a.x1, b.x1)
           x2 == min_vnc(a.x2, b.x2)
       IN  (IF x1 < x2 THEN <<Rect(x1, y1, x2, y2)>> ELSE <<>>)
             \o miIntersectO(IF a.x2 <= b.x2 THEN Tail(r1) ELSE r1,
                             IF b.x2 <= a.x2 THEN Tail(r2) ELSE r2, y1, y2)

(* Mutant: a rectangle within the last one shortens it. *)
MergeShortening(rects, r, y1, y2) ==
  IF rects # <<>> /\ Last(rects).y1 = y1 /\ Last(rects).y2 = y2 /\ Last(rects).x2 >= r.x1
  THEN [rects EXCEPT ![Len(rects)].x2 = r.x2]
  ELSE Append(rects, Rect(r.x1, y1, r.x2, y2))

(* MERGERECT: the rectangle lengthens the last one or follows it. *)
Merge(rects, r, y1, y2) ==
  IF rects # <<>> /\ Last(rects).y1 = y1 /\ Last(rects).y2 = y2 /\ Last(rects).x2 >= r.x1
  THEN [rects EXCEPT ![Len(rects)].x2 = max_vnc(@, r.x2)]
  ELSE Append(rects, Rect(r.x1, y1, r.x2, y2))

(* The leftmost rectangle of either side comes next. *)
RECURSIVE miUnionO(_, _, _, _, _)
miUnionO(rects, r1, r2, y1, y2) ==
  IF r1 = <<>> /\ r2 = <<>> THEN rects
  ELSE IF r2 = <<>> \/ (r1 # <<>> /\ Head(r1).x1 < Head(r2).x1)
       THEN miUnionO(Merge(rects, Head(r1), y1, y2), Tail(r1), r2, y1, y2)
       ELSE miUnionO(Merge(rects, Head(r2), y1, y2), r1, Tail(r2), y1, y2)

(* miUnionNonO and miSubtractNonO1: the band cut to the new height. *)
NonO(r, y1, y2) == [k \in 1 .. Len(r) |-> Rect(r[k].x1, y1, r[k].x2, y2)]

(* What is left of the rectangles r1 without r2; x1 is how far the first   *)
(* of r1 has been looked at.                                               *)
RECURSIVE miSubtractO(_, _, _, _, _)
miSubtractO(r1, r2, x1, y1, y2) ==
  LET m == Head(r1)
      s == Head(r2)
      Minuend == miSubtractO(Tail(r1), r2, IF Len(r1) > 1 THEN r1[2].x1 ELSE x1, y1, y2)
      Beyond == IF s.x2 >= m.x2 THEN Minuend ELSE miSubtractO(r1, Tail(r2), s.x2, y1, y2)
  IN  CASE r1 = <<>> -> <<>>
        [] r1 # <<>> /\ r2 = <<>> -> <<Rect(x1, y1, m.x2, y2)>> \o Minuend
        [] OTHER ->
             IF s.x2 <= x1 THEN miSubtractO(r1, Tail(r2), x1, y1, y2)
             ELSE IF s.x1 <= x1 THEN Beyond
             ELSE IF s.x1 < m.x2 THEN <<Rect(x1, y1, s.x1, y2)>> \o Beyond
             ELSE (IF m.x2 > x1 THEN <<Rect(x1, y1, m.x2, y2)>> ELSE <<>>) \o Minuend

-----------------------------------------------------------------------------
(* The function pointers of miRegionOp: what to do with a band of both     *)
(* regions, and which region's own bands are kept.                         *)
Ops == {"intersect", "union", "subtract"}

overlapFunc(op, rects, r1, r2, y1, y2) ==
  CASE op = "intersect" -> rects \o miIntersectO(r1, r2, y1, y2)
    [] op = "union" -> miUnionO(rects, r1, r2, y1, y2)
    [] op = "subtract" -> rects \o miSubtractO(r1, r2, Head(r1).x1, y1, y2)

KeepsFirst(op) == op \in {"union", "subtract"}
KeepsSecond(op) == op = "union"

(* The bands of one region when the other has no more, from y1 down. *)
RECURSIVE Rest(_, _)
Rest(r, y1) ==
  IF r = <<>> THEN <<>>
  ELSE NonO(Band(r), max_vnc(r[1].y1, y1), r[1].y2)
         \o Rest(SubSeq(r, BandEnd(r, 1), Len(r)), y1)

(* One turn of the loop per pair of bands: first the part of the upper one *)
(* that lies above the other, then the part they share.                    *)
RECURSIVE Bands(_, _, _, _, _)
Bands(op, r1, r2, ybot, out) ==
  IF r1 = <<>> \/ r2 = <<>>
  THEN Coalesced(out, out.rects \o
         (IF r1 # <<>> /\ KeepsFirst(op) THEN Rest(r1, ybot)
          ELSE IF r1 = <<>> /\ KeepsSecond(op) THEN Rest(r2, ybot)
          ELSE <<>>)).rects
  ELSE LET a == Head(r1)
           b == Head(r2)
           Own(r, from, to) == IF from = to THEN <<>> ELSE NonO(Band(r), from, to)
           own == IF a.y1 < b.y1
                  THEN IF KeepsFirst(op)
                       THEN Own(r1, max_vnc(a.y1, ybot), min_vnc(a.y2, b.y1)) ELSE <<>>
                  ELSE IF b.y1 < a.y1
                  THEN IF KeepsSecond(op)
                       THEN Own(r2, max_vnc(b.y1, ybot), min_vnc(b.y2, a.y1)) ELSE <<>>
                  ELSE <<>>
           ytop == max_vnc(a.y1, b.y1)
           bot == min_vnc(a.y2, b.y2)
           out1 == Coalesced(out, out.rects \o own)
           out2 == IF bot > ytop
                   THEN Coalesced(out1, overlapFunc(op, out1.rects, Band(r1), Band(r2), ytop, bot))
                   ELSE out1
           Next(r) == IF Head(r).y2 = bot THEN SubSeq(r, BandEnd(r, 1), Len(r)) ELSE r
       IN  Bands(op, Next(r1), Next(r2), bot, out2)

miRegionOp(op, reg1, reg2) ==
  Bands(op, reg1.rects, reg2.rects, min_vnc(reg1.extents.y1, reg2.extents.y1),
        [rects |-> <<>>, band |-> 1])

miSetExtents(rects) ==
  IF rects = <<>> THEN EmptyRegion
  ELSE Region(rects, Rect(Min({r.x1 : r \in Range(rects)}), Head(rects).y1,
                          Max({r.x2 : r \in Range(rects)}), Last(rects).y2))

XIntersectRegion(reg1, reg2) ==
  IF reg1.rects = <<>> \/ reg2.rects = <<>> \/ ~overlaps(reg1.extents, reg2.extents)
  THEN EmptyRegion
  ELSE miSetExtents(miRegionOp("intersect", reg1, reg2))

XUnionRegion(reg1, reg2) ==
  IF reg1.rects = <<>> THEN reg2
  ELSE IF reg2.rects = <<>> THEN reg1
  ELSE IF Len(reg1.rects) = 1 /\ enclosed_by(reg2.extents, reg1.extents) THEN reg1
  ELSE IF Len(reg2.rects) = 1 /\ enclosed_by(reg1.extents, reg2.extents) THEN reg2
  ELSE Region(miRegionOp("union", reg1, reg2), Bounds(reg1.extents, reg2.extents))

XSubtractRegion(regM, regS) ==
  IF regM.rects = <<>> \/ regS.rects = <<>> \/ ~overlaps(regM.extents, regS.extents)
  THEN regM
  ELSE miSetExtents(miRegionOp("subtract", regM, regS))

XXorRegion(a, b) == XUnionRegion(XSubtractRegion(a, b), XSubtractRegion(b, a))

XOffsetRegion(reg, dx, dy) ==
  Region([k \in DOMAIN reg.rects |-> translate(reg.rects[k], dx, dy)],
         translate(reg.extents, dx, dy))

(* Compress: the points from which every one of the next dx points is in   *)
(* the region, or any of them when grow is set.  r has the runs of the     *)
(* binary digits of dx looked at so far, s those of length shift.          *)
RECURSIVE Compress(_, _, _, _, _, _)
Compress(r, s, dx, shift, xdir, grow) ==
  LET Op(a, b) == IF grow THEN XUnionRegion(a, b) ELSE XIntersectRegion(a, b)
      Shift(a) == IF xdir THEN XOffsetRegion(a, -shift, 0) ELSE XOffsetRegion(a, 0, -shift)
      odd == (dx \div shift) % 2 = 1
      left == IF odd THEN dx - shift ELSE dx
      r1 == IF odd THEN Op(Shift(r), s) ELSE r
  IN  IF left = 0 THEN r1
      ELSE Compress(r1, Op(Shift(s), s), left, 2 * shift, xdir, grow)

XShrinkRegion(r, dx, dy) ==
  LET Abs(n) == IF n < 0 THEN -n ELSE n
      x == IF dx = 0 THEN r ELSE Compress(r, r, 2 * Abs(dx), 1, TRUE, dx < 0)
      y == IF dy = 0 THEN x ELSE Compress(x, x, 2 * Abs(dy), 1, FALSE, dy < 0)
  IN  IF dx = 0 /\ dy = 0 THEN r ELSE XOffsetRegion(y, Abs(dx), Abs(dy))

XEqualRegion(r1, r2) ==
  /\ Len(r1.rects) = Len(r2.rects)
  /\ r1.rects # <<>> => r1.extents = r2.extents /\ r1.rects = r2.rects

XPointInRegion(r, p) ==
  /\ r.rects # <<>>
  /\ contains(r.extents, p)
  /\ \E k \in DOMAIN r.rects : contains(r.rects[k], p)

(* The loop over the boxes of XRectInRegion: (rx, ry) is the first point   *)
(* of the rectangle not yet known to be in or out.                         *)
RECURSIVE Scan(_, _, _, _, _, _)
Scan(boxes, rect, rx, ry, partIn, partOut) ==
  LET Verdict(in, y) == IF ~in THEN "RectangleOut"
                        ELSE IF y < rect.y2 THEN "RectanglePart" ELSE "RectangleIn"
  IN  IF boxes = <<>> THEN Verdict(partIn, ry)
      ELSE LET box == Head(boxes)
               below == box.y1 > ry
               y == IF below THEN box.y1 ELSE ry
               right == box.x1 > rx
               in == partIn \/ box.x1 < rect.x2
               out == partOut \/ below \/ right
           IN  CASE box.y2 <= ry -> Scan(Tail(boxes), rect, rx, ry, partIn, partOut)
                 [] box.y2 > ry /\ below /\ (partIn \/ box.y1 >= rect.y2) -> Verdict(partIn, ry)
                 [] OTHER ->
                      IF box.x2 <= rx
                      THEN Scan(Tail(boxes), rect, rx, y, partIn, partOut \/ below)
                      ELSE IF right /\ partIn THEN Verdict(partIn, y)
                      ELSE IF box.x1 < rect.x2 /\ out THEN Verdict(TRUE, y)
                      ELSE IF box.x2 < rect.x2 \/ box.y2 >= rect.y2
                           THEN Verdict(in, IF box.x2 < rect.x2 THEN y ELSE box.y2)
                      ELSE Scan(Tail(boxes), rect, rect.x1, box.y2, in, out)

XRectInRegion(reg, rect) ==
  IF reg.rects = <<>> \/ ~overlaps(reg.extents, rect) THEN "RectangleOut"
  ELSE Scan(reg.rects, rect, rect.x1, rect.y1, FALSE, FALSE)

-----------------------------------------------------------------------------
(* rfb::Region *)

setOrderedRects(rects) ==
  FoldLeft(LAMBDA reg, r : XUnionRegion(reg, Reset(r)), EmptyRegion, rects)

(* Mutant: the last piece has full height. *)
FullPieces(r, maxArea) ==
  LET h == IF maxArea < width(r) THEN height(r) ELSE maxArea \div width(r)
  IN  [k \in 1 .. (height(r) + h - 1) \div h |-> Rect(r.x1, r.y1 + (k - 1) * h, r.x2, r.y1 + k * h)]

(* A rectangle cut into pieces of at most maxArea, from the top.  One that *)
(* is wider than maxArea stays whole.                                      *)
Pieces(r, maxArea) ==
  LET h == IF maxArea < width(r) THEN height(r) ELSE maxArea \div width(r)
  IN  [k \in 1 .. (height(r) + h - 1) \div h |->
         Rect(r.x1, r.y1 + (k - 1) * h, r.x2, min_vnc(r.y1 + k * h, r.y2))]

(* The rectangles in the order asked for. *)
RECURSIVE get_rects(_, _, _, _)
get_rects(rects, left2right, topdown, maxArea) ==
  IF rects = <<>> THEN <<>>
  ELSE LET band == Band(rects)
           rest == SubSeq(rects, Len(band) + 1, Len(rects))
           ordered == IF left2right THEN band ELSE Reverse(band)
           cut == FlattenSeq([k \in DOMAIN ordered |-> Pieces(ordered[k], maxArea)])
           others == get_rects(rest, left2right, topdown, maxArea)
       IN  IF topdown THEN cut \o others ELSE others \o cut

=============================================================================
