----------------------------- MODULE Rectangles -----------------------------
(***************************************************************************)
(* Rectangles and points of the screen: rfb::Rect and rfb::Point, and the  *)
(* boxes of the X11 region code, which have the same four numbers.  A      *)
(* rectangle reaches from (x1, y1) to (x2, y2), which are outside of it.   *)
(***************************************************************************)
EXTENDS Integers

Rect(x1, y1, x2, y2) == [x1 |-> x1, y1 |-> y1, x2 |-> x2, y2 |-> y2]

Rectangle == [x1 : Int, y1 : Int, x2 : Int, y2 : Int]

max_vnc(a, b) == IF a > b THEN a ELSE b
min_vnc(a, b) == IF a < b THEN a ELSE b

is_empty(r) == r.x1 >= r.x2 \/ r.y1 >= r.y2

width(r) == r.x2 - r.x1
height(r) == r.y2 - r.y1
area(r) == IF is_empty(r) THEN 0 ELSE width(r) * height(r)

setXYWH(x, y, w, h) == Rect(x, y, x + w, y + h)

(* The result is empty but never inside out when the two do not meet. *)
intersect(r, s) ==
  LET x == max_vnc(r.x1, s.x1)
      y == max_vnc(r.y1, s.y1)
  IN  Rect(x, y, max_vnc(min_vnc(r.x2, s.x2), x),
                 max_vnc(min_vnc(r.y2, s.y2), y))

Bounds(r, s) == Rect(min_vnc(r.x1, s.x1), min_vnc(r.y1, s.y1),
                     max_vnc(r.x2, s.x2), max_vnc(r.y2, s.y2))

union_boundary(r, s) ==
  IF is_empty(s) THEN r ELSE IF is_empty(r) THEN s ELSE Bounds(r, s)

translate(r, dx, dy) == Rect(r.x1 + dx, r.y1 + dy, r.x2 + dx, r.y2 + dy)

enclosed_by(r, s) ==
  r.x1 >= s.x1 /\ r.y1 >= s.y1 /\ r.x2 <= s.x2 /\ r.y2 <= s.y2

overlaps(r, s) ==
  r.x1 < s.x2 /\ r.y1 < s.y2 /\ r.x2 > s.x1 /\ r.y2 > s.y1

contains(r, p) == r.x1 <= p[1] /\ p[1] < r.x2 /\ r.y1 <= p[2] /\ p[2] < r.y2

(* What a rectangle stands for. *)
Points(r) == (r.x1 .. r.x2 - 1) \X (r.y1 .. r.y2 - 1)

=============================================================================
