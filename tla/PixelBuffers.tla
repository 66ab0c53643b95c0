---------------------------- MODULE PixelBuffers ----------------------------
(***************************************************************************)
(* Pixel buffers (rfb/PixelBuffer.cxx): pictures that are drawn on.  A     *)
(* picture is a function from points to pixels, its rows in memory are the *)
(* points of one height.                                                   *)
(***************************************************************************)
EXTENDS Rectangles, SequencesExt

(* The pixels of a rectangle of the picture, row by row. *)
getImage(img, r) ==
  [k \in 1 .. area(r) |-> img[<<r.x1 + ((k - 1) % width(r)), r.y1 + (k - 1) \div width(r)>>]]

imageRect(img, r, pixels) ==
  [p \in DOMAIN img |-> IF p \in Points(r)
                        THEN pixels[(p[2] - r.y1) * width(r) + p[1] - r.x1 + 1] ELSE img[p]]

fillRect(img, r, pixel) == [p \in DOMAIN img |-> IF p \in Points(r) THEN pixel ELSE img[p]]

(* The other picture put at (x, y), where the mask has its points. *)
maskRect(img, x, y, other, mask) ==
  [p \in DOMAIN img |-> LET q == <<p[1] - x, p[2] - y>>
                        IN  IF q \in mask \cap DOMAIN other THEN other[q] ELSE img[p]]

(* Mutant: always from the top. *)
copyRectDown(img, r, dx, dy) ==
  LET CopyRow(v, y) == [p \in DOMAIN v |-> IF p[2] = y /\ p \in Points(r)
                                           THEN v[<<p[1] - dx, p[2] - dy>>] ELSE v[p]]
  IN  FoldLeft(CopyRow, img, [k \in 1 .. height(r) |-> r.y1 + k - 1])

(* r gets what is (dx, dy) away from it, a row at a time. *)
copyRect(img, r, dx, dy) ==
  LET CopyRow(v, y) == [p \in DOMAIN v |-> IF p[2] = y /\ p \in Points(r)
                                           THEN v[<<p[1] - dx, p[2] - dy>>] ELSE v[p]]
  IN  FoldLeft(CopyRow, img, [k \in 1 .. height(r) |-> IF dy <= 0 THEN r.y1 + k - 1 ELSE r.y2 - k])

=============================================================================
