------------------------------ MODULE Cursors ------------------------------
(***************************************************************************)
(* The server's cursor (rfb/Cursor.cxx): it is set, cropped and outlined,  *)
(* and drawn into the pictures of clients that do not draw it themselves   *)
(* (VNCServerST::checkUpdate).  The mask of a cursor is a set of points;   *)
(* its rows are whole bytes, so that it may have points to the right of    *)
(* the picture.                                                            *)
(***************************************************************************)
EXTENDS PixelBuffers, FiniteSetsExt

CONSTANTS
  MaskBits,    \* bits of a byte of the mask: 8
  Shapes,      \* the cursors the desktop may set
  Outline,     \* the pixel of an outline
  ScreenPixel,  \* the pixel of the screen
  ScreenSide   \* width and height of the screen

VARIABLES
  cursor,  \* size, hotspot, pixels and mask
  asked    \* what the cursor should show around its hotspot (history)

Plane(w, h) == (0 .. w - 1) \X (0 .. h - 1)

(* A cursor as it is set: its hotspot is inside, and there is nothing in   *)
(* the mask beyond its rows.                                               *)
IsShape(c) ==
  /\ c = [w |-> c.w, h |-> c.h, hotspot |-> c.hotspot, pixels |-> c.pixels, mask |-> c.mask]
  /\ c.w \in Nat /\ c.h \in Nat
  /\ c.hotspot \in Plane(c.w, c.h)
  /\ DOMAIN c.pixels = Plane(c.w, c.h)
  /\ c.mask \subseteq Plane(c.w, c.h)

getRect(c) == Rect(0, 0, c.w, c.h)

maskWidth(w) == MaskBits * ((w + MaskBits - 1) \div MaskBits)

Visible(c) == c.mask \cap Plane(c.w, c.h)

Minus(p, q) == <<p[1] - q[1], p[2] - q[2]>>
Plus(p, q) == <<p[1] + q[1], p[2] + q[2]>>

Beside(p) == {<<p[1], p[2] - 1>>, <<p[1], p[2] + 1>>, <<p[1] - 1, p[2]>>, <<p[1] + 1, p[2]>>}

-----------------------------------------------------------------------------
(* The smallest rectangle with all that is visible and the hotspot. *)
Busy(c) ==
  LET all == Visible(c) \cup ({c.hotspot} \cap Plane(c.w, c.h))
  IN  IF all = {} THEN Rect(c.hotspot[1], c.hotspot[2], c.hotspot[1], c.hotspot[2])
      ELSE Rect(Min({p[1] : p \in all}), Min({p[2] : p \in all}),
                Max({p[1] : p \in all}) + 1, Max({p[2] : p \in all}) + 1)

(* Mutant: the hotspot stays. *)
cropWithHotspot(c) ==
  LET busy == Busy(c)
      tl == <<busy.x1, busy.y1>>
      inside == Plane(width(busy), height(busy))
  IN  [w |-> width(busy), h |-> height(busy), hotspot |-> c.hotspot,
       pixels |-> [p \in inside |-> c.pixels[Plus(p, tl)]],
       mask |-> {p \in inside : Plus(p, tl) \in c.mask}]

crop(c) ==
  LET busy == Busy(c)
      tl == <<busy.x1, busy.y1>>
      inside == Plane(width(busy), height(busy))
  IN  IF width(busy) = c.w /\ height(busy) = c.h THEN c
      ELSE [w |-> width(busy), h |-> height(busy), hotspot |-> Minus(c.hotspot, tl),
            pixels |-> [p \in inside |-> c.pixels[Plus(p, tl)]],
            mask |-> {p \in inside : Plus(p, tl) \in c.mask}]

(* The pixels above, below, left and right of those in the mask, as far as *)
(* the bytes of the mask go.                                               *)
drawOutline(c, pixel) ==
  LET plain == [p \in Plane(c.w, c.h) |-> pixel]
  IN  [c EXCEPT !.pixels = maskRect(plain, 0, 0, c.pixels, c.mask),
                !.mask = {p \in Plane(maskWidth(c.w), c.h) : ({p} \cup Beside(p)) \cap c.mask # {}}]

(* The point that comes first, row by row. *)
First(points) ==
  CHOOSE p \in points : \A q \in points : p[2] < q[2] \/ (p[2] = q[2] /\ p[1] <= q[1])

FirstPixel(c, points) == IF points = {} THEN ScreenPixel ELSE c.pixels[First(points)]

(* A cursor of two colours as a bitmap: the first colour, the second one   *)
(* and the points that have it; none when there are more.                  *)
getBitmap(c) ==
  LET pix0 == FirstPixel(c, Visible(c))
      source == {p \in Visible(c) : c.pixels[p] # pix0}
      pix1 == FirstPixel(c, source)
  IN  [none |-> \E p \in source : c.pixels[p] # pix1, pix0 |-> pix0, pix1 |-> pix1, source |-> source]

-----------------------------------------------------------------------------
(* checkUpdate(): the part of the cursor that is on the screen, with what  *)
(* is behind it, and then what a client has of it when the pointer is at   *)
(* pos.                                                                    *)
Screen == [p \in Plane(ScreenSide, ScreenSide) |-> ScreenPixel]

renderedCursor(pos) ==
  LET TL == Minus(pos, cursor.hotspot)
      clipped == intersect(translate(getRect(cursor), TL[1], TL[2]), Rect(0, 0, ScreenSide, ScreenSide))
      tl == <<clipped.x1, clipped.y1>>
      behind == [p \in Plane(width(clipped), height(clipped)) |-> Screen[Plus(p, tl)]]
      at == Minus(TL, tl)
  IN  [rect |-> clipped, pixels |-> maskRect(behind, at[1], at[2], cursor.pixels, cursor.mask)]

Shown(pos) ==
  LET c == renderedCursor(pos)
  IN  [p \in DOMAIN Screen |-> IF p \in Points(c.rect) THEN c.pixels[Minus(p, <<c.rect.x1, c.rect.y1>>)]
                               ELSE Screen[p]]

-----------------------------------------------------------------------------
Init ==
  /\ cursor = [w |-> 0, h |-> 0, hotspot |-> <<0, 0>>, pixels |-> [p \in {} |-> ScreenPixel], mask |-> {}]
  /\ asked = [p \in {} |-> ScreenPixel]

SetCursor(c) ==
  /\ cursor' = crop(c)
  /\ asked' = [d \in {Minus(p, c.hotspot) : p \in c.mask} |-> c.pixels[Plus(d, c.hotspot)]]

Between(all, d, k) == \E e, f \in all : e[k] <= d[k] /\ d[k] <= f[k]

(* What is shown, and its outline as far as the rectangle around goes. *)
DrawOutline ==
  LET all == DOMAIN asked \cup {<<0, 0>>}
      new == {d \in (UNION {Beside(e) : e \in DOMAIN asked}) \ DOMAIN asked :
                Between(all, d, 1) /\ Between(all, d, 2)}
  IN  /\ cursor.w > 0
      /\ cursor' = drawOutline(cursor, Outline)
      /\ asked' = [d \in DOMAIN asked \cup new |-> IF d \in new THEN Outline ELSE asked[d]]

Next ==
  \/ \E c \in Shapes : SetCursor(c)
  \/ DrawOutline

Spec == Init /\ [][Next]_<<cursor, asked>>

-----------------------------------------------------------------------------
(* Wherever the pointer is, the screen shows the cursor that was asked     *)
(* for, with its hotspot at the pointer: what crop() takes away, what the  *)
(* edges of the screen cut off and the unused bits of the mask make no     *)
(* difference.  And getBitmap() shows the same in two colours, if it can.  *)
CursorShownAsAsked ==
  LET bitmap == getBitmap(cursor)
  IN  /\ \A pos \in DOMAIN Screen :
           Shown(pos) = [p \in DOMAIN Screen |-> LET d == Minus(p, pos)
                                                 IN  IF d \in DOMAIN asked THEN asked[d] ELSE ScreenPixel]
      /\ bitmap.none <=> \E x, y, z \in Range(asked) : x # y /\ x # z /\ y # z
      /\ \A d \in DOMAIN asked : bitmap.none \/
           asked[d] = IF Plus(d, cursor.hotspot) \in bitmap.source THEN bitmap.pix1 ELSE bitmap.pix0

=============================================================================
