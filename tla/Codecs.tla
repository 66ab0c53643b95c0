------------------------------- MODULE Codecs -------------------------------
(***************************************************************************)
(* The encodings of a rectangle of pixels: raw, RRE, hextile and ZRLE,     *)
(* what the server's encoder writes and what the client's decoder makes of *)
(* it.  An encoded rectangle is a sequence of items: a pixel, a number or  *)
(* the flags of a tile.  Only where the code counts bytes do items have a  *)
(* length.  zlib, which hands the bytes of ZRLE through, is left out.      *)
(***************************************************************************)
EXTENDS PixelBuffers, FiniteSetsExt

CONSTANTS
  Bytes,        \* bytes of a pixel
  HexSide,      \* side of the tiles of hextile: 16
  ZrleSide,     \* side of the tiles of ZRLE: 64
  MAX_SIZE,     \* the colours a palette may have: 127
  LongRun,      \* what a byte of the length of a run adds up to at most: 255
  Pictures,     \* the pictures to start from
  Colours,      \* the colours that are drawn with
  Areas,        \* the rectangles that are sent
  MaxDrawn      \* bound on how many pixels are drawn

VARIABLES
  picture,
  drawnPixels   \* how many pixels have been drawn

(* A picture is a function from points to pixels, and pixels are numbers.  *)
(* None is what an unset variable of a decoder holds.                      *)
None == -1

(* The squares of the given side a rectangle is cut into, row by row. *)
Tiles(r, side) ==
  LET across == (width(r) + side - 1) \div side
      down == (height(r) + side - 1) \div side
      Tile(x, y) == Rect(x, y, min_vnc(x + side, r.x2), min_vnc(y + side, r.y2))
  IN  [k \in 1 .. across * down |->
         Tile(r.x1 + side * ((k - 1) % across), r.y1 + side * ((k - 1) \div across))]

(* The next n items. *)
Read(items, n) == SubSeq(items, 1, n)
Unread(items, n) == SubSeq(items, n + 1, Len(items))

-----------------------------------------------------------------------------
(* Rectangles of one colour on a background: RRE, and a tile of hextile.   *)

(* The one that starts at (x, y): of the one that is as wide as can be and *)
(* the one that is as high as can be, the larger one.                      *)
Subrect(img, t, x, y) ==
  LET From(w, h) == setXYWH(x, y, w, h)
      Plain(w, h) == \A p \in Points(From(w, h)) : img[p] = img[<<x, y>>]
      sw == Max({w \in 1 .. t.x2 - x : Plain(w, 1)})
      sh == Max({h \in 1 .. t.y2 - y : Plain(sw, h)})
      vh == Max({h \in 1 .. t.y2 - y : Plain(1, h)})
      vw == Max({w \in 1 .. sw : Plain(w, vh)})
  IN  IF vh # sh /\ sw * sh < vw * vh THEN From(vw, vh) ELSE From(sw, sh)

(* All of them, with their pixels; what one covers becomes background. *)
RECURSIVE Subrects(_, _, _)
Subrects(img, t, bg) ==
  LET left == {p \in Points(t) : img[p] # bg}
      y == Min({p[2] : p \in left})
      x == Min({p[1] : p \in {q \in left : q[2] = y}})
      s == Subrect(img, t, x, y)
  IN  IF left = {} THEN <<>>
      ELSE <<[rect |-> s, pixel |-> img[<<x, y>>]]>> \o Subrects(fillRect(img, s, bg), t, bg)

-----------------------------------------------------------------------------
(* RRE *)

(* Of the first four colours the one seen most often before a fifth. *)
Background(pixels) ==
  LET Prefix(n) == SubSeq(pixels, 1, n)
      seen == Prefix(Max({n \in DOMAIN pixels : Cardinality(Range(Prefix(n))) <= 4}))
      Times(i) == Cardinality({j \in DOMAIN seen : seen[j] = seen[i]})
  IN  seen[Min({i \in DOMAIN seen : \A j \in DOMAIN seen : Times(i) >= Times(j)})]

rawEncode(img, r) == getImage(img, r)

(* The encoding used and the items.  RRE that gets too long is given up    *)
(* for raw.                                                                *)
rreEncode(img, r) ==
  LET bg == Background(getImage(img, r))
      subs == Subrects(img, r, bg)
      Written(s) == <<s.pixel, s.rect.x1 - r.x1, s.rect.y1 - r.y1, width(s.rect), height(s.rect)>>
      tooLong == subs # <<>> /\ Bytes + Len(subs) * (Bytes + 8) > area(r)
  IN  IF tooLong THEN [encoding |-> "raw", items |-> rawEncode(img, r)]
      ELSE [encoding |-> "RRE",
            items |-> <<Len(subs), bg>> \o FlattenSeq([k \in DOMAIN subs |-> Written(subs[k])])]

(* A decoder is given the picture of the client and returns the new one    *)
(* and the items that it did not read.                                     *)
rawDecode(img, r, items) ==
  [img |-> imageRect(img, r, Read(items, area(r))), items |-> Unread(items, area(r))]

rreDecode(img, r, items) ==
  LET At(i, j) == items[2 + 5 * (i - 1) + j]
      One(v, i) == fillRect(v, setXYWH(r.x1 + At(i, 2), r.y1 + At(i, 3), At(i, 4), At(i, 5)), At(i, 1))
  IN  [img |-> FoldLeft(One, fillRect(img, r, items[2]), [i \in 1 .. items[1] |-> i]),
       items |-> Unread(items, 2 + 5 * items[1])]

-----------------------------------------------------------------------------
(* Hextile *)

(* One colour is the background and another one the foreground, unless     *)
(* there are more.  The code compares the first pixel and not the current  *)
(* one with the second colour, so that two are always too many.            *)
TestTileType(pixels) ==
  LET others == {k \in DOMAIN pixels : pixels[k] # pixels[1]}
      pix2 == IF others = {} THEN 0 ELSE pixels[Min(others)]
  IN  [bg |-> pixels[1],
       fg |-> pix2,
       flags |-> IF others = {} THEN {}
                 ELSE IF pixels[1] = pix2 THEN {"AnySubrects"}
                 ELSE {"AnySubrects", "SubrectsColoured"}]

(* Two numbers below HexSide in one item. *)
Pack(a, b) == a * HexSide + b

hextileEncodeTile(subs, t, coloured) ==
  LET Written(s) == (IF coloured THEN <<s.pixel>> ELSE <<>>)
                      \o <<Pack(s.rect.x1 - t.x1, s.rect.y1 - t.y1),
                           Pack(width(s.rect) - 1, height(s.rect) - 1)>>
  IN  <<Len(subs)>> \o FlattenSeq([k \in DOMAIN subs |-> Written(subs[k])])

(* The items so far and what the encoder takes the decoder's colours for. *)
hextileTile(img, out, t) ==
  LET pixels == getImage(img, t)
      type == TestTileType(pixels)
      coloured == "SubrectsColoured" \in type.flags
      subs == IF type.flags = {} THEN <<>> ELSE Subrects(img, t, type.bg)
      tooLong == subs # <<>> /\ 1 + Len(subs) * (IF coloured THEN Bytes + 2 ELSE 2) > area(t) * Bytes
      newBg == out.bg # type.bg
      newFg == subs # <<>> /\ ~coloured /\ out.fg # type.fg
      flags == type.flags \cup (IF newBg THEN {"BgSpecified"} ELSE {})
                          \cup (IF newFg THEN {"FgSpecified"} ELSE {})
  IN  IF tooLong THEN [items |-> out.items \o <<{"Raw"}>> \o pixels, bg |-> None, fg |-> None]
      ELSE [items |-> out.items \o <<flags>>
                        \o (IF newBg THEN <<type.bg>> ELSE <<>>)
                        \o (IF newFg THEN <<type.fg>> ELSE <<>>)
                        \o (IF subs = <<>> THEN <<>> ELSE hextileEncodeTile(subs, t, coloured)),
            bg |-> type.bg,
            fg |-> IF coloured THEN None ELSE IF newFg THEN type.fg ELSE out.fg]

hextileEncode(img, r) ==
  FoldLeft(LAMBDA out, t : hextileTile(img, out, t),
           [items |-> <<>>, bg |-> None, fg |-> None], Tiles(r, HexSide)).items

(* n subrectangles of a tile. *)
RECURSIVE hextileSubrects(_, _, _, _)
hextileSubrects(d, t, n, coloured) ==
  LET fg == IF coloured THEN d.items[1] ELSE d.fg
      k == IF coloured THEN 2 ELSE 1
      x == d.items[k] \div HexSide
      y == d.items[k] % HexSide
      w == d.items[k + 1] \div HexSide + 1
      h == (d.items[k + 1] % HexSide) + 1
  IN  IF n = 0 THEN d
      ELSE hextileSubrects([d EXCEPT !.img = fillRect(@, setXYWH(t.x1 + x, t.y1 + y, w, h), fg),
                                     !.items = Unread(@, k + 1),
                                     !.fg = fg], t, n - 1, coloured)

hextileDecodeTile(d, t) ==
  LET flags == Head(d.items)
      newBg == "BgSpecified" \in flags
      newFg == "FgSpecified" \in flags
      bg == IF newBg THEN d.items[2] ELSE d.bg
      colours == Cardinality(flags \cap {"BgSpecified", "FgSpecified"})
      filled == [img |-> fillRect(d.img, t, bg), items |-> Unread(d.items, 1 + colours), bg |-> bg,
                 fg |-> IF newFg THEN d.items[1 + colours] ELSE d.fg]
  IN  IF "Raw" \in flags
      THEN [d EXCEPT !.img = imageRect(@, t, Read(Tail(d.items), area(t))),
                     !.items = Unread(@, 1 + area(t))]
      ELSE IF "AnySubrects" \notin flags THEN filled
      ELSE hextileSubrects([filled EXCEPT !.items = Tail(@)], t, Head(filled.items),
                           "SubrectsColoured" \in flags)

hextileDecode(img, r, items) ==
  FoldLeft(hextileDecodeTile, [img |-> img, items |-> items, bg |-> 0, fg |-> 0], Tiles(r, HexSide))

-----------------------------------------------------------------------------
(* ZRLE *)

(* The pixels as runs of equal ones. *)
RECURSIVE Runs(_)
Runs(pixels) ==
  LET len == Max({n \in DOMAIN pixels : \A k \in 1 .. n : pixels[k] = pixels[1]})
  IN  IF pixels = <<>> THEN <<>>
      ELSE <<[pixel |-> pixels[1], len |-> len]>> \o Runs(Unread(pixels, len))

(* PaletteHelper: the colours in the order in which they appear.  Once     *)
(* there is no room, every run counts.                                     *)
Insert(ph, pixel) ==
  IF ph.size < MAX_SIZE
  THEN IF pixel \in Range(ph.palette) THEN ph
       ELSE [palette |-> Append(ph.palette, pixel), size |-> ph.size + 1]
  ELSE [ph EXCEPT !.size = @ + 1]

Palette(runs) ==
  FoldLeft(LAMBDA ph, run : Insert(ph, run.pixel), [palette |-> <<>>, size |-> 0], runs)

Lookup(ph, pixel) == (CHOOSE k \in DOMAIN ph.palette : ph.palette[k] = pixel) - 1

bitsPerPackedPixel(size) == IF size > 4 THEN 4 ELSE IF size > 2 THEN 2 ELSE size - 1

(* What takes the fewest bytes before compression; an earlier one wins. *)
Method(ph, runs, n) ==
  LET long == Cardinality({k \in DOMAIN runs : runs[k].len > 1})
      plain == (Bytes + 1) * Len(runs)
      indexed == Bytes * ph.size + Len(runs) + long
      packed == Bytes * ph.size + (n * bitsPerPackedPixel(ph.size)) \div 8
      best == IF plain < n * Bytes THEN plain ELSE n * Bytes
      better == IF ph.size <= MAX_SIZE /\ indexed < best THEN indexed ELSE best
  IN  CASE ph.size <= MAX_SIZE /\ ph.size < 17 /\ packed < better -> [rle |-> FALSE, palette |-> TRUE]
        [] OTHER -> [rle |-> better < n * Bytes, palette |-> better < best]

(* The length of a run, less one, in bytes of which the last is not full. *)
Length(len) ==
  [k \in 1 .. (len - 1) \div LongRun |-> LongRun] \o <<(len - 1) % LongRun>>

(* Mutant: the last byte is not filled up. *)
PackRowUnfilled(row, bits) ==
  LET each == 8 \div bits
      In(b) == SubSeq(row, (b - 1) * each + 1, min_vnc(b * each, Len(row)))
  IN  [b \in 1 .. (Len(row) + each - 1) \div each |->
         FoldLeft(LAMBDA byte, index : byte * 2 ^ bits + index, 0, In(b))]

(* The bytes of a row of indices, the first index highest; the last byte   *)
(* is filled up with zeroes.                                               *)
PackRow(row, bits) ==
  LET each == 8 \div bits
      At(k) == IF k <= Len(row) THEN row[k] ELSE 0
  IN  [b \in 1 .. (Len(row) + each - 1) \div each |->
         FoldLeft(LAMBDA byte, k : byte * 2 ^ bits + At((b - 1) * each + k), 0, [k \in 1 .. each |-> k])]

zrleEncodeTile(img, t) ==
  LET pixels == getImage(img, t)
      runs == Runs(pixels)
      ph == Palette(runs)
      method == Method(ph, runs, area(t))
      size == IF method.palette THEN ph.size ELSE 0
      Plain(run) == <<run.pixel>> \o Length(run.len)
      Indexed(run) == LET index == Lookup(ph, run.pixel)
                      IN  IF run.len <= 2 THEN [k \in 1 .. run.len |-> index]
                          ELSE <<index + MAX_SIZE + 1>> \o Length(run.len)
      Row(i) == [k \in 1 .. width(t) |-> Lookup(ph, pixels[(i - 1) * width(t) + k])]
      Rows == [i \in 1 .. height(t) |-> PackRow(Row(i), bitsPerPackedPixel(ph.size))]
  IN  IF ph.size = 1 THEN <<1, pixels[1]>>
      ELSE <<(IF method.rle THEN MAX_SIZE + 1 ELSE 0) + size>>
             \o SubSeq(ph.palette, 1, size)
             \o (IF method.rle
                 THEN FlattenSeq([k \in DOMAIN runs |->
                                    IF method.palette THEN Indexed(runs[k]) ELSE Plain(runs[k])])
                 ELSE IF method.palette THEN FlattenSeq(Rows) ELSE pixels)

(* The rows of tiles that fit are sent, and how far they reach; the first  *)
(* row fits.                                                               *)
actual(r, rows) == [r EXCEPT !.y2 = min_vnc(@, r.y1 + rows * ZrleSide)]

zrleEncode(img, r, rows) ==
  LET tiles == Tiles(actual(r, rows), ZrleSide)
  IN  FlattenSeq([k \in DOMAIN tiles |-> zrleEncodeTile(img, tiles[k])])

(* The length of a run and the items behind it. *)
RECURSIVE ReadLength(_, _)
ReadLength(items, len) ==
  IF Head(items) = LongRun THEN ReadLength(Tail(items), len + LongRun)
  ELSE [len |-> len + Head(items), items |-> Tail(items)]

(* n more pixels behind those in buf, from runs. *)
RECURSIVE ReadRuns(_, _, _, _)
ReadRuns(items, palette, buf, n) ==
  LET index == Head(items)
      long == palette = <<>> \/ index > MAX_SIZE
      pixel == IF palette = <<>> THEN index ELSE palette[(index % (MAX_SIZE + 1)) + 1]
      run == IF long THEN ReadLength(Tail(items), 1) ELSE [len |-> 1, items |-> Tail(items)]
  IN  IF n <= 0 THEN [buf |-> buf, items |-> items]
      ELSE ReadRuns(run.items, palette, buf \o [k \in 1 .. run.len |-> pixel], n - run.len)

ReadPacked(items, palette, t) ==
  LET size == Len(palette)
      bits == IF size > 16 THEN 8 ELSE IF size > 4 THEN 4 ELSE IF size > 2 THEN 2 ELSE 1
      each == 8 \div bits
      perRow == (width(t) + each - 1) \div each
      Index(k) == LET i == (k - 1) \div width(t)
                      j == (k - 1) % width(t)
                      byte == items[i * perRow + j \div each + 1]
                  IN  (byte \div 2 ^ (8 - bits * ((j % each) + 1))) % 2 ^ bits
  IN  [buf |-> [k \in 1 .. area(t) |-> palette[Index(k) + 1]],
       items |-> Unread(items, perRow * height(t))]

zrleDecodeTile(d, t) ==
  LET rle == Head(d.items) > MAX_SIZE
      size == Head(d.items) % (MAX_SIZE + 1)
      palette == Read(Tail(d.items), size)
      rest == Unread(d.items, 1 + size)
      read == IF size = 1 THEN [buf |-> [k \in 1 .. area(t) |-> palette[1]], items |-> rest]
              ELSE IF rle THEN ReadRuns(rest, palette, <<>>, area(t))
              ELSE IF size = 0 THEN [buf |-> Read(rest, area(t)), items |-> Unread(rest, area(t))]
              ELSE ReadPacked(rest, palette, t)
  IN  [img |-> imageRect(d.img, t, read.buf), items |-> read.items]

zrleDecode(img, r, items) ==
  FoldLeft(zrleDecodeTile, [img |-> img, items |-> items], Tiles(r, ZrleSide))

-----------------------------------------------------------------------------
(* A picture that is drawn on, and what a client gets of it with each of   *)
(* the encodings.                                                          *)

Init == picture \in Pictures /\ drawnPixels = 0

DrawPixel(p, c) ==
  /\ drawnPixels < MaxDrawn
  /\ picture[p] # c
  /\ picture' = [picture EXCEPT ![p] = c]
  /\ drawnPixels' = drawnPixels + 1

Next == \E p \in DOMAIN picture, c \in Colours : DrawPixel(p, c)

Spec == Init /\ [][Next]_<<picture, drawnPixels>>

-----------------------------------------------------------------------------
(* What the client shows before, and what it should show after it was sent *)
(* a rectangle.                                                            *)
Blank == [p \in DOMAIN picture |-> None]

Shown(r) == [img |-> [p \in DOMAIN picture |-> IF p \in Points(r) THEN picture[p] ELSE None],
             items |-> <<>>]

(* Whatever is encoded, and whichever of its ways the encoder takes, the   *)
(* client shows all of it and nothing else, and has read to the end of it. *)
DecodersUndoEncoders ==
  \A r \in Areas :
    /\ rawDecode(Blank, r, rawEncode(picture, r)) = Shown(r)
    /\ LET rre == rreEncode(picture, r)
       IN  (IF rre.encoding = "RRE" THEN rreDecode(Blank, r, rre.items)
            ELSE rawDecode(Blank, r, rre.items)) = Shown(r)
    /\ LET d == hextileDecode(Blank, r, hextileEncode(picture, r))
       IN  [img |-> d.img, items |-> d.items] = Shown(r)
    /\ \A rows \in 1 .. (height(r) + ZrleSide - 1) \div ZrleSide :
         zrleDecode(Blank, actual(r, rows), zrleEncode(picture, r, rows)) = Shown(actual(r, rows))

=============================================================================
