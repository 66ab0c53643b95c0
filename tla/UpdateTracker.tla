---------------------------- MODULE UpdateTracker ----------------------------
(***************************************************************************)
(* What has changed and what has only moved on the screen, as              *)
(* rfb/UpdateTracker.cxx keeps it, and the cursor that the server draws    *)
(* for a client that does not draw its own (VNCSConnectionST).             *)
(* One client looks at a screen that is a strip of cells, so that a region *)
(* is a set of cells.  RegionObject shows that regions are sets and that   *)
(* the rectangles of a copy can be copied one after the other.             *)
(***************************************************************************)
EXTENDS Integers, FiniteSets, FiniteSetsExt

CONSTANTS
  Size,       \* cells of the screen
  Pixel,      \* what a cell shows
  Arrow,      \* what the drawn part of the cursor shows
  CompareFB,  \* the parameter of that name
  Wanted,     \* the regions a client asks for
  Encodings,  \* what it says it supports at first
  MaxEvents   \* bound on how often the screen, the cursor or the encodings change

Cell == 0 .. Size - 1

VARIABLES
  screen,     \* the contents of the frame buffer
  comparer,   \* the server's tracker
  oldFb,      \* what the comparer believes the screen shows; empty at first
  updates,    \* the client's tracker
  requested,  \* what the client has asked for
  view,       \* what the client shows
  cursor,     \* the server's cursor and the picture of it
  cp,         \* the encodings the client supports
  drawn,      \* the client's rendered cursor
  spoilt,     \* history: a partial request has left part of a copy or of a cursor behind,
              \* or a cursor was drawn with what was behind it before
  events      \* how many changes there were

vars == <<screen, comparer, oldFb, updates, requested, view, cursor, cp, drawn, spoilt, events>>

Tracker == [changed : SUBSET Cell, copied : SUBSET Cell, delta : (1 - Size) .. (Size - 1),
            copyEnabled : BOOLEAN]

TypeOK ==
  /\ screen \in [Cell -> Pixel]
  /\ comparer \in Tracker
  /\ oldFb \in [Cell -> Pixel] \cup {<<>>}
  /\ updates \in Tracker
  /\ requested \subseteq Cell
  /\ view \in [Cell -> Pixel \cup {Arrow}]
  /\ cursor.pos \in Cell
  /\ cursor.invalid \in BOOLEAN
  /\ DOMAIN cursor.image \subseteq Cell
  /\ drawn.rect \subseteq Cell
  /\ cp \in [supportsLocalCursor : BOOLEAN, useCopyRect : BOOLEAN]
  /\ {drawn.draw, drawn.remove, drawn.own, spoilt} \subseteq BOOLEAN
  /\ events \in 0 .. MaxEvents

-----------------------------------------------------------------------------
(* SimpleUpdateTracker.  The operators return the tracker after the call.  *)

Shift(r, d) == {x + d : x \in r}

(* get_bounding_rect ().area () on a strip. *)
Extent(r) == IF r = {} THEN 0 ELSE Max(r) - Min(r) + 1

add_changed(t, r) == [t EXCEPT !.changed = @ \cup r]

(* Mutant: what has changed where the copy comes from is forgotten. *)
NewCopyOfStaleCells(t, dest, d) ==
  IF Extent(t.copied) > Extent(dest) THEN add_changed(t, dest)
  ELSE [t EXCEPT !.changed = @ \cup t.copied, !.copied = dest, !.delta = d]

(* A copy that shares nothing with the one before replaces it, or counts   *)
(* as a change when it is the smaller one.                                 *)
NewCopy(t, dest, d) ==
  IF Extent(t.copied) > Extent(dest) THEN add_changed(t, dest)
  ELSE [t EXCEPT !.changed = @ \cup Shift(Shift(dest, -d) \cap t.changed, d) \cup t.copied,
                 !.copied = dest,
                 !.delta = d]

(* What is copied on from where it was copied to has come all the way; the *)
(* rest of both copies counts as a change.                                 *)
ContinuedCopy(t, dest, d, overlap) ==
  LET all == Shift(overlap, d)
  IN  [t EXCEPT !.changed = @ \cup Shift(overlap \cap t.changed, d) \cup ((dest \cup t.copied) \ all),
                !.copied = all,
                !.delta = @ + d]

add_copied(t, dest, d) ==
  LET overlap == Shift(dest, -d) \cap t.copied
  IN  IF ~t.copyEnabled THEN add_changed(t, dest)
      ELSE IF dest = {} THEN t
      ELSE IF overlap = {} THEN NewCopy(t, dest, d)
      ELSE ContinuedCopy(t, dest, d, overlap)

enable_copyrect(t, enable) ==
  IF ~enable /\ t.copyEnabled
  THEN [t EXCEPT !.changed = @ \cup t.copied, !.copied = {}, !.copyEnabled = FALSE]
  ELSE [t EXCEPT !.copyEnabled = enable]

subtract(t, r) == [t EXCEPT !.changed = @ \ r, !.copied = @ \ r]

clear(t) == [t EXCEPT !.changed = {}, !.copied = {}]

(* get_update(): what is left of the tracker, whose clip is sent. *)
get_update(t) == [t EXCEPT !.copied = @ \ t.changed]

(* ClippedUpdateTracker::add_copied(): what is copied onto the screen from *)
(* outside of it is a change.                                              *)
add_copied_clipped(t, dest, d) ==
  LET clipdest == dest \cap Cell
      inside == Shift(Shift(clipdest, -d) \cap Cell, d)
  IN  add_changed(IF inside = {} THEN t ELSE add_copied(t, inside, d), clipdest \ inside)

-----------------------------------------------------------------------------
(* ComparingUpdateTracker::compare(): the old picture is copied like the   *)
(* new one, then what differs is what has changed.                         *)
Copied(fb, r, d) == [x \in Cell |-> IF x \in r THEN fb[x - d] ELSE fb[x]]

Moved(c) == Copied(oldFb, c.copied, c.delta)

Differs(c) == LET old == Moved(c) IN {x \in c.changed \cup c.copied : screen[x] # old[x]}

compared(c) ==
  IF ~CompareFB \/ oldFb = <<>> THEN c
  ELSE LET differing == Differs(c)
       IN  [c EXCEPT !.changed = differing, !.copied = @ \ differing]

oldFbAfter(c) ==
  IF ~CompareFB THEN oldFb
  ELSE IF oldFb = <<>> THEN screen
  ELSE LET old == Moved(c)
           differing == Differs(c)
       IN  [x \in Cell |-> IF x \in differing THEN screen[x] ELSE old[x]]

-----------------------------------------------------------------------------
(* The cursor has two cells; the right one is transparent. *)
CursorCells == {cursor.pos, cursor.pos + 1} \cap Cell

Picture == [x \in CursorCells |-> IF x = cursor.pos THEN Arrow ELSE screen[x]]

needRenderedCursor(d) == ~cp.supportsLocalCursor \/ ~d.own

NoImage == [x \in {} |-> Arrow]

Init ==
  /\ screen \in {[x \in Cell |-> p] : p \in Pixel}
  /\ comparer = [changed |-> Cell, copied |-> {}, delta |-> 0, copyEnabled |-> TRUE]
  /\ oldFb = <<>>
  /\ updates = [changed |-> Cell, copied |-> {}, delta |-> 0, copyEnabled |-> FALSE]
  /\ requested = {}
  /\ view \in {[x \in Cell |-> p] : p \in Pixel}
  /\ cursor = [pos |-> 0, invalid |-> TRUE, image |-> NoImage]
  /\ drawn = [rect |-> {}, draw |-> FALSE, remove |-> FALSE, own |-> TRUE]
  /\ cp \in Encodings
  /\ spoilt = FALSE
  /\ events = 0

-----------------------------------------------------------------------------
(* The screen *)

Draw(x, p) ==
  /\ p # screen[x]
  /\ screen' = [screen EXCEPT ![x] = p]
  /\ comparer' = add_changed(comparer, {x})
  /\ UNCHANGED <<oldFb, updates, requested, view, cursor, cp, drawn>>

(* The cells from a to b come from d cells to the left, those from outside *)
(* the screen show p.                                                      *)
Scroll(a, b, d, p) ==
  /\ screen' = [x \in Cell |-> IF x \notin a .. b THEN screen[x]
                               ELSE IF x - d \in Cell THEN screen[x - d] ELSE p]
  /\ comparer' = add_copied_clipped(comparer, a .. b, d)
  /\ UNCHANGED <<oldFb, updates, requested, view, cursor, cp, drawn>>

-----------------------------------------------------------------------------
(* The cursor *)

(* renderedCursorChange() *)
Changed(d) == [d EXCEPT !.remove = TRUE, !.draw = @ \/ needRenderedCursor(d)]

(* setCursorPos(), by this client (own) or by another one; the image is no *)
(* longer right.                                                           *)
MoveCursor(pos, own) ==
  /\ pos # cursor.pos
  /\ cursor' = [cursor EXCEPT !.pos = pos, !.invalid = TRUE]
  /\ drawn' = Changed([drawn EXCEPT !.own = own])
  /\ UNCHANGED <<screen, comparer, oldFb, updates, requested, view, cp>>

(* Another client has moved the pointer, and this one no longer counts as  *)
(* the one that does.                                                      *)
SecondPasses ==
  /\ drawn.own
  /\ drawn' = [drawn EXCEPT !.own = FALSE]
  /\ UNCHANGED <<screen, comparer, oldFb, updates, requested, view, cursor, cp>>

(* setEncodings().  A cursor that the client draws itself is drawn no more *)
(* (supportsLocalCursor()).                                                *)
SetEncodings(encodings) ==
  /\ encodings # cp
  /\ cp' = encodings
  /\ drawn' = IF encodings.supportsLocalCursor /\ ~cp.supportsLocalCursor
              THEN [drawn EXCEPT !.remove = TRUE, !.draw = FALSE] ELSE drawn
  /\ UNCHANGED <<screen, comparer, oldFb, updates, requested, view, cursor>>

-----------------------------------------------------------------------------
(* Sending *)

is_empty(t) == t.changed = {} /\ t.copied = {}

CheckIsDue(c) == ~is_empty(c) \/ (needRenderedCursor(drawn) /\ cursor.invalid)

(* checkUpdate() draws the cursor again when the screen behind it changes. *)
Renders(c) ==
  /\ needRenderedCursor(drawn)
  /\ cursor.invalid \/ (c.changed \cup c.copied) \cap CursorCells # {}

(* checkUpdate() when c is the server's tracker: what becomes of a         *)
(* client's tracker t, and of what the server has.                         *)
told(t, c) ==
  LET differing == compared(c)
  IN  IF CheckIsDue(c)
      THEN add_changed(add_copied(t, differing.copied, differing.delta), differing.changed)
      ELSE t

checkUpdate(c) ==
  IF CheckIsDue(c)
  THEN /\ oldFb' = oldFbAfter(c)
       /\ comparer' = clear(compared(c))
       /\ cursor' = IF Renders(c) THEN [cursor EXCEPT !.image = Picture, !.invalid = FALSE] ELSE cursor
  ELSE comparer' = c /\ UNCHANGED <<oldFb, cursor>>

WithoutCopiedCursor(t) ==
  LET bogus == Shift(drawn.rect, t.delta) \cap Cell
  IN  IF t.copied \cap bogus # {} THEN add_changed(t, bogus) ELSE t

WithoutOldCursor(t) == IF drawn.remove THEN add_changed(t, drawn.rect) ELSE t

(* The cells from the first to the last. *)
BoundingRect(r) == IF r = {} THEN {} ELSE Min(r) .. Max(r)

Removed == IF drawn.remove THEN [drawn EXCEPT !.rect = {}, !.remove = FALSE] ELSE drawn

(* The cursor as it will be in an update of r, when t has changed. *)
NextCursor(t, r) ==
  LET rect == CursorCells \cap BoundingRect(r)
  IN  IF ~needRenderedCursor(drawn) THEN Removed
      ELSE [Removed EXCEPT !.rect = rect,
                           !.draw = rect # {} /\ (@ \/ (t.changed \cup t.copied) \cap rect # {})]

(* The client gets the copies first, then what the encoder sends of the    *)
(* changes, and the cursor last.                                           *)
Sent(due, copies, sent, now) ==
  LET base == Copied(view, copies, due.delta)
  IN  [x \in Cell |-> IF now.draw /\ x \in now.rect THEN cursor'.image[x]
                      ELSE IF x \in sent THEN screen[x] ELSE base[x]]

(* While no client needs the picture of the cursor, checkUpdate() does not *)
(* care for what changes behind it, and does not find out later.           *)
Stale(now) == now.draw /\ \E x \in now.rect : cursor'.image[x] # Picture[x]

(* writeFramebufferUpdate() when r is asked for, t is the client's tracker *)
(* and c the server's.  The encoder may leave some changes for later.      *)
writeFramebufferUpdate(r, t, c) ==
  LET known == WithoutOldCursor(WithoutCopiedCursor(told(t, c)))
      now == NextCursor(known, r)
      due == get_update(enable_copyrect(known, cp.useCopyRect))
      copies == due.copied \cap r
      changes == due.changed \cap r
      nothing == is_empty(known) /\ ~drawn.draw
  IN  /\ checkUpdate(c)
      /\ IF nothing \/ (copies \cup changes = {} /\ ~now.draw)
         THEN /\ updates' = IF nothing THEN known ELSE due
              /\ drawn' = IF nothing THEN Removed ELSE now
              /\ requested' = r
              /\ spoilt' = (spoilt \/ ~(nothing \/ Removed.rect \subseteq now.rect))
              /\ UNCHANGED view
         ELSE \E sent \in SUBSET changes :
              /\ changes # {} => sent # {}
              /\ updates' = subtract(due, copies \cup sent)
              /\ requested' = {}
              /\ drawn' = [now EXCEPT !.draw = FALSE]
              /\ spoilt' = (spoilt \/ ~(due.copied \subseteq r) \/ ~(Removed.rect \subseteq now.rect)
                                   \/ Stale(now))
              /\ view' = Sent(due, copies, sent, now)
      /\ UNCHANGED <<screen, cp>>

(* framebufferUpdateRequest() *)
Request(r, incremental) ==
  LET Asked(t) == IF incremental THEN t ELSE add_changed(t, r)
  IN  writeFramebufferUpdate(requested \cup r, Asked(updates), Asked(comparer))

(* tryUpdate(), for a request that waits. *)
TryUpdate ==
  /\ requested # {}
  /\ writeFramebufferUpdate(requested, updates, comparer)

(* The other clients are told as well when one is sent an update. *)
OtherClientsUpdate ==
  /\ CheckIsDue(comparer)
  /\ checkUpdate(comparer)
  /\ updates' = told(updates, comparer)
  /\ UNCHANGED <<screen, requested, view, cp, drawn, spoilt>>

-----------------------------------------------------------------------------
Event ==
  \/ \E x \in Cell, p \in Pixel : Draw(x, p)
  \/ \E a, b \in Cell, d \in {-1, 1}, p \in Pixel : a <= b /\ Scroll(a, b, d, p)
  \/ \E pos \in Cell, own \in BOOLEAN : MoveCursor(pos, own)
  \/ SecondPasses
  \/ \E s, c \in BOOLEAN : SetEncodings([supportsLocalCursor |-> s, useCopyRect |-> c])

Update ==
  \/ TryUpdate
  \/ OtherClientsUpdate
  \/ \E r \in Wanted, incremental \in BOOLEAN : Request(r, incremental)

(* Nothing is said of what happens once the picture has been spoilt. *)
Ended == spoilt /\ UNCHANGED vars

Next ==
  \/ ~spoilt /\ Event /\ events < MaxEvents /\ events' = events + 1 /\ UNCHANGED spoilt
  \/ ~spoilt /\ Update /\ UNCHANGED events
  \/ Ended

Spec == Init /\ [][Next]_vars

-----------------------------------------------------------------------------
(* What a tracker makes of the picture v, which has a set of contents for  *)
(* each cell.  What is sent or drawn anew may have been anything.          *)
Applied(t, v) ==
  [x \in Cell |-> IF x \in t.changed THEN Pixel ELSE IF x \in t.copied THEN v[x - t.delta] ELSE v[x]]

(* However changes, copies, moves of the cursor and requests mix, and      *)
(* whatever part of an update is left for later: when the trackers say     *)
(* that nothing has to be sent for a cell, the client shows there what the *)
(* screen does, or the cursor where the server remembers having drawn it.  *)
(* A partial request, or an old picture of the cursor, may spoil that,     *)
(* which spoilt says.                                                      *)
ClientsSeeTheScreen ==
  LET behind == [x \in Cell |-> IF x \in drawn.rect /\ view[x] = Arrow THEN Pixel ELSE {view[x]}]
      final == Applied(comparer, Applied(updates, behind))
  IN  spoilt \/ \A x \in Cell : screen[x] \in final[x]

=============================================================================
