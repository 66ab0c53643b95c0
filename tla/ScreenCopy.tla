----------------------------- MODULE ScreenCopy -----------------------------
(***************************************************************************)
(* The frame buffer that reads the screen into a bitmap: what              *)
(* FrameBufferBScreen (beosserver/FrameBufferBeOS.cxx) finds out about the *)
(* mode of the screen, which may change between any two of its questions,  *)
(* and what BackgroundScreenUpdateCheck() tells the server of it.  What    *)
(* the bitmap shows is modelled in ScreenUpdates; the colour map of BeOS   *)
(* and the depth of a format, which no pixel depends on, are left out.     *)
(***************************************************************************)
EXTENDS PixelFormats

CONSTANTS
  ColourSpaces,  \* the colour spaces a screen can have
  ScreenSizes,   \* the sizes, as <<width, height>>
  RowAlign,      \* the bytes of a bitmap's row are a multiple of this: 4
  MaxSwitches    \* bound on the changes of the mode

VARIABLES
  mode,       \* the OS: the colour space and the size of the screen
  server,     \* the server thread: what it does with the frame buffer
  space,      \* BScreenColourSpace
  bitmap,     \* m_ScreenCopyPntr: NoBitmap, or the mode it was made for
  buffer,     \* format, m_CachedStride, width_ and height_
  dataAlive,  \* whether data points into the bitmap
  told,       \* the format and the size in the last setPixelBuffer()
  switches    \* how often the mode has changed

frameBufferVars == <<space, bitmap, buffer, dataAlive, told>>
vars == <<mode, server, frameBufferVars, switches>>

Modes == [space : ColourSpaces, size : ScreenSizes]
NoBitmap == [space |-> "none", size |-> <<0, 0>>]

-----------------------------------------------------------------------------
(* BeOS *)

RGB(r, g, b) == [c \in Channels |-> CASE c = "r" -> r [] c = "g" -> g [] c = "b" -> b]

(* How the pixels of a colour space are stored: the bits of a colour, with *)
(* blue the lowest, the bytes of a pixel and their order. *)
Stored(cs) ==
  LET big == cs \in {"B_RGB32_BIG", "B_RGBA32_BIG", "B_RGB16_BIG", "B_RGB15_BIG", "B_RGBA15_BIG"}
  IN  CASE cs \in {"B_CMAP8", "B_GRAY8"} -> [bytes |-> 1, bits |-> RGB(0, 0, 0), big |-> big]
        [] cs \in {"B_RGB16", "B_RGB16_BIG"} -> [bytes |-> 2, bits |-> RGB(5, 6, 5), big |-> big]
        [] cs \in {"B_RGB15", "B_RGBA15", "B_RGB15_BIG", "B_RGBA15_BIG"} ->
             [bytes |-> 2, bits |-> RGB(5, 5, 5), big |-> big]
        [] cs = "B_RGB24" -> [bytes |-> 3, bits |-> RGB(8, 8, 8), big |-> big]
        [] OTHER -> [bytes |-> 4, bits |-> RGB(8, 8, 8), big |-> big]

(* BBitmap::BytesPerRow() *)
BytesPerRow(m) == RowAlign * ((Stored(m.space).bytes * m.size[1] + RowAlign - 1) \div RowAlign)

SwitchMode(m) ==
  /\ switches < MaxSwitches
  /\ m # mode
  /\ mode' = m
  /\ switches' = switches + 1
  /\ UNCHANGED <<server, frameBufferVars>>

-----------------------------------------------------------------------------
(* The format for a colour space.  Whichever order its pixels are stored   *)
(* in, the format has the order of the machine.  An unknown colour space   *)
(* has 24 bits.                                                            *)
FormatOf(cs) ==
  LET Words(bytes, max, shift) ==
        [bytes |-> bytes, bigEndian |-> nativeBigEndian, trueColour |-> TRUE, max |-> max, shift |-> shift]
  IN  CASE cs \in {"B_RGB32", "B_RGBA32", "B_RGB32_BIG", "B_RGBA32_BIG", "B_RGB24_BIG"} ->
             Words(4, RGB(255, 255, 255), RGB(16, 8, 0))
        [] cs \in {"B_RGB16", "B_RGB16_BIG"} -> Words(2, RGB(31, 63, 31), RGB(11, 5, 0))
        [] cs \in {"B_RGB15", "B_RGBA15", "B_RGB15_BIG", "B_RGBA15_BIG"} ->
             Words(2, RGB(31, 31, 31), RGB(10, 5, 0))
        [] cs \in {"B_CMAP8", "B_GRAY8"} ->
             [Words(1, RGB(255, 255, 255), RGB(0, 0, 0)) EXCEPT !.trueColour = FALSE]
        [] OTHER -> Words(3, RGB(255, 255, 255), RGB(16, 8, 0))

BufferFor(m) ==
  LET pf == FormatOf(m.space)
  IN  [pf |-> pf, stride |-> BytesPerRow(m) \div pf.bytes, size |-> m.size]

Init ==
  /\ mode \in Modes
  /\ server = "STOPPED"
  /\ space = "none"
  /\ bitmap = NoBitmap
  /\ buffer = [pf |-> FormatOf("none"), stride |-> 0, size |-> <<0, 0>>]
  /\ dataAlive = FALSE
  /\ told = [pf |-> FormatOf("none"), size |-> <<0, 0>>]
  /\ switches = 0

(* UpdatePixelFormatEtc(), from the constructor or from a scan, asks for   *)
(* the colour space first.                                                 *)
AskColourSpace ==
  /\ server \in {"STOPPED", "READY"}
  /\ server' = IF server = "STOPPED" THEN "STARTING" ELSE "SCANNING"
  /\ space' = mode.space
  /\ UNCHANGED <<mode, bitmap, buffer, dataAlive, told, switches>>

(* Then it asks for the frame, and finds the bitmap to be right, *)
NothingChanged == bitmap = [space |-> space, size |-> mode.size]

(* Mutant: a change is told of when the size is another one. *)
TellsOfSize(now) == buffer.size # now.size

(* setPixelBuffer() is called by start(), and by a scan that finds the     *)
(* format or the size changed.                                             *)
Tells(now) == server = "STARTING" \/ ~Equal(buffer.pf, now.pf) \/ buffer.size # now.size

(* TransImageGetter::init() throws, and every client is closed. *)
Refused(pf) == pf.bytes \notin {1, 2, 4}

KeepBitmap ==
  /\ server = "SCANNING"
  /\ NothingChanged
  /\ server' = "READY"
  /\ UNCHANGED <<mode, frameBufferVars, switches>>

(* or makes another one.                                                   *)
NewBitmap ==
  LET made == [space |-> space, size |-> mode.size]
      now == BufferFor(made)
  IN  /\ server \in {"STARTING", "SCANNING"}
      /\ ~NothingChanged
      /\ bitmap' = made
      /\ buffer' = now
      /\ dataAlive' = TRUE
      /\ told' = IF Tells(now) THEN [pf |-> now.pf, size |-> now.size] ELSE told
      /\ server' = IF Tells(now) /\ Refused(now.pf) THEN "GIVEN UP" ELSE "READY"
      /\ UNCHANGED <<mode, space, switches>>

(* There is no memory for it.  The old bitmap is gone, data still points   *)
(* to it, and the rest is as it was; the exception makes ServerApp shut    *)
(* the network down.                                                       *)
AllocationFails ==
  /\ server \in {"STARTING", "SCANNING"}
  /\ ~NothingChanged
  /\ bitmap' = NoBitmap
  /\ dataAlive' = FALSE
  /\ server' = IF server = "STARTING" THEN "STOPPED" ELSE "GIVEN UP"
  /\ UNCHANGED <<mode, space, buffer, told, switches>>

(* The last client goes, and stop() deletes the frame buffer. *)
StopDesktop ==
  /\ server \in {"READY", "GIVEN UP"}
  /\ server' = "STOPPED"
  /\ bitmap' = NoBitmap
  /\ dataAlive' = FALSE
  /\ buffer' = [pf |-> FormatOf("none"), stride |-> 0, size |-> <<0, 0>>]
  /\ UNCHANGED <<mode, space, told, switches>>

Next ==
  \/ \E m \in Modes : SwitchMode(m)
  \/ AskColourSpace
  \/ KeepBitmap
  \/ NewBitmap
  \/ AllocationFails
  \/ StopDesktop

Spec == Init /\ [][Next]_vars

-----------------------------------------------------------------------------
(* Where the server looks for a pixel, and where the bitmap has it. *)
Looked(x, y) == (y * buffer.stride + x) * buffer.pf.bytes
Kept(x, y) == y * BytesPerRow(bitmap) + x * Stored(bitmap.space).bytes

(* Whenever the mode changed, and whatever failed on the way: while        *)
(* updates are made there is a bitmap, the server and its clients work     *)
(* with its format and size, every pixel is looked for where the bitmap    *)
(* has it, and the format says what its bits are, except for the order of  *)
(* the bytes in a colour space of the other kind of machine.               *)
CopyIsReadAsItIs ==
  server = "READY" =>
    LET stored == Stored(bitmap.space)
        pf == buffer.pf
    IN  /\ dataAlive
        /\ Equal(told.pf, pf) /\ told.size = bitmap.size /\ buffer.size = bitmap.size
        /\ pf.bytes = stored.bytes
        /\ \A x \in 0 .. bitmap.size[1] - 1, y \in 0 .. bitmap.size[2] - 1 : Looked(x, y) = Kept(x, y)
        /\ stored.big = nativeBigEndian => pf.bigEndian = stored.big
        /\ pf.trueColour =>
             /\ \A c \in Channels : pf.max[c] = 2 ^ stored.bits[c] - 1
             /\ pf.shift = RGB(stored.bits["b"] + stored.bits["g"], stored.bits["b"], 0)
=============================================================================
