# A TLA+ model of the VNC 4.0 server for BeOS

This directory holds TLA+ specifications of the VNC server in `src/`, the TLC
configurations that check them, and proofs that TLAPS checks.  File names below
are relative to `src/vnc-4.0-beossrc/`.

1. The system: inventory
2. The modules and how they correspond to the code
3. The runs: what is checked, within which bounds, and what it shows
4. Fairness
5. The proofs
6. Disagreements between the code and what is said about it, and oddities met on the way
7. What is not modelled
8. The plan

Every module is parsed with `tlasany M.tla`, a run is
`tlc -config X.cfg MCM`, and `tlapm M.tla` checks a module of proofs.

## 1. The system

The program is one BeOS application.  The thread of its `BApplication`
(`beosserver/ServerMain.cxx`) takes messages from a queue.  A polling message
makes one pass over the network, `PollNetwork()`: select, process every socket
that is ready, accept at most one connection, check idle timeouts, look at a
slice of the screen, post the next polling message.  Everything in `rfb/` runs in
this thread.  Two other threads enter through the frame buffer: a `BDirectWindow`
has a thread of its own, and the OS calls it in yet another one when video
memory comes and goes.  Applications draw on the screen whenever they like, and
at the other end of every socket there is a viewer.  `vncpasswd` is a program of
its own, which shares the password file with the server.

| Component | State it keeps | Operations | Acts on | Hard behaviour | Correct when |
|---|---|---|---|---|---|
| Application, polling thread `beosserver/ServerMain.cxx` | network state, listener, list of ready sockets, time of the last pass | message loop, `PollNetwork`, `Pulse` (dead man's timer), `ShutDownNetwork`, quit | server object, listener | errors at any point of a pass break the chain of messages; sockets are closed while the list that names them is processed | nothing in the list is deleted; the network comes back; a shutdown leaves nothing behind |
| Server object `rfb/VNCServerST.cxx` | clients, sockets being closed, who holds the pointer, whether the desktop is started, pixel buffer and comparer | `addClient`, `processSocketEvent`, `checkTimeouts`, `approveConnection`, `closeClients`, `setPixelBuffer`, `tryUpdate`, broadcasts | connections, desktop, blacklist | closing is not deleting; one client's message closes others; the desktop's life depends on all clients | no authenticated client without a desktop; exclusive use; every closed client is deleted |
| Connections `rfb/SConnection.cxx`, `rfb/VNCSConnectionST.cxx` | handshake state, pressed keys, `requested`, `updates` | one handler per message, `close`, destructor | server object, desktop, streams | timeouts, late answers to queries, failures of writes | keys and pointer are released; no message is taken for another |
| BeOS desktop `beosserver/SDesktopBeOS.cxx` | frame buffer, key map, input device, key and mouse state, place of the scan | `start`, `stop`, `keyEvent`, `pointerEvent`, `BackgroundScreenUpdateCheck` | OS, server object | `start` fails half way; the screen changes size; slices of a screen that moves | start and stop alternate; every row is looked at again and again |
| Frame buffers `beosserver/FrameBufferBeOS.cxx` | saved and cached settings, version, lock, pointer to video memory | callbacks of the OS, `LockFrameBuffer`, `UpdatePixelFormatEtc`, `GrabScreen` | OS | three threads, a lock some do not wait for | nobody reads memory that is gone |
| Update tracking `rfb/ComparingUpdateTracker.cxx`, `rfb/UpdateTracker.cxx` | changed and copied regions, previous picture | `add_changed`, `add_copied`, `compare`, `get_update`, `subtract` | regions, frame buffer | pixels are compared and read again later; one comparer for all | what a client shows wrong is pending for it |
| Blacklist `rfb/Blacklist.cxx` | marks and timeouts by host | `isBlackmarked`, `clearBlackmark` | clock | long series of retries | exactly the threshold, then once for every doubled timeout |
| Security `rfb/SSecurity*`, `rfb/CSecurity*`, `rfb/vncAuth.cxx`, `rfb/d3des.c` | challenge, response | `processMsg`, the cipher | streams, password file | version and type decide what is sent; passwords shorter than a key | both ends agree; who knows the password gets in |
| Password program `beosserver/vncpasswd.cxx` | the password file | two questions, checks, writing | the server that reads the file | it may be stopped between emptying and writing | a file gives back its password or lets nobody in |
| Client library `rfb/CConnection.cxx`, `rfb/CMsg*` | the other half of the handshake and of a session | `processMsg` and one handler per message | streams | as above | as above |
| Messages `rfb/SMsg*` | rectangles counted, pseudo-rectangles due | readers and writers | streams, encoders | the number of rectangles is announced before they are written; size and format change meanwhile | the client meets what it waits for |
| Regions `Xregion/`, `rfb/Region.cxx` | bands of rectangles | union, intersection, difference, offset, queries | – | canonical form, coalescing of bands | same points as the set operation |
| Encoders and decoders `rfb/*Encode*`, `rfb/*Decode*` | buffers | one per encoding | streams, pixel formats | output limits, partial rectangles, tiles at edges | a decoded picture is the encoded one |
| Pixel formats `rfb/PixelFormat.cxx`, `rfb/trans*` | tables, the client's colour map | translation, when tables are made again | colour maps | widths and shifts, formats that change while nobody has asked for anything | the nearest colour |
| Cursor `rfb/Cursor.cxx` | picture, mask, hotspot | set, crop, outline, draw | pixel buffers | masks wider than the picture, edges of the screen | what was asked for is shown, hotspot at the pointer |
| Byte streams `rdr/` | buffer, position, offset | `check`, `overrun`, `flush` | file descriptors, zlib | partial reads and writes, timeouts | bytes come out in order, once |
| zlib `zlib/` | window, hash chains, trees, pending bytes; window, tables, bits | `deflate`, `inflate` | byte streams | a call may stop anywhere | what is read is what was written |
| Sockets `network/` | descriptors, filter | connect, accept, shut down | OS | refusals; patterns that cannot be read | the filter means what it says |
| Input event injector `beosserver/InputEventInjector.cpp` | whether it runs | `Start`, `Stop`, `Control` | BeOS's input server | it may be stopped by the user | what is said is not lost for good |
| HTTP server `rfb/HTTPServer.cxx` | sessions and their lines | `processSocketEvent`, `checkTimeouts` | sockets | requests in pieces, long lines, idle sessions | one answer to one request |
| Configuration and logging `rfb/Configuration.cxx`, `rfb/LogWriter.cxx` | parameters, log levels | `setParam`, command line | every component | values that do not parse, options that take the next argument | what is given is taken, the last one wins |
| Java viewer, build files | – | – | – | – | not modelled |

The hazards, each at the line where it bites and with the properties that would
catch it or the reason why none does, are listed in `PROJECT.json`.  Smaller ones, for which no property
is stated:

- Two clients hold the same key: the first release lifts it for both
  (`SDesktopBeOS.cxx:1068`), because the desktop keeps one state for all.
- The shift that `VNCSConnectionST.cxx:411` adds around `ISO_Left_Tab` is lifted even when
  another client holds shift.
- `Blacklist.cxx:66` doubles a timeout for ever; it wraps after decades, as
  `Blacklist.h:56-58` says.
- A `Box` of the region code keeps coordinates in 16 bits, so that `Region::reset`
  (`Region.cxx:94`) wraps for rectangles that end beyond 32767.
- `ScreenChanged()` bumps the version under the lock and copies the palette after
  it has been released (`FrameBufferBeOS.cxx:442`).
- The input device drops messages while the user has stopped it and reports success
  (`InputEventInjector.cpp:166`); the mouse makes up for that (`ButtonsAreHeld` in
  `Pointer`), the keyboard does not.

## 2. The modules

| Module | Models | Used by |
|---|---|---|
| `SDesktopContract` | what `rfb/SDesktop.h` promises the author of a desktop (abstract specification) | refined by `VNCServerST` |
| `VNCServerST` | `rfb/VNCServerST.cxx`, `rfb/SConnection.cxx`, `rfb/VNCSConnectionST.cxx`, and start, stop, keys and pointer of `beosserver/SDesktopBeOS.cxx` | `ServerMain`, `ServerProofs` |
| `ServerMain` | `beosserver/ServerMain.cxx`, composed with `VNCServerST` | `ServerProofs` |
| `DirectWindow` | `beosserver/FrameBufferBeOS.cxx`, the `BDirectWindow` half, and its use by the desktop | `MCScreen`, `ScreenProofs` |
| `ScreenUpdates` | the scan of `SDesktopBeOS.cxx`, the copy of `FrameBufferBScreen`, `ComparingUpdateTracker`, `checkUpdate()`, `writeFramebufferUpdate()`, `setPixelBuffer()`, and clients | `MCScreen`, `ScreenProofs` |
| `Blacklist` | `rfb/Blacklist.cxx` | `MCConnections`, `ConnectionsProofs` |
| `Handshake` | `rfb/SConnection.cxx`, `rfb/CConnection.cxx` and the security types, both ends | `HandshakeProofs`, `MCConnections` |
| `Session` | the messages of normal operation: `rfb/SMsgReader*`, `rfb/SMsgWriter*`, `rfb/CMsgReader*`, `rfb/CMsgWriter*`, `rfb/ConnParams.cxx`, timeouts of writes | `SessionProofs`, `MCConnections` |
| `Streams` | `rdr/FdOutStream.cxx`, `rdr/FdInStream.cxx` and the socket between them | `StreamsProofs`, `MCConnections` |
| `DES`, `Passwords` | `rfb/d3des.c`, `rfb/vncAuth.cxx`, `SSecurityVncAuth`, `CSecurityVncAuth`, `beosserver/vncpasswd.cxx` | `MCConnections` |
| `Settings` | the command line, `rfb/Configuration.cxx`, `rfb/LogWriter.cxx`, `rfb/secTypes.cxx` | `MCConnections` |
| `HTTPServer` | the filter and the listener of `network/TcpSocket.cxx`, `rfb/HTTPServer.cxx` | `MCConnections`, `ConnectionsProofs` |
| `Keyboard` | the keys: `VNCSConnectionST::keyEvent()` and its destructor, `SDesktopBeOS::keyEvent()` with all it calls | `MCInput`, `InputProofs` |
| `Pointer` | the mouse: `VNCSConnectionST::pointerEvent()`, `SDesktopBeOS::pointerEvent()`, `InputEventInjector.cpp` | `MCInput`, `InputProofs` |
| `Rectangles`, `Regions`, `RegionObject` | `rfb/Rect.h`, `Xregion/region.c`, `rfb/Region.cxx`; the life of a region | `MCPictures` |
| `PixelBuffers` | `rfb/PixelBuffer.cxx` | `RegionObject`, `Codecs`, `Cursors` |
| `UpdateTracker` | `rfb/UpdateTracker.cxx`, `rfb/ComparingUpdateTracker.cxx`, the drawn cursor of `VNCSConnectionST` | `MCVNCServerST`, `ServerProofs` |
| `Codecs` | `rfb/rreEncode.h`, `rfb/hextileEncode.h`, `rfb/zrleEncode.h`, their decoders, raw; a picture that is drawn on | `MCPictures` |
| `PixelFormats`, `ColourTranslation` | `rfb/PixelFormat.cxx`, `rfb/ColourCube.h`, `rfb/trans*Templ.h`; the life of a `rfb/TransImageGetter.cxx` | `MCPictures`; the formats also in `ScreenCopy` |
| `Cursors` | `rfb/Cursor.cxx`, and where `checkUpdate()` draws it | `MCVNCServerST`, `ServerProofs` |
| `ScreenCopy` | `FrameBufferBScreen` of `beosserver/FrameBufferBeOS.cxx` with the modes of the screen | `MCVNCServerST`, `ServerProofs` |
| `HuffmanTrees`, `BlockCodes` | the codes of `zlib/trees.c` and the tables of `zlib/inftrees.c`; what they promise each other | `MCPictures` |
| `Deflate`, `Inflate`, `ZlibStreams` | `zlib/deflate.c`, `zlib/inflate.c`, `zlib/infblock.c`, `zlib/infcodes.c`, `zlib/inffast.c`, `zlib/infutil.c`; `rdr/ZlibOutStream.cxx` and `rdr/ZlibInStream.cxx` around them | `MCPictures`, `MCZlib` |
| `ZlibSizes` | the constants of a small zlib | `MCPictures`, `MCZlib` |
| `MC...` | constants for TLC, and components put side by side | the runs, `...Proofs` |
| `...Proofs` | theorems (section 5) | |
| `Recursion` | induction, least numbers and recursive functions on the naturals | `...Proofs` |

`PROJECT.json` maps every definition to its lines.  Operators marked "Mutant" in
a module belong to no specification: each is a plausible slip in the code that
one of the properties detects.

`MCVNCServerST`, `MCScreen`, `MCConnections`, `MCInput` and `MCPictures` put components side by side
that do not interact: a variable `part` says which one a behaviour is about.
Their properties are those of the components, restricted to their part; a
property there may be a conjunction, of which each line is stated and named
in the component's module.  `MCConnections` takes `Handshake`, `Streams` and `Session`
from their modules of proofs, so that `ConnectionsProofs` can carry over their theorems.

### VNCServerST and ServerMain

`conn` is `SConnection::state_` for each connection; `"UNUSED"` is a connection
with no object.  `shut` are the sockets with `shutdown()` called on them: this
is how `close()` makes the caller come back and delete the object
(`ClosedClientEvent`), so closing (`CloseAll`) and deleting (`DeleteClient`) are
far apart and everything can happen in between.  `DeleteClient` is the end of
`processSocketEvent()` with the destructor and the check of `authClientCount()`
that may stop the desktop.  `AuthSuccess` starts it, and `StartThrows` is
`start()` up to any of its exceptions, with what it leaves set.

Abstractions:

- One `ProcessSocketEvent` reads one message.  The code reads all that have
  arrived; nothing else runs between two of them, so a call is a sequence of these
  steps.  The one place where this would lose a behaviour is spelled out: a client
  refused by `clientInit()` is deleted in the same call if it has sent more.
- The order of the client list only decides who is visited first; here anyone may be.
- Whether a write fails, a client has been idle, a host is blacklisted (that is
  `Blacklist`), a response to a challenge is right (that is `Handshake`) and what
  is displayed (that is `ScreenUpdates`) are choices.
- Connections are never made in the reverse direction, access rights and the
  parameters that ignore input are left on (off, the handler does nothing), and the
  key table is a set of keysyms with shift and tab told apart, because
  `keyEvent()` treats them specially.
- `Pulse` and polling messages are in one queue; the model lets any of them come
  first, which includes the order they have.

`ServerMain` adds the thread: `phase` is where it is, `ready` the list of sockets
it goes through, and each step of a pass is an action of `VNCServerST`
conjoined with the change of phase.  `NetworkFails` is an exception anywhere in the
`try` of `PollNetwork()`; restarting is outside of it (`RestartFails`).

### DirectWindow

Three threads meet at `m_ConnectionLock`.  Video memory is known by the mode it
belongs to and may be touched between the call with `B_DIRECT_START` and the
return of the one with `B_DIRECT_STOP` (`Mapped`).  `DirectConnected()` is cut at
every store that another thread can see, because a callback that has waited 0.4 s
changes the settings without the lock; `barged` remembers that one did.
`ScreenChanged()` comes from the window's thread, before or after the
callback.  `B_DIRECT_MODIFY` is left out: its code is the same as for START.
There is at most one `ScreenChanged()` message under way, and the uninitialised
`m_SavedFrameBufferInfo` of the constructor is a NULL pointer.

### ScreenUpdates

Regions are sets of rows, where a row stands for a band of blocks as wide as the
screen, and pixels are what a row shows.  The thread is one, but applications
draw and users resize while it works (`Draw`, `Resize`), so what the
server does between two looks at the pixels is one step: comparing
(`StartWriting`) and encoding (`Encode`) are two.  `Live` chooses between the two
frame buffers: video memory read directly, or a copy renewed by `GrabScreen()`.
`setPixelBuffer()` and `tryUpdate()` go over the clients one at a time.
The BeOS desktop never calls `add_copied()`, so there are no copied regions.
A client keeps the rows that old and new size have in common when it is told the
new one; that is the viewer's business and an assumption.  Cursor
rendering and copied regions are in `UpdateTracker`, changes of the pixel format in
`ColourTranslation`; `compareFB` off is left out.

### Handshake

The two ends with a queue of messages in each direction.  A message keeps its
meaning, and each end knows from its state what it expects
(`ServerExpects`, `ClientExpects`); an end that reads something as something else
is the failure `NeverMisread` is about.  A call that waits for the rest of a message
is a state of its own (`"REASON"`).  `ServerBogus` is the check in
`processMsg()` for data that arrive while a query is pending.  Between these two
ends the versions are 3.3 (`protocol3_3`, `useProtocol3_3`) and 3.8.  A blacklisted host
is turned away at either place.  Data lost when a TCP connection is reset are
not modelled.

### Blacklist

The clock, an entry for every host, and histories of what was let in.
`ClearBlackmark` comes only for a host that has had a call let through, since only
such a connection can authenticate.

### Session and Streams

`Session` has both ends in normal operation and a queue of items in each direction
that holds `Room` of them.  An update is its header, its rectangles and the pseudo
rectangles of cursor and size, each an item that the writer has to get into the queue
before it does anything else (`sOut`): the server is one thread, and while it
writes, everybody waits.  `s` is what `VNCSConnectionST` knows, with `cp`, writer and
update tracker; `c` is the client, a user of the client library that asks again when
an update has come and changes its format only then.  `ReadType` and `ReadRest` are
apart because the server blocks between them.  `Timeout` is what
`setSocketTimeouts()` makes of the two parameters.  A client may hang for ever
(`Stall`).  Here the screen is a column of rows and the pixels have only a
format.

`Streams` is one direction of a socket, byte by byte: `obuf` and `ibuf` are the two
buffers, `writing` and `reading` the calls under way with what they have not dealt
with yet.  Strings of at least `MinBulk` bytes go round the buffers, as in the code.  The
failed call, what it leaves in the buffer and the destructor that flushes again
are actions.

### Passwords, DES and Settings

`DES` follows `rfb/d3des.c` to the bit: a word is the set of its bits, and `LongBits`
tells a 32-bit `unsigned long` from a 64-bit one, where `<<` leaves garbage in the upper
half.  `Passwords` has the file, `vncpasswd` with one action per system call and a stop
between any two, and clients whose responses come in pieces.  `Settings` reads one argument
per step; a text is a sequence of words and marks.  Help, the service options of
other platforms and the wording of messages are left out.

### HTTPServer

The server thread that owns an `HTTPServer` is not part of the source, and this program
does not start one: the loop is the one `network/Socket.h` asks for.
`ProcessSocketEvent` begins a call, `ReadCharacter` is one round of the loop that reads
lines, and `Finish` deletes session and socket.  `idle` counts seconds since the last
event of a session, `wake` those until the time that `checkTimeouts()` returned.  `Words` is
the `sscanf()` of the request line: it skips any white space, CR included, and reads method and
path as far as the next white space or the room for them (`MethodRoom`, `PathRoom`).  The filter
of the listener is the parsing and matching of address patterns, with sets of bits.

### Keyboard and Pointer

A VNC key is the number of its keysym, a character a code point, so that the ranges
the code tests are ranges in the model, and `TableRanges` is the table of the
source in its order, which matters because it is searched by bisection.  A key map
is data of BeOS: nine partial functions from key codes to characters and the codes of
the modifier keys.  `desk` holds `m_LastKeyState` (`modifiers`, `keys`),
`m_UserModifierState` (`user`), and what somebody who reads all the injected
messages believes (`osModifiers`, `osKeys`).  `KeyEvent` is a function from one
such record to the next, because the code calls it up to three times for a shifted
Tab and once for every key of a client that is deleted.  `nulEnds` is the
byte behind an empty search string, which the code does not write.

`Pointer` has the mouse of every viewer, `pointerClient`, what the desktop remembers
(`m_LastMouse...`), whether the input device is installed and running, and `os`, what
BeOS knows.  A message carries the whole state of the mouse, positions as fractions of the
screen.  The screen is a row of pixels whose width changes.

In `Keyboard` every message reaches BeOS; in `Pointer` those sent while the device is
stopped are dropped.  Viewers connect when they have authenticated; the order of
closing and deleting, and the stopped desktop, are as in `VNCServerST`.  When the desktop is
stopped while another closed viewer still holds a key, `lost` records what is down then.

### Regions and update trackers

`Regions` follows `miRegionOp()`, `miCoalesce()` and the functions built on them as
recursions over sequences of rectangles; a pointer into the destination is an index.
`RegionObject` is a region on which the operations are called in any order, and
compares each with the operation on sets of points it is named for.

`UpdateTracker` then works with sets: a screen that is a strip of cells, one client, a
comparer, copied regions with their delta, the requests of that client and the
cursor that the server draws for it.  The view of the client is computed from the messages it is
sent.  What a cell may have shown while it was being sent is a set of contents.
`spoilt` marks views of which nothing is promised: a partial request cut a copy or the
drawn cursor in two, or a cursor was drawn with a picture of what was behind it
earlier (section 6).

### Codecs, colours and cursors

An encoded rectangle is a sequence of items: pixels, numbers, flags of a tile.  `Codecs`
has an encoder and a decoder for RRE, hextile, ZRLE and raw, with the tile sides, the
size of a palette and the length of a run as constants.  Bytes are counted where the code
counts them: when an encoding is compared with raw, and where indices are
packed.  The state is a picture on which pixels are drawn and which is sent through all of
them.

`PixelFormats` is the arithmetic of formats with `ByteBits` bits to a byte: shifts and
maxima, `pixelFromRGB`, the byte order, the 6×6×6 cube and every kind of
translation table.  `ColourTranslation` is the life of one client's
`TransImageGetter`: formats and colour maps change on both sides, and messages are due to the
client before and after its first request.

A mask in `Cursors` has rows of whole bytes, so that an outline may set bits of it to the right of
the picture.  What the desktop sets (`IsShape`) has its hotspot inside the picture and nothing
in those unused bits; the desktop of BeOS sets no cursor at all.

`ScreenCopy` is the other frame buffer, `FrameBufferBScreen`, with what the scan tells the
server of it.  The mode may change between the question for the colour space and the one
for the frame, and there may be no memory for a new bitmap: then `data` points to the old
one, which has been deleted, and what keeps anybody from reading it is that the exception
makes `PollNetwork()` shut the network down.  A mode of 24 bits, or one the code does not know,
makes `TransImageGetter` close every client.  The formats have the real numbers of bits.

### zlib

`Deflate` and `Inflate` are state machines whose step is one round of the loop of
`deflate_slow()`, or one state of `inflate_blocks()` and `inflate_codes()`, or one round of
`inflate_fast()`, and they stop where the code does: no input, no room, a full pending
buffer.  `HuffmanTrees` has `build_tree()`, `gen_bitlen()`, `gen_codes()`,
`scan_tree()` and `send_tree()` on one side and `huft_build()` on the other.  All sizes are
constants (`ZlibSizes`), related to one another as in zlib, so that a picture of a hundred
bytes slides the window, fills a block, overflows the lengths of words and wraps the
output window.  `ZlibStreams` puts both under `ZlibOutStream` and `ZlibInStream`; one
rectangle is one row of ZRLE tiles, because `ZRLE_ENCODE` flushes after each.  Only what
the program uses is there: level 6, flushes that end on a byte, no end of the stream, and so no
checksum.

## 3. The runs

| Run | Instance | Distinct states | Shows |
|---|---|---|---|
| `server` | three connections, never shared, all answers to queries, failing starts; trackers: one client, three cells, two changes; the copy of the screen; cursors | 154 000 | an authenticated client always has a desktop; exclusive use; the contract of `SDesktop.h` is implemented; what is not sent again is on the client's screen; the copy of the screen is read as it is; the cursor that was set is shown |
| `server_start_twice` | two connections | – | *violated*: `start()` and `stop()` alternate |
| `main` | the polling thread, two connections that displace each other | 122 000 | the list of a pass stays valid, and a shutdown leaves no client, socket, listener or desktop (`SocketsAreAccountedFor`); the pointer is never held by somebody deleted; the last holder of a key releases it; closed sockets are deleted; an unused desktop stops; the network comes back |
| `main_stuck_keys` | the same, keys | – | *violated*: every key that is down is held by somebody |
| `screen` | memory: two modes, three threads; updates: two clients, one resizable, heights 1 and 2, live memory | 362 000 | memory is read only while mapped, and with its own size; the version protects the cache; the cache catches up.  No read outside the frame buffer, no row a client does not have; what a client shows wrong is pending |
| `direct_request` | two modes, three threads | – | *violated*: nobody reads memory that is gone |
| `updates_shown` | one client, heights 1 and 2, slices of 1 and 2, copied memory | 40 000 | when the screen settles the client gets to see it |
| `updates_live` | one client, one height, live memory | – | *violated*: the same with no exception for rows that change while they are sent |
| `connections` | seven parts, see below | 139 000 | from the command line to the session: what section 1 asks of blacklist, handshake, session, streams, passwords, settings, HTTP server |
| `input` | two viewers, three keys held, ten keysyms, two key maps; two mice on screens of one and two pixels | 345 000 | BeOS is told of every change of a key, a modifier or a button; temporary modifiers are restored; nothing stays down but a key that shares its character with another, and what was down when the desktop was stopped under another key; nobody disturbs what somebody else drags |
| `pictures` | five parts, see below | 25 000 | regions, encodings, colours, codes and zlib are right |
| `zlib_waits` | rectangles through zlib | – | *violated*: a client never waits for bytes that come after its rectangle |

Deadlock is checked in all runs but `connections`, `pictures` and `zlib_waits`, whose parts
really come to an end: a handshake that is over, a picture that has been sent.

The bounds, and why they are enough:

- *Connections.*  The handlers treat a connection and all the others; three are
  enough for a client that acts, one it displaces and one in between.  Two are
  enough where a hazard needs a pair.  The theorems hold for any number.
- `server`, trackers: three cells, two pixels, two changes; a copy, one that continues it
  and a third cell that neither touches.  A stale picture of the cursor takes three
  changes and is left to the theorem `PictureIsKept`, which needs no bound.  *Copies*: nine colour
  spaces, one for each branch and one the code does not know, sizes of which one has rows that are
  padded, and two changes of the mode: one within a question and one that goes back.  *Cursors*:
  every mask of up to 3×2 points with the hotspot in each corner, on a screen of 3×3 with the
  pointer everywhere.
- `MaxOpens` saturates a history counter: the property only asks whether there were
  two starts.
- `MaxPolls`: two chains of polling messages, the one that runs and the one the
  deadman timer starts; more change nothing, since a polling message that finds the
  network in some state does what the one before would have done.
- `MaxVersion = 8`: no further mode changes begin when the version is this high.  A
  change bumps it by four, so that there are two complete changes on top of the
  first connection; the actions only compare versions for equality, and the proofs
  need no bound.
- `MaxRow = 2`, heights one and two: growing, shrinking, a slice that is the whole
  screen, a slice that is not, a rectangle half outside the frame buffer.
- `StillPromised` (in `screen`) stops at states of which nothing is promised
  any more: a row has slipped through, or a full refresh was asked for of rows that
  are gone.  Both conditions stay true once they are, and the properties of
  this run say nothing about such states.  It also stops at `settled`: what
  happens when nobody draws is a part of what may happen anyway.
- `connections`.  *Blacklist*: ten seconds with an initial timeout of one, so that 1 + 2 + 4
  seconds pass, three doublings.  *Handshake*: every list of up to two security types on
  either side, which has every order between the preferences of both ends, both
  versions, every answer to a query; the setup is chosen in the initial
  state.  *Streams*: buffers of 3 and 2 bytes and a socket of 2, so that every item and
  string can end before, at and after the end of each; 7 bytes fill all of them.
  *Session*: two events (draw, resize, cursor, bell, format, encodings, key, stall) in any
  order while messages are under way over a socket of two items; a hazard needs
  one on either side.  *Passwords*: lines of 0, 5, 6 and 9 bytes and one of 8 with a byte beyond
  ASCII, two runs of `vncpasswd`, responses in pieces; `LongBits` is 64 (32 bits give the
  same); `CipherIsDES` compares the cipher with a published ciphertext.  *Settings*: up to
  three of fourteen arguments over a parameter of every kind: an option, its value and one
  more option; the theorem has any number.
  *HTTP*: five filters with each way to write a pattern, five hosts of four bits, ten
  requests whose lines end before, at and after a buffer of 6 and whose words end before, at and
  after a room of 2, with blanks and CR before, between and behind them.
- `input`.  `MaxHeld = 3`: a key that is typed with temporary modifiers, a modifier that
  changes how it is looked up, and a third key of the same or another viewer.  The
  keysyms are one for each path of `keyEvent()`.  The constraint `FewLeft` stops where the byte
  that was never written has mattered (`Reliable`), and, once something has been left down by a
  desktop that was stopped under a key, goes on with one viewer at a time and `MaxLeft = 3` keys left
  or held, so that what was left meets every kind of key afterwards.  One key map has left Alt
  and Control swapped and no left option key.  Two screen widths, so that positions are
  clipped and scaled; button masks with one, two, no and a wheel button.
- `pictures`.  *Regions* within 3×3 points reach every shape there, with crosses,
  hooks and pairs of points as second operands: bands that split, join, disappear or
  touch.  *Encodings*: 6×4 points with tiles of 2 (hextile) and 4
  (ZRLE), so that there are whole tiles and cut ones; palettes of up to 5 colours,
  bytes of runs up to 3.  *Colours*: three formats of the screen, six of the client,
  two maps of eight colours, every three changes of them.  *Codes*:
  the frequencies of seven codes, some so uneven that words get too long.  *zlib*: four
  sequences of rectangles, rooms and portions down to a byte.

## 4. Fairness

- `ServerMain`: the thread keeps running (`WF` of the steps of a pass and of the
  shutdown), time passes and `Pulse` comes.  `SF(RestartSucceeds)`: listening
  works again some time.  There is no fairness for clients: closed sockets are
  deleted because `shutdown()` makes `select()` report them, which
  `PollSelect` states.
- `DirectWindow`: every thread goes on, the OS gives video memory back, and a lock
  that is free again and again is got (`SF`); a `BLocker` is a semaphore, which
  serves in order.
- `ScreenUpdates`: the polling step comes again and again and finishes its
  loops.  `SF(AskForAll)`: a client keeps asking for its whole desktop; the server
  gets to its request because sockets are handled in every pass, before the scan.
- `Handshake`: each end reads what has arrived, and a query that is pending is
  answered.
- `Streams`: the writer goes on with its call, or its timeout comes; the reader reads
  what there is.
- `Session`: the server's thread runs and its timeouts expire; a client that has not hung
  reads, writes and asks again.  `NotStuckForEver` needs nothing of the client.
- `HTTPServer`: the loop goes on and time passes; clients need not do anything.

## 5. The proofs

TLAPS proves the following for every value of the constants that satisfies the
named assumptions of the modules.  They are `ASSUME`s of the components, or
(`SizesAssumption` of `Streams` and of `HTTPServer`, `ListsAssumption` of `Handshake`, `SizeAssumption` of
`Session` and of `Pointer`, `LinesAssumption` and `CipherAssumption` of `Passwords`, `WordsAssumption` of `Settings`) hypotheses of the theorems, which `MCConnections` and `MCInput`
assume of their instances, or (`TrackersAssumption`, `CopyAssumption` and `ShapesAssumption` of
`MCVNCServerST`) assumed of the instances only: TLC evaluates all of them.

**ServerProofs.**  Of `VNCServerST`: `TypeCorrect`; `DesktopAlwaysThere`,
`NoKeyMapAtStart` and `ServerKeepsContract` from one lemma, `StepAllowed`: whatever the
action, the desktop and the set of authenticated clients change in one of a handful of ways
(`Allowed`).  `DesktopInv` adds to the properties what keeps them inductive: a
started desktop has everything `start()` makes, and one that is not started has no
key map.  The refinement is the same lemma read as a step of `SDesktopContract`.
`PointerNeverStale` and `ExclusiveUse` rest on `UseInv`: with `NeverShared` the
clients in normal operation are at most one, and the pointer's client
is not deleted without giving it up.  `ExclusiveUse` covers both ways of dealing with
a second client, of which the run `server` shows one.

Of `ServerMain`: every step of the thread is one of the server or leaves it alone
(`ThreadCallsServer`), so that what is proved of `VNCServerST` holds here too
(`PointerNeverStaleInPasses`).  `NoSocketForgotten` (after a shutdown there is no client, no
socket, no listener and no desktop) needs to know that a socket is a client's or a
blacklisted host's, never both, that a desktop is only started while some client is left whose
deletion will stop it (`SocketsInv`), and what is in the list of a pass in each phase (`ReadyInv`).

Of `UpdateTracker`: `PictureIsKept`, on a screen of any width, with any pixels, requests and
number of changes, whether the server compares or not.  The property speaks of moments at
which nothing has to be sent; the invariant (`PictureInv`) of all of them.  A tracker is taken for
what it may do to a picture (`Applied`): a cell that has changed may show anything, a copied one
shows what was where the copy comes from.  Apply the client's tracker to what the client shows
(`Behind`: under the drawn cursor that may be anything, since the server will have it sent again),
then the server's tracker to the result, and the screen is among what comes out (`Kept`).  A comparer
that has a copy of the screen stands between the two: the client's tracker leads to the copy,
the server's from the copy to the screen.  Each operation then needs one lemma of what it does to
`Applied`: `AddCopied` with its three kinds of copies, `Checked` for what `compare()` takes
away, `UpdateWritten` for what `subtract()` takes away.  Beside it, `CursorInv` says that a picture of
the cursor that is good covers it, `DrawnInv` that what is drawn is remembered, and `Sound` that
nothing is copied from outside of the screen.

Of `ScreenCopy`, as the other half of `PictureIsKept`: while the server makes updates, every pixel
of the copy is looked for where BeOS has it and read with the format it has, for
any modes, changed at any moment, and after any failure.  `CopyInv` says in which states of the
server the bitmap, the format cached of it and what the clients were told agree (`CopyInUse`); a
scan that tells nobody leaves them in agreement because formats that are `Equal` to an equal one
are equal.  That `m_CachedStride`, a number of pixels, gives back the bytes of a row needs the
assumption that BeOS gives a row whole words of four bytes (`WholePixels`), and that a format of
24 bits is refused.

Of `Cursors`: `CursorIsShown`, for any cursors, screen and width of the mask's rows.  The cursor in
the server loses the edges that `crop()` cuts off and gains outlines; the property compares it with
what was asked for, which has no size.  `CursorShapeInv` connects them: the one is the other, seen
from the hotspot (`AsAsked`); no edge can be moved any more without losing something (`Tight`), which is
why an outline ends where the rectangle around everything ends; and a bit of the mask beyond the
edge is there because its neighbour at the edge is (`ImageShape`), which is why a second outline
finds nothing new in the unused bits.

**ScreenProofs.**  Of `DirectWindow`: `WindowTypeCorrect`, `GoneMemoryIsNoticed`,
`LockedCacheIsCurrent`, `LockedScanReadsMapped`, `LockedScanHasItsSize`.  The invariant says
who holds the lock in which state of the three threads, that the saved pointer is that of the
mode while the display is up, that cached versions are never ahead, and, while
nobody has gone ahead without the lock, what an up-to-date cache looks like.

Of `ScreenUpdates`: `UpdatesTypeCorrect`, `NothingReadOutside`, `ClientNeverOverrun`,
`NothingMissed`.  The last is the heart of update tracking.  It is not inductive:
the invariant has parts for connections that are not there (`OutInv`), for the
loops (`LoopInv`), for what may be requested (`AskedInv`), for the
sizes both ends believe in (`SizeInv`), for the rectangle being written
(`WriterInv`), for what is pending after a resize (`PendingInv`), and for a comparer
that has not compared yet (`CompareInv`): then everything is pending for everybody.

**HandshakeProofs.**  `MessagesAreUnderstood` (no end ever reads a message as
another one), `EndsAgree` (when both are in normal operation they chose the same version and
security type, and a password was right if one was asked for), `RefusalIsTold`, `QueriesAreAwaited`, for
any lists of security types.  The invariant says for every state of the client what it has
yet to read and where the server can be meanwhile, and for every state of the server what has yet
to reach it: each message that is under way has one state of the receiver that expects it.
`PreferenceIsObeyed` is separate: of the types that both ends have, the client chose the one that
the list `clientOrder` points to names first.

**StreamsProofs.**  `BytesInOrder`: what the reader has been given is a beginning of what was
written, whatever the sizes of buffers and socket and wherever a call fails.  Bytes are numbered
as they are written; the invariant says of each place a byte can be in (the reader's calls, its
buffer, the socket, the unsent part of the writer's buffer, the call under way) at which
number its run begins.  After a failure it says so of the reader's end only.

**SessionProofs.**  `UpdatesAreUnderstood`: every part of an update that arrives is one the
client announced, in the pixel format the client has, of a row it knows of, and the number
of parts is the one in the header.  This is not a property of one message: what may be
in an update was settled when the client sent its request, and a change of format, of
encodings, of the cursor or of the size may be under way in either direction.  The invariant follows the
request from the client (`RequestAt`) to the server (`requested`) and back as an
update (`HeaderAt`, `UpdateParts`), and says at each point what else may be under
way; `SameFormat` and `Told` say how far the server's knowledge of the client lags behind.
A connection that was closed leaves a part of this (`Readable`).

**ConnectionsProofs.**  Of `Blacklist`: `TypeCorrect`, `ThresholdCalls`, `NoMoreCalls`,
`TimeoutsAlwaysAddUp`, `DoublingIsKept`.  `EntryInv` ties the marks of a host to the number of
calls let through and its timeouts to the time of the first.  `DoublingIsKept` is an
induction over the retries, of which `TimeoutsAlwaysAddUp` is the step.  It and `NoMoreCalls`
need a positive threshold (see section 6).  `MessagesAreUnderstood`, `SecurityIsAgreed`,
`BytesArriveInOrder` and `UpdatesAreUnderstood` carry the theorems of the other three modules over
to the specification that the run `connections` checks: a behaviour of the parts is, for
each part, one of its component that stutters while another part is looked at (`PartsImplement`).

`RequestsAreAnsweredOnce` is about `HTTPServer`.  The property looks at the whole of what has
been read, the code at one character at a time: the invariant (`Hears`) ties the two.  The buffer
holds the line that has not ended, as far as it fits; in `ReadRequestLine` no line that is not
blank has ended, and in `ReadHeaders` one has (`IsAsked`), no blank one since, and method and path are
its words.  The code reads a line from left to right, each word from where the last one ended; the
property says of the places of a line which word they are in: those that are not white, up to
the first gap or as far as there is room (`Word`).  `WhiteSkipped`, `WordEnded`
and `WordRead` bring the two together, for rooms of any size above 0.  A line too long to fit counts as the request before it ends, and given out again and
again it changes nothing more; that its end is not taken for a blank line needs a buffer of more than
two characters.  `OnTime` says that the loop wakes up before a session has been idle for
too long, and `FirstPatternCounts` that bits and masks come to what the first pattern for a host says.

`CipherIsUndone` is about `DES`: with the keys in the opposite order the cipher is its own inverse,
for every key and block.  Before and after the rounds bits are exchanged between the words, by
steps that undo themselves (`ExchangeTwice`) and rotations that undo each other (`UpAndDown`); what a
`<<` leaves above the lower 32 bits never comes down again (`FinalIsLow`), so that the width of an
`unsigned long` does not matter.  A round is undone by the same round with the halves turned
(`RoundIsAWord`), and `RoundsUndone` is the induction over the sixteen of them.

`PasswordsAreFound` and `OnlyThePasswordGetsIn` (`PasswordsAreKept`) are about `Passwords`.
`FileInv` says that the file is the obfuscated password of its owner or has not eight bytes,
`SentInv` that what has come in of a response and what has not make up the response that the client
computed; the server reads the file when the last byte is there and compares with what is kept then
(`DecidedInv`).  The password is found again because the cipher is undone and no byte of a
password is NUL (`StringOfPadded`); who types it, or what differs from it in top bits only, is not
refused because the key does not depend on those (`SameRotated`).  That nobody *else* is accepted needs
more than the code: a challenge for which two passwords with different keys have the same response
would let one in for the other, and a password may happen to be obfuscated to itself.
`CipherAssumption` excludes both for the lines and challenges looked at, and TLC evaluates
it for those of the run; only `OnlyThePasswordGetsIn` uses it.

`CommandLineIsTaken` (`SettingsAreTaken`) is about `Settings`, for command lines of any length.  The
property looks at all arguments at once and calls those values that follow an option which wants
one (`Values`); `main()` tries each argument by itself first and then with the next one.  The
invariant (`Read`) says that the argument that is next is not a value, that the options before it
are right, and that each parameter and each log writer has what the last of these says.
`AloneIsRight`, `PairIsRight` and `NeitherIsWrong` say that the three outcomes of a round are the
three things that an option can be; the second needs that a text which begins with two dashes or
has a = is not taken for an option with a value, although `main()` tries it as one.  A list of log
levels is read by `SetOne`, item after item (`OneMoreItem`), and the property looks for the last item
that speaks of a writer (`TargetIsSettled`); the security types of a list are counted
(`OneMoreType`).  `WordsAssumption` says that the names of the program are those it compares with,
that none is a dash or a =, and that only `Log` sets levels.

**InputProofs.**  Of `Pointer`: `NobodyDisturbsADrag`; the invariant ties the viewer whose
buttons are down, the desktop's memory of the mouse, and what BeOS was told, through dropped
messages and a device that is installed late.  Of the whole of `MCInput`: `BeOSIsTold`,
that is, BeOS knows of every key and modifier the desktop believes to be down, for any
key maps with codes of seven bits; most of the proof is that each of the steps of `KeyEvent` keeps the
two in agreement, the temporary modifiers and the loop over all keys of a deleted client included.
`ModifiersComeBack` (`ModifiersAreRestored`) needs more than that agreement: while the modifiers in
effect are not those the viewers ask for, some viewer holds a key whose release restores them
(`Restores`), and each modifier that is asked for has a key that a viewer holds (`Accounted`).
`Effect` says what one key event does to that, `AllReleased` what the destructor's loop does.  It
rests on `TableAssumption` (facts about the table of keys, which TLC evaluates for the keys of the
run) and on `KeyMapAssumption`: a key map that has a key's character has its control characters
too, and the other way round.  The code does not check that of the user's key map.  With a map
that has @ but not its control character NUL the property fails: @ is pressed with a temporary shift,
then control goes down, and the release of @ looks for NUL, finds no key, and releases the suggested
key without restoring the modifiers (`beosserver/SDesktopBeOS.cxx:1434`).  So the theorems say nothing
of such a map, nor of what follows when a byte was read that nobody had written.  When the desktop is
stopped while another closed viewer holds a key (`main_stuck_keys`), the modifiers that are on
then, or asked for, may stay: they are put into `lost`, and from then on the invariant
bounds those that are temporary or have no holder by it.  The theorem goes on through such
a stop and everything that viewers do afterwards, and no other order of leaving puts anything into `lost`.
`EverythingGoesUp` (`NothingStaysDown`) adds `KeysInv`: a code that is down is that of a modifier in
effect, or the only code of a key that a viewer holds, or a shared one, or was left (`lost`, or the
code of a modifier in it).  A modifier and a key with a
character may have the same code, and then switching the modifiers presses and releases the key, so
the lemmas about one event (`KeysEffect`) follow a code through both: one that is down afterwards was down
before and is not a modifier's (`Kept`), or is a modifier's now, or the event pressed it.

**Recursion** has what the provers' library states with operator parameters: induction on the
naturals and the existence of least numbers, stated with sets, and recursive functions on the naturals.

Only model-checked: every liveness property (fairness and `ENABLED` are out of the
prover's reach); and everything in `pictures`: what
`Regions`, `Codecs` and the zlib modules compute is written with recursive operators, which the
provers do not take, and `ColoursAreNearest` is arithmetic with products and quotients of variables.

## 6. Disagreements

With a run that shows them:

- `SDesktop.h:32` promises that `start()` and `stop()` alternate.  A `start()` that
  throws is followed by another one (`server_start_twice`).
- A key stays down in BeOS when two viewers are closed together and the deletion
  of the first stops the desktop (`main_stuck_keys`; `rfb/VNCServerST.cxx:164`).
- An update written in answer to a request reads video memory without the lock
  (`direct_request`; `rfb/VNCSConnectionST.cxx:467`).
- A row that changes between comparison and encoding and then changes back stays wrong
  at the client (`updates_live`; `rfb/VNCServerST.cxx:411`).  The half-second
  `GrabScreen()` in the middle of a frame (`SDesktopBeOS.cxx:891-893`) does the same to
  rows that wait for a slow client.
- `ZlibInStream::decompress()` waits for another byte before it calls `inflate()`,
  which may hold the rest of the rectangle in its window, all its bytes taken
  (`zlib_waits`; `rdr/ZlibInStream.cxx:109`).  The client then waits until something
  else is sent to it.  It takes a rectangle whose last bytes expand to more than the
  buffer of `ZlibInStream` has room for.

Met on the way and stated as exceptions in the properties:

- A full refresh, asked for by a client that does not know yet that the screen has
  shrunk, is not clipped (`rfb/VNCSConnectionST.cxx:463`), and the encoders read beyond the
  frame buffer, although `rfb/PixelBuffer.cxx:52` assumes that they do not: the
  exception `beyond` in `RowsExist`.
- `keyEvent()` looks a key up again when it is released.  A character that is on two
  keys in different maps, as the digits of the keypad are, can be pressed on one
  and released on the other, which leaves the first down: hold @, press and hold
  `KP_1` (with the shift that was added for @), release both.  The exception in
  `NothingStaysDown`.
- `XK_KP_Equal` is out of order in the table (`SDesktopBeOS.cxx:558`), which the comment
  at line 336 says is "in increasing order", and the search never finds it.
- What is down when the desktop is stopped while another closed viewer holds a key stays down
  (`lost` in `ModifiersAreRestored` and `NothingStaysDown`; `main_stuck_keys` shows it): that key,
  and with it a shift that was added to type it.
- With control down, 2, @ and space are NUL, and `FindKeyCodeFromMap()` compares
  `KeyAsString[1]`, which has not been written (`SDesktopBeOS.cxx:1294`): the
  exception `undefined` in `Reliable`.  If the release of @ is not found because of it, the
  shift added for the press stays on.
- A callback that has waited 0.4 s "barges on ahead"
  (`FrameBufferBeOS.cxx:387`): `barged`.
- A frame buffer whose window was not connected within the 100 ms of its
  constructor has no size, and `SDesktopBeOS.cxx:817` never looks at it again:
  the exception `built /\ size = "ZERO"` in `CacheCatchesUp`.
- The size of a new mode is told by another thread than its memory
  (`FrameBufferBeOS.cxx:658`): the exception `news = NoMode` in `ScanHasItsSize`.
- After a failed restart the state stays `NET_RESTARTING` (`ServerMain.cxx:376-382`)
  although the comment at line 266 has it go down; the deadman timer tries again.
- With a threshold of zero the first call of a host is let in all the same
  (`Blacklist.cxx:50`): the assumption of `NoMoreCalls`.
- A client of version 3.3 with security type None gets no result to wait for and sends
  `ClientInit` at once.  If its query is pending the server closes the connection
  for "bogus data" (`SConnection.cxx:101`), although `VNCServerST.h:147-148` lets a
  handler take its time; if it is rejected it is told nothing.  These are the
  exceptions `Silent` in `QueriedClientWaits` and `RefusedClientKnows`.
- With `IdleTimeout` 0, `setSocketTimeouts()` (`VNCSConnectionST.cxx:620-630`) makes the
  timeout of writes infinite, and `ClientWaitTimeMillis` is ignored, against
  `ServerCore.cxx:33-37`: one client that hangs stops the server.  `NotStuckForEver`
  is checked with an idle timeout.
- A request for a part of the screen splits what was one update: the part of a copied region
  that is sent later copies from pixels that have been overwritten, and the remembered
  rectangle of the drawn cursor is cut to what was asked for
  (`VNCSConnectionST.cxx:537-549`).  `spoilt` in `UpdateTracker` marks it.
- `VNCServerST.cxx:380-382` says that the cursor is rendered again with the correct background if
  necessary.  While no client needs it drawn, changes behind it pass without
  making its picture invalid (`VNCServerST.cxx:388-397`); a client that needs it later is sent the
  cursor with the old background until something changes there again.  `spoilt` marks this too; it
  was the proof of `PictureIsKept` that brought it up, at a depth the run does not reach.
- A client that has asked for nothing yet is passed over when the colour map
  changes, and keeps the tables made for it (`VNCSConnectionST.cxx:597`): `missed` in
  `ColourTranslation`.
- `ConnParams::setEncodings()` never takes `supportsDesktopResize` back, and a cursor
  that is due stays due when the client withdraws the encoding: `ClientUnderstands`
  asks only what the client ever said.
- A button stays down when the viewer that pressed it goes, until another one's next
  event: the exception in `ButtonsAreHeld`.  Both wheel buttons released at once
  turn the wheel up only.
- A line that overruns the buffer of the HTTP server is given out again for every further
  character (`HTTPServer.cxx:68`), against the comment above the class ("resets internal state"): `Fitting` says
  what the request counts as.
- `UpdatePixelFormatEtc()` gives every mode the byte order of the machine, also those
  commented "stored as big endian uint32" (`FrameBufferBeOS.cxx:971-993`); the history of the file
  expects that ("the bit order is likely wrong").  `CopyIsReadAsItIs` asks for the
  order only in modes of the machine's own kind.
- In the filter of `HTTPServer` an address that cannot be read, and one that is 0 under its mask,
  turn into a pattern for every host; a pattern without sign has an action nobody
  initialised.  The host `255.255.255.255` matches no pattern.
- `LogParameter::setParam()` stops at the first item it does not understand after it
  has switched every writer off.  `usage()` does not say that `--<param>` alone is
  taken, and `--<param> <value>` is not.

Met and of no consequence to what is modelled:

- `hextileEncode.h:225` tests `*data` where `*ptr` is meant: a tile of two colours is
  sent as one of many.  Right, but longer.
- After `TimedOut` in `FdOutStream::flush()` the bytes already sent stay in the buffer, and the
  destructor would send them again, had the socket not been shut down.
- `pixelBufferChange()` can write `SetColourMapEntries` to a client in `INITIALISATION`,
  before `ServerInit` (`VNCSConnectionST.cxx:179`).
- `vncpasswd` opens the file for writing before it writes (`vncpasswd.cxx:165`); when it is
  stopped there, nobody gets in.  DES ignores the top bit of every byte of a password,
  and only its first eight bytes count.
- With `IdleTimeout` 0, `checkIdleTimeout()` of the HTTP server ends every session at once.
- `deflate()` called with room for one byte every time would emit empty blocks for ever
  (`zlib.h:244-247`); `ZlibOutStream::flush()` asks for one byte of room only, and is saved
  by a `MemOutStream` that doubles.

## 7. What is not modelled

- The Java viewer (a binary) and the build files.
- Of the BeOS desktop the clipboard; of its frame buffers the copy of the colour map
  and the status window.  `B_RGB24_BIG`, "currently unused", is not among the modes of a screen: its
  format has 32 bits.
- Of zlib what the program never calls: files (`gzio.c`), dictionaries, other levels,
  `deflate_fast` and `deflate_stored`, the end of a stream, checksums.
- Streams of memory, of hexadecimal digits and of random bytes; the block callbacks of
  `FdInStream` and its measurement of speed, which only tells a viewer what to choose.
- Making connections to a server, names of hosts.
- The text of logs, messages and replies, rotation of log files, statistics.
- Tables without code: the names of keysyms in `keysymdef.h` that the desktop does not
  use, the precomputed trees in `trees.h` and `inffixed.h` (the models build them).
- Classes that nothing in the program uses: `SubstitutingInStream`,
  `BinaryParameter`.
- Widths of integers other than pixels and DES words: coordinates, clocks and
  counters are unbounded or bounded by a constant.
- Failing allocations, but for the bitmap of `ScreenCopy`.

## 8. The plan

The order puts what several actors can get wrong first, and pure algorithms after it.

1. *(done)* `VNCServerST` with its contract, `ServerMain`; their theorems.
2. *(done)* `DirectWindow`, `Blacklist`, `ScreenUpdates` with their theorems;
   `Handshake`; `Keyboard`.
3. *(done)* `Regions`, `UpdateTracker`.
4. *(done)* `Session`.
5. *(done)* `Streams`, `Passwords` with `DES`, `Settings`, `HTTPServer`.
6. *(done)* `Pointer`.
7. *(done)* Encoders and decoders, pixel formats, cursors, zlib.
8. *(done)* Theorems of `ServerMain`, `UpdateTracker`, `ScreenCopy`, `Cursors`, `Handshake`,
   `Streams`, `Session`, `HTTPServer`, `Passwords` and `DES`, `Settings`, `Keyboard` and `Pointer`; the step from `TimeoutsAddUp` to `NoFasterThanDoubling`.
9. Theorems: that colours are the nearest.
