--------------------------- MODULE FrameExtractor ---------------------------
(***************************************************************************)
(* The sink of a video subsession (frame_extractor.cpp): it collects what  *)
(* live555 delivers in a fixed buffer and hands complete frames on. For    *)
(* H.264 and H.265 live555 delivers bare NAL units, which the extractor    *)
(* delimits with start codes, and the parameter sets of the SDP are put in *)
(* front of the first one. A unit that is too small to be a picture waits  *)
(* for its successor, so that parameter sets travel with their picture.    *)
(***************************************************************************)
EXTENDS Integers

CONSTANTS
    Size,        \* capacity of buffer_
    FrameSizes,  \* bound: the sizes of the units live555 delivers
    SetSizes,    \* bound: the sizes of the parameter sets in the SDP
    MaxUnits     \* bound: units delivered

StartCode == 4   \* sizeof(MPEG_START_CODE)
Held == 48       \* a buffer up to this length is not handed on

ASSUME SizesAssumption ==
    /\ Size \in Nat /\ Size > Held + StartCode
    /\ FrameSizes \subseteq Nat /\ SetSizes \subseteq Nat /\ MaxUnits \in Nat

VARIABLES
    nal,       \* the codec is H.264 or H.265
    length,    \* buffer_length_
    room,      \* the size passed to getNextFrame()
    headed,    \* the bytes before buffer_length_ are a start code
    filled,    \* history: the parameter sets left no room for a start code
    bare,      \* history: a unit was stored without a start code
    received,  \* history: units and parameter sets stored
    held,      \* those of them that are in the buffer
    sent       \* history: those handed on

vars == <<nal, length, room, headed, filled, bare, received, held, sent>>

\* Mutant: the start code is written without looking for room.
RoomForCodeBlindly(n) == TRUE

\* Mutant: only an empty buffer gets a start code.
RoomForCodeOnce(n) == n = 0

RoomForCode(n) == Size - StartCode >= n

\* continuePlaying() with buffer_length_ = n
ContinuePlaying(n) ==
    /\ headed' = (nal' /\ RoomForCode(n))
    /\ length' = IF headed' THEN n + StartCode ELSE n
    /\ room' = Size - length'

\* The parameter sets of the SDP that fit; a set that does not makes the
\* constructor throw, and there is no sink.
SetsThatFit ==
    {<<0, 0>>}
    \cup {<<a + StartCode, 1>> : a \in {s \in SetSizes : s + StartCode <= Size}}
    \cup {<<p[1] + p[2] + 2 * StartCode, 2>> :
            p \in {q \in SetSizes \X SetSizes : q[1] + q[2] + 2 * StartCode <= Size}}

Init ==
    /\ nal \in BOOLEAN
    /\ \E s \in SetsThatFit :
         /\ length = (IF nal THEN s[1] ELSE 0)
         /\ held = (IF nal THEN s[2] ELSE 0)
    /\ received = held
    /\ filled = (length > Size - StartCode)
    /\ room = -1 /\ headed = FALSE
    /\ bare = FALSE /\ sent = 0

\* startPlaying() calls continuePlaying() for the first time.
StartPlaying ==
    /\ room = -1
    /\ nal' = nal
    /\ ContinuePlaying(length)
    /\ UNCHANGED <<filled, bare, received, held, sent>>

\* Mutant: the buffer is emptied although it was not handed on.
DeliverFrameDropsSmall ==
    /\ room >= 0 /\ received < MaxUnits
    /\ nal' = nal
    /\ \E size \in FrameSizes :
         /\ size <= room
         /\ sent' = IF length + size > Held THEN sent + held + 1 ELSE sent
    /\ held' = 0
    /\ ContinuePlaying(0)
    /\ received' = received + 1
    /\ bare' = (bare \/ (nal /\ ~headed))
    /\ UNCHANGED filled

\* deliverFrame(): live555 stores at most "room" bytes and truncates the rest.
DeliverFrame ==
    /\ room >= 0 /\ received < MaxUnits
    /\ nal' = nal
    /\ \E size \in FrameSizes :
         /\ size <= room
         /\ IF length + size > Held
              THEN sent' = sent + held + 1 /\ held' = 0 /\ ContinuePlaying(0)
              ELSE sent' = sent /\ held' = held + 1 /\ ContinuePlaying(length + size)
    /\ received' = received + 1
    /\ bare' = (bare \/ (nal /\ ~headed))
    /\ UNCHANGED filled

Next == StartPlaying \/ DeliverFrame

Spec == Init /\ [][Next]_vars

-----------------------------------------------------------------------------
(* Properties.                                                             *)

\* Every variable stays in its range: the buffer is never exceeded and the
\* room promised to live555 ends with it.
TypeOK ==
    /\ nal \in BOOLEAN /\ headed \in BOOLEAN /\ filled \in BOOLEAN /\ bare \in BOOLEAN
    /\ length \in 0 .. Size
    /\ room \in -1 .. Size /\ (room >= 0 => length + room = Size)
    /\ received \in Nat /\ held \in Nat /\ sent \in Nat

\* Every unit of an H.264 or H.265 stream is preceded by a start code, unless
\* the parameter sets had already filled the buffer.
UnitsAreDelimited == bare => filled

\* Nothing is lost or handed on twice, and what waits for its successor is
\* small: after the first frame there is always room for a picture.
NothingLost ==
    /\ received = sent + held
    /\ sent > 0 => length <= Held + StartCode

=============================================================================
