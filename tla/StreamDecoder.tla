---------------------------- MODULE StreamDecoder ---------------------------
(***************************************************************************)
(* The decoding of received frames: processFrame() and frameLag() in       *)
(* subscriber_plugin.cpp with StreamDecoder (stream_decoder.cpp).          *)
(*                                                                         *)
(* The event loop appends frames to queue_ and installs a new decoder for  *)
(* every stream; the executor runs processFrame(), which takes the decoder *)
(* once and then decodes until the queue is empty or a frame is broken. It *)
(* measures the span of the frames that are still waiting and lowers the   *)
(* decoding effort when it falls behind.                                   *)
(*                                                                         *)
(* Streams are numbered, and so are their decoders. Time stamps are in     *)
(* quarters of a second: the limits 500 ms, 1 s and 2 s are 2, 4 and 8.    *)
(* FFmpeg is external: a decoder may keep or drop frames and return the    *)
(* images of earlier ones, and sending or receiving may fail.              *)
(***************************************************************************)
EXTENDS Integers, Sequences

CONSTANTS
    MaxQueue,    \* bound: frames waiting in queue_
    Stamps,      \* bound: the time stamps in use; they may go back
    MaxStreams,  \* bound: streams received
    MaxKept      \* bound: frames a decoder keeps

ASSUME BoundsAssumption ==
    /\ Stamps \subseteq Int
    /\ MaxQueue \in Nat \ {0} /\ MaxStreams \in Nat \ {0} /\ MaxKept \in Nat

VARIABLES
    queue,      \* the frames in queue_: the stamp and the stream of each
    link,       \* the connection: "none", "closed", "setup" or "playing"
    decoder,    \* the number of the decoder decoder_ points to, or 0
    mode,       \* of each decoder: which frames it decodes
    kept,       \* of each decoder: frames it has not returned as images yet
    images,     \* of each decoder: there are images in frames_
    running,    \* the executor is in the loop of processFrame()
    local,      \* the decoder that this call uses
    frame,      \* the stream of the frame this call has popped, or 0
    oldLag,     \* old_lag_
    warned,     \* history: the limits warned about since old_lag_ was reset
    switched,   \* history: a new decoder was installed during this call
    leftover,   \* history: streams with frames in queue_ when a new URL came
    erred       \* history: decoders that have thrown DecodingError

decoderVars == <<mode, kept, images, erred>>
callVars == <<running, local, frame, switched>>
lagVars == <<oldLag, warned>>
vars == <<queue, link, decoder, leftover, decoderVars, callVars, lagVars>>

Streams == 1 .. MaxStreams

Init ==
    /\ queue = <<>>
    /\ link = "none" /\ decoder = 0
    /\ mode = [d \in Streams |-> "All"]
    /\ kept = [d \in Streams |-> 0]
    /\ images = [d \in Streams |-> FALSE]
    /\ running = FALSE /\ local = 0 /\ frame = 0 /\ oldLag = 0
    /\ warned = {} /\ switched = FALSE /\ leftover = {} /\ erred = {}

-----------------------------------------------------------------------------
(* The connection. A connection attempt that throws, failed_ included, is  *)
(* in SubscriberPlugin: here it is one that is lost.                       *)

\* internalCallback(): frames of the old stream stay in queue_.
NewUrl ==
    /\ ~running
    /\ link' = "setup"
    /\ oldLag' = 0 /\ warned' = {}
    /\ leftover' = leftover \cup {queue[i].stream : i \in DOMAIN queue}
    /\ UNCHANGED <<queue, decoder, decoderVars, callVars>>

\* reconnect() up to the timer, on the event loop or between two frames.
Lose ==
    /\ link \in {"setup", "playing"}
    /\ link' = "closed"
    /\ queue' = <<>>
    /\ UNCHANGED <<decoder, leftover, decoderVars, callVars, lagVars>>

\* cooldownTimerCallback()
TimerConnects ==
    /\ ~running /\ link = "closed"
    /\ link' = "setup"
    /\ queue' = <<>>
    /\ UNCHANGED <<decoder, leftover, decoderVars, callVars, lagVars>>

\* subsessionStarted(), and the constructor of StreamDecoder.
SubsessionStarted ==
    /\ link = "setup" /\ decoder < MaxStreams
    /\ link' = "playing"
    /\ decoder' = decoder + 1
    /\ oldLag' = 0 /\ warned' = {}
    /\ switched' = running
    /\ UNCHANGED <<queue, leftover, decoderVars, running, local, frame>>

\* pushFrame()
Receive ==
    /\ link = "playing" /\ Len(queue) < MaxQueue
    /\ \E stamp \in Stamps : queue' = Append(queue, [stamp |-> stamp, stream |-> decoder])
    /\ UNCHANGED <<link, decoder, leftover, decoderVars, callVars, lagVars>>

-----------------------------------------------------------------------------
(* The lag.                                                                *)

\* frameLag()
FrameLag(q) == IF q = <<>> THEN 0 ELSE q[Len(q)].stamp - q[1].stamp

\* The limits whose branch is entered. The one of 500 ms is entered also
\* after one of the others, because no "else" precedes it.
Branches(l) ==
    (IF l >= 8 THEN {8} ELSE IF l >= 4 THEN {4} ELSE {}) \cup (IF l >= 2 THEN {2} ELSE {})

\* The limit a warning is given for: old_lag_ then is at least every other.
Warns(l, old) ==
    {b \in Branches(l) : old < b /\ ~\E c \in Branches(l) : c > b /\ old < c}

\* The last setDecodeFrames() of the chain.
Mode(l) == IF l >= 2 THEN "Intra" ELSE "All"

\* Mutant: old_lag_ is reset as soon as the lag is below the lowest limit.
OldLagEarly(l, old) ==
    IF l < 2 THEN 0 ELSE IF Warns(l, old) # {} THEN l ELSE old

OldLag(l, old) ==
    IF l = 0 THEN 0 ELSE IF Warns(l, old) # {} THEN l ELSE old

-----------------------------------------------------------------------------
(* processFrame().                                                         *)

\* Mutant: the decoder of the first call is kept.
FirstDecoder == IF local = 0 THEN decoder ELSE local

CurrentDecoder == decoder

\* decoder_ is read once, without a lock.
Begin ==
    /\ ~running /\ decoder > 0
    /\ running' = TRUE /\ switched' = FALSE
    /\ local' = CurrentDecoder
    /\ UNCHANGED <<queue, link, decoder, frame, leftover, decoderVars, lagVars>>

\* Mutant: one call of nextFrame() for every frame.
HandOnOne(waiting, new) == IF new > 0 THEN waiting \/ new > 1 ELSE waiting

\* Are images left behind? nextFrame() is called until it has none, provided
\* that there is a new one.
HandOn(waiting, new) == IF new > 0 THEN FALSE ELSE waiting

\* decodeVideo() of the next frame, with "new" images returned, and nextFrame().
\* An error while images are received leaves those there are in frames_.
Decode(new, broken) ==
    /\ \E rest \in 0 .. MaxKept :
         /\ rest + new <= kept[local] + 1
         /\ kept' = [kept EXCEPT ![local] = rest]
    /\ images' = [images EXCEPT ![local] = IF broken THEN @ \/ new > 0 ELSE HandOn(@, new)]
    /\ erred' = IF broken THEN erred \cup {local} ELSE erred
    /\ running' = ~broken

\* popFrame(): it returns none, or the one it takes. The event loop runs on.
Pop ==
    /\ running /\ frame = 0
    /\ IF queue = <<>>
         THEN running' = FALSE /\ UNCHANGED <<queue, frame>>
         ELSE queue' = Tail(queue) /\ frame' = queue[1].stream /\ UNCHANGED running
    /\ UNCHANGED <<link, decoder, leftover, decoderVars, local, switched, lagVars>>

Process ==
    /\ running /\ frame # 0
    /\ frame' = 0
    /\ LET lag == FrameLag(queue)
       IN /\ mode' = [mode EXCEPT ![local] = Mode(lag)]
          /\ oldLag' = OldLag(lag, oldLag)
          /\ warned' = (IF lag = 0 THEN {} ELSE warned) \cup Warns(lag, oldLag)
    /\ \E new \in 0 .. MaxKept + 1, broken \in BOOLEAN : Decode(new, broken)
    /\ UNCHANGED <<queue, link, decoder, leftover, local, switched>>

Next ==
    \/ NewUrl \/ Lose \/ TimerConnects \/ SubsessionStarted \/ Receive
    \/ Begin \/ Pop \/ Process

Spec == Init /\ [][Next]_vars

-----------------------------------------------------------------------------
(* Properties.                                                             *)

\* The log is not flooded: until the decoder has caught up completely, only
\* a higher limit than those already warned about is worth a warning.
WarningsEscalate ==
    [][Process /\ FrameLag(queue) # 0 =>
         \A b \in Warns(FrameLag(queue), oldLag), c \in warned : c < b]_vars

\* A frame is decoded by the decoder of its own stream, unless the stream
\* changed during the call of processFrame(), or the frame was left behind
\* when a new URL came.
FramesMeetTheirDecoder ==
    [][Process => frame = local \/ switched \/ frame \in leftover]_vars

\* An image does not wait for later frames, unless the decoder has reported
\* an error after it.
ImagesAreHandedOn == \A d \in Streams : images[d] => d \in erred

\* "decoder is too slow; discarding all frames", subscriber_plugin.cpp:346:
\* frames that lag by two seconds are not decoded.
TwoSecondsDiscardAll == [][Process /\ FrameLag(queue) >= 8 => mode'[local] = "None"]_vars

=============================================================================
