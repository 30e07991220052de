-------------------------- MODULE StreamDecoderProofs --------------------------
(***************************************************************************)
(* What the decoding of received frames guarantees for any number of       *)
(* frames and streams and all time stamps: the properties that             *)
(* StreamDecoder.cfg checks on a small instance.                           *)
(***************************************************************************)
EXTENDS StreamDecoder, SequenceTheorems, TLAPS

Frames == [stamp : Stamps, stream : Nat]

TypeOK ==
    /\ queue \in Seq(Frames)
    /\ link \in {"none", "closed", "setup", "playing"}
    /\ decoder \in Nat /\ local \in Nat /\ frame \in Nat
    /\ running \in BOOLEAN /\ switched \in BOOLEAN
    /\ images \in [Streams -> BOOLEAN]
    /\ oldLag \in Int /\ warned \subseteq {2, 4, 8}

\* Whose frames are waiting: those of the stream that is received, and what a
\* new URL has left behind.
QueueState ==
    /\ link \in {"none", "closed"} => queue = << >>
    /\ link = "setup" => \A i \in 1 .. Len(queue) : queue[i].stream \in leftover
    /\ link = "playing" => \A i \in 1 .. Len(queue) : queue[i].stream \in leftover \cup {decoder}

\* A call works with the decoder in use unless the stream has changed since,
\* and on a frame that it is for.
CallState ==
    /\ frame # 0 => running /\ (frame = local \/ switched \/ frame \in leftover)
    /\ running => local = decoder \/ switched

\* old_lag_ remembers the highest limit that was warned about.
LagState == \A limit \in warned : limit <= oldLag

IInv == TypeOK /\ QueueState /\ CallState /\ LagState /\ ImagesAreHandedOn

-----------------------------------------------------------------------------

\* The frames that wait span an integral time.
LEMMA LagIsInt ==
    ASSUME NEW q \in Seq(Frames) PROVE FrameLag(q) \in Int
<1>1. CASE q = << >>
  BY <1>1 DEF FrameLag
<1>2. CASE q # << >>
  <2>1. 1 \in 1 .. Len(q) /\ Len(q) \in 1 .. Len(q)
    BY <1>2, EmptySeq
  <2>2. q[1] \in Frames /\ q[Len(q)] \in Frames
    BY <2>1
  <2>3. q[1].stamp \in Int /\ q[Len(q)].stamp \in Int
    BY <2>2, BoundsAssumption DEF Frames
  <2> QED
    BY <1>2, <2>3 DEF FrameLag
<1> QED
  BY <1>1, <1>2

\* A warning is about a limit that is above all the lag was when others were
\* given, and old_lag_ rises to it.
LEMMA WarningsRise ==
    ASSUME NEW lag \in Int, NEW old \in Int, NEW b \in Warns(lag, old)
    PROVE  b \in {2, 4, 8} /\ old < b /\ b <= lag /\ lag # 0 /\ OldLag(lag, old) = lag
BY DEF Warns, Branches, OldLag

\* Without a warning old_lag_ stays, or there is no lag.
LEMMA OldLagStays ==
    ASSUME NEW lag \in Int, NEW old \in Int, Warns(lag, old) = {}
    PROVE  OldLag(lag, old) = IF lag = 0 THEN 0 ELSE old
BY DEF OldLag

\* The steps of the connection.
LEMMA ConnectionStep ==
    ASSUME IInv, NewUrl \/ Lose \/ TimerConnects \/ SubsessionStarted \/ Receive
    PROVE  IInv'
<1> USE DEF decoderVars, callVars, lagVars
<1>1. CASE NewUrl
  <2>1. leftover' = leftover \cup {queue[i].stream : i \in DOMAIN queue}
        /\ UNCHANGED queue /\ link' = "setup" /\ ~running
    BY <1>1 DEF NewUrl
  <2>2. \A i \in 1 .. Len(queue) : queue[i].stream \in leftover'
    BY <2>1 DEF IInv, TypeOK
  <2>3. QueueState'
    BY <2>1, <2>2 DEF QueueState
  <2> QED
    BY <1>1, <2>3 DEF NewUrl, IInv, TypeOK, CallState, LagState, ImagesAreHandedOn
<1>2. CASE Lose
  BY <1>2 DEF Lose, IInv, TypeOK, QueueState, CallState, LagState, ImagesAreHandedOn
<1>3. CASE TimerConnects
  BY <1>3 DEF TimerConnects, IInv, TypeOK, QueueState, CallState, LagState, ImagesAreHandedOn
<1>4. CASE SubsessionStarted
  BY <1>4 DEF SubsessionStarted, IInv, TypeOK, QueueState, CallState, LagState, ImagesAreHandedOn
<1>5. CASE Receive
  <2>1. PICK stamp \in Stamps : queue' = Append(queue, [stamp |-> stamp, stream |-> decoder])
    BY <1>5 DEF Receive
  <2> DEFINE new == [stamp |-> stamp, stream |-> decoder]
  <2>2. new \in Frames /\ new.stream = decoder
    BY DEF Frames, IInv, TypeOK
  <2> HIDE DEF new
  <2>3. /\ queue' \in Seq(Frames) /\ Len(queue') = Len(queue) + 1 /\ queue'[Len(queue) + 1] = new
        /\ \A i \in 1 .. Len(queue) : queue'[i] = queue[i]
    BY <2>1, <2>2, AppendProperties DEF IInv, TypeOK, new
  <2>4. link = "playing" /\ UNCHANGED <<link, decoder, leftover>>
    BY <1>5 DEF Receive
  <2>5. \A i \in 1 .. Len(queue') : queue'[i].stream \in leftover \cup {decoder}
    BY <2>2, <2>3, <2>4 DEF IInv, TypeOK, QueueState
  <2>6. QueueState'
    BY <2>4, <2>5 DEF QueueState
  <2> QED
    BY <1>5, <2>3, <2>6 DEF Receive, IInv, TypeOK, CallState, LagState, ImagesAreHandedOn
<1> QED
  BY <1>1, <1>2, <1>3, <1>4, <1>5

\* A call takes the decoder in use, and then one frame after the other.
LEMMA CallStep ==
    ASSUME IInv, Begin \/ Pop
    PROVE  IInv'
<1> USE DEF decoderVars, callVars, lagVars
<1>1. CASE Begin
  BY <1>1 DEF Begin, CurrentDecoder, IInv, TypeOK, QueueState, CallState, LagState,
              ImagesAreHandedOn
<1>2. CASE Pop
  <2>1. CASE queue = << >>
    BY <1>2, <2>1 DEF Pop, IInv, TypeOK, QueueState, CallState, LagState, ImagesAreHandedOn
  <2>2. CASE queue # << >>
    <3>1. /\ queue' = Tail(queue) /\ frame' = queue[1].stream /\ running /\ frame = 0
          /\ UNCHANGED <<link, decoder, leftover, local, switched, running>>
      BY <1>2, <2>2 DEF Pop
    <3>2. /\ Tail(queue) \in Seq(Frames) /\ Len(queue) \in Nat \ {0}
          /\ Len(Tail(queue)) = Len(queue) - 1
          /\ \A i \in 1 .. Len(Tail(queue)) : Tail(queue)[i] = queue[i + 1]
      BY <2>2, HeadTailProperties DEF IInv, TypeOK
    <3>3. queue[1] \in Frames
      BY <3>2 DEF IInv, TypeOK
    <3>4. QueueState'
      BY <2>2, <3>1, <3>2 DEF IInv, QueueState
    <3>5. frame' \in Nat /\ frame' \in leftover \cup {decoder}
      BY <2>2, <3>1, <3>2, <3>3 DEF IInv, TypeOK, QueueState, Frames
    <3>6. CallState'
      BY <3>1, <3>5 DEF IInv, CallState
    <3> QED
      BY <1>2, <3>1, <3>2, <3>4, <3>5, <3>6 DEF Pop, IInv, TypeOK, LagState, ImagesAreHandedOn
  <2> QED
    BY <2>1, <2>2
<1> QED
  BY <1>1, <1>2

\* A frame is decoded.
LEMMA ProcessStep ==
    ASSUME IInv, Process
    PROVE  /\ IInv'
           /\ FrameLag(queue) # 0 =>
                  \A b \in Warns(FrameLag(queue), oldLag), c \in warned : c < b
           /\ frame = local \/ switched \/ frame \in leftover
<1> DEFINE lag == FrameLag(queue)
<1>1. lag \in Int
  BY LagIsInt DEF IInv, TypeOK
<1>2. /\ running /\ frame # 0 /\ frame' = 0
      /\ oldLag' = OldLag(lag, oldLag)
      /\ warned' = (IF lag = 0 THEN {} ELSE warned) \cup Warns(lag, oldLag)
      /\ UNCHANGED <<queue, link, decoder, leftover, local, switched>>
  BY DEF Process
<1>3. PICK new \in 0 .. MaxKept + 1, broken \in BOOLEAN : Decode(new, broken)
  BY DEF Process
<1>4. running' \in BOOLEAN
  BY <1>3 DEF Decode
<1>5. images' \in [Streams -> BOOLEAN] /\ ImagesAreHandedOn'
  <2>1. images' = [images EXCEPT ![local] = IF broken THEN @ \/ new > 0 ELSE HandOn(@, new)]
        /\ erred' = IF broken THEN erred \cup {local} ELSE erred
    BY <1>3 DEF Decode
  <2>2. CASE broken
    <3>1. images' \in [Streams -> BOOLEAN]
      BY <2>1, <2>2 DEF IInv, TypeOK
    <3>2. \A d \in Streams : images'[d] => d \in erred'
      BY <2>1, <2>2 DEF IInv, TypeOK, ImagesAreHandedOn
    <3> QED
      BY <3>1, <3>2 DEF ImagesAreHandedOn
  <2>3. CASE ~broken
    <3>1. images' \in [Streams -> BOOLEAN]
      BY <2>1, <2>3 DEF IInv, TypeOK, HandOn
    <3>2. \A d \in Streams : images'[d] => d \in erred'
      BY <2>1, <2>3 DEF IInv, TypeOK, ImagesAreHandedOn, HandOn
    <3> QED
      BY <3>1, <3>2 DEF ImagesAreHandedOn
  <2> QED
    BY <2>2, <2>3
<1> HIDE DEF lag
<1>6. oldLag' \in Int /\ warned' \subseteq {2, 4, 8} /\ LagState'
  <2>1. CASE Warns(lag, oldLag) = {}
    <3>1. oldLag' = (IF lag = 0 THEN 0 ELSE oldLag) /\ warned' = (IF lag = 0 THEN {} ELSE warned)
      BY <1>1, <1>2, <2>1, OldLagStays DEF IInv, TypeOK
    <3>2. CASE lag = 0
      BY <3>1, <3>2 DEF IInv, TypeOK, LagState
    <3>3. CASE lag # 0
      BY <3>1, <3>3 DEF IInv, TypeOK, LagState
    <3> QED
      BY <3>2, <3>3
  <2>2. CASE Warns(lag, oldLag) # {}
    <3>1. PICK b \in Warns(lag, oldLag) : TRUE
      BY <2>2
    <3>2. oldLag < lag /\ lag # 0 /\ oldLag' = lag
      BY <1>1, <1>2, <3>1, WarningsRise DEF IInv, TypeOK
    <3>3. \A c \in Warns(lag, oldLag) : c \in {2, 4, 8} /\ c <= lag
      BY <1>1, WarningsRise DEF IInv, TypeOK
    <3>4. warned' = warned \cup Warns(lag, oldLag)
      BY <1>2, <3>2
    <3>5. \A c \in warned' : c \in {2, 4, 8} /\ c <= lag
      <4> SUFFICES ASSUME NEW c \in warned' PROVE c \in {2, 4, 8} /\ c <= lag
        OBVIOUS
      <4>1. CASE c \in warned
        <5>1. c \in {2, 4, 8} /\ c <= oldLag /\ oldLag \in Int
          BY <4>1 DEF IInv, TypeOK, LagState
        <5> QED
          BY <1>1, <3>2, <5>1
      <4> QED
        BY <3>3, <3>4, <4>1
    <3> QED
      BY <1>1, <3>2, <3>5 DEF LagState
  <2> QED
    BY <2>1, <2>2
<1>7. \A b \in Warns(lag, oldLag), c \in warned : c < b
  <2> SUFFICES ASSUME NEW b \in Warns(lag, oldLag), NEW c \in warned PROVE c < b
    OBVIOUS
  <2>1. b \in {2, 4, 8} /\ oldLag < b
    BY <1>1, WarningsRise DEF IInv, TypeOK
  <2> QED
    BY <2>1 DEF IInv, TypeOK, LagState
<1>8. QueueState' /\ CallState'
  BY <1>2, <1>4 DEF IInv, QueueState, CallState
<1>9. TypeOK'
  BY <1>2, <1>4, <1>5, <1>6 DEF IInv, TypeOK
<1> QED
  BY <1>2, <1>5, <1>6, <1>7, <1>8, <1>9 DEF IInv, CallState, lag

-----------------------------------------------------------------------------

\* IInv is inductive.
LEMMA DecoderStep ==
    ASSUME IInv, [Next]_vars
    PROVE  IInv'
<1>1. CASE UNCHANGED vars
  BY <1>1 DEF vars, decoderVars, callVars, lagVars, IInv, TypeOK, QueueState, CallState, LagState,
              ImagesAreHandedOn
<1> QED
  BY <1>1, ConnectionStep, CallStep, ProcessStep DEF Next

\* IInv is an invariant.
THEOREM Invariance == Spec => []IInv
<1>1. Init => IInv
  <2> SUFFICES ASSUME Init PROVE IInv
    OBVIOUS
  <2>1. queue \in Seq(Frames)
    BY DEF Init
  <2>2. TypeOK
    <3>1. images \in [Streams -> BOOLEAN]
      BY DEF Init
    <3>2. /\ link = "none" /\ decoder = 0 /\ local = 0 /\ frame = 0 /\ oldLag = 0
      BY DEF Init
    <3>4. running \in BOOLEAN /\ switched \in BOOLEAN
      BY DEF Init
    <3>3. warned \subseteq {2, 4, 8}
      BY DEF Init
    <3> QED
      BY <2>1, <3>1, <3>2, <3>3, <3>4 DEF TypeOK
  <2>3. ImagesAreHandedOn
    BY DEF Init, ImagesAreHandedOn
  <2> QED
    BY <2>2, <2>3 DEF Init, IInv, QueueState, CallState, LagState
<1> QED
  BY <1>1, DecoderStep, PTL DEF Spec

\* No image waits in a decoder that has not reported an error.
THEOREM HandedOn == Spec => []ImagesAreHandedOn
<1>1. IInv => ImagesAreHandedOn
  BY DEF IInv
<1> QED
  BY <1>1, Invariance, PTL

\* A warning is never repeated, nor a milder one given, before the lag is gone.
THEOREM Escalation == Spec => WarningsEscalate
<1>1. IInv /\ [Next]_vars =>
        [Process /\ FrameLag(queue) # 0 =>
             \A b \in Warns(FrameLag(queue), oldLag), c \in warned : c < b]_vars
  BY ProcessStep
<1> QED
  BY <1>1, Invariance, PTL DEF Spec, WarningsEscalate

\* A frame meets the decoder of its stream.
THEOREM RightDecoder == Spec => FramesMeetTheirDecoder
<1>1. IInv /\ [Next]_vars =>
        [Process => frame = local \/ switched \/ frame \in leftover]_vars
  BY ProcessStep
<1> QED
  BY <1>1, Invariance, PTL DEF Spec, FramesMeetTheirDecoder

=============================================================================
