-------------------------- MODULE StreamEncoderProofs --------------------------
(***************************************************************************)
(* What StreamEncoder guarantees for all sizes, formats, time stamps and   *)
(* numbers of images: what belongs to an encoder is for the encoder in     *)
(* use, and images keep their order and get usable presentation times.     *)
(* And what NalSplitter guarantees for all inputs: the packets of an H.264 *)
(* or H.265 encoder are split between the units they consist of, and at    *)
(* every start code of four octets.                                        *)
(***************************************************************************)
EXTENDS StreamEncoder, NalSplitter, SequenceTheorems, TLAPS

\* The names of all encoders.
Names ==
    Software \cup Vaapi \cup
    {"h264_qsv", "h264_nvenc", "h264_vulkan", "h264_omx", "hevc_qsv", "hevc_nvenc", "hevc_vulkan",
     "mjpeg_qsv", "mpeg4_omx", "vp8_qsv", "vp9_qsv", "av1_qsv", "av1_nvenc"}

TypeOK ==
    /\ codec \in DOMAIN Encoders /\ useHw \in BOOLEAN
    /\ todo \in Seq(Names)
    /\ phase \in {"choosing", "ready", "encoding", "thrown"}
    /\ vaapi \in BOOLEAN /\ device \in BOOLEAN /\ pool \in BOOLEAN /\ draining \in BOOLEAN
    /\ firstStamp \in Nat /\ highest \in Nat /\ lastPts \in Int /\ images \in Nat
    /\ handed \in Nat /\ inside \in Seq(Nat) /\ packets \in Seq(Nat)

\* Until a candidate works there is nothing to convert, and no image.
NothingYet ==
    /\ phase = "choosing" => converter = lastFormat
    /\ phase \in {"choosing", "ready"} => images = 0 /\ lastPts = -1

\* The presentation time runs ahead by less than one tick for each image.
TimesStayClose == lastPts < Ticks(highest - firstStamp) + images

\* Every image is inside the encoder, in a packet or handed out, and they
\* follow each other in this order.
ImagesFollow ==
    /\ handed + Len(packets) + Len(inside) = images
    /\ \A i \in 1 .. Len(packets) : packets[i] = handed + i
    /\ \A i \in 1 .. Len(inside) : inside[i] = handed + Len(packets) + i

IInv == TypeOK /\ NothingYet /\ DeviceFitsEncoder /\ TimesStayClose /\ ImagesFollow

-----------------------------------------------------------------------------

\* The conversion to ticks rounds towards zero, and keeps the order.
LEMMA TicksKeepOrder ==
    ASSUME NEW d \in Int, NEW e \in Int
    PROVE  Ticks(d) \in Int /\ Ticks(e) \in Int /\ Ticks(0) = 0 /\ (d <= e => Ticks(d) <= Ticks(e))
BY DEF Ticks

\* A presentation time is later than the last one, and than its own stamp by
\* less than the last one was.
LEMMA PtsAdvances ==
    ASSUME NEW d \in Int, NEW last \in Int, NEW e \in Int, NEW n \in Nat,
           last < Ticks(e) + n, d <= e
    PROVE  Pts(d, last) \in Int /\ Pts(d, last) > last /\ Pts(d, last) < Ticks(e) + n + 1
BY TicksKeepOrder DEF Pts

\* The lists of candidates name encoders.
LEMMA CandidatesAreNames ==
    ASSUME NEW c \in DOMAIN Encoders PROVE Encoders[c] \in Seq(Names)
<1> USE DEF Encoders, Names, Software, Vaapi
<1>1. Encoders.H264 \in Seq(Names)
  OBVIOUS
<1>2. Encoders.H265 \in Seq(Names)
  OBVIOUS
<1>3. Encoders.MPEG4 \in Seq(Names)
  OBVIOUS
<1>4. Encoders.VP8 \in Seq(Names)
  OBVIOUS
<1>5. Encoders.VP9 \in Seq(Names)
  OBVIOUS
<1>6. Encoders.AV1 \in Seq(Names)
  OBVIOUS
<1> QED
  BY <1>1, <1>2, <1>3, <1>4, <1>5, <1>6

\* No name is taken for the lack of an encoder.
LEMMA NoneIsNoName == None \notin Names
BY DEF None, Names, Software, Vaapi

\* Steps of the constructor.
LEMMA ConstructorStep ==
    ASSUME IInv, SkipCandidate \/ TryCandidate \/ NoCandidateLeft
    PROVE  IInv'
<1> USE DEF chooseVars, frameVars, packetVars
<1>1. CASE SkipCandidate
  <2>1. Tail(todo) \in Seq(Names)
    BY <1>1 DEF SkipCandidate, IInv, TypeOK
  <2> QED
    BY <1>1, <2>1 DEF SkipCandidate, IInv, TypeOK, NothingYet, DeviceFitsEncoder, TimesStayClose,
                      ImagesFollow
<1>2. CASE TryCandidate
  <2>1. PICK works \in BOOLEAN : SetupEncoder(works) /\ phase' = IF works THEN "ready" ELSE "choosing"
    BY <1>2 DEF TryCandidate
  <2>2. /\ phase = "choosing" /\ todo # << >> /\ todo' = Tail(todo)
        /\ UNCHANGED <<codec, useHw, size, converter, lastFormat, firstStamp, lastPts, highest,
                       packetVars>>
    BY <1>2 DEF TryCandidate, MayTry
  <2>3. Tail(todo) \in Seq(Names) /\ Candidate # None
    BY <2>2, NoneIsNoName DEF IInv, TypeOK, Candidate
  <2>4. vaapi' = (Candidate \in Vaapi) /\ ctx' = (IF works THEN Candidate ELSE None)
        /\ device' = (works /\ vaapi') /\ pool' = FALSE
    BY <2>1 DEF SetupEncoder, IsVaapi
  <2>5. TypeOK'
    <3>1. vaapi' \in BOOLEAN
      BY <2>4
    <3>2. device' \in BOOLEAN
      BY <2>4, Zenon
    <3> QED
      BY <2>1, <2>2, <2>3, <2>4, <3>1, <3>2 DEF IInv, TypeOK
  <2>6. DeviceFitsEncoder'
    <3> SUFFICES ASSUME works
                 PROVE  /\ ctx' # None /\ (vaapi' <=> ctx' \in Vaapi) /\ (device' <=> vaapi')
                        /\ (pool' <=> vaapi' /\ phase' = "encoding") /\ converter' = lastFormat'
      BY <2>1 DEF DeviceFitsEncoder
    <3>1. phase' = "ready" /\ converter' = lastFormat'
      BY <2>1, <2>2 DEF IInv, NothingYet
    <3> QED
      BY <2>3, <2>4, <3>1
  <2> QED
    BY <2>1, <2>2, <2>5, <2>6 DEF IInv, NothingYet, TimesStayClose, ImagesFollow
<1>3. CASE NoCandidateLeft
  BY <1>3 DEF NoCandidateLeft, IInv, TypeOK, NothingYet, DeviceFitsEncoder, TimesStayClose,
              ImagesFollow
<1> QED
  BY <1>1, <1>2, <1>3

\* An image that is encoded goes behind those inside the encoder, and the
\* oldest of them come out.
LEMMA EncodeKeepsOrder ==
    ASSUME TypeOK, ImagesFollow, NEW returned \in 0 .. Len(inside) + 1, Encode(returned)
    PROVE  ImagesFollow' /\ inside' \in Seq(Nat) /\ packets' \in Seq(Nat)
<1> DEFINE q == Append(inside, images + 1)
           in == SubSeq(q, returned + 1, Len(inside) + 1)
           done == SubSeq(q, 1, returned)
<1>1. q \in Seq(Nat) /\ Len(q) = Len(inside) + 1 /\ Len(inside) \in Nat /\ Len(packets) \in Nat
  BY AppendProperties DEF TypeOK
<1>2. \A i \in 1 .. Len(q) : q[i] \in Nat /\ q[i] = handed + Len(packets) + i
  <2>1. \A i \in 1 .. Len(inside) : q[i] = inside[i]
    BY AppendProperties DEF TypeOK
  <2>2. q[Len(inside) + 1] = images + 1
    BY AppendProperties DEF TypeOK
  <2> HIDE DEF q
  <2> QED
    <3> SUFFICES ASSUME NEW i \in 1 .. Len(q)
                 PROVE  q[i] \in Nat /\ q[i] = handed + Len(packets) + i
      OBVIOUS
    <3>1. CASE i = Len(inside) + 1
      <4>1. handed + Len(packets) + Len(inside) = images /\ images + 1 \in Nat /\ handed \in Nat
        BY DEF TypeOK, ImagesFollow
      <4> QED
        BY <1>1, <2>2, <3>1, <4>1
    <3>2. CASE i # Len(inside) + 1
      <4>1. i \in 1 .. Len(inside)
        BY <1>1, <3>2
      <4>2. q[i] = handed + Len(packets) + i
        BY <2>1, <4>1 DEF ImagesFollow
      <4> QED
        BY <1>1, <4>1, <4>2 DEF TypeOK
    <3> QED
      BY <3>1, <3>2
<1>3. /\ in \in Seq(Nat) /\ Len(in) = Len(inside) + 1 - returned
      /\ \A i \in 1 .. Len(in) : in[i] = handed + Len(packets) + returned + i
  <2>1. \A i \in returned + 1 .. Len(inside) + 1 : q[i] \in Nat
    BY <1>1, <1>2
  <2>2. /\ in \in Seq(Nat) /\ Len(in) = Len(inside) + 1 - returned
        /\ \A i \in 1 .. Len(inside) + 1 - returned : in[i] = q[returned + i]
    <3> HIDE DEF q
    <3>1. returned + 1 \in Int /\ Len(inside) + 1 \in Int /\ returned + 1 <= Len(inside) + 2
      BY <1>1
    <3>2. /\ in \in Seq(Nat)
          /\ Len(in) = IF returned + 1 <= Len(inside) + 1
                         THEN Len(inside) + 1 - (returned + 1) + 1 ELSE 0
          /\ \A i \in 1 .. Len(inside) + 1 - (returned + 1) + 1 : in[i] = q[returned + 1 + i - 1]
      BY <2>1, <3>1, SubSeqProperties
    <3> HIDE DEF in
    <3>3. Len(in) = Len(inside) + 1 - returned
      BY <1>1, <3>2
    <3>4. Len(inside) + 1 - (returned + 1) + 1 = Len(inside) + 1 - returned
      BY <1>1
    <3>5. ASSUME NEW i \in 1 .. Len(inside) + 1 - returned PROVE in[i] = q[returned + i]
      <4>1. returned + 1 + i - 1 = returned + i
        BY <1>1
      <4> QED
        BY <3>2, <3>4, <4>1
    <3> QED
      BY <3>2, <3>3, <3>5
  <2> HIDE DEF q, in
  <2>3. ASSUME NEW i \in 1 .. Len(in)
        PROVE  in[i] = handed + Len(packets) + returned + i
    <3>1. in[i] = q[returned + i] /\ returned + i \in 1 .. Len(q)
      <4>1. Len(in) = Len(inside) + 1 - returned /\ in[i] = q[returned + i]
        BY <2>2
      <4>2. i \in 1 .. Len(inside) + 1 - returned
        BY <4>1
      <4> QED
        BY <1>1, <4>1, <4>2
    <3>2. in[i] = handed + Len(packets) + (returned + i)
      BY <1>2, <3>1
    <3> QED
      BY <1>1, <3>2 DEF TypeOK
  <2> QED
    BY <2>2, <2>3
<1>4. /\ done \in Seq(Nat) /\ Len(done) = returned
      /\ \A i \in 1 .. returned : done[i] = handed + Len(packets) + i
  <2>1. \A i \in 1 .. returned : q[i] \in Nat
    BY <1>1, <1>2
  <2>2. /\ done \in Seq(Nat) /\ Len(done) = returned
        /\ \A i \in 1 .. returned : done[i] = q[i]
    BY <1>1, <2>1, SubSeqProperties
  <2> HIDE DEF q, done
  <2>3. \A i \in 1 .. returned : q[i] = handed + Len(packets) + i
    BY <1>1, <1>2
  <2> QED
    BY <2>2, <2>3
<1>5. /\ packets \o done \in Seq(Nat) /\ Len(packets \o done) = Len(packets) + returned
      /\ \A i \in 1 .. Len(packets) + returned : (packets \o done)[i] = handed + i
  <2> HIDE DEF done
  <2>1. /\ packets \o done \in Seq(Nat) /\ Len(packets \o done) = Len(packets) + Len(done)
        /\ \A i \in 1 .. Len(packets) + Len(done) : (packets \o done)[i] =
               IF i <= Len(packets) THEN packets[i] ELSE done[i - Len(packets)]
    BY <1>4, ConcatProperties DEF TypeOK
  <2>2. ASSUME NEW i \in 1 .. Len(packets) + returned
        PROVE  (packets \o done)[i] = handed + i
    <3>1. CASE i <= Len(packets)
      BY <1>1, <1>4, <2>1, <3>1 DEF ImagesFollow
    <3>2. CASE ~(i <= Len(packets))
      <4>1. i - Len(packets) \in 1 .. returned
        BY <1>1, <3>2
      <4>2. (packets \o done)[i] = handed + Len(packets) + (i - Len(packets))
        BY <1>1, <1>4, <2>1, <3>2, <4>1
      <4> QED
        BY <1>1, <4>2 DEF TypeOK
    <3> QED
      BY <3>1, <3>2
  <2> QED
    BY <1>4, <2>1, <2>2
<1>6. inside' = in /\ packets' = packets \o done /\ images' = images + 1 /\ handed' = handed
  BY DEF Encode
<1> HIDE DEF q, in, done
<1>7. Len(packets') = Len(packets) + returned /\ Len(inside') = Len(inside) + 1 - returned
  BY <1>3, <1>5, <1>6
<1>8. handed + Len(packets') + Len(inside') = images + 1
  <2>1. handed + Len(packets) + Len(inside) = images /\ handed \in Nat
    BY DEF TypeOK, ImagesFollow
  <2> QED
    BY <1>1, <1>7, <2>1
<1>9. \A i \in 1 .. Len(inside') : inside'[i] = handed + Len(packets') + i
  <2>1. \A i \in 1 .. Len(in) : in[i] = handed + (Len(packets) + returned) + i
    BY <1>1, <1>3 DEF TypeOK
  <2> QED
    BY <1>3, <1>6, <1>7, <2>1
<1> QED
  BY <1>3, <1>5, <1>6, <1>7, <1>8, <1>9 DEF ImagesFollow

\* An image that is encoded.
LEMMA EncodeStep ==
    ASSUME IInv, NEW s \in Sizes, NEW format \in Formats, NEW stamp \in Stamps,
           EncodeVideo(s, format, stamp)
    PROVE  IInv' /\ lastPts' > lastPts /\ handed' = handed
<1> DEFINE first == IF phase = "ready" THEN stamp ELSE firstStamp
           latest == IF phase = "ready" \/ stamp > highest THEN stamp ELSE highest
<1>1. /\ phase \in {"ready", "encoding"} /\ phase' = "encoding" /\ format \in Convertible
      /\ firstStamp' = first /\ highest' = latest /\ lastPts' = Pts(stamp - first, lastPts)
      /\ converter' = Converter(converter, IF phase = "ready" THEN None ELSE lastFormat, format)
      /\ lastFormat' = format /\ pool' = vaapi /\ UNCHANGED chooseVars
  BY DEF EncodeVideo
<1>2. PICK returned \in 0 .. Len(inside) + 1 : Encode(returned)
  BY DEF EncodeVideo
<1>3. images' = images + 1 /\ handed' = handed /\ draining' \in BOOLEAN
  BY <1>2 DEF Encode
<1>4. ImagesFollow' /\ inside' \in Seq(Nat) /\ packets' \in Seq(Nat)
  BY <1>2, EncodeKeepsOrder DEF IInv
<1>5. /\ stamp \in Nat /\ first \in Nat /\ latest \in Nat
      /\ stamp - first \in Int /\ latest - first \in Int /\ stamp - first <= latest - first
  BY StampsAssumption DEF IInv, TypeOK
<1>6. lastPts < Ticks(latest - first) + images
  <2>1. CASE phase = "ready"
    <3>1. latest - first = 0
      BY <1>5, <2>1
    <3>2. Ticks(latest - first) = 0
      BY <3>1, TicksKeepOrder
    <3> QED
      BY <2>1, <3>2 DEF IInv, NothingYet
  <2>2. CASE phase # "ready"
    <3>1. highest - firstStamp \in Int /\ highest - firstStamp <= latest - first
      BY <1>5, <2>2 DEF IInv, TypeOK
    <3> HIDE DEF first, latest
    <3>2. Ticks(highest - firstStamp) <= Ticks(latest - first) /\ Ticks(latest - first) \in Int
          /\ Ticks(highest - firstStamp) \in Int
      BY <1>5, <3>1, TicksKeepOrder
    <3> QED
      BY <3>2 DEF IInv, TypeOK, TimesStayClose
  <2> QED
    BY <2>1, <2>2
<1>7. lastPts' \in Int /\ lastPts' > lastPts /\ lastPts' < Ticks(latest - first) + images + 1
  <2> HIDE DEF first, latest
  <2> QED
    BY <1>1, <1>5, <1>6, PtsAdvances DEF IInv, TypeOK
<1>8. TypeOK' /\ NothingYet' /\ TimesStayClose'
  <2>1. TypeOK'
    BY <1>1, <1>3, <1>4, <1>5, <1>7 DEF IInv, TypeOK, chooseVars
  <2> HIDE DEF first, latest
  <2>2. Ticks(latest - first) \in Int
    BY <1>5, TicksKeepOrder
  <2> QED
    BY <1>1, <1>3, <1>7, <2>1, <2>2 DEF IInv, TypeOK, NothingYet, TimesStayClose
<1>9. DeviceFitsEncoder'
  <2>1. converter' = format
    BY <1>1, FormatsAssumption DEF Converter, IInv, DeviceFitsEncoder
  <2> QED
    BY <1>1, <2>1 DEF IInv, DeviceFitsEncoder, chooseVars
<1> QED
  BY <1>3, <1>4, <1>7, <1>8, <1>9 DEF IInv

\* A call of nextPacket().
LEMMA NextPacketStep ==
    ASSUME IInv, NextPacket
    PROVE  IInv' /\ images' = images /\ handed' \in {handed, handed + 1}
<1> USE DEF chooseVars, frameVars
<1>1. CASE packets = << >>
  BY <1>1 DEF NextPacket, IInv, TypeOK, NothingYet, DeviceFitsEncoder, TimesStayClose, ImagesFollow
<1>2. CASE packets # << >>
  <2>1. /\ Tail(packets) \in Seq(Nat) /\ Len(packets) \in Nat \ {0}
        /\ Len(Tail(packets)) = Len(packets) - 1 /\ Head(packets) = packets[1]
        /\ \A i \in 1 .. Len(packets) - 1 : Tail(packets)[i] = packets[i + 1]
    BY <1>2, HeadTailProperties DEF IInv, TypeOK
  <2>2. packets' = Tail(packets) /\ handed' = Head(packets)
    BY <1>2 DEF NextPacket
  <2>3. Head(packets) = handed + 1
    BY <2>1 DEF IInv, ImagesFollow
  <2>4. UNCHANGED <<chooseVars, phase, frameVars, inside, images, draining>>
    BY <1>2 DEF NextPacket
  <2>5. ImagesFollow'
    <3>1. handed' + Len(packets') + Len(inside') = images'
      BY <2>1, <2>2, <2>3, <2>4 DEF IInv, TypeOK, ImagesFollow
    <3>2. \A i \in 1 .. Len(packets') : packets'[i] = handed' + i
      BY <2>1, <2>2, <2>3, <2>4 DEF IInv, TypeOK, ImagesFollow
    <3>3. \A i \in 1 .. Len(inside') : inside'[i] = handed' + Len(packets') + i
      BY <2>1, <2>2, <2>3, <2>4 DEF IInv, TypeOK, ImagesFollow
    <3> QED
      BY <3>1, <3>2, <3>3 DEF ImagesFollow
  <2> QED
    BY <2>1, <2>2, <2>3, <2>4, <2>5 DEF IInv, TypeOK, NothingYet, DeviceFitsEncoder, TimesStayClose
<1> QED
  BY <1>1, <1>2

-----------------------------------------------------------------------------

\* IInv is inductive, and the steps keep the order of images.
LEMMA EncoderStep ==
    ASSUME IInv, [Next]_vars
    PROVE  /\ IInv'
           /\ images' # images => lastPts' > lastPts
           /\ handed' \in {handed, handed + 1}
<1>1. CASE SkipCandidate \/ TryCandidate \/ NoCandidateLeft
  <2>1. UNCHANGED packetVars
    BY <1>1 DEF SkipCandidate, TryCandidate, NoCandidateLeft
  <2> QED
    BY <1>1, <2>1, ConstructorStep DEF packetVars
<1>2. CASE \E s \in Sizes, f \in Formats, t \in Stamps : EncodeVideo(s, f, t)
  BY <1>2, EncodeStep
<1>3. CASE EncodeVideoThrows \/ UNCHANGED vars
  <2>1. UNCHANGED <<chooseVars, frameVars, packetVars>> /\ phase' \in {phase, "thrown"}
    BY <1>3 DEF EncodeVideoThrows, vars
  <2>2. TypeOK'
    BY <2>1 DEF chooseVars, frameVars, packetVars, IInv, TypeOK
  <2>3. NothingYet'
    BY <2>1 DEF frameVars, packetVars, IInv, NothingYet
  <2>4. DeviceFitsEncoder'
    BY <2>1 DEF chooseVars, frameVars, IInv, DeviceFitsEncoder
  <2>5. TimesStayClose'
    BY <2>1 DEF frameVars, packetVars, IInv, TimesStayClose
  <2>6. ImagesFollow'
    BY <2>1 DEF packetVars, IInv, ImagesFollow
  <2> QED
    BY <2>1, <2>2, <2>3, <2>4, <2>5, <2>6 DEF packetVars, IInv, TypeOK
<1>4. CASE NextPacket
  BY <1>4, NextPacketStep
<1> QED
  BY <1>1, <1>2, <1>3, <1>4 DEF Next

\* IInv is an invariant.
THEOREM Invariance == Spec => []IInv
<1>1. Init => IInv
  <2> SUFFICES ASSUME Init PROVE IInv
    OBVIOUS
  <2>1. TypeOK
    <3>1. todo \in Seq(Names)
      BY CandidatesAreNames DEF Init
    <3>2. inside \in Seq(Nat) /\ packets \in Seq(Nat)
      BY DEF Init
    <3>3. -1 \in Int
      OBVIOUS
    <3> QED
      BY <3>1, <3>2, <3>3 DEF Init, TypeOK
  <2>2. TimesStayClose
    BY TicksKeepOrder DEF Init, TimesStayClose
  <2> QED
    BY <2>1, <2>2 DEF Init, IInv, NothingYet, DeviceFitsEncoder, ImagesFollow
<1> QED
  BY <1>1, EncoderStep, PTL DEF Spec

\* Device, frame pool and converter are those of the encoder in use.
THEOREM RightDevice == Spec => []DeviceFitsEncoder
<1>1. IInv => DeviceFitsEncoder
  BY DEF IInv
<1> QED
  BY <1>1, Invariance, PTL

\* Images keep their order, and their presentation times stay close to their
\* stamps, whatever the stamps are.
THEOREM Order == Spec => ImagesInOrder
<1>1. IInv /\ [Next]_vars =>
        [/\ images' # images =>
              /\ lastPts' > lastPts
              /\ lastPts' < Ticks(highest' - firstStamp') + images'
         /\ handed' \in {handed, handed + 1}]_vars
  BY EncoderStep DEF IInv, TimesStayClose
<1> QED
  BY <1>1, Invariance, PTL DEF Spec, ImagesInOrder

-----------------------------------------------------------------------------
(* The packets of an encoder, split into units.                            *)

\* The types of the splitter's variables.
SplitTypeOK ==
    /\ data \in Seq(Octets) /\ units \in Seq(Units) /\ codes \in Seq([at : Nat, size : {3, 4}])
    /\ stage \in {"writing", "scanning", "done"}
    /\ start \in Nat /\ pos \in Nat /\ out \in Seq([from : Nat, length : Nat])

\* The scan stays behind the unit it is in and inside the input.
ScanInside ==
    /\ stage = "writing" => start = 0 /\ pos = 0
    /\ start = 0 => out = << >>
    /\ stage # "writing" => Len(data) >= 4 /\ start <= pos /\ pos < Len(data)

\* The start code of a unit of a well-formed input.
CodeOf(k) == IF codes[k].size = 4 THEN LongCode ELSE ShortCode

\* The input is what the encoder wrote: start codes and units, in turn.
Written ==
    /\ Len(codes) = Len(units)
    /\ stage = "writing" /\ units = << >> => data = << >>
    /\ units # << >> => codes[1].at = 0 /\ codes[1].size = 4
    /\ \A k \in 1 .. Len(units) :
         /\ Starts(codes[k].at, CodeOf(k))
         /\ \A i \in 1 .. Len(units[k]) : data[Begin(k) + i] = units[k][i]
         /\ UnitEnd(k) <= Len(data)
         /\ UnitEnd(k) = IF k = Len(units) THEN Len(data) ELSE codes[k + 1].at
         /\ \A n \in k + 1 .. Len(units) : UnitEnd(k) <= codes[n].at
    /\ units # << >> =>
         \A i \in 0 .. Len(data) - 1 : \E k \in 1 .. Len(units) : codes[k].at <= i /\ i < UnitEnd(k)

\* Between the unit's start and the scan's position nothing was missed.
Scanned == start # 0 => \A i \in start .. pos - 1 : PassedOver(i)

\* Neither was it in the units found so far.
OutPassed ==
    \A k \in 1 .. Len(out) : \A i \in out[k].from .. PieceEnd(k) - 4 : PassedOver(i)

\* The scan is behind the start code that follows the last unit found.
Follows ==
    out # << >> /\ stage # "done" =>
      \E code \in {ShortCode, LongCode} :
        Starts(PieceEnd(Len(out)), code) /\ start = PieceEnd(Len(out)) + Len(code)

\* A well-formed input: the scan is behind a start code that was written, what
\* was found lies between two of them, and no long one lacks its piece.
InStep ==
    units # << >> /\ stage # "writing" =>
      /\ start = 0 => stage = "scanning" /\ pos = 0
      /\ start # 0 => \E k \in 1 .. Len(units) : start = Begin(k)
      /\ \A j \in 1 .. Len(out) :
           /\ \E k \in 1 .. Len(units) : out[j].from = Begin(k)
           /\ PieceEnd(j) = Len(data) \/ \E k \in 1 .. Len(units) : PieceEnd(j) = codes[k].at
      /\ \A k \in 1 .. Len(units) :
           codes[k].size = 4 /\ (stage = "done" \/ Begin(k) < start) =>
             \E j \in 1 .. Len(out) : out[j].from = Begin(k)

SplitIInv ==
    SplitTypeOK /\ ScanInside /\ Written /\ Scanned /\ OutPassed /\ NothingLost /\ Follows /\ InStep

-----------------------------------------------------------------------------
\* The octets of the two start codes.
LEMMA CodesSpelledOut ==
  /\ Len(ShortCode) = 3 /\ Len(LongCode) = 4
  /\ \A i \in Int : Starts(i, ShortCode) <=> At(i) = 0 /\ At(i + 1) = 0 /\ At(i + 2) = 1
  /\ \A i \in Int : Starts(i, LongCode)
                      <=> At(i) = 0 /\ At(i + 1) = 0 /\ At(i + 2) = 0 /\ At(i + 3) = 1
<1>1. Len(ShortCode) = 3 /\ ShortCode[1] = 0 /\ ShortCode[2] = 0 /\ ShortCode[3] = 1
  BY DEF ShortCode
<1>2. Len(LongCode) = 4 /\ LongCode[1] = 0 /\ LongCode[2] = 0 /\ LongCode[3] = 0 /\ LongCode[4] = 1
  BY DEF LongCode
<1>3. ASSUME NEW i \in Int
      PROVE Starts(i, ShortCode) <=> At(i) = 0 /\ At(i + 1) = 0 /\ At(i + 2) = 1
  <2>1. Starts(i, ShortCode) <=> \A k \in {1, 2, 3} : At(i + k - 1) = ShortCode[k]
    <3>1. 1 .. 3 = {1, 2, 3}
      OBVIOUS
    <3> QED
      BY <1>1, <3>1 DEF Starts
  <2>2. i + 1 - 1 = i /\ i + 2 - 1 = i + 1 /\ i + 3 - 1 = i + 2
    OBVIOUS
  <2> QED
    BY <1>1, <2>1, <2>2
<1>4. ASSUME NEW i \in Int
      PROVE Starts(i, LongCode)
              <=> At(i) = 0 /\ At(i + 1) = 0 /\ At(i + 2) = 0 /\ At(i + 3) = 1
  <2>1. Starts(i, LongCode) <=> \A k \in {1, 2, 3, 4} : At(i + k - 1) = LongCode[k]
    <3>1. 1 .. 4 = {1, 2, 3, 4}
      OBVIOUS
    <3> QED
      BY <1>2, <3>1 DEF Starts
  <2>2. i + 1 - 1 = i /\ i + 2 - 1 = i + 1 /\ i + 3 - 1 = i + 2 /\ i + 4 - 1 = i + 3
    OBVIOUS
  <2> QED
    BY <1>2, <2>1, <2>2
<1> QED
  BY <1>1, <1>2, <1>3, <1>4

\* Where the scan finds no start code it passes over none that it could find.
LEMMA SkipMissesNothing ==
  ASSUME pos \in Nat, CodeLength = 0
  PROVE  /\ Skip \in 1 .. 4
         /\ \A i \in pos .. pos + Skip - 1 : PassedOver(i)
<1>1. ~Starts(pos, ShortCode) /\ ~Starts(pos, LongCode)
  BY DEF CodeLength
<1>2. ~(At(pos) = 0 /\ At(pos + 1) = 0 /\ At(pos + 2) = 1)
  BY <1>1, CodesSpelledOut
<1>3. ~(At(pos) = 0 /\ At(pos + 1) = 0 /\ At(pos + 2) = 0 /\ At(pos + 3) = 1)
  BY <1>1, CodesSpelledOut
<1>4. Skip \in 1 .. 4
  BY DEF Skip
<1>5. ASSUME NEW i \in pos .. pos + Skip - 1 PROVE PassedOver(i)
  <2>1. i \in Int /\ i \in {pos, pos + 1, pos + 2, pos + 3}
    BY <1>4
  <2>2. CASE i = pos
    BY <1>1, <2>2 DEF PassedOver
  <2>3. CASE i = pos + 1
    <3>1. At(i) = At(pos + 1) /\ At(i + 1) = At(pos + 2) /\ At(i + 2) = At(pos + 3)
          /\ At(i - 1) = At(pos)
      BY <2>3
    <3>2. Skip # 1
      BY <1>4, <2>3
    <3>3. ~(At(pos + 1) = 0 /\ At(pos + 2) = 0 /\ At(pos + 3) = 0)
      BY <3>2 DEF Skip
    <3> QED
      BY <1>3, <2>1, <3>1, <3>3, CodesSpelledOut DEF PassedOver
  <2>4. CASE i = pos + 2
    <3>1. At(i) = At(pos + 2) /\ At(i + 1) = At(pos + 3)
      BY <2>4
    <3>2. Skip \notin {1, 2}
      BY <1>4, <2>4
    <3>3. ~(At(pos + 2) = 0 /\ At(pos + 3) = 0)
      BY <3>2 DEF Skip
    <3> QED
      BY <2>1, <3>1, <3>3, CodesSpelledOut DEF PassedOver
  <2>5. CASE i = pos + 3
    <3>1. Skip = 4
      BY <1>4, <2>5
    <3>2. At(pos + 3) # 0
      BY <3>1 DEF Skip
    <3> QED
      BY <2>1, <2>5, <3>2, CodesSpelledOut DEF PassedOver
  <2> QED
    BY <2>1, <2>2, <2>3, <2>4, <2>5
<1> QED
  BY <1>4, <1>5

\* An entry of a sequence.
LEMMA EntryOf ==
  ASSUME NEW S, NEW s \in Seq(S), NEW i \in 1 .. Len(s)
  PROVE  s[i] \in S
OBVIOUS

\* What a unit is.
LEMMA UnitFacts ==
  ASSUME NEW u \in Units
  PROVE  /\ u \in Seq(Octets) /\ Len(u) \in Nat /\ Len(u) >= 1 /\ u[Len(u)] # 0
         /\ \A i \in 1 .. Len(u) - 2 : ~(u[i] = 0 /\ u[i + 1] = 0 /\ u[i + 2] <= 3)
<1>1. PICK n \in 1 .. MaxPayload : u \in [1 .. n -> Octets]
  BY DEF Units
<1>2. u \in Seq(Octets) /\ Len(u) = n
  BY <1>1, LengthsAssumption
<1> QED
  BY <1>1, <1>2, LengthsAssumption DEF Units

\* No start code begins inside a unit: a unit does not even end in the zero
\* that the next start code could continue.
LEMMA NoCodeInUnit ==
  ASSUME SplitTypeOK, Written, NEW k \in 1 .. Len(units),
         NEW i \in Begin(k) .. UnitEnd(k) - 1
  PROVE  ~Starts(i, ShortCode) /\ ~Starts(i, LongCode)
<1> DEFINE u == units[k]
           first == Begin(k)
           j == i - first + 1
<1>1. u \in Units /\ first \in Nat
  <2>1. k \in 1 .. Len(codes)
    BY DEF Written
  <2>2. codes[k] \in [at : Nat, size : {3, 4}] /\ u \in Units
    BY <2>1, EntryOf, Zenon DEF SplitTypeOK
  <2> QED
    BY <2>2 DEF Begin
<1>2. /\ u \in Seq(Octets) /\ Len(u) \in Nat /\ Len(u) >= 1 /\ u[Len(u)] # 0
      /\ \A m \in 1 .. Len(u) - 2 : ~(u[m] = 0 /\ u[m + 1] = 0 /\ u[m + 2] <= 3)
  BY <1>1, UnitFacts
<1>3. UnitEnd(k) = first + Len(u) /\ first \in Nat /\ i \in first .. UnitEnd(k) - 1
  BY <1>1 DEF UnitEnd
<1>4. \A m \in 1 .. Len(u) : data[first + m] = u[m]
  BY DEF Written
<1> HIDE DEF u, first
<1>5. i \in first .. first + Len(u) - 1
  BY <1>3
<1>6. j \in 1 .. Len(u) /\ j \in Nat /\ i = first + j - 1 /\ first \in Nat
  BY <1>2, <1>3, <1>5
<1> HIDE DEF j
<1>7. At(i) = u[j]
  <2>1. i + 1 = first + j
    BY <1>1, <1>2, <1>6
  <2> QED
    BY <1>6, <1>4, <2>1 DEF At
<1>8. j + 1 <= Len(u) => At(i + 1) = u[j + 1]
  <2> SUFFICES ASSUME j + 1 <= Len(u) PROVE At(i + 1) = u[j + 1]
    OBVIOUS
  <2>1. j + 1 \in 1 .. Len(u)
    BY <1>2, <1>6
  <2>2. (i + 1) + 1 = first + (j + 1)
    BY <1>6
  <2> QED
    BY <1>4, <2>1, <2>2 DEF At
<1>9. j + 2 <= Len(u) => At(i + 2) = u[j + 2]
  <2> SUFFICES ASSUME j + 2 <= Len(u) PROVE At(i + 2) = u[j + 2]
    OBVIOUS
  <2>1. j + 2 \in 1 .. Len(u)
    BY <1>2, <1>6
  <2>2. (i + 2) + 1 = first + (j + 2)
    BY <1>6
  <2> QED
    BY <1>4, <2>1, <2>2 DEF At
<1>10. ~(At(i) = 0 /\ At(i + 1) = 0 /\ At(i + 2) \in {0, 1})
  <2> SUFFICES ASSUME At(i) = 0, At(i + 1) = 0, At(i + 2) \in {0, 1} PROVE FALSE
    OBVIOUS
  <2>1. j # Len(u)
    BY <1>2, <1>7
  <2>2. j + 1 # Len(u)
    BY <1>2, <1>6, <1>8
  <2>3. j \in 1 .. Len(u) - 2 /\ j + 2 <= Len(u) /\ j + 1 <= Len(u)
    BY <1>2, <1>6, <2>1, <2>2
  <2> QED
    BY <1>2, <1>7, <1>8, <1>9, <2>3
<1> QED
  BY <1>6, <1>10, CodesSpelledOut

\* While the input stays, so does what is said of it.
LEMMA SameInput ==
  ASSUME data' = data
  PROVE  /\ \A i, code : Starts(i, code)' <=> Starts(i, code)
         /\ \A i : PassedOver(i)' <=> PassedOver(i)
<1>1. \A i, code : Starts(i, code)' <=> Starts(i, code)
  BY DEF Starts, At
<1>2. \A i : At(i)' = At(i)
  BY DEF At
<1> QED
  BY <1>1, <1>2 DEF PassedOver

-----------------------------------------------------------------------------
(* The encoder.                                                            *)

\* What a sequence of three parts is.
LEMMA ThreeParts ==
  ASSUME NEW S, NEW a \in Seq(S), NEW b \in Seq(S), NEW c \in Seq(S), NEW d, d = a \o b \o c
  PROVE  /\ d \in Seq(S) /\ Len(d) = Len(a) + Len(b) + Len(c)
         /\ \A i \in 1 .. Len(a) : d[i] = a[i]
         /\ \A i \in 1 .. Len(b) : d[Len(a) + i] = b[i]
         /\ \A i \in 1 .. Len(c) : d[Len(a) + Len(b) + i] = c[i]
<1> DEFINE e == a \o b
<1>1. Len(a) \in Nat /\ Len(b) \in Nat /\ Len(c) \in Nat
  OBVIOUS
<1>2. /\ e \in Seq(S) /\ Len(e) = Len(a) + Len(b)
      /\ \A i \in 1 .. Len(a) + Len(b) :
           e[i] = IF i <= Len(a) THEN a[i] ELSE b[i - Len(a)]
  BY ConcatProperties
<1>3. d = e \o c
  OBVIOUS
<1> HIDE DEF e
<1>4. /\ d \in Seq(S) /\ Len(d) = Len(e) + Len(c)
      /\ \A i \in 1 .. Len(e) + Len(c) :
           d[i] = IF i <= Len(e) THEN e[i] ELSE c[i - Len(e)]
  <2>1. /\ e \o c \in Seq(S) /\ Len(e \o c) = Len(e) + Len(c)
        /\ \A i \in 1 .. Len(e) + Len(c) :
             (e \o c)[i] = IF i <= Len(e) THEN e[i] ELSE c[i - Len(e)]
    <3>1. e \in Seq(S)
      BY <1>2
    <3> QED
      BY <3>1, ConcatProperties, Zenon
  <2> QED
    BY <1>3, <2>1, Zenon
<1>5. ASSUME NEW i \in 1 .. Len(a) PROVE d[i] = a[i]
  BY <1>1, <1>2, <1>4
<1>6. ASSUME NEW i \in 1 .. Len(b) PROVE d[Len(a) + i] = b[i]
  BY <1>1, <1>2, <1>4
<1>7. ASSUME NEW i \in 1 .. Len(c) PROVE d[Len(a) + Len(b) + i] = c[i]
  BY <1>1, <1>2, <1>4
<1> QED
  BY <1>1, <1>2, <1>4, <1>5, <1>6, <1>7

\* The two start codes.
LEMMA CodeFacts ==
  ASSUME NEW code \in {ShortCode, LongCode}
  PROVE  /\ code \in Seq(Octets) /\ Len(code) \in {3, 4}
         /\ code = IF Len(code) = 4 THEN LongCode ELSE ShortCode
<1>1. ShortCode \in Seq(Octets) /\ LongCode \in Seq(Octets)
  BY OctetsAssumption DEF ShortCode, LongCode
<1>2. CASE code = ShortCode
  BY <1>1, <1>2, CodesSpelledOut
<1>3. CASE code = LongCode
  BY <1>1, <1>3, CodesSpelledOut
<1> QED
  BY <1>2, <1>3

\* Where a unit lies in the input.
LEMMA UnitBounds ==
  ASSUME SplitTypeOK, Written, NEW k \in 1 .. Len(units)
  PROVE  /\ codes[k].at \in Nat /\ codes[k].size \in {3, 4} /\ Len(units[k]) \in Nat
         /\ Begin(k) = codes[k].at + codes[k].size /\ UnitEnd(k) = Begin(k) + Len(units[k])
         /\ Begin(k) \in Nat /\ UnitEnd(k) \in Nat
         /\ Begin(k) < UnitEnd(k) /\ UnitEnd(k) <= Len(data)
         /\ Starts(codes[k].at, CodeOf(k))
<1> DEFINE c == codes[k].at
           s == codes[k].size
           n == Len(units[k])
<1>1. c \in Nat /\ s \in {3, 4} /\ units[k] \in Units
  <2>1. k \in 1 .. Len(codes)
    BY DEF Written
  <2>2. codes[k] \in [at : Nat, size : {3, 4}] /\ units[k] \in Units
    BY <2>1, EntryOf, Zenon DEF SplitTypeOK
  <2> QED
    BY <2>2
<1>2. n \in Nat /\ n >= 1
  BY <1>1, UnitFacts
<1>3. Begin(k) = c + s /\ UnitEnd(k) = Begin(k) + n
  BY DEF Begin, UnitEnd
<1>4. UnitEnd(k) <= Len(data) /\ Starts(c, CodeOf(k))
  BY DEF Written
<1> HIDE DEF c, s, n
<1>5. Begin(k) \in Nat /\ UnitEnd(k) \in Nat /\ Begin(k) < UnitEnd(k)
  BY <1>1, <1>2, <1>3
<1> QED
  BY <1>1, <1>2, <1>3, <1>4, <1>5 DEF c, s, n

\* A unit written earlier stays where it is.
LEMMA EarlierUnits ==
  ASSUME SplitTypeOK, Written, data' \in Seq(Octets), NEW k \in 1 .. Len(units),
         Len(data) <= Len(data'), \A i \in 1 .. Len(data) : data'[i] = data[i],
         units'[k] = units[k], codes'[k] = codes[k]
  PROVE  /\ Begin(k)' = Begin(k) /\ UnitEnd(k)' = UnitEnd(k)
         /\ Starts(codes[k].at, CodeOf(k))'
         /\ \A i \in 1 .. Len(units'[k]) : data'[Begin(k)' + i] = units'[k][i]
<1>1. Begin(k)' = Begin(k) /\ UnitEnd(k)' = UnitEnd(k) /\ CodeOf(k)' = CodeOf(k)
  BY DEF Begin, UnitEnd, CodeOf
<1> DEFINE c == codes[k].at
           s == codes[k].size
           n == Len(units[k])
           code == CodeOf(k)
<1>2. /\ c \in Nat /\ s \in {3, 4} /\ n \in Nat /\ Begin(k) = c + s /\ UnitEnd(k) = Begin(k) + n
      /\ UnitEnd(k) <= Len(data) /\ Starts(c, code) /\ Len(data) \in Nat
  BY UnitBounds DEF SplitTypeOK
<1>3. Len(code) = s
  BY <1>2, CodesSpelledOut DEF CodeOf
<1>4. \A i \in 1 .. n : data[Begin(k) + i] = units[k][i]
  BY DEF Written
<1> HIDE DEF c, s, n, code
<1>5. ASSUME NEW i \in 1 .. s PROVE data'[c + i - 1 + 1] = code[i]
  <2>1. c + i - 1 + 1 \in 1 .. Len(data)
    BY <1>2
  <2>2. data[c + i - 1 + 1] = code[i]
    BY <1>2, <1>3 DEF Starts, At
  <2> QED
    BY <2>1, <2>2
<1>6. Starts(codes[k].at, CodeOf(k))'
  <2>1. codes'[k].at = c /\ CodeOf(k)' = code
    BY <1>1 DEF c, code
  <2> QED
    BY <1>3, <1>5, <2>1 DEF Starts, At
<1>7. ASSUME NEW i \in 1 .. n PROVE data'[Begin(k) + i] = units[k][i]
  <2>1. Begin(k) + i \in 1 .. Len(data)
    BY <1>2
  <2> QED
    BY <1>4, <2>1
<1> QED
  BY <1>1, <1>6, <1>7 DEF n

\* Another unit is written: the scan has not begun.
LEMMA WriteUnitStep ==
  ASSUME SplitIInv, NEW u \in Units, NEW code \in {ShortCode, LongCode}, WriteUnit(u, code)
  PROVE  SplitIInv'
<1> DEFINE old == Len(units)
           c == Len(code)
           l == Len(data)
           n == Len(u)
<1> USE DEF SplitIInv
<1>0. PICK new \in Nat : new = old + 1
  BY DEF SplitTypeOK
<1>1. u \in Seq(Octets) /\ n \in Nat /\ n >= 1 /\ code \in Seq(Octets) /\ c \in {3, 4}
  BY UnitFacts, CodeFacts
<1>2. /\ stage = "writing" /\ stage' = stage /\ start' = start /\ pos' = pos /\ out' = out
      /\ units' = Append(units, u) /\ codes' = Append(codes, [at |-> l, size |-> c])
      /\ data' = data \o code \o u
      /\ units = << >> => code = LongCode
  BY DEF WriteUnit
<1>3. start = 0 /\ pos = 0 /\ out = << >>
  BY <1>2 DEF ScanInside
<1>4. /\ data \in Seq(Octets) /\ units \in Seq(Units) /\ codes \in Seq([at : Nat, size : {3, 4}])
      /\ Len(codes) = old /\ old \in Nat /\ l \in Nat /\ (units = << >> => l = 0)
  <2>1. (units = << >> => data = << >>) /\ (data = << >> => Len(data) = 0)
    BY <1>2 DEF Written
  <2> QED
    BY <2>1 DEF SplitTypeOK, Written
<1>5. /\ data' \in Seq(Octets) /\ Len(data') = l + c + n
      /\ \A i \in 1 .. l : data'[i] = data[i]
      /\ \A i \in 1 .. c : data'[l + i] = code[i]
      /\ \A i \in 1 .. n : data'[l + c + i] = u[i]
  <2> DEFINE d == data \o code \o u
  <2>1. /\ d \in Seq(Octets) /\ Len(d) = Len(data) + Len(code) + Len(u)
        /\ \A i \in 1 .. Len(data) : d[i] = data[i]
        /\ \A i \in 1 .. Len(code) : d[Len(data) + i] = code[i]
        /\ \A i \in 1 .. Len(u) : d[Len(data) + Len(code) + i] = u[i]
    BY <1>1, <1>4, ThreeParts
  <2>2. data' = d
    BY <1>2
  <2> HIDE DEF d
  <2> QED
    BY <2>1, <2>2
<1>5a. Len(data') \in Nat /\ l <= Len(data')
  <2>1. Len(data') = l + c + n
    BY <1>5
  <2> HIDE DEF l, c, n
  <2> QED
    BY <1>1, <1>4, <2>1
<1>6. /\ units' \in Seq(Units) /\ Len(units') = new /\ units'[new] = u
      /\ codes' \in Seq([at : Nat, size : {3, 4}]) /\ Len(codes') = new
      /\ codes'[new].at = l /\ codes'[new].size = c
      /\ \A k \in 1 .. old : units'[k] = units[k] /\ codes'[k] = codes[k]
  <2> DEFINE entry == [at |-> l, size |-> c]
  <2>1. entry \in [at : Nat, size : {3, 4}] /\ entry.at = l /\ entry.size = c
    BY <1>1, <1>4
  <2>2. codes' = Append(codes, entry)
    BY <1>2
  <2> HIDE DEF entry, l, c
  <2> QED
    BY <1>0, <1>2, <1>4, <2>1, <2>2
<1>7. Begin(new)' = l + c /\ UnitEnd(new)' = Len(data')
  BY <1>1, <1>4, <1>5, <1>6 DEF Begin, UnitEnd
<1>8. SplitTypeOK'
  BY <1>2, <1>5, <1>6 DEF SplitTypeOK
<1>9. ASSUME NEW k \in 1 .. old
      PROVE  /\ Begin(k)' = Begin(k) /\ UnitEnd(k)' = UnitEnd(k)
             /\ Starts(codes[k].at, CodeOf(k))'
             /\ \A i \in 1 .. Len(units'[k]) : data'[Begin(k)' + i] = units'[k][i]
             /\ UnitEnd(k) \in Nat /\ UnitEnd(k) <= l /\ codes'[k] = codes[k] /\ codes[k].at \in Nat
  <2>1. l <= Len(data')
    BY <1>5a
  <2>2. units'[k] = units[k] /\ codes'[k] = codes[k]
    BY <1>6
  <2>3. UnitEnd(k) \in Nat /\ UnitEnd(k) <= l /\ codes[k].at \in Nat
    BY UnitBounds
  <2> QED
    BY <1>5, <2>1, <2>2, <2>3, EarlierUnits
<1>10. Starts(codes[new].at, CodeOf(new))'
  <2>1. CodeOf(new)' = code
    BY <1>6, CodeFacts DEF CodeOf
  <2>2. ASSUME NEW i \in 1 .. c PROVE data'[l + i - 1 + 1] = code[i]
    <3>1. l + i - 1 + 1 = l + i
      BY <1>1, <1>4
    <3> QED
      BY <1>5, <3>1
  <2> QED
    BY <1>6, <2>1, <2>2 DEF Starts, At
<1> HIDE DEF l, c, n
<1>11. Written'
  <2>1. units' # << >> /\ codes'[1].at = 0 /\ codes'[1].size = 4
    <3>1. units' # << >>
      BY <1>0, <1>4, <1>6
    <3>2. CASE units = << >>
      <4>1. old = 0
        BY <3>2
      <4> QED
        BY <1>2, <1>4, <1>6, <3>1, <3>2, <4>1, CodesSpelledOut DEF c
    <3>3. CASE units # << >>
      <4>1. 1 \in 1 .. old
        BY <1>4, <3>3
      <4> QED
        BY <1>6, <3>1, <3>3, <4>1 DEF Written
    <3> QED
      BY <3>2, <3>3
  <2>2. ASSUME NEW k \in 1 .. Len(units')
        PROVE  /\ Starts(codes[k].at, CodeOf(k))'
               /\ \A i \in 1 .. Len(units'[k]) : data'[Begin(k)' + i] = units'[k][i]
               /\ UnitEnd(k)' <= Len(data')
               /\ UnitEnd(k)' = IF k = Len(units') THEN Len(data') ELSE codes'[k + 1].at
               /\ \A m \in k + 1 .. Len(units') : UnitEnd(k)' <= codes'[m].at
    <3>1. CASE k = new
      <4>1. \A i \in 1 .. n : data'[l + c + i] = u[i]
        BY <1>5
      <4>2. UnitEnd(k)' = Len(data') /\ Begin(k)' = l + c /\ Len(units'[k]) = n /\ units'[k] = u
        BY <1>6, <1>7, <3>1 DEF n
      <4>3. k + 1 .. Len(units') = {} /\ Len(data') \in Nat
        BY <1>1, <1>4, <1>5, <1>6, <3>1
      <4> QED
        BY <1>6, <1>10, <3>1, <4>1, <4>2, <4>3
    <3>2. CASE k # new
      <4>1. k \in 1 .. old
        BY <1>0, <1>4, <1>6, <3>2
      <4>2. /\ UnitEnd(k) = IF k = old THEN l ELSE codes[k + 1].at
            /\ \A m \in k + 1 .. old : UnitEnd(k) <= codes[m].at
        BY <4>1 DEF Written, l
      <4>3. UnitEnd(k)' <= Len(data')
        BY <1>4, <1>5a, <1>9, <4>1
      <4>4. UnitEnd(k) = codes'[k + 1].at
        <5>1. CASE k = old
          BY <1>0, <1>6, <4>2, <5>1
        <5>2. CASE k # old
          <6>1. k + 1 \in 1 .. old
            BY <1>4, <4>1, <5>2
          <6> QED
            BY <1>6, <4>2, <5>2, <6>1
        <5> QED
          BY <5>1, <5>2
      <4>5. ASSUME NEW m \in k + 1 .. new PROVE UnitEnd(k) <= codes'[m].at
        <5>1. CASE m = new
          BY <1>6, <1>9, <4>1, <5>1
        <5>2. CASE m # new
          <6>1. m \in k + 1 .. old /\ m \in 1 .. old
            BY <1>0, <1>4, <4>1, <5>2
          <6> QED
            BY <1>6, <4>2, <6>1
        <5> QED
          BY <5>1, <5>2
      <4> QED
        BY <1>6, <1>9, <3>2, <4>1, <4>3, <4>4, <4>5
    <3> QED
      BY <3>1, <3>2
  <2>3. ASSUME NEW i \in 0 .. Len(data') - 1
        PROVE  \E k \in 1 .. Len(units') : codes'[k].at <= i /\ i < UnitEnd(k)'
    <3>1. CASE i < l
      <4>1. i \in 0 .. l - 1 /\ units # << >>
        BY <1>4, <3>1
      <4>2. PICK k \in 1 .. old : codes[k].at <= i /\ i < UnitEnd(k)
        BY <4>1 DEF Written, l
      <4>3. k \in 1 .. Len(units')
        BY <1>0, <1>4, <1>6
      <4> QED
        BY <1>9, <4>2, <4>3
    <3>2. CASE ~(i < l)
      <4>1. new \in 1 .. Len(units') /\ codes'[new].at <= i /\ i < UnitEnd(new)'
        BY <1>0, <1>1, <1>4, <1>5, <1>6, <1>7, <3>2
      <4> QED
        BY <4>1
    <3> QED
      BY <3>1, <3>2
  <2> QED
    BY <1>6, <2>1, <2>2, <2>3 DEF Written
<1>12. ScanInside' /\ Scanned' /\ OutPassed' /\ NothingLost' /\ Follows' /\ InStep'
  <2>1. stage' = "writing" /\ start' = 0 /\ pos' = 0 /\ out' = << >> /\ Len(out') = 0
    BY <1>2, <1>3
  <2>2. 1 .. Len(out') = {}
    BY <2>1
  <2>3. OutPassed' /\ NothingLost'
    BY <2>2 DEF OutPassed, NothingLost
  <2> QED
    BY <2>1, <2>3 DEF ScanInside, Scanned, Follows, InStep
<1> QED
  BY <1>8, <1>11, <1>12

\* The first unit of a well-formed input.
LEMMA FirstUnit ==
  ASSUME SplitTypeOK, Written, units # << >>
  PROVE  /\ 1 \in 1 .. Len(units) /\ codes[1].at = 0 /\ codes[1].size = 4 /\ Begin(1) = 4
         /\ Starts(0, LongCode) /\ 4 < Len(data)
<1>1. 1 \in 1 .. Len(units) /\ codes[1].at = 0 /\ codes[1].size = 4 /\ Len(data) \in Nat
  BY DEF SplitTypeOK, Written
<1>2. /\ UnitEnd(1) \in Nat /\ Begin(1) < UnitEnd(1) /\ UnitEnd(1) <= Len(data)
      /\ Begin(1) = codes[1].at + codes[1].size /\ Starts(codes[1].at, CodeOf(1))
  BY <1>1, UnitBounds
<1> QED
  BY <1>1, <1>2 DEF CodeOf

\* The packet is long enough for the scan to begin.
LEMMA ReceivePacketStep ==
  ASSUME SplitIInv, ReceivePacket
  PROVE  SplitIInv'
<1> USE DEF SplitIInv
<1>1. /\ stage = "writing" /\ units # << >> /\ stage' = "scanning"
      /\ units' = units /\ codes' = codes /\ data' = data
      /\ start' = start /\ pos' = pos /\ out' = out
  BY DEF ReceivePacket, inputVars
<1>2. start = 0 /\ pos = 0 /\ out = << >>
  BY <1>1 DEF ScanInside
<1>3. Len(data) >= 4 /\ Len(data) \in Nat
  BY <1>1, FirstUnit DEF SplitTypeOK
<1>4. Written'
  BY <1>1, SameInput DEF Written, Begin, UnitEnd, CodeOf
<1>5. SplitTypeOK'
  BY <1>1 DEF SplitTypeOK
<1>6. start' = 0 /\ pos' = 0 /\ out' = << >> /\ Len(out') = 0 /\ stage' = "scanning"
  BY <1>1, <1>2
<1>7. 1 .. Len(out') = {}
  BY <1>6
<1>8. OutPassed' /\ NothingLost'
  BY <1>7 DEF OutPassed, NothingLost
<1>9. \A k \in 1 .. Len(units) : ~(Begin(k) < 0)
  BY UnitBounds
<1>10. InStep'
  BY <1>1, <1>6, <1>7, <1>9 DEF InStep, Begin
<1> QED
  BY <1>1, <1>3, <1>4, <1>5, <1>6, <1>8, <1>10 DEF ScanInside, Scanned, Follows

-----------------------------------------------------------------------------
(* The scan.                                                               *)

\* A start code that is found is one, and a long code counts in full.
LEMMA CodeFound ==
  ASSUME pos \in Nat
  PROVE  /\ CodeLength \in {0, 3, 4}
         /\ CodeLength # 0 => \E code \in {ShortCode, LongCode} :
                                 Starts(pos, code) /\ Len(code) = CodeLength
         /\ Starts(pos, LongCode) => CodeLength = 4
<1>1. Starts(pos, LongCode) => ~Starts(pos, ShortCode)
  BY CodesSpelledOut
<1> QED
  BY <1>1, CodesSpelledOut DEF CodeLength

\* A start code of a well-formed input was written there, or it is the end of
\* a long one.
LEMMA WrittenCode ==
  ASSUME SplitTypeOK, Written, units # << >>, NEW i \in 0 .. Len(data) - 1,
         Starts(i, ShortCode) \/ Starts(i, LongCode)
  PROVE  \E k \in 1 .. Len(units) :
           i = codes[k].at \/ (i = codes[k].at + 1 /\ codes[k].size = 4)
<1>1. PICK k \in 1 .. Len(units) : codes[k].at <= i /\ i < UnitEnd(k)
  BY DEF Written
<1> DEFINE c == codes[k].at
           s == codes[k].size
<1>2. /\ c \in Nat /\ s \in {3, 4} /\ Begin(k) = c + s /\ UnitEnd(k) \in Nat
      /\ Starts(c, IF s = 4 THEN LongCode ELSE ShortCode)
  BY UnitBounds DEF CodeOf
<1>3. i < Begin(k)
  <2> SUFFICES ASSUME ~(i < Begin(k)) PROVE FALSE
    OBVIOUS
  <2>1. i \in Begin(k) .. UnitEnd(k) - 1
    BY <1>1, <1>2
  <2> QED
    BY <2>1, NoCodeInUnit
<1>4. c <= i
  BY <1>1
<1> HIDE DEF c, s
<1>5. At(i) = 0 /\ At(i + 1) = 0
  BY CodesSpelledOut
<1>6. CASE s = 3
  <2>1. At(c + 2) = 1
    BY <1>2, <1>6, CodesSpelledOut
  <2>2. i = c \/ i + 1 = c + 2 \/ i = c + 2
    BY <1>2, <1>3, <1>4, <1>6
  <2>3. i = c
    BY <1>5, <2>1, <2>2
  <2> QED
    BY <2>3 DEF c
<1>7. CASE s = 4
  <2>1. At(c + 3) = 1
    BY <1>2, <1>7, CodesSpelledOut
  <2>2. i = c \/ i = c + 1 \/ i + 1 = c + 3 \/ i = c + 3
    BY <1>2, <1>3, <1>4, <1>7
  <2>3. i = c \/ i = c + 1
    BY <1>5, <2>1, <2>2
  <2> QED
    BY <1>7, <2>3 DEF c, s
<1> QED
  BY <1>2, <1>6, <1>7

\* The units lie one behind the other.
LEMMA InTurn ==
  ASSUME SplitTypeOK, Written, NEW k \in 1 .. Len(units), NEW n \in 1 .. Len(units),
         Begin(k) < Begin(n)
  PROVE  k < n /\ UnitEnd(k) <= codes[n].at
<1>1. k \in Nat /\ n \in Nat /\ Len(units) \in Nat
  BY DEF SplitTypeOK
<1>2. ASSUME n < k PROVE FALSE
  <2>1. UnitEnd(n) <= codes[k].at
    <3>1. k \in n + 1 .. Len(units)
      BY <1>1, <1>2
    <3> QED
      BY <3>1 DEF Written
  <2>2. /\ codes[k].at \in Nat /\ codes[k].size \in {3, 4} /\ Begin(k) = codes[k].at + codes[k].size
        /\ Begin(n) \in Nat /\ UnitEnd(n) \in Nat /\ Begin(n) < UnitEnd(n)
    BY UnitBounds
  <2>3. codes[k].at < Begin(k)
    BY <2>2
  <2> QED
    BY <2>1, <2>2, <2>3
<1>3. n # k
  BY UnitBounds
<1>4. k < n /\ n \in k + 1 .. Len(units)
  BY <1>1, <1>2, <1>3
<1> QED
  BY <1>4 DEF Written

\* The scan has not passed over a long code ahead of the unit it is in.
LEMMA NoneMissed ==
  ASSUME SplitIInv, stage = "scanning", units # << >>, start # 0,
         NEW n \in 1 .. Len(units), codes[n].size = 4, start < Begin(n)
  PROVE  /\ pos <= codes[n].at /\ codes[n].at + 4 < Len(data)
         /\ Begin(n) = codes[n].at + 4 /\ codes[n].at \in Nat
<1> USE DEF SplitIInv
<1> DEFINE c == codes[n].at
<1>1. PICK k \in 1 .. Len(units) : start = Begin(k)
  BY DEF InStep
<1>2. UnitEnd(k) <= c /\ UnitEnd(k) \in Nat /\ start < UnitEnd(k)
  BY <1>1, InTurn, UnitBounds
<1>3. /\ c \in Nat /\ Begin(n) = c + 4 /\ UnitEnd(n) \in Nat /\ Begin(n) < UnitEnd(n)
      /\ UnitEnd(n) <= Len(data) /\ Starts(c, LongCode)
  BY UnitBounds DEF CodeOf
<1>4. start \in Nat /\ pos \in Nat /\ Len(data) \in Nat
  BY DEF SplitTypeOK
<1> HIDE DEF c
<1>5. c + 4 < Len(data)
  BY <1>3, <1>4
<1>6. pos <= c
  <2> SUFFICES ASSUME c < pos PROVE FALSE
    BY <1>3, <1>4
  <2>1. c \in start .. pos - 1
    BY <1>2, <1>3, <1>4
  <2> QED
    BY <1>3, <1>5, <2>1 DEF Scanned, PassedOver
<1> QED
  BY <1>3, <1>5, <1>6 DEF c

\* While no start code is found, the unit goes on.
LEMMA GoOnStep ==
  ASSUME SplitIInv, GoOn
  PROVE  SplitIInv'
<1> USE DEF SplitIInv
<1>1. /\ stage = "scanning" /\ pos + 4 < Len(data) /\ CodeLength = 0 /\ pos' = pos + Skip
      /\ units' = units /\ codes' = codes /\ data' = data
      /\ stage' = stage /\ start' = start /\ out' = out
  BY DEF GoOn, MayScan, inputVars
<1>2. pos \in Nat /\ start \in Nat /\ Len(data) \in Nat /\ Len(data) >= 4 /\ start <= pos
      /\ (start = 0 => out = << >>)
  BY <1>1 DEF SplitTypeOK, ScanInside
<1>3. Skip \in 1 .. 4 /\ \A i \in pos .. pos + Skip - 1 : PassedOver(i)
  BY <1>1, <1>2, SkipMissesNothing
<1>4. pos' \in Nat /\ start <= pos' /\ pos' < Len(data)
  BY <1>1, <1>2, <1>3
<1>5. SplitTypeOK' /\ ScanInside'
  BY <1>1, <1>2, <1>4 DEF SplitTypeOK, ScanInside
<1>6. Written' /\ OutPassed' /\ NothingLost' /\ Follows'
  BY <1>1, SameInput DEF Written, Begin, UnitEnd, CodeOf, OutPassed, NothingLost, Follows, PieceEnd
<1>7. Scanned'
  <2> SUFFICES ASSUME start # 0, NEW i \in start .. pos' - 1 PROVE PassedOver(i)
    BY <1>1, SameInput DEF Scanned
  <2>1. i \in start .. pos - 1 \/ i \in pos .. pos + Skip - 1
    BY <1>1, <1>2, <1>3
  <2> QED
    BY <1>3, <2>1 DEF Scanned
<1>8. InStep'
  <2>1. CASE units = << >>
    BY <1>1, <2>1 DEF InStep
  <2>2. CASE units # << >>
    <3>1. start # 0
      <4> SUFFICES ASSUME start = 0 PROVE FALSE
        OBVIOUS
      <4>1. pos = 0
        BY <1>1, <2>2 DEF InStep
      <4>2. Starts(pos, LongCode)
        BY <2>2, <4>1, FirstUnit
      <4> QED
        BY <1>1, <1>2, <4>2, CodeFound
    <3> QED
      BY <1>1, <2>2, <3>1 DEF InStep, Begin, PieceEnd
  <2> QED
    BY <2>1, <2>2
<1> QED
  BY <1>5, <1>6, <1>7, <1>8

\* The end of a unit, be it a start code or the end of the input.
LEMMA UnitEnds ==
  ASSUME SplitIInv, stage = "scanning", data' = data, start # 0,
         NEW e \in Nat, pos <= e, e <= Len(data), e = pos \/ pos + 4 >= Len(data),
         out' = Append(out, [from |-> start, length |-> e - start]),
         stage' = "done" => e = Len(data)
  PROVE  /\ out' \in Seq([from : Nat, length : Nat]) /\ Len(out') = Len(out) + 1
         /\ \A k \in 1 .. Len(out) : out'[k] = out[k] /\ PieceEnd(k)' = PieceEnd(k)
         /\ out'[Len(out')].from = start /\ PieceEnd(Len(out))' = e
         /\ OutPassed' /\ NothingLost'
<1> USE DEF SplitIInv
<1> DEFINE piece == [from |-> start, length |-> e - start]
           m == Len(out) + 1
<1>1. /\ start \in Nat /\ pos \in Nat /\ Len(data) \in Nat /\ start <= pos
      /\ out \in Seq([from : Nat, length : Nat]) /\ Len(out) \in Nat
  BY DEF SplitTypeOK, ScanInside
<1>2. piece \in [from : Nat, length : Nat] /\ piece.from = start /\ piece.length = e - start
  BY <1>1
<1>3. piece.from + piece.length = e
  BY <1>1, <1>2
<1> HIDE DEF piece
<1>4. /\ out' \in Seq([from : Nat, length : Nat]) /\ Len(out') = m /\ out'[m] = piece
      /\ \A k \in 1 .. Len(out) : out'[k] = out[k] /\ PieceEnd(k)' = PieceEnd(k)
      /\ out'[m].from + out'[m].length = e
  <2>1. /\ out' \in Seq([from : Nat, length : Nat]) /\ Len(out') = m /\ out'[m] = piece
        /\ \A k \in 1 .. Len(out) : out'[k] = out[k]
    BY <1>1, <1>2 DEF piece
  <2> QED
    BY <1>3, <2>1 DEF PieceEnd
<1>5. OutPassed'
  <2> SUFFICES ASSUME NEW k \in 1 .. m,
                      NEW i \in out'[k].from .. PieceEnd(k)' - 4
               PROVE  PassedOver(i)
    BY <1>4, SameInput DEF OutPassed
  <2>1. CASE k = m
    <3>1. i \in start .. e - 4
      BY <1>2, <1>4, <2>1 DEF PieceEnd
    <3>2. CASE i < pos
      <4>1. i \in start .. pos - 1
        BY <1>1, <3>1, <3>2
      <4> QED
        BY <4>1 DEF Scanned
    <3>3. CASE i >= pos
      <4>1. e # pos /\ i \in Int
        BY <1>1, <3>1, <3>3
      <4>2. pos + 4 >= Len(data)
        BY <4>1
      <4> QED
        BY <1>1, <3>3, <4>1, <4>2 DEF PassedOver
    <3> QED
      BY <1>1, <3>1, <3>2, <3>3
  <2>2. CASE k # m
    <3>1. k \in 1 .. Len(out)
      BY <1>1, <2>2
    <3> QED
      BY <1>4, <3>1 DEF OutPassed
  <2> QED
    BY <2>1, <2>2
<1>6. NothingLost'
  <2> SUFFICES ASSUME NEW k \in 1 .. m
               PROVE  IF k = m
                        THEN stage' = "done" => PieceEnd(k)' = Len(data)
                        ELSE \E code \in {ShortCode, LongCode} :
                               Starts(PieceEnd(k)', code) /\ out'[k + 1].from = PieceEnd(k)' + Len(code)
    BY <1>4, SameInput DEF NothingLost
  <2>1. CASE k = m
    BY <1>4, <2>1 DEF PieceEnd
  <2>2. CASE k # m
    <3>1. k \in 1 .. Len(out) /\ PieceEnd(k)' = PieceEnd(k)
      <4>1. k \in 1 .. Len(out)
        BY <1>1, <2>2
      <4> QED
        BY <1>4, <4>1
    <3>2. CASE k = Len(out)
      <4>1. out # << >>
        BY <3>1, <3>2
      <4>2. out'[k + 1].from = start
        BY <1>2, <1>4, <3>2
      <4>3. \E code \in {ShortCode, LongCode} :
              Starts(PieceEnd(k), code) /\ start = PieceEnd(k) + Len(code)
        BY <3>2, <4>1 DEF Follows
      <4> QED
        BY <2>2, <3>1, <4>2, <4>3
    <3>3. CASE k # Len(out)
      <4>1. k + 1 \in 1 .. Len(out)
        <5>1. Len(out) \in Nat
          BY <1>1
        <5> QED
          BY <3>1, <3>3, <5>1
      <4>2. out'[k + 1] = out[k + 1]
        BY <1>4, <4>1
      <4>3. \E code \in {ShortCode, LongCode} :
              Starts(PieceEnd(k), code) /\ out[k + 1].from = PieceEnd(k) + Len(code)
        BY <3>1, <3>3 DEF NothingLost
      <4> QED
        BY <2>2, <3>1, <4>2, <4>3
    <3> QED
      BY <3>2, <3>3
  <2> QED
    BY <2>1, <2>2
<1> QED
  BY <1>2, <1>4, <1>5, <1>6 DEF PieceEnd

\* In a well-formed input the code found is the one behind the scan's unit.
LEMMA FindCodeStep ==
  ASSUME SplitIInv, FindCode
  PROVE  SplitIInv'
<1> USE DEF SplitIInv
<1>1. /\ stage = "scanning" /\ pos + 4 < Len(data) /\ CodeLength # 0
      /\ units' = units /\ codes' = codes /\ data' = data /\ stage' = stage
      /\ start' = pos + CodeLength /\ pos' = start'
      /\ (start = 0 => out' = out)
      /\ (start # 0 => out' = Append(out, [from |-> start, length |-> pos - start]))
  BY DEF FindCode, MayScan, End, inputVars
<1>2. pos \in Nat /\ start \in Nat /\ Len(data) \in Nat /\ Len(data) >= 4 /\ start <= pos
      /\ (start = 0 => out = << >>)
  BY <1>1 DEF SplitTypeOK, ScanInside
<1>3. /\ CodeLength \in {3, 4}
      /\ \E code \in {ShortCode, LongCode} : Starts(pos, code) /\ Len(code) = CodeLength
      /\ Starts(pos, LongCode) => CodeLength = 4
  BY <1>1, <1>2, CodeFound
<1>4. pos' \in Nat /\ start' \in Nat /\ start' # 0 /\ pos' < Len(data)
  BY <1>1, <1>2, <1>3
<1>5. start # 0 =>
        /\ out' \in Seq([from : Nat, length : Nat]) /\ Len(out') = Len(out) + 1
        /\ \A k \in 1 .. Len(out) : out'[k] = out[k] /\ PieceEnd(k)' = PieceEnd(k)
        /\ out'[Len(out')].from = start /\ PieceEnd(Len(out))' = pos
        /\ OutPassed' /\ NothingLost'
  BY <1>1, <1>2, UnitEnds
<1>6. start = 0 => out' = << >> /\ Len(out') = 0
  BY <1>1, <1>2
<1>7. SplitTypeOK' /\ ScanInside'
  BY <1>1, <1>2, <1>4, <1>5, <1>6 DEF SplitTypeOK, ScanInside
<1>8. Written'
  BY <1>1, SameInput DEF Written, Begin, UnitEnd, CodeOf
<1>9. Scanned'
  BY <1>1, <1>4 DEF Scanned
<1>10. OutPassed' /\ NothingLost'
  <2>1. CASE start = 0
    <3>1. 1 .. Len(out') = {}
      BY <1>6, <2>1
    <3> QED
      BY <3>1 DEF OutPassed, NothingLost
  <2> QED
    BY <1>5, <2>1
<1>11. Follows'
  <2> SUFFICES ASSUME start # 0
               PROVE  \E code \in {ShortCode, LongCode} :
                        /\ Starts(PieceEnd(Len(out))', code)
                        /\ start' = PieceEnd(Len(out))' + Len(code)
    BY <1>1, <1>6, SameInput DEF Follows
  <2>1. PieceEnd(Len(out))' = pos
    BY <1>5
  <2>2. PICK code \in {ShortCode, LongCode} : Starts(pos, code) /\ Len(code) = CodeLength
    BY <1>3
  <2> QED
    BY <1>1, <2>1, <2>2
<1>12. InStep'
  <2> SUFFICES ASSUME units # << >>
               PROVE  /\ \E k \in 1 .. Len(units) : start' = Begin(k)
                      /\ \A j \in 1 .. Len(out') :
                           /\ \E k \in 1 .. Len(units) : out'[j].from = Begin(k)
                           /\ PieceEnd(j)' = Len(data)
                              \/ \E k \in 1 .. Len(units) : PieceEnd(j)' = codes[k].at
                      /\ \A k \in 1 .. Len(units) :
                           codes[k].size = 4 /\ Begin(k) < start' =>
                             \E j \in 1 .. Len(out') : out'[j].from = Begin(k)
    <3>1. \A k : Begin(k)' = Begin(k)
      BY <1>1 DEF Begin
    <3> QED
      BY <1>1, <1>4, <3>1 DEF InStep
  <2>1. PICK k \in 1 .. Len(units) : pos = codes[k].at
    <3>1. pos \in 0 .. Len(data) - 1 /\ (Starts(pos, ShortCode) \/ Starts(pos, LongCode))
      BY <1>1, <1>2, <1>3
    <3>2. PICK k \in 1 .. Len(units) :
            pos = codes[k].at \/ (pos = codes[k].at + 1 /\ codes[k].size = 4)
      BY <3>1, WrittenCode
    <3>3. CASE pos = codes[k].at + 1 /\ codes[k].size = 4
      <4>1. codes[k].at \in Nat /\ Begin(k) = codes[k].at + 4
        BY <3>3, UnitBounds
      <4>2. start # 0
        BY <1>1, <3>3, <4>1 DEF InStep
      <4>3. start < Begin(k)
        BY <1>2, <3>3, <4>1
      <4>4. pos <= codes[k].at
        BY <1>1, <3>3, <4>2, <4>3, NoneMissed
      <4> QED
        BY <1>2, <3>3, <4>1, <4>4
    <3> QED
      BY <3>2, <3>3
  <2>2. start' = Begin(k)
    <3>1. codes[k].size \in {3, 4} /\ Begin(k) = pos + codes[k].size /\ Starts(pos, CodeOf(k))
      BY <2>1, UnitBounds
    <3>2. CodeLength = codes[k].size
      <4>1. Starts(pos, ShortCode) => CodeLength = 3
        BY DEF CodeLength
      <4> QED
        BY <1>3, <3>1, <4>1 DEF CodeOf
    <3> QED
      BY <1>1, <3>1, <3>2
  <2>3. CASE start = 0
    <3>1. pos = 0
      BY <1>1, <2>3 DEF InStep
    <3>2. start' = 4
      BY <1>1, <1>3, <3>1, FirstUnit
    <3>3. 1 .. Len(out') = {}
      BY <1>6, <2>3
    <3>4. ASSUME NEW n \in 1 .. Len(units), codes[n].size = 4 PROVE ~(Begin(n) < start')
      <4>1. codes[n].at \in Nat /\ Begin(n) = codes[n].at + 4
        BY <3>4, UnitBounds
      <4> QED
        BY <3>2, <4>1
    <3> QED
      BY <2>2, <3>3, <3>4
  <2>4. CASE start # 0
    <3>1. PICK m \in 1 .. Len(units) : start = Begin(m)
      BY <1>1, <2>4 DEF InStep
    <3>2. /\ Len(out) \in Nat /\ Len(out') = Len(out) + 1 /\ PieceEnd(Len(out))' = pos
          /\ out'[Len(out')].from = start
          /\ \A j \in 1 .. Len(out) : out'[j] = out[j] /\ PieceEnd(j)' = PieceEnd(j)
      BY <1>5, <2>4 DEF SplitTypeOK
    <3>3. ASSUME NEW j \in 1 .. Len(out')
          PROVE  /\ \E n \in 1 .. Len(units) : out'[j].from = Begin(n)
                 /\ PieceEnd(j)' = Len(data)
                    \/ \E n \in 1 .. Len(units) : PieceEnd(j)' = codes[n].at
      <4>1. CASE j = Len(out')
        BY <2>1, <3>1, <3>2, <4>1
      <4>2. CASE j # Len(out')
        <5>1. j \in 1 .. Len(out)
          BY <3>2, <4>2
        <5>2. /\ \E n \in 1 .. Len(units) : out[j].from = Begin(n)
              /\ PieceEnd(j) = Len(data) \/ \E n \in 1 .. Len(units) : PieceEnd(j) = codes[n].at
          BY <1>1, <5>1 DEF InStep
        <5> QED
          BY <3>2, <5>1, <5>2, Zenon
      <4> QED
        BY <4>1, <4>2
    <3>4. ASSUME NEW n \in 1 .. Len(units), codes[n].size = 4, Begin(n) < start'
          PROVE  \E j \in 1 .. Len(out') : out'[j].from = Begin(n)
      <4>1. Begin(n) \in Nat
        BY UnitBounds
      <4>2. CASE Begin(n) < start
        <5>1. PICK j \in 1 .. Len(out) : out[j].from = Begin(n)
          BY <1>1, <2>4, <3>4, <4>2 DEF InStep
        <5>2. j \in 1 .. Len(out')
          BY <3>2
        <5> QED
          BY <3>2, <5>1, <5>2
      <4>3. CASE Begin(n) = start
        <5>1. Len(out') \in 1 .. Len(out')
          BY <3>2
        <5> QED
          BY <3>2, <4>3, <5>1
      <4>4. CASE start < Begin(n)
        <5>1. pos <= codes[n].at /\ Begin(n) = codes[n].at + 4 /\ codes[n].at \in Nat
          BY <1>1, <2>4, <3>4, <4>4, NoneMissed
        <5>2. start' <= Begin(n)
          <6>1. start' <= pos + 4
            BY <1>1, <1>2, <1>3
          <6> QED
            BY <1>2, <1>4, <5>1, <6>1
        <5> QED
          BY <1>4, <3>4, <4>1, <5>2
      <4> QED
        BY <1>2, <4>1, <4>2, <4>3, <4>4
    <3> QED
      BY <2>2, <3>3, <3>4
  <2> QED
    BY <2>3, <2>4
<1> QED
  BY <1>7, <1>8, <1>9, <1>10, <1>11, <1>12

\* In a well-formed input the scan ends in the last unit.
LEMMA FinishStep ==
  ASSUME SplitIInv, Finish
  PROVE  SplitIInv'
<1> USE DEF SplitIInv
<1>1. /\ stage = "scanning" /\ ~(pos + 4 < Len(data)) /\ stage' = "done"
      /\ units' = units /\ codes' = codes /\ data' = data /\ start' = start /\ pos' = pos
      /\ (start = 0 => out' = out)
      /\ (start # 0 => out' = Append(out, [from |-> start, length |-> Len(data) - start]))
  BY DEF Finish, MayScan, inputVars
<1>2. /\ pos \in Nat /\ start \in Nat /\ Len(data) \in Nat /\ Len(data) >= 4 /\ start <= pos
      /\ pos < Len(data) /\ (start = 0 => out = << >>)
  BY <1>1 DEF SplitTypeOK, ScanInside
<1>3. start # 0 =>
        /\ out' \in Seq([from : Nat, length : Nat]) /\ Len(out') = Len(out) + 1
        /\ \A k \in 1 .. Len(out) : out'[k] = out[k] /\ PieceEnd(k)' = PieceEnd(k)
        /\ out'[Len(out')].from = start /\ PieceEnd(Len(out))' = Len(data)
        /\ OutPassed' /\ NothingLost'
  BY <1>1, <1>2, UnitEnds
<1>4. start = 0 => out' = << >> /\ Len(out') = 0
  BY <1>1, <1>2
<1>5. SplitTypeOK' /\ ScanInside'
  BY <1>1, <1>2, <1>3, <1>4 DEF SplitTypeOK, ScanInside
<1>6. Written' /\ Scanned' /\ Follows'
  BY <1>1, SameInput DEF Written, Begin, UnitEnd, CodeOf, Scanned, Follows
<1>7. OutPassed' /\ NothingLost'
  <2>1. CASE start = 0
    <3>1. 1 .. Len(out') = {}
      BY <1>4, <2>1
    <3> QED
      BY <3>1 DEF OutPassed, NothingLost
  <2> QED
    BY <1>3, <2>1
<1>8. InStep'
  <2> SUFFICES ASSUME units # << >>
               PROVE  /\ start # 0
                      /\ \E k \in 1 .. Len(units) : start = Begin(k)
                      /\ \A j \in 1 .. Len(out') :
                           /\ \E k \in 1 .. Len(units) : out'[j].from = Begin(k)
                           /\ PieceEnd(j)' = Len(data)
                              \/ \E k \in 1 .. Len(units) : PieceEnd(j)' = codes[k].at
                      /\ \A k \in 1 .. Len(units) :
                           codes[k].size = 4 => \E j \in 1 .. Len(out') : out'[j].from = Begin(k)
    <3>1. \A k : Begin(k)' = Begin(k)
      BY <1>1 DEF Begin
    <3> QED
      BY <1>1, <3>1 DEF InStep
  <2>1. start # 0
    <3> SUFFICES ASSUME start = 0 PROVE FALSE
      OBVIOUS
    <3>1. pos = 0
      BY <1>1 DEF InStep
    <3> QED
      BY <1>1, <1>2, <3>1, FirstUnit
  <2>2. PICK m \in 1 .. Len(units) : start = Begin(m)
    BY <1>1, <2>1 DEF InStep
  <2>3. /\ Len(out) \in Nat /\ Len(out') = Len(out) + 1 /\ PieceEnd(Len(out))' = Len(data)
        /\ out'[Len(out')].from = start
        /\ \A j \in 1 .. Len(out) : out'[j] = out[j] /\ PieceEnd(j)' = PieceEnd(j)
    <3>1. Len(out) \in Nat
      BY DEF SplitTypeOK
    <3> QED
      BY <1>3, <2>1, <3>1
  <2>4. ASSUME NEW j \in 1 .. Len(out')
        PROVE  /\ \E n \in 1 .. Len(units) : out'[j].from = Begin(n)
               /\ PieceEnd(j)' = Len(data)
                  \/ \E n \in 1 .. Len(units) : PieceEnd(j)' = codes[n].at
    <3>1. CASE j = Len(out')
      BY <2>2, <2>3, <3>1
    <3>2. CASE j # Len(out')
      <4>1. j \in 1 .. Len(out)
        BY <2>3, <3>2
      <4>2. /\ \E n \in 1 .. Len(units) : out[j].from = Begin(n)
            /\ PieceEnd(j) = Len(data) \/ \E n \in 1 .. Len(units) : PieceEnd(j) = codes[n].at
        BY <1>1, <4>1 DEF InStep
      <4> QED
        BY <2>3, <4>1, <4>2, Zenon
    <3> QED
      BY <3>1, <3>2
  <2>5. ASSUME NEW n \in 1 .. Len(units), codes[n].size = 4
        PROVE  \E j \in 1 .. Len(out') : out'[j].from = Begin(n)
    <3>1. Begin(n) \in Nat
      BY UnitBounds
    <3>2. CASE Begin(n) < start
      <4>1. PICK j \in 1 .. Len(out) : out[j].from = Begin(n)
        BY <1>1, <2>5, <3>2 DEF InStep
      <4>2. j \in 1 .. Len(out')
        BY <2>3
      <4> QED
        BY <2>3, <4>1, <4>2
    <3>3. CASE Begin(n) = start
      <4>1. Len(out') \in 1 .. Len(out')
        BY <2>3
      <4> QED
        BY <2>3, <3>3, <4>1
    <3>4. CASE start < Begin(n)
      <4>1. pos <= codes[n].at /\ codes[n].at + 4 < Len(data) /\ codes[n].at \in Nat
        BY <1>1, <2>1, <2>5, <3>4, NoneMissed
      <4> QED
        BY <1>1, <1>2, <4>1
    <3> QED
      BY <1>2, <3>1, <3>2, <3>3, <3>4
  <2> QED
    BY <2>1, <2>2, <2>4, <2>5
<1> QED
  BY <1>5, <1>6, <1>7, <1>8

\* SplitIInv is an invariant.
THEOREM SplitInvariance == SplitSpec => []SplitIInv
<1>1. SplitInit => SplitIInv
  <2> SUFFICES ASSUME SplitInit PROVE SplitIInv
    OBVIOUS
  <2>1. /\ units = << >> /\ codes = << >> /\ start = 0 /\ pos = 0 /\ out = << >>
        /\ Len(units) = 0 /\ Len(codes) = 0 /\ Len(out) = 0
    BY DEF SplitInit
  <2>2. /\ data \in Seq(Octets)
        /\ \/ stage = "writing" /\ data = << >>
           \/ stage = "scanning" /\ Len(data) \in Nat /\ Len(data) >= 4
    <3>1. CASE stage = "writing" /\ data = << >>
      <4>1. << >> \in Seq(Octets)
        OBVIOUS
      <4> QED
        BY <3>1, <4>1, Zenon
    <3>2. CASE stage = "scanning" /\ data \in UNION {[1 .. n -> Octets] : n \in 4 .. MaxLength}
      <4>1. PICK n \in 4 .. MaxLength : data \in [1 .. n -> Octets]
        BY <3>2
      <4>2. n \in Nat /\ n >= 4
        BY LengthsAssumption
      <4>3. data \in Seq(Octets) /\ Len(data) = n
        BY <4>1, <4>2
      <4> QED
        BY <3>2, <4>2, <4>3
    <3> QED
      BY <3>1, <3>2 DEF SplitInit
  <2>3. SplitTypeOK /\ ScanInside
    BY <2>1, <2>2 DEF SplitTypeOK, ScanInside
  <2>4. 1 .. 0 = {}
    OBVIOUS
  <2>5. Written /\ OutPassed /\ NothingLost
    BY <2>1, <2>2, <2>4 DEF Written, OutPassed, NothingLost
  <2> QED
    BY <2>1, <2>3, <2>5 DEF SplitIInv, Scanned, Follows, InStep
<1>2. SplitIInv /\ [SplitNext]_splitVars => SplitIInv'
  <2> SUFFICES ASSUME SplitIInv, [SplitNext]_splitVars PROVE SplitIInv'
    OBVIOUS
  <2>1. CASE UNCHANGED splitVars
    <3>1. /\ units' = units /\ codes' = codes /\ data' = data
          /\ stage' = stage /\ start' = start /\ pos' = pos /\ out' = out
      BY <2>1 DEF splitVars, inputVars
    <3>2. SplitTypeOK' /\ ScanInside'
      BY <3>1 DEF SplitIInv, SplitTypeOK, ScanInside
    <3>3. Written' /\ InStep'
      BY <3>1, SameInput DEF SplitIInv, Written, InStep, Begin, UnitEnd, CodeOf, PieceEnd
    <3>4. Scanned' /\ OutPassed'
      BY <3>1, SameInput DEF SplitIInv, Scanned, OutPassed, PieceEnd
    <3>5. NothingLost' /\ Follows'
      BY <3>1, SameInput DEF SplitIInv, NothingLost, Follows, PieceEnd
    <3> QED
      BY <3>2, <3>3, <3>4, <3>5 DEF SplitIInv
  <2> QED
    BY <2>1, WriteUnitStep, ReceivePacketStep, GoOnStep, FindCodeStep, FinishStep DEF SplitNext
<1> QED
  BY <1>1, <1>2, PTL DEF SplitSpec

\* Whatever the input, nothing behind the first start code is lost.
THEOREM SplitLosesNothing == SplitSpec => []NothingLost
<1>1. SplitIInv => NothingLost
  BY DEF SplitIInv
<1> QED
  BY <1>1, SplitInvariance, PTL

\* A stream of units is cut only between units, and at every code of four
\* octets, however many units it has and however long they are.
THEOREM Recovered == SplitSpec => []UnitsAreRecovered
<1>1. SplitIInv => UnitsAreRecovered
  <2> SUFFICES ASSUME SplitIInv PROVE UnitsAreRecovered
    OBVIOUS
  <2> USE DEF SplitIInv
  <2>1. ASSUME stage = "done", NEW k \in 1 .. Len(units), codes[k].size = 4
        PROVE  \E j \in 1 .. Len(out) : out[j].from = Begin(k)
    <3>1. units # << >>
      BY DEF SplitTypeOK
    <3> QED
      BY <2>1, <3>1 DEF InStep
  <2>2. ASSUME units # << >>, NEW j \in 1 .. Len(out)
        PROVE  \E k, m \in 1 .. Len(units) :
                 /\ k <= m /\ out[j].from = Begin(k) /\ PieceEnd(j) = UnitEnd(m)
                 /\ \A n \in k + 1 .. m : codes[n].size = 3
    <3>1. out # << >> /\ Len(units) \in Nat /\ out[j].length \in Nat /\ Len(data) \in Nat
      <4>1. out[j] \in [from : Nat, length : Nat]
        BY EntryOf, Zenon DEF SplitTypeOK
      <4>2. out # << >>
        OBVIOUS
      <4> QED
        BY <4>1, <4>2 DEF SplitTypeOK
    <3>2. stage # "writing"
      BY <3>1 DEF ScanInside
    <3>3. PICK k \in 1 .. Len(units) : out[j].from = Begin(k)
      BY <2>2, <3>2 DEF InStep
    <3>4. /\ Begin(k) \in Nat /\ UnitEnd(k) \in Nat /\ Begin(k) < UnitEnd(k)
          /\ PieceEnd(j) = Begin(k) + out[j].length
      BY <3>3, UnitBounds DEF PieceEnd
    <3>5. PICK m \in 1 .. Len(units) : k <= m /\ PieceEnd(j) = UnitEnd(m)
      <4>1. CASE PieceEnd(j) = Len(data)
        <5>1. Len(units) \in 1 .. Len(units) /\ k <= Len(units)
          BY <3>1, <3>3
        <5>2. UnitEnd(Len(units)) = Len(data)
          BY <5>1 DEF Written
        <5> QED
          BY <4>1, <5>1, <5>2
      <4>2. CASE \E n \in 1 .. Len(units) : PieceEnd(j) = codes[n].at
        <5>1. PICK n \in 1 .. Len(units) : PieceEnd(j) = codes[n].at
          BY <4>2
        <5>2. codes[n].at \in Nat /\ codes[n].size \in {3, 4} /\ Begin(n) = codes[n].at + codes[n].size
          BY UnitBounds
        <5>3. Begin(k) < Begin(n)
          <6>1. Begin(k) <= PieceEnd(j)
            BY <3>1, <3>4
          <6>2. codes[n].at < Begin(n)
            BY <5>2
          <6>3. Begin(n) \in Nat
            BY <5>2
          <6> QED
            BY <3>4, <5>1, <5>2, <6>1, <6>2, <6>3
        <5>4. k < n
          BY <5>3, InTurn
        <5>5. n - 1 \in 1 .. Len(units) /\ k <= n - 1 /\ n - 1 # Len(units) /\ n - 1 + 1 = n
          BY <3>1, <3>3, <5>4
        <5>6. UnitEnd(n - 1) = codes[n].at
          BY <5>5 DEF Written
        <5> QED
          BY <5>1, <5>5, <5>6
      <4> QED
        BY <2>2, <3>2, <4>1, <4>2 DEF InStep
    <3>6. ASSUME NEW n \in k + 1 .. m PROVE codes[n].size = 3
      <4> DEFINE c == codes[n].at
      <4>1. n \in 1 .. Len(units) /\ k < n /\ n \in k + 1 .. Len(units) /\ (n # m => m \in n + 1 .. Len(units))
        BY <3>1, <3>3, <3>5
      <4>2. /\ c \in Nat /\ codes[n].size \in {3, 4} /\ Begin(n) = c + codes[n].size
            /\ UnitEnd(n) \in Nat /\ Begin(n) < UnitEnd(n) /\ UnitEnd(n) <= Len(data)
            /\ Starts(c, CodeOf(n))
        BY <4>1, UnitBounds
      <4>3. UnitEnd(k) <= c
        BY <4>1 DEF Written
      <4>4. UnitEnd(n) <= PieceEnd(j) /\ PieceEnd(j) \in Nat
        <5>1. CASE n = m
          BY <3>5, <4>2, <5>1
        <5>2. CASE n # m
          <6>1. /\ codes[m].at \in Nat /\ codes[m].size \in {3, 4}
                /\ Begin(m) = codes[m].at + codes[m].size
                /\ Begin(m) < UnitEnd(m) /\ UnitEnd(m) \in Nat
            BY UnitBounds
          <6>2. UnitEnd(n) <= codes[m].at
            BY <4>1, <5>2 DEF Written
          <6>3. codes[m].at < UnitEnd(m)
            BY <6>1
          <6> QED
            BY <3>5, <4>2, <6>1, <6>2, <6>3
        <5> QED
          BY <5>1, <5>2
      <4> SUFFICES ASSUME codes[n].size = 4 PROVE FALSE
        BY <4>2
      <4>5. Starts(c, LongCode)
        BY <4>2 DEF CodeOf
      <4> HIDE DEF c
      <4>6. c \in out[j].from .. PieceEnd(j) - 4 /\ c + 4 < Len(data)
        <5>1. Begin(k) <= c
          BY <3>4, <4>2, <4>3
        <5>2. c + 4 < UnitEnd(n)
          BY <4>2
        <5>3. c + 4 < PieceEnd(j)
          BY <4>2, <4>4, <5>2
        <5>4. c + 4 < Len(data)
          BY <3>1, <4>2, <5>2
        <5>5. c \in Begin(k) .. PieceEnd(j) - 4
          BY <3>4, <4>2, <4>4, <5>1, <5>3
        <5> QED
          BY <3>3, <5>4, <5>5
      <4>7. PassedOver(c)
        BY <4>6 DEF OutPassed
      <4> QED
        BY <4>5, <4>6, <4>7 DEF PassedOver
    <3> QED
      BY <3>3, <3>5, <3>6
  <2> QED
    BY <2>1, <2>2 DEF OutPassed, UnitsAreRecovered
<1> QED
  BY <1>1, SplitInvariance, PTL

=============================================================================
