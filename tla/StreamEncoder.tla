---------------------------- MODULE StreamEncoder ---------------------------
(***************************************************************************)
(* StreamEncoder (stream_encoder.cpp) as the publisher uses it: the        *)
(* constructor takes the first encoder of the codec's list that works,     *)
(* encodeVideo() opens it with the first image, and the packets it returns *)
(* are drained before the next image. Every exception ends the encoder:    *)
(* the publisher drops it.                                                 *)
(*                                                                         *)
(* FFmpeg is external: an encoder may be missing, fail while it is tried,  *)
(* fail later, and keep images back before it returns their packets.       *)
(***************************************************************************)
EXTENDS Integers, Sequences, SequencesExt

CONSTANTS
    Sizes,       \* bound: the image sizes in use
    Formats,     \* bound: the pixel formats in use
    Convertible, \* those of them that toAVPixelFormat() knows
    Stamps,      \* bound: the time stamps in use, in units of 1/600 s
    MaxImages    \* bound: images encoded

None == "none"

ASSUME FormatsAssumption == Convertible \subseteq Formats /\ None \notin Formats
ASSUME StampsAssumption == Stamps \subseteq Nat /\ MaxImages \in Nat

VARIABLES
    codec, useHw, \* arguments of the constructor
    todo,         \* encoder names the constructor has not tried
    phase,        \* "choosing", "ready", "encoding" (initialized_) or "thrown"
    ctx,          \* the encoder of ctx_
    vaapi,        \* is_vaapi_
    device,       \* hw_device_ is set
    pool,         \* hw_frames_ is set
    size,         \* ctx_->width and height
    converter,    \* the source format of sws_
    lastFormat,   \* last_pixel_format_
    firstStamp,   \* first_ts_
    lastPts,      \* last_pts_
    inside,       \* images the encoder has not returned yet
    packets,      \* packets_, as the images they encode
    draining,     \* the publisher is calling nextPacket()
    images,       \* images encoded so far
    handed,       \* history: the image of the last packet handed out
    highest       \* history: the latest of the time stamps

chooseVars == <<codec, useHw, todo, ctx, vaapi, device>>
frameVars == <<pool, size, converter, lastFormat, firstStamp, lastPts, highest>>
packetVars == <<inside, packets, draining, images, handed>>
vars == <<chooseVars, phase, frameVars, packetVars>>

\* FFMPEG_ENCODERS
Encoders ==
    [H264  |-> <<"h264_vaapi", "h264_qsv", "h264_nvenc", "h264_vulkan", "h264_omx",
                 "libx264", "h264">>,
     H265  |-> <<"hevc_vaapi", "hevc_qsv", "hevc_nvenc", "hevc_vulkan", "libx265", "h265">>,
     MPEG4 |-> <<"mjpeg_vaapi", "mjpeg_qsv", "mpeg4_omx", "libxvid", "mpeg4">>,
     VP8   |-> <<"vp8_vaapi", "vp8_qsv", "libvpx", "vp8">>,
     VP9   |-> <<"vp9_vaapi", "vp9_qsv", "libvpx-vp9", "vp9">>,
     AV1   |-> <<"av1_vaapi", "av1_qsv", "av1_nvenc", "librav1e", "libaom-av1">>]

\* The names without an underscore.
Software ==
    {"libx264", "h264", "libx265", "h265", "libxvid", "mpeg4", "libvpx", "vp8",
     "libvpx-vp9", "vp9", "librav1e", "libaom-av1"}

Vaapi == {"h264_vaapi", "hevc_vaapi", "mjpeg_vaapi", "vp8_vaapi", "vp9_vaapi", "av1_vaapi"}

Init ==
    /\ codec \in DOMAIN Encoders /\ useHw \in BOOLEAN
    /\ todo = Encoders[codec]
    /\ phase = "choosing" /\ ctx = None
    /\ vaapi = FALSE /\ device = FALSE /\ pool = FALSE
    /\ size = 0 /\ converter = None /\ lastFormat = None
    /\ firstStamp = 0 /\ lastPts = -1
    /\ inside = << >> /\ packets = << >> /\ draining = FALSE
    /\ images = 0 /\ handed = 0 /\ highest = 0

-----------------------------------------------------------------------------
(* The constructor.                                                        *)

Candidate == Head(todo)

\* Software only, or not part of this FFmpeg: the next one is tried.
SkipCandidate ==
    /\ phase = "choosing" /\ todo # << >>
    /\ todo' = Tail(todo)
    /\ UNCHANGED <<codec, useHw, ctx, vaapi, device, phase, frameVars, packetVars>>

MayTry == phase = "choosing" /\ todo # << >> /\ (useHw \/ Candidate \in Software)

\* Mutant: is_vaapi_ is set and never reset.
IsVaapiKept == vaapi \/ Candidate \in Vaapi

IsVaapi == Candidate \in Vaapi

\* setupEncoder() and a trial openEncoder(), then setupEncoder() for real;
\* or an exception anywhere in between.
SetupEncoder(works) ==
    /\ vaapi' = IsVaapi
    /\ ctx' = IF works THEN Candidate ELSE None
    /\ device' = (works /\ vaapi')
    /\ pool' = FALSE

TryCandidate ==
    /\ MayTry
    /\ \E works \in BOOLEAN :
         /\ SetupEncoder(works)
         /\ todo' = Tail(todo)
         /\ phase' = IF works THEN "ready" ELSE "choosing"
    /\ UNCHANGED <<codec, useHw, size, converter, lastFormat, firstStamp, lastPts, highest,
                   packetVars>>

NoCandidateLeft ==
    /\ phase = "choosing" /\ todo = << >>
    /\ phase' = "thrown"
    /\ UNCHANGED <<chooseVars, frameVars, packetVars>>

-----------------------------------------------------------------------------
(* encodeVideo() and nextPacket().                                         *)

\* static_cast<int64_t>(300 * d.seconds())
Ticks(d) == IF d >= 0 THEN d \div 2 ELSE -((-d) \div 2)

\* Mutant: only a time stamp that goes back is corrected.
PtsMayRepeat(d, last) == IF Ticks(d) < last THEN last + 1 ELSE Ticks(d)

\* The presentation time of an image d after the first one.
Pts(d, last) == IF Ticks(d) <= last THEN last + 1 ELSE Ticks(d)

\* sws_ after the check of last_pixel_format_.
Converter(known, last, format) == IF known = None \/ format # last THEN format ELSE known

\* The encoder takes the image and returns packets of its oldest images.
Encode(returned) ==
    /\ inside' = SubSeq(Append(inside, images + 1), returned + 1, Len(inside) + 1)
    /\ packets' = packets \o SubSeq(Append(inside, images + 1), 1, returned)
    /\ draining' = (returned > 0)
    /\ images' = images + 1
    /\ UNCHANGED handed

EncodeVideo(s, format, stamp) ==
    /\ phase \in {"ready", "encoding"} /\ ~draining /\ images < MaxImages
    /\ phase = "encoding" => s = size
    /\ format \in Convertible
    /\ LET first == IF phase = "ready" THEN stamp ELSE firstStamp
           last == IF phase = "ready" THEN None ELSE lastFormat
       IN /\ firstStamp' = first
          /\ converter' = Converter(converter, last, format)
          /\ lastPts' = Pts(stamp - first, lastPts)
          /\ highest' = IF phase = "ready" \/ stamp > highest THEN stamp ELSE highest
    /\ lastFormat' = format
    /\ size' = s
    /\ pool' = vaapi
    /\ phase' = "encoding"
    /\ \E returned \in 0 .. Len(inside) + 1 : Encode(returned)
    /\ UNCHANGED chooseVars

\* Another size or an unknown format, or FFmpeg fails.
EncodeVideoThrows ==
    /\ phase \in {"ready", "encoding"} /\ ~draining /\ images < MaxImages
    /\ phase' = "thrown"
    /\ UNCHANGED <<chooseVars, frameVars, packetVars>>

NextPacket ==
    /\ draining
    /\ IF packets = << >>
         THEN draining' = FALSE /\ UNCHANGED <<packets, handed>>
         ELSE packets' = Tail(packets) /\ handed' = Head(packets) /\ UNCHANGED draining
    /\ UNCHANGED <<chooseVars, phase, frameVars, inside, images>>

-----------------------------------------------------------------------------

Next ==
    \/ SkipCandidate \/ TryCandidate \/ NoCandidateLeft
    \/ \E s \in Sizes, f \in Formats, t \in Stamps : EncodeVideo(s, f, t)
    \/ EncodeVideoThrows
    \/ NextPacket

Spec == Init /\ [][Next]_vars

-----------------------------------------------------------------------------
(* Properties.                                                             *)

\* What belongs to an encoder is for the encoder in use, whichever candidates
\* were tried and failed before, and for its last image: device and frame pool
\* exist exactly for a VAAPI encoder, there is a pool when it encodes, and the
\* converter is for the format, however formats change between images.
DeviceFitsEncoder ==
    phase \in {"ready", "encoding"} =>
        /\ ctx # None
        /\ vaapi <=> ctx \in Vaapi
        /\ device <=> vaapi
        /\ pool <=> vaapi /\ phase = "encoding"
        /\ converter = lastFormat

\* Images keep their order. FFmpeg gets strictly increasing presentation
\* times, which run ahead of the latest stamp by less than one tick per image,
\* even if stamps repeat or go back: a clock that was set back does not delay
\* the stream for good. Packets of all images are handed out, one after the
\* other, although the encoder returns them late and in groups.
ImagesInOrder ==
    [][/\ images' # images =>
            /\ lastPts' > lastPts
            /\ lastPts' < Ticks(highest' - firstStamp') + images'
       /\ handed' \in {handed, handed + 1}]_vars

=============================================================================
