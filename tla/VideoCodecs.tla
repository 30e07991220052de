----------------------------- MODULE VideoCodecs ----------------------------
(***************************************************************************)
(* The names a codec has on its way from the parameter of the publisher to *)
(* the decoder of the subscriber (publisher_plugin.cpp, stream_server.cpp, *)
(* video_codec.cpp). Five tables in four files have to agree, whatever     *)
(* formats live555 was built with.                                         *)
(***************************************************************************)

CONSTANT Live555   \* the optional formats that live555 supports

ASSUME Live555Assumption == Live555 \subseteq {"H265", "VPX", "AV1"}

VideoCodec == {"H264", "H265", "MPEG4", "VP8", "VP9", "AV1", "MJPEG", "Unknown"}

\* The values of "codec", in capitals and without punctuation.
CODEC_NAMES ==
    [H264  |-> "H264", AVC  |-> "H264", H265 |-> "H265", HEVC |-> "H265",
     MPEG4 |-> "MPEG4", VP8 |-> "VP8", VP9 |-> "VP9", AV1 |-> "AV1"]

CodecOf(name) == IF name \in DOMAIN CODEC_NAMES THEN CODEC_NAMES[name] ELSE "Unknown"

\* The codecs that a part of stream_server.cpp knows if these of its cases
\* depend on how live555 was built.
Known(codecs, conditional) ==
    {c \in codecs : c \in DOMAIN conditional => conditional[c] \in Live555}

Conditional == [H265 |-> "H265", VP8 |-> "VPX", VP9 |-> "VPX", AV1 |-> "AV1"]

\* isSupported()
SupportedCodecs == Known({"H264", "H265", "MPEG4", "VP8", "VP9", "AV1"}, Conditional)

\* The RTP payload format that a sink of createVideoRTPSink() announces.
PayloadFormat ==
    [H264 |-> "H264", H265 |-> "H265", MPEG4 |-> "MP4V-ES", VP8 |-> "VP8", VP9 |-> "VP9",
     AV1 |-> "AV1"]

SinkCodecs == Known(DOMAIN PayloadFormat, Conditional)

\* createDiscreteFramer(): only the framer of H.265 is conditional.
FramerCodecs == Known({"H264", "H265", "MPEG4", "VP8", "VP9", "AV1"}, [H265 |-> "H265"])

\* Mutant: MPEG-4 is looked up by the name that FFmpeg has for it.
RTSPCodecNamesOfFFmpeg ==
    [H264 |-> "H264", H265 |-> "H265", MPEG4 |-> "MPEG4", VP8 |-> "VP8", VP9 |-> "VP9",
     JPEG |-> "MJPEG", AV1 |-> "AV1"]

\* Most formats are named like their codec.
RTSPCodecNames ==
    [name \in {"H264", "H265", "VP8", "VP9", "AV1", "JPEG", "MP4V-ES"} |->
        CASE name = "JPEG" -> "MJPEG"
          [] name = "MP4V-ES" -> "MPEG4"
          [] OTHER -> name]

FromRTSPCodecName(name) ==
    IF name \in DOMAIN RTSPCodecNames THEN RTSPCodecNames[name] ELSE "Unknown"

\* The codec a subscriber finds in a session, or Unknown if the server cannot
\* set up the stream.
Received(codec) ==
    IF codec \in SinkCodecs \cap FramerCodecs
      THEN FromRTSPCodecName(PayloadFormat[codec])
      ELSE "Unknown"

=============================================================================
