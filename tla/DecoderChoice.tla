---------------------------- MODULE DecoderChoice ---------------------------
(***************************************************************************)
(* Which of FFmpeg's decoders the constructor of StreamDecoder takes       *)
(* (stream_decoder.cpp). Which of them this FFmpeg has and this machine    *)
(* can open is external, and may differ from one attempt to the next.      *)
(***************************************************************************)
EXTENDS Sequences, SequencesExt

\* FFMPEG_DECODERS
Decoders ==
    [H264  |-> <<"h264_qsv", "h264_cuvid", "h264">>,
     H265  |-> <<"hevc_qsv", "hevc_cuvid", "hevc", "h265">>,
     MPEG4 |-> <<"mpeg4_cuvid", "mpeg4">>,
     VP8   |-> <<"vp8_qsv", "vp8_cuvid", "vp8">>,
     VP9   |-> <<"vp9_qsv", "vp9_cuvid", "vp9">>,
     AV1   |-> <<"av1_qsv", "av1_cuvid", "libdav1d", "av1">>,
     MJPEG |-> <<"mjpeg_qsv", "mjpeg_cuvid", "mjpeg">>]

\* The names with an underscore.
Hardware ==
    {"h264_qsv", "h264_cuvid", "hevc_qsv", "hevc_cuvid", "mpeg4_cuvid", "vp8_qsv", "vp8_cuvid",
     "vp9_qsv", "vp9_cuvid", "av1_qsv", "av1_cuvid", "mjpeg_qsv", "mjpeg_cuvid"}

\* The candidates of a codec.
Candidates(codec) == IF codec \in DOMAIN Decoders THEN ToSet(Decoders[codec]) ELSE {}

\* The outcomes of the constructor: the candidates before the chosen one fail.
\* There is none if they all do, or if the codec is not known: it throws.
Usable(codec, useHw) == {name \in Candidates(codec) : useHw \/ name \notin Hardware}

=============================================================================
