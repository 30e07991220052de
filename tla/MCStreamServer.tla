--------------------------- MODULE MCStreamServer ---------------------------
(***************************************************************************)
(* StreamServer for TLC. Three sources are enough for a client that leaves *)
(* and comes back while a session is replaced, and for two multicast       *)
(* sessions to use up both event triggers before a third source is made.   *)
(***************************************************************************)
EXTENDS StreamServer

CONSTANTS s1, s2, s3

MCSources == {s1, s2, s3}

\* One sink packs several frames into a packet, as that of MPEG-4 does.
MCGreedy == {s3}

=============================================================================
