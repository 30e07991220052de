-------------------------- MODULE MCFrameExtractor --------------------------
(***************************************************************************)
(* FrameExtractor for TLC with the real sizes: units around the limit of   *)
(* 48 octets and around what is left of the buffer.                        *)
(***************************************************************************)
EXTENDS FrameExtractor

MCSize == 131072
MCFrameSizes == {0, 1, 10, 40, 43, 44, 45, 48, 5000, 131019, 131020, 131068, 131072}
MCSetSizes == {8, 20, 131040, 131060, 131061, 131064, 131068}

=============================================================================
