--------------------------- MODULE MCStreamEncoder --------------------------
(***************************************************************************)
(* StreamEncoder for TLC. Stamps repeat, go back, and advance by less and  *)
(* by more than one tick of the encoder; two formats alternate.            *)
(***************************************************************************)
EXTENDS StreamEncoder

MCFormats == {"bgr8", "mono8", "hsv"}
MCConvertible == {"bgr8", "mono8"}
MCStamps == {2, 3, 4, 8}

=============================================================================
