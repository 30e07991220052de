--------------------------- MODULE MCStreamDecoder --------------------------
(***************************************************************************)
(* StreamDecoder for TLC: the stamps differ by each limit of the lag, and  *)
(* by less than the lowest one.                                            *)
(***************************************************************************)
EXTENDS StreamDecoder

MCStamps == {0, 1, 2, 4, 8}

=============================================================================
