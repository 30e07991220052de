----------------------------- MODULE MCTransport ----------------------------
(***************************************************************************)
(* Transport for TLC: a configuration and four changed ones, between which *)
(* every level of change occurs: rate, port, packet size, codec, address.  *)
(***************************************************************************)
EXTENDS Transport

Base == [codec |-> CodecOf("AVC"), rate |-> 1, port |-> 0, psize |-> 1396, mcast |-> FALSE]

MCConfigs ==
    {Base,
     [Base EXCEPT !.codec = CodecOf("MPEG4"), !.mcast = TRUE],
     [Base EXCEPT !.codec = CodecOf("THEORA")],
     [Base EXCEPT !.rate = 2],
     [Base EXCEPT !.port = 8554, !.psize = 9000]}

MCLateConfigs == {Base}

MCAutoPorts == {1}

=============================================================================
