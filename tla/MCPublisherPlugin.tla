------------------------- MODULE MCPublisherPlugin --------------------------
(***************************************************************************)
(* PublisherPlugin for TLC: configurations that differ from the first one  *)
(* in one parameter each, so that every level of change occurs alone.      *)
(***************************************************************************)
EXTENDS PublisherPlugin

MCCodecs == {"H264", "VP8", "Unknown"}
MCSupported == {"H264", "VP8"}

Base == [codec |-> "H264", rate |-> 1, port |-> 0, psize |-> 1396, mcast |-> FALSE]

MCConfigs ==
    {Base,
     [Base EXCEPT !.codec = "VP8"],
     [Base EXCEPT !.codec = "Unknown"],
     [Base EXCEPT !.rate = 2],
     [Base EXCEPT !.port = 8554],
     [Base EXCEPT !.psize = 9000],
     [Base EXCEPT !.mcast = TRUE]}

=============================================================================
