------------------------------ MODULE Audience ------------------------------
(***************************************************************************)
(* What a StreamServer promises to the publisher, without saying how       *)
(* streams are kept: which kind of session it offers, and whether anybody  *)
(* watches (hasActiveStreams()).                                           *)
(*                                                                         *)
(* A multicast session is watched from its start to its end; a unicast     *)
(* session is watched while clients share its media source. Nobody watches *)
(* without a session.                                                      *)
(***************************************************************************)

VARIABLES
    offer,    \* the kind of session on offer: "none", "unicast", "multicast"
    watched   \* somebody watches it

audienceVars == <<offer, watched>>

Kinds == {"unicast", "multicast"}

AudienceInit == offer = "none" /\ watched = FALSE

\* A session starts, in place of the one there may have been.
Open(kind) ==
    /\ offer' = kind
    /\ watched' = (kind = "multicast")

End ==
    /\ offer' = "none"
    /\ watched' = FALSE

Join ==
    /\ offer = "unicast" /\ ~watched
    /\ watched' = TRUE
    /\ UNCHANGED offer

Leave ==
    /\ offer = "unicast" /\ watched
    /\ watched' = FALSE
    /\ UNCHANGED offer

AudienceNext == (\E kind \in Kinds : Open(kind)) \/ End \/ Join \/ Leave

AudienceSpec == AudienceInit /\ [][AudienceNext]_audienceVars

=============================================================================
