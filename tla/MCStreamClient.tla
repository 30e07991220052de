--------------------------- MODULE MCStreamClient ---------------------------
(***************************************************************************)
(* StreamClient for TLC. Which of several subsessions is supported, set up *)
(* or refused is chosen in SetupNext, so two subsessions already show a    *)
(* refusal followed by a success and a success followed by an ignored one. *)
(***************************************************************************)
EXTENDS StreamClient

\* Unlimited and one finite timeout; only the sign is ever looked at.
MCTimeouts == {0, 1}

=============================================================================
