--------------------------- MODULE ClientSession ---------------------------
(***************************************************************************)
(* What a StreamClient promises to its owner, without saying how RTSP      *)
(* works: the life of one connection and the notification that is owed to  *)
(* the owner when that life changes by itself.                             *)
(*                                                                         *)
(*    closed  --Open-->  setup  --Play-->  playing                         *)
(*                        | |                 |                            *)
(*                 Finish | +--Fail--> over <-+ Finish                     *)
(*                        v              ^                                 *)
(*                      ended --Play-----+                                 *)
(*                                                                         *)
(* The owner's thread gives a connection up in two halves, TearDown and    *)
(* Close, and the event loop may call back between them ("closing"). Only  *)
(* that, the loop's own Drop and the one automatic retry leave "over";     *)
(* nothing plays again without a new connection. "owed" is the handler the *)
(* event loop is about to call, on behalf of a connection that may be gone.*)
(***************************************************************************)

VARIABLES
    phase,    \* the connection, as the owner sees it
    owed,     \* the notification the event loop is about to deliver
    callback  \* the event loop is in no callback of live555, in one of the
              \* "current" connection or in one of a connection given up ("late")

sessionVars == <<phase, owed, callback>>

Phases    == {"closed", "setup", "ended", "playing", "over", "closing"}
Notices   == {"none", "started", "failed", "finished", "timedout", "retry"}
Callbacks == {"none", "current", "late"}

SessionTypeOK ==
    /\ phase \in Phases /\ owed \in Notices /\ callback \in Callbacks
    /\ callback = "none" => owed = "none"
    /\ callback = "current" => phase \notin {"closed", "closing"}

SessionInit == phase = "closed" /\ owed = "none" /\ callback = "none"

-----------------------------------------------------------------------------
(* The owner's thread.                                                     *)

\* The owner connects. The event loop may still be about to notify it of
\* something that happened to the previous connection.
Open ==
    /\ phase = "closed"
    /\ phase' = "setup"
    /\ UNCHANGED <<owed, callback>>

\* The owner disconnects, first half.
TearDown ==
    /\ phase \notin {"closed", "closing"}
    /\ phase' = "closing"
    /\ callback' = IF callback = "none" THEN "none" ELSE "late"
    /\ UNCHANGED owed

\* Second half.
Close ==
    /\ phase = "closing"
    /\ phase' = "closed"
    /\ UNCHANGED <<owed, callback>>

-----------------------------------------------------------------------------
(* The event loop.                                                         *)

\* live555 calls back.
Enter ==
    /\ phase # "closed" /\ callback = "none"
    /\ callback' = IF phase = "closing" THEN "late" ELSE "current"
    /\ UNCHANGED <<phase, owed>>

\* The callback returns and owes nothing.
Leave ==
    /\ callback # "none" /\ owed = "none"
    /\ callback' = "none"
    /\ UNCHANGED <<phase, owed>>

InCurrent == callback = "current" /\ owed = "none" /\ UNCHANGED callback

\* PLAY was answered. The stream may have ended before the answer came.
Play ==
    /\ InCurrent /\ phase \in {"setup", "ended"}
    /\ phase' = IF phase = "setup" THEN "playing" ELSE "over"
    /\ owed' = "started"

\* The handshake failed at any of its steps.
Fail ==
    /\ InCurrent /\ phase \in {"setup", "ended"}
    /\ phase' = "over"
    /\ owed' = "failed"

\* The stream ended, possibly while PLAY was still unanswered.
Finish ==
    /\ InCurrent /\ phase \in {"setup", "playing"}
    /\ phase' = IF phase = "playing" THEN "over" ELSE "ended"
    /\ owed' = "finished"

\* No packet arrived for one timeout period.
Stall ==
    /\ InCurrent /\ phase = "playing"
    /\ owed' = "timedout"
    /\ UNCHANGED phase

\* A callback of a connection that has been given up reports all the same.
Late ==
    /\ callback = "late" /\ owed = "none"
    /\ owed' \in {"started", "failed", "finished", "timedout"}
    /\ UNCHANGED <<phase, callback>>

\* The owner's handler runs.
Deliver ==
    /\ owed \in {"started", "failed", "finished", "timedout"}
    /\ owed' = "none"
    /\ callback' \in {callback, "none"}
    /\ UNCHANGED phase

\* The owner's handler disconnects what is connected now.
Drop ==
    /\ callback # "none" /\ owed = "none" /\ phase # "closing"
    /\ phase' = "closed"
    /\ callback' \in {"late", "none"}
    /\ UNCHANGED owed

\* The automatic retry: the failure is swallowed, the connection replaced.
Swallow ==
    /\ owed = "failed" /\ phase # "closing"
    /\ owed' = "retry"
    /\ phase' = "closed"
    /\ callback' = "late"

Reopen ==
    /\ owed = "retry" /\ phase = "closed"
    /\ phase' = "setup"
    /\ owed' = "none" /\ callback' = "none"

-----------------------------------------------------------------------------

SessionNext ==
    \/ Open \/ TearDown \/ Close
    \/ Enter \/ Leave
    \/ Play \/ Fail \/ Finish \/ Stall \/ Late
    \/ Deliver \/ Drop
    \/ Swallow \/ Reopen

SessionSpec == SessionInit /\ [][SessionNext]_sessionVars

=============================================================================
