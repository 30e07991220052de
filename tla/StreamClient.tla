---------------------------- MODULE StreamClient ----------------------------
(***************************************************************************)
(* StreamClient and its Live555Client (stream_client.cpp).                 *)
(*                                                                         *)
(* Two threads meet in this class. The owner's thread calls connect(),     *)
(* disconnect() and setSessionTimeout(). The event loop thread of live555  *)
(* runs the callbacks: replies to DESCRIBE, SETUP and PLAY, the end of a   *)
(* media source (BYE), and the delayed task checkTimeout. A callback ends  *)
(* by calling a handler of the owner, which may disconnect().              *)
(*                                                                         *)
(* The owner's calls hold client_mutex_ and take session_mutex_ inside     *)
(* teardown() and setSessionTimeout(); the loop holds session_mutex_ in    *)
(* checkTimeout and while a PLAY reply schedules it ("locked"). Between    *)
(* teardown() and Medium::close(), disconnect() holds only client_mutex_,  *)
(* which no callback waits for before it calls a handler: "owner" says how *)
(* far disconnect() is. live555 itself has no lock, so that a callback may *)
(* work on a client that is being or has been closed ("stale").            *)
(*                                                                         *)
(* Time is abstracted: a pending task may fire at any moment.              *)
(***************************************************************************)
EXTENDS Naturals

CONSTANTS
    Timeouts,        \* the session timeouts in use [ms], 0 means unlimited
    MaxSubsessions,  \* bound: media subsessions a DESCRIBE reply announces
    MaxChanges       \* bound: calls of setSessionTimeout

ASSUME TimeoutsAssumption == Timeouts \subseteq Nat /\ 0 \in Timeouts
ASSUME BoundsAssumption == MaxSubsessions \in Nat /\ MaxChanges \in Nat

VARIABLES
    client,   \* client_ is set
    conn,     \* the members of *client_
    timeout,  \* timeout_, which StreamClient and Live555Client change together
    retried,  \* retried_on_454_error_
    token,    \* timeout_task_: "null", or the task it names is "pending" or "fired"
    loose,    \* pending checkTimeout tasks of client_ that timeout_task_ does not name
    orphans,  \* a checkTimeout task of a closed client is pending
    owner,    \* where the owner's thread is: "idle", or in disconnect()
              \* before ("tearing") or after ("closing") teardown()
    pc,       \* where the event loop is
    locked,   \* the loop holds session_mutex_
    stale,    \* the client of the running callback is being given up ("late")
              \* or has lost what the callback works on ("freed")
    crashed,  \* the process is gone
    changes,  \* calls of setSessionTimeout so far
    overlapped \* history: such a call met a running checkTimeout, or
               \* disconnect() met a callback that works on the client

callVars == <<changes, overlapped>>
taskVars == <<token, loose, orphans>>
loopVars == <<pc, locked, stale>>
vars == <<client, conn, timeout, retried, taskVars, owner, loopVars, crashed, callVars>>

Requests == {"none", "DESCRIBE", "SETUP", "PLAY"}

Connection ==
    [request  : Requests,              \* the command that has no reply yet
     session  : BOOLEAN,               \* session_ is set
     left     : 0 .. MaxSubsessions,   \* subsessions iter_ has not visited
     video    : BOOLEAN,               \* has_video_
     sinks    : 0 .. MaxSubsessions,   \* subsessions whose sink is playing
     active   : BOOLEAN,               \* session_active_
     fresh    : BOOLEAN,               \* packets arrived since the last check
     reported : BOOLEAN]               \* history: a timeout was reported

NewConnection ==
    [request |-> "DESCRIBE", session |-> FALSE, left |-> 0, video |-> FALSE,
     sinks |-> 0, active |-> FALSE, fresh |-> FALSE, reported |-> FALSE]

\* "callback": a reply or a BYE has been dispatched and not been acted upon.
\* "activating": a PLAY reply holds session_mutex_.
\* "fired", "locking", "checking": the three stretches of checkTimeout.
InsideLive555 == {"callback", "activating", "fired", "locking", "checking"}

\* The loop is inside the StreamClient member that calls a handler, ...
Handlers == {"started", "failed", "failed454", "finished", "timedout"}

\* ... in a handler that has called disconnect(), or retries.
Places == {"idle", "disconnecting", "retry"} \cup InsideLive555 \cup Handlers

Init ==
    /\ client = FALSE
    /\ conn = [NewConnection EXCEPT !.request = "none"]
    /\ timeout = 0
    /\ retried = FALSE
    /\ token = "null" /\ loose = 0 /\ orphans = FALSE
    /\ owner = "idle"
    /\ pc = "idle" /\ locked = FALSE /\ stale = "no"
    /\ crashed = FALSE
    /\ changes = 0 /\ overlapped = FALSE

\* A callback that returns leaves nothing stale.
Goto(place) == pc' = place /\ stale' = IF place = "idle" THEN "no" ELSE stale

-----------------------------------------------------------------------------
(* Delayed tasks. timeout_task_ names at most one of the pending tasks.    *)

\* What becomes untracked when timeout_task_ is overwritten.
Untracked == IF token = "pending" THEN loose + 1 ELSE loose

\* timeout_task_ = scheduleDelayedTask(...), whatever timeout_task_ was.
Schedule ==
    /\ token' = "pending"
    /\ loose' = Untracked
    /\ UNCHANGED orphans

\* Mutant: teardown() leaves its task scheduled.
UnscheduleNot == UNCHANGED taskVars

\* unscheduleDelayedTask(timeout_task_), which a fired task ignores.
Unschedule ==
    /\ token' = "null"
    /\ UNCHANGED <<loose, orphans>>

\* Mutant: teardown() forgets to close the sinks.
TornDownKeepsSinks(c) == [c EXCEPT !.session = FALSE, !.active = FALSE]

\* teardown(): the session with its sinks is gone, and so is the named task.
TornDown(c) == [c EXCEPT !.session = FALSE, !.sinks = 0, !.active = FALSE]

\* Medium::close(client_) unschedules nothing.
CloseClient ==
    /\ client' = FALSE
    /\ conn' = [TornDown(conn) EXCEPT !.request = "none"]
    /\ token' = "null"
    /\ loose' = 0

\* disconnect() on the loop's own thread: no callback comes between its
\* halves, and client_mutex_ keeps the owner out.
HangUp ==
    /\ CloseClient
    /\ orphans' = (orphans \/ loose > 0)

-----------------------------------------------------------------------------
(* The owner's thread, which waits for client_mutex_ ("idle") and for      *)
(* session_mutex_ (~locked).                                               *)

Connect ==
    /\ ~crashed /\ owner = "idle" /\ ~client
    /\ client' = TRUE
    /\ conn' = NewConnection
    /\ UNCHANGED <<timeout, retried, taskVars, owner, loopVars, crashed, callVars>>

\* disconnect() takes client_mutex_ and finds a client.
Disconnect ==
    /\ ~crashed /\ owner = "idle" /\ client
    /\ owner' = "tearing"
    /\ UNCHANGED <<client, conn, timeout, retried, taskVars, loopVars, crashed, callVars>>

\* teardown(). A reply or a BYE that was dispatched before loses the session.
TearDown ==
    /\ ~crashed /\ owner = "tearing" /\ ~locked
    /\ owner' = "closing"
    /\ conn' = TornDown(conn)
    /\ Unschedule
    /\ stale' = IF pc = "idle" THEN "no"
                ELSE IF pc = "callback" \/ stale = "freed" THEN "freed"
                ELSE "late"
    /\ UNCHANGED <<client, timeout, retried, pc, locked, crashed, callVars>>

\* Medium::close(), without session_mutex_: a callback that runs loses the
\* client, and a task that a PLAY reply has scheduled meanwhile outlives it.
Close ==
    /\ ~crashed /\ owner = "closing"
    /\ owner' = "idle"
    /\ CloseClient
    /\ orphans' = (orphans \/ Untracked > 0)
    /\ IF pc \in InsideLive555
         THEN stale' = "freed" /\ locked' = FALSE
         ELSE UNCHANGED <<stale, locked>>
    /\ UNCHANGED <<timeout, retried, pc, crashed, callVars>>

\* Mutant: a changed timeout cancels the task of a playing session.
MustScheduleNot(t) == FALSE

MustSchedule(t) == client /\ t > 0 /\ conn.active

SetSessionTimeout(t) ==
    /\ ~crashed /\ owner = "idle" /\ ~locked
    /\ changes < MaxChanges
    /\ changes' = changes + 1
    /\ overlapped' = (overlapped \/ pc \in {"fired", "locking"})
    /\ timeout' = t
    /\ IF MustSchedule(t)
         THEN /\ token' = "pending"
              /\ conn' = [conn EXCEPT !.reported = FALSE]
         ELSE /\ token' = IF client THEN "null" ELSE token
              /\ UNCHANGED conn
    /\ UNCHANGED <<client, retried, loose, orphans, owner, loopVars, crashed>>

-----------------------------------------------------------------------------
(* The event loop: replies and the end of a source.                        *)

\* What a callback that is dispatched now works on: a reply to SETUP finds its
\* subsession destroyed once teardown() has been here.
StaleNow ==
    IF owner # "closing" THEN "no"
    ELSE IF conn.request = "SETUP" /\ ~conn.session THEN "freed"
    ELSE "late"

\* live555 enters a callback of the connected client.
Dispatch ==
    /\ ~crashed /\ client /\ pc = "idle"
    /\ conn.request # "none" \/ conn.sinks > 0
    /\ pc' = "callback"
    /\ stale' = StaleNow
    /\ UNCHANGED <<client, conn, timeout, retried, taskVars, owner, locked, crashed, callVars>>

InCallback == ~crashed /\ pc = "callback" /\ stale # "freed"

\* The callback ends by reporting a failure of the handshake.
Fail(c) ==
    /\ conn' = [TornDown(c) EXCEPT !.request = "none"]
    /\ pc' \in {"failed", "failed454"}
    /\ Unschedule
    /\ UNCHANGED stale

\* setupNextSubsession() on connection c: unsupported subsessions and those
\* behind the first video are skipped without a request.
SetupNext(c) ==
    \/ /\ ~c.video
       /\ \E n \in 0 .. MaxSubsessions :
            /\ n < c.left
            /\ conn' = [c EXCEPT !.request = "SETUP", !.left = n]
       /\ Goto("idle")
       /\ UNCHANGED taskVars
    \/ /\ c.video
       /\ conn' = [c EXCEPT !.request = "PLAY", !.left = 0]
       /\ Goto("idle")
       /\ UNCHANGED taskVars
    \/ /\ ~c.video
       /\ Fail([c EXCEPT !.left = 0])
       /\ pc' = "failed"

DescribeReply ==
    /\ InCallback /\ conn.request = "DESCRIBE"
    /\ \/ Fail(conn)
       \/ \E n \in 1 .. MaxSubsessions :
            SetupNext([conn EXCEPT !.session = TRUE, !.left = n, !.video = FALSE])
    /\ UNCHANGED <<client, timeout, retried, owner, locked, crashed, callVars>>

\* Mutant: has_video_ is not set.
WithoutVideo == [conn EXCEPT !.sinks = @ + 1]

\* The subsession has a sink.
WithVideo == [conn EXCEPT !.sinks = @ + 1, !.video = TRUE]

\* Mutant: a refused SETUP does not go on to the next subsession.
IgnoreStops == UNCHANGED <<conn, taskVars>> /\ Goto("idle")

Ignore == SetupNext(conn)

\* A refused SETUP and an exception while the sink is created are ignored.
SetupReply ==
    /\ InCallback /\ conn.request = "SETUP"
    /\ SetupNext(WithVideo) \/ Ignore
    /\ UNCHANGED <<client, timeout, retried, owner, locked, crashed, callVars>>

\* A reply to PLAY takes session_mutex_, or reports a failure.
PlayReply ==
    /\ InCallback /\ conn.request = "PLAY"
    /\ \/ /\ locked' = TRUE
          /\ Goto("activating")
          /\ UNCHANGED <<conn, taskVars>>
       \/ Fail(conn) /\ UNCHANGED locked
    /\ UNCHANGED <<client, timeout, retried, owner, crashed, callVars>>

\* The session is active, although teardown() may have been here meanwhile.
Activate ==
    /\ ~crashed /\ pc = "activating" /\ stale # "freed"
    /\ conn' = [conn EXCEPT !.request = "none", !.active = TRUE]
    /\ IF timeout > 0 THEN Schedule ELSE UNCHANGED taskVars
    /\ locked' = FALSE
    /\ Goto("started")
    /\ overlapped' = (overlapped \/ owner = "closing")
    /\ UNCHANGED <<client, timeout, retried, owner, crashed, changes>>

\* Mutant: the end of a source is counted although none is playing.
ByeOfAnySource ==
    /\ InCallback
    /\ IF conn.sinks # 1
         THEN /\ conn' = [conn EXCEPT !.sinks = @ - 1]
              /\ Goto("idle")
              /\ UNCHANGED taskVars
         ELSE /\ conn' = TornDown(conn)
              /\ Goto("finished")
              /\ Unschedule
    /\ UNCHANGED <<client, timeout, retried, owner, locked, crashed, callVars>>

\* subsessionAfterPlaying(): the server said BYE or the source was closed.
\* It may come before PLAY is answered.
Bye ==
    /\ InCallback /\ conn.sinks > 0
    /\ IF conn.sinks > 1
         THEN /\ conn' = [conn EXCEPT !.sinks = @ - 1]
              /\ Goto("idle")
              /\ UNCHANGED taskVars
         ELSE /\ conn' = TornDown(conn)
              /\ Goto("finished")
              /\ Unschedule
    /\ UNCHANGED <<client, timeout, retried, owner, locked, crashed, callVars>>

Packet ==
    /\ ~crashed /\ client /\ conn.sinks > 0 /\ pc = "idle"
    /\ conn' = [conn EXCEPT !.fresh = TRUE]
    /\ UNCHANGED <<client, timeout, retried, taskVars, owner, loopVars, crashed, callVars>>

-----------------------------------------------------------------------------
(* The event loop: checkTimeout.                                           *)

FireTask ==
    /\ ~crashed /\ pc = "idle"
    /\ \/ token = "pending" /\ token' = "fired" /\ UNCHANGED loose
       \/ loose > 0 /\ loose' = loose - 1 /\ UNCHANGED token
    /\ pc' = "fired"
    /\ stale' = IF owner = "closing" THEN "late" ELSE "no"
    /\ UNCHANGED <<client, conn, timeout, retried, orphans, owner, locked, crashed, callVars>>

\* A task that outlived its client works on freed memory.
OrphanFires ==
    /\ ~crashed /\ pc = "idle" /\ orphans
    /\ orphans' \in BOOLEAN
    /\ crashed' \in BOOLEAN
    /\ UNCHANGED <<client, conn, timeout, retried, token, loose, owner, loopVars, callVars>>

\* timeout_task_ = nullptr, before session_mutex_ is taken.
ClearToken ==
    /\ ~crashed /\ pc = "fired" /\ stale # "freed"
    /\ token' = "null"
    /\ loose' = Untracked
    /\ pc' = "locking"
    /\ UNCHANGED <<client, conn, timeout, retried, orphans, owner, locked, stale, crashed,
                   callVars>>

LockSession ==
    /\ ~crashed /\ pc = "locking" /\ stale # "freed"
    /\ locked' = TRUE
    /\ pc' = "checking"
    /\ UNCHANGED <<client, conn, timeout, retried, taskVars, owner, stale, crashed, callVars>>

\* Mutant: the timeout is reported with session_mutex_ held.
UnlockLate == locked' = (conn.session /\ ~conn.fresh)

Unlock == locked' = FALSE

\* Mutant: the silence of a session that has ended is reported, too.
HasSessionAlways == TRUE

HasSession == conn.session

\* Mutant: the task is not scheduled again after packets have arrived.
CheckAgainNot == UNCHANGED taskVars

CheckAgain == Schedule

\* The body under session_mutex_. The new delay is timeout_, even if it is 0;
\* the lock is released before the silence is reported.
CheckSession ==
    /\ ~crashed /\ pc = "checking" /\ stale # "freed"
    /\ Unlock
    /\ \/ /\ ~HasSession
          /\ Goto("idle")
          /\ UNCHANGED <<conn, taskVars>>
       \/ /\ HasSession /\ conn.fresh
          /\ conn' = [conn EXCEPT !.fresh = FALSE]
          /\ CheckAgain
          /\ Goto("idle")
       \/ /\ HasSession /\ ~conn.fresh
          /\ conn' = [conn EXCEPT !.reported = TRUE]
          /\ Goto("timedout")
          /\ UNCHANGED taskVars
    /\ UNCHANGED <<client, timeout, retried, owner, crashed, callVars>>

\* A callback goes on in freed memory: the process dies, or the callback comes
\* to any end it can, and may leave a task behind.
UseAfterClose ==
    /\ ~crashed /\ stale = "freed"
    /\ crashed' \in BOOLEAN
    /\ \E place \in {"idle"} \cup Handlers :
         pc' = place /\ stale' = IF place = "idle" THEN "no" ELSE "late"
    /\ orphans' \in {orphans, TRUE}
    /\ overlapped' = TRUE
    /\ UNCHANGED <<client, conn, timeout, retried, token, loose, owner, locked, changes>>

-----------------------------------------------------------------------------
(* The event loop: StreamClient calls the owner's handlers.                *)

SessionStarted ==
    /\ ~crashed /\ pc = "started"
    /\ retried' = FALSE
    /\ Goto("idle")
    /\ UNCHANGED <<client, conn, timeout, taskVars, owner, locked, crashed, callVars>>

MustRetry == pc = "failed454" /\ ~retried

\* sessionFailed(), sessionFinished(), sessionTimeout(): the handler either
\* leaves the client alone and the callback returns, or calls disconnect().
Report ==
    /\ ~crashed /\ pc \in {"failed", "failed454", "finished", "timedout"} /\ ~MustRetry
    /\ \/ Goto("idle") /\ locked' = FALSE
       \/ Goto("disconnecting") /\ UNCHANGED locked
    /\ UNCHANGED <<client, conn, timeout, retried, taskVars, owner, crashed, callVars>>

\* disconnect() of the client there is now, which may be a newer one.
HandlerDisconnects ==
    /\ ~crashed /\ pc = "disconnecting" /\ owner = "idle" /\ ~locked
    /\ IF client THEN HangUp ELSE UNCHANGED <<client, conn, taskVars>>
    /\ Goto("idle")
    /\ UNCHANGED <<timeout, retried, owner, locked, crashed, callVars>>

\* Mutant: the retry is not remembered.
RememberNot == UNCHANGED retried

\* retried_on_454_error_
Remember == retried' = TRUE

\* sessionFailed(454): first disconnect(), then connect(), client_mutex_ is
\* free in between.
RetryDisconnect ==
    /\ ~crashed /\ MustRetry /\ owner = "idle" /\ ~locked
    /\ Remember
    /\ pc' = "retry" /\ stale' = "late"
    /\ IF client THEN HangUp ELSE UNCHANGED <<client, conn, taskVars>>
    /\ UNCHANGED <<timeout, owner, locked, crashed, callVars>>

\* connect() throws if the owner's thread has connected in between, and the
\* callback is noexcept.
RetryConnect ==
    /\ ~crashed /\ pc = "retry" /\ owner = "idle"
    /\ IF client
         THEN crashed' = TRUE /\ UNCHANGED <<client, conn, pc, stale>>
         ELSE client' = TRUE /\ conn' = NewConnection /\ Goto("idle")
              /\ UNCHANGED crashed
    /\ UNCHANGED <<timeout, retried, taskVars, owner, locked, callVars>>

-----------------------------------------------------------------------------

CheckTimeout == FireTask \/ ClearToken \/ LockSession \/ CheckSession

Reply == DescribeReply \/ SetupReply \/ PlayReply \/ Activate

Owner ==
    Connect \/ Disconnect \/ TearDown \/ Close \/ (\E t \in Timeouts : SetSessionTimeout(t))

Notify == SessionStarted \/ Report \/ HandlerDisconnects \/ RetryDisconnect \/ RetryConnect

Next ==
    \/ Owner
    \/ Dispatch \/ Reply \/ Bye \/ Packet
    \/ CheckTimeout \/ OrphanFires \/ UseAfterClose
    \/ Notify

Spec == Init /\ [][Next]_vars

\* The loop keeps running: it fires due tasks and finishes what it has begun,
\* and so does a disconnect(). Whoever waits for a mutex that is free again and
\* again gets it.
\* Nothing is assumed of what the owner and the network begin.
Fairness ==
    /\ WF_vars(FireTask)
    /\ WF_vars(ClearToken \/ LockSession \/ CheckSession \/ UseAfterClose)
    /\ WF_vars(Reply \/ Bye)
    /\ SF_vars(Notify)
    /\ SF_vars(TearDown) /\ WF_vars(Close)

FairSpec == Spec /\ Fairness

\* In addition every request is answered; a stream need not end.
AnsweredSpec == FairSpec /\ WF_vars(conn.request # "none" /\ Dispatch)

-----------------------------------------------------------------------------
(* Properties.                                                             *)

\* Every variable stays in its range; in particular a source ends at most
\* as often as one was started.
TypeOK ==
    /\ client \in BOOLEAN
    /\ conn \in Connection
    /\ timeout \in Timeouts
    /\ retried \in BOOLEAN
    /\ token \in {"null", "pending", "fired"}
    /\ loose \in Nat /\ orphans \in BOOLEAN
    /\ owner \in {"idle", "tearing", "closing"} /\ pc \in Places
    /\ locked \in BOOLEAN /\ stale \in {"no", "late", "freed"} /\ crashed \in BOOLEAN
    /\ changes \in 0 .. MaxChanges /\ overlapped \in BOOLEAN

\* One connection never plays two video subsessions, however many the server
\* announces and refuses: no SETUP is on its way once a sink exists.
AtMostOneVideoSink ==
    /\ conn.sinks <= 1
    /\ conn.sinks = 1 => conn.request \in {"none", "PLAY"}

\* A playing session with a timeout always has a check ahead of it, until a
\* timeout has been reported: no order of replies, checks and changes of
\* the timeout loses the last task.
ActiveSessionIsWatched ==
    client /\ conn.active /\ conn.session /\ timeout > 0 /\ ~conn.reported
      => token = "pending" \/ loose > 0 \/ pc \in {"fired", "locking", "checking"}

\* timeout_task_ names the only task there is, none outlives its client, and an
\* unlimited session has none. Two races are the exception, and "overlapped"
\* says that one of them has happened: setSessionTimeout() meets a check that
\* is about to clear or overwrite timeout_task_ (ClearToken), or disconnect()
\* meets a callback that still works on the client, or PLAY is answered between
\* its halves (Activate).
TokenNamesTheOnlyTask ==
    ~overlapped =>
        /\ loose = 0 /\ ~orphans
        /\ timeout = 0 => token # "pending"
        /\ ~client => token = "null"

\* What a client names and counts goes with it: a closed one has no request, no
\* session, no sink and no task that a later connection would inherit, and a
\* handshake is not watched before its session is active. (Tasks that outlive
\* a client are TokenNamesTheOnlyTask's.)
TornDownCompletely ==
    /\ ~client => conn.request = "none" /\ ~conn.session /\ token # "pending" /\ loose = 0
    /\ ~conn.session => conn.sinks = 0
    /\ conn.request # "none" => token = "null" /\ loose = 0 /\ ~conn.active

\* The owner's view of the connection.
Session ==
    INSTANCE ClientSession WITH
        phase <- IF ~client THEN "closed"
                 ELSE IF owner = "closing" THEN "closing"
                 ELSE IF conn.request = "PLAY" /\ ~conn.session THEN "ended"
                 ELSE IF conn.request # "none" THEN "setup"
                 ELSE IF conn.active /\ conn.session THEN "playing"
                 ELSE "over",
        owed  <- IF pc \in {"idle", "disconnecting"} \cup InsideLive555 THEN "none"
                 ELSE IF pc = "failed454" THEN "failed"
                 ELSE pc,
        callback <- IF pc = "idle" THEN "none"
                    ELSE IF stale = "no" THEN "current"
                    ELSE "late"

\* The protocol, the timer and the retry only ever produce the life cycle
\* that ClientSession promises to the owner.
RefinesClientSession == Session!SessionSpec

\* A camera that keeps answering 454 is not retried forever: the workaround
\* is used again only after a session has started.
RetriesNeedStarts == ([]<>(pc = "retry" /\ ~crashed)) => ([]<>(pc = "started"))

\* When every request is answered, a handshake ends with a notification
\* whatever subsets of the subsessions are unsupported or refused, unless
\* the connection is given up or replaced first.
HandshakeConcludes ==
    conn.request # "none" ~> pc \in {"started", "failed", "failed454"} \/ ~client \/ crashed

\* A session that stays silent is reported.
StallIsReported ==
    client /\ conn.active /\ conn.session /\ timeout > 0 /\ ~conn.reported /\ ~conn.fresh
      ~> \/ conn.fresh \/ pc = "timedout"
         \/ ~client \/ ~conn.session \/ timeout = 0 \/ crashed

\* disconnect() returns: with client_mutex_ held it waits for session_mutex_,
\* which the loop never keeps while it waits for client_mutex_.
DisconnectReturns == owner # "idle" ~> owner = "idle" \/ crashed

=============================================================================
