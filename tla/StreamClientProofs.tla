------------------------- MODULE StreamClientProofs -------------------------
(***************************************************************************)
(* What StreamClient guarantees for all timeouts and any number of         *)
(* subsessions: the invariants that StreamClient.cfg checks on a small     *)
(* instance, and that it implements ClientSession.                         *)
(***************************************************************************)
EXTENDS StreamClient, TLAPS

InTask == {"fired", "locking", "checking"}

\* The handshake: what has been set up when a request is on its way. Only the
\* owner takes the session of a SETUP away, and its reply is then lost.
Handshake ==
    /\ conn.request = "SETUP" =>
         /\ ~conn.video /\ conn.sinks = 0 /\ MaxSubsessions > 0
         /\ conn.session \/ owner = "closing"
         /\ pc = "callback" /\ stale # "freed" => conn.session
    /\ conn.request = "DESCRIBE" => conn.sinks = 0

\* The loop: it holds the lock in two places, and only there. A callback that
\* is not stale works on the client of an owner who is not closing it; a late one
\* inside live555 on a client that is being closed; one that has lost its client
\* may outlive the next one, but only before that plays.
LoopState ==
    /\ locked <=> pc \in {"checking", "activating"} /\ stale # "freed"
    /\ pc = "idle" => stale = "no"
    /\ pc \in {"disconnecting", "retry"} \cup Handlers => stale # "freed"
    /\ stale = "freed" => ~conn.active
    /\ pc \in InsideLive555 /\ stale # "freed" =>
         client /\ (stale = "late" => owner = "closing")
    /\ pc \in InTask /\ stale # "freed" => conn.request = "none"
    /\ pc = "activating" /\ stale # "freed" => conn.request = "PLAY"

\* The owner: disconnect() has a client as long as it runs, and callbacks are
\* late once teardown() is over.
OwnerState ==
    /\ owner # "idle" => client
    /\ owner = "closing" /\ stale = "no" => pc = "idle"

\* The task: while a check runs that no setSessionTimeout() has met, it has
\* taken the only task with it, and the timeout is finite. A client that is
\* being closed has no task, and a check that runs meanwhile no session.
TaskState ==
    /\ ~client => token = "null"
    /\ ~overlapped /\ stale # "freed" /\ pc \in InTask =>
         /\ timeout > 0
         /\ token # "pending"
    /\ ~overlapped /\ owner = "closing" =>
         /\ token # "pending"
         /\ pc \in InTask => ~conn.session

Relations ==
    /\ AtMostOneVideoSink
    /\ TornDownCompletely
    /\ TokenNamesTheOnlyTask
    /\ ActiveSessionIsWatched
    /\ Handshake
    /\ LoopState
    /\ OwnerState
    /\ TaskState

IInv == TypeOK /\ Relations

-----------------------------------------------------------------------------

\* A member of the connection can be changed within its range.
LEMMA ChangedConnection ==
    \A c \in Connection :
      /\ \A r \in Requests : [c EXCEPT !.request = r] \in Connection
      /\ \A b \in BOOLEAN :
           /\ [c EXCEPT !.session = b] \in Connection
           /\ [c EXCEPT !.video = b] \in Connection
           /\ [c EXCEPT !.active = b] \in Connection
           /\ [c EXCEPT !.fresh = b] \in Connection
           /\ [c EXCEPT !.reported = b] \in Connection
      /\ \A n \in 0 .. MaxSubsessions :
           /\ [c EXCEPT !.left = n] \in Connection
           /\ [c EXCEPT !.sinks = n] \in Connection
<1> TAKE c \in Connection
<1>1. \A r \in Requests : [c EXCEPT !.request = r] \in Connection
  BY Zenon DEF Connection
<1>2. ASSUME NEW b \in BOOLEAN PROVE [c EXCEPT !.session = b] \in Connection
  BY Zenon DEF Connection
<1>3. ASSUME NEW b \in BOOLEAN PROVE [c EXCEPT !.video = b] \in Connection
  BY Zenon DEF Connection
<1>4. ASSUME NEW b \in BOOLEAN PROVE [c EXCEPT !.active = b] \in Connection
  BY Zenon DEF Connection
<1>5. ASSUME NEW b \in BOOLEAN PROVE [c EXCEPT !.fresh = b] \in Connection
  BY Zenon DEF Connection
<1>6. ASSUME NEW b \in BOOLEAN PROVE [c EXCEPT !.reported = b] \in Connection
  BY Zenon DEF Connection
<1>7. \A n \in 0 .. MaxSubsessions : [c EXCEPT !.left = n] \in Connection
  BY Zenon DEF Connection
<1>8. \A n \in 0 .. MaxSubsessions : [c EXCEPT !.sinks = n] \in Connection
  BY Zenon DEF Connection
<1> QED
  BY <1>1, <1>2, <1>3, <1>4, <1>5, <1>6, <1>7, <1>8

\* connect() starts from a connection in range.
LEMMA NewConnectionType == NewConnection \in Connection
<1>1. 0 \in 0 .. MaxSubsessions
  BY BoundsAssumption
<1> QED
  BY <1>1 DEF NewConnection, Connection, Requests

\* teardown() leaves the handshake alone and the media stopped.
LEMMA TornDownConnection ==
    ASSUME NEW c \in Connection
    PROVE  /\ TornDown(c) \in Connection
           /\ ~TornDown(c).session /\ TornDown(c).sinks = 0 /\ ~TornDown(c).active
           /\ TornDown(c).request = c.request
<1>1. 0 \in 0 .. MaxSubsessions
  BY BoundsAssumption
<1>2. [c EXCEPT !.session = FALSE] \in Connection
  BY ChangedConnection
<1>3. [c EXCEPT !.session = FALSE, !.sinks = 0] \in Connection
  BY <1>1, <1>2, ChangedConnection
<1>4. TornDown(c) \in Connection
  BY <1>3, ChangedConnection DEF TornDown
<1>5. /\ TornDown(c).session = FALSE /\ TornDown(c).sinks = 0 /\ TornDown(c).active = FALSE
      /\ TornDown(c).request = c.request
  BY Zenon DEF TornDown, Connection
<1> QED
  BY <1>4, <1>5

\* A closed client has no request, no media and no task of its own.
LEMMA ClosedClient ==
    ASSUME TypeOK, CloseClient
    PROVE  /\ client' = FALSE
           /\ conn' \in Connection /\ conn'.request = "none"
           /\ ~conn'.session /\ conn'.sinks = 0 /\ ~conn'.active
           /\ token' = "null" /\ loose' = 0
<1>1. conn \in Connection
  BY DEF TypeOK
<1>2. conn' = [TornDown(conn) EXCEPT !.request = "none"]
  BY DEF CloseClient
<1>3. TornDown(conn) \in Connection
  BY <1>1, TornDownConnection
<1>4. conn' \in Connection
  BY <1>2, <1>3, ChangedConnection DEF Requests
<1>5. /\ conn'.request = "none" /\ conn'.session = TornDown(conn).session
      /\ conn'.sinks = TornDown(conn).sinks /\ conn'.active = TornDown(conn).active
  BY <1>2, <1>3, Zenon DEF Connection
<1> QED
  BY <1>1, <1>4, <1>5, TornDownConnection DEF CloseClient

\* Where that leaves the invariant.
LEMMA ClosedRelations ==
    ASSUME IInv, CloseClient, owner' = "idle", LoopState', OwnerState', ~overlapped' => ~orphans',
           pc' \in InTask => stale' = "freed"
    PROVE  conn' \in Connection /\ Relations'
<1>1. /\ client' = FALSE
      /\ conn' \in Connection /\ conn'.request = "none"
      /\ ~conn'.session /\ conn'.sinks = 0 /\ ~conn'.active
      /\ token' = "null" /\ loose' = 0
  BY ClosedClient DEF IInv
<1>2. AtMostOneVideoSink' /\ TornDownCompletely' /\ Handshake'
  BY <1>1 DEF AtMostOneVideoSink, TornDownCompletely, Handshake
<1>3. TokenNamesTheOnlyTask' /\ ActiveSessionIsWatched'
  BY <1>1 DEF TokenNamesTheOnlyTask, ActiveSessionIsWatched
<1>4. TaskState'
  BY <1>1 DEF TaskState
<1> QED
  BY <1>1, <1>2, <1>3, <1>4 DEF Relations

\* A failed handshake leaves the same behind, with the client still there.
LEMMA FailedHandshake ==
    ASSUME NEW c \in Connection, Fail(c)
    PROVE  /\ conn' \in Connection /\ conn'.request = "none"
           /\ ~conn'.session /\ conn'.sinks = 0 /\ ~conn'.active
           /\ token' = "null" /\ UNCHANGED <<loose, orphans, stale>>
           /\ pc' \in {"failed", "failed454"}
<1>1. conn' = [TornDown(c) EXCEPT !.request = "none"]
  BY DEF Fail
<1>2. TornDown(c) \in Connection
  BY TornDownConnection
<1>3. conn' \in Connection
  BY <1>1, <1>2, ChangedConnection DEF Requests
<1>4. /\ conn'.request = "none" /\ conn'.session = TornDown(c).session
      /\ conn'.sinks = TornDown(c).sinks /\ conn'.active = TornDown(c).active
  BY <1>1, <1>2, Zenon DEF Connection
<1> QED
  BY <1>3, <1>4, TornDownConnection DEF Fail, Unschedule

\* setupNextSubsession() sends SETUP only while no video has been set up,
\* PLAY only afterwards, and otherwise fails.
LEMMA NextSubsession ==
    ASSUME NEW c \in Connection, SetupNext(c), token = "null"
    PROVE  /\ conn' \in Connection
           /\ token' = "null" /\ UNCHANGED <<loose, orphans>>
           /\ \/ /\ pc' = "idle" /\ conn'.request = "SETUP"
                 /\ ~c.video /\ ~conn'.video /\ MaxSubsessions > 0
                 /\ conn'.session = c.session /\ conn'.sinks = c.sinks
                 /\ conn'.active = c.active /\ stale' = "no"
              \/ /\ pc' = "idle" /\ conn'.request = "PLAY" /\ c.video
                 /\ conn'.session = c.session /\ conn'.sinks = c.sinks
                 /\ conn'.active = c.active /\ stale' = "no"
              \/ /\ pc' = "failed" /\ conn'.request = "none"
                 /\ ~conn'.session /\ conn'.sinks = 0 /\ ~conn'.active /\ stale' = stale
<1>0. 0 \in 0 .. MaxSubsessions /\ "SETUP" \in Requests /\ "PLAY" \in Requests
  BY BoundsAssumption DEF Requests
<1>1. CASE /\ ~c.video
           /\ \E n \in 0 .. MaxSubsessions :
                n < c.left /\ conn' = [c EXCEPT !.request = "SETUP", !.left = n]
           /\ Goto("idle") /\ UNCHANGED taskVars
  <2>1. PICK n \in 0 .. MaxSubsessions :
          n < c.left /\ conn' = [c EXCEPT !.request = "SETUP", !.left = n]
    BY <1>1
  <2>2. [c EXCEPT !.request = "SETUP"] \in Connection
    BY <1>0, ChangedConnection
  <2>3. conn' \in Connection
    BY <2>1, <2>2, ChangedConnection
  <2>4. /\ conn'.request = "SETUP" /\ conn'.video = c.video /\ conn'.session = c.session
        /\ conn'.sinks = c.sinks /\ conn'.active = c.active
    BY <2>1, Zenon DEF Connection
  <2>5. MaxSubsessions > 0
    BY <2>1, BoundsAssumption DEF Connection
  <2> QED
    BY <1>1, <2>3, <2>4, <2>5 DEF taskVars, Goto
<1>2. CASE /\ c.video
           /\ conn' = [c EXCEPT !.request = "PLAY", !.left = 0]
           /\ Goto("idle") /\ UNCHANGED taskVars
  <2>1. [c EXCEPT !.request = "PLAY"] \in Connection
    BY <1>0, ChangedConnection
  <2>2. conn' \in Connection
    BY <1>0, <1>2, <2>1, ChangedConnection
  <2>3. /\ conn'.request = "PLAY" /\ conn'.session = c.session
        /\ conn'.sinks = c.sinks /\ conn'.active = c.active
    BY <1>2, Zenon DEF Connection
  <2> QED
    BY <1>2, <2>2, <2>3 DEF taskVars, Goto
<1>3. CASE ~c.video /\ Fail([c EXCEPT !.left = 0]) /\ pc' = "failed"
  <2>1. [c EXCEPT !.left = 0] \in Connection
    BY <1>0, ChangedConnection
  <2> QED
    BY <1>3, <2>1, FailedHandshake
<1> QED
  BY <1>1, <1>2, <1>3 DEF SetupNext

-----------------------------------------------------------------------------

\* Every variable but the connection stays in its range, whatever happens.
LEMMA TypeStep ==
    ASSUME TypeOK, [Next]_vars, conn' \in Connection
    PROVE  TypeOK'
<1> USE BoundsAssumption DEF TypeOK, callVars, taskVars, loopVars
<1>p. /\ "idle" \in Places /\ Handlers \subseteq Places /\ InsideLive555 \subseteq Places
      /\ "disconnecting" \in Places /\ "retry" \in Places
      /\ {"started", "failed", "failed454", "finished", "timedout"} \subseteq Places
      /\ {"callback", "activating", "fired", "locking", "checking"} \subseteq Places
  BY DEF Places, Handlers, InsideLive555
<1>1. CASE Connect
  BY <1>1 DEF Connect
<1>2. CASE Disconnect
  BY <1>2 DEF Disconnect
<1>3. CASE TearDown
  BY <1>3 DEF TearDown, Unschedule
<1>4. CASE Close
  BY <1>4 DEF Close, CloseClient
<1>5. ASSUME NEW t \in Timeouts, SetSessionTimeout(t) PROVE TypeOK'
  BY <1>5 DEF SetSessionTimeout
<1>6. CASE Dispatch \/ Packet \/ OrphanFires
  BY <1>p, <1>6 DEF Dispatch, StaleNow, Packet, OrphanFires
<1>7. CASE DescribeReply
  BY <1>p, <1>7 DEF DescribeReply, SetupNext, Fail, Unschedule, Goto
<1>8. CASE SetupReply
  BY <1>p, <1>8 DEF SetupReply, SetupNext, Fail, Unschedule, Ignore, Goto
<1>9. CASE PlayReply
  BY <1>p, <1>9 DEF PlayReply, Fail, Unschedule, Goto
<1>10. CASE Activate
  <2>1. loose' \in Nat /\ token' \in {"null", "pending", "fired"} /\ orphans' \in BOOLEAN
    BY <1>10 DEF Activate, Schedule, Untracked
  <2>2. pc' \in Places /\ stale' \in {"no", "late", "freed"} /\ overlapped' \in BOOLEAN
    BY <1>p, <1>10 DEF Activate, Goto
  <2> QED
    BY <1>10, <2>1, <2>2 DEF Activate
<1>11. CASE Bye
  BY <1>p, <1>11 DEF Bye, Unschedule, Goto
<1>12. CASE FireTask
  BY <1>p, <1>12 DEF FireTask
<1>13. CASE ClearToken \/ LockSession
  <2>1. CASE ClearToken
    BY <1>p, <2>1 DEF ClearToken, Untracked
  <2>2. CASE LockSession
    BY <1>p, <2>2 DEF LockSession
  <2> QED
    BY <1>13, <2>1, <2>2
<1>14. CASE CheckSession
  <2>1. loose' \in Nat /\ token' \in {"null", "pending", "fired"} /\ orphans' \in BOOLEAN
    BY <1>14 DEF CheckSession, CheckAgain, Schedule, Untracked
  <2>2. pc' \in Places /\ stale' \in {"no", "late", "freed"}
    BY <1>p, <1>14 DEF CheckSession, Goto
  <2> QED
    BY <1>14, <2>1, <2>2 DEF CheckSession, Unlock
<1>15. CASE UseAfterClose
  BY <1>p, <1>15 DEF UseAfterClose
<1>16. CASE SessionStarted \/ Report
  BY <1>p, <1>16 DEF SessionStarted, Report, Goto
<1>17. CASE HandlerDisconnects
  <2>1. CASE client
    <3>1. client' = FALSE /\ token' = "null" /\ loose' = 0 /\ orphans' \in BOOLEAN
      <4>1. HangUp
        BY <1>17, <2>1 DEF HandlerDisconnects
      <4>2. orphans' \in BOOLEAN
        BY <4>1, Zenon DEF HangUp
      <4> QED
        BY <4>1, <4>2 DEF HangUp, CloseClient
    <3> QED
      BY <1>p, <1>17, <3>1 DEF HandlerDisconnects, Goto
  <2>2. CASE ~client
    BY <1>p, <1>17, <2>2 DEF HandlerDisconnects, Goto
  <2> QED
    BY <2>1, <2>2
<1>18. CASE RetryDisconnect
  <2>1. CASE client
    <3>1. client' = FALSE /\ token' = "null" /\ loose' = 0 /\ orphans' \in BOOLEAN
      <4>1. HangUp
        BY <1>18, <2>1 DEF RetryDisconnect
      <4>2. orphans' \in BOOLEAN
        BY <4>1, Zenon DEF HangUp
      <4> QED
        BY <4>1, <4>2 DEF HangUp, CloseClient
    <3> QED
      BY <1>p, <1>18, <3>1 DEF RetryDisconnect, Remember
  <2>2. CASE ~client
    BY <1>p, <1>18, <2>2 DEF RetryDisconnect, Remember
  <2> QED
    BY <2>1, <2>2
<1>19. CASE RetryConnect
  BY <1>p, <1>19 DEF RetryConnect, Goto
<1>20. CASE UNCHANGED vars
  BY <1>20 DEF vars
<1> QED
  BY <1>1, <1>2, <1>3, <1>4, <1>5, <1>6, <1>7, <1>8, <1>9, <1>10, <1>11, <1>12, <1>13, <1>14,
     <1>15, <1>16, <1>17, <1>18, <1>19, <1>20
  DEF Next, Owner, Reply, CheckTimeout, Notify

\* A StreamClient that has not connected satisfies the invariant.
LEMMA InitIInv == Init => IInv
<1> SUFFICES ASSUME Init PROVE IInv
  OBVIOUS
<1>1. conn \in Connection
  BY NewConnectionType, ChangedConnection DEF Init, Requests
<1>2. conn.request = "none" /\ conn.session = FALSE /\ conn.sinks = 0
      /\ conn.active = FALSE
  BY DEF Init, NewConnection
<1>3. TypeOK
  <2>1. pc \in Places /\ 0 \in 0 .. MaxChanges /\ 0 \in Timeouts
    BY TimeoutsAssumption, BoundsAssumption DEF Init, Places
  <2> QED
    BY <1>1, <2>1 DEF Init, TypeOK
<1>4. AtMostOneVideoSink /\ TornDownCompletely /\ TokenNamesTheOnlyTask /\ ActiveSessionIsWatched
  BY <1>2 DEF Init, AtMostOneVideoSink, TornDownCompletely, TokenNamesTheOnlyTask,
              ActiveSessionIsWatched
<1>5. Handshake /\ LoopState /\ OwnerState /\ TaskState
  BY <1>2 DEF Init, Handshake, LoopState, OwnerState, TaskState, InTask, InsideLive555, Handlers
<1> QED
  BY <1>3, <1>4, <1>5 DEF IInv, Relations

\* Every step of the owner, the network and the event loop preserves it.
LEMMA StepIInv == IInv /\ [Next]_vars => IInv'
<1> SUFFICES ASSUME IInv, [Next]_vars PROVE IInv'
  OBVIOUS
<1>a. conn \in Connection /\ TypeOK
  BY DEF IInv, TypeOK
<1>b. /\ conn.request \in Requests /\ conn.session \in BOOLEAN /\ conn.video \in BOOLEAN
      /\ conn.sinks \in 0 .. MaxSubsessions /\ conn.active \in BOOLEAN
      /\ conn.fresh \in BOOLEAN /\ conn.reported \in BOOLEAN
      /\ conn.left \in 0 .. MaxSubsessions
  BY <1>a DEF Connection
<1>c. timeout \in Nat /\ loose \in Nat
  BY TimeoutsAssumption DEF IInv, TypeOK
<1>d. SUFFICES conn' \in Connection /\ Relations'
  BY <1>a, TypeStep DEF IInv
<1> USE BoundsAssumption
    DEF IInv, Relations, AtMostOneVideoSink, TornDownCompletely, TokenNamesTheOnlyTask,
        ActiveSessionIsWatched, Handshake, LoopState, OwnerState, TaskState, InTask,
        InsideLive555, Handlers, Goto, callVars, taskVars, loopVars
<1>1. CASE Connect
  <2>1. conn' \in Connection
    BY <1>1, NewConnectionType DEF Connect
  <2>2. conn'.request = "DESCRIBE" /\ ~conn'.session /\ conn'.sinks = 0 /\ ~conn'.active
    BY <1>1 DEF Connect, NewConnection
  <2> QED
    BY <1>1, <2>1, <2>2 DEF Connect
<1>2. CASE Disconnect
  BY <1>2, <1>a DEF Disconnect
<1>3. CASE TearDown
  <2>1. /\ conn' \in Connection /\ conn'.request = conn.request
        /\ ~conn'.session /\ conn'.sinks = 0 /\ ~conn'.active
    BY <1>3, <1>a, TornDownConnection DEF TearDown
  <2>2. conn'.video = conn.video
    BY <1>3, <1>a, Zenon DEF TearDown, TornDown, Connection
  <2> QED
    BY <1>3, <1>b, <2>1, <2>2 DEF TearDown, Unschedule
<1>4. CASE Close
  <2>1. ~conn'.active /\ CloseClient /\ client' = FALSE
    BY <1>4, <1>a, ClosedClient DEF Close
  <2>2. ~overlapped => token # "pending" /\ loose = 0 /\ ~orphans
    BY <1>4 DEF Close
  <2>3. ~overlapped' => ~orphans'
    <3>1. ~overlapped => ~orphans /\ ~(Untracked > 0)
      BY <2>2 DEF Untracked
    <3>2. orphans' = (orphans \/ Untracked > 0) /\ overlapped' = overlapped
      BY <1>4 DEF Close
    <3> QED
      BY <3>1, <3>2, Zenon
  <2>4. LoopState' /\ OwnerState' /\ owner' = "idle" /\ (pc' \in InTask => stale' = "freed")
    BY <1>4, <1>a, <2>1 DEF Close
  <2> QED
    BY <2>1, <2>3, <2>4, ClosedRelations
<1>5. ASSUME NEW t \in Timeouts, SetSessionTimeout(t) PROVE conn' \in Connection /\ Relations'
  <2>1. /\ conn' \in Connection /\ conn'.request = conn.request
        /\ conn'.session = conn.session /\ conn'.sinks = conn.sinks
        /\ conn'.active = conn.active /\ conn'.video = conn.video
    <3>1. conn' = conn \/ conn' = [conn EXCEPT !.reported = FALSE]
      BY <1>5 DEF SetSessionTimeout
    <3>2. [conn EXCEPT !.reported = FALSE] \in Connection
      BY <1>a, ChangedConnection
    <3>3. CASE conn' = [conn EXCEPT !.reported = FALSE]
      BY <1>a, <3>2, <3>3, Zenon DEF Connection
    <3> QED
      BY <1>a, <3>1, <3>3
  <2>2. /\ t \in Nat /\ timeout' = t /\ UNCHANGED <<client, owner, pc, stale, locked, loose, orphans>>
        /\ pc \in {"fired", "locking"} => overlapped'
        /\ overlapped => overlapped'
        /\ pc \notin {"checking", "activating"} \/ stale = "freed"
        /\ owner = "idle"
    BY <1>5, TimeoutsAssumption DEF SetSessionTimeout
  <2>3. CASE client /\ t > 0 /\ conn.active
    <3>1. token' = "pending"
      BY <1>5, <2>3 DEF SetSessionTimeout, MustSchedule
    <3> QED
      BY <1>a, <1>b, <2>1, <2>2, <2>3, <3>1
  <2>4. CASE ~(client /\ t > 0 /\ conn.active)
    <3>1. conn' = conn /\ token' = IF client THEN "null" ELSE token
      BY <1>5, <2>4 DEF SetSessionTimeout, MustSchedule
    <3> QED
      BY <1>a, <1>b, <2>1, <2>2, <2>4, <3>1
  <2> QED
    BY <2>3, <2>4
<1>6. CASE Dispatch
  BY <1>6, <1>a DEF Dispatch, StaleNow
<1>7. CASE DescribeReply
  <2>1. CASE Fail(conn)
    BY <1>7, <1>a, <2>1, FailedHandshake DEF DescribeReply, InCallback
  <2>2. ASSUME NEW n \in 1 .. MaxSubsessions,
               SetupNext([conn EXCEPT !.session = TRUE, !.left = n, !.video = FALSE])
        PROVE  conn' \in Connection /\ Relations'
    <3> DEFINE c == [conn EXCEPT !.session = TRUE, !.left = n, !.video = FALSE]
    <3>1. [conn EXCEPT !.session = TRUE] \in Connection
      BY <1>a, ChangedConnection
    <3>2. [conn EXCEPT !.session = TRUE, !.left = n] \in Connection
      <4>1. n \in 0 .. MaxSubsessions
        OBVIOUS
      <4> QED
        BY <3>1, <4>1, ChangedConnection
    <3>3. c \in Connection
      BY <3>2, ChangedConnection
    <3>4. c.session = TRUE /\ c.video = FALSE /\ c.sinks = conn.sinks /\ c.active = conn.active
      BY <1>a, Zenon DEF Connection
    <3>5. token = "null"
      BY <1>7 DEF DescribeReply
    <3> HIDE DEF c
    <3>6. SetupNext(c)
      BY <2>2 DEF c
    <3> QED
      BY <1>7, <1>a, <1>b, <3>3, <3>4, <3>5, <3>6, NextSubsession
      DEF DescribeReply, InCallback
  <2> QED
    BY <1>7, <2>1, <2>2 DEF DescribeReply
<1>8. CASE SetupReply
  <2>1. conn.request = "SETUP" /\ token = "null" /\ MaxSubsessions > 0
        /\ conn.session /\ conn.sinks = 0 /\ ~conn.active
    BY <1>8 DEF SetupReply, InCallback
  <2>2. CASE SetupNext([conn EXCEPT !.sinks = @ + 1, !.video = TRUE])
    <3> DEFINE c == [conn EXCEPT !.sinks = @ + 1, !.video = TRUE]
    <3>0. conn.sinks + 1 = 1 /\ 1 \in 0 .. MaxSubsessions
      BY <2>1
    <3>1. [conn EXCEPT !.sinks = 1] \in Connection
      BY <1>a, <3>0, ChangedConnection
    <3>2. c = [conn EXCEPT !.sinks = 1, !.video = TRUE]
      BY <3>0
    <3>3. c \in Connection
      BY <3>1, <3>2, ChangedConnection
    <3>4. c.session = conn.session /\ c.video = TRUE /\ c.sinks = 1 /\ c.active = conn.active
      BY <1>a, <3>2, Zenon DEF Connection
    <3> HIDE DEF c
    <3>5. SetupNext(c)
      BY <2>2 DEF c
    <3>6. /\ conn' \in Connection /\ token' = "null" /\ UNCHANGED <<loose, orphans>>
          /\ \/ /\ pc' = "idle" /\ stale' = "no" /\ conn'.request = "PLAY"
                /\ conn'.session = conn.session /\ conn'.sinks = 1 /\ ~conn'.active
             \/ /\ pc' = "failed" /\ stale' = stale /\ conn'.request = "none"
                /\ ~conn'.session /\ conn'.sinks = 0 /\ ~conn'.active
      BY <2>1, <3>3, <3>4, <3>5, NextSubsession
    <3>7. /\ pc = "callback" /\ stale # "freed"
          /\ UNCHANGED <<client, timeout, owner, locked, crashed, callVars>>
      BY <1>8 DEF SetupReply, InCallback
    <3>8. CASE pc' = "idle" /\ stale' = "no" /\ conn'.request = "PLAY" /\ conn'.sinks = 1
      <4>1. conn' \in Connection /\ conn'.session /\ ~conn'.active /\ token' = "null" /\ loose' = loose
        BY <2>1, <3>6, <3>8
      <4>2. client' /\ ~locked' /\ loose = 0 /\ (~overlapped' => ~orphans')
        BY <2>1, <3>6, <3>7
      <4>3. AtMostOneVideoSink' /\ TornDownCompletely' /\ TokenNamesTheOnlyTask'
            /\ ActiveSessionIsWatched' /\ Handshake'
        BY <3>8, <4>1, <4>2
      <4>4. LoopState' /\ OwnerState' /\ TaskState'
        BY <3>8, <4>1, <4>2
      <4> QED
        BY <4>1, <4>3, <4>4
    <3>9. CASE pc' = "failed" /\ stale' = stale /\ conn'.request = "none" /\ conn'.sinks = 0
      BY <2>1, <3>6, <3>7, <3>9
    <3> QED
      BY <3>6, <3>8, <3>9
  <2>3. CASE SetupNext(conn)
    BY <1>8, <1>a, <1>b, <2>1, <2>3, NextSubsession DEF SetupReply, InCallback
  <2> QED
    BY <1>8, <2>2, <2>3 DEF SetupReply, WithVideo, Ignore
<1>9. CASE PlayReply
  <2>1. CASE Fail(conn)
    BY <1>9, <1>a, <2>1, FailedHandshake DEF PlayReply, InCallback
  <2>2. CASE locked' = TRUE /\ Goto("activating") /\ UNCHANGED <<conn, taskVars>>
    BY <1>9, <1>a, <2>2 DEF PlayReply, InCallback
  <2> QED
    BY <1>9, <2>1, <2>2 DEF PlayReply
<1>10. CASE Activate
  <2>1. conn' = [conn EXCEPT !.request = "none", !.active = TRUE]
    BY <1>10 DEF Activate
  <2>2. [conn EXCEPT !.request = "none"] \in Connection
    BY <1>a, ChangedConnection DEF Requests
  <2>3. conn' \in Connection
    BY <2>1, <2>2, ChangedConnection
  <2>4. /\ conn'.request = "none" /\ conn'.session = conn.session
        /\ conn'.sinks = conn.sinks /\ conn'.active = TRUE
    BY <1>a, <2>1, Zenon DEF Connection
  <2>5. /\ pc = "activating" /\ stale # "freed" /\ pc' = "started" /\ stale' = stale
        /\ UNCHANGED <<client, timeout, owner>> /\ ~locked'
        /\ overlapped => overlapped'
        /\ owner = "closing" => overlapped'
        /\ conn.request = "PLAY" /\ token = "null" /\ loose = 0 /\ client
    BY <1>10 DEF Activate
  <2>6. orphans' = orphans /\ loose' = 0 /\ token' = IF timeout > 0 THEN "pending" ELSE "null"
    BY <1>10, <2>5 DEF Activate, Schedule, Untracked
  <2> QED
    BY <1>b, <1>c, <2>3, <2>4, <2>5, <2>6
<1>11. CASE Bye
  <2>1. /\ conn' \in Connection /\ conn'.request = conn.request /\ conn'.sinks = 0
        /\ ~conn'.session /\ ~conn'.active /\ Goto("finished") /\ Unschedule
    BY <1>11, <1>a, <1>b, TornDownConnection DEF Bye
  <2> QED
    BY <1>11, <1>b, <2>1 DEF Bye, InCallback, Unschedule
<1>12. CASE Packet
  <2>1. conn' = [conn EXCEPT !.fresh = TRUE]
    BY <1>12 DEF Packet
  <2>2. conn' \in Connection
    BY <1>a, <2>1, ChangedConnection
  <2>3. /\ conn'.request = conn.request /\ conn'.session = conn.session
        /\ conn'.sinks = conn.sinks /\ conn'.active = conn.active
        /\ conn'.video = conn.video /\ conn'.reported = conn.reported
    BY <1>a, <2>1, Zenon DEF Connection
  <2> QED
    BY <1>12, <1>b, <2>2, <2>3 DEF Packet
<1>13. CASE FireTask
  BY <1>13, <1>a, <1>c DEF FireTask
<1>14. CASE ClearToken
  BY <1>14, <1>a, <1>c DEF ClearToken, Untracked
<1>15. CASE LockSession
  BY <1>15, <1>a DEF LockSession
<1>16. CASE CheckSession
  <2>1. CASE ~conn.session
    BY <1>16, <1>a, <2>1 DEF CheckSession, Unlock, HasSession
  <2>2. CASE conn.session /\ conn.fresh
    <3>1. conn' = [conn EXCEPT !.fresh = FALSE]
      BY <1>16, <2>2 DEF CheckSession, HasSession
    <3>2. conn' \in Connection
      BY <1>a, <3>1, ChangedConnection
    <3>3. /\ conn'.request = conn.request /\ conn'.session = conn.session
          /\ conn'.sinks = conn.sinks /\ conn'.active = conn.active /\ conn'.video = conn.video
      BY <1>a, <3>1, Zenon DEF Connection
    <3>4. /\ token' = "pending" /\ loose' = Untracked /\ Goto("idle") /\ ~locked'
          /\ UNCHANGED <<client, timeout, orphans, owner, crashed, callVars>>
      BY <1>16, <2>2 DEF CheckSession, Unlock, HasSession, CheckAgain, Schedule
    <3> QED
      BY <1>16, <1>b, <1>c, <2>2, <3>2, <3>3, <3>4 DEF CheckSession, Untracked
  <2>3. CASE conn.session /\ ~conn.fresh
    <3>1. conn' = [conn EXCEPT !.reported = TRUE]
      BY <1>16, <2>3 DEF CheckSession, HasSession
    <3>2. conn' \in Connection
      BY <1>a, <3>1, ChangedConnection
    <3>3. /\ conn'.request = conn.request /\ conn'.session = conn.session
          /\ conn'.sinks = conn.sinks /\ conn'.active = conn.active /\ conn'.video = conn.video
          /\ conn'.reported = TRUE
      BY <1>a, <3>1, Zenon DEF Connection
    <3> QED
      BY <1>16, <1>b, <2>3, <3>2, <3>3 DEF CheckSession, Unlock, HasSession
  <2> QED
    BY <2>1, <2>2, <2>3
<1>17. CASE OrphanFires
  BY <1>17, <1>a DEF OrphanFires
<1>18. CASE UseAfterClose
  BY <1>18, <1>a DEF UseAfterClose
<1>19. CASE SessionStarted \/ Report
  BY <1>19, <1>a DEF SessionStarted, Report
<1>20. CASE HandlerDisconnects
  <2>1. CASE client
    <3>1. ~conn'.active /\ CloseClient /\ client' = FALSE
      BY <1>20, <1>a, <2>1, ClosedClient DEF HandlerDisconnects, HangUp
    <3>2. ~overlapped' => ~orphans'
      <4>1. ~overlapped => ~orphans /\ ~(loose > 0)
        OBVIOUS
      <4>2. HangUp /\ overlapped' = overlapped
        BY <1>20, <2>1 DEF HandlerDisconnects
      <4>3. orphans' = (orphans \/ loose > 0)
        BY <4>2 DEF HangUp
      <4> QED
        BY <4>1, <4>2, <4>3, Zenon
    <3>3. LoopState' /\ OwnerState' /\ owner' = "idle" /\ pc' \notin InTask
      BY <1>20, <3>1 DEF HandlerDisconnects
    <3> QED
      BY <3>1, <3>2, <3>3, ClosedRelations
  <2>2. CASE ~client
    BY <1>20, <1>a, <2>2 DEF HandlerDisconnects
  <2> QED
    BY <2>1, <2>2
<1>21. CASE RetryDisconnect
  <2>1. CASE client
    <3>1. ~conn'.active /\ CloseClient /\ client' = FALSE
      BY <1>21, <1>a, <2>1, ClosedClient DEF RetryDisconnect, HangUp
    <3>2. ~overlapped' => ~orphans'
      <4>1. ~overlapped => ~orphans /\ ~(loose > 0)
        OBVIOUS
      <4>2. HangUp /\ overlapped' = overlapped
        BY <1>21, <2>1 DEF RetryDisconnect
      <4>3. orphans' = (orphans \/ loose > 0)
        BY <4>2 DEF HangUp
      <4> QED
        BY <4>1, <4>2, <4>3, Zenon
    <3>3. LoopState' /\ OwnerState' /\ owner' = "idle" /\ pc' \notin InTask
      BY <1>21, <3>1 DEF RetryDisconnect, MustRetry
    <3> QED
      BY <3>1, <3>2, <3>3, ClosedRelations
  <2>2. CASE ~client
    BY <1>21, <1>a, <2>2 DEF RetryDisconnect, MustRetry
  <2> QED
    BY <2>1, <2>2
<1>22. CASE RetryConnect
  <2>1. CASE client
    BY <1>22, <1>a, <2>1 DEF RetryConnect
  <2>2. CASE ~client
    <3>1. conn' = NewConnection /\ client' = TRUE /\ Goto("idle")
      BY <1>22, <2>2 DEF RetryConnect
    <3>2. conn' \in Connection
      BY <3>1, NewConnectionType
    <3>3. conn'.request = "DESCRIBE" /\ ~conn'.session /\ conn'.sinks = 0 /\ ~conn'.active
      BY <3>1 DEF NewConnection
    <3> QED
      BY <1>22, <1>b, <2>2, <3>1, <3>2, <3>3 DEF RetryConnect
  <2> QED
    BY <2>1, <2>2
<1>23. CASE UNCHANGED vars
  BY <1>23, <1>a DEF vars
<1> QED
  BY <1>1, <1>2, <1>3, <1>4, <1>5, <1>6, <1>7, <1>8, <1>9, <1>10, <1>11, <1>12, <1>13, <1>14,
     <1>15, <1>16, <1>17, <1>18, <1>19, <1>20, <1>21, <1>22, <1>23
  DEF Next, Owner, Reply, CheckTimeout, Notify

-----------------------------------------------------------------------------

\* IInv is inductive: it holds initially and every step of the owner and of
\* the event loop preserves it.
THEOREM Invariance == Spec => []IInv
<1>1. Init => IInv
  BY InitIInv
<1>2. IInv /\ [Next]_vars => IInv'
  BY StepIInv
<1> QED
  BY <1>1, <1>2, PTL DEF Spec

\* Every variable stays in its range: a source never ends more often than one
\* was started.
THEOREM TypeCorrectness == Spec => []TypeOK
<1>1. IInv => TypeOK
  BY DEF IInv, Relations
<1> QED
  BY <1>1, Invariance, PTL

\* However many subsessions are announced, skipped and refused, a connection
\* sets up one video sink, and asks for no more once it has it.
THEOREM OneVideoSink == Spec => []AtMostOneVideoSink
<1>1. IInv => AtMostOneVideoSink
  BY DEF IInv, Relations
<1> QED
  BY <1>1, Invariance, PTL

\* No order of replies, checks and timeout changes leaves a playing session
\* with a timeout unwatched.
THEOREM Watched == Spec => []ActiveSessionIsWatched
<1>1. IInv => ActiveSessionIsWatched
  BY DEF IInv, Relations
<1> QED
  BY <1>1, Invariance, PTL

\* timeout_task_ names the only task, and no task outlives its client, until
\* setSessionTimeout() meets a running check or disconnect() meets a callback:
\* no other order of the calls and callbacks loses track of a task.
THEOREM OnlyTask == Spec => []TokenNamesTheOnlyTask
<1>1. IInv => TokenNamesTheOnlyTask
  BY DEF IInv, Relations
<1> QED
  BY <1>1, Invariance, PTL

\* A closed connection leaves no request, no media and no task that belongs to
\* it for the next one, and a handshake is not watched.
THEOREM NothingLeftBehind == Spec => []TornDownCompletely
<1>1. IInv => TornDownCompletely
  BY DEF IInv, Relations
<1> QED
  BY <1>1, Invariance, PTL

-----------------------------------------------------------------------------

\* A session without an outstanding request is being played: a timeout or the
\* end of the stream is only reported of a stream that has started.
SessionPlays == conn.session /\ conn.request = "none" => conn.active

\* Only the reply to PLAY ends a handshake with a session.
LEMMA SessionPlaysStep ==
    ASSUME IInv, SessionPlays, [Next]_vars
    PROVE  SessionPlays'
<1> USE DEF SessionPlays, taskVars, loopVars, callVars
<1>a. conn \in Connection
  BY DEF IInv, Relations, TypeOK
<1>b. ASSUME CloseClient PROVE ~conn'.session
  BY <1>b, ClosedClient DEF IInv, Relations
<1>c. ASSUME NEW c \in Connection, Fail(c) PROVE ~conn'.session
  BY <1>c, FailedHandshake
<1>1. CASE Connect \/ Disconnect \/ \E t \in Timeouts : SetSessionTimeout(t)
  BY <1>1, <1>a DEF Connect, Disconnect, SetSessionTimeout, NewConnection, Connection
<1>2. CASE TearDown \/ Close
  BY <1>2, <1>a, <1>b, TornDownConnection DEF TearDown, Close
<1>3. CASE DescribeReply
  <2>1. ASSUME NEW n \in 1 .. MaxSubsessions,
               SetupNext([conn EXCEPT !.session = TRUE, !.left = n, !.video = FALSE])
        PROVE  SessionPlays'
    BY <1>a, <2>1 DEF SetupNext, Fail, TornDown, Connection
  <2> QED
    BY <1>3, <1>a, <1>c, <2>1 DEF DescribeReply
<1>4. CASE SetupReply
  BY <1>4, <1>a DEF SetupReply, WithVideo, Ignore, SetupNext, Fail, TornDown, Connection
<1>5. CASE PlayReply \/ Activate
  BY <1>5, <1>a, <1>c DEF PlayReply, Activate, Connection
<1>6. CASE Bye
  BY <1>6, <1>a DEF Bye, TornDown, Connection
<1>7. CASE Packet \/ CheckTimeout
  BY <1>7, <1>a DEF Packet, CheckTimeout, FireTask, ClearToken, LockSession, CheckSession, Connection
<1>8. CASE Notify
  BY <1>8, <1>b DEF Notify, SessionStarted, Report, HandlerDisconnects, RetryDisconnect, HangUp,
                    RetryConnect, NewConnection
<1>9. CASE Dispatch \/ OrphanFires \/ UseAfterClose \/ UNCHANGED vars
  BY <1>9 DEF Dispatch, OrphanFires, UseAfterClose, vars
<1> QED
  BY <1>1, <1>2, <1>3, <1>4, <1>5, <1>6, <1>7, <1>8, <1>9 DEF Next, Owner, Reply

\* The owner's view of the connection, as in Session.
Phase ==
    IF ~client THEN "closed"
    ELSE IF owner = "closing" THEN "closing"
    ELSE IF conn.request = "PLAY" /\ ~conn.session THEN "ended"
    ELSE IF conn.request # "none" THEN "setup"
    ELSE IF conn.active /\ conn.session THEN "playing"
    ELSE "over"

Owed ==
    IF pc \in {"idle", "disconnecting"} \cup InsideLive555 THEN "none"
    ELSE IF pc = "failed454" THEN "failed"
    ELSE pc

Callback ==
    IF pc = "idle" THEN "none"
    ELSE IF stale = "no" THEN "current"
    ELSE "late"

\* A callback that reports does so for its own connection, or is late.
LEMMA Reports ==
    ASSUME pc \in InsideLive555, stale \in {"no", "late", "freed"},
           pc' \in Handlers, UNCHANGED <<client, owner>>,
           \/ stale = "no" /\ stale' = "no" /\ client /\ owner # "closing"
           \/ stale # "no" /\ stale' = "late" /\ UNCHANGED Phase
    PROVE  /\ Owed = "none" /\ Owed' \in {"started", "failed", "finished", "timedout"}
           /\ stale = "no" => Callback = "current" /\ Callback' = "current"
           /\ stale # "no" => Session!Late
<1>1. Owed = "none" /\ pc # "idle" /\ pc' # "idle"
  BY DEF Owed, InsideLive555, Handlers
<1>2. Owed' \in {"started", "failed", "finished", "timedout"}
  BY DEF Owed, InsideLive555, Handlers
<1>3. Session!Late <=> /\ Callback = "late" /\ Owed = "none"
                       /\ Owed' \in {"started", "failed", "finished", "timedout"}
                       /\ UNCHANGED <<Phase, Callback>>
  BY DEF Session!Late, Phase, Owed, Callback
<1>4. stale = "no" => Callback = "current" /\ Callback' = "current"
  BY <1>1 DEF Callback
<1>5. stale # "no" => Callback = "late" /\ Callback' = "late" /\ UNCHANGED Phase
  BY <1>1 DEF Callback
<1> QED
  BY <1>1, <1>2, <1>3, <1>4, <1>5

\* A failure of the handshake ends it and is reported.
LEMMA FailureIsReported ==
    ASSUME IInv, NEW c \in Connection, Fail(c), InCallback, conn.request # "none",
           UNCHANGED <<client, owner>>
    PROVE  Session!Fail \/ Session!Late
<1>1. conn'.request = "none" /\ ~conn'.session /\ pc' \in {"failed", "failed454"} /\ stale' = stale
  BY FailedHandshake
<1>2. /\ pc \in InsideLive555 /\ client /\ client' /\ stale \in {"no", "late"}
      /\ stale = "late" <=> owner = "closing"
  BY DEF InCallback, IInv, Relations, TypeOK, LoopState, OwnerState, InsideLive555
<1>3. CASE stale = "no"
  <2>1. Owed = "none" /\ Callback = "current" /\ Callback' = "current"
    BY <1>1, <1>2, <1>3, Reports DEF Handlers
  <2>2. Phase \in {"setup", "ended"} /\ Phase' = "over" /\ Owed' = "failed"
    BY <1>1, <1>2, <1>3 DEF Phase, Owed, InsideLive555
  <2> QED
    BY <2>1, <2>2 DEF Session!Fail, Session!InCurrent, Phase, Owed, Callback
<1>4. CASE stale = "late"
  <2>1. UNCHANGED Phase
    BY <1>2, <1>4 DEF Phase
  <2> QED
    BY <1>1, <1>2, <1>4, <2>1, Reports DEF Handlers
<1> QED
  BY <1>2, <1>3, <1>4

\* The next request of the handshake goes unnoticed by the owner.
LEMMA SetupGoesOn ==
    ASSUME IInv, NEW c \in Connection, c.session, SetupNext(c), InCallback,
           conn.request # "none", conn.session \/ conn.request # "PLAY",
           UNCHANGED <<client, owner>>
    PROVE  Session!Fail \/ Session!Late \/ Session!Leave
<1>1. CASE Fail([c EXCEPT !.left = 0])
  <2>1. [c EXCEPT !.left = 0] \in Connection
    <3>1. 0 \in 0 .. MaxSubsessions
      BY BoundsAssumption
    <3> QED
      BY <3>1, ChangedConnection
  <2> QED
    BY <1>1, <2>1, FailureIsReported
<1>2. CASE conn'.request \in {"SETUP", "PLAY"} /\ conn'.session /\ pc' = "idle"
  <2>1. pc = "callback" /\ client /\ client'
    BY DEF InCallback, IInv, Relations, LoopState, InsideLive555
  <2>2. UNCHANGED Phase
    BY <1>2, <2>1 DEF Phase
  <2>3. Owed = "none" /\ Owed' = "none" /\ Callback # "none" /\ Callback' = "none"
    BY <1>2, <2>1 DEF Owed, Callback, InsideLive555
  <2> QED
    BY <2>2, <2>3 DEF Session!Leave, Phase, Owed, Callback
<1> QED
  BY <1>1, <1>2 DEF SetupNext, Goto, Connection

\* Every step of the owner and of the loop is one of ClientSession, or goes
\* unnoticed by the owner.
LEMMA SessionStep ==
    ASSUME IInv, SessionPlays, [Next]_vars
    PROVE  [Session!SessionNext]_(Session!sessionVars)
<1> USE DEF taskVars, loopVars, callVars, Goto, Session!SessionNext
<1>a. conn \in Connection /\ stale \in {"no", "late", "freed"} /\ pc \in Places
  BY DEF IInv, Relations, TypeOK
<1>b. ASSUME UNCHANGED <<Phase, Owed, Callback>>
      PROVE  [Session!SessionNext]_(Session!sessionVars)
  BY <1>b DEF Phase, Owed, Callback, Session!sessionVars
<1>c. /\ pc = "idle" => stale = "no"
      /\ stale = "freed" => pc \in InsideLive555
      /\ pc \in InsideLive555 /\ stale # "freed" => client /\ (stale = "late" => owner = "closing")
      /\ owner # "idle" => client
      /\ owner = "closing" /\ stale = "no" => pc = "idle"
  BY <1>a DEF IInv, Relations, LoopState, OwnerState, Places
<1>d. ASSUME Owed = "none", Callback # "none", UNCHANGED Phase, pc' = "idle"
      PROVE  [Session!SessionNext]_(Session!sessionVars)
  <2>1. Owed' = "none" /\ Callback' = "none"
    BY <1>d DEF Owed, Callback
  <2> QED
    BY <1>d, <2>1 DEF Session!Leave, Phase, Owed, Callback
<1>1. CASE Connect
  <2>1. UNCHANGED <<Owed, Callback>> /\ Phase = "closed" /\ Phase' = "setup"
    BY <1>1 DEF Connect, NewConnection, Phase, Owed, Callback
  <2> QED
    BY <2>1 DEF Session!Open, Phase, Owed, Callback
<1>2. CASE Disconnect
  BY <1>2, <1>b DEF Disconnect, Phase, Owed, Callback
<1>3. CASE TearDown
  <2>1. Phase \notin {"closed", "closing"} /\ Phase' = "closing" /\ UNCHANGED Owed
    BY <1>3, <1>c DEF TearDown, Phase, Owed
  <2>2. Callback' = IF Callback = "none" THEN "none" ELSE "late"
    BY <1>3 DEF TearDown, Callback
  <2> QED
    BY <2>1, <2>2 DEF Session!TearDown, Phase, Owed, Callback
<1>4. CASE Close
  <2>1. Phase = "closing" /\ Phase' = "closed" /\ UNCHANGED Owed
    BY <1>4, <1>c DEF Close, CloseClient, Phase, Owed
  <2>2. UNCHANGED Callback
    BY <1>4, <1>c DEF Close, Callback, InsideLive555
  <2> QED
    BY <2>1, <2>2 DEF Session!Close, Phase, Owed, Callback
<1>5. CASE \E t \in Timeouts : SetSessionTimeout(t)
  BY <1>5, <1>a, <1>b DEF SetSessionTimeout, MustSchedule, Connection, Phase, Owed, Callback
<1>6. CASE Dispatch \/ FireTask
  <2>1. /\ pc = "idle" /\ pc' \in {"callback", "fired"} /\ client /\ UNCHANGED <<client, owner, conn>>
        /\ owner = "closing" <=> stale' # "no"
    BY <1>6 DEF Dispatch, StaleNow, FireTask, IInv, Relations, TornDownCompletely
  <2>2. /\ UNCHANGED <<Phase, Owed>> /\ Phase # "closed" /\ Callback = "none"
        /\ Callback' = IF Phase = "closing" THEN "late" ELSE "current"
    BY <2>1 DEF Phase, Owed, Callback, InsideLive555
  <2> QED
    BY <2>2 DEF Session!Enter, Phase, Owed, Callback
<1>7. CASE DescribeReply
  <2>1. ASSUME NEW n \in 1 .. MaxSubsessions,
               SetupNext([conn EXCEPT !.session = TRUE, !.left = n, !.video = FALSE])
        PROVE  Session!Fail \/ Session!Late \/ Session!Leave
    <3> DEFINE c == [conn EXCEPT !.session = TRUE, !.left = n, !.video = FALSE]
    <3>1. c \in Connection /\ c.session
      <4>1. [conn EXCEPT !.session = TRUE] \in Connection
        BY <1>a, ChangedConnection
      <4>2. [conn EXCEPT !.session = TRUE, !.left = n] \in Connection
        <5>1. n \in 0 .. MaxSubsessions
          BY BoundsAssumption
        <5> QED
          BY <4>1, <5>1, ChangedConnection
      <4>3. c \in Connection
        BY <4>2, ChangedConnection
      <4> QED
        BY <1>a, <4>3 DEF Connection
    <3> HIDE DEF c
    <3>2. SetupNext(c)
      BY <2>1 DEF c
    <3> QED
      BY <1>7, <3>1, <3>2, SetupGoesOn DEF DescribeReply
  <2> QED
    BY <1>7, <1>a, <2>1, FailureIsReported DEF DescribeReply
<1>8. CASE SetupReply
  <2>1. conn.request = "SETUP" /\ conn.session /\ InCallback
    BY <1>8 DEF SetupReply, InCallback, IInv, Relations, Handshake
  <2>2. WithVideo \in Connection /\ WithVideo.session
    <3>1. conn.sinks + 1 \in 0 .. MaxSubsessions
      BY <2>1, BoundsAssumption DEF IInv, Relations, Handshake
    <3>2. [conn EXCEPT !.sinks = conn.sinks + 1] \in Connection
      BY <1>a, <3>1, ChangedConnection
    <3> QED
      BY <1>a, <2>1, <3>1 DEF WithVideo, Connection
  <2> QED
    BY <1>8, <1>a, <2>1, <2>2, SetupGoesOn DEF SetupReply, Ignore
<1>9. CASE PlayReply
  <2>1. CASE Fail(conn)
    BY <1>9, <1>a, <2>1, FailureIsReported DEF PlayReply
  <2>2. CASE pc' = "activating" /\ UNCHANGED <<conn, stale>>
    BY <1>9, <1>b, <2>2 DEF PlayReply, InCallback, Phase, Owed, Callback, InsideLive555
  <2> QED
    BY <1>9, <2>1, <2>2 DEF PlayReply
<1>10. CASE Activate
  <2>1. /\ pc = "activating" /\ pc' = "started" /\ UNCHANGED <<client, owner, stale>>
        /\ client /\ client' /\ stale # "freed" /\ conn.request = "PLAY"
        /\ stale = "late" <=> owner = "closing"
    BY <1>10, <1>a, <1>c DEF Activate, IInv, Relations, LoopState, InsideLive555
  <2>2. conn'.request = "none" /\ conn'.session = conn.session /\ conn'.active
    BY <1>10, <1>a DEF Activate, Connection
  <2>3. CASE stale = "no"
    <3>1. Owed = "none" /\ Owed' = "started" /\ Callback = "current" /\ UNCHANGED Callback
      BY <2>1, <2>3 DEF Owed, Callback, InsideLive555
    <3>2. /\ Phase \in {"setup", "ended"}
          /\ Phase' = IF Phase = "setup" THEN "playing" ELSE "over"
      BY <2>1, <2>2, <2>3 DEF Phase
    <3> QED
      BY <3>1, <3>2 DEF Session!Play, Session!InCurrent, Phase, Owed, Callback
  <2>4. CASE stale = "late"
    <3>1. UNCHANGED Phase
      BY <2>1, <2>4 DEF Phase
    <3> QED
      BY <2>1, <2>4, <3>1, Reports DEF Handlers, InsideLive555
  <2> QED
    BY <1>a, <2>1, <2>3, <2>4
<1>11. CASE Bye
  <2>1. /\ conn.sinks = 1 /\ conn.session /\ pc = "callback" /\ stale # "freed"
        /\ client /\ client' /\ UNCHANGED owner
        /\ stale = "late" <=> owner = "closing"
    BY <1>11, <1>a, <1>c
    DEF Bye, InCallback, IInv, Relations, AtMostOneVideoSink, TornDownCompletely, Connection, InsideLive555
  <2>2. conn.request = "PLAY" \/ (conn.request = "none" /\ conn.active)
    BY <2>1 DEF IInv, Relations, AtMostOneVideoSink, SessionPlays
  <2>3. conn'.request = conn.request /\ ~conn'.session /\ pc' = "finished" /\ stale' = stale
    BY <1>11, <1>a, <2>1, TornDownConnection DEF Bye
  <2>4. CASE stale = "no"
    <3>1. Owed = "none" /\ Owed' = "finished" /\ Callback = "current" /\ UNCHANGED Callback
      BY <2>1, <2>3, <2>4 DEF Owed, Callback, InsideLive555
    <3>2. /\ Phase \in {"setup", "playing"}
          /\ Phase' = IF Phase = "playing" THEN "over" ELSE "ended"
      BY <2>1, <2>2, <2>3, <2>4 DEF Phase
    <3> QED
      BY <3>1, <3>2 DEF Session!Finish, Session!InCurrent, Phase, Owed, Callback
  <2>5. CASE stale = "late"
    <3>1. UNCHANGED Phase
      BY <2>1, <2>5 DEF Phase
    <3> QED
      BY <2>1, <2>3, <2>5, <3>1, Reports DEF Handlers, InsideLive555
  <2> QED
    BY <1>a, <2>1, <2>4, <2>5
<1>12. CASE Packet
  BY <1>12, <1>a, <1>b DEF Packet, Connection, Phase, Owed, Callback
<1>13. CASE CheckSession
  <2>1. /\ pc = "checking" /\ stale # "freed" /\ client /\ client' /\ UNCHANGED owner
        /\ conn.request = "none"
        /\ stale = "late" <=> owner = "closing"
    BY <1>13, <1>a, <1>c DEF CheckSession, IInv, Relations, LoopState, InTask, InsideLive555
  <2>2. /\ conn'.request = conn.request /\ conn'.session = conn.session
        /\ conn'.active = conn.active
    BY <1>13, <1>a DEF CheckSession, Connection
  <2>3. UNCHANGED Phase
    BY <2>1, <2>2 DEF Phase
  <2>4. CASE pc' = "idle"
    BY <1>d, <2>1, <2>3, <2>4 DEF Owed, Callback, InsideLive555
  <2>5. CASE pc' = "timedout" /\ stale' = stale /\ conn.session
    <3>1. CASE stale = "no"
      <4>1. Owed = "none" /\ Owed' = "timedout" /\ Callback = "current" /\ UNCHANGED Callback
        BY <2>1, <2>5, <3>1 DEF Owed, Callback, InsideLive555
      <4>2. Phase = "playing"
        <5>1. conn.active /\ owner # "closing"
          BY <1>c, <2>1, <2>5, <3>1 DEF SessionPlays
        <5> QED
          BY <2>1, <2>5, <5>1 DEF Phase
      <4> QED
        BY <2>3, <4>1, <4>2 DEF Session!Stall, Session!InCurrent, Phase, Owed, Callback
    <3>2. CASE stale = "late"
      BY <2>1, <2>3, <2>5, <3>2, Reports DEF Handlers, InsideLive555
    <3> QED
      BY <1>a, <2>1, <3>1, <3>2
  <2> QED
    BY <1>13, <2>4, <2>5 DEF CheckSession, HasSession
<1>14. CASE ClearToken \/ LockSession \/ OrphanFires
  BY <1>14, <1>b DEF ClearToken, LockSession, OrphanFires, Phase, Owed, Callback, InsideLive555
<1>15. CASE UseAfterClose
  <2>1. pc \in InsideLive555 /\ stale = "freed" /\ UNCHANGED <<client, owner, conn>> /\ UNCHANGED Phase
    BY <1>15, <1>c DEF UseAfterClose, Phase
  <2>2. CASE pc' = "idle"
    BY <1>d, <2>1, <2>2 DEF Owed, Callback, InsideLive555
  <2>3. CASE pc' \in Handlers /\ stale' = "late"
    BY <2>1, <2>3, Reports
  <2> QED
    BY <1>15, <2>2, <2>3 DEF UseAfterClose, Handlers
<1>16. CASE SessionStarted \/ Report
  <2>1. /\ pc \in Handlers /\ pc' \in {"idle", "disconnecting"} /\ UNCHANGED <<client, owner, conn>>
        /\ pc' # "idle" => stale' = stale
    BY <1>16 DEF SessionStarted, Report, Handlers
  <2>2. UNCHANGED Phase /\ Owed \in {"started", "failed", "finished", "timedout"} /\ Owed' = "none"
    BY <2>1 DEF Phase, Owed, Handlers, InsideLive555
  <2>3. Callback' \in {Callback, "none"}
    BY <2>1 DEF Callback, Handlers
  <2> QED
    BY <2>2, <2>3 DEF Session!Deliver, Phase, Owed, Callback
<1>17. CASE HandlerDisconnects
  <2>1. ~client' /\ owner = "idle" /\ pc = "disconnecting" /\ pc' = "idle"
    BY <1>17, ClosedClient DEF HandlerDisconnects, HangUp, IInv, Relations
  <2>2. /\ Callback # "none" /\ Callback' = "none" /\ Owed = "none" /\ Owed' = "none"
        /\ Phase # "closing" /\ Phase' = "closed"
    BY <2>1 DEF Phase, Owed, Callback
  <2> QED
    BY <2>2 DEF Session!Drop, Phase, Owed, Callback
<1>18. CASE RetryDisconnect
  <2>1. ~client' /\ owner = "idle" /\ pc = "failed454" /\ pc' = "retry" /\ stale' = "late"
    BY <1>18, ClosedClient DEF RetryDisconnect, MustRetry, HangUp, IInv, Relations
  <2>2. Owed = "failed" /\ Owed' = "retry" /\ Callback' = "late" /\ Phase # "closing" /\ Phase' = "closed"
    BY <2>1 DEF Phase, Owed, Callback, InsideLive555
  <2> QED
    BY <2>2 DEF Session!Swallow, Phase, Owed, Callback
<1>19. CASE RetryConnect
  <2>1. CASE client
    BY <1>19, <1>b, <2>1 DEF RetryConnect, Phase, Owed, Callback
  <2>2. CASE ~client
    <3>1. /\ pc = "retry" /\ pc' = "idle" /\ owner = "idle" /\ UNCHANGED owner /\ client'
          /\ conn'.request = "DESCRIBE"
      BY <1>19, <2>2 DEF RetryConnect, NewConnection
    <3>2. /\ Owed = "retry" /\ Owed' = "none" /\ Callback' = "none"
          /\ Phase = "closed" /\ Phase' = "setup"
      BY <2>2, <3>1 DEF Phase, Owed, Callback, InsideLive555
    <3> QED
      BY <3>2 DEF Session!Reopen, Phase, Owed, Callback
  <2> QED
    BY <2>1, <2>2
<1>20. CASE UNCHANGED vars
  BY <1>20, <1>b DEF vars, Phase, Owed, Callback
<1> QED
  BY <1>1, <1>2, <1>3, <1>4, <1>5, <1>6, <1>7, <1>8, <1>9, <1>10, <1>11, <1>12, <1>13, <1>14,
     <1>15, <1>16, <1>17, <1>18, <1>19, <1>20
  DEF Next, Owner, Reply, CheckTimeout, Notify

\* StreamClient keeps the promises of ClientSession, on which the subscriber
\* relies.
THEOREM Refinement == Spec => RefinesClientSession
<1>1. Init => Session!SessionInit /\ SessionPlays
  BY DEF Init, Session!SessionInit, SessionPlays, NewConnection
<1>2. IInv /\ SessionPlays /\ [Next]_vars =>
        SessionPlays' /\ [Session!SessionNext]_(Session!sessionVars)
  BY SessionPlaysStep, SessionStep
<1> QED
  BY <1>1, <1>2, Invariance, PTL DEF Spec, RefinesClientSession, Session!SessionSpec

=============================================================================
