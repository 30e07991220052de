-------------------------- MODULE StreamServerProofs --------------------------
(***************************************************************************)
(* What StreamServer guarantees for any number of media sources, event     *)
(* triggers and frames: the five invariants that StreamServer.cfg checks   *)
(* on a small instance, and that it implements Audience.                   *)
(***************************************************************************)
EXTENDS StreamServer, FiniteSetTheorems, SequenceTheorems, TLAPS

Sessions == {"none", "unicast", "multicast"}

TypeOK ==
    /\ session \in Sessions
    /\ streams \subseteq Sources /\ sink \in Sources \cup {NoSource}
    /\ life \in [Sources -> {"new", "unicast", "multicast", "closed"}]
    /\ queue \in [Sources -> Seq(Nat)] /\ last \in [Sources -> Nat] /\ frames \in Nat
    /\ loop \in [at : {"idle", "sink", "describe", "deliver", "stuck"},
                 source : Sources \cup {NoSource}]
    /\ loop.at = "idle" => loop.source = NoSource
    /\ loop.source = NoSource => loop.at \in {"idle", "describe"}
    /\ stale \in BOOLEAN /\ crashed \in BOOLEAN

ExecState ==
    \/ exec = Idle
    \/ exec = [at |-> "joining"]
    \/ exec \in [at : {"unlocked"}, old : Sessions, next : Purposes]
    \/ exec \in [at : {"starting"}, next : {"unicast", "multicast"}]
    \/ exec \in [at : {"sending"}, todo : SUBSET Sources]

\* The old unicast session is being deleted.
Ending == exec.at = "unlocked" /\ exec.old = "unicast"

\* Who is left of which session. A client may join the old unicast session
\* until it is deleted, and then nobody is left of it.
AudienceState ==
    /\ \A s, t \in Clients : s = t
    /\ Clients # {} => session = "unicast" \/ Ending
    /\ exec.at \notin {"idle", "sending"} => session = "none"
    /\ session = "unicast" => streams = Clients
    /\ session = "multicast" => \E s \in Sources : streams = {s} /\ life[s] = "multicast"
    /\ session = "none" => streams \subseteq Clients
    /\ exec.at = "sending" => exec.todo \subseteq streams

\* sink_ is set last, and only for somebody who is there.
SinkState ==
    ~crashed =>
        /\ session = "unicast" /\ loop.at # "sink" => streams = {sink} \ {NoSource}
        /\ session = "multicast" => streams = {sink}
        /\ session # "multicast" /\ sink # NoSource => sink \in Clients
        /\ loop.at = "sink" => loop.source \in Clients

\* What a source has from its creation, and loses when it is closed.
SourceState ==
    /\ armed \subseteq Active
    /\ streams \cap shut = {}
    /\ \A s \in Sources :
         /\ s \notin streams => queue[s] = << >>
         /\ life[s] = "new" => s \notin shut /\ last[s] = 0
    /\ stale => loop.source \in Sources /\ life[loop.source] = "closed"

WakeupPending ==
    \A s \in waiting \cap armed :
        queue[s] # << >> =>
            s \in triggered \/ (loop.at \in {"deliver", "stuck"} /\ loop.source = s)

\* The last frame that was, or is now being, given to this source.
LastGiven(s) == IF exec.at = "sending" /\ s \in exec.todo THEN frames - 1 ELSE frames

\* What is queued, or was delivered when nothing is, goes up to the last one.
FramesUpToDate ==
    \A s \in streams :
        /\ queue[s] # << >> => queue[s][Len(queue[s])] = LastGiven(s)
        /\ queue[s] = << >> /\ last[s] > 0 => last[s] = LastGiven(s)

Used == {s \in Sources : life[s] # "new"}

Structure ==
    /\ TypeOK
    /\ ExecState
    /\ AudienceState
    /\ SinkState
    /\ SourceState
    /\ WakeupPending
    /\ FramesUpToDate
    /\ FramesInOrder

IInv == Structure /\ IsFiniteSet(Used) /\ SourcesHaveTriggers

-----------------------------------------------------------------------------

\* The rest of a queue.
LEMMA NonEmptyTail ==
    ASSUME NEW q \in Seq(Nat), q # << >>
    PROVE  /\ Tail(q) \in Seq(Nat) /\ Head(q) \in Nat /\ Head(q) = q[1]
           /\ Len(q) \in Nat \ {0} /\ Len(Tail(q)) = Len(q) - 1
           /\ \A i \in 1 .. Len(q) - 1 : Tail(q)[i] = q[i + 1]
           /\ Tail(q) = << >> <=> Len(q) = 1
<1>1. Len(q) \in Nat \ {0}
  OBVIOUS
<1>2. Tail(q) \in Seq(Nat) /\ Len(Tail(q)) = Len(q) - 1
  BY <1>1
<1>3. \A i \in 1 .. Len(q) - 1 : Tail(q)[i] = q[i + 1]
  BY <1>1
<1>4. Tail(q) = << >> <=> Len(Tail(q)) = 0
  BY <1>2, EmptySeq
<1> QED
  BY <1>1, <1>2, <1>3, <1>4

\* Steps of the publisher.
LEMMA PublisherStructure ==
    ASSUME Structure, Publisher
    PROVE  Structure'
<1> USE DEF Idle, LoopIdle, Purposes, Sessions, Active, Clients, Ending, LastGiven, ownVars,
            sourceVars, threadVars
<1>1. CASE \E next \in Purposes : Stop(next)
  <2>1. TypeOK' /\ ExecState'
    BY <1>1 DEF Stop, Emptied, Structure, TypeOK, ExecState
  <2>2. AudienceState'
    BY <1>1 DEF Stop, Emptied, Structure, TypeOK, ExecState, AudienceState, SourceState
  <2>3. SinkState'
    BY <1>1 DEF Stop, Emptied, Structure, TypeOK, ExecState, AudienceState, SinkState
  <2>4. SourceState'
    BY <1>1 DEF Stop, Emptied, Structure, TypeOK, ExecState, AudienceState, SinkState,
       SourceState
  <2>5. WakeupPending'
    BY <1>1 DEF Stop, Emptied, Structure, TypeOK, SourceState, WakeupPending
  <2>6. FramesUpToDate' /\ FramesInOrder'
    BY <1>1 DEF Stop, Emptied, Structure, TypeOK, ExecState, AudienceState, SourceState,
       FramesUpToDate, FramesInOrder
  <2> QED
    BY <2>1, <2>2, <2>3, <2>4, <2>5, <2>6 DEF Structure
<1>2. CASE LoopDestroysServer \/ StartWithoutSink
  <2>1. UNCHANGED <<session, streams, sink, life, shut, queue, armed, triggered, waiting, last,
                    frames, exec, loop, stale>> /\ crashed' = TRUE
    BY <1>2 DEF LoopDestroysServer, StartWithoutSink
  <2>2. TypeOK' /\ ExecState'
    BY <2>1 DEF Structure, TypeOK, ExecState
  <2>3. AudienceState' /\ SinkState'
    BY <2>1 DEF Structure, AudienceState, SinkState
  <2>4. SourceState' /\ WakeupPending'
    BY <2>1 DEF Structure, SourceState, WakeupPending
  <2>5. FramesUpToDate' /\ FramesInOrder'
    BY <2>1 DEF Structure, FramesUpToDate, FramesInOrder
  <2> QED
    BY <2>2, <2>3, <2>4, <2>5 DEF Structure
<1>3. CASE DeleteSession
  <2>1. TypeOK' /\ ExecState'
    BY <1>3 DEF DeleteSession, Closing, Close, Emptied, Unarmed, SinkAfter, Structure, TypeOK,
       ExecState
  <2>2. AudienceState'
    BY <1>3 DEF DeleteSession, Closing, Close, Emptied, Unarmed, SinkAfter, Structure, TypeOK,
       ExecState, AudienceState, SourceState
  <2>3. SinkState'
    BY <1>3 DEF DeleteSession, Closing, Close, Emptied, Unarmed, SinkAfter, Structure, TypeOK,
       ExecState, AudienceState, SinkState
  <2>4. SourceState'
    BY <1>3 DEF DeleteSession, Closing, Close, Emptied, Unarmed, SinkAfter, Structure, TypeOK,
       ExecState, AudienceState, SinkState, SourceState
  <2>5. WakeupPending'
    BY <1>3 DEF DeleteSession, Closing, Close, Emptied, Unarmed, SinkAfter, Structure, TypeOK,
       SourceState, WakeupPending
  <2>6. FramesUpToDate' /\ FramesInOrder'
    BY <1>3 DEF DeleteSession, Closing, Close, Emptied, Unarmed, SinkAfter, Structure, TypeOK,
       ExecState, AudienceState, SourceState, FramesUpToDate, FramesInOrder
  <2> QED
    BY <2>1, <2>2, <2>3, <2>4, <2>5, <2>6 DEF Structure
<1>4. CASE StartUnicast
  <2>1. TypeOK' /\ ExecState'
    BY <1>4 DEF StartUnicast, Structure, TypeOK, ExecState
  <2>2. AudienceState'
    BY <1>4 DEF StartUnicast, Structure, TypeOK, ExecState, AudienceState, SourceState
  <2>3. SinkState'
    BY <1>4 DEF StartUnicast, Structure, TypeOK, ExecState, AudienceState, SinkState
  <2>4. SourceState'
    BY <1>4 DEF StartUnicast, Structure, TypeOK, ExecState, AudienceState, SinkState,
       SourceState
  <2>5. WakeupPending'
    BY <1>4 DEF StartUnicast, Structure, TypeOK, SourceState, WakeupPending
  <2>6. FramesUpToDate' /\ FramesInOrder'
    BY <1>4 DEF StartUnicast, Structure, TypeOK, ExecState, AudienceState, SourceState,
       FramesUpToDate, FramesInOrder
  <2> QED
    BY <2>1, <2>2, <2>3, <2>4, <2>5, <2>6 DEF Structure
<1>5. CASE StartMulticast
  <2>1. TypeOK' /\ ExecState'
    BY <1>5, SourcesAssumption DEF StartMulticast, Create, Structure, TypeOK, ExecState
  <2>2. AudienceState'
    BY <1>5, SourcesAssumption DEF StartMulticast, Create, Structure, TypeOK, ExecState,
       AudienceState, SourceState
  <2>3. SinkState'
    BY <1>5, SourcesAssumption DEF StartMulticast, Create, Structure, TypeOK, ExecState,
       AudienceState, SinkState
  <2>4. SourceState'
    BY <1>5, SourcesAssumption DEF StartMulticast, Create, Structure, TypeOK, ExecState,
       AudienceState, SinkState, SourceState
  <2>5. WakeupPending'
    BY <1>5, SourcesAssumption DEF StartMulticast, Create, Structure, TypeOK, SourceState,
       WakeupPending, ExecState, AudienceState
  <2>6. FramesUpToDate' /\ FramesInOrder'
    BY <1>5, SourcesAssumption DEF StartMulticast, Create, Structure, TypeOK, ExecState,
       AudienceState, SourceState, FramesUpToDate, FramesInOrder
  <2> QED
    BY <2>1, <2>2, <2>3, <2>4, <2>5, <2>6 DEF Structure
<1>6. CASE StartFails
  <2>1. TypeOK' /\ ExecState'
    BY <1>6 DEF StartFails, Structure, TypeOK, ExecState
  <2>2. AudienceState'
    BY <1>6 DEF StartFails, Structure, TypeOK, ExecState, AudienceState, SourceState
  <2>3. SinkState'
    BY <1>6 DEF StartFails, Structure, TypeOK, ExecState, AudienceState, SinkState
  <2>4. SourceState'
    BY <1>6 DEF StartFails, Structure, TypeOK, ExecState, AudienceState, SinkState, SourceState
  <2>5. WakeupPending'
    BY <1>6 DEF StartFails, Structure, TypeOK, SourceState, WakeupPending
  <2>6. FramesUpToDate' /\ FramesInOrder'
    BY <1>6 DEF StartFails, Structure, TypeOK, ExecState, AudienceState, SourceState,
       FramesUpToDate, FramesInOrder
  <2> QED
    BY <2>1, <2>2, <2>3, <2>4, <2>5, <2>6 DEF Structure
<1>7. CASE Join
  <2>1. TypeOK' /\ ExecState'
    BY <1>7 DEF Join, Close, Emptied, Unarmed, SinkAfter, Structure, TypeOK, ExecState
  <2>2. AudienceState'
    BY <1>7 DEF Join, Close, Emptied, Unarmed, SinkAfter, Structure, TypeOK, ExecState,
       AudienceState, SourceState
  <2>3. SinkState'
    BY <1>7 DEF Join, Close, Emptied, Unarmed, SinkAfter, Structure, TypeOK, ExecState,
       AudienceState, SinkState
  <2>4. SourceState'
    BY <1>7 DEF Join, Close, Emptied, Unarmed, SinkAfter, Structure, TypeOK, ExecState,
       AudienceState, SinkState, SourceState
  <2>5. WakeupPending'
    BY <1>7 DEF Join, Close, Emptied, Unarmed, SinkAfter, Structure, TypeOK, SourceState,
       WakeupPending
  <2>6. FramesUpToDate' /\ FramesInOrder'
    BY <1>7 DEF Join, Close, Emptied, Unarmed, SinkAfter, Structure, TypeOK, ExecState,
       AudienceState, SourceState, FramesUpToDate, FramesInOrder
  <2> QED
    BY <2>1, <2>2, <2>3, <2>4, <2>5, <2>6 DEF Structure
<1>8. CASE SendFrame
  <2>1. TypeOK' /\ ExecState'
    BY <1>8 DEF SendFrame, Structure, TypeOK, ExecState
  <2>2. AudienceState'
    BY <1>8 DEF SendFrame, Structure, TypeOK, ExecState, AudienceState, SourceState
  <2>3. SinkState'
    BY <1>8 DEF SendFrame, Structure, TypeOK, ExecState, AudienceState, SinkState
  <2>4. SourceState'
    BY <1>8 DEF SendFrame, Structure, TypeOK, ExecState, AudienceState, SinkState, SourceState
  <2>5. WakeupPending'
    BY <1>8 DEF SendFrame, Structure, TypeOK, SourceState, WakeupPending
  <2>6. FramesUpToDate' /\ FramesInOrder'
    BY <1>8 DEF SendFrame, Structure, TypeOK, ExecState, AudienceState, SourceState,
       FramesUpToDate, FramesInOrder
  <2> QED
    BY <2>1, <2>2, <2>3, <2>4, <2>5, <2>6 DEF Structure
<1>9. CASE InjectFrame
  <2> PICK s \in exec.todo :
        /\ exec' = [exec EXCEPT !.todo = @ \ {s}]
        /\ IF s \in shut
             THEN UNCHANGED <<queue, triggered>>
             ELSE /\ queue' = [queue EXCEPT ![s] = Append(@, frames)]
                  /\ triggered' = triggered \cup ({s} \cap armed)
    BY <1>9, Zenon DEF InjectFrame, Enqueued
  <2>1. /\ exec.at = "sending" /\ ~crashed
        /\ UNCHANGED <<ownVars, life, shut, armed, waiting, last, frames, loop, stale, crashed>>
    BY <1>9 DEF InjectFrame
  <2>2. s \in streams /\ s \in Sources /\ s \notin shut
    BY <2>1 DEF Structure, TypeOK, AudienceState, SourceState
  <2>3. /\ queue' = [queue EXCEPT ![s] = Append(@, frames)]
        /\ triggered' = triggered \cup ({s} \cap armed)
    BY <2>2
  <2>11. exec \in [at : {"sending"}, todo : SUBSET Sources]
    BY <2>1 DEF Structure, ExecState
  <2>12. /\ exec' \in [at : {"sending"}, todo : SUBSET Sources]
         /\ exec'.at = "sending" /\ exec'.todo = exec.todo \ {s}
    BY <2>11
  <2>4. /\ queue[s] \in Seq(Nat) /\ frames \in Nat
        /\ queue'[s] = Append(queue[s], frames)
        /\ \A t \in Sources \ {s} : queue'[t] = queue[t]
    BY <2>2, <2>3, Zenon DEF Structure, TypeOK
  <2>5. /\ Append(queue[s], frames) \in Seq(Nat)
        /\ Len(queue'[s]) = Len(queue[s]) + 1 /\ queue'[s][Len(queue[s]) + 1] = frames
        /\ \A i \in 1 .. Len(queue[s]) : queue'[s][i] = queue[s][i]
    BY <2>4
  <2>6. TypeOK' /\ ExecState'
    BY <2>1, <2>3, <2>4, <2>5, <2>12 DEF Structure, TypeOK, ExecState
  <2>7. AudienceState' /\ SinkState'
    BY <2>1, <2>12 DEF Structure, AudienceState, SinkState
  <2>8. SourceState' /\ WakeupPending'
    BY <2>1, <2>2, <2>3, <2>4 DEF Structure, TypeOK, SourceState, WakeupPending
  <2>9. FramesUpToDate'
    BY <2>1, <2>2, <2>4, <2>5, <2>12 DEF Structure, TypeOK, FramesUpToDate
  <2>10. FramesInOrder'
    <3>1. \A t \in Sources \ {s} : queue'[t] = queue[t] /\ last'[t] = last[t]
      BY <2>1, <2>4
    <3>2. /\ queue[s] # << >> => queue[s][Len(queue[s])] = frames - 1
          /\ queue[s] = << >> /\ last[s] > 0 => last[s] = frames - 1
      BY <2>1, <2>2 DEF Structure, FramesUpToDate
    <3>3. \A i \in 1 .. Len(queue[s]) - 1 : queue[s][i + 1] = queue[s][i] + 1
      BY <2>2 DEF Structure, FramesInOrder
    <3>4. \A i \in 1 .. Len(queue[s]) : queue'[s][i + 1] = queue'[s][i] + 1
      <4> TAKE i \in 1 .. Len(queue[s])
      <4>1. CASE i = Len(queue[s])
        BY <2>4, <2>5, <3>2, <4>1
      <4>2. CASE i # Len(queue[s])
        <5>1. i \in 1 .. Len(queue[s]) - 1 /\ i + 1 \in 1 .. Len(queue[s])
          BY <2>4, <4>2
        <5> QED
          BY <2>5, <3>3, <5>1
      <4> QED
        BY <4>1, <4>2
    <3>5. last[s] > 0 => queue'[s][1] = last[s] + 1
      <4>1. CASE queue[s] = << >>
        BY <2>2, <2>4, <2>5, <3>2, <4>1 DEF Structure, TypeOK
      <4>2. CASE queue[s] # << >>
        <5>1. 1 \in 1 .. Len(queue[s])
          BY <2>4, <4>2
        <5> QED
          BY <2>2, <2>5, <4>2, <5>1 DEF Structure, FramesInOrder
      <4> QED
        BY <4>1, <4>2
    <3>6. \A i \in 1 .. Len(queue'[s]) - 1 : queue'[s][i + 1] = queue'[s][i] + 1
      <4>1. Len(queue[s]) \in Nat
        BY <2>4
      <4>2. Len(queue'[s]) - 1 = Len(queue[s])
        BY <2>5, <4>1
      <4> QED
        BY <3>4, <4>2, Zenon
    <3>7. last'[s] = last[s]
      BY <2>1
    <3> QED
      <4>1. \A t \in Sources \ {s} :
              /\ \A i \in 1 .. Len(queue'[t]) - 1 : queue'[t][i + 1] = queue'[t][i] + 1
              /\ last'[t] > 0 /\ queue'[t] # << >> => queue'[t][1] = last'[t] + 1
        BY <3>1 DEF Structure, FramesInOrder
      <4> QED
        BY <3>5, <3>6, <3>7, <4>1 DEF FramesInOrder
  <2> QED
    BY <2>6, <2>7, <2>8, <2>9, <2>10 DEF Structure
<1>10. CASE SendFrameReturns
  <2>1. TypeOK' /\ ExecState'
    BY <1>10 DEF SendFrameReturns, Structure, TypeOK, ExecState
  <2>2. AudienceState'
    BY <1>10 DEF SendFrameReturns, Structure, TypeOK, ExecState, AudienceState, SourceState
  <2>3. SinkState'
    BY <1>10 DEF SendFrameReturns, Structure, TypeOK, ExecState, AudienceState, SinkState
  <2>4. SourceState'
    BY <1>10 DEF SendFrameReturns, Structure, TypeOK, ExecState, AudienceState, SinkState,
       SourceState
  <2>5. WakeupPending'
    BY <1>10 DEF SendFrameReturns, Structure, TypeOK, SourceState, WakeupPending
  <2>6. FramesUpToDate' /\ FramesInOrder'
    BY <1>10 DEF SendFrameReturns, Structure, TypeOK, ExecState, AudienceState, SourceState,
       FramesUpToDate, FramesInOrder
  <2> QED
    BY <2>1, <2>2, <2>3, <2>4, <2>5, <2>6 DEF Structure
<1> QED
  BY <1>1, <1>2, <1>3, <1>4, <1>5, <1>6, <1>7, <1>8, <1>9, <1>10 DEF Publisher

\* Steps of the event loop for RTSP clients.
LEMMA ClientStructure ==
    ASSUME Structure, Client
    PROVE  Structure'
<1> USE DEF Idle, LoopIdle, Purposes, Sessions, Active, Clients, Ending, LastGiven, ownVars,
            sourceVars, threadVars
<1>1. CASE \E s \in Sources : CreateNewStreamSource(s)
  <2>1. TypeOK' /\ ExecState'
    BY <1>1, SourcesAssumption DEF CreateNewStreamSource, LoopMayLockStreams, IsServed, Create,
       Structure, TypeOK, ExecState
  <2>2. AudienceState'
    BY <1>1, SourcesAssumption DEF CreateNewStreamSource, LoopMayLockStreams, IsServed, Create,
       Structure, TypeOK, ExecState, AudienceState, SourceState
  <2>3. SinkState'
    BY <1>1, SourcesAssumption DEF CreateNewStreamSource, LoopMayLockStreams, IsServed, Create,
       Structure, TypeOK, ExecState, AudienceState, SinkState
  <2>4. SourceState'
    BY <1>1, SourcesAssumption DEF CreateNewStreamSource, LoopMayLockStreams, IsServed, Create,
       Structure, TypeOK, ExecState, AudienceState, SinkState, SourceState
  <2>5. WakeupPending'
    BY <1>1, SourcesAssumption DEF CreateNewStreamSource, LoopMayLockStreams, IsServed, Create,
       Structure, TypeOK, SourceState, WakeupPending, ExecState, AudienceState
  <2>6. FramesUpToDate' /\ FramesInOrder'
    BY <1>1, SourcesAssumption DEF CreateNewStreamSource, LoopMayLockStreams, IsServed, Create,
       Structure, TypeOK, ExecState, AudienceState, SourceState, FramesUpToDate, FramesInOrder
  <2> QED
    BY <2>1, <2>2, <2>3, <2>4, <2>5, <2>6 DEF Structure
<1>2. CASE \E s \in Sources : CloseStreamSource(s)
  <2>1. TypeOK' /\ ExecState'
    BY <1>2 DEF CloseStreamSource, LoopMayLockStreams, Close, Emptied, Unarmed, SinkAfter,
       Structure, TypeOK, ExecState
  <2>2. AudienceState'
    BY <1>2 DEF CloseStreamSource, LoopMayLockStreams, Close, Emptied, Unarmed, SinkAfter,
       Structure, TypeOK, ExecState, AudienceState, SourceState
  <2>3. SinkState'
    BY <1>2 DEF CloseStreamSource, LoopMayLockStreams, Close, Emptied, Unarmed, SinkAfter,
       Structure, TypeOK, ExecState, AudienceState, SinkState
  <2>4. SourceState'
    BY <1>2 DEF CloseStreamSource, LoopMayLockStreams, Close, Emptied, Unarmed, SinkAfter,
       Structure, TypeOK, ExecState, AudienceState, SinkState, SourceState
  <2>5. WakeupPending'
    BY <1>2 DEF CloseStreamSource, LoopMayLockStreams, Close, Emptied, Unarmed, SinkAfter,
       Structure, TypeOK, SourceState, WakeupPending
  <2>6. FramesUpToDate' /\ FramesInOrder'
    BY <1>2 DEF CloseStreamSource, LoopMayLockStreams, Close, Emptied, Unarmed, SinkAfter,
       Structure, TypeOK, ExecState, AudienceState, SourceState, FramesUpToDate, FramesInOrder
  <2> QED
    BY <2>1, <2>2, <2>3, <2>4, <2>5, <2>6 DEF Structure
<1>3. CASE CreateNewRTPSink
  <2>1. TypeOK' /\ ExecState'
    BY <1>3 DEF CreateNewRTPSink, Structure, TypeOK, ExecState
  <2>2. AudienceState'
    BY <1>3 DEF CreateNewRTPSink, Structure, TypeOK, ExecState, AudienceState, SourceState
  <2>3. SinkState'
    BY <1>3 DEF CreateNewRTPSink, Structure, TypeOK, ExecState, AudienceState, SinkState
  <2>4. SourceState'
    BY <1>3 DEF CreateNewRTPSink, Structure, TypeOK, ExecState, AudienceState, SinkState,
       SourceState
  <2>5. WakeupPending'
    BY <1>3 DEF CreateNewRTPSink, Structure, TypeOK, SourceState, WakeupPending
  <2>6. FramesUpToDate' /\ FramesInOrder'
    BY <1>3 DEF CreateNewRTPSink, Structure, TypeOK, ExecState, AudienceState, SourceState,
       FramesUpToDate, FramesInOrder
  <2> QED
    BY <2>1, <2>2, <2>3, <2>4, <2>5, <2>6 DEF Structure
<1>4. CASE SdpLines
  <2>1. TypeOK' /\ ExecState'
    BY <1>4, SourcesAssumption DEF SdpLines, Describing, IsServed, Structure, TypeOK, ExecState
  <2>2. AudienceState'
    BY <1>4, SourcesAssumption DEF SdpLines, Describing, IsServed, Structure, TypeOK, ExecState,
       AudienceState, SourceState
  <2>3. SinkState'
    BY <1>4, SourcesAssumption DEF SdpLines, Describing, IsServed, Structure, TypeOK, ExecState,
       AudienceState, SinkState
  <2>4. SourceState'
    BY <1>4, SourcesAssumption DEF SdpLines, Describing, IsServed, Structure, TypeOK, ExecState,
       AudienceState, SinkState, SourceState
  <2>5. WakeupPending'
    BY <1>4, SourcesAssumption DEF SdpLines, Describing, IsServed, Structure, TypeOK, SourceState,
       WakeupPending
  <2>6. FramesUpToDate' /\ FramesInOrder'
    BY <1>4, SourcesAssumption DEF SdpLines, Describing, IsServed, Structure, TypeOK, ExecState,
       AudienceState, SourceState, FramesUpToDate, FramesInOrder
  <2> QED
    BY <2>1, <2>2, <2>3, <2>4, <2>5, <2>6 DEF Structure
<1>5. CASE SdpLinesReturns
  <2>1. TypeOK' /\ ExecState'
    BY <1>5 DEF SdpLinesReturns, Structure, TypeOK, ExecState
  <2>2. AudienceState'
    BY <1>5 DEF SdpLinesReturns, Structure, TypeOK, ExecState, AudienceState, SourceState
  <2>3. SinkState'
    BY <1>5 DEF SdpLinesReturns, Structure, TypeOK, ExecState, AudienceState, SinkState
  <2>4. SourceState'
    BY <1>5 DEF SdpLinesReturns, Structure, TypeOK, ExecState, AudienceState, SinkState,
       SourceState
  <2>5. WakeupPending'
    BY <1>5 DEF SdpLinesReturns, Structure, TypeOK, SourceState, WakeupPending
  <2>6. FramesUpToDate' /\ FramesInOrder'
    BY <1>5 DEF SdpLinesReturns, Structure, TypeOK, ExecState, AudienceState, SourceState,
       FramesUpToDate, FramesInOrder
  <2> QED
    BY <2>1, <2>2, <2>3, <2>4, <2>5, <2>6 DEF Structure
<1>6. CASE CloseDescription
  <2>1. TypeOK' /\ ExecState'
    BY <1>6 DEF CloseDescription, Describing, SinkAfter, Structure, TypeOK, ExecState
  <2>2. AudienceState'
    BY <1>6 DEF CloseDescription, Describing, SinkAfter, Structure, TypeOK, ExecState, AudienceState,
       SourceState
  <2>3. SinkState'
    BY <1>6 DEF CloseDescription, Describing, SinkAfter, Structure, TypeOK, ExecState, AudienceState,
       SinkState
  <2>4. SourceState'
    BY <1>6 DEF CloseDescription, Describing, SinkAfter, Structure, TypeOK, ExecState, AudienceState,
       SinkState, SourceState
  <2>5. WakeupPending'
    BY <1>6 DEF CloseDescription, Describing, SinkAfter, Structure, TypeOK, SourceState,
       WakeupPending
  <2>6. FramesUpToDate' /\ FramesInOrder'
    BY <1>6 DEF CloseDescription, Describing, SinkAfter, Structure, TypeOK, ExecState, AudienceState,
       SourceState, FramesUpToDate, FramesInOrder
  <2> QED
    BY <2>1, <2>2, <2>3, <2>4, <2>5, <2>6 DEF Structure
<1> QED
  BY <1>1, <1>2, <1>3, <1>4, <1>5, <1>6 DEF Client

\* Steps of the event loop for the sources.
LEMMA InjectorStructure ==
    ASSUME Structure, Injector
    PROVE  Structure'
<1> USE DEF Idle, LoopIdle, Purposes, Sessions, Active, Clients, Ending, LastGiven, ownVars,
            sourceVars, threadVars
<1>1. CASE \E s \in Sources : DoGetNextFrame(s)
  <2>1. TypeOK' /\ ExecState'
    BY <1>1, SourcesAssumption DEF DoGetNextFrame, Asked, Structure, TypeOK, ExecState
  <2>2. AudienceState'
    BY <1>1, SourcesAssumption DEF DoGetNextFrame, Asked, Structure, TypeOK, ExecState,
       AudienceState, SourceState
  <2>3. SinkState'
    BY <1>1, SourcesAssumption DEF DoGetNextFrame, Asked, Structure, TypeOK, ExecState,
       AudienceState, SinkState
  <2>4. SourceState'
    BY <1>1, SourcesAssumption DEF DoGetNextFrame, Asked, Structure, TypeOK, ExecState,
       AudienceState, SinkState, SourceState
  <2>5. WakeupPending'
    BY <1>1, SourcesAssumption DEF DoGetNextFrame, Asked, Structure, TypeOK, SourceState,
       WakeupPending
  <2>6. FramesUpToDate' /\ FramesInOrder'
    BY <1>1, SourcesAssumption DEF DoGetNextFrame, Asked, Structure, TypeOK, ExecState,
       AudienceState, SourceState, FramesUpToDate, FramesInOrder
  <2> QED
    BY <2>1, <2>2, <2>3, <2>4, <2>5, <2>6 DEF Structure
<1>2. CASE \E s \in Sources : GetNextFrameClosure(s)
  <2>1. TypeOK' /\ ExecState'
    BY <1>2 DEF GetNextFrameClosure, LoopMayLockStreams, Close, Emptied, Unarmed, SinkAfter,
       Structure, TypeOK, ExecState
  <2>2. AudienceState'
    BY <1>2 DEF GetNextFrameClosure, LoopMayLockStreams, Close, Emptied, Unarmed, SinkAfter,
       Structure, TypeOK, ExecState, AudienceState, SourceState
  <2>3. SinkState'
    BY <1>2 DEF GetNextFrameClosure, LoopMayLockStreams, Close, Emptied, Unarmed, SinkAfter,
       Structure, TypeOK, ExecState, AudienceState, SinkState
  <2>4. SourceState'
    BY <1>2 DEF GetNextFrameClosure, LoopMayLockStreams, Close, Emptied, Unarmed, SinkAfter,
       Structure, TypeOK, ExecState, AudienceState, SinkState, SourceState
  <2>5. WakeupPending'
    BY <1>2 DEF GetNextFrameClosure, LoopMayLockStreams, Close, Emptied, Unarmed, SinkAfter,
       Structure, TypeOK, SourceState, WakeupPending
  <2>6. FramesUpToDate' /\ FramesInOrder'
    BY <1>2 DEF GetNextFrameClosure, LoopMayLockStreams, Close, Emptied, Unarmed, SinkAfter,
       Structure, TypeOK, ExecState, AudienceState, SourceState, FramesUpToDate, FramesInOrder
  <2> QED
    BY <2>1, <2>2, <2>3, <2>4, <2>5, <2>6 DEF Structure
<1>3. CASE \E s \in Sources : DeliverFrameEvent(s)
  <2>1. TypeOK' /\ ExecState'
    BY <1>3, SourcesAssumption DEF DeliverFrameEvent, Structure, TypeOK, ExecState
  <2>2. AudienceState'
    BY <1>3, SourcesAssumption DEF DeliverFrameEvent, Structure, TypeOK, ExecState,
       AudienceState, SourceState
  <2>3. SinkState'
    BY <1>3, SourcesAssumption DEF DeliverFrameEvent, Structure, TypeOK, ExecState,
       AudienceState, SinkState
  <2>4. SourceState'
    BY <1>3, SourcesAssumption DEF DeliverFrameEvent, Structure, TypeOK, ExecState,
       AudienceState, SinkState, SourceState
  <2>5. WakeupPending'
    BY <1>3, SourcesAssumption DEF DeliverFrameEvent, Structure, TypeOK, SourceState,
       WakeupPending
  <2>6. FramesUpToDate' /\ FramesInOrder'
    BY <1>3, SourcesAssumption DEF DeliverFrameEvent, Structure, TypeOK, ExecState,
       AudienceState, SourceState, FramesUpToDate, FramesInOrder
  <2> QED
    BY <2>1, <2>2, <2>3, <2>4, <2>5, <2>6 DEF Structure
<1>4. CASE DeliverFrame
  <2> PICK s \in Sources : s = loop.source
    BY <1>4 DEF DeliverFrame, Structure, TypeOK
  <2>1. /\ ~crashed /\ ~stale /\ loop.at = "deliver"
        /\ UNCHANGED <<ownVars, life, shut, armed, triggered, frames, exec, stale, crashed>>
    BY <1>4 DEF DeliverFrame
  <2>2. CASE queue[s] = << >> /\ loop' = LoopIdle /\ UNCHANGED <<queue, waiting, last>>
    BY <2>1, <2>2 DEF Structure, TypeOK, ExecState, AudienceState, SinkState, SourceState,
                      WakeupPending, FramesUpToDate, FramesInOrder
  <2>3. CASE /\ queue[s] # << >>
             /\ queue' = [queue EXCEPT ![s] = Tail(@)]
             /\ last' = [last EXCEPT ![s] = Head(queue[s])]
             /\ \/ waiting' = waiting \ {s} /\ loop' = LoopIdle
                \/ loop' = [at |-> "stuck", source |-> s] /\ UNCHANGED waiting
    <3>1. /\ queue[s] \in Seq(Nat) /\ queue[s] # << >>
          /\ \A t \in Sources \ {s} : queue'[t] = queue[t] /\ last'[t] = last[t]
      BY <2>3 DEF Structure, TypeOK
    <3>2. queue'[s] = Tail(queue[s]) /\ last'[s] = Head(queue[s])
      BY <2>3, Zenon DEF Structure, TypeOK
    <3>3. PICK q \in Seq(Nat) : q = queue[s]
      BY <3>1
    <3>4. /\ Tail(q) \in Seq(Nat) /\ Head(q) \in Nat /\ Head(q) = q[1]
          /\ Len(q) \in Nat \ {0} /\ Len(Tail(q)) = Len(q) - 1
          /\ \A i \in 1 .. Len(q) - 1 : Tail(q)[i] = q[i + 1]
          /\ Tail(q) = << >> <=> Len(q) = 1
      BY <3>1, <3>3, NonEmptyTail
    <3>5. /\ \A i \in 1 .. Len(q) - 1 : q[i + 1] = q[i] + 1
          /\ s \in streams => q[Len(q)] = LastGiven(s)
      BY <3>1, <3>3, Zenon DEF Structure, FramesInOrder, FramesUpToDate
    <3>6. TypeOK' /\ ExecState'
      <4>1. queue' \in [Sources -> Seq(Nat)] /\ last' \in [Sources -> Nat]
        BY <2>3, <3>2, <3>3, <3>4 DEF Structure, TypeOK
      <4>2. s # NoSource
        BY SourcesAssumption
      <4> QED
        BY <2>1, <2>3, <4>1, <4>2 DEF Structure, TypeOK, ExecState
    <3>7. AudienceState' /\ SinkState'
      BY <2>1, <2>3 DEF Structure, AudienceState, SinkState
    <3>8. SourceState'
      BY <2>1, <2>3, <3>1 DEF Structure, TypeOK, AudienceState, SourceState
    <3>9. WakeupPending'
      BY <2>1, <2>3, <3>1 DEF Structure, TypeOK, WakeupPending
    <3>10. FramesUpToDate'
      <4>1. /\ LastGiven(s)' = LastGiven(s) /\ streams' = streams
            /\ \A t \in Sources : LastGiven(t)' = LastGiven(t)
        BY <2>1
      <4>2. Tail(q) # << >> => Tail(q)[Len(Tail(q))] = q[Len(q)]
        <5> SUFFICES ASSUME Tail(q) # << >> PROVE Tail(q)[Len(q) - 1] = q[Len(q)]
          BY <3>4
        <5>1. Len(q) - 1 \in 1 .. Len(q) - 1 /\ (Len(q) - 1) + 1 = Len(q)
          BY <3>4
        <5> QED
          BY <3>4, <5>1
      <4>3. Tail(q) = << >> => Head(q) = q[Len(q)]
        BY <3>4
      <4>4. ASSUME NEW t \in streams, t # s
            PROVE  /\ queue'[t] # << >> => queue'[t][Len(queue'[t])] = LastGiven(t)
                   /\ queue'[t] = << >> /\ last'[t] > 0 => last'[t] = LastGiven(t)
        BY <3>1, <4>4 DEF Structure, TypeOK, FramesUpToDate
      <4>5. s \in streams =>
              /\ queue'[s] # << >> => queue'[s][Len(queue'[s])] = LastGiven(s)
              /\ queue'[s] = << >> => last'[s] = LastGiven(s)
        BY <3>2, <3>3, <3>5, <4>2, <4>3
      <4> QED
        <5> SUFFICES ASSUME NEW t \in streams
                     PROVE  /\ queue'[t] # << >> => queue'[t][Len(queue'[t])] = LastGiven(t)
                            /\ queue'[t] = << >> /\ last'[t] > 0 => last'[t] = LastGiven(t)
          BY <4>1, Zenon DEF FramesUpToDate, Structure, TypeOK
        <5> QED
          BY <4>4, <4>5, Zenon
    <3>11. FramesInOrder'
      <4>1. \A i \in 1 .. Len(Tail(q)) - 1 : Tail(q)[i + 1] = Tail(q)[i] + 1
        <5> TAKE i \in 1 .. Len(Tail(q)) - 1
        <5>1. i \in 1 .. Len(q) - 1 /\ i + 1 \in 1 .. Len(q) - 1
          BY <3>4
        <5> QED
          BY <3>4, <3>5, <5>1
      <4>2. Tail(q) # << >> => Tail(q)[1] = Head(q) + 1
        <5> SUFFICES ASSUME Tail(q) # << >> PROVE Tail(q)[1] = q[1] + 1
          BY <3>4
        <5>1. 1 \in 1 .. Len(q) - 1
          BY <3>4
        <5> QED
          BY <3>4, <3>5, <5>1
      <4> QED
        <5>1. \A t \in Sources \ {s} :
                /\ \A i \in 1 .. Len(queue'[t]) - 1 : queue'[t][i + 1] = queue'[t][i] + 1
                /\ last'[t] > 0 /\ queue'[t] # << >> => queue'[t][1] = last'[t] + 1
          <6>1. \A t \in Sources \ {s} :
                  /\ \A i \in 1 .. Len(queue[t]) - 1 : queue[t][i + 1] = queue[t][i] + 1
                  /\ last[t] > 0 /\ queue[t] # << >> => queue[t][1] = last[t] + 1
            BY Zenon DEF Structure, FramesInOrder
          <6>2. ASSUME NEW t \in Sources \ {s}
                PROVE  queue'[t] = queue[t] /\ last'[t] = last[t]
            BY <3>1, Zenon
          <6> SUFFICES
                ASSUME NEW t \in Sources \ {s}
                PROVE  /\ \A i \in 1 .. Len(queue'[t]) - 1 : queue'[t][i + 1] = queue'[t][i] + 1
                       /\ last'[t] > 0 /\ queue'[t] # << >> => queue'[t][1] = last'[t] + 1
            OBVIOUS
          <6> QED
            BY <6>1, <6>2
        <5>2. queue'[s] = Tail(q) /\ last'[s] = Head(q)
          BY <3>2, <3>3
        <5>3. /\ \A i \in 1 .. Len(queue'[s]) - 1 : queue'[s][i + 1] = queue'[s][i] + 1
              /\ queue'[s] # << >> => queue'[s][1] = last'[s] + 1
          BY <4>1, <4>2, <5>2, Zenon
        <5> QED
          BY <5>1, <5>3 DEF FramesInOrder
    <3> QED
      BY <3>6, <3>7, <3>8, <3>9, <3>10, <3>11 DEF Structure
  <2> QED
    BY <1>4, <2>2, <2>3, Zenon DEF DeliverFrame
<1>5. CASE UseAfterClose
  <2>1. TypeOK' /\ ExecState'
    BY <1>5 DEF UseAfterClose, Structure, TypeOK, ExecState
  <2>2. AudienceState'
    BY <1>5 DEF UseAfterClose, Structure, TypeOK, ExecState, AudienceState, SourceState
  <2>3. SinkState'
    BY <1>5 DEF UseAfterClose, Structure, TypeOK, ExecState, AudienceState, SinkState,
       SourceState
  <2>4. SourceState'
    BY <1>5 DEF UseAfterClose, Structure, TypeOK, ExecState, AudienceState, SinkState,
       SourceState
  <2>5. WakeupPending'
    BY <1>5 DEF UseAfterClose, Structure, TypeOK, SourceState, WakeupPending
  <2>6. FramesUpToDate' /\ FramesInOrder'
    BY <1>5 DEF UseAfterClose, Structure, TypeOK, ExecState, AudienceState, SourceState,
       FramesUpToDate, FramesInOrder
  <2> QED
    BY <2>1, <2>2, <2>3, <2>4, <2>5, <2>6 DEF Structure
<1> QED
  BY <1>1, <1>2, <1>3, <1>4, <1>5 DEF Injector

-----------------------------------------------------------------------------

\* A new source gets a trigger, or all of them belong to multicast sessions
\* that were left behind.
LEMMA CreateTriggers ==
    ASSUME Structure, IsFiniteSet(Used), Clients = {}, streams = {},
           NEW s \in Sources, life[s] = "new",
           NEW kind \in {"unicast", "multicast"}, Create(s, kind)
    PROVE  IsFiniteSet(Used') /\ SourcesHaveTriggers'
<1> DEFINE Multicasts == {t \in Sources : life[t] = "multicast"}
<1>1. Used' = Used \cup {s}
  BY DEF Structure, TypeOK, Create, Used
<1>2. IsFiniteSet(Used')
  BY <1>1, FS_AddElement
<1>3. IsFiniteSet(Multicasts) /\ Cardinality(Multicasts) \in Nat
  <2>1. Multicasts \subseteq Used
    BY DEF Used
  <2> QED
    BY <2>1, FS_Subset, FS_CardinalityType
<1>4. armed \subseteq Multicasts
  BY DEF Structure, TypeOK, SourceState, Active, Clients
<1>5. Cardinality(armed) \in Nat /\ Cardinality(armed) <= Cardinality(Multicasts)
  <2>1. IsFiniteSet(armed) /\ Cardinality(armed) <= Cardinality(Multicasts)
    BY <1>3, <1>4, FS_Subset
  <2> QED
    BY <2>1, FS_CardinalityType
<1>6. streams' = {s}
  BY DEF Create
<1>7. {t \in Sources : life'[t] = "multicast"} \ {s} = Multicasts
  BY DEF Structure, TypeOK, Create
<1>8. s \in armed' \/ Cardinality(Multicasts) >= MaxTriggers
  <2>1. CASE Cardinality(armed) < MaxTriggers
    BY <2>1 DEF Create
  <2>2. CASE ~(Cardinality(armed) < MaxTriggers)
    BY <1>3, <1>5, <2>2, BoundsAssumption
  <2> QED
    BY <2>1, <2>2
<1>9. SourcesHaveTriggers'
  BY <1>6, <1>7, <1>8, Zenon DEF SourcesHaveTriggers
<1> QED
  BY <1>2, <1>9

\* Steps that create no source, and close none of a multicast session that
\* is on.
LEMMA SameTriggers ==
    ASSUME IsFiniteSet(Used), SourcesHaveTriggers, Used' = Used, streams' \subseteq streams,
           streams' # {} =>
             /\ armed \cap streams' \subseteq armed'
             /\ \A t \in Sources : life'[t] = "multicast" <=> life[t] = "multicast"
    PROVE  IsFiniteSet(Used') /\ SourcesHaveTriggers'
<1> SUFFICES ASSUME NEW s \in streams'
             PROVE  \/ s \in armed'
                    \/ Cardinality({t \in Sources : life'[t] = "multicast"} \ {s}) >= MaxTriggers
  BY Zenon DEF SourcesHaveTriggers
<1>1. {t \in Sources : life'[t] = "multicast"} = {t \in Sources : life[t] = "multicast"}
  OBVIOUS
<1>2. \/ s \in armed
      \/ Cardinality({t \in Sources : life[t] = "multicast"} \ {s}) >= MaxTriggers
  BY Zenon DEF SourcesHaveTriggers
<1> QED
  BY <1>1, <1>2, Zenon

\* Clients leave.
LEMMA CloseTriggers ==
    ASSUME Structure, IsFiniteSet(Used), SourcesHaveTriggers,
           NEW closing \in SUBSET Clients, Close(closing)
    PROVE  IsFiniteSet(Used') /\ SourcesHaveTriggers'
<1>1. Used' = Used
  BY DEF Structure, TypeOK, Close, Used, Clients
<1>2. \A t \in Sources : life'[t] = "multicast" <=> life[t] = "multicast"
  BY DEF Structure, TypeOK, Close, Clients
<1>3. streams' \subseteq streams /\ armed \cap streams' \subseteq armed'
  BY DEF Close, Unarmed
<1> QED
  BY <1>1, <1>2, <1>3, SameTriggers

LEMMA Triggers ==
    ASSUME Structure, IsFiniteSet(Used), SourcesHaveTriggers, [Next]_vars
    PROVE  IsFiniteSet(Used') /\ SourcesHaveTriggers'
<1>1. CASE UNCHANGED <<streams, armed, life>>
  BY <1>1, SameTriggers DEF Used
<1>2. CASE \E next \in Purposes : Stop(next)
  BY <1>2, SameTriggers DEF Stop, Used
<1>3. CASE DeleteSession
  <2>1. Closing \subseteq Clients /\ Close(Closing)
    BY <1>3 DEF DeleteSession, Closing
  <2> QED
    BY <2>1, CloseTriggers
<1>4. CASE StartMulticast
  <2>1. PICK s \in Sources : life[s] = "new" /\ Create(s, "multicast")
    BY <1>4 DEF StartMulticast
  <2>2. Clients = {} /\ streams = {}
    BY <1>4 DEF StartMulticast, Structure, AudienceState, Ending
  <2> QED
    BY <2>1, <2>2, CreateTriggers
<1>5. CASE Join
  <2>1. streams = {} /\ streams' = {}
    BY <1>5 DEF Join, Close, Structure, AudienceState, Ending
  <2>2. Used' = Used
    BY <1>5 DEF Join, Close, Structure, TypeOK, Used, Active
  <2> QED
    BY <2>1, <2>2, SameTriggers
<1>6. CASE \E s \in Sources : CreateNewStreamSource(s)
  <2>1. PICK s \in Sources : CreateNewStreamSource(s)
    BY <1>6
  <2>2. life[s] = "new" /\ Create(s, "unicast") /\ Clients = {}
    BY <2>1 DEF CreateNewStreamSource
  <2>3. streams = {}
    BY <2>1, <2>2 DEF CreateNewStreamSource, IsServed, Structure, AudienceState
  <2> QED
    BY <2>2, <2>3, CreateTriggers
<1>7. CASE \E s \in Sources : CloseStreamSource(s) \/ GetNextFrameClosure(s)
  <2>1. PICK s \in Clients : Close({s})
    BY <1>7 DEF CloseStreamSource, GetNextFrameClosure
  <2> QED
    BY <2>1, CloseTriggers
<1>8. \/ UNCHANGED <<streams, armed, life>>
      \/ \E next \in Purposes : Stop(next)
      \/ DeleteSession \/ StartMulticast \/ Join
      \/ \E s \in Sources : CreateNewStreamSource(s)
      \/ \E s \in Sources : CloseStreamSource(s) \/ GetNextFrameClosure(s)
  <2>1. CASE Publisher
    BY <2>1 DEF Publisher, LoopDestroysServer, StartWithoutSink, StartUnicast, StartFails, SendFrame,
                InjectFrame, SendFrameReturns, ownVars, sourceVars
  <2>2. CASE Client
    BY <2>2 DEF Client, CreateNewRTPSink, SdpLines, SdpLinesReturns, CloseDescription, ownVars,
                sourceVars
  <2>3. CASE Injector
    BY <2>3 DEF Injector, DoGetNextFrame, DeliverFrameEvent, DeliverFrame, UseAfterClose, ownVars,
                sourceVars
  <2>4. CASE UNCHANGED vars
    BY <2>4 DEF vars, ownVars, sourceVars
  <2> QED
    BY <2>1, <2>2, <2>3, <2>4 DEF Next
<1> QED
  BY <1>1, <1>2, <1>3, <1>4, <1>5, <1>6, <1>7, <1>8

-----------------------------------------------------------------------------

\* IInv is inductive.
THEOREM Invariance == Spec => []IInv
<1>1. Init => IInv
  <2> SUFFICES ASSUME Init PROVE IInv
    OBVIOUS
  <2>1. TypeOK /\ ExecState
    BY EmptySeq DEF Init, TypeOK, ExecState, Sessions, LoopIdle
  <2>2. AudienceState /\ SinkState
    BY DEF Init, AudienceState, SinkState, Clients, Idle, LoopIdle
  <2>3. SourceState /\ WakeupPending
    BY DEF Init, SourceState, WakeupPending
  <2>4. FramesUpToDate /\ FramesInOrder
    BY EmptySeq DEF Init, FramesUpToDate, FramesInOrder
  <2>5. IsFiniteSet(Used)
    <3>1. Used = {}
      BY DEF Init, Used
    <3> QED
      BY <3>1, FS_EmptySet
  <2>6. SourcesHaveTriggers
    BY DEF Init, SourcesHaveTriggers
  <2> QED
    BY <2>1, <2>2, <2>3, <2>4, <2>5, <2>6 DEF IInv, Structure
<1>2. IInv /\ [Next]_vars => IInv'
  <2> SUFFICES ASSUME IInv, [Next]_vars PROVE IInv'
    OBVIOUS
  <2>1. Structure'
    <3>1. CASE UNCHANGED vars
      BY <3>1 DEF vars, ownVars, sourceVars, threadVars, IInv, Structure, TypeOK, ExecState,
                  AudienceState, SinkState, SourceState, WakeupPending, FramesUpToDate,
                  FramesInOrder, LastGiven, Active, Clients, Ending
    <3> QED
      BY <3>1, PublisherStructure, ClientStructure, InjectorStructure DEF IInv, Next
  <2>2. IsFiniteSet(Used') /\ SourcesHaveTriggers'
    BY Triggers DEF IInv
  <2> QED
    BY <2>1, <2>2 DEF IInv
<1> QED
  BY <1>1, <1>2, PTL DEF Spec

\* A frame is never given to a source that is gone or of another session,
\* however joining and leaving clients interleave with stop() and sendFrame(),
\* and never to two.
THEOREM RightAudience == Spec => []StreamsBelongToSession
<1>1. IInv => StreamsBelongToSession
  <2> SUFFICES ASSUME Structure PROVE StreamsBelongToSession
    BY DEF IInv
  <2>1. streams \subseteq Active /\ \A s, t \in streams : s = t
    BY DEF Structure, TypeOK, AudienceState, Active, Clients, Sessions
  <2>2. Cardinality(streams) <= 1
    <3>1. CASE streams = {}
      BY <3>1, FS_EmptySet
    <3>2. CASE streams # {}
      <4>1. PICK s \in streams : streams = {s}
        BY <2>1, <3>2
      <4> QED
        BY <4>1, FS_Singleton
    <3> QED
      BY <3>1, <3>2
  <2> QED
    BY <2>1, <2>2 DEF Structure, AudienceState, StreamsBelongToSession, Ending, Idle
<1> QED
  BY <1>1, Invariance, PTL

\* sink_ never dangles, and names the stream once both threads are at rest.
THEOREM CurrentSink == Spec => []SinkIsCurrent
<1>1. IInv => SinkIsCurrent
  <2> SUFFICES ASSUME Structure, ~crashed
               PROVE  /\ sink # NoSource => sink \in Active
                      /\ exec.at \in {"idle", "sending"} /\ loop.at # "sink" =>
                             streams = {sink} \ {NoSource}
    BY DEF IInv, SinkIsCurrent
  <2>1. CASE session = "unicast"
    BY <2>1 DEF Structure, AudienceState, SinkState, Active, Clients
  <2>2. CASE session = "multicast"
    BY <2>2, SourcesAssumption DEF Structure, AudienceState, SinkState, Active
  <2>3. CASE session = "none"
    BY <2>3 DEF Structure, TypeOK, ExecState, AudienceState, SinkState, Active, Clients, Ending, Idle
  <2> QED
    BY <2>1, <2>2, <2>3 DEF Structure, TypeOK, Sessions
<1> QED
  BY <1>1, Invariance, PTL

\* No frame waits for a trigger that was lost, whatever merges and shutdowns.
THEOREM Wakeups == Spec => []NoLostWakeup
<1>1. IInv => NoLostWakeup
  BY DEF IInv, Structure, WakeupPending, NoLostWakeup
<1> QED
  BY <1>1, Invariance, PTL

\* Every client sees the frames in order and without a gap.
THEOREM Order == Spec => []FramesInOrder
<1>1. IInv => FramesInOrder
  BY DEF IInv, Structure
<1> QED
  BY <1>1, Invariance, PTL

\* Only multicast sessions that were left behind can use up the triggers.
THEOREM EnoughTriggers == Spec => []SourcesHaveTriggers
<1>1. IInv => SourcesHaveTriggers
  BY DEF IInv
<1> QED
  BY <1>1, Invariance, PTL

-----------------------------------------------------------------------------

Offer == IF exec.at = "unlocked" /\ exec.old = "unicast" THEN "unicast" ELSE session

\* Every step of either thread is one that Audience allows, or leaves what it
\* speaks of alone.
LEMMA AudienceStep ==
    ASSUME Structure, Structure', [Next]_vars
    PROVE  [Promise!AudienceNext]_(Promise!audienceVars)
<1> DEFINE Watched == streams # {}
<1> USE DEF Ending, Idle, Clients
<1>1. CASE Offer' = Offer /\ Watched' = Watched
  BY <1>1 DEF Promise!audienceVars, Offer
<1>2. CASE Offer' = "none" /\ ~Watched'
  BY <1>2 DEF Promise!AudienceNext, Promise!End, Offer
<1>3. CASE Offer = "unicast" /\ Offer' = "unicast" /\ Watched # Watched'
  BY <1>3 DEF Promise!AudienceNext, Promise!Join, Promise!Leave, Offer
<1>4. CASE (Offer' = "unicast" /\ ~Watched') \/ (Offer' = "multicast" /\ Watched')
  BY <1>4 DEF Promise!AudienceNext, Promise!Open, Promise!Kinds, Offer
<1>5. CASE Publisher
  <2>1. CASE \E next \in Purposes : Stop(next)
    <3>1. ~Watched' /\ exec'.at = "unlocked" /\ exec'.old = session /\ session' = "none"
      BY <2>1 DEF Stop
    <3>2. Offer' = "unicast" \/ Offer' = "none" \/ session = "multicast"
      BY <3>1 DEF Offer, Structure, TypeOK, Sessions
    <3>3. session = "multicast" => Offer' = "none"
      BY <3>1 DEF Offer
    <3> QED
      BY <1>2, <1>4, <3>1, <3>2, <3>3
  <2>2. CASE DeleteSession
    <3>1. exec'.at # "unlocked" /\ session' = "none"
      BY <2>2 DEF DeleteSession, Structure, AudienceState
    <3>2. streams' = {}
      BY <2>2 DEF DeleteSession, Close, Closing, Structure, AudienceState
    <3> QED
      BY <1>2, <3>1, <3>2 DEF Offer
  <2>3. CASE StartUnicast
    <3>1. exec'.at # "unlocked" /\ session' = "unicast" /\ streams' = streams
      BY <2>3 DEF StartUnicast
    <3>2. streams = {}
      BY <2>3 DEF StartUnicast, Structure, AudienceState
    <3> QED
      BY <1>4, <3>1, <3>2 DEF Offer
  <2>4. CASE StartMulticast
    BY <1>4, <2>4 DEF StartMulticast, Create, Offer
  <2>5. CASE Join
    BY <1>1, <2>5 DEF Join, Close, Offer, Structure, AudienceState
  <2>6. CASE \/ LoopDestroysServer \/ StartWithoutSink \/ StartFails
             \/ SendFrame \/ InjectFrame \/ SendFrameReturns
    <3>1. UNCHANGED <<session, streams>>
      BY <2>6 DEF LoopDestroysServer, StartWithoutSink, StartFails, SendFrame, InjectFrame,
                  SendFrameReturns, ownVars
    <3>2. exec.at # "unlocked" \/ exec' = exec
      BY <2>6 DEF LoopDestroysServer, StartWithoutSink, StartFails, SendFrame, InjectFrame,
                  SendFrameReturns
    <3>3. exec'.at # "unlocked" \/ exec' = exec
      BY <2>6 DEF LoopDestroysServer, StartWithoutSink, StartFails, SendFrame, InjectFrame,
                  SendFrameReturns, Structure, ExecState
    <3> QED
      BY <1>1, <3>1, <3>2, <3>3 DEF Offer
  <2> QED
    BY <1>5, <2>1, <2>2, <2>3, <2>4, <2>5, <2>6 DEF Publisher
<1>6. CASE \E s \in Sources : CreateNewStreamSource(s)
  BY <1>3, <1>6 DEF CreateNewStreamSource, IsServed, LoopMayLockStreams, Create, Offer, Structure, AudienceState
<1>7. CASE \E s \in Sources : CloseStreamSource(s) \/ GetNextFrameClosure(s)
  BY <1>1, <1>3, <1>7 DEF CloseStreamSource, GetNextFrameClosure, Close, threadVars, Offer, Structure, AudienceState
<1>8. CASE UNCHANGED <<session, streams, exec>>
  BY <1>1, <1>8 DEF Offer
<1> QED
  <2>1. CASE Client
    BY <1>6, <1>7, <1>8, <2>1 DEF Client, CreateNewRTPSink, SdpLines, SdpLinesReturns,
                                  CloseDescription, ownVars
  <2>2. CASE Injector
    BY <1>7, <1>8, <2>2 DEF Injector, DoGetNextFrame, DeliverFrameEvent, DeliverFrame,
                            UseAfterClose, ownVars
  <2>3. CASE UNCHANGED vars
    BY <1>8, <2>3 DEF vars, ownVars, threadVars
  <2> QED
    BY <1>5, <2>1, <2>2, <2>3 DEF Next

\* StreamServer keeps the promises of Audience.
THEOREM Refinement == Spec => ImplementsAudience
<1>1. Init => Promise!AudienceInit
  BY DEF Init, Promise!AudienceInit, Idle
<1>2. IInv /\ IInv' /\ [Next]_vars => [Promise!AudienceNext]_(Promise!audienceVars)
  BY AudienceStep DEF IInv
<1> QED
  BY <1>1, <1>2, Invariance, PTL DEF Spec, ImplementsAudience, Promise!AudienceSpec

=============================================================================
