---------------------------- MODULE StreamServer ----------------------------
(***************************************************************************)
(* StreamServer and FrameInjector (stream_server.cpp, frame_injector.cpp). *)
(*                                                                         *)
(* The publisher's thread starts and stops sessions, sends frames, and     *)
(* destroys and replaces the server; the event loop of live555 sets up and *)
(* closes media sources for the RTSP clients and drains them. They share   *)
(* streams_ (under streams_mutex_), the queue of every injector (under its *)
(* frame_queue_mutex_), and sink_ and is_shutdown_ without a lock. stop()  *)
(* closes the clients of the old session on the publisher's thread, while  *)
(* the loop is running.                                                    *)
(*                                                                         *)
(* A frame is its number. A source is a FrameInjector with its framer and  *)
(* its RTP sink; it is never used again once it is closed. The source that *)
(* live555 makes to describe a session nobody watches gets no number: it   *)
(* enters neither streams_ nor sink_. What closing it does is modelled,    *)
(* the event trigger that it has until then is not.                        *)
(***************************************************************************)
EXTENDS Naturals, Sequences, FiniteSets

CONSTANTS
    Sources,      \* bound: the media sources that are ever created
    Greedy,       \* those whose sink may ask for a frame while it takes one
    MaxTriggers,  \* event triggers of the task scheduler (32 in live555)
    MaxFrames,    \* bound: frames sent
    NoSource      \* no source: a null sink_, or what an idle loop works on

ASSUME SourcesAssumption == Greedy \subseteq Sources /\ NoSource \notin Sources
ASSUME BoundsAssumption == MaxTriggers \in Nat /\ MaxFrames \in Nat

VARIABLES
    session,    \* *sms_: "none", "unicast" or "multicast"
    streams,    \* the sources in streams_
    sink,       \* the source whose RTP sink sink_ points to
    life,       \* of each source: "new", "unicast", "multicast" or "closed"
    shut,       \* the sources with is_shutdown_
    queue,      \* frame_queue_ of each source
    armed,      \* the sources that got an event trigger
    triggered,  \* those whose trigger is pending
    waiting,    \* those with isCurrentlyAwaitingData()
    last,       \* history: the last frame each source has delivered
    frames,     \* frames sent so far
    exec,       \* where the publisher's thread is
    loop,       \* where the event loop is
    stale,      \* the source the loop works on has been closed
    crashed     \* the process is gone

ownVars == <<session, streams, sink>>
sourceVars == <<life, shut, queue, armed, triggered, waiting, last>>
threadVars == <<exec, loop, stale, crashed>>
vars == <<ownVars, sourceVars, frames, threadVars>>

Idle == [at |-> "idle"]
LoopIdle == [at |-> "idle", source |-> NoSource]
Describing(s) == [at |-> "describe", source |-> s]

Active == {s \in Sources : life[s] \in {"unicast", "multicast"}}
Clients == {s \in Sources : life[s] = "unicast"}

Init ==
    /\ session = "none" /\ streams = {} /\ sink = NoSource
    /\ life = [s \in Sources |-> "new"]
    /\ shut = {} /\ armed = {} /\ triggered = {} /\ waiting = {}
    /\ queue = [s \in Sources |-> << >>]
    /\ last = [s \in Sources |-> 0]
    /\ frames = 0
    /\ exec = Idle /\ loop = LoopIdle
    /\ stale = FALSE /\ crashed = FALSE

-----------------------------------------------------------------------------
(* Steps of the sources that both threads take.                            *)

\* Is frame_queue_mutex_ of this source free?
QueueIsFree(s) == loop # [at |-> "stuck", source |-> s]

Emptied(these) == [s \in Sources |-> IF s \in these THEN << >> ELSE queue[s]]

\* FrameInjector(): the scheduler may have no event trigger left.
\* newStreamSource() puts the source into streams_.
Create(s, kind) ==
    /\ life' = [life EXCEPT ![s] = kind]
    /\ armed' = IF Cardinality(armed) < MaxTriggers THEN armed \cup {s} ELSE armed
    /\ streams' = streams \cup {s}

\* Mutant: the destructor keeps the event trigger.
UnarmedNot(closing) == armed

Unarmed(closing) == armed \ closing

\* Mutant: closeStreamSource() leaves sink_ alone.
SinkKept(left) == sink

\* sink_ once only these streams are left.
SinkAfter(left) == IF left = {} THEN NoSource ELSE sink

\* closeStreamSource() of the sources, and their destructor.
Close(closing) ==
    /\ life' = [s \in Sources |-> IF s \in closing THEN "closed" ELSE life[s]]
    /\ shut' = shut \cup closing
    /\ queue' = Emptied(closing)
    /\ armed' = Unarmed(closing)
    /\ triggered' = triggered \ closing
    /\ streams' = streams \ closing
    /\ sink' = IF closing = {} THEN sink ELSE SinkAfter(streams \ closing)

-----------------------------------------------------------------------------
(* The publisher's thread: start(), stop(), ~StreamServer(), sendFrame().  *)

\* What the publisher may do after the call of stop() that begins it.
Purposes == {"none", "unicast", "multicast", "destroy"}

\* A client is being set up, or the session described: sdpLines() and
\* createNewRTPSink() have locked server_.
LoopHoldsServer == loop.at \in {"sink", "describe"}

\* The locked part of stop(), which start() and the destructor call first.
Stop(next) ==
    /\ ~crashed /\ exec = Idle
    /\ next = "destroy" => ~LoopHoldsServer
    /\ \A s \in streams : QueueIsFree(s)
    /\ exec' = [at |-> "unlocked", old |-> session, next |-> next]
    /\ session' = "none" /\ streams' = {} /\ sink' = NoSource
    /\ shut' = shut \cup streams
    /\ queue' = Emptied(streams)
    /\ UNCHANGED <<life, armed, triggered, waiting, last, frames, loop, stale, crashed>>

\* The publisher gives up the server while the loop holds a reference, or is
\* just closing a source: the destructor then runs on the event loop and
\* joins itself.
LoopDestroysServer ==
    /\ ~crashed /\ exec = Idle
    /\ LoopHoldsServer \/ (loop = LoopIdle /\ Clients # {})
    /\ crashed' = TRUE
    /\ UNCHANGED <<ownVars, sourceVars, frames, exec, loop, stale>>

\* Mutant: the sources of the old session are left to their clients.
ClosingNone == {}

\* live555 closes the clients of a unicast session. Sink and source of a
\* multicast session are left as they are.
Closing == IF exec.old = "unicast" THEN Clients ELSE {}

\* deleteServerMediaSession(). A client that the loop is setting up is freed
\* under its hands.
DeleteSession ==
    /\ ~crashed /\ exec.at = "unlocked"
    /\ \A s \in Closing : QueueIsFree(s)
    /\ exec' = CASE exec.next = "none" -> Idle
                 [] exec.next = "destroy" -> [at |-> "joining"]
                 [] OTHER -> [at |-> "starting", next |-> exec.next]
    /\ Close(Closing)
    /\ crashed' = (loop.at = "sink")
    /\ stale' = (stale \/ loop.source \in Closing)
    /\ UNCHANGED <<session, waiting, last, frames, loop>>

\* start() of a unicast session only announces it.
StartUnicast ==
    /\ ~crashed /\ exec = [at |-> "starting", next |-> "unicast"]
    /\ exec' = Idle
    /\ session' = "unicast"
    /\ UNCHANGED <<streams, sink, sourceVars, frames, loop, stale, crashed>>

\* start() of a multicast session creates its sink and source and plays them.
StartMulticast ==
    /\ ~crashed /\ exec = [at |-> "starting", next |-> "multicast"]
    /\ exec' = Idle
    /\ session' = "multicast"
    /\ \E s \in Sources :
         /\ life[s] = "new"
         /\ Create(s, "multicast")
         /\ sink' = s
         /\ waiting' = waiting \cup {s}
    /\ UNCHANGED <<shut, queue, triggered, last, frames, loop, stale, crashed>>

\* The loop closes the source of a description between the creation of the
\* sink and that of the source: start() follows a null sink_.
StartWithoutSink ==
    /\ ~crashed /\ exec = [at |-> "starting", next |-> "multicast"]
    /\ loop = Describing(NoSource)
    /\ crashed' = TRUE
    /\ UNCHANGED <<ownVars, sourceVars, frames, exec, loop, stale>>

\* start() throws: the codec is not supported, or there is no host name. The
\* publisher destroys the server, whose stop() finds nothing.
StartFails ==
    /\ ~crashed /\ exec.at = "starting"
    /\ exec' = [at |-> "joining"]
    /\ UNCHANGED <<ownVars, sourceVars, frames, loop, stale, crashed>>

\* The event loop has seen quit_flag_. Its scheduler and the triggers go with
\* it. The next server begins with the same variables.
Join ==
    /\ ~crashed /\ exec.at = "joining"
    /\ loop = LoopIdle
    /\ exec' = Idle
    /\ Close(Active)
    /\ UNCHANGED <<session, waiting, last, frames, loop, stale, crashed>>

\* sendFrame() holds streams_mutex_ from here to SendFrameReturns.
SendFrame ==
    /\ ~crashed /\ exec = Idle
    /\ streams # {} /\ frames < MaxFrames
    /\ frames' = frames + 1
    /\ exec' = [at |-> "sending", todo |-> streams]
    /\ UNCHANGED <<ownVars, sourceVars, loop, stale, crashed>>

\* Mutant: a new frame goes to the front of the queue.
EnqueuedInFront(q) == <<frames>> \o q

Enqueued(q) == Append(q, frames)

\* injectFrame() of one source after the other.
InjectFrame ==
    /\ ~crashed /\ exec.at = "sending"
    /\ \E s \in exec.todo :
         /\ QueueIsFree(s)
         /\ exec' = [exec EXCEPT !.todo = @ \ {s}]
         /\ IF s \in shut
              THEN UNCHANGED <<queue, triggered>>
              ELSE /\ queue' = [queue EXCEPT ![s] = Enqueued(@)]
                   /\ triggered' = triggered \cup ({s} \cap armed)
    /\ UNCHANGED <<ownVars, life, shut, armed, waiting, last, frames, loop, stale, crashed>>

SendFrameReturns ==
    /\ ~crashed /\ exec.at = "sending" /\ exec.todo = {}
    /\ exec' = Idle
    /\ UNCHANGED <<ownVars, sourceVars, frames, loop, stale, crashed>>

-----------------------------------------------------------------------------
(* The event loop: RTSP clients.                                           *)

LoopMayLockStreams == ~crashed /\ loop = LoopIdle /\ exec.at # "sending"

\* live555 serves a session until deleteServerMediaSession(). A subsession
\* whose server is being destroyed (server_.lock() fails) does nothing.
IsServed ==
    \/ session = "unicast"
    \/ exec.at = "unlocked" /\ exec.old = "unicast" /\ exec.next # "destroy"

\* The first client of a unicast session gets a source, which later ones
\* share.
CreateNewStreamSource(s) ==
    /\ LoopMayLockStreams /\ IsServed
    /\ Clients = {} /\ life[s] = "new"
    /\ Create(s, "unicast")
    /\ loop' = [at |-> "sink", source |-> s]
    /\ UNCHANGED <<session, sink, shut, queue, triggered, waiting, last, frames,
                   exec, stale, crashed>>

CreateNewRTPSink ==
    /\ ~crashed /\ loop.at = "sink"
    /\ sink' = loop.source
    /\ loop' = LoopIdle
    /\ UNCHANGED <<session, streams, sourceVars, frames, exec, stale, crashed>>

\* sdpLines(): a session that is watched is described by its sink, any other
\* by a source and a sink made for the purpose.
SdpLines ==
    /\ ~crashed /\ loop = LoopIdle /\ IsServed
    /\ loop' = Describing(sink)
    /\ stale' = (sink \notin Active \cup {NoSource})
    /\ UNCHANGED <<ownVars, sourceVars, frames, exec, crashed>>

SdpLinesReturns ==
    /\ ~crashed /\ loop.at = "describe" /\ loop.source # NoSource /\ ~stale
    /\ loop' = LoopIdle
    /\ UNCHANGED <<ownVars, sourceVars, frames, exec, stale, crashed>>

\* closeStreamSource() does not find the source that was made to describe
\* the session, and resets sink_ unless there is another.
CloseDescription ==
    /\ ~crashed /\ loop = Describing(NoSource) /\ exec.at # "sending"
    /\ sink' = SinkAfter(streams)
    /\ loop' = LoopIdle
    /\ UNCHANGED <<session, streams, sourceVars, frames, exec, stale, crashed>>

\* The last client leaves.
CloseStreamSource(s) ==
    /\ LoopMayLockStreams
    /\ s \in Clients
    /\ Close({s})
    /\ UNCHANGED <<session, waiting, last, frames, threadVars>>

-----------------------------------------------------------------------------
(* The event loop: FrameInjector.                                          *)

\* Mutant: only the trigger delivers.
AskedOnly(s) == LoopIdle

\* deliverFrame() follows when the sink has asked.
Asked(s) == [at |-> "deliver", source |-> s]

\* doGetNextFrame() of a source that is not shut down.
DoGetNextFrame(s) ==
    /\ ~crashed /\ loop = LoopIdle
    /\ s \in Active \ (waiting \cup shut)
    /\ waiting' = waiting \cup {s}
    /\ loop' = Asked(s)
    /\ UNCHANGED <<ownVars, life, shut, queue, armed, triggered, last, frames,
                   exec, stale, crashed>>

\* doGetNextFrame() of a source that is shut down: handleClosure(), and
\* live555 closes a source of clients. (The sink of a multicast session that
\* was left behind just stops.)
GetNextFrameClosure(s) ==
    /\ LoopMayLockStreams
    /\ s \in (Clients \cap shut) \ waiting
    /\ Close({s})
    /\ UNCHANGED <<session, waiting, last, frames, threadVars>>

\* deliverFrameEvent(): several triggers make one event. Nothing happens
\* when the sink is not waiting.
DeliverFrameEvent(s) ==
    /\ ~crashed /\ loop = LoopIdle /\ s \in triggered
    /\ triggered' = triggered \ {s}
    /\ loop' = IF s \in waiting THEN [at |-> "deliver", source |-> s] ELSE LoopIdle
    /\ UNCHANGED <<ownVars, life, shut, queue, armed, waiting, last, frames,
                   exec, stale, crashed>>

\* deliverFrame() from the lock on. A greedy sink asks for the next frame in
\* afterGetting(), with frame_queue_mutex_ held: the loop waits for itself.
DeliverFrame ==
    /\ ~crashed /\ loop.at = "deliver" /\ ~stale
    /\ LET s == loop.source
       IN \/ /\ queue[s] = << >>
             /\ loop' = LoopIdle
             /\ UNCHANGED <<queue, waiting, last>>
          \/ /\ queue[s] # << >>
             /\ queue' = [queue EXCEPT ![s] = Tail(@)]
             /\ last' = [last EXCEPT ![s] = Head(queue[s])]
             /\ \/ waiting' = waiting \ {s} /\ loop' = LoopIdle
                \/ s \in Greedy /\ loop' = [at |-> "stuck", source |-> s] /\ UNCHANGED waiting
    /\ UNCHANGED <<ownVars, life, shut, armed, triggered, frames, exec, stale, crashed>>

\* The source, or the sink that is described, was closed by the publisher's
\* thread.
UseAfterClose ==
    /\ ~crashed /\ stale
    /\ crashed' \in BOOLEAN
    /\ loop' = LoopIdle /\ stale' = FALSE
    /\ UNCHANGED <<ownVars, sourceVars, frames, exec>>

-----------------------------------------------------------------------------

Publisher ==
    \/ \E next \in Purposes : Stop(next)
    \/ LoopDestroysServer
    \/ DeleteSession \/ StartUnicast \/ StartMulticast \/ StartWithoutSink
    \/ StartFails \/ Join
    \/ SendFrame \/ InjectFrame \/ SendFrameReturns

Client ==
    \/ \E s \in Sources : CreateNewStreamSource(s) \/ CloseStreamSource(s)
    \/ CreateNewRTPSink \/ SdpLines \/ SdpLinesReturns \/ CloseDescription

Injector ==
    \/ \E s \in Sources : DoGetNextFrame(s) \/ GetNextFrameClosure(s) \/ DeliverFrameEvent(s)
    \/ DeliverFrame \/ UseAfterClose

Next == Publisher \/ Client \/ Injector

Spec == Init /\ [][Next]_vars

\* The loop handles pending events, the sinks keep asking, and a call of
\* either thread that has begun goes on. Nobody need send, start, stop,
\* describe or watch.
Fairness ==
    /\ \A s \in Sources : SF_vars(DoGetNextFrame(s)) /\ SF_vars(DeliverFrameEvent(s))
    /\ WF_vars(DeliverFrame \/ UseAfterClose \/ CreateNewRTPSink \/ SdpLinesReturns \/ CloseDescription)
    /\ WF_vars(\/ DeleteSession \/ StartUnicast \/ StartMulticast \/ StartWithoutSink
               \/ InjectFrame \/ SendFrameReturns)

FairSpec == Spec /\ Fairness

-----------------------------------------------------------------------------
(* Properties.                                                             *)

\* sendFrame() never meets an injector that is gone, or that belongs to a
\* session that is: whatever client joined while stop() was between its two
\* halves, or leaves while the frame is on its way. There is at most one
\* source to send to.
StreamsBelongToSession ==
    /\ streams \subseteq Active
    /\ exec.at = "sending" => exec.todo \subseteq streams
    /\ Cardinality(streams) <= 1
    /\ session = "none" /\ exec = Idle => streams = {}

\* sink_, which both threads write without a lock, never points to a sink
\* that is gone, and it describes the stream that is being sent as soon as
\* both threads are at rest.
SinkIsCurrent ==
    ~crashed =>
        /\ sink # NoSource => sink \in Active
        /\ exec.at \in {"idle", "sending"} /\ loop.at # "sink" =>
               streams = {sink} \ {NoSource}

\* A sink that waits while frames are queued is about to get one, although
\* triggers are merged and shutdown and delivery run concurrently.
NoLostWakeup ==
    \A s \in waiting \cap armed :
        queue[s] # << >> => s \in triggered \/ loop.source = s

\* A client sees every frame sent since it joined, in order.
FramesInOrder ==
    \A s \in Sources :
        /\ \A i \in 1 .. Len(queue[s]) - 1 : queue[s][i + 1] = queue[s][i] + 1
        /\ last[s] > 0 /\ queue[s] # << >> => queue[s][1] = last[s] + 1

\* A source can be woken up, as long as fewer multicast sessions were left
\* behind than there are event triggers.
SourcesHaveTriggers ==
    \A s \in streams :
        \/ s \in armed
        \/ Cardinality({t \in Sources : life[t] = "multicast"} \ {s}) >= MaxTriggers

\* The session on offer and its audience, as the publisher is to see them:
\* while stop() is between its two halves, the old unicast session still is.
Promise ==
    INSTANCE Audience WITH
        offer <- IF exec.at = "unlocked" /\ exec.old = "unicast" THEN "unicast" ELSE session,
        watched <- streams # {}

\* The server keeps the promises of Audience: multicast is always watched,
\* unicast while clients stay, and nothing is once the session is deleted,
\* whichever thread closes a source.
ImplementsAudience == Promise!AudienceSpec

\* Everything that is sent arrives, unless the stream ends first or a greedy
\* sink has stopped the loop.
FramesArrive ==
    \A s \in Sources :
        queue[s] # << >> /\ s \in armed ~> queue[s] = << >> \/ loop.at = "stuck" \/ crashed

=============================================================================
