-------------------------- MODULE SubscriberPlugin --------------------------
(***************************************************************************)
(* The subscriber (subscriber_plugin.cpp) on top of the connection that    *)
(* ClientSession promises.                                                 *)
(*                                                                         *)
(* Thread "exec" is the ROS executor: URL messages, parameter changes, the *)
(* decoding of queued frames, the cooldown timer, shutdown(). Thread       *)
(* "loop" is the event loop of the client: it queues frames and runs the   *)
(* session handlers. Both may be inside reconnect() at the same time, and  *)
(* only queue_ has a lock; pc[t] is where thread t is. shutdown() comes    *)
(* from the executor, too, but parameter changes go on after it.           *)
(*                                                                         *)
(* Frames are counted, not told apart. The executor is single threaded.    *)
(***************************************************************************)
EXTENDS Naturals, DecoderChoice

CONSTANTS
    Configs,   \* the parameter values in use
    Codecs,    \* the codecs of the streams
    MaxQueue   \* bound: frames waiting in queue_

Policies == [never |-> 0, onTimeout |-> 1, onFailure |-> 2, always |-> 3]

ConfigType == [policy : 0 .. 3, minwait : Nat, maxwait : Nat, hw : BOOLEAN]

ASSUME ConfigsAssumption == Configs \subseteq ConfigType /\ Configs # {}
ASSUME CodecsAssumption == Codecs \subseteq DOMAIN Decoders
ASSUME MaxQueueAssumption == MaxQueue \in Nat \ {0}

VARIABLES
    phase, owed, callback,   \* the client: see ClientSession
    hasClient,    \* client_ is set
    codec,        \* client_->codec()
    video,        \* the codec of the subsession that has a sink, or "Unknown"
    subsession,   \* the arguments of the decoder that the loop is making, or None
    known,        \* what codec() has returned to updateParameters(), or "none"
    config,       \* *config_
    cooldown,     \* cooldown_
    timer,        \* cooldown_timer_ is set and has not fired
    delay,        \* what reconnect() has read from cooldown_ and not doubled yet
    queue,        \* the number of frames in queue_
    decoder,      \* *decoder_: its codec and FFmpeg's name for it, or None
    failed,       \* failed_
    pc,           \* where the two threads are
    down,         \* shutdown() has been called
    crashed,      \* the process is gone
    crossed,      \* history: updateParameters() was between codec() and decoder_
                  \* while the loop was between subsessionStarted() of this stream
                  \* and its change of codec_
    blended,      \* history: the loop doubled cooldown_ during a change of its
                  \* limits, and cooldown_ has not been reset since
    revived,      \* history: a parameter change after shutdown() called reconnect()
    raced         \* history: the executor gave up, replaced or shut down the
                  \* client while the event loop was in a callback of it

clientVars == <<phase, owed, callback, hasClient>>
timerVars  == <<cooldown, timer, delay, blended>>
frameVars  == <<queue, decoder, failed>>
streamVars == <<codec, video, subsession, known, crossed>>
lifeVars   == <<down, crashed, revived, raced>>
vars == <<clientVars, streamVars, config, timerVars, frameVars, pc, lifeVars>>

Client == INSTANCE ClientSession

None == [none |-> TRUE]

Goto(t, place) == pc' = [pc EXCEPT ![t] = place]

\* A config as the range checks of updateParameters() leave it.
Normalised(c) ==
    [c EXCEPT !.maxwait = IF c.maxwait < c.minwait THEN c.minwait ELSE c.maxwait]

\* The event loop is inside a callback and may hold a reference to its client.
LoopBusy == callback # "none"

\* It certainly does: it is in a member of the client or of the subscriber.
LoopHoldsClient == owed # "none" \/ pc.loop # "idle"

\* *config_ has changed and updateParameters() has not put its limits in order.
Updating == {"updating", "updatingCodec", "limiting", "limitingCodec"}

Init ==
    /\ Client!SessionInit /\ hasClient = FALSE
    /\ config \in {Normalised(c) : c \in Configs}
    /\ cooldown = config.minwait
    /\ timer = FALSE /\ delay = 0 /\ blended = FALSE
    /\ queue = 0 /\ decoder = None /\ failed = FALSE
    /\ codec = "Unknown" /\ video = "Unknown"
    /\ subsession = None /\ known = "none" /\ crossed = FALSE
    /\ pc = [exec |-> "idle", loop |-> "idle"]
    /\ down = FALSE /\ crashed = FALSE /\ revived = FALSE /\ raced = FALSE

-----------------------------------------------------------------------------
(* reconnect(), on either thread.                                          *)

\* disconnect() on the executor, for reconnect() or for shutdown(): where it
\* goes on when there is something to close, and when that is done.
Closing == [disconnecting |-> "closing", stopping |-> "stopClosing"]

Closed ==
    [disconnecting |-> "clearing", closing |-> "clearing",
     stopping |-> "ending", stopClosing |-> "ending"]

TearDown ==
    /\ ~crashed /\ pc.exec \in DOMAIN Closing
    /\ \/ phase = "closed" /\ Goto("exec", Closed[pc.exec]) /\ UNCHANGED <<phase, callback>>
       \/ Client!TearDown /\ Goto("exec", Closing[pc.exec])
    /\ raced' = (raced \/ LoopBusy)
    /\ UNCHANGED <<streamVars, owed, hasClient, config, timerVars, frameVars, down, crashed,
                   revived>>

\* The event loop may have been called back since.
Close ==
    /\ ~crashed /\ pc.exec \in {"closing", "stopClosing"}
    /\ Client!Close
    /\ raced' = (raced \/ LoopBusy)
    /\ Goto("exec", Closed[pc.exec])
    /\ UNCHANGED <<streamVars, hasClient, config, timerVars, frameVars, down, crashed, revived>>

\* disconnect() on the event loop, of the client there is now.
Drop ==
    /\ ~crashed /\ pc.loop = "disconnecting"
    /\ Client!Drop /\ callback' = "late"
    /\ Goto("loop", "clearing")
    /\ UNCHANGED <<streamVars, hasClient, config, timerVars, frameVars, lifeVars>>

ClearQueue(t) ==
    /\ ~crashed /\ pc[t] = "clearing"
    /\ queue' = 0
    /\ Goto(t, "arming")
    /\ UNCHANGED <<streamVars, clientVars, config, timerVars, decoder, failed, lifeVars>>

\* Overwriting cooldown_timer_ cancels the timer it held.
ArmTimer(t) ==
    /\ ~crashed /\ pc[t] = "arming"
    /\ timer' = TRUE
    /\ delay' = cooldown
    /\ Goto(t, "doubling")
    /\ blended' = (blended \/ (t = "loop" /\ pc.exec \in Updating))
    /\ raced' = (raced \/ (t = "loop" /\ pc.exec \in {"replacing", "stopping"}))
    /\ UNCHANGED <<streamVars, clientVars, config, cooldown, frameVars, down, crashed, revived>>

\* Mutant: the doubled delay is not limited.
LongerUnlimited(delayNow) == 2 * delayNow

Longer(delayNow) == IF 2 * delayNow > config.maxwait THEN config.maxwait ELSE 2 * delayNow

\* cooldown_ has no lock: what the other thread assigns to it in between may be
\* overwritten. In the event loop, reconnect() then returns to its callback.
DoubleCooldown(t) ==
    /\ ~crashed /\ pc[t] = "doubling"
    /\ cooldown' \in {Longer(cooldown), Longer(delay)}
    /\ Goto(t, IF t = "loop" THEN "returning" ELSE "idle")
    /\ delay' = IF \E u \in DOMAIN pc : u # t /\ pc[u] = "doubling" THEN delay ELSE 0
    /\ UNCHANGED <<streamVars, clientVars, config, timer, blended, frameVars, lifeVars>>

Reconnect ==
    \/ TearDown \/ Close \/ Drop
    \/ \E t \in {"exec", "loop"} : ClearQueue(t) \/ ArmTimer(t) \/ DoubleCooldown(t)

-----------------------------------------------------------------------------
(* The event loop.                                                         *)

\* Mutant: only the callback group of the timer is reset.
StopTimerNot == UNCHANGED timer

\* cooldown_timer_.reset()
StopTimer == timer' = FALSE

LoopIdle == ~crashed /\ pc.loop = "idle"

\* What StreamClient does by itself.
ClientEvent ==
    /\ LoopIdle
    /\ \/ Client!Play /\ video # "Unknown" /\ UNCHANGED video
       \/ Client!Reopen /\ video' = "Unknown"
       \/ /\ \/ Client!Enter \/ Client!Leave
             \/ Client!Fail \/ Client!Finish \/ Client!Stall \/ Client!Swallow \/ Client!Late
          /\ UNCHANGED video
    /\ UNCHANGED <<hasClient, codec, subsession, known, crossed, config, timerVars, frameVars,
                   pc, lifeVars>>

\* The callback that has called reconnect() returns.
Return ==
    /\ ~crashed /\ pc.loop = "returning"
    /\ Client!Leave
    /\ Goto("loop", "idle")
    /\ UNCHANGED <<hasClient, streamVars, config, timerVars, frameVars, lifeVars>>

\* The retry finds that the executor has connected meanwhile: it throws.
RetryThrows ==
    /\ LoopIdle /\ owed = "retry" /\ phase \notin {"closed", "closing"}
    /\ crashed' = TRUE
    /\ UNCHANGED <<streamVars, clientVars, config, timerVars, frameVars, pc, down, revived, raced>>

\* A callback goes on in a client that has been closed under it.
UseAfterClose ==
    /\ ~crashed /\ callback = "late" /\ raced
    /\ crashed' = TRUE
    /\ UNCHANGED <<streamVars, clientVars, config, timerVars, frameVars, pc, down, revived, raced>>

\* subsessionStarted() of the first subsession that can be played. It reads
\* *config_ and makes a decoder. In a late callback the subsession is gone.
SubsessionStarted(c) ==
    /\ LoopIdle /\ LoopBusy /\ owed = "none"
    /\ callback = "current" => phase = "setup" /\ video = "Unknown"
    /\ subsession' = [codec |-> c, hw |-> config.hw]
    /\ crossed' = (known # "none")
    /\ raced' = (raced \/ callback = "late")
    /\ Goto("loop", "choosing")
    /\ UNCHANGED <<clientVars, codec, video, known, config, timerVars, frameVars, down, crashed,
                   revived>>

\* If there is none, StreamClient ignores the subsession; decoder_ stays.
InstallDecoder ==
    /\ ~crashed /\ pc.loop = "choosing"
    /\ \/ /\ \E name \in Usable(subsession.codec, subsession.hw) :
              decoder' = [codec |-> subsession.codec, name |-> name]
          /\ Goto("loop", "chosen")
          /\ UNCHANGED subsession
       \/ /\ Goto("loop", "idle")
          /\ subsession' = None
          /\ UNCHANGED decoder
    /\ UNCHANGED <<clientVars, codec, video, known, crossed, config, timerVars, queue, failed,
                   lifeVars>>

\* Mutant: codec_ keeps the codec of the client's first stream.
CodecOfFirst == IF codec = "Unknown" THEN subsession.codec ELSE codec

CodecOfStream == subsession.codec

\* continueAfterSETUP() goes on: its sink cannot be made, or it is played.
StartSink ==
    /\ ~crashed /\ pc.loop = "chosen"
    /\ \/ UNCHANGED <<codec, video>>
       \/ /\ codec' = CodecOfStream
          /\ video' = IF callback = "current" THEN subsession.codec ELSE video
    /\ subsession' = None
    /\ Goto("loop", "idle")
    /\ UNCHANGED <<clientVars, known, crossed, config, timerVars, frameVars, lifeVars>>

\* The executor may have disconnected and cleared the queue since the callback
\* began.
ReceiveDataStream ==
    /\ LoopIdle /\ LoopBusy /\ owed = "none"
    /\ callback = "current" => phase \in {"setup", "playing"} /\ video # "Unknown"
    /\ queue < MaxQueue
    /\ queue' = queue + 1
    /\ UNCHANGED <<streamVars, clientVars, config, timerVars, decoder, failed, pc, lifeVars>>

SessionStarted ==
    /\ LoopIdle /\ owed = "started"
    /\ owed' = "none" /\ UNCHANGED <<phase, callback>>
    /\ cooldown' = config.minwait
    /\ blended' = (blended /\ pc.exec = "doubling")
    /\ StopTimer
    /\ UNCHANGED <<streamVars, hasClient, config, delay, frameVars, pc, lifeVars>>

\* The lowest policy under which a handler reconnects.
Threshold ==
    [timedout |-> Policies.onTimeout, failed |-> Policies.onFailure,
     finished |-> Policies.always]

\* Mutant: the policy is compared with > instead of >=.
MustReconnectAbove == config.policy > Threshold[owed]

MustReconnect == config.policy >= Threshold[owed]

\* sessionTimeout(), sessionFailed(), sessionFinished()
SessionEnded ==
    /\ LoopIdle /\ owed \in DOMAIN Threshold
    /\ owed' = "none" /\ UNCHANGED <<phase, callback>>
    /\ IF MustReconnect
         THEN Goto("loop", "disconnecting")
         ELSE UNCHANGED pc
    /\ UNCHANGED <<streamVars, hasClient, config, timerVars, frameVars, lifeVars>>

-----------------------------------------------------------------------------
(* The executor.                                                           *)

ExecIdle == ~crashed /\ pc.exec = "idle"

\* internalCallback(): a URL arrives. Neither queue_ nor decoder_ is reset.
ReceiveUrl ==
    /\ ExecIdle /\ ~down
    /\ failed' = FALSE
    /\ cooldown' = config.minwait
    /\ blended' = (blended /\ pc.loop = "doubling")
    /\ StopTimer
    /\ Goto("exec", "replacing")
    /\ UNCHANGED <<streamVars, clientVars, config, delay, queue, decoder, lifeVars>>

NewClient ==
    /\ phase' = "setup" /\ owed' = "none" /\ callback' = "none" /\ hasClient' = TRUE
    /\ codec' = "Unknown" /\ video' = "Unknown"
    /\ Goto("exec", "idle")

\* client_.reset() and the new client's connect(). A callback of the event
\* loop that owns the old client, too, destroys it on the client's own thread,
\* which cannot join itself. One that does not yet loses the client under it.
\* (Nothing in the try block throws: create() and the setters are noexcept, and
\* nobody else can have connected a new client.)
ReplaceClient ==
    /\ ~crashed /\ pc.exec = "replacing"
    /\ \/ ~LoopBusy /\ NewClient /\ UNCHANGED <<crashed, raced>>
       \/ /\ LoopBusy \/ phase # "closed"
          /\ raced' = TRUE
          /\ \/ crashed' = TRUE /\ UNCHANGED <<clientVars, codec, video, pc>>
             \/ ~LoopHoldsClient /\ NewClient /\ UNCHANGED crashed
    /\ UNCHANGED <<subsession, known, crossed, config, timerVars, frameVars, down, revived>>

\* The common end of the catch blocks.
GiveUp ==
    /\ failed' = TRUE
    /\ queue' = 0
    /\ IF config.policy >= Policies.onFailure
         THEN Goto("exec", "disconnecting") /\ revived' = (revived \/ down)
         ELSE Goto("exec", "idle") /\ UNCHANGED revived

\* updateParameters(), after shutdown(), too: *config_ changes first, ...
UpdateParameters(c) ==
    /\ ExecIdle
    /\ config' = c
    /\ blended' = (blended \/ pc.loop = "doubling")
    /\ Goto("exec", IF c.hw # config.hw THEN "updatingCodec" ELSE "updating")
    /\ UNCHANGED <<streamVars, clientVars, cooldown, timer, delay, frameVars, lifeVars>>

\* ... then cooldown_, ...
ResetCooldown ==
    /\ ~crashed /\ pc.exec \in {"updating", "updatingCodec"}
    /\ cooldown' = config.minwait
    /\ blended' = (pc.loop = "doubling")
    /\ Goto("exec", IF pc.exec = "updating" THEN "limiting" ELSE "limitingCodec")
    /\ UNCHANGED <<streamVars, clientVars, config, timer, delay, frameVars, lifeVars>>

\* ... then the limits are put in order, ...
LimitDelays ==
    /\ ~crashed /\ pc.exec \in {"limiting", "limitingCodec"}
    /\ config' = Normalised(config)
    /\ Goto("exec", IF pc.exec = "limitingCodec" /\ hasClient THEN "reading" ELSE "idle")
    /\ UNCHANGED <<streamVars, clientVars, timerVars, frameVars, lifeVars>>

\* ... and if use_hw_decoder has changed, the codec is read ...
ReadCodec ==
    /\ ~crashed /\ pc.exec = "reading"
    /\ known' = codec
    /\ crossed' = (crossed \/ subsession # None)
    /\ Goto("exec", "making")
    /\ UNCHANGED <<codec, video, subsession, clientVars, config, timerVars, frameVars, lifeVars>>

\* ... and a new decoder takes the place of whatever decoder there is by now.
ReplaceDecoder ==
    /\ ~crashed /\ pc.exec = "making"
    /\ \/ /\ \E name \in Usable(known, config.hw) :
              decoder' = [codec |-> known, name |-> name]
          /\ Goto("exec", "idle")
          /\ UNCHANGED <<queue, failed, revived>>
       \/ GiveUp /\ UNCHANGED decoder
    /\ known' = "none"
    /\ UNCHANGED <<clientVars, codec, video, subsession, crossed, config, timerVars, down, crashed,
                   raced>>

\* processFrame() pops a frame, which is decoded or is broken (DecodingError);
\* any other exception gives up.
ProcessFrame ==
    /\ ExecIdle
    /\ ~failed /\ decoder # None /\ queue > 0
    /\ \/ queue' = queue - 1 /\ UNCHANGED <<failed, pc, revived>>
       \/ GiveUp
    /\ UNCHANGED <<streamVars, clientVars, config, timerVars, decoder, down, crashed, raced>>

\* cooldownTimerCallback(): the timer is reset and the queue cleared.
TimerFires ==
    /\ ExecIdle /\ timer
    /\ timer' = FALSE
    /\ queue' = 0
    /\ Goto("exec", "connecting")
    /\ UNCHANGED <<streamVars, clientVars, config, cooldown, delay, blended, decoder, failed,
                   lifeVars>>

\* An exception of connect() leaves the timer callback and the executor.
TimerConnects ==
    /\ ~crashed /\ pc.exec = "connecting"
    /\ IF phase = "closed"
         THEN Client!Open /\ video' = "Unknown" /\ Goto("exec", "idle") /\ UNCHANGED crashed
         ELSE crashed' = TRUE /\ UNCHANGED <<phase, owed, callback, video, pc>>
    /\ UNCHANGED <<hasClient, codec, subsession, known, crossed, config, timerVars, frameVars, down,
                   revived, raced>>

\* shutdown(): the timer, then the client, ...
Shutdown ==
    /\ ExecIdle /\ ~down
    /\ down' = TRUE
    /\ StopTimer
    /\ Goto("exec", IF hasClient THEN "stopping" ELSE "ending")
    /\ UNCHANGED <<streamVars, clientVars, config, cooldown, delay, blended, frameVars, crashed,
                   revived, raced>>

\* ... then the decoder and the queue. client_ stays set, and so does the
\* handle of updateParameters().
EndShutdown ==
    /\ ~crashed /\ pc.exec = "ending"
    /\ decoder' = None /\ queue' = 0
    /\ Goto("exec", "idle")
    /\ UNCHANGED <<streamVars, clientVars, config, timerVars, failed, lifeVars>>

-----------------------------------------------------------------------------

Loop ==
    \/ ClientEvent \/ Return \/ RetryThrows \/ UseAfterClose \/ ReceiveDataStream
    \/ (\E c \in Codecs : SubsessionStarted(c)) \/ InstallDecoder \/ StartSink

Handlers == SessionStarted \/ SessionEnded

Parameters ==
    \/ \E c \in Configs : UpdateParameters(c)
    \/ ResetCooldown \/ LimitDelays \/ ReadCodec \/ ReplaceDecoder

Exec ==
    \/ ReceiveUrl \/ ReplaceClient
    \/ Parameters
    \/ ProcessFrame
    \/ TimerFires \/ TimerConnects
    \/ Shutdown \/ EndShutdown

Next == Reconnect \/ Loop \/ Handlers \/ Exec

Spec == Init /\ [][Next]_vars

\* Both threads keep running what they have begun, the timer fires and queued
\* frames are processed. Nothing is assumed of the network or the user.
Fairness ==
    /\ WF_vars(TearDown) /\ WF_vars(Close) /\ WF_vars(Drop)
    /\ \A t \in {"exec", "loop"} :
         WF_vars(ClearQueue(t)) /\ WF_vars(ArmTimer(t)) /\ WF_vars(DoubleCooldown(t))
    /\ WF_vars(Handlers) /\ WF_vars(Return) /\ WF_vars(InstallDecoder) /\ WF_vars(StartSink)
    /\ WF_vars(LoopIdle /\ Client!Reopen /\ ClientEvent)
    /\ WF_vars(ReplaceClient) /\ WF_vars(EndShutdown)
    /\ WF_vars(ResetCooldown \/ LimitDelays \/ ReadCodec \/ ReplaceDecoder)
    /\ SF_vars(TimerFires) /\ WF_vars(TimerConnects) /\ SF_vars(ProcessFrame)

FairSpec == Spec /\ Fairness

-----------------------------------------------------------------------------
(* Properties.                                                             *)

\* Whatever the user sets and however often attempts fail, the next delay is
\* between the two limits, also if the limits were given in the wrong order.
\* Exception, until cooldown_ is set again: the event loop was doubling it while
\* the limits changed. A maximum that is still below the minimum, or a doubled
\* delay of the limits before, then stays.
CooldownInRange ==
    pc.exec \notin Updating /\ ~blended =>
        config.minwait <= cooldown /\ cooldown <= config.maxwait

\* There is one way to connect a connected client, to destroy a client on its
\* own thread or to close it under its thread: the executor gave up, replaced
\* or shut down the client while the event loop was in a callback of it, or
\* entered one meanwhile. Otherwise a waiting timer means that there is no
\* connection, and no frame of the lost one waits for the next: reconnect()
\* clears the queue only after nothing can be added to it.
CrashOnlyByRace ==
    /\ crashed => raced
    /\ ~raced /\ timer => phase = "closed" /\ owed = "none" /\ queue = 0

Stopping == {"stopping", "stopClosing", "ending"}

\* After shutdown() there is no connection, no timer, no queued frame and no
\* callback on its way. Exception: the parameters still have their callback, and
\* a use_hw_decoder for which no decoder can be made reconnects.
ShutdownIsFinal ==
    down /\ pc.exec \notin Stopping /\ ~revived /\ ~raced /\ ~crashed =>
        phase = "closed" /\ ~timer /\ queue = 0 /\ ~LoopBusy

\* updateParameters() has a new use_hw_decoder and no decoder for it yet.
UpdatingCodec == {"updatingCodec", "limitingCodec", "reading", "making"}

\* Frames that arrive are for the decoder in use: it is one for the codec of
\* the stream that obeys use_hw_decoder, however streams and parameters change
\* and candidates fail. Exceptions: the subscriber has failed, or both threads
\* were making a decoder. Then the executor knows the codec of the stream
\* before (codec_ follows decoder_), or the loop the parameter of before.
DecoderFitsStream ==
    /\ video # "Unknown" /\ phase \in {"setup", "playing"}
    /\ pc.exec \notin UpdatingCodec \cup {"replacing"} /\ ~failed /\ ~crossed /\ ~raced
    => decoder.codec = video /\ (decoder.name \in Hardware => config.hw)

\* Under the policy "always" a lost stream is connected to again, whichever
\* thread finds out and however their calls of reconnect() interleave, except
\* after the same race: a handler that is late by one session takes away the
\* timer of the next attempt.
Reconnects ==
    [](config.policy = Policies.always) =>
        (hasClient /\ phase \in {"closed", "closing", "ended", "over"} /\ ~raced
           ~> phase = "setup" \/ down \/ raced \/ crashed)

\* "automatically (re-)connect to the corresponding location", README.rst:14:
\* frames that are received after a reconnect are processed. (With MaxQueue = 1,
\* a queue that is never empty again is one from which nothing is taken.)
FramesAreProcessed ==
    queue > 0 /\ phase = "playing" ~> queue = 0 \/ phase # "playing" \/ crashed \/ down

=============================================================================
