# A formal model of rtsp_image_transport

These modules model the concurrent core of `rtsp_image_transport`, an
image_transport plugin pair that serves ROS images as RTSP video and receives
them again. TLC checks the models on small instances; TLAPS proves every safety
property that a passing run checks, and both refinements, for all values of the
constants. Liveness is model-checked. File names without a directory are those
of `src/src/`.

## 1. The system

    publisher process                          subscriber process

    application                                 application
        | publish(image)                            ^ callback(image)
    PublisherPlugin <--- GraphMonitor           SubscriberPlugin
        |    |           (ROS graph)                | ^       ^
        |    +--> StreamEncoder                     | |       +-- StreamDecoder
        v                                   calls   v | handlers
    StreamServer                                StreamClient
        |                                           |
    FrameInjector (one per source)              FrameExtractor (sink)
        |                                           ^
    live555 event loop ====== RTSP/RTP ======> live555 event loop

The publisher announces the URL of its server in a latched ROS message, and the
subscriber connects to it. Each server and each client has a live555 event
loop on a thread of its own.

### Components

**StreamClient** (`stream_client.cpp`). State: `client_`, and in it the media
session, its iterator, `has_video_`, `session_active_`, `timeout_`,
`timeout_task_`, the packet count; `retried_on_454_error_`. Operations:
`connect`, `disconnect`, `setSessionTimeout`, and on the loop the replies to
DESCRIBE, SETUP and PLAY, the end of a source, and `checkTimeout`. Two mutexes
(`client_mutex_`, `session_mutex_`) are taken by the owner's calls, but
`session_mutex_` only inside `teardown` and `setSessionTimeout`, and live555 has
none. Hard: replies, BYE, the watchdog and the owner in any order, also between
`teardown` and `Medium::close` of one `disconnect`; the automatic retry; a
callback that runs while its client is closed.
Correct when: a playing session is watched by exactly one task, a silent
camera is reported, the handshake ends whatever the server announces, one video
is played, nothing survives a closed connection, `disconnect` returns, and the retry is not repeated
forever.

**SubscriberPlugin** (`subscriber_plugin.cpp`). State: `client_`, `config_`,
`cooldown_`, `cooldown_timer_`, `queue_`, `decoder_`, `failed_`, `old_lag_`.
Operations: URL message, parameter change, `processFrame`, the cooldown timer,
`shutdown` on the executor; the handlers of the client on its loop.
`reconnect()` runs on either thread and only `queue_` has a lock. Correct when:
a lost stream is connected to again under the policy, with a delay between the
limits, no frame of a lost connection is kept, nothing runs after shutdown, and
the decoding effort follows the lag.

**FrameExtractor** (`frame_extractor.cpp`). State: a fixed buffer with a fill
level. Correct when: the buffer is not exceeded, every unit of H.264/H.265 has a
start code, nothing is lost or delivered twice.

**PublisherPlugin** (`publisher_plugin.cpp`). State: `config_`, `server_`,
`encoder_`, `update_url_`, `failed_`. Operations: `updateParameters`,
`publish`, `onGraphChange`, `shutdown`. `mutex_` excludes the first three from
each other, except that `updateParameters` decides what has changed before it
locks. `shutdown` takes no lock at all: it resets `server_` and `encoder_` one
after the other, whatever the others are doing.
Correct when: the encoder fits the session and the parameters, each session is
announced, and nothing is encoded without an audience; and, together with a
subscriber: both ends agree on the codec, and the subscriber comes to play the
session there is.

**StreamServer and FrameInjector** (`stream_server.cpp`, `frame_injector.cpp`).
State: the session, `streams_`, and per source a queue, `is_shutdown_` and an
event trigger; `sink_`, the RTP sink that descriptions are made of. The
publisher's thread starts, stops, sends, and destroys the server; the loop
creates, drains and closes sources for RTSP clients and describes the session.
Correct when: a frame only meets live sources of the session, each source
delivers all frames in order, no wake-up is lost, `sink_` is the sink of the
stream being sent, and the publisher is told truly whether anybody watches.

**StreamEncoder** (`stream_encoder.cpp`). State: the encoder in use, its VAAPI
device and frame pool, the converter, presentation times, the packet queue.
Correct when: hardware state belongs to the encoder in use however many
candidates failed, conversion fits the image, presentation times grow, packets
leave in order, and NAL units are recovered from the bitstream.

**GraphMonitor** (`graph_monitor.cpp`). A process-wide singleton with a
detached thread that reports changes of the ROS graph to its listeners and ends
itself when the last one leaves. Correct when: registered publishers have a
running monitor and learn of every change.

**StreamDecoder** (`stream_decoder.cpp`). State: the decoder in use, the
converter, decoded images. Shared with the subscriber: `decoder_` is installed
by the loop and used by the executor. Correct when: a frame meets the decoder of
its own stream, images are handed on as soon as they are there, and a decoder
that falls behind says so once and not for every frame; the decoder that was
chosen is for the codec of the stream and obeys `use_hw_decoder`.

**Video codecs** (`video_codec.cpp`, and tables in `publisher_plugin.cpp`,
`stream_server.cpp`, `stream_decoder.cpp`). No state. Correct when: a codec
that the publisher accepts reaches the subscriber under all its names.

Not worth a model: `rtsp_camera_proxy.cpp` and `publish_rtsp_stream.cpp`
(start-up code), `init.cpp` and `host_override.cpp` (environment and socket
lookup), `frame_data`, `log_level`, `streaming_error` (values).

## 2. The modules

| Module | Models | Run module |
|---|---|---|
| `ClientSession` | abstract: what a connection promises to its owner | (used by the next two) |
| `StreamClient` | `StreamClient`, `Live555Client` | `MCStreamClient` |
| `SubscriberPlugin` | `SubscriberPlugin` on top of `ClientSession` | `MCSubscriberPlugin` |
| `DecoderChoice` | the constructor of `StreamDecoder` | (used by `SubscriberPlugin`) |
| `StreamDecoder` | `processFrame` and `StreamDecoder` | `MCStreamDecoder` |
| `FrameExtractor` | `FrameExtractor` | `MCFrameExtractor` |
| `Audience` | abstract: what a server promises to the publisher | (used by the next three) |
| `PublisherPlugin` | `PublisherPlugin` on top of `Audience` | `MCPublisherPlugin` |
| `VideoCodecs` | the names of codecs on their way from end to end | (used by `Transport`) |
| `Transport` | a publisher, its topic, and a subscriber with the phases of `ClientSession` | `MCTransport` |
| `StreamServer` | `StreamServer`, `FrameInjector` | `MCStreamServer` |
| `StreamEncoder` | `StreamEncoder` without the splitting | `MCStreamEncoder` |
| `NalSplitter` | `scanForStartCode`, `splitNALs` | itself |
| `GraphMonitor` | `GraphMonitor` | itself |
| `StreamClientProofs`, `SubscriberPluginProofs`, `StreamDecoderProofs`, `FrameExtractorProofs`, `StreamServerProofs`, `GraphMonitorProofs` | theorems about the module they are named after | (tlapm) |
| `StreamEncoderProofs` | theorems about `StreamEncoder` and `NalSplitter` | (tlapm) |
| `TransportProofs` | theorems about `PublisherPlugin` and `Transport` | (tlapm) |

`ClientSession` joins the two halves of the subscriber: `StreamClient` is shown
to implement it (a property of its run), and `SubscriberPlugin` INSTANCEs it in
place of the protocol. What holds for the subscriber over the abstract
connection therefore holds over the real one. `Audience` does the same on the
other side: `StreamServer` is shown to implement it, and the actions of
`PublisherPlugin` that start, end and watch a session are its actions. The two
halves of the system meet in `Transport`, which EXTENDS `PublisherPlugin` and
gives the subscriber's connection the phases and notifications of `ClientSession`,
without the interleavings of its two threads.

Operators whose comment begins with "Mutant" are not part of a specification.
Each is a plausible error in the definition that follows it, and putting it in
that place makes at least one property fail.

### How state and actions correspond to the code

**StreamClient.** `client` and `conn` are `client_` and the members of the
object it points to. `token` is `timeout_task_`: null, a pending task or one
that has fired and still is named. Tasks that `timeout_task_` no longer names
are counted, in `loose` while their client is open and in `orphans` after. `pc`
is where the loop is, and one value of it is one stretch of code between two
locks or between a live555 callback and a handler: `callback` (dispatched, and
nothing done), `activating` (a PLAY reply with `session_mutex_` held, lines 235
to 240), `fired`, `locking`, `checking` (the three parts of `checkTimeout`), and
the handlers that are owed. `locked` says that the loop holds `session_mutex_`.
`owner` is where the owner's `disconnect` is: `Disconnect` takes `client_mutex_`,
`TearDown` is `teardown` under `session_mutex_`, `Close` is `Medium::close`,
which is under `client_mutex_` alone. The loop runs between any two of them: it
may be called back for the client that is being closed (`stale` is "late"), lose
what it works on ("freed", after which anything may come out of the callback or
the process dies), or schedule a task that outlives the client. On the loop's own
thread, `disconnect` is one step (`HangUp`): no callback can come in between.
Packet counts are abstracted to `fresh`:
something arrived since the last check. Which of the subsessions are
unsupported, refused or fail is chosen in `SetupNext` and `SetupReply`.

**SubscriberPlugin.** `pc.exec` and `pc.loop` are the positions of the two
threads. `reconnect()` is a sequence of steps of either: `disconnect` (`TearDown`
and `Close` on the executor, `Drop` on the loop), `ClearQueue`, `ArmTimer`, and
`DoubleCooldown`, which reads `cooldown_` and writes it back without a lock.
`updateParameters` is cut at each access to what the other thread shares:
`UpdateParameters` (`*config_`), `ResetCooldown` (line 305), `LimitDelays` (306
and 307), `ReadCodec` and `ReplaceDecoder` (the two halves of line 313); it may
also be called after `shutdown`, which keeps its handle and `client_`.
`internalCallback`, the timer callback and `shutdown` are cut the same way.
`subsessionStarted` and what `continueAfterSETUP` does after it are three:
`use_hw_decoder` is read, the decoder is installed, and only then `codec_`
changes. `callback` says whether the loop is in a callback of the connection
there is or of one that has been given up ("late"): until it returns it may push
frames (`ReceiveDataStream`), start a subsession or report, whatever the executor
has cleared meanwhile; that is the race which `raced` records. (`decoder_` is written by
both threads without a lock; the assignment is taken as atomic.) Time is
abstracted: an armed timer may fire at any moment, its period is `delay`. Frames
are counted. The executor is single-threaded, which is what `rclcpp::spin`
provides; the code takes no other lock that would allow more.

**StreamDecoder.** The connection is reduced to what the queue and `decoder_`
see of it (`link`). A call of `processFrame()` begins by reading `decoder_`
(`Begin`); each frame is then two steps, `Pop` and `Process`, and the event loop
may do anything between them: append frames, lose the stream and clear the
queue, or install the next decoder. A frame carries its stamp, in quarters of a
second, and stamps may go back; the lag is the last stamp that waits minus the
first, and its limits 500 ms, 1 s and 2 s are 2, 4 and 8. FFmpeg is external: a decoder keeps or drops
frames, returns images of earlier ones, and fails before or after that. What
`failed_` does is in SubscriberPlugin.

**FrameExtractor.** `length` is `buffer_length_`, `room` what live555 is
offered. Octets are counted. The history variables count units received, held
back and sent.

**PublisherPlugin.** `updateParameters` is two steps, `CompareParameters` before
the lock and `ApplyParameters` after it. `publish` is one step when nobody
watches and two otherwise (`PublishWatched` up to line 255, `Encode` after it).
`mutex_` keeps these and `onGraphChange` apart. `shutdown` is two steps,
`Shutdown` (line 76) and `EndShutdown` (77), and may come between any of them; a
pointer that it resets while another call may use it ends the process or not
(`Die`). `server` and `encoder` are records of the parameters they
were made with. RTSP clients appear as `FirstClient` and `LastClient`.

**Transport.** To the publisher's variables come the topic with its last
message (an address: a port the user chose, or one of the system's), the
subscriber's connection, and whether the server still has the client (`joined`:
a server that drops a client need not be able to tell it). The handlers of the
client are one step each, since their races are the subject of
`SubscriberPlugin`. Its handshake is `Describe`, which takes the codec from the
SDP (`offered`), `SetUp`, which makes the decoder for it and joins whatever
session is at the address by then, and `Play`; `overtaken` remembers that the
session was replaced in between. `unnoticed` remembers that the server has dropped the client
when no encoder existed or others were watching, so that
`publisher_plugin.cpp:246` has no reason to send the URL again.

**StreamServer.** `exec` and `loop` are the positions of the publisher's thread
and of the event loop. `stop()` is cut where it releases `streams_mutex_`,
`sendFrame()` after each source, `doGetNextFrame()` between its test of
`is_shutdown_` and `deliverFrame()`, the creation of a source before that of
its sink, and the destructor of the server before `join()`. A description
(`sdpLines`) takes time, during which the publisher may close the sink; of a
session without a sink it ends with the closing of the source that live555 has
made for it (`CloseDescription`), which resets `sink_` if there is no stream. A
greedy
source is one whose sink may ask for the next frame within `afterGetting()`.

**StreamEncoder.** The constructor tries one candidate per step, and each may be
missing, fail or work. An image is one step, and the encoder may keep it back
and return any number of the oldest ones as packets.

**NalSplitter.** One step per pass through the loop of `scanForStartCode`, with
the code's skip distances; `start` and `pos` are `nal_start` and `i`, `out` what
`splitNALs` returns. The input is arbitrary, or an encoder has written it: units
with emulation prevention, the first behind a start code of four octets and each
further one behind a code of four or three, as libx264 leaves the leading zero
out before the further slices that `slice-max-size` (line 384) makes it write.
`codes` records where the codes are.

**GraphMonitor.** One step per statement that other threads can tell apart;
`mutex` names the holder of `mutex_`. The test of `instance_` (82) and its use
(84) are two, since line 50 clears it without the lock: `UseInstance` is the use
that finds it, `UseAfterReset` the one that does not, which ends the process or
reads the flag of the monitor that is gone.

## 3. The runs

| Run | Configuration | Shows |
|---|---|---|
| `stream_client` | `StreamClient.cfg` | the watchdog, the handshake, the retry and clean-up; `disconnect` returns; refinement of `ClientSession` |
| `subscriber` | `SubscriberPlugin.cfg` | back-off, timer, queue, decoder and shutdown under the policies 1 to 3; reconnection |
| `subscriber_failed` | `SubscriberFailed.cfg` | counterexample, section 6 |
| `stream_decoder` | `StreamDecoder.cfg` | frames meet their decoder, images are handed on, warnings escalate |
| `stream_decoder_discard` | `StreamDecoderDiscard.cfg` | counterexample, section 6 |
| `frame_extractor` | `FrameExtractor.cfg` | buffer limits, start codes, no loss |
| `transport` | `Transport.cfg` | encoder, session and audience fit; announcements; the subscriber plays, in the right codec |
| `publisher_packet_size` | `PublisherPacketSize.cfg` | counterexample, section 6 |
| `graph_monitor` | `GraphMonitor.cfg` | registration never joins a dying monitor; `instance` returns or names what caught it; no change is lost |
| `nal_splitter` | `NalSplitter.cfg` | cuts are between units and at every long code; what the scan can miss |
| `stream_server` | `StreamServer.cfg` | ownership of sources and sinks, order and wake-ups; refinement of `Audience` |
| `stream_encoder` | `StreamEncoder.cfg` | hardware state, converter, stamps and packets |

### Bounds, and why they are enough

* `stream_client`: two subsessions are enough for a refusal before a success
  and for a second video to be ignored; the code's loop treats all later ones
  alike. Timeouts are only compared with 0. Three calls of `setSessionTimeout`
  are one to make a task loose, one to make another, and one after that.
* `subscriber`: three parameter sets, one for each policy that reconnects at all,
  with limits in both orders, a delay that doubles into its maximum, and both
  values of `use_hw_decoder`; delays of 1 and 2, of which only order and limits
  matter; one frame in the queue, as only "empty" and "not empty" are told apart;
  two codecs, one before and one after a change, with the real lists of decoders,
  any of which may fail at any time. In `subscriber_failed` one frame is also what
  makes the property mean what it says: a queue of one that is not empty forever
  is not processed, and were `failed_` cleared by `subsessionStarted` the property
  would hold.
* `stream_decoder`: stamps that differ by each limit of the lag, by less than
  the lowest and not at all, in any order, so that the lag can also be negative;
  three frames, so that two wait behind the one in work; two streams, an old one and a new
  one; a decoder that keeps one frame can return two images at once.
* `frame_extractor`: the real buffer size, with units and parameter sets on
  both sides of 48 octets and of what is left of the buffer; six units.
* `transport`: one base configuration and four others, between which each level
  of change occurs: a supported, a second supported and an unsupported codec,
  and AV1 as the optional format that live555 lacks; the default port with the
  one address the system chooses, again and again, and a fixed one. The
  subscriber's policies are 1, which leaves failures and the end of a stream to
  the publisher's messages, and 3, which leaves nothing to them. After `shutdown`
  of the publisher only one configuration can be set (`LateConfigs`): it is enough
  to start a server anew. `publisher_packet_size` runs `PublisherPlugin` alone, with
  seven configurations that differ from the first in one parameter each.
* `graph_monitor`: three publishers: one leaves last, one spins, one more.
* `nal_splitter`: the scan looks at four octets and jumps at most four, so nine
  octets hold a complete code in each position relative to a jump; only 0 and 1
  are special. Streams have up to three units of up to three octets, with every
  choice of start codes, so that a glued unit can be first, last or between two
  others.
* `stream_server`: three sources and two triggers, so that two abandoned
  multicast sessions use up the triggers before a third source appears; two
  frames, so that there is an order.
* `stream_encoder`: the real encoder lists; three images, which suffice for a
  format that changes and changes back and for a stamp that goes back twice.

`CHECK_DEADLOCK FALSE` is set where a system may really stop: a bound is used up
(units, frames, streams, images, calls), the process has crashed, the input is
scanned to its end (`NalSplitter`), a multicast session has taken the last source, or
two threads wait for each other (`Trapped` in `GraphMonitor`, a stuck loop in
`StreamServer`), which the properties name.

### Fairness

Fairness is assumed of threads that have begun something and of the loop's
timer, never of users, cameras or the network.

* `StreamClient!FairSpec`: the loop fires due tasks and completes callbacks, and
  a `disconnect` that has begun goes on; whoever waits for a mutex that becomes
  free again and again gets it (strong fairness of `TearDown` and of the
  handlers).
  `AnsweredSpec`, which the run uses, adds that requests are answered. The code
  has no timeout for the handshake, so that `HandshakeConcludes` is false
  without it. The other properties do not rely on it.
* `SubscriberPlugin`: both threads finish what they have begun; the executor
  runs a due timer and the waitable again and again, although other callbacks
  interrupt it (strong fairness), as `ScheduledCB::is_ready` is constantly true.
* `Transport`: parameter changes are carried out; images keep coming although
  other steps interrupt them (strong fairness), and an encoder may fail but not
  every time; a message is delivered. What happens to a connection (`Connection`:
  requests are answered, handlers run, the timer fires, and a stream that the
  server has ended is noticed, by BYE or by the timeout, which `StallIsReported`
  justifies) is one sequence, so that it shares one weak fairness condition. Users, other clients and what the server believes
  of its clients have no fairness.
* `GraphMonitor`: a mutex that is released again and again is obtained (strong
  fairness); the thread goes on, and so does a call of `instance`.
* `StreamServer`: the loop handles triggers, sinks ask for frames; strong
  fairness as other events interrupt them. A call of either thread that has
  begun goes on: one weak fairness condition for each thread, as a thread is in
  one call at a time.

## 4. The most important properties

* `ActiveSessionIsWatched` and `StallIsReported` (StreamClient): no order of
  replies, checks and changes of the timeout loses the last watchdog task, and
  hence a silent camera is reported.
* `TokenNamesTheOnlyTask`: `timeout_task_` names the only task, and none outlives
  its client, unless one of two races has happened (`overlapped`):
  `setSessionTimeout` meets a `checkTimeout` that has begun (line 342), or
  `disconnect` meets a callback that works on the client, which includes a reply
  to PLAY that schedules a task between `teardown()` and `Medium::close` (lines
  430 and 431). Then a task may be forgotten and fire for a client that is gone.
* `DisconnectReturns`: `disconnect` takes `session_mutex_` with `client_mutex_`
  held, on both threads; nobody keeps it from going on, because a check releases
  the one before its handler asks for the other.
* `RefinesClientSession`: the protocol implements the life cycle of
  `ClientSession`. This includes a BYE before PLAY is answered (`ended`).
* `HandshakeConcludes`, `RetriesNeedStarts`: the handshake ends, and not by
  retrying forever.
* `SubscriberPlays` (Transport): the property of the whole system. Once users
  stop interfering, the subscriber plays the session there is: the message is
  latched, sent for every new session, and sent again when the last client has
  gone; the tables of codecs agree. The exceptions are stated in the property.
* `DecoderFitsEncoder` (Transport): no client survives a change of the codec. One
  may be let in after it, with a decoder for the codec of the SDP that it has
  asked for before (`overtaken`): the property names this as the only way.
* `ShutdownIsFinal` (SubscriberPlugin): what is left after `shutdown()`. The
  exception, `revived`, is the parameter callback that survives it.
* `CooldownInRange` (SubscriberPlugin): names the one way in which the next delay
  leaves its limits: the loop doubled it between the assignments of
  `updateParameters()` (`blended`).
* `ImplementsAudience` (StreamServer): the session ends for its audience at one
  moment, although `stop()` forgets the streams first and closes the clients
  later, on another thread than the one that opens and closes sources.
* `SinkIsCurrent` (StreamServer): the unprotected `sink_` is right whenever both
  threads are at rest, and never points to a sink that is gone.
* `CrashOnlyByRace`, `Reconnects` (SubscriberPlugin): the two threads share
  everything but `queue_` without a lock. These properties say how far the
  damage goes: unless the executor gave up, replaced or shut down the client
  while the loop was in a callback, or the loop entered one before the client was
  closed (`raced`), an armed timer means that there
  is no connection and no queued frame, and a lost stream is connected to again.
* `DecoderFitsStream` (SubscriberPlugin): names the one way in which the
  decoder in use is for another codec or disobeys `use_hw_decoder`: both threads
  were making one (`crossed`).
* `FramesMeetTheirDecoder` (StreamDecoder): names the two ways in which a frame
  reaches the decoder of another stream: the stream changes while
  `processFrame()` runs with the old decoder, or a new URL comes while frames of
  the old one wait.
* `EncoderFitsSession` (PublisherPlugin): holds although `updateParameters`
  compares before it locks, and `shutdown()` does not lock at all; between its
  two resets (`stopping = "half"`) an encoder may be without a server, but not
  afterwards: one that `publish` makes then (line 258) meets the null `server_` of
  line 261 at once.
* `NoLostWakeup`, `FramesArrive`, `FramesInOrder` (StreamServer).
* `DeviceFitsEncoder`, `ImagesInOrder` (StreamEncoder).
* `UnitsAreRecovered` (NalSplitter): a stream is cut only between units, and at
  every code of four octets, although the scan looks at a quarter of the
  positions. Codes of three octets may be missed; the property says which.
* `RegisteredMonitorRuns`, `InstanceReturns` (GraphMonitor): a publisher that
  registers is caught by the end of a monitor in two ways only, a null `instance_`
  and a thread that waits for `mutex_`, and in neither while another publisher is
  registered.

## 5. What is proved

Each theorem holds for all values of the constants that satisfy the named
assumptions of its module. These say that bounds and stamps are numbers, that
configurations have the types of the parameters, that sets which appear beside a
null value do not contain it, and that the set of publishers is finite. No bound
of a run is assumed anywhere. The argument has the same form throughout: a
conjunction `IInv` that holds initially and that every step keeps, with one case
per action; the property follows from `IInv` or, if it is about steps, from
`IInv` and the step. TLC has checked each `IInv` on the instance of the run.

### The subscriber

`StreamClientProofs`: `TypeOK`, `AtMostOneVideoSink`, `ActiveSessionIsWatched`,
`TokenNamesTheOnlyTask`, `TornDownCompletely`. None is inductive alone. That a
playing session is watched needs to know that a pending task is not forgotten
when `timeout_task_` is overwritten, and that no task exists before PLAY is
answered. `IInv` adds `Handshake` (what each outstanding request says about
session, iterator and sinks), `LoopState` (what each position of the loop says
about the lock, about the client it works on and whether that is still the
owner's), `OwnerState` (what holds while `disconnect` is between its halves) and
`TaskState` (when tasks can exist, until the race of `overlapped`). The lemmas
`TornDownConnection`, `ClosedClient`, `ClosedRelations`, `FailedHandshake` and
`NextSubsession` show that the two halves of `disconnect`, a failure and the step
to the next subsession establish what the callbacks need.

`Refinement` in the same module: `Spec` implies `RefinesClientSession`. The
mapping needs `SessionPlays` in addition: a session without an outstanding
request has been started, so that a timeout or BYE is only reported of a stream
the owner has been told of. Every step of the protocol is then one step of
`ClientSession` or none.

`SubscriberPluginProofs`: `CooldownInRange`, `CrashOnlyByRace`,
`DecoderFitsStream`, `ShutdownIsFinal`. As `reconnect()` runs on both threads
without a lock, the heart of `IInv` is `ConnectionState`: what each position of
either thread says about the connection, the queue and the timer as long as they
have not raced. `DelayState` follows the delay through the assignments of
`updateParameters()` and the doubling of the other thread; `ExecState` says in
which of its calls the executor is, and `ShutdownState` what `shutdown()` leaves;
`DecoderState` follows a decoder from the moment `use_hw_decoder` or the codec is
read to that at which it is in use and `codec_` is assigned, on both threads. The lemmas `NormalisedConfig` and
`LongerInRange` are about the arithmetic of the parameters and of the back-off.

`StreamDecoderProofs`: `ImagesAreHandedOn`, and the action properties
`WarningsEscalate` and `FramesMeetTheirDecoder`, for any number of frames and
streams and all stamps. `QueueState` says whose frames can be waiting, and
`CallState` which decoder a call works with; `LagState` that `old_lag_` is not
below a limit that was warned about. (`WarningsEscalate` is about the warnings of
an episode rising: it may begin with any of them.)

`FrameExtractorProofs`: for every buffer larger than 52 octets and all units,
the buffer is never exceeded, a unit lacks its start code only if the SDP's
parameter sets had filled the buffer, and no unit is lost. `IInv` adds `Headed`:
the room behind a buffer that is being filled has a start code in front.
`ContinuePlayingFits` is the lemma about the one piece of arithmetic.

`AttemptsAreDue`, in `SubscriberPluginProofs`, is the part of `Reconnects` that
needs no fairness. Under the policy "always", a stream that is lost leaves
something that will connect again: an armed timer, a handler that is owed, or a
thread on its way through `reconnect()`, `internalCallback` or the callback of
the timer; unless the threads have raced. What is left to TLC is that these go
on.

### The publisher

`StreamServerProofs`: `StreamsBelongToSession`, `SinkIsCurrent`, `NoLostWakeup`,
`FramesInOrder`, `SourcesHaveTriggers`, for any number of sources, triggers and
frames. `AudienceState` says who is left of which session while `stop()` is
between its two halves, and that a session has at most one source alive at a
time; `SinkState` and `SourceState` what that means for `sink_` and for
the injectors. `FramesUpToDate` is what makes order inductive: what a source has
queued reaches up to the last frame given to it, so that the next one follows.
`NoLostWakeup` is strengthened to `WakeupPending`, which tells a loop that is
about to deliver from one that only describes the source. `SourcesHaveTriggers`
counts the sources that hold triggers; it needs that only finitely many were
ever used.

`Refinement` in the same module: `Spec` implies `ImplementsAudience`. The session
ends for its audience when the old one is deleted and not when `stop()` begins;
the lemma goes through what a step does to the offer and to whether anybody
watches.

`StreamEncoderProofs`: `DeviceFitsEncoder`, and the action property
`ImagesInOrder`, for all formats, stamps and numbers of images. `TimesStayClose`
bounds the presentation time by the highest stamp and the number of images;
`ImagesFollow` says that what is inside the encoder follows what is in packets,
and this what was handed out. `TicksKeepOrder` and `PtsAdvances` are the lemmas
about rounding and about stamps that go back.

In the same module, `NothingLost` and `UnitsAreRecovered` of `NalSplitter`, for
inputs of any length. The scan looks at one position in up to four, so that the
heart of the proof is `SkipMissesNothing`: no start code begins at a position
that a skip passes over, except a short one behind an octet that is not 0, or one
that ends within an octet of the end of the input. `SplitIInv` carries this along as
`Scanned` (the unit the scan is in) and `OutPassed` (the units found), and has in
`Follows` that the scan begins behind the start code that ended the last unit.
That a well-formed input is cut only between its units, and at each of its long
codes, needs `Written` (start codes of three or four octets and units, in turn)
and `InStep`: the scan stands in a unit that was written, what was found begins
and ends where units do, and no long code it has left behind lacks its piece.
`NoCodeInUnit` shows from emulation prevention that no start code can be met in
between, `WrittenCode` that the code the scan meets is one that was written;
`InTurn` and `NoneMissed` that it meets them in order and does not skip a long one. All this is by induction
over the steps of the scan, and none over the data.

`GraphMonitorProofs`: `RegisteredMonitorRuns`, for any set of publishers, with the
conjunct that nobody is caught by the end of a monitor while anybody is
registered. `MutexState` makes it inductive: whoever is in `instance()` holds
`mutex_`, and spins only when the last listener is gone. And
`ChangeIsPending`, the part of `ChangesAreReported` that needs no fairness: a
change that a registered publisher has not been told of is in `event_`, or the
thread is on its way to tell everybody.

### Both together

`TransportProofs`: `EncoderFitsSession` of `PublisherPlugin`, for all
configurations. `PublisherInv` says what the level of a change, found before the
lock is taken, still tells when the lock has been taken.
`PublisherImplemented`: every behaviour of `Transport` is one of
`PublisherPlugin`, so that this holds in the composition as well.
`DecoderFitsEncoder`: from `ClientInv` (what a client was offered by DESCRIBE and
has a decoder for is the codec of the session, unless that has been replaced in
between), the invariant of the publisher, and `TablesAgree`: whichever
formats live555 knows, the tables of both ends give a codec back as itself or
not at all.

In the same module, what the liveness properties of the two rest on:

* `Announced`: a session that has not been announced has `update_url_` set,
  although one flag serves all sessions. `SessionIsAnnounced` needs images
  besides.
* `Attended`: an encoder exists only without a failure, and beside a session or
  between the two resets of `shutdown()`; so the next image can discard it if
  nobody watches.
* `NullServer`: a null `server_` is used, by `updateParameters`
  (`publisher_plugin.cpp:203`) or by `publish` (261, 272), only after a failure or
  after `shutdown()` has begun. No run has a property about these lines.
* `KnowsAddress`: a subscriber knows the address of the session there is, or a
  message with it waits, or the publisher is about to send one.
* `CalledBack`: a client that the server has dropped is called back by one more
  message, as the comment at `publisher_plugin.cpp:239` wants; the exception,
  `unnoticed`, is the one of section 6.

`PublisherState` and `TopicState` are the invariants behind them: a change of
session level that waits for the lock has a session to change, or the publisher
has failed or is shut down; and the latched message names the current session
whenever nothing is due.

What joins the modules: `UsesItsServer` says that the publisher takes only steps
of `Audience`, which `StreamServer` implements, and `UsesItsSession`, in
`SubscriberPluginProofs`, that the subscriber takes only steps of
`ClientSession`, which `StreamClient` implements, except that a new URL puts a
new client in the place of one that owes no notification. The subscriber of
`Transport` is coarser: its handlers and `disconnect` are single steps, and no
theorem joins it to `ClientSession`.

### What is only model-checked

* All liveness, as fairness and ENABLED are beyond the prover: `RetriesNeedStarts`,
  `HandshakeConcludes`, `StallIsReported`, `DisconnectReturns`, `Reconnects`, `SessionIsAnnounced`,
  `UnwatchedIsNotEncoded`, `SubscriberPlays`, `InstanceReturns`,
  `ChangesAreReported`, `FramesArrive`. Of `SessionIsAnnounced`,
  `UnwatchedIsNotEncoded`, `SubscriberPlays`, `Reconnects` and
  `ChangesAreReported`, the part that needs no fairness is proved as above.

## 6. What the models show about the code

With a run that exhibits it:

* `subscriber_failed`: `failed_` is only cleared by a new URL
  (`subscriber_plugin.cpp:193`). After a decoder failure the plugin reconnects,
  receives frames, and `processFrame` drops out at line 335 for good.
* `stream_decoder_discard`: the branch of 2 s selects `None` (line 349), and the
  branch of 500 ms (line 360), which lacks an `else`, replaces it by `Intra`.
* `publisher_packet_size`: `publisher_plugin.cpp:182` compares the packet size
  with itself.

In the models, but without a statement of the repository that they contradict:

* `stream_client.cpp:342`: the race of `setSessionTimeout` with `checkTimeout`
  described in section 4.
* `stream_client.cpp:430`: `disconnect` takes no lock against callbacks that are
  dispatched already. Between `teardown()` and `Medium::close` (431) even
  `session_mutex_` is free: a reply to PLAY (235 to 240) may schedule a check
  there, which nothing cancels and which fires for a client that is deleted.
* `stream_client.cpp:193`: the codec of a stream is the one of the SDP
  (262-266). If the publisher replaces its session between DESCRIBE and SETUP,
  under the same address, the client joins the new session with a decoder for
  the old codec (`overtaken`).
* `subscriber_plugin.cpp:403`: a `sessionStarted` that is late by one session
  removes the timer of the next attempt, and the subscriber stays unconnected.
  `Reconnects` excepts it by `raced`.
* `subscriber_plugin.cpp:307`: the loop's `reconnect()` (448-450) may run between
  the assignment of `cooldown_` (305) and that of the limits (306-307). It then
  takes a maximum that is still below the minimum, or writes back a delay it has
  doubled before; the wrong delay stays until the next change or session
  (`blended`).
* `subscriber_plugin.cpp:142`: `shutdown()` keeps `param_cb_handle_` and `client_`.
  A later change of `use_hw_decoder` for which no decoder can be made fails, and
  `reconnect()` arms a timer that connects the subscriber again (`revived`).
* `subscriber_plugin.cpp:240`: `disconnect` does not wait for a callback that runs,
  so that the loop can push a frame after the executor has disconnected and
  cleared the queue; it waits for the next stream. `CrashOnlyByRace` and
  `ShutdownIsFinal` except it by `raced`.
* `subscriber_plugin.cpp:199`: if the loop is in a callback, it owns the client
  last and destroys it on the thread that the destructor joins.
* `subscriber_plugin.cpp:193`: a new URL leaves the frames of the old stream in
  `queue_`, and the new decoder may get them. `subscriber_plugin.cpp:334`: the
  decoder is read once per call, and a stream that begins during the call has
  its first frames sent to the old one. `FramesMeetTheirDecoder` excepts both.
* `stream_decoder.cpp:208`: an error after images were received leaves them in
  `frames_` until a later frame yields another image. `ImagesAreHandedOn`
  excepts it.
* `publisher_plugin.cpp:76`: `shutdown()` takes no lock. `server_` may be null
  where `publish` makes an encoder (261) or sends a packet (272), and what is
  reset may be in use; a change of parameters after `shutdown()` makes a server
  and a session again, which nobody ends.
* `publisher_plugin.cpp:203`: after a failed start or a `shutdown()`, `server_` is
  null, and a change of the codec calls `stop()` on it. There is no third way to
  use a null `server_` (`NullServer`). `failed_` (215, 278) is never reset:
  no later parameter makes the publisher work again.
* `publisher_plugin.cpp:236`: the comment asks for one more message after the
  last client has left; `onGraphChange` (289) and a change of a codec parameter
  (208) drop the encoder whose existence triggers that message. The same comment
  (239-241) expects the message to call back clients whose stream has timed out:
  it is not sent if no image was encoded since the client came, or if the client
  was dropped while others watched (`unnoticed`). A client of policy 1 that
  misses the BYE or takes it for the end then waits forever.
* `subscriber_plugin.cpp:313`: the codec is read, and the decoder made and put in
  place, while the loop may do the same for a new stream: the decoder of the old
  codec can be the last one put in place. A change of `use_hw_decoder` that comes
  between `subsessionStarted` and the assignment of `codec_`
  (`stream_client.cpp:196`, 207) likewise makes a decoder for the codec of the stream before; before the first
  stream it is Unknown, the constructor throws, and the subscriber has failed.
* `stream_server.cpp:359`: a callback of the loop that describes the session (189),
  makes a sink or closes a source holds a reference to the server; if the
  publisher gives up its own meanwhile, the destructor runs on the event loop and
  joins itself (`LoopDestroysServer`). `stream_server.cpp:192`: `sdpLines` uses a
  sink that the publisher's thread may close.
* `stream_server.cpp:417`: closing the source that live555 has made to describe a
  session nobody watches also resets `sink_`. If `start()` has just made the sink
  of a multicast session (293), it follows a null pointer at line 315
  (`StartWithoutSink`).
* `graph_monitor.cpp:50`: the thread clears `instance_` without `mutex_`. Between the
  test at line 82 and the use at line 84, this is a null pointer
  (`UseAfterReset`). `graph_monitor.cpp:90`: `instance()` spins with `mutex_` held.
  If the thread has just tested `shutdown_flag_` (43) and waits for `mutex_` (45),
  both wait forever (`Trapped`). Neither happens while anybody is registered
  (`RegisteredMonitorRuns`).
* `frame_injector.cpp:94`: `afterGetting` is called with the queue's mutex held,
  so a sink that asks for more at once blocks the loop.
* `stream_server.cpp:338`: the source of a multicast session is never closed,
  and live555 has 32 event triggers.
* `stream_encoder.cpp:221`: the list for MPEG-4 begins with two MJPEG encoders.
* `stream_encoder.cpp:183`: a start code of three octets behind an octet that is
  not 0 is missed when the scan stands on that octet: `data[i + 3]` is 1 and the
  three octets before it are not all 0, so that it goes on by four. The unit stays
  glued to the one before it. libx264 writes such codes before the further slices
  of a picture, which `slice-max-size` (384) asks for.
* `stream_encoder.cpp:152`: `length - 4` wraps around for shorter inputs, which
  the model excludes.

## 7. Left out, and the plan

### Not modelled

Abstracted everywhere: octets, pixels, SDP, URLs, logging, and wall-clock time.
A delay of 0 is therefore not told apart from another delay:
`TokenNamesTheOnlyTask` says when a task of `stream_client.cpp:361` may exist
with a timeout that has become 0, but not what its delay of 0 does.

* `rtsp_camera_proxy.cpp`, `publish_rtsp_stream.cpp`, `init.cpp`,
  `host_override.cpp`: one pass each, with no state that a later step could
  meet. What happens in them is in ROS, live555 and the environment.
* `StreamServer`: sockets, groupsocks and URLs. Of the source that live555 makes and
  closes at once to describe a session nobody watches (`dummy_session_`), only its
  closing is modelled (`CloseDescription`), which may reset `sink_`; the event
  trigger it holds in between is not.
* `StreamEncoder`: codec options, pixel formats and FFmpeg's frames; they are
  parameters of external code and do not come back.
* `SubscriberPlugin`: a multi-threaded executor. `scheduled_cb_group_` and the
  group of the timer are distinct, so that such an executor would add races
  which the code makes no provision for.
* What a client on a lost connection still costs the server, beyond `others` in
  `Transport`.

### The state of the work

Modelled: the components of section 1 that section 2 lists. Checked: the runs of
section 3. Proved: every safety property that a passing run checks, both
refinements, and the parts of five liveness properties that section 5 names.

Open: the liveness properties for all values of the constants, which need a
prover for fairness and ENABLED; the event triggers of the sources that live555
makes to describe a session; and what a multi-threaded executor would
add to `SubscriberPlugin`.
