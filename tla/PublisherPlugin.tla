-------------------------- MODULE PublisherPlugin ---------------------------
(***************************************************************************)
(* The publisher (publisher_plugin.cpp) and what it sees of its            *)
(* StreamServer: whether it exists, what its session serves, and whether   *)
(* anybody watches.                                                        *)
(*                                                                         *)
(* Actors: the application calls publish() with an image; a parameter      *)
(* change runs updateParameters(); the GraphMonitor calls onGraphChange(); *)
(* RTSP clients come and go in the event loop of the server; the           *)
(* application calls shutdown(). The first three exclude each other with   *)
(* mutex_, but updateParameters() decides what has changed before it takes *)
(* the lock, and shutdown() takes no lock: it resets server_ and encoder_  *)
(* one after the other, also under a publish() that is half-way through.   *)
(***************************************************************************)
EXTENDS Naturals

CONSTANTS
    Configs,    \* the parameter values in use
    Codecs,     \* the codecs that "codec" names, VideoCodec::Unknown included
    Supported   \* those of them that isSupported() knows

None == [none |-> TRUE]

ASSUME CodecsAssumption == Supported \subseteq Codecs
ASSUME ConfigsAssumption ==
    Configs \subseteq [codec : Codecs, rate : Nat, port : Nat, psize : Nat, mcast : BOOLEAN]

VARIABLES
    config,      \* *config_; None before the first updateParameters()
    server,      \* *server_ and its session, or None
    watched,     \* server_->hasActiveStreams()
    encoder,     \* *encoder_, or None
    updateUrl,   \* update_url_
    failed,      \* failed_
    pending,     \* the change updateParameters() is about to make, or None
    publishing,  \* a publish() has found that somebody watches, and holds mutex_
    stopping,    \* shutdown(): "no", "half" (server_ is reset, encoder_ is not), "done"
    crashed,     \* the process is gone
    announced    \* history: the URL was published since the session started

serverVars == <<server, watched, announced>>
vars == <<config, serverVars, encoder, updateUrl, failed, pending, publishing, stopping, crashed>>

\* What the server promises about its session and its audience.
Session ==
    INSTANCE Audience WITH
        offer <- IF server = None THEN "none"
                 ELSE IF server.mcast THEN "multicast" ELSE "unicast"

\* shutdown() has been called.
down == stopping # "no"

Servers  == [codec : Supported, port : Nat, psize : Nat, mcast : BOOLEAN]
Encoders == [codec : Supported, rate : Nat, psize : Nat]

Levels == [server |-> 4, session |-> 2, codec |-> 1, none |-> 0]

Init ==
    /\ config = None /\ server = None /\ watched = FALSE /\ encoder = None
    /\ updateUrl = FALSE /\ failed = FALSE
    /\ pending = None /\ publishing = FALSE /\ stopping = "no" /\ crashed = FALSE
    /\ announced = FALSE

-----------------------------------------------------------------------------
(* The life of the server and of the process.                              *)

\* The server is destroyed, and its session with it.
DropServer ==
    /\ server' = None
    /\ Session!End
    /\ announced' = FALSE

\* The process dies, and with it everything it holds.
Die ==
    /\ crashed' = TRUE
    /\ DropServer
    /\ config' = None /\ encoder' = None /\ updateUrl' = FALSE
    /\ pending' = None /\ publishing' = FALSE
    /\ UNCHANGED failed

-----------------------------------------------------------------------------
(* Parameters.                                                             *)

\* Mutant: a new bit rate is not worth a new encoder.
NoEncodingChange(c) == FALSE

EncodingChange(c) == config.rate # c.rate

\* The highest level of change; a higher level includes the lower ones. The
\* packet size is compared with itself and never counts. (Before the first
\* call config_ holds defaults and server_ is not set.)
Level(c) ==
    IF (server = None /\ ~failed) \/ config = None \/ config.port # c.port
      THEN Levels.server
    ELSE IF config.codec # c.codec \/ config.mcast # c.mcast THEN Levels.session
    ELSE IF EncodingChange(c) THEN Levels.codec
    ELSE Levels.none

\* updateParameters() up to the lock.
CompareParameters(c) ==
    /\ ~crashed /\ pending = None
    /\ pending' = [config |-> c, level |-> Level(c)]
    /\ UNCHANGED <<config, serverVars, encoder, updateUrl, failed, publishing, stopping, crashed>>

\* Mutant: the new session's URL is not published.
MustAnnounceNot == UNCHANGED updateUrl

MustAnnounce == updateUrl' = TRUE

\* server_->start() on a server that was created for this port and this value
\* of udp_packet_size.
Start(c, port, psize) ==
    /\ c.codec \in Supported
    /\ server' = [codec |-> c.codec, port |-> port, psize |-> psize, mcast |-> c.mcast]
    /\ Session!Open(IF c.mcast THEN "multicast" ELSE "unicast")
    /\ MustAnnounce
    /\ announced' = FALSE
    /\ UNCHANGED failed

\* The catch block: the port was taken or the codec is not supported.
StartFails ==
    /\ DropServer
    /\ updateUrl' = FALSE /\ failed' = TRUE

\* The rest of updateParameters(), with mutex_ held. A session cannot be
\* started where there is no server.
ApplyParameters ==
    /\ ~crashed /\ pending # None /\ ~publishing
    /\ LET c == pending.config
           level == pending.level
       IN \/ /\ \/ /\ level = Levels.server
                   /\ Start(c, c.port, c.psize) \/ StartFails
                \/ /\ level = Levels.session /\ server # None
                   /\ Start(c, server.port, server.psize) \/ (c.codec \notin Supported /\ StartFails)
                \/ /\ level <= Levels.codec
                   /\ UNCHANGED <<serverVars, updateUrl, failed>>
             /\ config' = c
             /\ encoder' = IF level >= Levels.codec THEN None ELSE encoder
             /\ pending' = None
             /\ UNCHANGED <<publishing, stopping, crashed>>
          \/ level = Levels.session /\ server = None /\ Die /\ UNCHANGED stopping

-----------------------------------------------------------------------------
(* publish() and onGraphChange(), which hold mutex_.                       *)

\* (No image comes after shutdown(), but a call that shutdown() overtakes may
\* still wait for mutex_.)
MayPublish == ~crashed /\ ~publishing /\ server # None /\ ~failed

\* Mutant: the URL is published once for every session.
UrlIsSentOnce == updateUrl

\* Does this call publish the URL? Of a new session, or once more after the
\* last client has gone.
UrlIsSent == updateUrl \/ (~watched /\ encoder # None)

Announce ==
    /\ updateUrl' = FALSE
    /\ announced' = (announced \/ UrlIsSent)

\* Mutant: the encoder is kept when nobody watches.
UnwatchedEncoderKept == encoder

\* Nobody watches: stop encoding.
UnwatchedEncoder == None

PublishUnwatched ==
    /\ MayPublish /\ ~watched
    /\ Announce
    /\ encoder' = UnwatchedEncoder
    /\ UNCHANGED <<config, server, watched, failed, pending, publishing, stopping, crashed>>

\* Somebody watches: go on to encode.
PublishWatched ==
    /\ MayPublish /\ watched
    /\ Announce
    /\ publishing' = TRUE
    /\ UNCHANGED <<config, server, watched, encoder, failed, pending, stopping, crashed>>

Publish == PublishUnwatched \/ PublishWatched

\* The encoder that publish() uses or creates.
Encoder ==
    IF encoder # None THEN encoder
    ELSE [codec |-> config.codec, rate |-> config.rate, psize |-> server.psize]

\* Encode and send, or fail for good. Without a server the new encoder has no
\* packet size and a packet no way out; both are found by a null pointer.
Encode ==
    /\ ~crashed /\ publishing
    /\ \/ /\ \/ server # None /\ encoder' = Encoder /\ UNCHANGED failed
             \/ encoder' = None /\ failed' = TRUE
             \/ server = None /\ encoder # None /\ UNCHANGED <<encoder, failed>>
          /\ publishing' = FALSE
          /\ UNCHANGED <<config, serverVars, updateUrl, pending, stopping, crashed>>
       \/ server = None /\ Die /\ UNCHANGED stopping

\* No subscriber is left. (shutdown() begins by waiting for this one.)
OnGraphChange ==
    /\ ~crashed /\ ~publishing /\ ~down
    /\ encoder # None /\ server # None
    /\ encoder' = None
    /\ UNCHANGED <<config, serverVars, updateUrl, failed, pending, publishing, stopping, crashed>>

-----------------------------------------------------------------------------
(* shutdown(), without mutex_. What it resets may be what publish() or     *)
(* updateParameters() is using at that moment: undefined behaviour, and    *)
(* the process may die of it.                                              *)

ServerInUse ==
    \/ server # None /\ ~failed
    \/ pending # None /\ pending.level >= Levels.session

\* The listener is removed and the server destroyed.
Shutdown ==
    /\ ~crashed /\ stopping = "no"
    /\ stopping' = "half"
    /\ \/ DropServer /\ UNCHANGED <<config, encoder, updateUrl, failed, pending, publishing, crashed>>
       \/ ServerInUse /\ Die

EncoderInUse ==
    /\ encoder # None
    /\ publishing \/ server # None \/ (pending # None /\ pending.level >= Levels.codec)

\* The encoder is destroyed.
EndShutdown ==
    /\ ~crashed /\ stopping = "half"
    /\ stopping' = "done"
    /\ \/ encoder' = None
          /\ UNCHANGED <<config, serverVars, updateUrl, failed, pending, publishing, crashed>>
       \/ EncoderInUse /\ Die

-----------------------------------------------------------------------------
(* RTSP clients of a unicast session; they share one media source.         *)

FirstClient ==
    /\ ~crashed
    /\ UNCHANGED <<config, server, encoder, updateUrl, failed, pending, publishing, stopping, crashed, announced>>
    /\ Session!Join

LastClient ==
    /\ ~crashed
    /\ UNCHANGED <<config, server, encoder, updateUrl, failed, pending, publishing, stopping, crashed, announced>>
    /\ Session!Leave

-----------------------------------------------------------------------------

Next ==
    \/ \E c \in Configs : CompareParameters(c)
    \/ ApplyParameters
    \/ Publish \/ Encode
    \/ OnGraphChange
    \/ Shutdown \/ EndShutdown
    \/ FirstClient \/ LastClient

Spec == Init /\ [][Next]_vars

-----------------------------------------------------------------------------
(* Properties.                                                             *)

\* What is encoded fits the session it is sent in and the parameters in
\* force, whenever parameters change between two images. Only shutdown() leaves
\* an encoder without its server, between its two resets; a publish() in that
\* moment may still use it.
EncoderFitsSession ==
    encoder # None =>
        /\ encoder.codec = config.codec /\ encoder.rate = config.rate
        /\ server # None => encoder.codec = server.codec /\ encoder.psize = server.psize
        /\ server # None \/ stopping = "half"

\* A session that runs is announced, as long as images are published.
SessionIsAnnounced ==
    server # None /\ ~announced ~> announced \/ failed \/ down \/ crashed

\* A stream nobody watches is not encoded for long.
UnwatchedIsNotEncoded ==
    encoder # None /\ ~watched ~> encoder = None \/ watched \/ down \/ crashed

\* "size limit for UDP packets [octets]", publisher_plugin.cpp:143: the
\* server obeys the parameter once the change has been applied.
PacketSizeIsUsed == server # None => server.psize = config.psize

=============================================================================
