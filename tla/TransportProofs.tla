---------------------------- MODULE TransportProofs ----------------------------
(***************************************************************************)
(* What holds between publisher and subscriber for all parameter values,   *)
(* codecs and builds of live555: that the encoder fits the session, and    *)
(* the decoder the encoder; that sessions are announced, encoders attended *)
(* and dropped clients called back as soon as there are images. What is    *)
(* about the publisher is proved of PublisherPlugin alone, which Transport *)
(* is shown to implement.                                                  *)
(***************************************************************************)
EXTENDS Transport, TLAPS

\* The level of a change was found before the lock was taken. A change that is
\* about to be made leaves alone what its level leaves alone, and the session
\* is that of the parameters in force.
PublisherInv ==
    /\ EncoderFitsSession
    /\ server # None => server.codec = config.codec
    /\ pending # None =>
         /\ pending.config \in Configs /\ pending.level \in {0, 1, 2, 4}
         /\ pending.level <= Levels.codec => pending.config.codec = config.codec
         /\ pending.level = Levels.none => pending.config.rate = config.rate

\* An SDP and a decoder are those of the session, unless another one has taken
\* its place in the middle of the handshake.
ClientInv ==
    /\ offered # "Unknown" => joined = "no"
    /\ offered # "Unknown" /\ ~overtaken => server # None /\ offered = server.codec
    /\ joined = "yes" => server # None
    /\ joined = "yes" /\ ~overtaken => decoder = server.codec

TransportInv == PublisherInv /\ ClientInv

-----------------------------------------------------------------------------

\* The tables of both ends agree: a codec is received as itself or not at all,
\* whichever formats live555 knows.
LEMMA TablesAgree ==
    ASSUME NEW c PROVE Received(c) \in {c, "Unknown"}
<1>1. CASE c \in SinkCodecs \cap FramerCodecs
  <2>1. c \in {"H264", "H265", "MPEG4", "VP8", "VP9", "AV1"}
    BY <1>1 DEF FramerCodecs, Known
  <2>2. FromRTSPCodecName(PayloadFormat[c]) = c
    BY <2>1 DEF PayloadFormat, FromRTSPCodecName, RTSPCodecNames
  <2> QED
    BY <1>1, <2>2 DEF Received
<1>2. CASE c \notin SinkCodecs \cap FramerCodecs
  BY <1>2 DEF Received
<1> QED
  BY <1>1, <1>2

\* A change of a lower level leaves alone what the higher levels are about.
LEMMA LevelTells ==
    ASSUME NEW c
    PROVE  /\ Level(c) \in {0, 1, 2, 4}
           /\ Level(c) <= Levels.codec => c.codec = config.codec
           /\ Level(c) = Levels.none => c.rate = config.rate
BY DEF Level, Levels, EncodingChange

\* Steps of the publisher.
LEMMA PublisherStep ==
    ASSUME PublisherInv, [Next]_vars
    PROVE  PublisherInv'
<1>1. CASE \E c \in Configs : CompareParameters(c)
  BY <1>1, LevelTells DEF CompareParameters, serverVars, PublisherInv, EncoderFitsSession
<1>2. CASE ApplyParameters /\ ~Die
  <2> DEFINE c == pending.config
             level == pending.level
  <2>1. /\ config' = c /\ pending' = None /\ pending # None /\ UNCHANGED stopping
        /\ encoder' = IF level >= Levels.codec THEN None ELSE encoder
    BY <1>2 DEF ApplyParameters
  <2>2. CASE level >= Levels.codec
    <3>1. encoder' = None
      BY <2>1, <2>2
    <3>2. server' # None => server'.codec = c.codec
      <4>1. CASE level <= Levels.codec
        BY <1>2, <2>1, <4>1 DEF ApplyParameters, serverVars, PublisherInv, Levels
      <4>2. CASE level = Levels.server \/ level = Levels.session
        BY <1>2, <4>2 DEF ApplyParameters, serverVars, PublisherInv, Levels, Start, StartFails, DropServer
      <4> QED
        BY <2>1, <4>1, <4>2 DEF PublisherInv, Levels
    <3> QED
      BY <2>1, <3>1, <3>2 DEF PublisherInv, EncoderFitsSession
  <2>3. CASE ~(level >= Levels.codec)
    <3>1. level = Levels.none
      BY <2>1, <2>3 DEF PublisherInv, Levels
    <3>2. UNCHANGED <<server, encoder>>
      BY <1>2, <3>1 DEF ApplyParameters, serverVars, Levels
    <3>3. c.codec = config.codec /\ c.rate = config.rate
      BY <2>1, <3>1 DEF PublisherInv, Levels
    <3> QED
      BY <2>1, <3>2, <3>3 DEF PublisherInv, EncoderFitsSession
  <2> QED
    BY <2>2, <2>3
<1>3. CASE Publish \/ (Encode /\ ~Die)
  <2>1. UNCHANGED <<config, server, pending, stopping>>
    BY <1>3 DEF Publish, PublishUnwatched, PublishWatched, Encode, serverVars
  <2>2. \/ encoder' \in {None, encoder}
        \/ encoder' = Encoder /\ server # None
    BY <1>3 DEF Publish, PublishUnwatched, PublishWatched, UnwatchedEncoder, Encode
  <2> QED
    BY <2>1, <2>2 DEF Encoder, PublisherInv, EncoderFitsSession
<1>4. CASE Shutdown /\ ~Die
  BY <1>4 DEF Shutdown, DropServer, PublisherInv, EncoderFitsSession
<1>5. CASE EndShutdown /\ ~Die
  BY <1>5 DEF EndShutdown, serverVars, PublisherInv, EncoderFitsSession
<1>6. CASE OnGraphChange \/ FirstClient \/ LastClient \/ UNCHANGED vars
  BY <1>6 DEF OnGraphChange, FirstClient, LastClient, vars, serverVars, PublisherInv, EncoderFitsSession
<1>7. CASE Die
  BY <1>7 DEF Die, DropServer, PublisherInv, EncoderFitsSession
<1> QED
  BY <1>1, <1>2, <1>3, <1>4, <1>5, <1>6, <1>7 DEF Next

\* Whatever is encoded fits the session and the parameters in force, but for
\* the moment between the two resets of shutdown().
THEOREM RightEncoder == Spec => []EncoderFitsSession
<1>1. Init => PublisherInv
  BY DEF Init, PublisherInv, EncoderFitsSession
<1>2. PublisherInv => EncoderFitsSession
  BY DEF PublisherInv
<1> QED
  BY <1>1, <1>2, PublisherStep, PTL DEF Spec

-----------------------------------------------------------------------------
(* The publisher's state.                                                  *)

PublisherTypeOK ==
    /\ config \in Configs \cup {None}
    /\ server \in Servers \cup {None} /\ encoder \in Encoders \cup {None}
    /\ pending \in [config : Configs, level : {0, 1, 2, 4}] \cup {None}
    /\ watched \in BOOLEAN /\ updateUrl \in BOOLEAN /\ failed \in BOOLEAN
    /\ publishing \in BOOLEAN /\ stopping \in {"no", "half", "done"}
    /\ crashed \in BOOLEAN /\ announced \in BOOLEAN

\* A session that was not announced is waiting for the next image.
AnnouncementIsDue == server # None /\ ~announced => updateUrl

\* There is an encoder only as long as the next image can discard it: with a
\* server and without a failure. Only shutdown() has a moment of its own.
EncoderIsAttended == encoder # None => ~failed /\ (server # None \/ stopping = "half")

\* A pointer that was reset is used only after a failure, or after shutdown().
CrashOnlyAfterFailure == crashed => failed \/ down

PublisherState ==
    /\ PublisherTypeOK
    /\ AnnouncementIsDue
    /\ EncoderIsAttended
    /\ CrashOnlyAfterFailure
    /\ server # None => config \in Configs
    /\ pending # None /\ pending.level = Levels.session => server # None \/ failed \/ down
    /\ publishing => ~failed /\ (server # None \/ down)

\* What a start, successful or not, makes of the session.
LEMMA StartedSession ==
    ASSUME NEW c \in Configs, NEW port \in Nat, NEW psize \in Nat,
           Start(c, port, psize) \/ StartFails, failed \in BOOLEAN
    PROVE  /\ server' \in Servers \cup {None} /\ watched' \in BOOLEAN
           /\ updateUrl' \in BOOLEAN /\ announced' \in BOOLEAN /\ failed' \in BOOLEAN
           /\ server' # None => updateUrl'
           /\ failed => failed'
<1>1. c.codec \in Codecs /\ c.mcast \in BOOLEAN
  BY ConfigsAssumption
<1>2. CASE Start(c, port, psize)
  <2>1. server' \in Servers
    BY <1>1, <1>2 DEF Start, Servers
  <2> QED
    BY <1>2, <2>1 DEF Start, MustAnnounce, Session!Open
<1>3. CASE StartFails
  BY <1>3 DEF StartFails, DropServer, Session!End
<1> QED
  BY <1>2, <1>3

\* What is left of a process that dies.
LEMMA DeadState ==
    ASSUME PublisherState, Die, stopping' \in {"no", "half", "done"}, failed \/ stopping' # "no"
    PROVE  PublisherState'
<1>1. /\ server' = None /\ watched' = FALSE /\ announced' = FALSE /\ config' = None /\ encoder' = None
      /\ updateUrl' = FALSE /\ pending' = None /\ publishing' = FALSE /\ crashed' = TRUE
      /\ UNCHANGED failed
  BY DEF Die, DropServer, Session!End
<1> QED
  BY <1>1 DEF PublisherState, PublisherTypeOK, AnnouncementIsDue, EncoderIsAttended, CrashOnlyAfterFailure,
              down

\* updateParameters(), as far as the publisher's state is concerned.
LEMMA ApplyState ==
    ASSUME PublisherInv, PublisherState, ApplyParameters
    PROVE  PublisherState'
<1> DEFINE c == pending.config
           level == pending.level
<1>1. CASE level = Levels.session /\ server = None /\ Die /\ UNCHANGED stopping
  <2>1. failed \/ stopping # "no"
    BY <1>1 DEF ApplyParameters, PublisherState, down
  <2> QED
    BY <1>1, <2>1, DeadState DEF PublisherState, PublisherTypeOK
<1>2. CASE ~(level = Levels.session /\ server = None)
  <2>1. /\ c \in Configs /\ level \in {0, 1, 2, 4} /\ c.port \in Nat /\ c.psize \in Nat
        /\ pending # None /\ ~publishing
    BY ConfigsAssumption DEF ApplyParameters, PublisherInv
  <2>2. /\ pending' = None /\ config' = c /\ UNCHANGED <<publishing, stopping, crashed>>
        /\ encoder' = IF level >= Levels.codec THEN None ELSE encoder
    BY <1>2 DEF ApplyParameters
  <2>3. /\ server # None => server.port \in Nat /\ server.psize \in Nat
        /\ watched \in BOOLEAN /\ updateUrl \in BOOLEAN /\ failed \in BOOLEAN
        /\ announced \in BOOLEAN
    BY DEF PublisherState, PublisherTypeOK, Servers
  <2>4. \/ level = Levels.server /\ (Start(c, c.port, c.psize) \/ StartFails)
        \/ /\ level = Levels.session /\ server # None
           /\ Start(c, server.port, server.psize) \/ StartFails
        \/ level <= Levels.codec /\ UNCHANGED <<serverVars, updateUrl, failed>>
    BY <1>2 DEF ApplyParameters
  <2> HIDE DEF c, level
  <2>5. ASSUME NEW port \in Nat, NEW psize \in Nat, Start(c, port, psize) \/ StartFails,
               level \in {Levels.server, Levels.session}
        PROVE  PublisherState'
    <3>1. /\ server' \in Servers \cup {None} /\ watched' \in BOOLEAN
          /\ updateUrl' \in BOOLEAN /\ announced' \in BOOLEAN /\ failed' \in BOOLEAN
          /\ server' # None => updateUrl'
          /\ failed => failed'
      BY <2>1, <2>3, <2>5, StartedSession
    <3>2. encoder' = None
      BY <2>2, <2>5 DEF Levels
    <3> QED
      BY <2>1, <2>2, <2>3, <2>5, <3>1, <3>2
         DEF PublisherState, PublisherTypeOK, AnnouncementIsDue, EncoderIsAttended, CrashOnlyAfterFailure,
             down
  <2>6. CASE level = Levels.server /\ (Start(c, c.port, c.psize) \/ StartFails)
    BY <2>1, <2>5, <2>6
  <2>7. CASE /\ level = Levels.session /\ server # None
             /\ Start(c, server.port, server.psize) \/ StartFails
    BY <2>3, <2>5, <2>7
  <2>8. CASE level <= Levels.codec /\ UNCHANGED <<serverVars, updateUrl, failed>>
    <3>1. encoder' \in {None, encoder}
      BY <2>2
    <3> QED
      BY <2>1, <2>2, <2>8, <3>1
         DEF serverVars, PublisherState, PublisherTypeOK, AnnouncementIsDue, EncoderIsAttended,
             CrashOnlyAfterFailure, down
  <2> QED
    BY <2>4, <2>6, <2>7, <2>8
<1> QED
  BY <1>1, <1>2 DEF ApplyParameters, Levels

\* The encoder of a session is one.
LEMMA EncoderIsOne ==
    ASSUME PublisherInv, PublisherTypeOK, server # None, config \in Configs
    PROVE  Encoder \in Encoders
<1>1. CASE encoder # None
  BY <1>1 DEF Encoder, PublisherTypeOK
<1>2. CASE encoder = None
  <2>1. server \in Servers /\ server.codec = config.codec
    BY DEF PublisherInv, PublisherTypeOK
  <2>2. config.rate \in Nat /\ config.codec \in Supported /\ server.psize \in Nat
    BY <2>1, ConfigsAssumption DEF Servers
  <2>3. Encoder = [codec |-> config.codec, rate |-> config.rate, psize |-> server.psize]
    BY <1>2 DEF Encoder
  <2> QED
    BY <2>2, <2>3 DEF Encoders
<1> QED
  BY <1>1, <1>2

\* publish(), as far as the publisher's state is concerned.
LEMMA PublishState ==
    ASSUME PublisherInv, PublisherState, Publish \/ Encode
    PROVE  PublisherState'
<1> USE DEF PublisherState, PublisherTypeOK, AnnouncementIsDue, EncoderIsAttended, CrashOnlyAfterFailure, down
<1>1. CASE Publish
  <2>1. /\ UNCHANGED <<config, server, watched, failed, pending, stopping, crashed>>
        /\ server # None /\ ~failed
        /\ encoder' \in {None, encoder}
        /\ publishing' \in BOOLEAN
    BY <1>1 DEF Publish, PublishUnwatched, PublishWatched, MayPublish, UnwatchedEncoder
  <2>2. updateUrl' = FALSE /\ announced' = (announced \/ UrlIsSent)
    BY <1>1 DEF Publish, PublishUnwatched, PublishWatched, Announce
  <2>3. announced' = TRUE
    BY <2>1, <2>2 DEF UrlIsSent
  <2> QED
    BY <2>1, <2>2, <2>3
<1>2. CASE Encode
  <2>1. CASE server = None /\ Die /\ UNCHANGED stopping
    <3>1. stopping # "no"
      BY <1>2, <2>1 DEF Encode
    <3> QED
      BY <2>1, <3>1, DeadState
  <2>2. CASE ~(server = None /\ Die /\ UNCHANGED stopping)
    <3>1. /\ UNCHANGED <<config, server, watched, announced, updateUrl, pending, stopping, crashed>>
          /\ ~publishing' /\ publishing' \in BOOLEAN
      BY <1>2, <2>2 DEF Encode, serverVars
    <3>2. /\ publishing /\ ~failed
          /\ \/ server # None /\ encoder' = Encoder /\ UNCHANGED failed
             \/ encoder' = None /\ failed' = TRUE
             \/ UNCHANGED <<encoder, failed>>
      BY <1>2, <2>2 DEF Encode
    <3>3. CASE server # None /\ encoder' = Encoder /\ UNCHANGED failed
      <4>1. encoder' \in Encoders /\ ~failed
        BY <3>2, <3>3, EncoderIsOne
      <4> QED
        BY <3>1, <3>3, <4>1
    <3>4. CASE encoder' = None /\ failed' = TRUE
      BY <3>1, <3>4
    <3>5. CASE UNCHANGED <<encoder, failed>>
      BY <3>1, <3>5
    <3> QED
      BY <3>2, <3>3, <3>4, <3>5
  <2> QED
    BY <2>1, <2>2
<1> QED
  BY <1>1, <1>2

\* shutdown(), as far as the publisher's state is concerned.
LEMMA ShutdownState ==
    ASSUME PublisherState, Shutdown \/ EndShutdown
    PROVE  PublisherState'
<1>1. CASE Die
  BY <1>1, DeadState DEF Shutdown, EndShutdown
<1>2. CASE Shutdown /\ ~Die
  <2>1. /\ server' = None /\ watched' = FALSE /\ announced' = FALSE /\ stopping' = "half"
        /\ UNCHANGED <<config, encoder, updateUrl, failed, pending, publishing, crashed>>
    BY <1>2 DEF Shutdown, DropServer, Session!End
  <2> QED
    BY <2>1 DEF PublisherState, PublisherTypeOK, AnnouncementIsDue, EncoderIsAttended,
                CrashOnlyAfterFailure, down
<1>3. CASE EndShutdown /\ ~Die
  BY <1>3 DEF EndShutdown, serverVars, PublisherState, PublisherTypeOK, AnnouncementIsDue,
              EncoderIsAttended, CrashOnlyAfterFailure, down
<1> QED
  BY <1>1, <1>2, <1>3

\* Steps of the publisher keep its state in order.
LEMMA StateStep ==
    ASSUME PublisherInv, PublisherState, [Next]_vars
    PROVE  PublisherState'
<1> USE DEF PublisherState, PublisherTypeOK, AnnouncementIsDue, EncoderIsAttended, CrashOnlyAfterFailure, down
<1>1. CASE \E c \in Configs : CompareParameters(c)
  <2>1. PICK c \in Configs : CompareParameters(c)
    BY <1>1
  <2>2. UNCHANGED <<config, server, watched, announced, encoder, updateUrl, failed, publishing, stopping,
                    crashed>>
    BY <2>1 DEF CompareParameters, serverVars
  <2>3. pending' = [config |-> c, level |-> Level(c)] /\ Level(c) \in {0, 1, 2, 4}
    BY <2>1, LevelTells DEF CompareParameters
  <2>4. Level(c) = Levels.session => server # None \/ failed
    BY DEF Level, Levels
  <2> QED
    BY <2>2, <2>3, <2>4
<1>2. CASE ApplyParameters
  BY <1>2, ApplyState
<1>3. CASE Publish \/ Encode
  BY <1>3, PublishState
<1>4. CASE OnGraphChange \/ UNCHANGED vars
  <2>1. /\ UNCHANGED <<config, server, watched, announced, updateUrl, failed, pending, publishing, stopping,
                       crashed>>
        /\ encoder' \in {None, encoder}
    BY <1>4 DEF OnGraphChange, vars, serverVars
  <2> QED
    BY <2>1
<1>5. CASE Shutdown \/ EndShutdown
  BY <1>5, ShutdownState
<1>6. CASE FirstClient \/ LastClient
  <2>1. /\ UNCHANGED <<config, server, encoder, updateUrl, failed, pending, publishing, stopping, crashed,
                       announced>>
        /\ watched' \in BOOLEAN
    BY <1>6 DEF FirstClient, LastClient, Session!Join, Session!Leave
  <2> QED
    BY <2>1
<1> QED
  BY <1>1, <1>2, <1>3, <1>4, <1>5, <1>6 DEF Next

\* The publisher's variables keep their types and its state stays in order.
THEOREM PublisherInvariance == Spec => [](PublisherInv /\ PublisherState)
<1>1. Init => PublisherInv /\ PublisherState
  BY DEF Init, PublisherInv, EncoderFitsSession, PublisherState, PublisherTypeOK, AnnouncementIsDue,
         EncoderIsAttended, CrashOnlyAfterFailure, down
<1> QED
  BY <1>1, PublisherStep, StateStep, PTL DEF Spec

\* No session is forgotten before it is announced, however sessions change
\* between two images: what SessionIsAnnounced needs is images.
THEOREM Announced == Spec => []AnnouncementIsDue
<1>1. PublisherState => AnnouncementIsDue
  BY DEF PublisherState
<1> QED
  BY <1>1, PublisherInvariance, PTL

\* No encoder outlives its session or a failure, but for the moment between the
\* two resets of shutdown(): what UnwatchedIsNotEncoded needs is images.
THEOREM Attended == Spec => []EncoderIsAttended
<1>1. PublisherState => EncoderIsAttended
  BY DEF PublisherState
<1> QED
  BY <1>1, PublisherInvariance, PTL

\* updateParameters() and publish() dereference a null server_ only after a
\* failure that is final anyway, or when shutdown() overtakes them.
THEOREM NullServer == Spec => []CrashOnlyAfterFailure
<1>1. PublisherState => CrashOnlyAfterFailure
  BY DEF PublisherState
<1> QED
  BY <1>1, PublisherInvariance, PTL

-----------------------------------------------------------------------------

\* Every step of the whole is a step of the publisher, or one that it does not
\* see.
LEMMA PublisherTakesPart ==
    ASSUME [TransportNext]_transportVars
    PROVE  [Next]_vars
<1>1. CASE Disturbance
  BY <1>1 DEF Disturbance, Compare, ShutdownPublisher, OthersChange, DropClient, Audience,
              Unsubscribe, Subscribe, Next
<1>2. CASE Apply \/ PublishImage \/ EncodeImage \/ GraphChange
  BY <1>2 DEF Apply, PublishImage, EncodeImage, GraphChange, Next
<1>3. CASE SetUp
  BY <1>3 DEF SetUp, Audience, Next
<1>4. CASE \/ Describe \/ Play \/ Fail \/ ReceiveUrl \/ LoseStream \/ Notify \/ TimerConnects
           \/ UNCHANGED transportVars
  BY <1>4 DEF Describe, Play, Fail, ReceiveUrl, LoseStream, Notify, TimerConnects, transportVars
<1> QED
  BY <1>1, <1>2, <1>3, <1>4 DEF TransportNext, Connection, Handshake

\* The publisher of Transport is the one of PublisherPlugin.
THEOREM PublisherImplemented == TransportSpec => Spec
<1>1. TransportInit => Init
  BY DEF TransportInit
<1> QED
  BY <1>1, PublisherTakesPart, PTL DEF TransportSpec, Spec

\* A client of the session keeps its decoder as long as the session lasts.
LEMMA ClientStep ==
    ASSUME TransportInv, overtaken \in BOOLEAN, [TransportNext]_transportVars
    PROVE  ClientInv' /\ overtaken' \in BOOLEAN
<1> USE DEF TransportInv, ClientInv
<1>1. ASSUME DropClients PROVE ClientInv' /\ overtaken' \in BOOLEAN
  <2>1. joined' # "yes" /\ overtaken' = (overtaken \/ offered # "Unknown") /\ UNCHANGED offered
    BY <1>1 DEF DropClients
  <2>2. offered # "Unknown" => joined' = "no"
    BY <1>1 DEF DropClients
  <2> QED
    BY <2>1, <2>2
<1>2. CASE Apply
  <2>1. CASE pending.level >= Levels.session
    BY <1>1, <1>2, <2>1 DEF Apply
  <2>2. CASE ~(pending.level >= Levels.session)
    <3>1. UNCHANGED server
      BY <1>2, <2>2 DEF Apply, ApplyParameters, serverVars, PublisherInv, Levels
    <3> QED
      BY <1>2, <2>2, <3>1 DEF Apply, subscriberVars, clientVars
  <2> QED
    BY <2>1, <2>2
<1>3. CASE Describe
  BY <1>3, TablesAgree DEF Describe, Suits, vars, serverVars
<1>4. ASSUME NEW mine, NEW its, Audience(mine, its) PROVE UNCHANGED server /\ joined' = mine
  BY <1>4 DEF Audience, vars, serverVars, FirstClient, LastClient
<1>5. CASE SetUp
  BY <1>4, <1>5 DEF SetUp
<1>6. CASE OthersChange \/ DropClient
  BY <1>4, <1>6 DEF OthersChange, DropClient
<1>7. CASE ReceiveUrl \/ Notify \/ Unsubscribe
  BY <1>7 DEF ReceiveUrl, Notify, Unsubscribe, Abandon, vars, serverVars
<1>8. CASE ShutdownPublisher
  <2>1. CASE DropClients
    BY <1>1, <2>1
  <2>2. CASE EndShutdown /\ ~crashed' /\ UNCHANGED <<subscriberVars, others>>
    <3>1. UNCHANGED server
      BY <2>2 DEF EndShutdown, Die, serverVars
    <3> QED
      BY <2>2, <3>1 DEF subscriberVars, clientVars
  <2> QED
    BY <1>8, <2>1, <2>2 DEF ShutdownPublisher
<1>9. CASE PublishImage \/ EncodeImage \/ GraphChange \/ \E c \in Configs : Compare(c)
  <2>1. UNCHANGED server
    BY <1>9 DEF PublishImage, EncodeImage, GraphChange, Compare, Publish, PublishUnwatched, PublishWatched,
                Encode, Die, DropServer, OnGraphChange, CompareParameters, serverVars
  <2>2. UNCHANGED clientVars
    BY <1>9 DEF PublishImage, EncodeImage, GraphChange, Compare, subscriberVars
  <2> QED
    BY <2>1, <2>2 DEF clientVars
<1>10. CASE Play \/ Fail \/ LoseStream \/ TimerConnects \/ Subscribe \/ UNCHANGED transportVars
  BY <1>10 DEF Play, Fail, LoseStream, TimerConnects, Subscribe, transportVars, vars, serverVars,
              subscriberVars, clientVars
<1> QED
  BY <1>2, <1>3, <1>5, <1>6, <1>7, <1>8, <1>9, <1>10 DEF TransportNext, Disturbance, Connection, Handshake

\* The client decodes what the publisher encodes for it.
THEOREM RightDecoder == TransportSpec => []DecoderFitsEncoder
<1> DEFINE Inv == TransportInv /\ PublisherState /\ overtaken \in BOOLEAN
<1>1. TransportInit => Inv
  BY DEF TransportInit, Init, TransportInv, PublisherInv, ClientInv, EncoderFitsSession, PublisherState,
         PublisherTypeOK, AnnouncementIsDue, EncoderIsAttended, CrashOnlyAfterFailure, down
<1>2. Inv /\ [TransportNext]_transportVars => Inv'
  BY PublisherTakesPart, PublisherStep, StateStep, ClientStep DEF TransportInv
<1>3. Inv => DecoderFitsEncoder
  BY DEF TransportInv, PublisherInv, ClientInv, EncoderFitsSession, DecoderFitsEncoder
<1> QED
  BY <1>1, <1>2, <1>3, PTL DEF TransportSpec

-----------------------------------------------------------------------------
(* What the subscriber learns of the publisher.                            *)

\* The publisher is about to send the address of its session, or the
\* subscriber is about to take it, or has it.
AddressIsKnown == server # None /\ subscribed => updateUrl \/ unread \/ target = address

\* A client that the server has dropped is about to be called back.
CallBackIsDue ==
    joined = "lost" /\ server # None =>
        failed \/ down \/ unnoticed \/ updateUrl \/ (encoder # None /\ ~watched) \/ unread

TopicState ==
    /\ subscribed \in BOOLEAN /\ unread \in BOOLEAN /\ unnoticed \in BOOLEAN
    /\ ~subscribed => joined = "no" /\ ~unread
    /\ server # None => address # None /\ (updateUrl \/ topic = address)
    /\ subscribed /\ topic # None => unread \/ target = topic
    /\ CallBackIsDue

\* An address is an address.
LEMMA AddressesAreSome ==
    ASSUME NEW port, NEW a \in Addresses(port) PROVE a # None
<1>1. DOMAIN None = {"none"}
  BY DEF None
<1>2. "none" # "fixed" /\ "none" # "auto"
  OBVIOUS
<1>3. DOMAIN a = {"fixed"} \/ DOMAIN a = {"auto"}
  BY DEF Addresses
<1> QED
  BY <1>1, <1>2, <1>3

\* Steps of the publisher.
LEMMA PublisherTopic ==
    ASSUME PublisherInv, PublisherState, TopicState,
           Apply \/ PublishImage \/ EncodeImage \/ GraphChange \/ ShutdownPublisher
    PROVE  TopicState'
<1> USE DEF TopicState, CallBackIsDue, down
<1>1. CASE Apply
  <2>1. /\ UNCHANGED <<topic, unread, subscribed, target>>
        /\ unnoticed' = (unnoticed \/ (pending.level = Levels.codec /\ joined = "lost"))
    BY <1>1 DEF Apply, DropClients, subscriberVars, clientVars
  <2>2. pending # None /\ pending.level \in {0, 1, 2, 4}
    BY <1>1 DEF Apply, ApplyParameters, PublisherState, PublisherTypeOK
  <2>3. CASE pending.level = Levels.server
    <3>1. address' # None
      BY <1>1, <2>3, AddressesAreSome DEF Apply
    <3>2. server' # None => updateUrl'
      BY <1>1, <2>3 DEF Apply, ApplyParameters, Levels, Start, StartFails, DropServer, MustAnnounce
    <3>3. ~subscribed => joined' = "no"
      BY <1>1, <2>3 DEF Apply, DropClients, Levels
    <3> QED
      BY <2>1, <3>1, <3>2, <3>3
  <2>4. CASE pending.level = Levels.session
    <3>1. address' = address /\ (~subscribed => joined' = "no")
      BY <1>1, <2>4 DEF Apply, DropClients, Levels
    <3>2. server' # None => server # None /\ updateUrl'
      BY <1>1, <2>4 DEF Apply, ApplyParameters, Levels, Start, StartFails, DropServer, MustAnnounce,
                        Die, serverVars
    <3> QED
      BY <2>1, <3>1, <3>2
  <2>5. CASE pending.level \in {Levels.codec, Levels.none}
    <3>1. UNCHANGED <<address, server, watched, updateUrl, joined, failed, stopping>>
      BY <1>1, <2>5 DEF Apply, ApplyParameters, Levels, serverVars, subscriberVars, clientVars
    <3>2. CASE pending.level = Levels.codec
      BY <2>1, <3>1, <3>2
    <3>3. CASE pending.level = Levels.none
      <4>1. UNCHANGED encoder
        BY <1>1, <3>3 DEF Apply, ApplyParameters, Levels
      <4> QED
        BY <2>1, <3>1, <3>3, <4>1 DEF Levels
    <3> QED
      BY <2>5, <3>2, <3>3
  <2> QED
    BY <2>2, <2>3, <2>4, <2>5 DEF Levels
<1>2. CASE PublishImage
  <2>1. /\ UNCHANGED <<address, server, watched, subscribed, target, joined, failed, stopping>>
        /\ server # None
    BY <1>2 DEF PublishImage, Publish, PublishUnwatched, PublishWatched, MayPublish, subscriberVars,
                clientVars
  <2>2. CASE UrlIsSent
    <3>1. topic' = address /\ unread' = subscribed /\ unnoticed' = FALSE
      BY <1>2, <2>2 DEF PublishImage
    <3>2. joined = "lost" => unread'
      BY <3>1
    <3> QED
      BY <2>1, <3>1, <3>2
  <2>3. CASE ~UrlIsSent
    <3>1. UNCHANGED <<topic, unread, unnoticed>>
      BY <1>2, <2>3 DEF PublishImage
    <3>2. ~updateUrl /\ ~(~watched /\ encoder # None)
      BY <2>3 DEF UrlIsSent
    <3> QED
      BY <2>1, <3>1, <3>2
  <2> QED
    BY <2>2, <2>3
<1>3. CASE EncodeImage
  <2>1. UNCHANGED <<topicVars, subscribed, target, joined, unnoticed>>
    BY <1>3 DEF EncodeImage, subscriberVars, clientVars
  <2>2. CASE server = None /\ Die
    BY <2>1, <2>2 DEF Die, DropServer, topicVars
  <2>3. CASE ~(server = None /\ Die)
    <3>1. /\ UNCHANGED <<server, watched, updateUrl, stopping>>
          /\ failed' \/ UNCHANGED <<encoder, failed>> \/ (encoder' = Encoder /\ UNCHANGED failed)
      BY <1>3, <2>3 DEF EncodeImage, Encode, serverVars
    <3>2. encoder # None => Encoder = encoder
      BY DEF Encoder
    <3> QED
      BY <2>1, <3>1, <3>2 DEF topicVars, down
  <2> QED
    BY <2>2, <2>3
<1>4. CASE GraphChange
  BY <1>4 DEF GraphChange, OnGraphChange, topicVars, subscriberVars, clientVars, serverVars
<1>5. CASE ShutdownPublisher
  <2>1. /\ UNCHANGED <<topicVars, unnoticed, subscribed, target>>
        /\ stopping' # "no"
        /\ joined' = "no" \/ joined' = joined \/ (joined = "yes" /\ joined' = "lost")
    BY <1>5 DEF ShutdownPublisher, Shutdown, EndShutdown, DropClients, subscriberVars, clientVars
  <2>2. server' # None => server # None /\ updateUrl' = updateUrl
    BY <1>5 DEF ShutdownPublisher, Shutdown, EndShutdown, Die, DropServer, serverVars
  <2> QED
    BY <2>1, <2>2 DEF topicVars, down
<1> QED
  BY <1>1, <1>2, <1>3, <1>4, <1>5

\* A client comes or goes: an encoder that loses its last one is still there.
LEMMA AudienceTopic ==
    ASSUME TopicState, OthersChange \/ DropClient \/ SetUp
    PROVE  TopicState'
<1> USE DEF TopicState, CallBackIsDue, down
<1>1. ASSUME NEW mine, NEW its, Audience(mine, its)
      PROVE  /\ UNCHANGED <<server, encoder, updateUrl, failed, stopping>> /\ joined' = mine
             /\ server # None /\ ~server.mcast /\ mine # "yes" /\ ~its => ~watched'
  BY <1>1 DEF Audience, FirstClient, LastClient, Session!Join, Session!Leave, vars, serverVars
<1>2. CASE OthersChange
  <2>1. /\ UNCHANGED <<server, encoder, updateUrl, joined, failed, stopping>>
        /\ UNCHANGED <<topicVars, subscribed, target>>
        /\ unnoticed' = (unnoticed \/ (joined = "lost" /\ ~others))
    BY <1>1, <1>2 DEF OthersChange
  <2>2. joined = "lost" /\ others /\ encoder # None /\ ~watched => ~watched'
    BY <1>2 DEF OthersChange, Audience, FirstClient, LastClient, Session!Join, Session!Leave, vars,
                serverVars
  <2> QED
    BY <2>1, <2>2 DEF topicVars
<1>3. CASE DropClient
  <2>1. /\ UNCHANGED <<server, encoder, updateUrl, failed, stopping>> /\ UNCHANGED <<topicVars, subscribed, target>>
        /\ unnoticed' = (encoder = None \/ others) /\ server # None /\ joined = "yes"
    BY <1>1, <1>3 DEF DropClient
  <2>2. ~others => ~watched'
    BY <1>1, <1>3 DEF DropClient
  <2> QED
    BY <2>1, <2>2 DEF topicVars
<1>4. CASE SetUp
  <2>1. /\ UNCHANGED <<server, encoder, updateUrl, failed, stopping>> /\ UNCHANGED <<topicVars, subscribed, target, unnoticed>>
        /\ joined' = "yes" /\ subscribed
    BY <1>1, <1>4 DEF SetUp, InHandshake, Listens
  <2> QED
    BY <2>1 DEF topicVars
<1> QED
  BY <1>2, <1>3, <1>4

\* Steps of the whole.
LEMMA TopicStep ==
    ASSUME PublisherInv, PublisherState, TopicState, [TransportNext]_transportVars
    PROVE  TopicState'
<1> USE DEF TopicState, CallBackIsDue, down
<1>1. CASE Apply \/ PublishImage \/ EncodeImage \/ GraphChange \/ ShutdownPublisher
  BY <1>1, PublisherTopic
<1>2. CASE OthersChange \/ DropClient \/ SetUp
  BY <1>2, AudienceTopic
<1>3. CASE \E c \in Configs : Compare(c)
  BY <1>3 DEF Compare, CompareParameters, serverVars, topicVars, subscriberVars, clientVars
<1>4. CASE ReceiveUrl
  BY <1>4 DEF ReceiveUrl, Abandon, Listens, vars, serverVars
<1>5. CASE Notify
  <2>1. /\ UNCHANGED <<failed, stopping, server, encoder, updateUrl, watched, address, topic, unread, subscribed, target, unnoticed>>
        /\ joined' \in {joined, "no"}
    BY <1>5 DEF Notify, Abandon, vars, serverVars, topicVars
  <2> QED
    BY <2>1
<1>6. CASE Describe \/ Play \/ Fail \/ LoseStream \/ TimerConnects \/ UNCHANGED transportVars
  BY <1>6 DEF Describe, Play, Fail, LoseStream, TimerConnects, transportVars, vars, serverVars, topicVars,
              subscriberVars, clientVars
<1>7. CASE Unsubscribe
  BY <1>7 DEF Unsubscribe, Abandon, vars, serverVars
<1>8. CASE Subscribe
  BY <1>8 DEF Subscribe, vars, serverVars, clientVars
<1> QED
  BY <1>1, <1>2, <1>3, <1>4, <1>5, <1>6, <1>7, <1>8 DEF TransportNext, Disturbance, Connection, Handshake

\* TopicState is an invariant of the composed system.
THEOREM TopicInvariance == TransportSpec => []TopicState
<1>1. TransportInit => TopicState
  BY DEF TransportInit, Init, TopicState, CallBackIsDue
<1>2. TransportSpec => [](PublisherInv /\ PublisherState)
  BY PublisherImplemented, PublisherInvariance, PTL
<1> QED
  BY <1>1, <1>2, TopicStep, PTL DEF TransportSpec

\* However sessions, subscribers and images come and go, the subscriber knows
\* the address of the session there is or is about to be told.
THEOREM KnowsAddress == TransportSpec => []AddressIsKnown
<1>1. TopicState => AddressIsKnown
  BY DEF TopicState, AddressIsKnown
<1> QED
  BY <1>1, TopicInvariance, PTL

\* A dropped client is called back, unless it was dropped while nothing was
\* encoded for it alone (publisher_plugin.cpp, 239 to 241).
THEOREM CalledBack == TransportSpec => []CallBackIsDue
<1>1. TopicState => CallBackIsDue
  BY DEF TopicState
<1> QED
  BY <1>1, TopicInvariance, PTL

-----------------------------------------------------------------------------

\* A step of the publisher leaves session and audience alone or is one of
\* Audience.
LEMMA AudienceRules ==
    ASSUME [Next]_vars
    PROVE  [Session!AudienceNext]_(Session!audienceVars)
<1>1. ASSUME UNCHANGED <<server, watched>> PROVE UNCHANGED (Session!audienceVars)
  BY <1>1 DEF Session!audienceVars
<1>2. ASSUME NEW c, NEW port, NEW psize, Start(c, port, psize) PROVE Session!AudienceNext
  BY <1>2 DEF Start, Session!AudienceNext, Session!Kinds
<1>3. ASSUME DropServer PROVE Session!AudienceNext
  BY <1>3 DEF DropServer, Session!AudienceNext
<1>4. CASE ApplyParameters
  BY <1>1, <1>2, <1>3, <1>4 DEF ApplyParameters, StartFails, Die, serverVars
<1>5. CASE Encode \/ Shutdown \/ EndShutdown
  BY <1>1, <1>3, <1>5 DEF Encode, Shutdown, EndShutdown, Die, serverVars
<1>6. CASE FirstClient \/ LastClient
  BY <1>6 DEF FirstClient, LastClient, Session!AudienceNext
<1>7. CASE Publish \/ OnGraphChange \/ UNCHANGED vars \/ \E c \in Configs : CompareParameters(c)
  BY <1>1, <1>7 DEF Publish, PublishUnwatched, PublishWatched, OnGraphChange, CompareParameters,
                    vars, serverVars
<1> QED
  BY <1>4, <1>5, <1>6, <1>7 DEF Next

\* The publisher relies on nothing that Audience does not promise, and hence
\* on nothing that StreamServer does not keep.
THEOREM UsesItsServer == Spec => Session!AudienceSpec
<1>1. Init => Session!AudienceInit
  BY DEF Init, Session!AudienceInit
<1> QED
  BY <1>1, AudienceRules, PTL DEF Spec, Session!AudienceSpec

=============================================================================
