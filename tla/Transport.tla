------------------------------ MODULE Transport -----------------------------
(***************************************************************************)
(* A publisher and a subscriber: PublisherPlugin, the latched topic that   *)
(* carries its URL, and a SubscriberPlugin with its StreamClient.          *)
(*                                                                         *)
(* The publisher is that of PublisherPlugin. The subscriber's connection   *)
(* has the phases and notifications of ClientSession, but its handlers and *)
(* its disconnect() are atomic here: the races between its threads are in  *)
(* SubscriberPlugin and StreamClient. What the server and the network make *)
(* of a connection is external: a session is served as long as it exists;  *)
(* when the server drops a client, the BYE may be lost.                    *)
(***************************************************************************)
EXTENDS PublisherPlugin, VideoCodecs

CONSTANTS
    Policies,    \* the values of reconnect_policy in use
    AutoPorts,   \* bound: the ports the system chooses for udp_port = 0
    LateConfigs  \* bound: the parameters set after shutdown() of the publisher

ASSUME PoliciesAssumption == Policies \subseteq 0 .. 3

VARIABLES
    address,      \* the port in url() of the server, while there is one
    topic,        \* the latched message: an address, or None
    unread,       \* the subscriber has not taken it yet
    subscribed,   \* the subscriber exists
    policy,       \* its reconnect_policy
    target,       \* the address its client_ connects to, or None
    phase, owed,  \* its client: see ClientSession
    offered,      \* the codec in the SDP that is being set up, or "Unknown"
    joined,       \* of this connection, the server has a client: "no", "yes",
                  \* or "lost" when it has dropped it
    decoder,      \* the codec of decoder_
    others,       \* other clients watch, or connections that were abandoned
    overtaken,    \* history: another session has taken the place of the one that
                  \* this connection's SDP describes
    unnoticed     \* history: since the URL was sent, the server has dropped the
                  \* client, and nothing was being encoded for it alone

topicVars == <<topic, unread, address>>
clientVars == <<target, phase, owed, offered, joined, decoder, overtaken>>
subscriberVars == <<subscribed, policy, clientVars>>
transportVars == <<vars, topicVars, subscriberVars, others, unnoticed>>

TransportInit ==
    /\ Init
    /\ phase = "closed" /\ owed = "none" /\ offered = "Unknown" /\ overtaken = FALSE
    /\ address = None /\ topic = None /\ unread = FALSE
    /\ subscribed = TRUE /\ policy \in Policies
    /\ target = None /\ joined = "no" /\ decoder = "Unknown"
    /\ others = FALSE /\ unnoticed = FALSE

-----------------------------------------------------------------------------
(* The publisher.                                                          *)

Compare(c) ==
    /\ down => c \in LateConfigs
    /\ CompareParameters(c)
    /\ UNCHANGED <<topicVars, subscriberVars, others, unnoticed>>

\* Mutant: stop() leaves the old session to its clients.
DropClientsNot ==
    UNCHANGED <<subscriberVars, others>>

\* deleteServerMediaSession(): the clients of the session are gone.
DropClients ==
    /\ joined' = IF joined = "yes" THEN "lost" ELSE joined
    /\ others' = FALSE
    /\ overtaken' = (overtaken \/ offered # "Unknown")
    /\ UNCHANGED <<subscribed, policy, target, phase, owed, offered, decoder>>

\* The system may choose a port for a second time.
Addresses(port) == IF port # 0 THEN {[fixed |-> port]} ELSE [auto : AutoPorts]

\* A change of the encoding drops the encoder that was to tell publish() of
\* a client that has gone.
Apply ==
    /\ ApplyParameters
    /\ IF pending.level >= Levels.session THEN DropClients ELSE UNCHANGED <<subscriberVars, others>>
    /\ IF pending.level = Levels.server
         THEN address' \in Addresses(pending.config.port)
         ELSE UNCHANGED address
    /\ unnoticed' = (unnoticed \/ (pending.level = Levels.codec /\ joined = "lost"))
    /\ UNCHANGED <<topic, unread>>

\* The topic keeps the last message for subscribers to come.
PublishImage ==
    /\ Publish
    /\ IF UrlIsSent
         THEN topic' = address /\ unread' = subscribed /\ unnoticed' = FALSE
         ELSE UNCHANGED <<topic, unread, unnoticed>>
    /\ UNCHANGED <<address, subscriberVars, others>>

EncodeImage ==
    /\ Encode
    /\ UNCHANGED <<topicVars, subscriberVars, others, unnoticed>>

GraphChange ==
    /\ ~subscribed
    /\ OnGraphChange
    /\ UNCHANGED <<topicVars, subscriberVars, others, unnoticed>>

ShutdownPublisher ==
    /\ \/ Shutdown /\ DropClients
       \/ EndShutdown /\ IF crashed' THEN DropClients ELSE UNCHANGED <<subscriberVars, others>>
    /\ UNCHANGED <<topicVars, unnoticed>>

-----------------------------------------------------------------------------
(* Who watches.                                                            *)

\* A client of the session comes or goes. A unicast session is watched while
\* it has one.
Audience(mine, its) ==
    /\ joined' = mine /\ others' = its
    /\ LET after == mine = "yes" \/ its
       IN IF server = None \/ server.mcast \/ watched = after
            THEN UNCHANGED vars
            ELSE IF after THEN FirstClient ELSE LastClient

\* Another RTSP client, or a connection that the subscriber has given up.
OthersChange ==
    /\ server # None
    /\ Audience(joined, ~others)
    /\ unnoticed' = (unnoticed \/ (joined = "lost" /\ ~others))
    /\ UNCHANGED <<topicVars, subscribed, policy, target, phase, owed, offered, decoder, overtaken>>

\* The server drops the subscriber, whose RTCP reports it has missed. (The
\* packets of a multicast session arrive all the same.)
DropClient ==
    /\ ~crashed /\ joined = "yes" /\ server # None /\ ~server.mcast
    /\ Audience("lost", others)
    /\ unnoticed' = (encoder = None \/ others)
    /\ UNCHANGED <<topicVars, subscribed, policy, target, phase, owed, offered, decoder, overtaken>>

-----------------------------------------------------------------------------
(* The subscriber.                                                         *)

Listens == ~crashed /\ subscribed

\* The connection is closed or replaced. The TEARDOWN is on its way: until it
\* arrives the server has a client more.
Abandon ==
    /\ joined' = "no" /\ others' = (others \/ joined = "yes")
    /\ offered' = "Unknown" /\ overtaken' = FALSE

\* internalCallback()
ReceiveUrl ==
    /\ Listens /\ unread /\ owed = "none"
    /\ unread' = FALSE
    /\ target' = topic
    /\ phase' = "setup"
    /\ Abandon
    /\ UNCHANGED <<vars, topic, address, subscribed, policy, owed, decoder, unnoticed>>

\* There is a session at the address, and one whose codec the client can set up.
Suits == server # None /\ target = address /\ Received(server.codec) # "Unknown"

InHandshake == Listens /\ phase = "setup" /\ owed = "none"

\* The answer to DESCRIBE: its SDP says what SETUP will set up.
Describe ==
    /\ InHandshake /\ joined = "no" /\ offered = "Unknown"
    /\ Suits
    /\ offered' = Received(server.codec)
    /\ UNCHANGED <<vars, topicVars, subscribed, policy, target, phase, owed, joined, decoder, others,
                   overtaken, unnoticed>>

\* The client's SETUP reaches the session at the address, which need not be the
\* one that was described. subsessionStarted() makes the decoder for the SDP.
SetUp ==
    /\ InHandshake /\ joined = "no" /\ offered # "Unknown"
    /\ server # None /\ target = address
    /\ decoder' = offered
    /\ offered' = "Unknown"
    /\ Audience("yes", others)
    /\ UNCHANGED <<topicVars, subscribed, policy, target, phase, owed, overtaken, unnoticed>>

Play ==
    /\ InHandshake /\ joined = "yes"
    /\ phase' = "playing" /\ owed' = "started"
    /\ UNCHANGED <<vars, topicVars, subscribed, policy, target, offered, joined, decoder, others,
                   overtaken, unnoticed>>

\* There is no server at the address, its session does not suit, or it ended
\* or was replaced during the handshake.
Fail ==
    /\ InHandshake
    /\ joined = "lost" \/ (joined = "no" /\ (overtaken \/ ~Suits))
    /\ phase' = "over" /\ owed' = "failed"
    /\ UNCHANGED <<vars, topicVars, subscribed, policy, target, offered, joined, decoder, others,
                   overtaken, unnoticed>>

\* The BYE of the server arrives, or no packet does for one timeout.
LoseStream ==
    /\ Listens /\ joined = "lost" /\ phase = "playing" /\ owed = "none"
    /\ \/ phase' = "over" /\ owed' = "finished"
       \/ phase' = phase /\ owed' = "timedout"
    /\ UNCHANGED <<vars, topicVars, subscribed, policy, target, offered, joined, decoder, others,
                   overtaken, unnoticed>>

\* The lowest policy under which a handler reconnects.
Threshold == [timedout |-> 1, failed |-> 2, finished |-> 3]

Reconnects == owed \in DOMAIN Threshold /\ policy >= Threshold[owed]

\* sessionStarted(), sessionTimeout(), sessionFailed(), sessionFinished()
Notify ==
    /\ Listens
    /\ owed # "none" /\ owed' = "none"
    /\ IF Reconnects
         THEN phase' = "closed" /\ Abandon
         ELSE phase' = phase /\ UNCHANGED <<offered, joined, others, overtaken>>
    /\ UNCHANGED <<vars, topicVars, subscribed, policy, target, decoder, unnoticed>>

\* cooldownTimerCallback()
TimerConnects ==
    /\ Listens /\ target # None
    /\ phase = "closed" /\ phase' = "setup"
    /\ UNCHANGED <<vars, topicVars, subscribed, policy, target, owed, offered, joined, decoder, others,
                   overtaken, unnoticed>>

\* shutdown() of the subscriber, between two callbacks.
Unsubscribe ==
    /\ Listens /\ owed = "none"
    /\ subscribed' = FALSE /\ unread' = FALSE
    /\ target' = None /\ phase' = "closed" /\ decoder' = "Unknown"
    /\ Abandon
    /\ UNCHANGED <<vars, topic, address, policy, owed, unnoticed>>

\* A new subscriber gets the last message.
Subscribe ==
    /\ ~crashed /\ ~subscribed
    /\ subscribed' = TRUE
    /\ unread' = (topic # None)
    /\ UNCHANGED <<vars, topic, address, policy, clientVars, others, unnoticed>>

-----------------------------------------------------------------------------

\* What the user and the environment do.
Disturbance ==
    \/ \E c \in Configs : Compare(c)
    \/ ShutdownPublisher
    \/ OthersChange \/ DropClient
    \/ Unsubscribe \/ Subscribe

\* What the client does about a connection.
Handshake == Describe \/ SetUp \/ Play \/ Fail

\* What happens to a connection, and to the subscriber for it.
Connection == Handshake \/ LoseStream \/ Notify \/ TimerConnects

TransportNext ==
    \/ Disturbance
    \/ Apply \/ PublishImage \/ EncodeImage \/ GraphChange
    \/ ReceiveUrl \/ Connection

TransportSpec == TransportInit /\ [][TransportNext]_transportVars

\* Images keep coming and can be encoded, requests are answered, timers fire,
\* and a stream that has ended is noticed, by its BYE or by the timeout (which
\* is not 0). Nobody need change a parameter, subscribe or watch; a start or
\* an encoder may fail but need not.
TransportFairness ==
    /\ WF_transportVars(Apply \/ (EncodeImage /\ UNCHANGED failed))
    /\ SF_transportVars(PublishImage)
    /\ SF_transportVars(ReceiveUrl)
    /\ WF_transportVars(Connection)

FairTransport == TransportSpec /\ TransportFairness

-----------------------------------------------------------------------------
(* Properties.                                                             *)

\* The publisher encodes for a client what that client has set up its decoder
\* for, although one learns of a new codec by its parameter and the other by
\* RTSP: the tables of both ends agree, and no client survives a session. It
\* may outlive the SDP: a session that is replaced between a client's DESCRIBE
\* and its SETUP lets it in with the decoder of the old one.
DecoderFitsEncoder ==
    joined = "yes" /\ encoder # None /\ ~overtaken => decoder = encoder.codec

Plays == phase = "playing" /\ owed = "none" /\ joined = "yes" /\ ~overtaken

\* When parameters and clients are at rest, the subscriber plays the session
\* there is: it learns of every new session, also if it subscribes late, and
\* a client that the server has dropped is called back, as
\* publisher_plugin.cpp:239-241 promises. Exceptions: the publisher or the
\* decoder has failed, and a client that was dropped while nothing was being
\* encoded for it alone, if its policy leaves the reconnect to the publisher.
SubscriberPlays ==
    \/ []<><<Disturbance>>_transportVars
    \/ <>[](failed \/ down \/ crashed \/ ~subscribed \/ server = None)
    \/ <>[](unnoticed /\ policy # 3)
    \/ <>[]Plays

=============================================================================
