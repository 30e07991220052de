------------------------ MODULE SubscriberPluginProofs ------------------------
(***************************************************************************)
(* What the subscriber guarantees for all parameter values, codecs and     *)
(* lengths of its queue: the four invariants that SubscriberPlugin.cfg     *)
(* checks on a small instance, that an attempt to reconnect is due as long *)
(* as the stream is lost, and that the connection is used as it may be.    *)
(***************************************************************************)
EXTENDS SubscriberPlugin, TLAPS

Threads == {"exec", "loop"}

Limiting == {"limiting", "limitingCodec"}

ExecPlaces ==
    {"idle", "replacing", "connecting", "disconnecting", "closing", "clearing", "arming",
     "doubling"} \cup Updating \cup UpdatingCodec \cup Stopping

LoopPlaces ==
    {"idle", "choosing", "chosen", "disconnecting", "clearing", "arming", "doubling", "returning"}

Ranges ==
    /\ config \in ConfigType /\ cooldown \in Nat /\ delay \in Nat /\ queue \in Nat
    /\ codec \in Codecs \cup {"Unknown"}

Places ==
    /\ pc \in [Threads -> ExecPlaces \cup LoopPlaces]
    /\ pc.exec \in ExecPlaces /\ pc.loop \in LoopPlaces

Flags ==
    /\ hasClient \in BOOLEAN /\ timer \in BOOLEAN /\ failed \in BOOLEAN /\ down \in BOOLEAN
    /\ raced \in BOOLEAN /\ crossed \in BOOLEAN /\ blended \in BOOLEAN /\ revived \in BOOLEAN
    /\ crashed \in BOOLEAN

TypeOK == Ranges /\ Places /\ Flags /\ Client!SessionTypeOK

\* *config_ is normalised as soon as updateParameters() has passed line 307.
LimitsInOrder == pc.exec \notin Updating => config.minwait <= config.maxwait

\* cooldown_ and what reconnect() has read from it are in range, unless the event
\* loop doubles it between lines 302 and 307.
DelayState ==
    /\ pc.exec \in Updating /\ pc.loop = "doubling" => blended
    /\ pc.exec \in Limiting /\ ~blended => cooldown = config.minwait
    /\ ~blended /\ "doubling" \in {pc.exec, pc.loop} =>
         config.minwait <= delay /\ delay <= config.maxwait

\* The event loop is in one callback at a time, from which it notifies its
\* owner, makes a decoder or reconnects.
LoopState ==
    /\ owed # "none" => pc.loop = "idle"
    /\ pc.loop # "idle" => callback # "none"
    /\ pc.loop \in {"clearing", "arming", "doubling", "returning"} => callback = "late"
    /\ subsession # None <=> pc.loop \in {"choosing", "chosen"}
    /\ subsession # None => subsession.codec \in Codecs
    /\ subsession # None /\ callback = "current" => video = "Unknown"

\* The executor is in one of its own calls.
ExecState ==
    /\ known # "none" <=> pc.exec = "making"
    /\ phase = "closing" <=> pc.exec \in {"closing", "stopClosing"}
    /\ pc.exec \in Stopping => down /\ ~revived

\* Before the first URL there is nothing to lose, and client_ stays set.
ClientState ==
    ~hasClient =>
        /\ phase = "closed" /\ callback = "none" /\ ~timer /\ decoder = None
        /\ pc.exec \in {"idle", "replacing", "ending"} \cup Updating

\* No connection, and nothing of the last one on its way.
Quiet ==
    /\ phase = "closed" /\ owed = "none"
    /\ callback = "none" \/ pc.loop \in {"doubling", "returning"}

\* Without the race, the connection is closed wherever a thread relies on it.
ConnectionState ==
    ~raced =>
        /\ timer => Quiet /\ queue = 0 /\ pc.exec \notin {"replacing", "connecting"} \cup Stopping
        /\ pc.exec \in {"clearing", "arming", "connecting"} => Quiet
        /\ pc.exec \in {"arming", "connecting"} => queue = 0
        /\ pc.loop \in {"clearing", "arming"} => phase = "closed"
        /\ pc.loop = "arming" => queue = 0
        /\ pc.loop \in {"choosing", "chosen"} => callback = "current" /\ phase = "setup"
        /\ callback = "late" /\ phase # "closing" =>
             \/ pc.loop \in {"clearing", "arming", "doubling", "returning"}
             \/ owed = "retry"
        /\ owed = "retry" => phase = "closed"

\* The same after shutdown(), as long as no parameter revives the subscriber.
ShutdownState ==
    /\ revived => down
    /\ ~raced /\ ~revived /\ down =>
        /\ pc.exec \in {"idle"} \cup Updating \cup UpdatingCodec \cup Stopping
        /\ ~timer
        /\ pc.exec \notin {"stopping", "stopClosing"} => phase = "closed" /\ callback = "none"
        /\ pc.exec \notin Stopping => queue = 0

Fits(c) == decoder.codec = c /\ (decoder.name \in Hardware => config.hw)

\* The decoder on its way from its choice to the stream that it is for. It
\* fits as long as the two threads make their decoders one after the other.
DecoderState ==
    /\ pc.exec = "making" /\ subsession # None => crossed
    /\ ~raced /\ pc.exec = "making" /\ ~crossed => known = codec
    /\ ~raced /\ video # "Unknown" => codec = video
    /\ ~raced /\ ~crossed /\ subsession # None /\ pc.exec \notin UpdatingCodec =>
         /\ subsession.hw = config.hw
         /\ pc.loop = "chosen" => Fits(subsession.codec)
    /\ /\ ~raced /\ ~crossed /\ ~failed /\ pc.exec \notin UpdatingCodec \cup {"replacing"}
       /\ video # "Unknown" /\ phase \in {"setup", "playing"}
       => Fits(video)

IInv ==
    /\ TypeOK
    /\ LimitsInOrder
    /\ CooldownInRange
    /\ DelayState
    /\ (crashed => raced)
    /\ LoopState
    /\ ExecState
    /\ ClientState
    /\ ConnectionState
    /\ ShutdownState
    /\ DecoderState

-----------------------------------------------------------------------------

\* The range checks of updateParameters() keep a config in range, put its
\* limits in order, and leave the choice of the decoder alone.
LEMMA NormalisedConfig ==
    ASSUME NEW c \in ConfigType
    PROVE  /\ Normalised(c) \in ConfigType
           /\ Normalised(c).minwait <= Normalised(c).maxwait
           /\ Normalised(c).minwait = c.minwait /\ Normalised(c).hw = c.hw
BY DEF Normalised, ConfigType

\* A delay between the two limits stays there when it is doubled.
LEMMA LongerInRange ==
    ASSUME config \in ConfigType, NEW d \in Nat
    PROVE  /\ Longer(d) \in Nat
           /\ Longer(d) <= config.maxwait
           /\ config.minwait <= d /\ d <= config.maxwait => config.minwait <= Longer(d)
BY DEF Longer, ConfigType

\* The decoder that is chosen obeys use_hw_decoder.
LEMMA UsableObeys ==
    ASSUME NEW c, NEW hw, NEW name \in Usable(c, hw), name \in Hardware
    PROVE  hw
BY DEF Usable

\* No codec has the name that stands for none.
LEMMA CodecNames == "none" \notin Codecs \cup {"Unknown"}
BY CodecsAssumption DEF Decoders

\* Steps of reconnect() and of disconnect(), on either thread.
LEMMA ReconnectIInv ==
    ASSUME IInv, Reconnect
    PROVE  IInv'
<1> USE DEF Threads, ExecPlaces, LoopPlaces, Updating, UpdatingCodec, Limiting, Stopping, Goto,
            LoopBusy, Quiet, Fits, clientVars, timerVars, frameVars, streamVars, lifeVars
<1>1. CASE TearDown
  <2>1. Ranges'
    BY <1>1 DEF TearDown, Client!TearDown, Closing, Closed, IInv, TypeOK, Ranges, Places,
       LoopState
  <2>2. Places'
    BY <1>1 DEF TearDown, Client!TearDown, Closing, Closed, IInv, TypeOK, Places
  <2>3. Flags'
    BY <1>1 DEF TearDown, Client!TearDown, Closing, Closed, IInv, TypeOK, Flags
  <2>4. Client!SessionTypeOK'
    BY <1>1 DEF TearDown, Client!TearDown, Closing, Closed, IInv, TypeOK,
       Client!SessionTypeOK, Client!Phases, Client!Notices, Client!Callbacks
  <2>5. LimitsInOrder' /\ CooldownInRange' /\ DelayState'
    BY <1>1 DEF TearDown, Client!TearDown, Closing, Closed, IInv, TypeOK, Ranges, Places,
       Flags, LimitsInOrder, CooldownInRange, DelayState, LoopState
  <2>6. (crashed => raced)' /\ LoopState' /\ ExecState' /\ ClientState'
    BY <1>1 DEF TearDown, Client!TearDown, Closing, Closed, IInv, TypeOK, Ranges, Places,
       Client!SessionTypeOK, LoopState, ExecState, ClientState, ConnectionState
  <2>7. ConnectionState'
    BY <1>1 DEF TearDown, Client!TearDown, Closing, Closed, IInv, TypeOK, Places, Flags,
       Client!SessionTypeOK, LoopState, ExecState, ClientState, ConnectionState
  <2>8. ShutdownState'
    BY <1>1 DEF TearDown, Client!TearDown, Closing, Closed, IInv, TypeOK, Places, Flags,
       Client!SessionTypeOK, LoopState, ExecState, ClientState, ConnectionState,
       ShutdownState
  <2>9. DecoderState'
    BY <1>1 DEF TearDown, Client!TearDown, Closing, Closed, IInv, TypeOK, Ranges, Places,
       Flags, Client!SessionTypeOK, LoopState, ExecState, ClientState, ConnectionState,
       DecoderState
  <2> QED
    BY <2>1, <2>2, <2>3, <2>4, <2>5, <2>6, <2>7, <2>8, <2>9 DEF IInv, TypeOK
<1>2. CASE Close
  <2>1. Ranges'
    BY <1>2 DEF Close, Client!Close, Closed, IInv, TypeOK, Ranges, Places, LoopState
  <2>2. Places'
    BY <1>2 DEF Close, Client!Close, Closed, IInv, TypeOK, Places
  <2>3. Flags'
    BY <1>2 DEF Close, Client!Close, Closed, IInv, TypeOK, Flags
  <2>4. Client!SessionTypeOK'
    BY <1>2 DEF Close, Client!Close, Closed, IInv, TypeOK, Client!SessionTypeOK,
       Client!Phases, Client!Notices, Client!Callbacks
  <2>5. LimitsInOrder' /\ CooldownInRange' /\ DelayState'
    BY <1>2 DEF Close, Client!Close, Closed, IInv, TypeOK, Ranges, Places, Flags,
       LimitsInOrder, CooldownInRange, DelayState, LoopState
  <2>6. (crashed => raced)' /\ LoopState' /\ ExecState' /\ ClientState'
    BY <1>2 DEF Close, Client!Close, Closed, IInv, TypeOK, Ranges, Places,
       Client!SessionTypeOK, LoopState, ExecState, ClientState, ConnectionState
  <2>7. ConnectionState'
    BY <1>2 DEF Close, Client!Close, Closed, IInv, TypeOK, Places, Flags,
       Client!SessionTypeOK, LoopState, ExecState, ClientState, ConnectionState
  <2>8. ShutdownState'
    BY <1>2 DEF Close, Client!Close, Closed, IInv, TypeOK, Places, Flags,
       Client!SessionTypeOK, LoopState, ExecState, ClientState, ConnectionState,
       ShutdownState
  <2>9. DecoderState'
    BY <1>2 DEF Close, Client!Close, Closed, IInv, TypeOK, Ranges, Places, Flags,
       Client!SessionTypeOK, LoopState, ExecState, ClientState, ConnectionState, DecoderState
  <2> QED
    BY <2>1, <2>2, <2>3, <2>4, <2>5, <2>6, <2>7, <2>8, <2>9 DEF IInv, TypeOK
<1>3. CASE Drop
  <2>1. Ranges'
    BY <1>3 DEF Drop, Client!Drop, IInv, TypeOK, Ranges, Places, LoopState
  <2>2. Places'
    BY <1>3 DEF Drop, Client!Drop, IInv, TypeOK, Places
  <2>3. Flags'
    BY <1>3 DEF Drop, Client!Drop, IInv, TypeOK, Flags
  <2>4. Client!SessionTypeOK'
    BY <1>3 DEF Drop, Client!Drop, IInv, TypeOK, Client!SessionTypeOK, Client!Phases,
       Client!Notices, Client!Callbacks
  <2>5. LimitsInOrder' /\ CooldownInRange' /\ DelayState'
    BY <1>3 DEF Drop, Client!Drop, IInv, TypeOK, Ranges, Places, Flags, LimitsInOrder,
       CooldownInRange, DelayState, LoopState
  <2>6. (crashed => raced)' /\ LoopState' /\ ExecState' /\ ClientState'
    BY <1>3 DEF Drop, Client!Drop, IInv, TypeOK, Ranges, Places, Client!SessionTypeOK,
       LoopState, ExecState, ClientState, ConnectionState
  <2>7. ConnectionState'
    BY <1>3 DEF Drop, Client!Drop, IInv, TypeOK, Places, Flags, Client!SessionTypeOK,
       LoopState, ExecState, ClientState, ConnectionState
  <2>8. ShutdownState'
    BY <1>3 DEF Drop, Client!Drop, IInv, TypeOK, Places, Flags, Client!SessionTypeOK,
       LoopState, ExecState, ClientState, ConnectionState, ShutdownState
  <2>9. DecoderState'
    BY <1>3 DEF Drop, Client!Drop, IInv, TypeOK, Ranges, Places, Flags, Client!SessionTypeOK,
       LoopState, ExecState, ClientState, ConnectionState, DecoderState
  <2> QED
    BY <2>1, <2>2, <2>3, <2>4, <2>5, <2>6, <2>7, <2>8, <2>9 DEF IInv, TypeOK
<1>4. CASE \E t \in Threads : ClearQueue(t)
  <2>1. Ranges'
    BY <1>4 DEF ClearQueue, IInv, TypeOK, Ranges, Places, LoopState
  <2>2. Places'
    BY <1>4 DEF ClearQueue, IInv, TypeOK, Places
  <2>3. Flags'
    BY <1>4 DEF ClearQueue, IInv, TypeOK, Flags
  <2>4. Client!SessionTypeOK'
    BY <1>4 DEF ClearQueue, IInv, TypeOK, Client!SessionTypeOK, Client!Phases,
       Client!Notices, Client!Callbacks
  <2>5. LimitsInOrder' /\ CooldownInRange' /\ DelayState'
    BY <1>4 DEF ClearQueue, IInv, TypeOK, Ranges, Places, Flags, LimitsInOrder,
       CooldownInRange, DelayState, LoopState
  <2>6. (crashed => raced)' /\ LoopState' /\ ExecState' /\ ClientState'
    BY <1>4 DEF ClearQueue, IInv, TypeOK, Ranges, Places, Client!SessionTypeOK, LoopState,
       ExecState, ClientState, ConnectionState
  <2>7. ConnectionState'
    BY <1>4 DEF ClearQueue, IInv, TypeOK, Places, Flags, Client!SessionTypeOK, LoopState,
       ExecState, ClientState, ConnectionState
  <2>8. ShutdownState'
    BY <1>4 DEF ClearQueue, IInv, TypeOK, Places, Flags, Client!SessionTypeOK, LoopState,
       ExecState, ClientState, ConnectionState, ShutdownState
  <2>9. DecoderState'
    BY <1>4 DEF ClearQueue, IInv, TypeOK, Ranges, Places, Flags, Client!SessionTypeOK,
       LoopState, ExecState, ClientState, ConnectionState, DecoderState
  <2> QED
    BY <2>1, <2>2, <2>3, <2>4, <2>5, <2>6, <2>7, <2>8, <2>9 DEF IInv, TypeOK
<1>5. CASE \E t \in Threads : ArmTimer(t)
  <2>1. Ranges'
    BY <1>5 DEF ArmTimer, IInv, TypeOK, Ranges, Places, LoopState
  <2>2. Places'
    BY <1>5 DEF ArmTimer, IInv, TypeOK, Places
  <2>3. Flags'
    BY <1>5 DEF ArmTimer, IInv, TypeOK, Flags
  <2>4. Client!SessionTypeOK'
    BY <1>5 DEF ArmTimer, IInv, TypeOK, Client!SessionTypeOK, Client!Phases, Client!Notices,
       Client!Callbacks
  <2>5. LimitsInOrder' /\ CooldownInRange' /\ DelayState'
    BY <1>5 DEF ArmTimer, IInv, TypeOK, Ranges, Places, Flags, LimitsInOrder,
       CooldownInRange, DelayState, LoopState
  <2>6. (crashed => raced)' /\ LoopState' /\ ExecState' /\ ClientState'
    BY <1>5 DEF ArmTimer, IInv, TypeOK, Ranges, Places, Client!SessionTypeOK, LoopState,
       ExecState, ClientState, ConnectionState
  <2>7. ConnectionState'
    <3>1. PICK t \in Threads : ArmTimer(t)
      BY <1>5
    <3>2. /\ timer' = TRUE /\ pc' = [pc EXCEPT ![t] = "doubling"] /\ pc[t] = "arming"
          /\ UNCHANGED <<phase, owed, callback, queue>>
          /\ ~raced' => ~raced /\ (t = "loop" => pc.exec \notin {"replacing", "stopping"})
      BY <3>1 DEF ArmTimer, IInv, TypeOK, Flags
    <3>3. SUFFICES ASSUME ~raced' PROVE ConnectionState'
      BY DEF ConnectionState
    <3>4. ~raced /\ queue = 0 /\ phase = "closed"
      BY <3>2, <3>3 DEF IInv, ConnectionState
    <3>5. Quiet' /\ pc'.exec \notin {"replacing", "connecting"} \cup Stopping
      BY <3>2, <3>3, <3>4 DEF IInv, TypeOK, Places, Client!SessionTypeOK, LoopState, ExecState,
         ConnectionState, ShutdownState
    <3> QED
      BY <3>2, <3>4, <3>5 DEF IInv, TypeOK, Places, LoopState, ConnectionState
  <2>8. ShutdownState'
    BY <1>5 DEF ArmTimer, IInv, TypeOK, Places, Flags, Client!SessionTypeOK, LoopState,
       ExecState, ClientState, ConnectionState, ShutdownState
  <2>9. DecoderState'
    BY <1>5 DEF ArmTimer, IInv, TypeOK, Ranges, Places, Flags, Client!SessionTypeOK,
       LoopState, ExecState, ClientState, ConnectionState, DecoderState
  <2> QED
    BY <2>1, <2>2, <2>3, <2>4, <2>5, <2>6, <2>7, <2>8, <2>9 DEF IInv, TypeOK
<1>6. CASE \E t \in Threads : DoubleCooldown(t)
  <2>1. Ranges'
    BY <1>6, LongerInRange DEF DoubleCooldown, IInv, TypeOK, Ranges, Places, LoopState
  <2>2. Places'
    BY <1>6 DEF DoubleCooldown, IInv, TypeOK, Places
  <2>3. Flags'
    BY <1>6 DEF DoubleCooldown, IInv, TypeOK, Flags
  <2>4. Client!SessionTypeOK'
    BY <1>6 DEF DoubleCooldown, IInv, TypeOK, Client!SessionTypeOK, Client!Phases,
       Client!Notices, Client!Callbacks
  <2>5. LimitsInOrder' /\ CooldownInRange' /\ DelayState'
    BY <1>6, LongerInRange DEF DoubleCooldown, IInv, TypeOK, Ranges, Places, Flags,
       LimitsInOrder, CooldownInRange, DelayState, LoopState
  <2>6. (crashed => raced)' /\ LoopState' /\ ExecState' /\ ClientState'
    BY <1>6 DEF DoubleCooldown, IInv, TypeOK, Ranges, Places, Client!SessionTypeOK,
       LoopState, ExecState, ClientState, ConnectionState
  <2>7. ConnectionState'
    BY <1>6 DEF DoubleCooldown, IInv, TypeOK, Places, Flags, Client!SessionTypeOK, LoopState,
       ExecState, ClientState, ConnectionState
  <2>8. ShutdownState'
    BY <1>6 DEF DoubleCooldown, IInv, TypeOK, Places, Flags, Client!SessionTypeOK, LoopState,
       ExecState, ClientState, ConnectionState, ShutdownState
  <2>9. DecoderState'
    BY <1>6 DEF DoubleCooldown, IInv, TypeOK, Ranges, Places, Flags, Client!SessionTypeOK,
       LoopState, ExecState, ClientState, ConnectionState, DecoderState
  <2> QED
    BY <2>1, <2>2, <2>3, <2>4, <2>5, <2>6, <2>7, <2>8, <2>9 DEF IInv, TypeOK
<1> QED
  BY <1>1, <1>2, <1>3, <1>4, <1>5, <1>6 DEF Reconnect

\* Steps of the event loop between two notifications.
LEMMA LoopIInv ==
    ASSUME IInv, Loop
    PROVE  IInv'
<1> USE DEF Threads, ExecPlaces, LoopPlaces, Updating, UpdatingCodec, Limiting, Stopping, Goto,
            LoopBusy, Quiet, Fits, clientVars, timerVars, frameVars, streamVars, lifeVars
<1>1. CASE ClientEvent
  <2>1. Ranges'
    BY <1>1 DEF ClientEvent, LoopIdle, Client!InCurrent, Client!Play, Client!Reopen,
       Client!Enter, Client!Leave, Client!Fail, Client!Finish, Client!Stall, Client!Swallow,
       Client!Late, IInv, TypeOK, Ranges, Places, LoopState
  <2>2. Places'
    BY <1>1 DEF ClientEvent, LoopIdle, Client!InCurrent, Client!Play, Client!Reopen,
       Client!Enter, Client!Leave, Client!Fail, Client!Finish, Client!Stall, Client!Swallow,
       Client!Late, IInv, TypeOK, Places
  <2>3. Flags'
    BY <1>1 DEF ClientEvent, LoopIdle, Client!InCurrent, Client!Play, Client!Reopen,
       Client!Enter, Client!Leave, Client!Fail, Client!Finish, Client!Stall, Client!Swallow,
       Client!Late, IInv, TypeOK, Flags
  <2>4. Client!SessionTypeOK'
    BY <1>1 DEF ClientEvent, LoopIdle, Client!InCurrent, Client!Play, Client!Reopen,
       Client!Enter, Client!Leave, Client!Fail, Client!Finish, Client!Stall, Client!Swallow,
       Client!Late, IInv, TypeOK, Client!SessionTypeOK, Client!Phases, Client!Notices,
       Client!Callbacks
  <2>5. LimitsInOrder' /\ CooldownInRange' /\ DelayState'
    BY <1>1 DEF ClientEvent, LoopIdle, Client!InCurrent, Client!Play, Client!Reopen,
       Client!Enter, Client!Leave, Client!Fail, Client!Finish, Client!Stall, Client!Swallow,
       Client!Late, IInv, TypeOK, Ranges, Places, Flags, LimitsInOrder, CooldownInRange,
       DelayState, LoopState
  <2>6. (crashed => raced)' /\ LoopState' /\ ExecState' /\ ClientState'
    BY <1>1 DEF ClientEvent, LoopIdle, Client!InCurrent, Client!Play, Client!Reopen,
       Client!Enter, Client!Leave, Client!Fail, Client!Finish, Client!Stall, Client!Swallow,
       Client!Late, IInv, TypeOK, Ranges, Places, Client!SessionTypeOK, LoopState, ExecState,
       ClientState, ConnectionState
  <2>7. ConnectionState'
    BY <1>1 DEF ClientEvent, LoopIdle, Client!InCurrent, Client!Play, Client!Reopen,
       Client!Enter, Client!Leave, Client!Fail, Client!Finish, Client!Stall, Client!Swallow,
       Client!Late, IInv, TypeOK, Places, Flags, Client!SessionTypeOK, LoopState, ExecState,
       ClientState, ConnectionState
  <2>8. ShutdownState'
    BY <1>1 DEF ClientEvent, LoopIdle, Client!InCurrent, Client!Play, Client!Reopen,
       Client!Enter, Client!Leave, Client!Fail, Client!Finish, Client!Stall, Client!Swallow,
       Client!Late, IInv, TypeOK, Places, Flags, Client!SessionTypeOK, LoopState, ExecState,
       ClientState, ConnectionState, ShutdownState
  <2>9. DecoderState'
    BY <1>1 DEF ClientEvent, LoopIdle, Client!InCurrent, Client!Play, Client!Reopen,
       Client!Enter, Client!Leave, Client!Fail, Client!Finish, Client!Stall, Client!Swallow,
       Client!Late, IInv, TypeOK, Ranges, Places, Flags, Client!SessionTypeOK, LoopState,
       ExecState, ClientState, ConnectionState, DecoderState
  <2> QED
    BY <2>1, <2>2, <2>3, <2>4, <2>5, <2>6, <2>7, <2>8, <2>9 DEF IInv, TypeOK
<1>2. CASE Return
  <2>1. Ranges'
    BY <1>2 DEF Return, Client!Leave, IInv, TypeOK, Ranges, Places, LoopState
  <2>2. Places'
    BY <1>2 DEF Return, Client!Leave, IInv, TypeOK, Places
  <2>3. Flags'
    BY <1>2 DEF Return, Client!Leave, IInv, TypeOK, Flags
  <2>4. Client!SessionTypeOK'
    BY <1>2 DEF Return, Client!Leave, IInv, TypeOK, Client!SessionTypeOK, Client!Phases,
       Client!Notices, Client!Callbacks
  <2>5. LimitsInOrder' /\ CooldownInRange' /\ DelayState'
    BY <1>2 DEF Return, Client!Leave, IInv, TypeOK, Ranges, Places, Flags, LimitsInOrder,
       CooldownInRange, DelayState, LoopState
  <2>6. (crashed => raced)' /\ LoopState' /\ ExecState' /\ ClientState'
    BY <1>2 DEF Return, Client!Leave, IInv, TypeOK, Ranges, Places, Client!SessionTypeOK,
       LoopState, ExecState, ClientState, ConnectionState
  <2>7. ConnectionState'
    BY <1>2 DEF Return, Client!Leave, IInv, TypeOK, Places, Flags, Client!SessionTypeOK,
       LoopState, ExecState, ClientState, ConnectionState
  <2>8. ShutdownState'
    BY <1>2 DEF Return, Client!Leave, IInv, TypeOK, Places, Flags, Client!SessionTypeOK,
       LoopState, ExecState, ClientState, ConnectionState, ShutdownState
  <2>9. DecoderState'
    BY <1>2 DEF Return, Client!Leave, IInv, TypeOK, Ranges, Places, Flags,
       Client!SessionTypeOK, LoopState, ExecState, ClientState, ConnectionState, DecoderState
  <2> QED
    BY <2>1, <2>2, <2>3, <2>4, <2>5, <2>6, <2>7, <2>8, <2>9 DEF IInv, TypeOK
<1>3. CASE RetryThrows \/ UseAfterClose
  <2>1. Ranges'
    BY <1>3 DEF RetryThrows, UseAfterClose, LoopIdle, IInv, TypeOK, Ranges, Places, LoopState
  <2>2. Places'
    BY <1>3 DEF RetryThrows, UseAfterClose, LoopIdle, IInv, TypeOK, Places
  <2>3. Flags'
    BY <1>3 DEF RetryThrows, UseAfterClose, LoopIdle, IInv, TypeOK, Flags
  <2>4. Client!SessionTypeOK'
    BY <1>3 DEF RetryThrows, UseAfterClose, LoopIdle, IInv, TypeOK, Client!SessionTypeOK,
       Client!Phases, Client!Notices, Client!Callbacks
  <2>5. LimitsInOrder' /\ CooldownInRange' /\ DelayState'
    BY <1>3 DEF RetryThrows, UseAfterClose, LoopIdle, IInv, TypeOK, Ranges, Places, Flags,
       LimitsInOrder, CooldownInRange, DelayState, LoopState
  <2>6. (crashed => raced)' /\ LoopState' /\ ExecState' /\ ClientState'
    BY <1>3 DEF RetryThrows, UseAfterClose, LoopIdle, IInv, TypeOK, Ranges, Places,
       Client!SessionTypeOK, LoopState, ExecState, ClientState, ConnectionState
  <2>7. ConnectionState'
    BY <1>3 DEF RetryThrows, UseAfterClose, LoopIdle, IInv, TypeOK, Places, Flags,
       Client!SessionTypeOK, LoopState, ExecState, ClientState, ConnectionState
  <2>8. ShutdownState'
    BY <1>3 DEF RetryThrows, UseAfterClose, LoopIdle, IInv, TypeOK, Places, Flags,
       Client!SessionTypeOK, LoopState, ExecState, ClientState, ConnectionState,
       ShutdownState
  <2>9. DecoderState'
    BY <1>3 DEF RetryThrows, UseAfterClose, LoopIdle, IInv, TypeOK, Ranges, Places, Flags,
       Client!SessionTypeOK, LoopState, ExecState, ClientState, ConnectionState, DecoderState
  <2> QED
    BY <2>1, <2>2, <2>3, <2>4, <2>5, <2>6, <2>7, <2>8, <2>9 DEF IInv, TypeOK
<1>4. CASE ReceiveDataStream
  <2>1. Ranges'
    BY <1>4 DEF ReceiveDataStream, LoopIdle, IInv, TypeOK, Ranges, Places, LoopState
  <2>2. Places'
    BY <1>4 DEF ReceiveDataStream, LoopIdle, IInv, TypeOK, Places
  <2>3. Flags'
    BY <1>4 DEF ReceiveDataStream, LoopIdle, IInv, TypeOK, Flags
  <2>4. Client!SessionTypeOK'
    BY <1>4 DEF ReceiveDataStream, LoopIdle, IInv, TypeOK, Client!SessionTypeOK,
       Client!Phases, Client!Notices, Client!Callbacks
  <2>5. LimitsInOrder' /\ CooldownInRange' /\ DelayState'
    BY <1>4 DEF ReceiveDataStream, LoopIdle, IInv, TypeOK, Ranges, Places, Flags,
       LimitsInOrder, CooldownInRange, DelayState, LoopState
  <2>6. (crashed => raced)' /\ LoopState' /\ ExecState' /\ ClientState'
    BY <1>4 DEF ReceiveDataStream, LoopIdle, IInv, TypeOK, Ranges, Places,
       Client!SessionTypeOK, LoopState, ExecState, ClientState, ConnectionState
  <2>7. ConnectionState'
    BY <1>4 DEF ReceiveDataStream, LoopIdle, IInv, TypeOK, Places, Flags,
       Client!SessionTypeOK, LoopState, ExecState, ClientState, ConnectionState
  <2>8. ShutdownState'
    BY <1>4 DEF ReceiveDataStream, LoopIdle, IInv, TypeOK, Places, Flags,
       Client!SessionTypeOK, LoopState, ExecState, ClientState, ConnectionState,
       ShutdownState
  <2>9. DecoderState'
    BY <1>4 DEF ReceiveDataStream, LoopIdle, IInv, TypeOK, Ranges, Places, Flags,
       Client!SessionTypeOK, LoopState, ExecState, ClientState, ConnectionState, DecoderState
  <2> QED
    BY <2>1, <2>2, <2>3, <2>4, <2>5, <2>6, <2>7, <2>8, <2>9 DEF IInv, TypeOK
<1>5. CASE \E c \in Codecs : SubsessionStarted(c)
  <2>1. Ranges'
    BY <1>5 DEF SubsessionStarted, LoopIdle, None, IInv, TypeOK, Ranges, Places, LoopState
  <2>2. Places'
    BY <1>5 DEF SubsessionStarted, LoopIdle, None, IInv, TypeOK, Places
  <2>3. Flags'
    BY <1>5 DEF SubsessionStarted, LoopIdle, None, IInv, TypeOK, Flags
  <2>4. Client!SessionTypeOK'
    BY <1>5 DEF SubsessionStarted, LoopIdle, None, IInv, TypeOK, Client!SessionTypeOK,
       Client!Phases, Client!Notices, Client!Callbacks
  <2>5. LimitsInOrder' /\ CooldownInRange' /\ DelayState'
    BY <1>5 DEF SubsessionStarted, LoopIdle, None, IInv, TypeOK, Ranges, Places, Flags,
       LimitsInOrder, CooldownInRange, DelayState, LoopState
  <2>6. (crashed => raced)' /\ LoopState' /\ ExecState' /\ ClientState'
    BY <1>5 DEF SubsessionStarted, LoopIdle, None, IInv, TypeOK, Ranges, Places,
       Client!SessionTypeOK, LoopState, ExecState, ClientState, ConnectionState
  <2>7. ConnectionState'
    <3>1. /\ pc' = [pc EXCEPT !.loop = "choosing"] /\ pc.loop = "idle"
          /\ UNCHANGED <<phase, owed, callback, timer, queue>> /\ owed = "none"
          /\ callback # "none" /\ (callback = "current" => phase = "setup")
      BY <1>5 DEF SubsessionStarted, LoopIdle
    <3>2. ~raced' => ~raced /\ callback # "late"
      BY <1>5 DEF SubsessionStarted
    <3> QED
      BY <3>1, <3>2 DEF IInv, TypeOK, Places, Flags, Client!SessionTypeOK, Client!Callbacks,
         ConnectionState
  <2>8. ShutdownState'
    BY <1>5 DEF SubsessionStarted, LoopIdle, None, IInv, TypeOK, Places, Flags,
       Client!SessionTypeOK, LoopState, ExecState, ClientState, ConnectionState,
       ShutdownState
  <2>9. DecoderState'
    <3>1. PICK c \in Codecs : SubsessionStarted(c)
      BY <1>5
    <3>2. /\ pc' = [pc EXCEPT !.loop = "choosing"]
          /\ subsession' = [codec |-> c, hw |-> config.hw]
          /\ UNCHANGED <<phase, callback, codec, video, known, config, decoder, failed>>
          /\ callback # "none" /\ (callback = "current" => video = "Unknown")
          /\ crossed' = (known # "none")
      BY <3>1 DEF SubsessionStarted, LoopIdle
    <3>3. ~raced' => ~raced /\ callback # "late"
      BY <3>1 DEF SubsessionStarted
    <3>4. ~raced' => video = "Unknown"
      BY <3>2, <3>3 DEF IInv, TypeOK, Client!SessionTypeOK, Client!Callbacks
    <3>5. crossed' <=> pc.exec = "making"
      BY <3>2 DEF IInv, ExecState
    <3>6. pc'.exec = pc.exec /\ pc'.loop = "choosing" /\ subsession'.hw = config.hw
      BY <3>2 DEF IInv, TypeOK, Places
    <3> QED
      BY <3>2, <3>3, <3>4, <3>5, <3>6 DEF DecoderState
  <2> QED
    BY <2>1, <2>2, <2>3, <2>4, <2>5, <2>6, <2>7, <2>8, <2>9 DEF IInv, TypeOK
<1>6. CASE InstallDecoder
  <2>1. Ranges'
    BY <1>6 DEF InstallDecoder, None, IInv, TypeOK, Ranges, Places, LoopState
  <2>2. Places'
    BY <1>6 DEF InstallDecoder, None, IInv, TypeOK, Places
  <2>3. Flags'
    BY <1>6 DEF InstallDecoder, None, IInv, TypeOK, Flags
  <2>4. Client!SessionTypeOK'
    BY <1>6 DEF InstallDecoder, None, IInv, TypeOK, Client!SessionTypeOK, Client!Phases,
       Client!Notices, Client!Callbacks
  <2>5. LimitsInOrder' /\ CooldownInRange' /\ DelayState'
    BY <1>6 DEF InstallDecoder, None, IInv, TypeOK, Ranges, Places, Flags, LimitsInOrder,
       CooldownInRange, DelayState, LoopState
  <2>6. (crashed => raced)' /\ LoopState' /\ ExecState' /\ ClientState'
    BY <1>6 DEF InstallDecoder, None, IInv, TypeOK, Ranges, Places, Client!SessionTypeOK,
       LoopState, ExecState, ClientState, ConnectionState
  <2>7. ConnectionState'
    BY <1>6 DEF InstallDecoder, None, IInv, TypeOK, Places, Flags, Client!SessionTypeOK,
       LoopState, ExecState, ClientState, ConnectionState
  <2>8. ShutdownState'
    BY <1>6 DEF InstallDecoder, None, IInv, TypeOK, Places, Flags, Client!SessionTypeOK,
       LoopState, ExecState, ClientState, ConnectionState, ShutdownState
  <2>9. DecoderState'
    BY <1>6, UsableObeys DEF InstallDecoder, None, IInv, TypeOK, Ranges, Places, Flags,
       Client!SessionTypeOK, LoopState, ExecState, ClientState, ConnectionState, DecoderState
  <2> QED
    BY <2>1, <2>2, <2>3, <2>4, <2>5, <2>6, <2>7, <2>8, <2>9 DEF IInv, TypeOK
<1>7. CASE StartSink
  <2>1. Ranges'
    BY <1>7 DEF StartSink, CodecOfStream, IInv, TypeOK, Ranges, Places, LoopState
  <2>2. Places'
    BY <1>7 DEF StartSink, CodecOfStream, IInv, TypeOK, Places
  <2>3. Flags'
    BY <1>7 DEF StartSink, CodecOfStream, IInv, TypeOK, Flags
  <2>4. Client!SessionTypeOK'
    BY <1>7 DEF StartSink, CodecOfStream, IInv, TypeOK, Client!SessionTypeOK, Client!Phases,
       Client!Notices, Client!Callbacks
  <2>5. LimitsInOrder' /\ CooldownInRange' /\ DelayState'
    BY <1>7 DEF StartSink, CodecOfStream, IInv, TypeOK, Ranges, Places, Flags, LimitsInOrder,
       CooldownInRange, DelayState, LoopState
  <2>6. (crashed => raced)' /\ LoopState' /\ ExecState' /\ ClientState'
    BY <1>7 DEF StartSink, CodecOfStream, IInv, TypeOK, Ranges, Places, Client!SessionTypeOK,
       LoopState, ExecState, ClientState, ConnectionState
  <2>7. ConnectionState'
    BY <1>7 DEF StartSink, CodecOfStream, IInv, TypeOK, Places, Flags, Client!SessionTypeOK,
       LoopState, ExecState, ClientState, ConnectionState
  <2>8. ShutdownState'
    BY <1>7 DEF StartSink, CodecOfStream, IInv, TypeOK, Places, Flags, Client!SessionTypeOK,
       LoopState, ExecState, ClientState, ConnectionState, ShutdownState
  <2>9. DecoderState'
    BY <1>7 DEF StartSink, CodecOfStream, IInv, TypeOK, Ranges, Places, Flags,
       Client!SessionTypeOK, LoopState, ExecState, ClientState, ConnectionState, DecoderState
  <2> QED
    BY <2>1, <2>2, <2>3, <2>4, <2>5, <2>6, <2>7, <2>8, <2>9 DEF IInv, TypeOK
<1> QED
  BY <1>1, <1>2, <1>3, <1>4, <1>5, <1>6, <1>7 DEF Loop

\* The notifications.
LEMMA HandlersIInv ==
    ASSUME IInv, Handlers
    PROVE  IInv'
<1> USE DEF Threads, ExecPlaces, LoopPlaces, Updating, UpdatingCodec, Limiting, Stopping, Goto,
            LoopBusy, Quiet, Fits, clientVars, timerVars, frameVars, streamVars, lifeVars
<1>1. CASE SessionStarted
  <2>1. Ranges'
    BY <1>1 DEF SessionStarted, LoopIdle, StopTimer, ConfigType, IInv, TypeOK, Ranges,
       Places, LoopState
  <2>2. Places'
    BY <1>1 DEF SessionStarted, LoopIdle, StopTimer, ConfigType, IInv, TypeOK, Places
  <2>3. Flags'
    BY <1>1 DEF SessionStarted, LoopIdle, StopTimer, ConfigType, IInv, TypeOK, Flags
  <2>4. Client!SessionTypeOK'
    BY <1>1 DEF SessionStarted, LoopIdle, StopTimer, ConfigType, IInv, TypeOK,
       Client!SessionTypeOK, Client!Phases, Client!Notices, Client!Callbacks
  <2>5. LimitsInOrder' /\ CooldownInRange' /\ DelayState'
    BY <1>1 DEF SessionStarted, LoopIdle, StopTimer, ConfigType, IInv, TypeOK, Ranges,
       Places, Flags, LimitsInOrder, CooldownInRange, DelayState, LoopState
  <2>6. (crashed => raced)' /\ LoopState' /\ ExecState' /\ ClientState'
    BY <1>1 DEF SessionStarted, LoopIdle, StopTimer, ConfigType, IInv, TypeOK, Ranges,
       Places, Client!SessionTypeOK, LoopState, ExecState, ClientState, ConnectionState
  <2>7. ConnectionState'
    BY <1>1 DEF SessionStarted, LoopIdle, StopTimer, ConfigType, IInv, TypeOK, Places, Flags,
       Client!SessionTypeOK, LoopState, ExecState, ClientState, ConnectionState
  <2>8. ShutdownState'
    BY <1>1 DEF SessionStarted, LoopIdle, StopTimer, ConfigType, IInv, TypeOK, Places, Flags,
       Client!SessionTypeOK, LoopState, ExecState, ClientState, ConnectionState,
       ShutdownState
  <2>9. DecoderState'
    BY <1>1 DEF SessionStarted, LoopIdle, StopTimer, ConfigType, IInv, TypeOK, Ranges,
       Places, Flags, Client!SessionTypeOK, LoopState, ExecState, ClientState,
       ConnectionState, DecoderState
  <2> QED
    BY <2>1, <2>2, <2>3, <2>4, <2>5, <2>6, <2>7, <2>8, <2>9 DEF IInv, TypeOK
<1>2. CASE SessionEnded
  <2>1. Ranges'
    BY <1>2 DEF SessionEnded, LoopIdle, Threshold, IInv, TypeOK, Ranges, Places, LoopState
  <2>2. Places'
    BY <1>2 DEF SessionEnded, LoopIdle, Threshold, IInv, TypeOK, Places
  <2>3. Flags'
    BY <1>2 DEF SessionEnded, LoopIdle, Threshold, IInv, TypeOK, Flags
  <2>4. Client!SessionTypeOK'
    BY <1>2 DEF SessionEnded, LoopIdle, Threshold, IInv, TypeOK, Client!SessionTypeOK,
       Client!Phases, Client!Notices, Client!Callbacks
  <2>5. LimitsInOrder' /\ CooldownInRange' /\ DelayState'
    BY <1>2 DEF SessionEnded, LoopIdle, Threshold, IInv, TypeOK, Ranges, Places, Flags,
       LimitsInOrder, CooldownInRange, DelayState, LoopState
  <2>6. (crashed => raced)' /\ LoopState' /\ ExecState' /\ ClientState'
    BY <1>2 DEF SessionEnded, LoopIdle, Threshold, IInv, TypeOK, Ranges, Places,
       Client!SessionTypeOK, LoopState, ExecState, ClientState, ConnectionState
  <2>7. ConnectionState'
    BY <1>2 DEF SessionEnded, LoopIdle, Threshold, IInv, TypeOK, Places, Flags,
       Client!SessionTypeOK, LoopState, ExecState, ClientState, ConnectionState
  <2>8. ShutdownState'
    BY <1>2 DEF SessionEnded, LoopIdle, Threshold, IInv, TypeOK, Places, Flags,
       Client!SessionTypeOK, LoopState, ExecState, ClientState, ConnectionState,
       ShutdownState
  <2>9. DecoderState'
    BY <1>2 DEF SessionEnded, LoopIdle, Threshold, IInv, TypeOK, Ranges, Places, Flags,
       Client!SessionTypeOK, LoopState, ExecState, ClientState, ConnectionState, DecoderState
  <2> QED
    BY <2>1, <2>2, <2>3, <2>4, <2>5, <2>6, <2>7, <2>8, <2>9 DEF IInv, TypeOK
<1> QED
  BY <1>1, <1>2 DEF Handlers

\* updateParameters().
LEMMA ParametersIInv ==
    ASSUME IInv, Parameters
    PROVE  IInv'
<1> USE DEF Threads, ExecPlaces, LoopPlaces, Updating, UpdatingCodec, Limiting, Stopping, Goto,
            LoopBusy, Quiet, Fits, clientVars, timerVars, frameVars, streamVars, lifeVars
<1>1. CASE \E c \in Configs : UpdateParameters(c)
  <2>1. Ranges'
    BY <1>1, ConfigsAssumption DEF UpdateParameters, ExecIdle, IInv, TypeOK, Ranges, Places,
       LoopState
  <2>2. Places'
    BY <1>1 DEF UpdateParameters, ExecIdle, IInv, TypeOK, Places
  <2>3. Flags'
    BY <1>1 DEF UpdateParameters, ExecIdle, IInv, TypeOK, Flags
  <2>4. Client!SessionTypeOK'
    BY <1>1 DEF UpdateParameters, ExecIdle, IInv, TypeOK, Client!SessionTypeOK,
       Client!Phases, Client!Notices, Client!Callbacks
  <2>5. LimitsInOrder' /\ CooldownInRange' /\ DelayState'
    BY <1>1, ConfigsAssumption DEF UpdateParameters, ExecIdle, IInv, TypeOK, Ranges, Places,
       Flags, LimitsInOrder, CooldownInRange, DelayState, LoopState
  <2>6. (crashed => raced)' /\ LoopState' /\ ExecState' /\ ClientState'
    BY <1>1 DEF UpdateParameters, ExecIdle, IInv, TypeOK, Ranges, Places,
       Client!SessionTypeOK, LoopState, ExecState, ClientState, ConnectionState
  <2>7. ConnectionState'
    BY <1>1 DEF UpdateParameters, ExecIdle, IInv, TypeOK, Places, Flags,
       Client!SessionTypeOK, LoopState, ExecState, ClientState, ConnectionState
  <2>8. ShutdownState'
    BY <1>1 DEF UpdateParameters, ExecIdle, IInv, TypeOK, Places, Flags,
       Client!SessionTypeOK, LoopState, ExecState, ClientState, ConnectionState,
       ShutdownState
  <2>9. DecoderState'
    BY <1>1, ConfigsAssumption DEF UpdateParameters, ExecIdle, IInv, TypeOK, Ranges, Places,
       Flags, Client!SessionTypeOK, LoopState, ExecState, ClientState, ConnectionState,
       DecoderState
  <2> QED
    BY <2>1, <2>2, <2>3, <2>4, <2>5, <2>6, <2>7, <2>8, <2>9 DEF IInv, TypeOK
<1>2. CASE ResetCooldown
  <2>1. Ranges'
    BY <1>2 DEF ResetCooldown, ConfigType, IInv, TypeOK, Ranges, Places, LoopState
  <2>2. Places'
    BY <1>2 DEF ResetCooldown, ConfigType, IInv, TypeOK, Places
  <2>3. Flags'
    BY <1>2 DEF ResetCooldown, ConfigType, IInv, TypeOK, Flags
  <2>4. Client!SessionTypeOK'
    BY <1>2 DEF ResetCooldown, ConfigType, IInv, TypeOK, Client!SessionTypeOK, Client!Phases,
       Client!Notices, Client!Callbacks
  <2>5. LimitsInOrder' /\ CooldownInRange' /\ DelayState'
    BY <1>2 DEF ResetCooldown, ConfigType, IInv, TypeOK, Ranges, Places, Flags,
       LimitsInOrder, CooldownInRange, DelayState, LoopState
  <2>6. (crashed => raced)' /\ LoopState' /\ ExecState' /\ ClientState'
    BY <1>2 DEF ResetCooldown, ConfigType, IInv, TypeOK, Ranges, Places,
       Client!SessionTypeOK, LoopState, ExecState, ClientState, ConnectionState
  <2>7. ConnectionState'
    BY <1>2 DEF ResetCooldown, ConfigType, IInv, TypeOK, Places, Flags, Client!SessionTypeOK,
       LoopState, ExecState, ClientState, ConnectionState
  <2>8. ShutdownState'
    BY <1>2 DEF ResetCooldown, ConfigType, IInv, TypeOK, Places, Flags, Client!SessionTypeOK,
       LoopState, ExecState, ClientState, ConnectionState, ShutdownState
  <2>9. DecoderState'
    BY <1>2 DEF ResetCooldown, ConfigType, IInv, TypeOK, Ranges, Places, Flags,
       Client!SessionTypeOK, LoopState, ExecState, ClientState, ConnectionState, DecoderState
  <2> QED
    BY <2>1, <2>2, <2>3, <2>4, <2>5, <2>6, <2>7, <2>8, <2>9 DEF IInv, TypeOK
<1>3. CASE LimitDelays
  <2>1. Ranges'
    BY <1>3, NormalisedConfig DEF LimitDelays, IInv, TypeOK, Ranges, Places, LoopState
  <2>2. Places'
    BY <1>3 DEF LimitDelays, IInv, TypeOK, Places
  <2>3. Flags'
    BY <1>3 DEF LimitDelays, IInv, TypeOK, Flags
  <2>4. Client!SessionTypeOK'
    BY <1>3 DEF LimitDelays, IInv, TypeOK, Client!SessionTypeOK, Client!Phases,
       Client!Notices, Client!Callbacks
  <2>5. LimitsInOrder' /\ CooldownInRange' /\ DelayState'
    BY <1>3, NormalisedConfig DEF LimitDelays, IInv, TypeOK, Ranges, Places, Flags,
       LimitsInOrder, CooldownInRange, DelayState, LoopState
  <2>6. (crashed => raced)' /\ LoopState' /\ ExecState' /\ ClientState'
    BY <1>3 DEF LimitDelays, IInv, TypeOK, Ranges, Places, Client!SessionTypeOK, LoopState,
       ExecState, ClientState, ConnectionState
  <2>7. ConnectionState'
    BY <1>3 DEF LimitDelays, IInv, TypeOK, Places, Flags, Client!SessionTypeOK, LoopState,
       ExecState, ClientState, ConnectionState
  <2>8. ShutdownState'
    BY <1>3 DEF LimitDelays, IInv, TypeOK, Places, Flags, Client!SessionTypeOK, LoopState,
       ExecState, ClientState, ConnectionState, ShutdownState
  <2>9. DecoderState'
    BY <1>3, NormalisedConfig DEF LimitDelays, IInv, TypeOK, Ranges, Places, Flags,
       Client!SessionTypeOK, LoopState, ExecState, ClientState, ConnectionState, DecoderState
  <2> QED
    BY <2>1, <2>2, <2>3, <2>4, <2>5, <2>6, <2>7, <2>8, <2>9 DEF IInv, TypeOK
<1>4. CASE ReadCodec
  <2>1. Ranges'
    BY <1>4 DEF ReadCodec, IInv, TypeOK, Ranges, Places, LoopState
  <2>2. Places'
    BY <1>4 DEF ReadCodec, IInv, TypeOK, Places
  <2>3. Flags'
    BY <1>4 DEF ReadCodec, IInv, TypeOK, Flags
  <2>4. Client!SessionTypeOK'
    BY <1>4 DEF ReadCodec, IInv, TypeOK, Client!SessionTypeOK, Client!Phases, Client!Notices,
       Client!Callbacks
  <2>5. LimitsInOrder' /\ CooldownInRange' /\ DelayState'
    BY <1>4 DEF ReadCodec, IInv, TypeOK, Ranges, Places, Flags, LimitsInOrder,
       CooldownInRange, DelayState, LoopState
  <2>6. (crashed => raced)' /\ LoopState' /\ ExecState' /\ ClientState'
    BY <1>4, CodecNames DEF ReadCodec, IInv, TypeOK, Ranges, Places, Client!SessionTypeOK,
       LoopState, ExecState, ClientState, ConnectionState
  <2>7. ConnectionState'
    BY <1>4 DEF ReadCodec, IInv, TypeOK, Places, Flags, Client!SessionTypeOK, LoopState,
       ExecState, ClientState, ConnectionState
  <2>8. ShutdownState'
    BY <1>4 DEF ReadCodec, IInv, TypeOK, Places, Flags, Client!SessionTypeOK, LoopState,
       ExecState, ClientState, ConnectionState, ShutdownState
  <2>9. DecoderState'
    BY <1>4 DEF ReadCodec, IInv, TypeOK, Ranges, Places, Flags, Client!SessionTypeOK,
       LoopState, ExecState, ClientState, ConnectionState, DecoderState
  <2> QED
    BY <2>1, <2>2, <2>3, <2>4, <2>5, <2>6, <2>7, <2>8, <2>9 DEF IInv, TypeOK
<1>5. CASE ReplaceDecoder
  <2>1. Ranges'
    BY <1>5 DEF ReplaceDecoder, GiveUp, IInv, TypeOK, Ranges, Places, LoopState
  <2>2. Places'
    BY <1>5 DEF ReplaceDecoder, GiveUp, IInv, TypeOK, Places
  <2>3. Flags'
    BY <1>5 DEF ReplaceDecoder, GiveUp, IInv, TypeOK, Flags
  <2>4. Client!SessionTypeOK'
    BY <1>5 DEF ReplaceDecoder, GiveUp, IInv, TypeOK, Client!SessionTypeOK, Client!Phases,
       Client!Notices, Client!Callbacks
  <2>5. LimitsInOrder' /\ CooldownInRange' /\ DelayState'
    BY <1>5 DEF ReplaceDecoder, GiveUp, IInv, TypeOK, Ranges, Places, Flags, LimitsInOrder,
       CooldownInRange, DelayState, LoopState
  <2>6. (crashed => raced)' /\ LoopState' /\ ExecState' /\ ClientState'
    BY <1>5 DEF ReplaceDecoder, GiveUp, IInv, TypeOK, Ranges, Places, Client!SessionTypeOK,
       LoopState, ExecState, ClientState, ConnectionState
  <2>7. ConnectionState'
    BY <1>5 DEF ReplaceDecoder, GiveUp, IInv, TypeOK, Places, Flags, Client!SessionTypeOK,
       LoopState, ExecState, ClientState, ConnectionState
  <2>8. ShutdownState'
    BY <1>5 DEF ReplaceDecoder, GiveUp, IInv, TypeOK, Places, Flags, Client!SessionTypeOK,
       LoopState, ExecState, ClientState, ConnectionState, ShutdownState
  <2>9. DecoderState'
    BY <1>5, UsableObeys DEF ReplaceDecoder, GiveUp, IInv, TypeOK, Ranges, Places, Flags,
       Client!SessionTypeOK, LoopState, ExecState, ClientState, ConnectionState, DecoderState
  <2> QED
    BY <2>1, <2>2, <2>3, <2>4, <2>5, <2>6, <2>7, <2>8, <2>9 DEF IInv, TypeOK
<1> QED
  BY <1>1, <1>2, <1>3, <1>4, <1>5 DEF Parameters

\* The other steps of the executor.
LEMMA ExecIInv ==
    ASSUME IInv, Exec
    PROVE  IInv'
<1> USE DEF Threads, ExecPlaces, LoopPlaces, Updating, UpdatingCodec, Limiting, Stopping, Goto,
            LoopBusy, Quiet, Fits, clientVars, timerVars, frameVars, streamVars, lifeVars
<1>1. CASE ReceiveUrl
  <2>1. Ranges'
    BY <1>1 DEF ReceiveUrl, ExecIdle, StopTimer, ConfigType, IInv, TypeOK, Ranges, Places,
       LoopState
  <2>2. Places'
    BY <1>1 DEF ReceiveUrl, ExecIdle, StopTimer, ConfigType, IInv, TypeOK, Places
  <2>3. Flags'
    BY <1>1 DEF ReceiveUrl, ExecIdle, StopTimer, ConfigType, IInv, TypeOK, Flags
  <2>4. Client!SessionTypeOK'
    BY <1>1 DEF ReceiveUrl, ExecIdle, StopTimer, ConfigType, IInv, TypeOK,
       Client!SessionTypeOK, Client!Phases, Client!Notices, Client!Callbacks
  <2>5. LimitsInOrder' /\ CooldownInRange' /\ DelayState'
    BY <1>1 DEF ReceiveUrl, ExecIdle, StopTimer, ConfigType, IInv, TypeOK, Ranges, Places,
       Flags, LimitsInOrder, CooldownInRange, DelayState, LoopState
  <2>6. (crashed => raced)' /\ LoopState' /\ ExecState' /\ ClientState'
    BY <1>1 DEF ReceiveUrl, ExecIdle, StopTimer, ConfigType, IInv, TypeOK, Ranges, Places,
       Client!SessionTypeOK, LoopState, ExecState, ClientState, ConnectionState
  <2>7. ConnectionState'
    BY <1>1 DEF ReceiveUrl, ExecIdle, StopTimer, ConfigType, IInv, TypeOK, Places, Flags,
       Client!SessionTypeOK, LoopState, ExecState, ClientState, ConnectionState
  <2>8. ShutdownState'
    BY <1>1 DEF ReceiveUrl, ExecIdle, StopTimer, ConfigType, IInv, TypeOK, Places, Flags,
       Client!SessionTypeOK, LoopState, ExecState, ClientState, ConnectionState,
       ShutdownState
  <2>9. DecoderState'
    BY <1>1 DEF ReceiveUrl, ExecIdle, StopTimer, ConfigType, IInv, TypeOK, Ranges, Places,
       Flags, Client!SessionTypeOK, LoopState, ExecState, ClientState, ConnectionState,
       DecoderState
  <2> QED
    BY <2>1, <2>2, <2>3, <2>4, <2>5, <2>6, <2>7, <2>8, <2>9 DEF IInv, TypeOK
<1>2. CASE ReplaceClient
  <2>1. Ranges'
    BY <1>2 DEF ReplaceClient, NewClient, LoopHoldsClient, IInv, TypeOK, Ranges, Places,
       LoopState
  <2>2. Places'
    BY <1>2 DEF ReplaceClient, NewClient, LoopHoldsClient, IInv, TypeOK, Places
  <2>3. Flags'
    BY <1>2 DEF ReplaceClient, NewClient, LoopHoldsClient, IInv, TypeOK, Flags
  <2>4. Client!SessionTypeOK'
    BY <1>2 DEF ReplaceClient, NewClient, LoopHoldsClient, IInv, TypeOK,
       Client!SessionTypeOK, Client!Phases, Client!Notices, Client!Callbacks
  <2>5. LimitsInOrder' /\ CooldownInRange' /\ DelayState'
    BY <1>2 DEF ReplaceClient, NewClient, LoopHoldsClient, IInv, TypeOK, Ranges, Places,
       Flags, LimitsInOrder, CooldownInRange, DelayState, LoopState
  <2>6. (crashed => raced)' /\ LoopState' /\ ExecState' /\ ClientState'
    BY <1>2 DEF ReplaceClient, NewClient, LoopHoldsClient, IInv, TypeOK, Ranges, Places,
       Client!SessionTypeOK, LoopState, ExecState, ClientState, ConnectionState
  <2>7. ConnectionState'
    BY <1>2 DEF ReplaceClient, NewClient, LoopHoldsClient, IInv, TypeOK, Places, Flags,
       Client!SessionTypeOK, LoopState, ExecState, ClientState, ConnectionState
  <2>8. ShutdownState'
    BY <1>2 DEF ReplaceClient, NewClient, LoopHoldsClient, IInv, TypeOK, Places, Flags,
       Client!SessionTypeOK, LoopState, ExecState, ClientState, ConnectionState,
       ShutdownState
  <2>9. DecoderState'
    BY <1>2 DEF ReplaceClient, NewClient, LoopHoldsClient, IInv, TypeOK, Ranges, Places,
       Flags, Client!SessionTypeOK, LoopState, ExecState, ClientState, ConnectionState,
       DecoderState
  <2> QED
    BY <2>1, <2>2, <2>3, <2>4, <2>5, <2>6, <2>7, <2>8, <2>9 DEF IInv, TypeOK
<1>3. CASE ProcessFrame
  <2>1. Ranges'
    BY <1>3 DEF ProcessFrame, ExecIdle, GiveUp, IInv, TypeOK, Ranges, Places, LoopState
  <2>2. Places'
    BY <1>3 DEF ProcessFrame, ExecIdle, GiveUp, IInv, TypeOK, Places
  <2>3. Flags'
    BY <1>3 DEF ProcessFrame, ExecIdle, GiveUp, IInv, TypeOK, Flags
  <2>4. Client!SessionTypeOK'
    BY <1>3 DEF ProcessFrame, ExecIdle, GiveUp, IInv, TypeOK, Client!SessionTypeOK,
       Client!Phases, Client!Notices, Client!Callbacks
  <2>5. LimitsInOrder' /\ CooldownInRange' /\ DelayState'
    BY <1>3 DEF ProcessFrame, ExecIdle, GiveUp, IInv, TypeOK, Ranges, Places, Flags,
       LimitsInOrder, CooldownInRange, DelayState, LoopState
  <2>6. (crashed => raced)' /\ LoopState' /\ ExecState' /\ ClientState'
    BY <1>3 DEF ProcessFrame, ExecIdle, GiveUp, IInv, TypeOK, Ranges, Places,
       Client!SessionTypeOK, LoopState, ExecState, ClientState, ConnectionState
  <2>7. ConnectionState'
    BY <1>3 DEF ProcessFrame, ExecIdle, GiveUp, IInv, TypeOK, Places, Flags,
       Client!SessionTypeOK, LoopState, ExecState, ClientState, ConnectionState
  <2>8. ShutdownState'
    BY <1>3 DEF ProcessFrame, ExecIdle, GiveUp, IInv, TypeOK, Places, Flags,
       Client!SessionTypeOK, LoopState, ExecState, ClientState, ConnectionState,
       ShutdownState
  <2>9. DecoderState'
    BY <1>3 DEF ProcessFrame, ExecIdle, GiveUp, IInv, TypeOK, Ranges, Places, Flags,
       Client!SessionTypeOK, LoopState, ExecState, ClientState, ConnectionState, DecoderState
  <2> QED
    BY <2>1, <2>2, <2>3, <2>4, <2>5, <2>6, <2>7, <2>8, <2>9 DEF IInv, TypeOK
<1>4. CASE TimerFires
  <2>1. Ranges'
    BY <1>4 DEF TimerFires, ExecIdle, IInv, TypeOK, Ranges, Places, LoopState
  <2>2. Places'
    BY <1>4 DEF TimerFires, ExecIdle, IInv, TypeOK, Places
  <2>3. Flags'
    BY <1>4 DEF TimerFires, ExecIdle, IInv, TypeOK, Flags
  <2>4. Client!SessionTypeOK'
    BY <1>4 DEF TimerFires, ExecIdle, IInv, TypeOK, Client!SessionTypeOK, Client!Phases,
       Client!Notices, Client!Callbacks
  <2>5. LimitsInOrder' /\ CooldownInRange' /\ DelayState'
    BY <1>4 DEF TimerFires, ExecIdle, IInv, TypeOK, Ranges, Places, Flags, LimitsInOrder,
       CooldownInRange, DelayState, LoopState
  <2>6. (crashed => raced)' /\ LoopState' /\ ExecState' /\ ClientState'
    BY <1>4 DEF TimerFires, ExecIdle, IInv, TypeOK, Ranges, Places, Client!SessionTypeOK,
       LoopState, ExecState, ClientState, ConnectionState
  <2>7. ConnectionState'
    BY <1>4 DEF TimerFires, ExecIdle, IInv, TypeOK, Places, Flags, Client!SessionTypeOK,
       LoopState, ExecState, ClientState, ConnectionState
  <2>8. ShutdownState'
    BY <1>4 DEF TimerFires, ExecIdle, IInv, TypeOK, Places, Flags, Client!SessionTypeOK,
       LoopState, ExecState, ClientState, ConnectionState, ShutdownState
  <2>9. DecoderState'
    BY <1>4 DEF TimerFires, ExecIdle, IInv, TypeOK, Ranges, Places, Flags,
       Client!SessionTypeOK, LoopState, ExecState, ClientState, ConnectionState, DecoderState
  <2> QED
    BY <2>1, <2>2, <2>3, <2>4, <2>5, <2>6, <2>7, <2>8, <2>9 DEF IInv, TypeOK
<1>5. CASE TimerConnects
  <2>1. Ranges'
    BY <1>5 DEF TimerConnects, Client!Open, IInv, TypeOK, Ranges, Places, LoopState
  <2>2. Places'
    BY <1>5 DEF TimerConnects, Client!Open, IInv, TypeOK, Places
  <2>3. Flags'
    BY <1>5 DEF TimerConnects, Client!Open, IInv, TypeOK, Flags
  <2>4. Client!SessionTypeOK'
    BY <1>5 DEF TimerConnects, Client!Open, IInv, TypeOK, Client!SessionTypeOK,
       Client!Phases, Client!Notices, Client!Callbacks
  <2>5. LimitsInOrder' /\ CooldownInRange' /\ DelayState'
    BY <1>5 DEF TimerConnects, Client!Open, IInv, TypeOK, Ranges, Places, Flags,
       LimitsInOrder, CooldownInRange, DelayState, LoopState
  <2>6. (crashed => raced)' /\ LoopState' /\ ExecState' /\ ClientState'
    BY <1>5 DEF TimerConnects, Client!Open, IInv, TypeOK, Ranges, Places,
       Client!SessionTypeOK, LoopState, ExecState, ClientState, ConnectionState
  <2>7. ConnectionState'
    BY <1>5 DEF TimerConnects, Client!Open, IInv, TypeOK, Places, Flags,
       Client!SessionTypeOK, LoopState, ExecState, ClientState, ConnectionState
  <2>8. ShutdownState'
    BY <1>5 DEF TimerConnects, Client!Open, IInv, TypeOK, Places, Flags,
       Client!SessionTypeOK, LoopState, ExecState, ClientState, ConnectionState,
       ShutdownState
  <2>9. DecoderState'
    BY <1>5 DEF TimerConnects, Client!Open, IInv, TypeOK, Ranges, Places, Flags,
       Client!SessionTypeOK, LoopState, ExecState, ClientState, ConnectionState, DecoderState
  <2> QED
    BY <2>1, <2>2, <2>3, <2>4, <2>5, <2>6, <2>7, <2>8, <2>9 DEF IInv, TypeOK
<1>6. CASE Shutdown
  <2>1. Ranges'
    BY <1>6 DEF Shutdown, ExecIdle, StopTimer, ShutdownState, IInv, TypeOK, Ranges, Places,
       LoopState
  <2>2. Places'
    BY <1>6 DEF Shutdown, ExecIdle, StopTimer, ShutdownState, IInv, TypeOK, Places
  <2>3. Flags'
    BY <1>6 DEF Shutdown, ExecIdle, StopTimer, ShutdownState, IInv, TypeOK, Flags
  <2>4. Client!SessionTypeOK'
    BY <1>6 DEF Shutdown, ExecIdle, StopTimer, ShutdownState, IInv, TypeOK,
       Client!SessionTypeOK, Client!Phases, Client!Notices, Client!Callbacks
  <2>5. LimitsInOrder' /\ CooldownInRange' /\ DelayState'
    BY <1>6 DEF Shutdown, ExecIdle, StopTimer, ShutdownState, IInv, TypeOK, Ranges, Places,
       Flags, LimitsInOrder, CooldownInRange, DelayState, LoopState
  <2>6. (crashed => raced)' /\ LoopState' /\ ExecState' /\ ClientState'
    BY <1>6 DEF Shutdown, ExecIdle, StopTimer, ShutdownState, IInv, TypeOK, Ranges, Places,
       Client!SessionTypeOK, LoopState, ExecState, ClientState, ConnectionState
  <2>7. ConnectionState'
    BY <1>6 DEF Shutdown, ExecIdle, StopTimer, ShutdownState, IInv, TypeOK, Places, Flags,
       Client!SessionTypeOK, LoopState, ExecState, ClientState, ConnectionState
  <2>8. ShutdownState'
    BY <1>6 DEF Shutdown, ExecIdle, StopTimer, ShutdownState, IInv, TypeOK, Places, Flags,
       Client!SessionTypeOK, LoopState, ExecState, ClientState, ConnectionState
  <2>9. DecoderState'
    BY <1>6 DEF Shutdown, ExecIdle, StopTimer, ShutdownState, IInv, TypeOK, Ranges, Places,
       Flags, Client!SessionTypeOK, LoopState, ExecState, ClientState, ConnectionState,
       DecoderState
  <2> QED
    BY <2>1, <2>2, <2>3, <2>4, <2>5, <2>6, <2>7, <2>8, <2>9 DEF IInv, TypeOK
<1>7. CASE EndShutdown
  <2>1. Ranges'
    BY <1>7 DEF EndShutdown, None, ShutdownState, IInv, TypeOK, Ranges, Places, LoopState
  <2>2. Places'
    BY <1>7 DEF EndShutdown, None, ShutdownState, IInv, TypeOK, Places
  <2>3. Flags'
    BY <1>7 DEF EndShutdown, None, ShutdownState, IInv, TypeOK, Flags
  <2>4. Client!SessionTypeOK'
    BY <1>7 DEF EndShutdown, None, ShutdownState, IInv, TypeOK, Client!SessionTypeOK,
       Client!Phases, Client!Notices, Client!Callbacks
  <2>5. LimitsInOrder' /\ CooldownInRange' /\ DelayState'
    BY <1>7 DEF EndShutdown, None, ShutdownState, IInv, TypeOK, Ranges, Places, Flags,
       LimitsInOrder, CooldownInRange, DelayState, LoopState
  <2>6. (crashed => raced)' /\ LoopState' /\ ExecState' /\ ClientState'
    BY <1>7 DEF EndShutdown, None, ShutdownState, IInv, TypeOK, Ranges, Places,
       Client!SessionTypeOK, LoopState, ExecState, ClientState, ConnectionState
  <2>7. ConnectionState'
    BY <1>7 DEF EndShutdown, None, ShutdownState, IInv, TypeOK, Places, Flags,
       Client!SessionTypeOK, LoopState, ExecState, ClientState, ConnectionState
  <2>8. ShutdownState'
    BY <1>7 DEF EndShutdown, None, ShutdownState, IInv, TypeOK, Places, Flags,
       Client!SessionTypeOK, LoopState, ExecState, ClientState, ConnectionState
  <2>9. DecoderState'
    BY <1>7 DEF EndShutdown, None, ShutdownState, IInv, TypeOK, Ranges, Places, Flags,
       Client!SessionTypeOK, LoopState, ExecState, ClientState, ConnectionState, DecoderState
  <2> QED
    BY <2>1, <2>2, <2>3, <2>4, <2>5, <2>6, <2>7, <2>8, <2>9 DEF IInv, TypeOK
<1> QED
  BY <1>1, <1>2, <1>3, <1>4, <1>5, <1>6, <1>7, ParametersIInv DEF Exec

\* The subscriber starts with parameters in order and without a client.
LEMMA InitIInv == Init => IInv
<1> USE DEF Threads, ExecPlaces, LoopPlaces, Updating, UpdatingCodec, Limiting, Stopping
<1> SUFFICES ASSUME Init PROVE IInv
  OBVIOUS
<1>1. PICK c \in Configs : config = Normalised(c)
  BY DEF Init
<1>2. config \in ConfigType /\ config.minwait <= config.maxwait
  BY <1>1, NormalisedConfig, ConfigsAssumption
<1>3. TypeOK
  <2>1. cooldown \in Nat /\ delay \in Nat /\ queue \in Nat
    BY <1>2 DEF Init, ConfigType
  <2>2. pc = [exec |-> "idle", loop |-> "idle"]
    BY DEF Init
  <2>3. /\ pc \in [Threads -> ExecPlaces \cup LoopPlaces]
        /\ pc.exec \in ExecPlaces /\ pc.loop \in LoopPlaces
    BY <2>2
  <2>4. Client!SessionTypeOK
    BY DEF Init, Client!SessionInit, Client!SessionTypeOK, Client!Phases, Client!Notices,
           Client!Callbacks
  <2> QED
    BY <1>2, <2>1, <2>3, <2>4, Zenon DEF Init, TypeOK, Ranges, Places, Flags
<1>4. LimitsInOrder /\ CooldownInRange /\ DelayState
  BY <1>2 DEF Init, LimitsInOrder, CooldownInRange, DelayState, ConfigType
<1>5. LoopState /\ ExecState /\ ClientState /\ ConnectionState /\ ShutdownState /\ DecoderState
  BY DEF Init, Client!SessionInit, Quiet, LoopState, ExecState, ClientState, ConnectionState,
         ShutdownState, DecoderState
<1> QED
  BY <1>3, <1>4, <1>5 DEF Init, IInv

-----------------------------------------------------------------------------

\* IInv is inductive.
THEOREM Invariance == Spec => []IInv
<1>1. Init => IInv
  BY InitIInv
<1>2. IInv /\ [Next]_vars => IInv'
  <2> SUFFICES ASSUME IInv, [Next]_vars PROVE IInv'
    OBVIOUS
  <2>1. CASE UNCHANGED vars
    BY <2>1 DEF vars, clientVars, timerVars, frameVars, streamVars, lifeVars, IInv, TypeOK,
                Ranges, Places, Flags, Client!SessionTypeOK, Quiet, Fits, LimitsInOrder, CooldownInRange, DelayState,
                LoopState, ExecState, ClientState, ConnectionState, ShutdownState, DecoderState
  <2> QED
    BY <2>1, ReconnectIInv, LoopIInv, HandlersIInv, ExecIInv DEF Next
<1> QED
  BY <1>1, <1>2, PTL DEF Spec

\* Whatever the two limits are, in whichever order they are given, the delay of
\* the next attempt is between them, unless the event loop doubled it while they
\* changed, and even then as soon as it is set again.
THEOREM DelaysInRange == Spec => []CooldownInRange
<1>1. IInv => CooldownInRange
  BY DEF IInv
<1> QED
  BY <1>1, Invariance, PTL

\* Connecting a connected client, and destroying a client on its own thread or
\* under it, takes the race between the two threads, and so does a frame of a
\* lost stream that is left for the next one.
THEOREM OnlyByRace == Spec => []CrashOnlyByRace
<1>1. IInv => CrashOnlyByRace
  BY DEF IInv, ConnectionState, Quiet, CrashOnlyByRace
<1> QED
  BY <1>1, Invariance, PTL

\* For every codec, every use_hw_decoder and whichever candidates fail, frames
\* meet a decoder for the codec of their stream that obeys the parameter, unless
\* both threads were making a decoder at once.
THEOREM RightDecoder == Spec => []DecoderFitsStream
<1>1. IInv => DecoderFitsStream
  BY DEF IInv, DecoderState, Fits, DecoderFitsStream
<1> QED
  BY <1>1, Invariance, PTL

\* Without that race and without a parameter change that reconnects, nothing
\* comes back to life after shutdown().
THEOREM Final == Spec => []ShutdownIsFinal
<1>1. IInv => ShutdownIsFinal
  BY DEF IInv, ShutdownState, LoopBusy, Stopping, ShutdownIsFinal
<1> QED
  BY <1>1, Invariance, PTL

-----------------------------------------------------------------------------
(* Under the policy "always", the next attempt is on its way.              *)

ReconnectsAlways == config.policy = Policies.always

\* A thread is on its way to the next attempt: the executor in reconnect(), in
\* internalCallback() or in the timer's callback, the event loop in reconnect().
ExecReconnects == {"replacing", "disconnecting", "closing", "clearing", "arming", "connecting"}
LoopReconnects == {"disconnecting", "clearing", "arming"}

\* The stream is lost: the timer is set, a handler that will reconnect is about
\* to be called, or a thread is on its way.
AttemptIsDue ==
    hasClient /\ phase \in {"closed", "closing", "ended", "over"} /\ ~raced /\ ~down =>
        \/ timer
        \/ owed \in {"failed", "finished", "retry"}
        \/ pc.exec \in ExecReconnects
        \/ pc.loop \in LoopReconnects

\* Steps of the event loop.
LEMMA LoopAttempt ==
    ASSUME IInv, AttemptIsDue, ReconnectsAlways, Loop \/ Handlers
    PROVE  AttemptIsDue'
<1> USE DEF IInv, TypeOK, Places, Threads, ExecPlaces, LoopPlaces, Goto, AttemptIsDue, ExecReconnects,
            LoopReconnects, clientVars, timerVars, lifeVars
<1>1. CASE ClientEvent
  <2>1. UNCHANGED <<hasClient, timer, pc, raced, down>>
    BY <1>1 DEF ClientEvent
  <2>2. CASE Client!Play
    <3>1. phase' = "playing" \/ (phase = "ended" /\ owed = "none")
      BY <2>2 DEF Client!Play, Client!InCurrent
    <3> QED
      BY <2>1, <3>1
  <2>3. CASE Client!Reopen
    BY <2>3 DEF Client!Reopen
  <2>4. CASE Client!Fail \/ Client!Finish \/ Client!Swallow
    BY <2>4 DEF Client!Fail, Client!Finish, Client!Swallow
  <2>5. CASE Client!Stall \/ Client!Late \/ Client!Enter \/ Client!Leave
    <3>1. phase' = phase /\ (owed = "none" \/ owed' = owed)
      BY <2>5 DEF Client!Stall, Client!InCurrent, Client!Late, Client!Enter, Client!Leave
    <3> QED
      BY <2>1, <3>1
  <2> QED
    BY <1>1, <2>2, <2>3, <2>4, <2>5 DEF ClientEvent
<1>2. CASE RetryThrows \/ UseAfterClose \/ ReceiveDataStream \/ Return
  <2>1. UNCHANGED <<phase, owed, hasClient, timer, raced, down>> /\ pc'.exec = pc.exec
        /\ (pc' = pc \/ pc.loop = "returning")
    BY <1>2 DEF RetryThrows, UseAfterClose, ReceiveDataStream, Return, Client!Leave
  <2> QED
    BY <2>1
<1>3. CASE InstallDecoder \/ StartSink \/ \E c \in Codecs : SubsessionStarted(c)
  <2>1. UNCHANGED <<phase, owed, hasClient, timer, down>> /\ pc'.exec = pc.exec
        /\ pc.loop \notin LoopReconnects /\ (raced => raced')
    BY <1>3 DEF InstallDecoder, StartSink, SubsessionStarted, LoopIdle
  <2> QED
    BY <2>1
<1>4. CASE SessionStarted
  <2>1. owed = "started" /\ UNCHANGED <<phase, hasClient, pc, raced, down>> /\ owed' = "none"
    BY <1>4 DEF SessionStarted
  <2>2. timer => raced
    BY <2>1 DEF ConnectionState, Quiet
  <2> QED
    BY <2>1, <2>2
<1>5. CASE SessionEnded
  <2>1. MustReconnect
    BY <1>5 DEF SessionEnded, MustReconnect, ReconnectsAlways, Policies, Threshold
  <2>2. pc'.loop = "disconnecting"
    BY <1>5, <2>1 DEF SessionEnded
  <2> QED
    BY <2>2
<1> QED
  BY <1>1, <1>2, <1>3, <1>4, <1>5 DEF Loop, Handlers

\* Steps of reconnect() on either thread, and of shutdown().
LEMMA ReconnectAttempt ==
    ASSUME IInv, AttemptIsDue, Reconnect
    PROVE  AttemptIsDue'
<1> USE DEF IInv, TypeOK, Places, Threads, ExecPlaces, LoopPlaces, Goto, AttemptIsDue, ExecReconnects,
            LoopReconnects
<1>1. CASE TearDown \/ Close
  <2>1. pc'.exec \in {"closing", "clearing"} \/ (down /\ down')
    BY <1>1 DEF TearDown, Close, Closing, Closed, ExecState, Stopping
  <2> QED
    BY <2>1
<1>2. CASE Drop
  BY <1>2 DEF Drop
<1>3. CASE \E t \in Threads : ClearQueue(t)
  <2>1. PICK t \in Threads : ClearQueue(t)
    BY <1>3
  <2>2. pc'[t] = "arming"
    BY <2>1 DEF ClearQueue
  <2> QED
    BY <2>2
<1>4. CASE \E t \in Threads : ArmTimer(t)
  BY <1>4 DEF ArmTimer
<1>5. CASE \E t \in Threads : DoubleCooldown(t)
  <2>1. PICK t \in Threads : DoubleCooldown(t)
    BY <1>5
  <2>2. UNCHANGED <<phase, owed, hasClient, timer, raced, down>> /\ pc[t] = "doubling"
    BY <2>1 DEF DoubleCooldown, clientVars, lifeVars
  <2>3. \A u \in Threads : u # t => pc'[u] = pc[u]
    BY <2>1 DEF DoubleCooldown
  <2> QED
    BY <2>2, <2>3
<1> QED
  BY <1>1, <1>2, <1>3, <1>4, <1>5 DEF Reconnect

\* Steps of the executor.
LEMMA ExecAttempt ==
    ASSUME IInv, AttemptIsDue, Exec
    PROVE  AttemptIsDue'
<1> USE DEF IInv, TypeOK, Places, Threads, ExecPlaces, LoopPlaces, Goto, AttemptIsDue, ExecReconnects,
            LoopReconnects, clientVars, timerVars, lifeVars
<1>1. CASE ReceiveUrl \/ TimerFires
  <2>1. pc'.exec \in {"replacing", "connecting"}
    BY <1>1 DEF ReceiveUrl, TimerFires
  <2> QED
    BY <2>1
<1>2. CASE ReplaceClient
  <2>1. raced' \/ phase' = "setup"
    BY <1>2 DEF ReplaceClient, NewClient
  <2> QED
    BY <2>1
<1>3. CASE TimerConnects
  <2>1. raced \/ phase = "closed"
    BY <1>3 DEF TimerConnects, ConnectionState, Quiet
  <2>2. raced' = raced
    BY <1>3 DEF TimerConnects
  <2>3. phase = "closed" => phase' = "setup"
    BY <1>3 DEF TimerConnects, Client!Open
  <2> QED
    BY <2>1, <2>2, <2>3
<1>4. CASE Parameters \/ ProcessFrame
  <2>1. UNCHANGED <<phase, owed, hasClient, timer, raced, down>> /\ pc'.loop = pc.loop
        /\ pc.exec \notin ExecReconnects
    BY <1>4 DEF Parameters, ProcessFrame, GiveUp, UpdateParameters, ResetCooldown, LimitDelays,
       ReadCodec, ReplaceDecoder, ExecIdle, frameVars
  <2> QED
    BY <2>1
<1>5. CASE Shutdown \/ EndShutdown
  <2>1. down'
    BY <1>5 DEF Shutdown, EndShutdown, ExecState, Stopping
  <2> QED
    BY <2>1
<1> QED
  BY <1>1, <1>2, <1>3, <1>4, <1>5 DEF Exec

\* What Reconnects needs is that threads go on and timers fire: whichever thread
\* finds out that the stream is lost, an attempt to connect again is due until
\* it is made.
THEOREM AttemptsAreDue == Spec => ([]ReconnectsAlways => []AttemptIsDue)
<1>1. Init => AttemptIsDue
  BY DEF Init, AttemptIsDue
<1>2. IInv /\ AttemptIsDue /\ ReconnectsAlways /\ [Next]_vars => AttemptIsDue'
  <2> SUFFICES ASSUME IInv, AttemptIsDue, ReconnectsAlways, [Next]_vars PROVE AttemptIsDue'
    OBVIOUS
  <2>1. CASE UNCHANGED vars
    BY <2>1 DEF vars, clientVars, timerVars, lifeVars, AttemptIsDue
  <2> QED
    BY <2>1, ReconnectAttempt, LoopAttempt, ExecAttempt DEF Next
<1> QED
  BY <1>1, <1>2, Invariance, PTL DEF Spec

-----------------------------------------------------------------------------

\* internalCallback() puts a new client in the place of the old one, which
\* owes no notification.
Replace == phase' = "setup" /\ owed = "none" /\ owed' = "none" /\ callback' = "none"

\* A step of either thread leaves the connection alone, is one of
\* ClientSession, or makes a new client.
LEMMA SessionRules ==
    ASSUME IInv, [Next]_vars
    PROVE  [Client!SessionNext \/ Replace]_(Client!sessionVars)
<1> USE DEF Client!sessionVars, clientVars
<1>1. CASE TearDown
  BY <1>1 DEF TearDown, Client!TearDown, Client!SessionNext
<1>2. CASE Close \/ Drop
  BY <1>2 DEF Close, Drop, Client!SessionNext
<1>3. CASE \E t \in {"exec", "loop"} : ClearQueue(t) \/ ArmTimer(t) \/ DoubleCooldown(t)
  BY <1>3 DEF ClearQueue, ArmTimer, DoubleCooldown
<1>4. CASE ClientEvent \/ Return
  BY <1>4 DEF ClientEvent, Return, Client!SessionNext
<1>5. CASE Handlers
  <2>1. Client!Deliver
    BY <1>5 DEF Handlers, SessionStarted, SessionEnded, Threshold, Client!Deliver
  <2> QED
    BY <2>1 DEF Client!SessionNext
<1>6. CASE ReplaceClient
  <2>1. callback = "none" => owed = "none"
    BY DEF IInv, TypeOK, Client!SessionTypeOK
  <2> QED
    BY <1>6, <2>1 DEF ReplaceClient, NewClient, LoopBusy, LoopHoldsClient, Replace
<1>7. CASE TimerConnects
  BY <1>7 DEF TimerConnects, Client!SessionNext
<1>8. CASE RetryThrows \/ UseAfterClose \/ ReceiveDataStream \/ InstallDecoder \/ StartSink
           \/ \E c \in Codecs : SubsessionStarted(c)
  BY <1>8 DEF RetryThrows, UseAfterClose, ReceiveDataStream, InstallDecoder, StartSink,
     SubsessionStarted
<1>9. CASE Parameters
  BY <1>9 DEF Parameters, UpdateParameters, ResetCooldown, LimitDelays, ReadCodec, ReplaceDecoder
<1>10. CASE ReceiveUrl \/ ProcessFrame \/ TimerFires \/ Shutdown \/ EndShutdown \/ UNCHANGED vars
  BY <1>10 DEF ReceiveUrl, ProcessFrame, TimerFires, Shutdown, EndShutdown, vars
<1> QED
  BY <1>1, <1>2, <1>3, <1>4, <1>5, <1>6, <1>7, <1>8, <1>9, <1>10 DEF Next, Reconnect, Loop, Exec

\* The subscriber uses its connection as ClientSession describes it, and hence
\* as that of StreamClient may be used, also where its threads race: a second
\* connect() throws and changes nothing, and a client that still owes a
\* notification is never replaced by one that would deliver it.
THEOREM UsesItsSession ==
    Spec => Client!SessionInit /\ [][Client!SessionNext \/ Replace]_(Client!sessionVars)
<1>1. Init => Client!SessionInit
  BY DEF Init
<1>2. IInv /\ [Next]_vars => [Client!SessionNext \/ Replace]_(Client!sessionVars)
  BY SessionRules
<1> QED
  BY <1>1, <1>2, Invariance, PTL DEF Spec

=============================================================================
