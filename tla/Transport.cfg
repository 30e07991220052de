CONSTANTS
    Configs <- MCConfigs
    Codecs <- VideoCodec
    Supported <- SupportedCodecs
    Live555 = {"H265", "VPX"}
    Policies = {1, 3}
    AutoPorts <- MCAutoPorts
    LateConfigs <- MCLateConfigs
SPECIFICATION FairTransport
CHECK_DEADLOCK FALSE
INVARIANTS
    EncoderFitsSession
    DecoderFitsEncoder
PROPERTIES
    SessionIsAnnounced
    UnwatchedIsNotEncoded
    SubscriberPlays
