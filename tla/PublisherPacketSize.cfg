CONSTANTS
    Configs <- MCConfigs
    Codecs <- MCCodecs
    Supported <- MCSupported
SPECIFICATION Spec
CHECK_DEADLOCK FALSE
INVARIANT PacketSizeIsUsed
