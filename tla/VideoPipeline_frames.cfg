\* Two codecs and a payload type the player does not know.
SPECIFICATION Spec
CONSTANTS
    Buffer = 2
    PayloadTypes = {96, 102, 103}
    MaxPackets = 4
INVARIANTS
    TypeOK
    OneCodecPerDecoder
    PlayheadNearPicture
PROPERTIES
    DecoderFinishes
    FramesShown
CHECK_DEADLOCK FALSE
