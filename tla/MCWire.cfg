\* One connection at the byte level, every request arriving whole: the
\* codec round-trips every field of every frame.
CONSTANTS
    Names <- MCNames
    PubKeys <- MCPubKeys
    FileNames <- MCFileNames
    Cipher <- MCCipher
    ContentSizes <- MCContentSizes
    NewUUID <- MCNewUUID
    OldUUID <- MCOldUUID
    OtherUUID <- MCOtherUUID
    WrappedKey <- MCWrappedKey
    Crc <- MCCrc
    Segmented = FALSE
    MaxSessions = 3
SPECIFICATION Spec
INVARIANT FieldsRoundTrip
