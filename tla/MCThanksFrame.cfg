\* The Thanks response announces 255 payload bytes and carries 16: the
\* client waiting for it reads a truncated frame when the server closes.
CONSTANTS
    Names <- MCNames
    PubKeys <- MCPubKeys
    FileNames <- MCFileNames
    Cipher <- MCCipher
    ContentSizes <- MCContentSizes
    NewUUID <- MCNewUUID
    OldUUID <- MCOldUUID
    OtherUUID <- MCOtherUUID
    WrappedKey <- MCWrappedKey
    Crc <- MCCrc
    Segmented = FALSE
    MaxSessions = 2
SPECIFICATION Spec
INVARIANT ClientReadsWholeFrames
