\* One connection at a time, uploads of up to two packets: an upload cut off
\* after its first packet, a reconnect, and a one-packet upload that the
\* server assembles against the stored total of two.  The server waits for a
\* packet header while the client waits for 1603.
CONSTANTS
    c1 = c1  c2 = c2  n1 = n1  n2 = n2  u1 = u1  u2 = u2  u3 = u3  u4 = u4
    f1 = f1  f2 = f2  k1 = k1
    NoUser = NoUser  PoppedUser = PoppedUser  NoFile = NoFile  NoneValue = NoneValue
    NoName = NoName  NoUUID = NoUUID  NoUpload = NoUpload
    Conns <- MCConns1
    Names <- MCNames2
    UUIDs <- MCUUIDs4
    FileNames <- MCFileNames1
    PubKeys <- MCPubKeys
    MaxPackets = 2
    MaxAesKeys = 8
    MaxSessions = 4
    StrangerPeers = FALSE
SPECIFICATION FairSpec
PROPERTY AllConnectionsClose
