\* Two connections of one user: a reconnect clears the packet buffer while
\* the other connection is between saving its last packet and testing
\* completion.
CONSTANTS
    c1 = c1  c2 = c2  n1 = n1  n2 = n2  u1 = u1  u2 = u2  u3 = u3  u4 = u4
    f1 = f1  f2 = f2  k1 = k1
    NoUser = NoUser  PoppedUser = PoppedUser  NoFile = NoFile  NoneValue = NoneValue
    NoName = NoName  NoUUID = NoUUID  NoUpload = NoUpload
    Conns <- MCConns2
    Names <- MCNames1
    UUIDs <- MCUUIDs
    FileNames <- MCFileNames1
    PubKeys <- MCPubKeys
    MaxPackets = 1
    MaxAesKeys = 6
    MaxSessions = 2
    StrangerPeers = FALSE
SPECIFICATION FairSpec
PROPERTY AllConnectionsClose
