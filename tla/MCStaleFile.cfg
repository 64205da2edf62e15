\* A client uploads, then uploads another file in a later session.
CONSTANTS
    c1 = c1  c2 = c2  n1 = n1  n2 = n2  u1 = u1  u2 = u2  u3 = u3  u4 = u4
    f1 = f1  f2 = f2  k1 = k1
    NoUser = NoUser  PoppedUser = PoppedUser  NoFile = NoFile  NoneValue = NoneValue
    NoName = NoName  NoUUID = NoUUID  NoUpload = NoUpload
    Conns <- MCConns1
    Names <- MCNames1
    UUIDs <- MCUUIDs
    FileNames <- MCFileNames2
    PubKeys <- MCPubKeys
    MaxPackets = 2
    MaxAesKeys = 6
    MaxSessions = 2
    StrangerPeers = FALSE
SPECIFICATION Spec
SYMMETRY Symmetry
INVARIANT AssemblyMatchesUpload
