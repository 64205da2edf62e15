-------------------------------- MODULE Wire --------------------------------
(***************************************************************************)
(* Connections at the byte level: the course client registers or         *)
(* reconnects, sends its public key, uploads a file in 1024-byte packets   *)
(* and confirms the CRC, and the server thread decodes every frame with    *)
(* the Codec operators, reading with the single conn.recv(n) calls of      *)
(* Request.py.  The client may crash between any two frames, and it is     *)
(* run again, on a new connection, until it succeeds or MaxSessions        *)
(* connections were made; the server's registry lives on between them.    *)
(*                                                                         *)
(* TCP delivers a byte stream, not frames: recv(n) returns between 1 and n *)
(* of the bytes that have arrived.  With Segmented = FALSE every request   *)
(* arrives whole, so recv(n) returns min(n, arrived); with TRUE a request  *)
(* may arrive in pieces and any shorter read can happen.  Responses are    *)
(* read by the client as the spec frames them: a 7-byte header, then       *)
(* payload_size bytes.                                                     *)
(***************************************************************************)
EXTENDS Naturals, Sequences, SequencesExt, Codec

CONSTANTS
    Names,       \* usernames the client may register (ASCII bytes, <= 255)
    PubKeys,     \* 160-byte RSA public keys
    FileNames,   \* file names the client may upload (ASCII bytes, <= 255)
    Cipher,      \* the client's ciphertext, as long as the largest size
    ContentSizes,\* ciphertext lengths: encrypted_content_size
    NewUUID,     \* the 16 bytes uuid4 gives the new user (drawn at most once:
                 \* its user keeps the name, so no later draw happens)
    OldUUID,     \* the uuid a reconnecting client kept from an earlier session
    OtherUUID,   \* the uuid of another user
    WrappedKey,  \* the 128-byte RSA-OAEP wrapping of the AES key
    Crc,         \* the checksum of the client's plaintext
    Segmented,   \* whether a request may arrive in several pieces
    MaxSessions  \* how many connections the client makes at most

ASSUME Segmented \in BOOLEAN /\ MaxSessions \in Nat \ {0}

VARIABLES
    c2s,     \* bytes the client has written
    srd,     \* how many of them the server has read
    s2c,     \* bytes the server has written
    crd,     \* how many of them the client has read
    spc,     \* server thread: where it is
    hdr,     \* server thread: the last request header it unpacked
    users,   \* UserDatabase.users: uuid -> name, public key, file
    cpc,     \* client: where it is
    intent,  \* client: the name, key, file and size it sends; register or reconnect
    learned, \* client: the fields it decoded from the server's responses
    cpkt,    \* client: the number of packets it has sent
    dictName,\* server thread: payload_dict["file_name"] of the last packet
    sfId,    \* server thread: the client_id the SendFile engine answered
    kept,    \* client: the uuid it keeps between runs (me.info), or <<>>
    session  \* connections made so far

vars == <<c2s, srd, s2c, crd, spc, hdr, users, cpc, intent, learned, cpkt,
          dictName, sfId, kept, session>>

SERVER_VERSION == 3
NoHeader == [client_id |-> <<>>, client_version |-> 0, code |-> 0,
             payload_size |-> 0]
NoFile == [file_name |-> <<>>, total_packets |-> 0, size |-> 0,
           packets |-> <<>>]
NoLearned == [uuid |-> <<>>, key |-> <<>>, file_name |-> <<>>, size |-> 0,
              crc |-> 0]
\* A new User: public_key defaults to '' (<<>>), file to None.
NewUser(name) == [name |-> name, public_key |-> <<>>, file |-> NoFile]

\* The client's packet i: the i-th 1024 bytes of its ciphertext, NUL-padded.
Lesser(a, b) == IF a < b THEN a ELSE b
ClientCiphertext == SubSeq(Cipher, 1, intent.size)
TotalPackets == (intent.size + 1023) \div 1024
PacketContent(i) ==
    PackBytes(SubSeq(ClientCiphertext, i * 1024 + 1,
                     Lesser((i + 1) * 1024, intent.size)), 1024)

\* What the in-memory registry can hold when this connection arrives: nothing
\* (a fresh or restarted server); the client's user from an earlier session,
\* with its key, without a file or with the file of an earlier attempt that
\* ended in 901; that user as a rejected reconnect leaves it, with no key; or
\* the name held by another user.
EarlierUpload ==
    [file_name |-> intent.file_name, total_packets |-> TotalPackets,
     size |-> intent.size, packets |-> [i \in 0 .. TotalPackets - 1 |-> PacketContent(i)]]
EarlierUsers ==
    { [u \in {} |-> NewUser(<<>>)],
      OldUUID :> [NewUser(intent.name) EXCEPT !.public_key = intent.public_key],
      OldUUID :> [NewUser(intent.name) EXCEPT !.public_key = intent.public_key,
                                              !.file = EarlierUpload],
      OldUUID :> [NewUser(intent.name) EXCEPT !.file = EarlierUpload],
      OtherUUID :> NewUser(intent.name) }

Init ==
    /\ c2s = <<>> /\ srd = 0 /\ s2c = <<>> /\ crd = 0
    /\ spc = "Start" /\ hdr = NoHeader
    /\ cpc = "Start"
    /\ intent \in [name : Names, public_key : PubKeys, file_name : FileNames,
                   size : ContentSizes]
    /\ users \in EarlierUsers
    /\ learned = NoLearned
    /\ cpkt = 0
    /\ dictName = <<>>
    /\ sfId = <<>>
    /\ kept \in {<<>>, OldUUID}
    /\ session = 1

-----------------------------------------------------------------------------
(***************************************************************************)
(* The server thread                                                       *)
(***************************************************************************)
Arrived == Len(c2s) - srd

\* The client has finished and closed its socket.
ClientClosed == cpc \in {"Done", "Failed", "Dropped", "Broken", "Crashed"}

\* conn.recv(n): blocks until a byte has arrived or the peer closed, then
\* returns some of the arrived bytes, or b'' at end of stream.
CanRecv(n) == n = 0 \/ Arrived > 0 \/ ClientClosed
RecvLengths(n) ==
    IF n = 0 \/ Arrived = 0 THEN {0}
    ELSE IF Segmented THEN 1 .. Lesser(n, Arrived) ELSE {Lesser(n, Arrived)}
Read(k) == SubSeq(c2s, srd + 1, srd + k)

Respond(r) == s2c' = s2c \o PackMessage(r)

\* is_username_already_registered.
IsRegistered(name) == \E u \in DOMAIN users : users[u].name = name
\* does_uuid_already_exist; get_user_by_uuid raises KeyError when it fails.
DoesUUIDAlreadyExist(u) == u \in DOMAIN users

\* Server.handle_connection's first header.  A short header raises
\* struct.error out of handle_client: no response, the socket is closed.
\* 825 and 827 start their engines; any other code gets GeneralError.
Dispatch ==
    /\ spc = "Start" /\ CanRecv(REQUEST_HEADER_SIZE)
    /\ \E k \in RecvLengths(REQUEST_HEADER_SIZE) :
         LET bs == Read(k) IN
         /\ srd' = srd + k
         /\ IF ~HeaderUnpacks(bs)
            THEN spc' = "Closed" /\ UNCHANGED <<s2c, hdr>>
            ELSE /\ hdr' = UnpackHeader(bs)
                 /\ CASE UnpackHeader(bs).code = REGISTER_REQUEST ->
                           spc' = "RegPayload" /\ UNCHANGED s2c
                      [] UnpackHeader(bs).code = RECONNECT_TO_SERVER_REQUEST ->
                           spc' = "RcPayload" /\ UNCHANGED s2c
                      [] OTHER -> spc' = "Closed"
                                  /\ Respond(BuildGeneralError(SERVER_VERSION))
    /\ UNCHANGED <<c2s, crd, users, cpc, intent, learned, cpkt, dictName, sfId, kept, session>>

\* RegisterRequestProtocol: recv(255), the name decoded from it; a taken
\* name is 1601 and the engine returns; else add_new_user_to_database, 1600.
RegPayload ==
    /\ spc = "RegPayload" /\ CanRecv(REGISTER_REQUEST_PAYLOAD_SIZE)
    /\ \E k \in RecvLengths(REGISTER_REQUEST_PAYLOAD_SIZE) :
         LET name == RegisterUsername(Read(k)) IN
         /\ srd' = srd + k
         /\ IF IsRegistered(name)
            THEN /\ spc' = "AfterAuth" /\ UNCHANGED users
                 /\ Respond(BuildRegistrationFailed(SERVER_VERSION))
            ELSE /\ spc' = "PkHeader"
                 /\ users' = users @@ (NewUUID :> NewUser(name))
                 /\ Respond(BuildRegisterSuccess(SERVER_VERSION, NewUUID))
    /\ UNCHANGED <<c2s, crd, hdr, cpc, intent, learned, cpkt, dictName, sfId, kept, session>>

\* receive_public_key's header: a short one (struct.error) or one that is
\* not 826 from the new uuid (ValueError).  The Register engine catches
\* them (GeneralError, back to the dispatcher); the Reconnect engine, which
\* catches only OSError, dies with no response.
PkHeaderOk(bs) ==
    HeaderUnpacks(bs) /\ UnpackHeader(bs).code = SEND_PUBLIC_KEY_REQUEST
    /\ UnpackHeader(bs).client_id = NewUUID
PkHeader ==
    /\ spc \in {"PkHeader", "RcPkHeader"} /\ CanRecv(REQUEST_HEADER_SIZE)
    /\ \E k \in RecvLengths(REQUEST_HEADER_SIZE) :
         LET bs == Read(k) IN
         /\ srd' = srd + k
         /\ IF PkHeaderOk(bs)
            THEN /\ hdr' = UnpackHeader(bs) /\ UNCHANGED s2c
                 /\ spc' = IF spc = "PkHeader" THEN "PkPayload" ELSE "RcPkPayload"
            ELSE IF spc = "PkHeader"
            THEN /\ spc' = "AfterAuth" /\ UNCHANGED hdr
                 /\ Respond(BuildGeneralError(SERVER_VERSION))
            ELSE spc' = "Closed" /\ UNCHANGED <<hdr, s2c>>
    /\ UNCHANGED <<c2s, crd, users, cpc, intent, learned, cpkt, dictName, sfId, kept, session>>

\* set_new_user_public_key(username, key): every user of that name gets
\* the key (and a new AES key, not modelled).
SetNewUserPublicKey(name, pk) ==
    [u \in DOMAIN users |-> IF users[u].name = name
                            THEN [users[u] EXCEPT !.public_key = pk] ELSE users[u]]

\* Register: recv(payload_size), struct.unpack("255s 160s"), the name
\* check, set_new_user_public_key and 1602; any failure is GeneralError.
PkPayload ==
    /\ spc = "PkPayload" /\ CanRecv(hdr.payload_size)
    /\ \E k \in RecvLengths(hdr.payload_size) :
         LET bs == Read(k) IN
         /\ srd' = srd + k
         /\ IF PublicKeyUnpacks(bs)
               /\ PublicKeyPayload(bs).username = users[NewUUID].name
            THEN /\ users' = SetNewUserPublicKey(users[NewUUID].name,
                                                 PublicKeyPayload(bs).public_key)
                 /\ Respond(BuildSendEncryptedAesKey(SERVER_VERSION, NewUUID, WrappedKey))
            ELSE /\ UNCHANGED users
                 /\ Respond(BuildGeneralError(SERVER_VERSION))
    /\ spc' = "AfterAuth"
    /\ UNCHANGED <<c2s, crd, hdr, cpc, intent, learned, cpkt, dictName, sfId, kept, session>>

\* ReconnectionRequestProtocol.protocol: a payload_size other than 255 is a
\* ValueError; recv(255) and the name.  Rejected when the name is not
\* registered (the "is None" alternative never holds: public_key defaults
\* to '', and remove_user_if_registered finds nothing to remove): a new
\* user and 1606 with its uuid.  Else get_user_by_uuid raises KeyError for
\* an unknown uuid, get_file raises for a user without a file (after
\* set_aes_key), encrypt_aes_key_with_public_key raises for the key ''
\* (after clear_dict); none is an OSError, so the thread ends with no
\* response.  Else 1605.
ClearDict(u) == [users EXCEPT ![u].file.packets = <<>>]
\* encrypt_aes_key_with_public_key: PKCS1_OAEP.new raises for the key ''.
EncryptAesKeyFails(pk) == pk = <<>>
RcPayload ==
    /\ spc = "RcPayload"
    /\ IF hdr.payload_size # RECONNECTION_REQUEST_PAYLOAD_SIZE
       THEN spc' = "Closed" /\ UNCHANGED <<srd, s2c, users>>
       ELSE
       /\ CanRecv(RECONNECTION_REQUEST_PAYLOAD_SIZE)
       /\ \E k \in RecvLengths(RECONNECTION_REQUEST_PAYLOAD_SIZE) :
          LET name == RStripNul(Read(k))
              cid == hdr.client_id
          IN
          /\ srd' = srd + k
          /\ CASE ~IsRegistered(name) ->
                    /\ users' = users @@ (NewUUID :> NewUser(name))
                    /\ Respond(BuildReconnectRejected(SERVER_VERSION, NewUUID))
                    /\ spc' = "RcPkHeader"
               [] ~DoesUUIDAlreadyExist(cid) \/ users[cid].file = NoFile ->
                    spc' = "Closed" /\ UNCHANGED <<s2c, users>>
               [] EncryptAesKeyFails(users[cid].public_key) ->
                    spc' = "Closed" /\ users' = ClearDict(cid) /\ UNCHANGED s2c
               [] OTHER ->
                    /\ users' = ClearDict(cid)
                    /\ Respond(BuildReconnectAccepted(SERVER_VERSION, cid, WrappedKey))
                    /\ spc' = "AfterAuth"
    /\ UNCHANGED <<c2s, crd, hdr, cpc, intent, learned, cpkt, dictName, sfId, kept, session>>

\* register_user's receive_public_key payload: a short payload
\* (struct.error) or another name (ValueError) ends the thread; else the
\* AES key wrapped with the received key, 1602.  The key is never stored.
RcPkPayload ==
    /\ spc = "RcPkPayload" /\ CanRecv(hdr.payload_size)
    /\ \E k \in RecvLengths(hdr.payload_size) :
         LET bs == Read(k) IN
         /\ srd' = srd + k
         /\ IF PublicKeyUnpacks(bs)
               /\ PublicKeyPayload(bs).username = users[NewUUID].name
            THEN /\ spc' = "AfterAuth"
                 /\ Respond(BuildSendEncryptedAesKey(SERVER_VERSION, NewUUID, WrappedKey))
            ELSE spc' = "Closed" /\ UNCHANGED s2c
    /\ UNCHANGED <<c2s, crd, hdr, users, cpc, intent, learned, cpkt, dictName, sfId, kept, session>>

\* handle_connection's second header, after either engine: 828 starts
\* SendFile, a short header raises struct.error out of the thread,
\* anything else closes.
AfterAuth ==
    /\ spc = "AfterAuth" /\ CanRecv(REQUEST_HEADER_SIZE)
    /\ \E k \in RecvLengths(REQUEST_HEADER_SIZE) :
         LET bs == Read(k) IN
         /\ srd' = srd + k
         /\ IF HeaderUnpacks(bs) /\ UnpackHeader(bs).code = SEND_FILE_REQUEST
            THEN hdr' = UnpackHeader(bs) /\ spc' = "SfPayload"
            ELSE spc' = "Closed" /\ UNCHANGED hdr
    /\ UNCHANGED <<c2s, crd, s2c, users, cpc, intent, learned, cpkt, dictName, sfId, kept, session>>

\* save_user_file_data: the UserFile is created from the first packet only;
\* add_packet_data stores the content under its packet number.
SaveFile(f, d) ==
    LET g == IF f = NoFile
             THEN [NoFile EXCEPT !.file_name = d.file_name,
                     !.total_packets = d.total_packets, !.size = d.content_size]
             ELSE f
    IN [g EXCEPT !.packets = (d.packet_number :> d.message_content) @@ g.packets]

\* decrypt_and_write_file_data_to_memory's loop: packet i contributes its
\* first min(1024, encrypted_content_size - i * 1024) bytes.
Reassembled(f) ==
    FoldLeft(LAMBDA acc, i : acc \o Prefix(f.packets[i],
                 Lesser(1024, f.size - i * 1024)),
             <<>>, [j \in 1 .. f.total_packets |-> j - 1])

\* Every packet number 0 .. total_packets - 1 is present (else ValueError).
AllPackets(f) ==
    /\ Cardinality(DOMAIN f.packets) = f.total_packets
    /\ \A i \in DOMAIN f.packets : i < f.total_packets

\* decrypt_file_with_aes_key (AES-CBC, zero IV, unpad) and the checksum of
\* the result, under the key this connection delivered: the client's
\* ciphertext gives its plaintext and Crc; a length that is not a multiple
\* of 16 raises ValueError (0 here), and other bytes either fail unpad or
\* decrypt to another plaintext.
DecryptedCrc(ct) ==
    IF Len(ct) % 16 # 0 THEN {0}
    ELSE IF ct = ClientCiphertext THEN {Crc} ELSE {0, Crc + 1}

\* SendFileRequestProtocol.protocol: an unknown client_id returns at once
\* (does_uuid_already_exist); recv(payload_size) and get_payload_dict
\* (struct.error on a short payload) and save_user_file_data; if
\* incomplete, on to the next header; else decryption (a missing packet or
\* bad padding raises ValueError; a wrong ciphertext that unpads gives
\* another CRC) and 1603.  Only OSError is caught, so every failure ends
\* the thread without a response.
SfPayload ==
    /\ spc = "SfPayload"
    /\ IF ~DoesUUIDAlreadyExist(hdr.client_id)
       THEN /\ spc' = "Closed" /\ UNCHANGED <<srd, s2c, users, dictName, sfId>>
       ELSE /\ CanRecv(hdr.payload_size)
            /\ \E k \in RecvLengths(hdr.payload_size) :
                 LET bs == Read(k)
                     d == GetPayloadDict(bs)
                     f == SaveFile(users[hdr.client_id].file, d)
                 IN /\ srd' = srd + k
                    /\ IF ~SendFileUnpacks(bs)
                       THEN spc' = "Closed" /\ UNCHANGED <<s2c, users, dictName, sfId>>
                       ELSE /\ users' = [users EXCEPT ![hdr.client_id].file = f]
                            /\ dictName' = d.file_name
                            /\ sfId' = hdr.client_id
                            /\ IF Cardinality(DOMAIN f.packets) # f.total_packets
                               THEN spc' = "SfHeader" /\ UNCHANGED s2c
                               ELSE IF ~AllPackets(f)
                               THEN spc' = "Closed" /\ UNCHANGED s2c
                               ELSE \E crc \in DecryptedCrc(Reassembled(f)) :
                                      IF crc = 0
                                      THEN spc' = "Closed" /\ UNCHANGED s2c
                                      ELSE /\ spc' = "CrcHeader"
                                           /\ Respond(BuildFileReceivedCrc(SERVER_VERSION,
                                                 hdr.client_id, f.size, d.file_name, crc))
    /\ UNCHANGED <<c2s, crd, hdr, cpc, intent, learned, cpkt, kept, session>>

\* The next packet's header: a short one raises struct.error out of the
\* thread; another client_id than the user's or another code gets
\* GeneralError and the engine returns; else the engine recurses.
SfHeader ==
    /\ spc = "SfHeader" /\ CanRecv(REQUEST_HEADER_SIZE)
    /\ \E k \in RecvLengths(REQUEST_HEADER_SIZE) :
         LET bs == Read(k) IN
         /\ srd' = srd + k
         /\ IF ~HeaderUnpacks(bs)
            THEN spc' = "Closed" /\ UNCHANGED <<hdr, s2c>>
            ELSE IF UnpackHeader(bs).client_id # hdr.client_id
                    \/ UnpackHeader(bs).code # SEND_FILE_REQUEST
            THEN /\ spc' = "Closed" /\ UNCHANGED hdr
                 /\ Respond(BuildGeneralError(SERVER_VERSION))
            ELSE hdr' = UnpackHeader(bs) /\ spc' = "SfPayload" /\ UNCHANGED s2c
    /\ UNCHANGED <<c2s, crd, users, cpc, intent, learned, cpkt, dictName, sfId, kept, session>>

\* receive_client_crc_conformation_message's header read.
CrcHeader ==
    /\ spc = "CrcHeader" /\ CanRecv(REQUEST_HEADER_SIZE)
    /\ \E k \in RecvLengths(REQUEST_HEADER_SIZE) :
         LET bs == Read(k) IN
         /\ srd' = srd + k
         /\ IF HeaderUnpacks(bs)
            THEN hdr' = UnpackHeader(bs) /\ spc' = "CrcPayload"
            ELSE spc' = "Closed" /\ UNCHANGED hdr
    /\ UNCHANGED <<c2s, crd, s2c, users, cpc, intent, learned, cpkt, dictName, sfId, kept, session>>

\* The check "code != 900 and code != 901 and 902", as written.
CrcCodeRejected(code) == code # ADEQUATE_CRC_VALUE /\ code # INADEQUATE_CRC_VALUE

\* Its payload read and checks (each failure a ValueError out of the
\* thread), then handle_crc_conformation_code: 900 is thanked, 901
\* returns; the dispatcher closes.
CrcPayload ==
    /\ spc = "CrcPayload" /\ CanRecv(hdr.payload_size)
    /\ \E k \in RecvLengths(hdr.payload_size) :
         LET bs == Read(k) IN
         /\ srd' = srd + k
         /\ IF /\ hdr.client_id = sfId /\ CrcFileName(bs) = dictName
               /\ hdr.payload_size = NAME_LENGTH_BYTES
               /\ ~CrcCodeRejected(hdr.code) /\ hdr.code = ADEQUATE_CRC_VALUE
            THEN Respond(BuildThanks(SERVER_VERSION, hdr.client_id))
            ELSE UNCHANGED s2c
    /\ spc' = "Closed"
    /\ UNCHANGED <<c2s, crd, hdr, users, cpc, intent, learned, cpkt, dictName, sfId, kept, session>>

-----------------------------------------------------------------------------
(***************************************************************************)
(* The course client, as the spec (sections 4.1 and 4.6) describes it: it  *)
(* reconnects with the uuid it kept, or registers and keeps the uuid it   *)
(* is given; it writes each request                                        *)
(* whole and reads a response as a 7-byte header and payload_size bytes.   *)
(***************************************************************************)
\* A request header: '<16sBHI'.
RequestHeaderBytes(cid, code, size) ==
    PackBytes(cid, 16) \o PackUInt(SERVER_VERSION, 1) \o PackUInt(code, 2)
    \o PackUInt(size, 4)

RegisterFrame ==
    RequestHeaderBytes(<<>>, REGISTER_REQUEST, REGISTER_REQUEST_PAYLOAD_SIZE)
    \o PackBytes(intent.name, NAME_LENGTH_BYTES)
ReconnectFrame(uuid) ==
    RequestHeaderBytes(uuid, RECONNECT_TO_SERVER_REQUEST,
                       RECONNECTION_REQUEST_PAYLOAD_SIZE)
    \o PackBytes(intent.name, NAME_LENGTH_BYTES)
PublicKeyFrame(uuid) ==
    RequestHeaderBytes(uuid, SEND_PUBLIC_KEY_REQUEST, PUBLIC_KEY_PAYLOAD_SIZE)
    \o PackBytes(intent.name, 255) \o intent.public_key
\* Packet i of the file: content size, original size, packet number, total
\* packets, name, and the packet's content.
SendFileFrame(uuid, i) ==
    RequestHeaderBytes(uuid, SEND_FILE_REQUEST, SEND_FILE_REQUEST_PAYLOAD_SIZE)
    \o PackUInt(intent.size, 4) \o PackUInt(intent.size, 4)
    \o PackUInt(i, 2) \o PackUInt(TotalPackets, 2)
    \o PackBytes(intent.file_name, 255) \o PacketContent(i)
CrcFrame(uuid, code) ==
    RequestHeaderBytes(uuid, code, NAME_LENGTH_BYTES)
    \o PackBytes(intent.file_name, NAME_LENGTH_BYTES)

Send(bs) == c2s' = c2s \o bs

ClientStart ==
    /\ cpc = "Start"
    /\ IF kept # <<>>
       THEN Send(ReconnectFrame(kept)) /\ cpc' = "AwaitReconnect"
       ELSE Send(RegisterFrame) /\ cpc' = "AwaitRegister"
    /\ UNCHANGED <<srd, s2c, crd, spc, hdr, users, intent, learned, cpkt,
                   dictName, sfId, kept, session>>

\* The next response, read as the spec frames it.
Unread == SubSeq(s2c, crd + 1, Len(s2c))
RespCode == UnpackUInt(Field(Unread, 2, 2))
RespSize == UnpackUInt(Field(Unread, 4, 4))
FrameReady == Len(Unread) >= 7 /\ Len(Unread) >= 7 + RespSize
RespPayload == Field(Unread, 8, RespSize)

Awaiting == {"AwaitRegister", "AwaitReconnect", "AwaitKey", "AwaitCrc",
             "AwaitThanks"}

\* The client's reaction to a whole response: the expected code moves the
\* dialog on, any other code (1601, 1607) ends it.  A 1606 carries the new
\* uuid, which the client keeps and under which it sends its public key.
ClientReceive ==
    /\ cpc \in Awaiting /\ FrameReady
    /\ crd' = crd + 7 + RespSize
    /\ LET uuid == Field(RespPayload, 1, 16)
           key == Field(RespPayload, 17, 128)
       IN
       CASE \/ cpc = "AwaitRegister" /\ RespCode = REGISTERED_SUCCESSFULLY
            \/ cpc = "AwaitReconnect" /\ RespCode = DISAPPROVED_RECONNECT_REQUEST ->
              /\ learned' = [learned EXCEPT !.uuid = uuid]
              /\ kept' = uuid
              /\ Send(PublicKeyFrame(uuid))
              /\ cpc' = "AwaitKey"
         [] cpc = "AwaitReconnect"
              /\ RespCode = APPROVED_RECONNECT_REQUEST_SENDING_ENCRYPTED_AES_KEY ->
              /\ learned' = [learned EXCEPT !.uuid = uuid, !.key = key]
              /\ cpc' = "Sending" /\ UNCHANGED <<c2s, kept>>
         [] cpc = "AwaitKey"
              /\ RespCode = PUBLIC_KEY_RECEIVED_SENDING_ENCRYPTED_AES_KEY ->
              /\ learned' = [learned EXCEPT !.key = key]
              /\ cpc' = "Sending" /\ UNCHANGED <<c2s, kept>>
         [] cpc = "AwaitCrc" /\ RespCode = FILE_RECEIVED_SUCCESSFULLY_WITH_CRC ->
              LET crc == UnpackUInt(Field(RespPayload, 276, 4)) IN
              /\ learned' = [learned EXCEPT
                               !.size = UnpackUInt(Field(RespPayload, 17, 4)),
                               !.file_name = RStripNul(Field(RespPayload, 21, 255)),
                               !.crc = crc]
              /\ Send(CrcFrame(learned.uuid, IF crc = Crc THEN ADEQUATE_CRC_VALUE
                                             ELSE INADEQUATE_CRC_VALUE))
              /\ cpc' = "AwaitThanks" /\ UNCHANGED kept
         [] cpc = "AwaitThanks" /\ RespCode = RECEIVE_MESSAGE_THANKS ->
              cpc' = "Done" /\ UNCHANGED <<c2s, learned, kept>>
         [] OTHER -> cpc' = "Failed" /\ UNCHANGED <<c2s, learned, kept>>
    /\ UNCHANGED <<srd, s2c, spc, hdr, users, intent, cpkt, dictName, sfId,
                   session>>

\* The packets go out one after another, with no response in between.
ClientSendPacket ==
    /\ cpc = "Sending"
    /\ Send(SendFileFrame(learned.uuid, cpkt))
    /\ cpkt' = cpkt + 1
    /\ cpc' = IF cpkt + 1 = TotalPackets THEN "AwaitCrc" ELSE "Sending"
    /\ UNCHANGED <<srd, s2c, crd, spc, hdr, users, intent, learned, dictName, sfId, kept, session>>

\* The server closed the socket while the client waits: no answer at all,
\* or a response shorter than its header announces.
ClientEof ==
    /\ cpc \in Awaiting /\ spc = "Closed" /\ ~FrameReady
    /\ cpc' = IF Unread = <<>> THEN "Dropped" ELSE "Broken"
    /\ UNCHANGED <<c2s, srd, s2c, crd, spc, hdr, users, intent, learned, cpkt,
                   dictName, sfId, kept, session>>

\* The client process dies between two frames; the OS closes its socket.
\* Whatever it has written stays in the server's receive buffer.
ClientCrash ==
    /\ cpc \in Awaiting \cup {"Sending"}
    /\ cpc' = "Crashed"
    /\ UNCHANGED <<c2s, srd, s2c, crd, spc, hdr, users, intent, learned, cpkt,
                   dictName, sfId, kept, session>>

\* Server.run: accept() hands the client's next connection to a new thread
\* with a fresh socket and fresh locals; the UserDatabase is the same.  The
\* client is run again, with the uuid it kept, after any outcome but 1604.
NewSession ==
    /\ spc = "Closed" /\ ClientClosed /\ cpc # "Done"
    /\ session < MaxSessions
    /\ c2s' = <<>> /\ srd' = 0 /\ s2c' = <<>> /\ crd' = 0
    /\ spc' = "Start" /\ hdr' = NoHeader /\ dictName' = <<>> /\ sfId' = <<>>
    /\ cpc' = "Start" /\ learned' = NoLearned /\ cpkt' = 0
    /\ session' = session + 1
    /\ UNCHANGED <<users, intent, kept>>

\* Both ends have closed and no connection follows.
Finished ==
    /\ spc = "Closed" /\ ClientClosed /\ UNCHANGED vars

Next ==
    \/ Dispatch \/ RegPayload \/ PkHeader \/ PkPayload \/ RcPayload
    \/ RcPkPayload \/ AfterAuth \/ SfPayload \/ SfHeader \/ CrcHeader
    \/ CrcPayload
    \/ ClientStart \/ ClientReceive \/ ClientSendPacket \/ ClientEof
    \/ ClientCrash \/ NewSession \/ Finished

Spec == Init /\ [][Next]_vars

-----------------------------------------------------------------------------
\* Every field survives its trip through the codec, and every uuid the
\* client learns names its own user: the server stores the name, key, file
\* name and size the client packed; the uuid the client decodes from 1600,
\* 1605 or 1606 is a registered user of the client's name, the wrapped key
\* it decodes is the server's, and the file name, size and checksum of 1603
\* are the ones it uploaded.  This is about the struct formats and the
\* single recv calls of Request.py, the Register and Reconnect engines and
\* the builders of Response.py agreeing with the client's layout.
FieldsRoundTrip ==
    /\ NewUUID \in DOMAIN users =>
          /\ users[NewUUID].name = intent.name
          /\ users[NewUUID].public_key \in {<<>>, intent.public_key}
    /\ \A u \in DOMAIN users :
          users[u].file # NoFile => /\ users[u].file.file_name = intent.file_name
                                    /\ users[u].file.size = intent.size
    /\ learned.uuid # <<>> => /\ DoesUUIDAlreadyExist(learned.uuid)
                              /\ users[learned.uuid].name = intent.name
    /\ learned.key # <<>> => learned.key = WrappedKey
    /\ learned.crc # 0 => /\ learned.file_name = intent.file_name
                          /\ learned.size = intent.size
                          /\ learned.crc = Crc

\* Spec section 4.1: every response the client reads is a whole frame, its
\* header's payload_size bytes followed by the payload; the server never
\* closes in the middle of a response it sent.
ClientReadsWholeFrames == cpc # "Broken"
=============================================================================
