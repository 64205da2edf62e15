------------------------------- MODULE Codec -------------------------------
(***************************************************************************)
(* The wire codec of the server (src/server-side/Request.py, Response.py)  *)
(* as pure operators on byte sequences: a byte is a number in 0..255, a    *)
(* text field is the sequence of its (ASCII) bytes.  Every struct format   *)
(* of the code is little-endian ('<') or has only 's' fields, so no        *)
(* alignment padding occurs.                                               *)
(***************************************************************************)
EXTENDS Naturals, Sequences, SequencesExt

NUL == 0

\* struct.pack of an unsigned 'B', 'H' or 'I' field of w bytes: least
\* significant byte first.
PackUInt(x, w) == [i \in 1 .. w |-> (x \div 256 ^ (i - 1)) % 256]

\* struct.unpack of an unsigned little-endian field.
RECURSIVE UnpackUInt(_)
UnpackUInt(bs) == IF bs = <<>> THEN 0 ELSE Head(bs) + 256 * UnpackUInt(Tail(bs))

\* struct.pack of an 's' field of width w: cut to w bytes, padded with NUL.
PackBytes(s, w) ==
    IF Len(s) >= w THEN SubSeq(s, 1, w)
    ELSE s \o [i \in 1 .. w - Len(s) |-> NUL]

\* bytes.decode('utf-8').rstrip('\x00'): trailing NUL bytes removed.
RStripNul(s) == SubSeq(s, 1, SelectLastInSeq(s, LAMBDA b : b # NUL))

\* The w bytes of bs from position from on: one field of a struct.unpack.
Field(bs, from, w) == SubSeq(bs, from, from + w - 1)

\* Python's slice bs[:k]: a negative k counts from the end.
Prefix(bs, k) ==
    LET e == IF k < 0 THEN Len(bs) + k ELSE k
    IN SubSeq(bs, 1, IF e < 0 THEN 0 ELSE IF e < Len(bs) THEN e ELSE Len(bs))

-----------------------------------------------------------------------------
(***************************************************************************)
(* Requests (Request.py)                                                   *)
(***************************************************************************)
REQUEST_HEADER_SIZE == 23
REGISTER_REQUEST_PAYLOAD_SIZE == 255
SEND_FILE_REQUEST_PAYLOAD_SIZE == 1291
RECONNECTION_REQUEST_PAYLOAD_SIZE == 255
SEND_FILE_REQUEST_HEADER_EXTRAS_SIZE == 267
NAME_LENGTH_BYTES == 255
\* ClientRequestCodes.
REGISTER_REQUEST == 825
SEND_PUBLIC_KEY_REQUEST == 826
RECONNECT_TO_SERVER_REQUEST == 827
SEND_FILE_REQUEST == 828
ADEQUATE_CRC_VALUE == 900
INADEQUATE_CRC_VALUE == 901
INADEQUATE_CRC_VALUE_FOR_THE_FORTH_TIME == 902
\* struct.calcsize of "255s 160s" and of '<I I H H 255s 1024s'.
PUBLIC_KEY_PAYLOAD_SIZE == 255 + 160
SEND_FILE_PAYLOAD_FORMAT_SIZE == 4 + 4 + 2 + 2 + 255 + 1024

\* RequestHeader.unpack_header: struct.unpack('<16sBHI', header_data); any
\* other length than 23 raises struct.error.
HeaderUnpacks(bs) == Len(bs) = REQUEST_HEADER_SIZE
UnpackHeader(bs) ==
    [client_id |-> Field(bs, 1, 16), client_version |-> bs[17],
     code |-> UnpackUInt(Field(bs, 18, 2)),
     payload_size |-> UnpackUInt(Field(bs, 20, 4))]

\* RegisterRequestProtocol: payload[:255].decode('utf-8').rstrip('\x00').
RegisterUsername(payload) == RStripNul(Prefix(payload, NAME_LENGTH_BYTES))

\* receive_public_key: struct.unpack("255s 160s", payload_data), which
\* raises struct.error unless the data is exactly 415 bytes.
PublicKeyUnpacks(bs) == Len(bs) = PUBLIC_KEY_PAYLOAD_SIZE
PublicKeyPayload(bs) ==
    [username |-> RStripNul(Field(bs, 1, 255)), public_key |-> Field(bs, 256, 160)]

\* Mutant: the file name field taken one byte late.
GetPayloadDictNameShifted(bs) ==
    [content_size |-> UnpackUInt(Field(bs, 1, 4)),
     orig_file_size |-> UnpackUInt(Field(bs, 5, 4)),
     packet_number |-> UnpackUInt(Field(bs, 9, 2)),
     total_packets |-> UnpackUInt(Field(bs, 11, 2)),
     file_name |-> RStripNul(Field(bs, 14, 255)),
     message_content |->
        SubSeq(bs, SEND_FILE_REQUEST_HEADER_EXTRAS_SIZE + 1, Len(bs))]

\* SendFileRequestProtocol.get_payload_dict: struct.unpack of
\* '<I I H H 255s 1024s' (exactly 1291 bytes, else struct.error), and the
\* message content sliced from byte 267 on.
SendFileUnpacks(bs) == Len(bs) = SEND_FILE_PAYLOAD_FORMAT_SIZE
GetPayloadDict(bs) ==
    [content_size |-> UnpackUInt(Field(bs, 1, 4)),
     orig_file_size |-> UnpackUInt(Field(bs, 5, 4)),
     packet_number |-> UnpackUInt(Field(bs, 9, 2)),
     total_packets |-> UnpackUInt(Field(bs, 11, 2)),
     file_name |-> RStripNul(Field(bs, 13, 255)),
     message_content |->
        SubSeq(bs, SEND_FILE_REQUEST_HEADER_EXTRAS_SIZE + 1, Len(bs))]

\* receive_client_crc_conformation_message: the file name of the payload.
CrcFileName(payload) == RStripNul(payload)

-----------------------------------------------------------------------------
(***************************************************************************)
(* Responses (Response.py): a response is its header fields and payload.  *)
(***************************************************************************)
ResponseHeader(v, code, size) ==
    [server_version |-> v, response_code |-> code, payload_size |-> size]
Resp(h, payload) == [header |-> h, payload |-> payload]

\* ResponseHeader.pack_header: struct.pack('<B H I', ...), 7 bytes.
PackHeader(h) ==
    PackUInt(h.server_version, 1) \o PackUInt(h.response_code, 2)
    \o PackUInt(h.payload_size, 4)

\* Response.pack_message_header_with_payload, the bytes sendall writes.
PackMessage(r) == PackHeader(r.header) \o r.payload

\* ResponsesCodes and ResponsesPayloadSize.
REGISTERED_SUCCESSFULLY == 1600
REGISTRATION_FAILED == 1601
PUBLIC_KEY_RECEIVED_SENDING_ENCRYPTED_AES_KEY == 1602
FILE_RECEIVED_SUCCESSFULLY_WITH_CRC == 1603
RECEIVE_MESSAGE_THANKS == 1604
APPROVED_RECONNECT_REQUEST_SENDING_ENCRYPTED_AES_KEY == 1605
DISAPPROVED_RECONNECT_REQUEST == 1606
GENERAL_SERVER_ERROR == 1607
REGISTER_REQUEST_RESPONSE_PAYLOAD_SIZE == 16
SEND_FILE_RECEIVED_CRC_RESPONSE_PAYLOAD_SIZE == 279
RECEIVE_MESSAGE_THANKS_PAYLOAD_SIZE == 255
DISAPPROVED_RECONNECT_REQUEST_PAYLOAD_SIZE == 16
APPROVED_RECONNECT_REQUEST_SENDING_ENCRYPTED_AES_KEY_PAYLOAD_SIZE == 144
SEND_ENCRYPTED_AES_KEY_RESPONSE_PAYLOAD_SIZE == 144

BuildRegisterSuccess(v, uuid) ==
    Resp(ResponseHeader(v, REGISTERED_SUCCESSFULLY,
                        REGISTER_REQUEST_RESPONSE_PAYLOAD_SIZE), PackBytes(uuid, 16))
BuildRegistrationFailed(v) == Resp(ResponseHeader(v, REGISTRATION_FAILED, 0), <<>>)
\* The 144-byte payload format f'16s{144 - 16}s'.
BuildSendEncryptedAesKey(v, uuid, key) ==
    Resp(ResponseHeader(v, PUBLIC_KEY_RECEIVED_SENDING_ENCRYPTED_AES_KEY,
                        SEND_ENCRYPTED_AES_KEY_RESPONSE_PAYLOAD_SIZE),
         PackBytes(uuid, 16)
         \o PackBytes(key, SEND_ENCRYPTED_AES_KEY_RESPONSE_PAYLOAD_SIZE - 16))
\* '<16s I 255s I': client id, content size, file name, checksum.
BuildFileReceivedCrc(v, cid, size, name, crc) ==
    Resp(ResponseHeader(v, FILE_RECEIVED_SUCCESSFULLY_WITH_CRC,
                        SEND_FILE_RECEIVED_CRC_RESPONSE_PAYLOAD_SIZE),
         PackBytes(cid, 16) \o PackUInt(size, 4) \o PackBytes(name, 255)
         \o PackUInt(crc, 4))
\* Header payload_size 255, payload the bare client id.
BuildThanks(v, cid) ==
    Resp(ResponseHeader(v, RECEIVE_MESSAGE_THANKS, RECEIVE_MESSAGE_THANKS_PAYLOAD_SIZE), cid)
BuildReconnectAccepted(v, cid, key) ==
    Resp(ResponseHeader(v, APPROVED_RECONNECT_REQUEST_SENDING_ENCRYPTED_AES_KEY,
                        APPROVED_RECONNECT_REQUEST_SENDING_ENCRYPTED_AES_KEY_PAYLOAD_SIZE),
         PackBytes(cid, 16)
         \o PackBytes(key, SEND_ENCRYPTED_AES_KEY_RESPONSE_PAYLOAD_SIZE - 16))
\* The payload is the new uuid, unpacked (it is 16 bytes).
BuildReconnectRejected(v, cid) ==
    Resp(ResponseHeader(v, DISAPPROVED_RECONNECT_REQUEST,
                        DISAPPROVED_RECONNECT_REQUEST_PAYLOAD_SIZE), cid)
BuildGeneralError(v) == Resp(ResponseHeader(v, GENERAL_SERVER_ERROR, 0), <<>>)
=============================================================================
