----------------------------- MODULE FileServer -----------------------------
(***************************************************************************)
(* The server: one thread per accepted connection (Server.handle_client),  *)
(* each running the dispatcher Server.handle_connection and the protocol   *)
(* engines of protocols.py against the shared UserDatabase.                *)
(*                                                                         *)
(* Server.get_database() holds database_lock only while it returns the     *)
(* reference, so no registry call runs under the lock: a thread's steps    *)
(* are cut at its registry calls, and the socket reads and local work      *)
(* between two calls are folded into the step of the call that follows.   *)
(*                                                                         *)
(* The peer of a connection is the course's client: it uses the ids and    *)
(* keys the server gave it, sends each packet of its upload once in any    *)
(* order, and answers the CRC honestly; it may also disconnect at any read *)
(* or send a header the server does not expect.  Which name and uuid a     *)
(* reconnect carries is left free.                                         *)
(***************************************************************************)
EXTENDS Naturals, FiniteSets, Functions, UserDatabase

CONSTANTS
    Conns,        \* connection threads that may run at the same time
    Names,        \* usernames clients send
    FileNames,    \* file names clients upload
    PubKeys,      \* RSA public keys that import_key accepts
    NoName, NoUUID, NoUpload,
    MaxPackets,   \* bound on total_packets of an upload
    MaxAesKeys,   \* bound on the number of AES keys compute_new_aes_key makes
    MaxSessions,  \* bound on the number of connections accepted
    StrangerPeers \* whether peers other than the course client connect

ASSUME MaxPackets \in Nat \ {0}
ASSUME StrangerPeers \in BOOLEAN
ASSUME Cardinality(UUIDs) >= MaxSessions

VARIABLES
    users,     \* UserDatabase.users
    conn,      \* conn[c]: the thread serving connection slot c
    aesKeys,   \* AES keys made so far; key k is the k-th one
    sessions   \* connections accepted so far

vars == <<users, conn, aesKeys, sessions>>

\* Request and response codes (Request.ClientRequestCodes, ResponsesCodes).
SEND_FILE_REQUEST == 828
ADEQUATE_CRC_VALUE == 900
INADEQUATE_CRC_VALUE == 901
INADEQUATE_CRC_VALUE_FOR_THE_FORTH_TIME == 902
REGISTERED_SUCCESSFULLY == 1600
REGISTRATION_FAILED == 1601
PUBLIC_KEY_RECEIVED_SENDING_ENCRYPTED_AES_KEY == 1602
FILE_RECEIVED_SUCCESSFULLY_WITH_CRC == 1603
RECEIVE_MESSAGE_THANKS == 1604
APPROVED_RECONNECT_REQUEST_SENDING_ENCRYPTED_AES_KEY == 1605
DISAPPROVED_RECONNECT_REQUEST == 1606
GENERAL_SERVER_ERROR == 1607
NoResponse == 0
NoKey == 0

AesKeys == 1 .. MaxAesKeys
Packet == [key : AesKeys \cup {NoKey}, upload : FileNames \X (1 .. MaxPackets)]
File == [file_name : FileNames, total_packets : 1 .. MaxPackets,
         packets : UNION {[P -> Packet] : P \in SUBSET (0 .. MaxPackets - 1)},
         crc : {"none", "match", "mismatch"}]
User == [name : Names, public_key : {EmptyPublicKey} \cup PubKeys,
         aes_key : AesKeys, file : File \cup {NoFile}]

Pcs == {"Closed", "Start", "RegCheck", "RegAdd", "RegPubKey", "RegGetAes",
        "AfterAuth", "SfEntry", "SfCheck", "SfDecrypt", "SfCrc",
        "RecCheck", "RecRemove", "RecAdd", "RecPubKey", "RecRotate",
        "RecClear", "RecSend"}

(***************************************************************************)
(* A connection thread: where it is, the engine it runs, the name and uuid *)
(* it works on, the AES key the reconnect engine made (aes) and the key it *)
(* delivered to the client (key), the upload its client is sending, the    *)
(* last response sent, the CRC code received, whether the peer broke off   *)
(* or broke the protocol, and whether the spec's reconnect-accept          *)
(* condition held when the reconnect engine decided.                       *)
(***************************************************************************)
Conn == [pc : Pcs, kind : {"none", "register", "reconnect"},
         name : Names \cup {NoName}, uuid : UUIDs \cup {NoUUID},
         aes : AesKeys \cup {NoKey}, key : AesKeys \cup {NoKey},
         upload : (FileNames \X (1 .. MaxPackets)) \cup {NoUpload},
         sent : SUBSET (0 .. MaxPackets - 1),
         resp : {NoResponse} \cup (1600 .. 1607),
         crcCode : {0, 900, 901, 902}, fault : BOOLEAN, specAccept : BOOLEAN]

ClosedConn ==
    [pc |-> "Closed", kind |-> "none", name |-> NoName, uuid |-> NoUUID,
     aes |-> NoKey, key |-> NoKey, upload |-> NoUpload, sent |-> {},
     resp |-> NoResponse, crcCode |-> 0, fault |-> FALSE,
     specAccept |-> FALSE]

TypeOK ==
    /\ users \in [UUIDs -> User \cup {NoUser, PoppedUser}]
    /\ conn \in [Conns -> Conn]
    /\ aesKeys \in 0 .. MaxAesKeys
    /\ sessions \in 0 .. MaxSessions

Init ==
    /\ users = [u \in UUIDs |-> NoUser]
    /\ conn = [c \in Conns |-> ClosedConn]
    /\ aesKeys = 0
    /\ sessions = 0

\* compute_new_aes_key: the next unused key, within the bound.
NewAesKey == aesKeys + 1
CanMakeKeys(k) == aesKeys + k <= MaxAesKeys

\* The thread ends: handle_client's finally closes the socket.
Closed(c) == [conn EXCEPT ![c].pc = "Closed"]
\* An engine sent GeneralError and returned to the dispatcher.
ErrorTo(c, next) ==
    [conn EXCEPT ![c].pc = next, ![c].resp = GENERAL_SERVER_ERROR]

(***************************************************************************)
(* Server.run: a new connection is accepted on a free thread slot.         *)
(***************************************************************************)
Accept(c) ==
    /\ conn[c].pc = "Closed"
    /\ sessions < MaxSessions
    /\ conn' = [conn EXCEPT ![c] = [ClosedConn EXCEPT !.pc = "Start"]]
    /\ sessions' = sessions + 1
    /\ UNCHANGED <<users, aesKeys>>

(***************************************************************************)
(* Server.handle_connection reads the first header and routes on its code; *)
(* the engine's payload read is part of this step.  A reconnect header     *)
(* whose payload_size is not 255 raises ValueError, which the engine's     *)
(* except OSError does not catch: the thread ends without a response.      *)
(***************************************************************************)
HandleConnection(c) ==
    /\ conn[c].pc = "Start"
    /\ \/ \E n \in Names :
            conn' = [conn EXCEPT ![c].pc = "RegCheck", ![c].kind = "register",
                                 ![c].name = n]
       \/ \E n \in Names, cid \in UUIDs :
            conn' = [conn EXCEPT ![c].pc = "RecCheck", ![c].kind = "reconnect",
                                 ![c].name = n, ![c].uuid = cid]
       \/ conn' = [conn EXCEPT ![c].pc = "Closed", ![c].kind = "reconnect",
                               ![c].fault = TRUE]
       \/ conn' = [ErrorTo(c, "Closed") EXCEPT ![c].fault = TRUE]
    /\ UNCHANGED <<users, aesKeys, sessions>>

(***************************************************************************)
(* RegisterRequestProtocol.protocol                                        *)
(***************************************************************************)
\* Mutant: registration without the is_username_already_registered test.
RegCheckSkipsName(c) ==
    /\ conn[c].pc = "RegCheck"
    /\ conn' = [conn EXCEPT ![c].pc = "RegAdd"]
    /\ UNCHANGED <<users, aesKeys, sessions>>

\* A taken name raises inside the try: RegistrationFailed, then return to
\* the dispatcher.
RegCheck(c) ==
    /\ conn[c].pc = "RegCheck"
    /\ IF IsUsernameAlreadyRegistered(users, conn[c].name)
       THEN conn' = [conn EXCEPT ![c].pc = "AfterAuth",
                                 ![c].resp = REGISTRATION_FAILED]
       ELSE conn' = [conn EXCEPT ![c].pc = "RegAdd"]
    /\ UNCHANGED <<users, aesKeys, sessions>>

\* add_new_user_to_database, then RegisteredSuccessfully(uuid).
RegAdd(c) ==
    /\ conn[c].pc = "RegAdd"
    /\ CanMakeKeys(1)
    /\ \E u \in FreeUUIDs(users) :
          /\ users' = AddNewUserToDatabase(users, u, conn[c].name, NewAesKey)
          /\ conn' = [conn EXCEPT ![c].pc = "RegPubKey", ![c].uuid = u,
                                  ![c].resp = REGISTERED_SUCCESSFULLY]
    /\ aesKeys' = NewAesKey
    /\ UNCHANGED sessions

\* receive_public_key, RSA.import_key and set_new_user_public_key.  Any
\* exception is caught: GeneralError and return to the dispatcher.
RegPubKey(c) ==
    /\ conn[c].pc = "RegPubKey"
    /\ \/ LET M == NamedUsers(users, conn[c].name) IN
          IF M = {}
          THEN /\ conn' = ErrorTo(c, "AfterAuth")
               /\ UNCHANGED <<users, aesKeys>>
          ELSE /\ CanMakeKeys(Cardinality(M))
               /\ \E pk \in PubKeys,
                     fresh \in Injection(M, NewAesKey .. aesKeys + Cardinality(M)) :
                     users' = SetNewUserPublicKey(users, conn[c].name, pk, fresh)
               /\ aesKeys' = aesKeys + Cardinality(M)
               /\ conn' = [conn EXCEPT ![c].pc = "RegGetAes"]
       \/ /\ conn' = [ErrorTo(c, "AfterAuth") EXCEPT ![c].fault = TRUE]
          /\ UNCHANGED <<users, aesKeys>>
    /\ UNCHANGED sessions

\* get_user_by_uuid(uuid).get_aes_key(), wrapped and sent in 1602.
RegGetAes(c) ==
    /\ conn[c].pc = "RegGetAes"
    /\ conn' = IF ~DoesUUIDAlreadyExist(users, conn[c].uuid)
               THEN ErrorTo(c, "AfterAuth")
               ELSE [conn EXCEPT ![c].pc = "AfterAuth",
                       ![c].key = users[conn[c].uuid].aes_key,
                       ![c].resp = PUBLIC_KEY_RECEIVED_SENDING_ENCRYPTED_AES_KEY]
    /\ UNCHANGED <<users, aesKeys, sessions>>

(***************************************************************************)
(* Server.handle_connection after an engine returns: one more header; a    *)
(* SendFile header starts SendFileRequestProtocol, anything else closes.   *)
(* The course client uploads only once it holds an AES key, under its own *)
(* uuid.  A stranger peer, one the engine refused (RegistrationFailed or    *)
(* GeneralError, so it holds no key), may still send a SendFile header with *)
(* any client_id: the dispatcher does not look at how the engine ended.     *)
(***************************************************************************)
AfterAuth(c) ==
    /\ conn[c].pc = "AfterAuth"
    /\ \/ /\ conn[c].key # NoKey
          /\ \E f \in FileNames, t \in 1 .. MaxPackets :
                conn' = [conn EXCEPT ![c].pc = "SfEntry",
                                     ![c].upload = <<f, t>>, ![c].sent = {}]
       \/ /\ StrangerPeers /\ conn[c].key = NoKey
          /\ \E u \in UUIDs, f \in FileNames, t \in 1 .. MaxPackets :
                conn' = [conn EXCEPT ![c].pc = "SfEntry", ![c].uuid = u,
                                     ![c].upload = <<f, t>>, ![c].sent = {}]
       \/ conn' = Closed(c)
    /\ UNCHANGED <<users, aesKeys, sessions>>

(***************************************************************************)
(* SendFileRequestProtocol.protocol, one recursion per packet.             *)
(***************************************************************************)
\* does_uuid_already_exist, the payload read and save_user_file_data.  An
\* unknown uuid raises KeyError, which except OSError does not catch.
SfEntry(c) ==
    LET u == conn[c].uuid
        up == conn[c].upload
    IN /\ conn[c].pc = "SfEntry"
       /\ IF ~DoesUUIDAlreadyExist(users, u)
          THEN /\ conn' = Closed(c)
               /\ UNCHANGED users
          ELSE \E p \in (0 .. up[2] - 1) \ conn[c].sent :
                  /\ users' = SaveUserFileData(users, u, up[1], up[2], p,
                                   [key |-> conn[c].key, upload |-> up])
                  /\ conn' = [conn EXCEPT ![c].pc = "SfCheck",
                                          ![c].sent = @ \cup {p}]
       /\ UNCHANGED <<aesKeys, sessions>>

\* get_user_by_uuid (KeyError once the user is gone) and received_entire_file;
\* if not complete, the next header must be a SendFile from the same uuid
\* (else GeneralError and return) and the engine recurses.  A client with no
\* packet left waits for the answer, as the server does.
SfCheck(c) ==
    LET u == conn[c].uuid IN
    /\ conn[c].pc = "SfCheck"
    /\ \/ /\ ~DoesUUIDAlreadyExist(users, u)
          /\ conn' = Closed(c)
       \/ /\ DoesUUIDAlreadyExist(users, u)
          /\ UserReceivedEntireFile(users, u)
          /\ conn' = [conn EXCEPT ![c].pc = "SfDecrypt"]
       \/ /\ DoesUUIDAlreadyExist(users, u)
          /\ ~UserReceivedEntireFile(users, u)
          /\ (0 .. conn[c].upload[2] - 1) \ conn[c].sent # {}
          /\ conn' = [conn EXCEPT ![c].pc = "SfEntry"]
       \/ /\ DoesUUIDAlreadyExist(users, u)
          /\ ~UserReceivedEntireFile(users, u)
          /\ conn' = [ErrorTo(c, "Closed") EXCEPT ![c].fault = TRUE]
    /\ UNCHANGED <<users, aesKeys, sessions>>

\* decrypt_and_write_file_data_to_memory(user.get_aes_key()) and the 1603
\* response.  Its ValueErrors (a missing packet, bad padding) escape the
\* engine's except OSError: no response, the thread ends.  (A user popped
\* from the registry since SfCheck is not followed: the thread ends.)
SfDecrypt(c) ==
    LET u == conn[c].uuid
        f == users[u].file
    IN /\ conn[c].pc = "SfDecrypt"
       /\ \E o \in IF ~DoesUUIDAlreadyExist(users, u) THEN {"missing"}
                   ELSE DecryptOutcomes(f, users[u].aes_key) :
             IF o \in {"missing", "badpadding"}
             THEN /\ conn' = Closed(c)
                  /\ UNCHANGED users
             ELSE /\ users' = [users EXCEPT ![u].file = SetCrc(f, o)]
                  /\ conn' = [conn EXCEPT ![c].pc = "SfCrc",
                                ![c].resp = FILE_RECEIVED_SUCCESSFULLY_WITH_CRC]
       /\ UNCHANGED <<aesKeys, sessions>>

\* The check of receive_client_crc_conformation_message, as written:
\* "code != 900 and code != 901 and 902", the last operand a nonzero int.
Truthy(i) == i # 0
CrcCodeRejected(code) ==
    code # ADEQUATE_CRC_VALUE /\ code # INADEQUATE_CRC_VALUE
    /\ Truthy(INADEQUATE_CRC_VALUE_FOR_THE_FORTH_TIME)

\* The codes a client may answer.  Whether the client's checksum agrees with
\* the server's (utils.calculate_checksum_value, not in the repository) is
\* not modelled, so any of the three may follow any 1603.
ClientCrcCodes == {ADEQUATE_CRC_VALUE, INADEQUATE_CRC_VALUE,
                   INADEQUATE_CRC_VALUE_FOR_THE_FORTH_TIME}

\* receive_client_crc_conformation_message and handle_crc_conformation_code.
\* A rejected code raises ValueError out of the engine; otherwise 900
\* thanks, 901 returns, 902 clears the file and thanks, any other clears and
\* raises.  Then the dispatcher closes.
SfCrc(c) ==
    LET u == conn[c].uuid IN
    /\ conn[c].pc = "SfCrc"
    /\ \/ \E code \in ClientCrcCodes :
          IF CrcCodeRejected(code)
          THEN /\ conn' = [Closed(c) EXCEPT ![c].crcCode = code]
               /\ UNCHANGED users
          ELSE /\ users' = IF code \in {ADEQUATE_CRC_VALUE, INADEQUATE_CRC_VALUE}
                           THEN users ELSE ClearFileData(users, u)
               /\ conn' = [Closed(c) EXCEPT ![c].crcCode = code,
                              ![c].resp =
                                 IF code = INADEQUATE_CRC_VALUE THEN @
                                 ELSE RECEIVE_MESSAGE_THANKS]
       \/ /\ conn' = [Closed(c) EXCEPT ![c].fault = TRUE]
          /\ UNCHANGED users
    /\ UNCHANGED <<aesKeys, sessions>>

(***************************************************************************)
(* ReconnectionRequestProtocol.protocol; only OSError is caught, so every  *)
(* other exception ends the thread without a response.                     *)
(***************************************************************************)
\* The spec accepts iff the name is registered and the uuid's user has a
\* public key.  The code tests "not registered or user.public_key is None";
\* get_user_by_uuid raises KeyError for an unknown uuid.
SpecAcceptsReconnect(n, cid) ==
    /\ IsUsernameAlreadyRegistered(users, n)
    /\ DoesUUIDAlreadyExist(users, cid)
    /\ users[cid].public_key # EmptyPublicKey

RecCheck(c) ==
    LET n == conn[c].name
        cid == conn[c].uuid
        conn1 == [conn EXCEPT ![c].specAccept = SpecAcceptsReconnect(n, cid)]
    IN /\ conn[c].pc = "RecCheck"
       /\ \/ /\ \/ ~IsUsernameAlreadyRegistered(users, n)
                \/ DoesUUIDAlreadyExist(users, cid) /\ users[cid].public_key = NoneValue
             /\ conn' = [conn1 EXCEPT ![c].pc = "RecRemove"]
          \/ /\ IsUsernameAlreadyRegistered(users, n)
             /\ ~DoesUUIDAlreadyExist(users, cid)
             /\ conn' = [conn1 EXCEPT ![c].pc = "Closed"]
          \/ /\ IsUsernameAlreadyRegistered(users, n)
             /\ DoesUUIDAlreadyExist(users, cid)
             /\ users[cid].public_key # NoneValue
             /\ conn' = [conn1 EXCEPT ![c].pc = "RecRotate"]
       /\ UNCHANGED <<users, aesKeys, sessions>>

\* remove_user_if_registered(name, client_id): popping inside the loop over
\* self.users.values() makes the loop's next step raise RuntimeError.
RecRemove(c) ==
    LET n == conn[c].name
        cid == conn[c].uuid
    IN /\ conn[c].pc = "RecRemove"
       /\ IF MatchesNameAndUUID(users, n, cid)
          THEN /\ users' = RemoveUserByUUID(users, cid)
               /\ conn' = Closed(c)
          ELSE /\ conn' = [conn EXCEPT ![c].pc = "RecAdd"]
               /\ UNCHANGED users
       /\ UNCHANGED <<aesKeys, sessions>>

\* register_user: add_new_user_to_database without a name check, then
\* DisapprovedReconnectRequest carrying the new uuid.
RecAdd(c) ==
    /\ conn[c].pc = "RecAdd"
    /\ CanMakeKeys(1)
    /\ \E u \in FreeUUIDs(users) :
          /\ users' = AddNewUserToDatabase(users, u, conn[c].name, NewAesKey)
          /\ conn' = [conn EXCEPT ![c].pc = "RecPubKey", ![c].uuid = u,
                                  ![c].resp = DISAPPROVED_RECONNECT_REQUEST]
    /\ aesKeys' = NewAesKey
    /\ UNCHANGED sessions

\* register_user: receive_public_key, then the user's current AES key is
\* wrapped and sent in 1602; the public key is not stored.
RecPubKey(c) ==
    LET u == conn[c].uuid IN
    /\ conn[c].pc = "RecPubKey"
    /\ \/ conn' = IF ~DoesUUIDAlreadyExist(users, u) THEN Closed(c)
                  ELSE [conn EXCEPT ![c].pc = "AfterAuth",
                          ![c].key = users[u].aes_key,
                          ![c].resp = PUBLIC_KEY_RECEIVED_SENDING_ENCRYPTED_AES_KEY]
       \/ conn' = [Closed(c) EXCEPT ![c].fault = TRUE]
    /\ UNCHANGED <<users, aesKeys, sessions>>

\* Mutant: the new key is sent but set_aes_key is not called.
RecRotateUnstored(c) ==
    /\ conn[c].pc = "RecRotate"
    /\ CanMakeKeys(1)
    /\ IF ~DoesUUIDAlreadyExist(users, conn[c].uuid)
       THEN /\ conn' = Closed(c)
            /\ UNCHANGED <<users, aesKeys>>
       ELSE /\ aesKeys' = NewAesKey
            /\ conn' = [conn EXCEPT ![c].pc = "RecClear", ![c].aes = NewAesKey]
            /\ UNCHANGED users
    /\ UNCHANGED sessions

\* compute_new_aes_key and set_aes_key on the uuid's user.
RecRotate(c) ==
    LET cid == conn[c].uuid IN
    /\ conn[c].pc = "RecRotate"
    /\ CanMakeKeys(1)
    /\ IF ~DoesUUIDAlreadyExist(users, cid)
       THEN /\ conn' = Closed(c)
            /\ UNCHANGED <<users, aesKeys>>
       ELSE /\ users' = SetAesKey(users, cid, NewAesKey)
            /\ aesKeys' = NewAesKey
            /\ conn' = [conn EXCEPT ![c].pc = "RecClear", ![c].aes = NewAesKey]
    /\ UNCHANGED sessions

\* get_user_by_uuid(...).get_file().clear_dict(): get_user_by_uuid raises
\* KeyError for a popped user, get_file raises when the user has no file.
RecClear(c) ==
    LET cid == conn[c].uuid IN
    /\ conn[c].pc = "RecClear"
    /\ IF DoesUUIDAlreadyExist(users, cid) /\ users[cid].file # NoFile
       THEN /\ users' = ClearUserPackets(users, cid)
            /\ conn' = [conn EXCEPT ![c].pc = "RecSend"]
       ELSE /\ conn' = Closed(c)
            /\ UNCHANGED users
    /\ UNCHANGED <<aesKeys, sessions>>

\* encrypt_aes_key_with_public_key(aes_key, user.public_key) with the key
\* made in RecRotate, then 1605.  PKCS1_OAEP.new("") raises.
RecSend(c) ==
    LET cid == conn[c].uuid IN
    /\ conn[c].pc = "RecSend"
    /\ conn' = IF ~DoesUUIDAlreadyExist(users, cid) \/ users[cid].public_key = EmptyPublicKey
               THEN Closed(c)
               ELSE [conn EXCEPT ![c].pc = "AfterAuth", ![c].key = conn[c].aes,
                       ![c].resp = APPROVED_RECONNECT_REQUEST_SENDING_ENCRYPTED_AES_KEY]
    /\ UNCHANGED <<users, aesKeys, sessions>>

(***************************************************************************)
(* The peer closes the socket while the server blocks in recv: the next    *)
(* header fails to unpack and the thread ends.                             *)
(***************************************************************************)
Disconnect(c) ==
    /\ \/ conn[c].pc \in {"Start", "RegPubKey", "SfCrc", "RecPubKey"}
       \/ /\ conn[c].pc = "SfCheck" /\ DoesUUIDAlreadyExist(users, conn[c].uuid)
          /\ ~UserReceivedEntireFile(users, conn[c].uuid)
    /\ conn' = [Closed(c) EXCEPT ![c].fault = TRUE]
    /\ UNCHANGED <<users, aesKeys, sessions>>

\* Every connection the bound allows has been served.
Finished ==
    /\ sessions = MaxSessions
    /\ \A c \in Conns : conn[c].pc = "Closed"
    /\ UNCHANGED vars

Next ==
    \/ \E c \in Conns :
          \/ Accept(c) \/ HandleConnection(c) \/ Disconnect(c)
          \/ RegCheck(c) \/ RegAdd(c) \/ RegPubKey(c) \/ RegGetAes(c)
          \/ AfterAuth(c)
          \/ SfEntry(c) \/ SfCheck(c) \/ SfDecrypt(c) \/ SfCrc(c)
          \/ RecCheck(c) \/ RecRemove(c) \/ RecAdd(c) \/ RecPubKey(c)
          \/ RecRotate(c) \/ RecClear(c) \/ RecSend(c)
    \/ Finished

Spec == Init /\ [][Next]_vars

(***************************************************************************)
(* Fairness.  Every connection runs on its own OS thread, which the        *)
(* interpreter keeps scheduling while it is runnable, and the course       *)
(* client sends its next request without waiting on anything but the      *)
(* server's answer; the steps above fold the client's send into the        *)
(* server's read.  So a step of a connection is weakly fair as long as the *)
(* client keeps to the protocol.  The client breaking off (Disconnect) or  *)
(* sending what the server does not expect (a step that sets fault) is    *)
(* never assumed, and neither is a new connection (Accept).                *)
(***************************************************************************)
ServerStep(c) ==
    \/ HandleConnection(c) \/ RegCheck(c) \/ RegAdd(c) \/ RegPubKey(c)
    \/ RegGetAes(c) \/ AfterAuth(c) \/ SfEntry(c) \/ SfCheck(c)
    \/ SfDecrypt(c) \/ SfCrc(c) \/ RecCheck(c) \/ RecRemove(c) \/ RecAdd(c)
    \/ RecPubKey(c) \/ RecRotate(c) \/ RecClear(c) \/ RecSend(c)

\* A step in which the client breaks off or breaks the protocol.
PeerFault(c) == ~conn[c].fault /\ conn'[c].fault

Fairness == \A c \in Conns : WF_vars(ServerStep(c) /\ ~PeerFault(c))

FairSpec == Spec /\ Fairness

-----------------------------------------------------------------------------
(***************************************************************************)
(* Properties                                                              *)
(***************************************************************************)

\* Spec section 3: no two registered users share a name.  The register
\* engine checks is_username_already_registered and later, in another
\* registry call, add_new_user_to_database; the reconnect engine's
\* register_user adds without checking at all.
UniqueNames ==
    \A u, v \in Registered(users) : u # v => users[u].name # users[v].name

\* While a connection that was given a key uploads, the AES key stored for
\* its user is the key the server delivered on that connection (1602 after
\* register, 1605 after reconnect), so SfDecrypt decrypts with the key the
\* client encrypted with.  Broken if a key rotation is not stored, is
\* delivered from a stale read, or another step rotates the key mid-upload.
SessionKeyCurrent ==
    \A c \in Conns :
        conn[c].pc \in {"SfEntry", "SfCheck", "SfDecrypt"} /\ conn[c].key # NoKey =>
            /\ DoesUUIDAlreadyExist(users, conn[c].uuid)
            /\ users[conn[c].uuid].aes_key = conn[c].key

\* While a connection that was given a key uploads, every packet buffered
\* for its user was sent on that connection (under its key): packets of an
\* earlier, interrupted session, or of a stranger, never mix into the file
\* that SfDecrypt concatenates.  It rests on the reconnect engine's
\* clear_dict and on register creating a new user.
NoStalePackets ==
    \A c \in Conns :
        conn[c].pc \in {"SfCheck", "SfDecrypt"} /\ conn[c].key # NoKey
        /\ DoesUUIDAlreadyExist(users, conn[c].uuid)
        /\ users[conn[c].uuid].file # NoFile =>
            \A p \in DOMAIN users[conn[c].uuid].file.packets :
                users[conn[c].uuid].file.packets[p].key = conn[c].key

\* Spec sections 4.6 and 7: a failed Register (RegisterFail, or GeneralError
\* in the key exchange) ends the dialog and the connection closes; only a
\* completed key exchange leads on to SendFile.  So every packet buffered
\* for a user was sent by a client the server delivered an AES key to, and
\* no other peer can fill or restart another user's upload.
BufferedPacketsFromKeyHolders ==
    \A u \in Registered(users) :
        users[u].file # NoFile =>
            \A p \in DOMAIN users[u].file.packets :
                users[u].file.packets[p].key # NoKey

\* Spec section 3: a restarted upload replaces the UserFile wholesale, so
\* the file being assembled has the name and packet count of the upload
\* the client is sending.
AssemblyMatchesUpload ==
    \A c \in Conns :
        conn[c].pc \in {"SfCheck", "SfDecrypt"} /\ DoesUUIDAlreadyExist(users, conn[c].uuid)
        /\ users[conn[c].uuid].file # NoFile =>
            <<users[conn[c].uuid].file.file_name,
              users[conn[c].uuid].file.total_packets>> = conn[c].upload

\* Spec section 4.5: a reconnect whose name is registered and whose uuid's
\* user has a public key is accepted: unless the peer broke off, the
\* connection ends with a fresh AES key delivered in 1605.
ReconnectServed ==
    \A c \in Conns :
        /\ conn[c].pc = "Closed" /\ conn[c].kind = "reconnect"
        /\ conn[c].specAccept /\ ~conn[c].fault
        => conn[c].key # NoKey

\* Spec sections 3, 4.5 and 8: a reconnect the spec does not accept (name
\* unknown, uuid unknown, or no public key on the uuid's user) degrades to
\* re-registration: the engine goes on to remove_user_if_registered and
\* register_user rather than rotating a key or failing.
ReconnectWithoutKeyReRegisters ==
    [][\A c \in Conns :
         conn[c].pc = "RecCheck" /\ conn'[c].pc # "RecCheck"
         /\ ~SpecAcceptsReconnect(conn[c].name, conn[c].uuid)
         => conn'[c].pc = "RecRemove"]_vars

\* Spec sections 4.6 and 5: every dialog reaches a terminal state and
\* handle_client's finally closes the socket; with no read timeout in the
\* code, this holds only if the server never blocks in recv on a request a
\* client that keeps to the protocol will not send (SendFile waiting for
\* one more packet header while the client waits for 1603).
AllConnectionsClose ==
    \A c \in Conns : conn[c].pc # "Closed" ~> conn[c].pc = "Closed"

\* Spec sections 4.5 and 8: CRC code 902 clears the user's file state and
\* is acknowledged with 1604.
Crc902Acknowledged ==
    [][\A c \in Conns :
         conn[c].pc = "SfCrc"
         /\ conn'[c].crcCode = INADEQUATE_CRC_VALUE_FOR_THE_FORTH_TIME
         => /\ conn'[c].resp = RECEIVE_MESSAGE_THANKS
            /\ \/ ~DoesUUIDAlreadyExist(users', conn[c].uuid)
               \/ users'[conn[c].uuid].file = NoFile]_vars

-----------------------------------------------------------------------------
(***************************************************************************)
(* Refinement of the abstract registry: a User is seen as its name, public *)
(* key and AES key, a dict key never used is Free and a popped one Gone;   *)
(* the keys issued are those compute_new_aes_key has made.                 *)
(***************************************************************************)
AbstractAccount(u) ==
    IF users[u] \in {NoUser, PoppedUser} THEN users[u]
    ELSE [name |-> users[u].name, pub |-> users[u].public_key,
          key |-> users[u].aes_key]

Abstract == INSTANCE Registry
    WITH accounts <- [u \in UUIDs |-> AbstractAccount(u)],
         issued <- 1 .. aesKeys,
         Keys <- AesKeys, Free <- NoUser, Gone <- PoppedUser,
         NoPubKey <- EmptyPublicKey

\* Spec sections 3 and 4.4: every change the engines make to the registry
\* is one atomic registry operation: a user created under a free name, one
\* user's public key stored with a fresh AES key, one user's key rotated,
\* or a user removed for good; and no AES key is ever issued twice.
RegistryRefinement == Abstract!Spec
=============================================================================
