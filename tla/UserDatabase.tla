---------------------------- MODULE UserDatabase ----------------------------
(***************************************************************************)
(* The user registry (src/server-side/Database.py, User.py) as pure        *)
(* operators on users \in [UUIDs -> User \cup {NoUser, PoppedUser}]: the  *)
(* dict self.users keyed by uuid bytes, NoUser marking a key never used    *)
(* and PoppedUser one removed (uuid4 does not draw it again).  Each        *)
(* operator is one method call; the protocol engines compose them, one     *)
(* call per step, since the server's lock does not span a call (see        *)
(* FileServer).                                                            *)
(***************************************************************************)
EXTENDS Naturals, FiniteSets, Functions, UserFile

CONSTANTS
    UUIDs,      \* uuid4 values the registry may hand out
    NoUser,     \* absent dict entry
    PoppedUser, \* dict entry removed by remove_user_by_uuid
    NoFile,     \* User.file is None
    NoneValue   \* Python None, which User.public_key never holds

\* User.__init__ leaves public_key at its default "", not None.
EmptyPublicKey == ""

Registered(users) == {u \in UUIDs : users[u] \notin {NoUser, PoppedUser}}

\* does_uuid_already_exist (and get_user_by_uuid not raising KeyError)
DoesUUIDAlreadyExist(users, uuid) == uuid \in Registered(users)

\* is_username_already_registered
IsUsernameAlreadyRegistered(users, username) ==
    \E u \in Registered(users) : users[u].name = username

\* compute_new_uuid: uuid4 draws a uuid it has never drawn before.
ComputeNewUUID(users) == {u \in UUIDs : users[u] # PoppedUser}

\* add_new_user_to_database: the while loop draws uuid4 values until one is
\* not a key of self.users; the new User has a fresh AES key, the default
\* public key "" and no file.
FreeUUIDs(users) == {u \in ComputeNewUUID(users) : users[u] = NoUser}

AddNewUserToDatabase(users, uuid, username, aesKey) ==
    [users EXCEPT ![uuid] = [name |-> username,
                             public_key |-> EmptyPublicKey,
                             aes_key |-> aesKey,
                             file |-> NoFile]]

\* The users set_new_user_public_key updates: every user with the name, not
\* just the first.
NamedUsers(users, username) ==
    {u \in Registered(users) : users[u].name = username}

\* Mutant: the public key is stored and the AES key left as it was.
SetNewUserPublicKeyNoRotate(users, username, publicKey, freshKey) ==
    [u \in UUIDs |->
        IF u \in NamedUsers(users, username)
        THEN [users[u] EXCEPT !.public_key = publicKey]
        ELSE users[u]]

\* set_new_user_public_key: each matching user gets the public key and its
\* own new AES key (compute_new_aes_key inside the loop); freshKey is an
\* injection from the matching users to unused keys.  KeyError when none
\* matches is the caller's guard.
SetNewUserPublicKey(users, username, publicKey, freshKey) ==
    [u \in UUIDs |->
        IF u \in NamedUsers(users, username)
        THEN [users[u] EXCEPT !.public_key = publicKey,
                              !.aes_key = freshKey[u]]
        ELSE users[u]]

\* User.set_aes_key through get_user_by_uuid.
SetAesKey(users, uuid, aesKey) == [users EXCEPT ![uuid].aes_key = aesKey]

\* save_user_file_data: the UserFile is created from the first packet only
\* when user.file is None; an existing file keeps its name and packet count.
SaveUserFileData(users, uuid, fileName, totalPackets, packetNumber, data) ==
    LET f == IF users[uuid].file = NoFile
             THEN NewUserFile(fileName, totalPackets)
             ELSE users[uuid].file
    IN [users EXCEPT ![uuid].file = AddPacketData(f, packetNumber, data)]

\* User.received_entire_file: False without a file.
UserReceivedEntireFile(users, uuid) ==
    users[uuid].file # NoFile /\ ReceivedEntireFile(users[uuid].file)

\* get_file().clear_dict() (the caller guards against get_file raising).
ClearUserPackets(users, uuid) ==
    [users EXCEPT ![uuid].file = ClearDict(@)]

\* User.clear_file_data: self.file = None.
ClearFileData(users, uuid) == [users EXCEPT ![uuid].file = NoFile]

\* remove_user_if_registered finds a user with both the name and the uuid.
MatchesNameAndUUID(users, username, uuid) ==
    DoesUUIDAlreadyExist(users, uuid) /\ users[uuid].name = username

\* remove_user_by_uuid: self.users.pop(uuid).
RemoveUserByUUID(users, uuid) == [users EXCEPT ![uuid] = PoppedUser]
=============================================================================
