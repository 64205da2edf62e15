# TLA+ model of the file-transfer server

This directory holds TLA+ models of the Python server in `src/server-side/`,
and the TLC configurations that check them.

## The system

The server accepts TCP connections and serves each one on its own thread.
`Server.run` starts the thread, and `handle_client` runs `handle_connection`
on it. Each connection runs a short protocol:

- **Register** (code 825): the client sends a name.
  - The server checks that the name is free and adds a `User` with a new
    uuid and AES key. It answers 1600, or 1601 if the name is taken.
  - It then reads the client's RSA public key (826), stores it and rotates
    the AES key of every user with that name.
  - It answers 1602 with the AES key, encrypted under the public key.
- **Reconnect** (827): the client sends a name, and the header carries a uuid.
  - If the name is unknown, or the stored public key `is None`, the server
    removes the user and registers the name again (answer 1606, then the key
    exchange).
  - Otherwise it rotates the AES key, clears the buffered packets and sends
    the new key (1605).
- **SendFile** (828): after either of the above, the client sends its file
  encrypted under the AES key, one packet per request.
  - The server buffers each packet in the user's `UserFile`.
  - Once every packet is in, it decrypts the file, writes it and answers
    1603 with the CRC.
  - The client confirms with 900 (answer 1604), 901 (retry on a new
    connection) or 902 (give up; the server should clear and answer 1604).

All threads share one `UserDatabase`. `Server.get_database()` takes
`database_lock` only while it returns the reference, so every registry call
runs unlocked. The registry is a dict of `User`, each with at most one
`UserFile`.

## Modules

| module | models | source |
|---|---|---|
| `UserFile` | the packet map, completion test, clear, and the decrypt outcome as pure operators | `UserFile.py` |
| `UserDatabase` | every registry method that `protocols.py` calls, as an operator on `users` | `Database.py`, `User.py` |
| `FileServer` | the threads: dispatcher, the three engines, the CRC confirmation, the peer's disconnects and faults, and per-thread fairness | `Server.py`, `protocols.py`, `Request.py` |
| `MCFileServer` | model values and symmetry sets for TLC | none |
| `Codec` | every `struct` format, code and payload size of requests and responses, as pure operators and constants on byte sequences | `Request.py`, `Response.py` |
| `Wire` | one client's connections at byte level, one after another, through Register or Reconnect, SendFile and the CRC dialog: the server thread's `recv` calls and decoding against the registry earlier connections left, the course client's encoding, its crashes and its runs with the uuid it kept | `Server.py`, `protocols.py`, `Request.py`, `Response.py`, `Database.py`, `User.py`, `UserFile.py`, `CryptoUtils.py` |
| `MCWire` | concrete byte strings for the client's inputs | none |
| `Registry` | the registry's contract, with atomic operations: register under a free name, store a public key with a fresh AES key, rotate the key, remove | spec sections 3 and 4.4 |

The `map` section of `PROJECT.json` gives the source lines behind every
definition.

### State

`FileServer` has four variables:

- `users`: maps each uuid to a `User` record, `NoUser` or `PoppedUser`.
  - The record has `name`, `public_key` (`""` until stored), `aes_key` and
    `file`.
  - `PoppedUser` marks a uuid that was removed. `uuid4` never reissues one
    (`ComputeNewUUID`), and `add_new_user_to_database` loops only over live
    keys (`FreeUUIDs`).
- `conn[c]`: one record per connection slot. It holds the thread's program
  counter `pc`, what it has learned (name, uuid, the key it delivered), the
  upload the client is sending, the packets sent so far, the last response
  code, and the CRC confirmation code.
- `aesKeys`: a counter for `compute_new_aes_key`. Key k is the k-th key made,
  so keys are distinct, as 32 random bytes are.
- `sessions`: the number of connections accepted so far.

### Steps

One step of a thread is one registry call. The socket reads and the local
work before the call are folded into that step, because they touch no shared
state. Between two registry calls any other thread may run, as in the code.

| action | code |
|---|---|
| `RegCheck` | the name check |
| `RegAdd` | the add |
| `RegPubKey` | `set_new_user_public_key` |
| `RegGetAes` | read the key and send 1602 |
| `SfEntry` | `does_uuid_already_exist` |
| `SfCheck` | `save_user_file_data` and `received_entire_file` |
| `SfDecrypt` | decryption with the key read then |
| `SfCrc` | confirmation read and handling |
| `RecCheck` | the reconnect condition |
| `RecRemove`, `RecAdd`, `RecPubKey` | the rejected branch |
| `RecRotate`, `RecClear`, `RecSend` | the accepted branch |

Other rules of the model:

- Every exception that escapes an engine's `except OSError` ends the thread
  with no response, as the code does.
- `Disconnect` is the client closing the socket at a read. The `recv` then
  returns short data and the unpack raises.
- With `StrangerPeers = TRUE`, a peer whose Register ended in 1601 or 1607
  may go on to send SendFile under any uuid, as the dispatcher allows
  (`Server.py:55`). Its packets carry no key (`NoKey`).

### Data abstraction

- A packet is the pair (AES key it was encrypted under, upload it belongs
  to).
- Decryption gives the client's plaintext exactly when every expected packet
  was encrypted under the key used and belongs to the upload the `UserFile`
  describes. Otherwise it gives "bad padding" or a different plaintext
  (`DecryptOutcomes`).
- Names, file names, public keys and uuids are model values.

### The byte level (`Codec`, `Wire`)

- A byte is a number in 0..255, and a field is a sequence of bytes.
  `PackUInt` and `UnpackUInt` are little-endian, as every format of the
  code is. `PackBytes` is an `s` field: it cuts or pads with NUL.
  `RStripNul` is `.decode().rstrip('\x00')` on ASCII.
- `Wire` has one server thread and one client at a time. `c2s` and `s2c`
  are the two byte streams of the current connection, and `srd` and `crd`
  are how far each side has read.
- Connections follow one another, up to `MaxSessions`. `NewSession` is
  `Server.run`'s accept loop: a new thread with a fresh socket and fresh
  locals (`hdr`, `dictName`, `sfId`), and the same `users`. The client is
  run again after any outcome but 1604.
- `ClientCrash`: the client process may die between any two frames. Its
  socket closes, and what it wrote stays in the server's buffer. The
  server's next `recv` then gets `b''`, and each read ends the thread
  where the code's `except` clauses say.
- Each server action is one `recv` call and what the code does with the
  bytes, up to the next `recv`. A short header or payload makes
  `struct.unpack` raise, and the thread ends, exactly where the code's
  `except` clauses say.
- `recv(n)` returns `min(n, arrived)` bytes when `Segmented = FALSE`, and
  any number from 1 to that when `TRUE` (a request in several TCP
  segments). At end of stream it returns `b''`.
- The course client is not in the repository. It is modelled from spec
  sections 4.1 and 4.6. It reconnects with the uuid it keeps in `me.info`
  (`kept`), or registers when it has none. At the start `kept` is empty or
  `OldUUID`, the uuid from a run before this server process. The client
  keeps the uuid of 1600 or 1606. It writes every request whole, sends
  its packets back to back, and reads a response as a 7-byte header and
  `payload_size` bytes. On 1606 it sends its public key under the new uuid.
- `users` is `UserDatabase.users`, a function from uuid to name, public
  key and file, as the code's dict is. When the connection arrives it holds
  one of the registries an earlier session can leave (`EarlierUsers`):
  - nothing, as after a restart of the in-memory server;
  - the client's user with its key, without a file;
  - the client's user with its key and the file of an earlier attempt that
    ended in 901;
  - the client's user with the key `''` that a rejected reconnect leaves;
  - the client's name under another uuid.
- `RcPayload` is the whole Reconnect decision. An unregistered name is
  rejected: a new user and 1606. For a registered name:
  - an unknown uuid raises `KeyError`;
  - a user without a file makes `get_file` raise;
  - the key `''` makes the RSA wrap raise, after the packets were cleared.
  
  None of these is an `OSError`, so the thread ends with no response.
  Otherwise the packets are cleared and 1605 goes out. `register_user`'s
  public-key read (`PkHeader` from `RcPkHeader`, then `RcPkPayload`) ends
  the thread on any error, where Register answers 1607. It never stores
  the key.
- Decryption is `DecryptedCrc`: the client's ciphertext gives its checksum
  `Crc`. A length that is not a multiple of 16 fails unpad, and other
  bytes either fail or give another checksum.

## Runs

| run | cfg | expect | what it shows |
|---|---|---|---|
| sequential | `MCSequential.cfg` | pass | See below. |
| key_race | `MCKeyRace.cfg` | violation | A reconnect of the same uuid on a second connection replaces the AES key the first connection's upload is encrypted under (`SessionKeyCurrent`). |
| register_race | `MCRegisterRace.cfg` | violation | Two threads register one name, and both succeed (`UniqueNames`). |
| crc_final | `MCCrcFinal.cfg` | violation | A 902 gets no 1604, and the file state is kept (`Crc902Acknowledged`). |
| reconnect_no_file | `MCReconnect.cfg` | violation | See below. |
| reconnect_no_key | `MCReconnectNoKey.cfg` | violation | See below. |
| stale_file | `MCStaleFile.cfg` | violation | See below. |
| stale_hang | `MCStaleHang.cfg` | violation | See below. |
| clear_race | `MCClearRace.cfg` | violation | See below. |
| stranger_upload | `MCStrangerUpload.cfg` | violation | See below. |
| wire | `MCWire.cfg` | pass | Every field survives the codec in both directions, and every uuid and key the client learns from Register or Reconnect is its own (`FieldsRoundTrip`). |
| thanks_frame | `MCThanksFrame.cfg` | violation | The 1604 frame is shorter than its header says (`ClientReadsWholeFrames`). |

The longer rows:

- **sequential** runs 4 sessions one after another, with 2 names and uploads
  of up to 2 packets. Clients may disconnect or send bad headers at any
  read, and a peer without a key may send SendFile under any uuid. Four
  properties hold:
  - names stay unique;
  - an upload is decrypted with the key its connection delivered
    (`SessionKeyCurrent`);
  - no packet of an earlier session enters the file being assembled
    (`NoStalePackets`);
  - the registry refines `Registry` (see below).
- **reconnect_no_file** (`ReconnectServed`): a registered user who never
  uploaded reconnects. The key is rotated, then `get_file()` raises, and no
  answer is sent.
- **reconnect_no_key** (`ReconnectWithoutKeyReRegisters`): a user whose
  public key was never stored takes the accept branch. It should be
  re-registered.
- **stale_file** (`AssemblyMatchesUpload`):
  1. A 2-packet upload is interrupted.
  2. The client reconnects.
  3. It sends a 1-packet file, which is assembled against the old name and
     `total_packets = 2`.

  The server then waits for a packet the client never sends.
- **clear_race** (`AllConnectionsClose`): connection 1 registers and
  uploads. Connection 2 reconnects as the same user. Its key rotation and
  `clear_dict` run between connection 1's save and its completion test.
  Connection 1 then waits forever for a packet.
- **stranger_upload** (`BufferedPacketsFromKeyHolders`): a peer's Register
  ends in 1607. The dispatcher still serves its SendFile, and the packet
  goes into a registered user's buffer. Spec sections 4.6 and 7 say the
  connection should close.
- **wire**: names of 1, 2 and 255 bytes, two keys, file names of 1 and 255
  bytes, and files of 16, 1024 and 1040 bytes. The last one spills into a
  second packet, so the reassembly's `min(1024, size - i*1024)` cut is
  tested at the edge. Each client registers or reconnects against each
  earlier registry. The run reaches 1600, 1601, 1602, 1603, 1605 and 1606
  and the silent ends.
  - Every uuid the client learns is a registered user of its name: the one
    it kept after 1605, the new one after 1606.
  - Every wrapped key it decodes is the server's.
- **stale_hang** (`AllConnectionsClose`): an upload of two packets is cut
  off after the first, and the client reconnects. Its next upload has one
  packet. `received_entire_file` compares that one packet with the stored
  total of two, so the engine reads another header while the client waits
  for 1603. The code has no read timeout, so both sides wait for ever.
- **key_race** (`SessionKeyCurrent`): a client reconnects with its uuid
  while its earlier connection is still open and uploading, as after a
  restart with the old connection half-open. The reconnect's `set_aes_key`
  replaces the key that connection's packets were encrypted under, before
  they are decrypted.
- **thanks_frame**: `build_receive_message_thanks_response` says 255 bytes
  and sends the 16-byte client id. A client that follows the spec never
  reads a whole 1604.

The violation runs are the findings in `PROJECT.json`. Two of them contradict
the repository's spec (`spec.md`):

- The 902 check at `Request.py:155` rejects 902. The spec's section 9 says
  this expression makes 902 always valid.
- The spec says a `UserFile` is "replaced wholesale" when the client restarts
  an upload. The code keeps the old metadata.

The sequential run also checks `RegistryRefinement`. `FileServer`
instantiates `Registry` with this mapping:

- a `User` becomes its name, public key and AES key;
- a never-used uuid (`NoUser`) becomes `Free`, and a popped one
  (`PoppedUser`) becomes `Gone`;
- the issued keys are `1 .. aesKeys`.

Every step must then be a registry operation or leave the registry
unchanged. With sessions one at a time it is. With two connections at
once it fails, through the same register race as `UniqueNames`, and that is why it
is not checked there. The refinement also catches a `set_new_user_public_key`
that stores the key but does not rotate the AES key (the mutant in
`PROJECT.json`).

For every property of a passing run, `PROJECT.json` lists a mutant: a
plausible bug in the mapped code that TLC catches under that run's cfg.

## Bounds

- **sequential**: 1 connection slot and 4 sessions, with stranger peers.
  This is enough for register, disconnect, reconnect, re-upload and confirm, and for a name to
  be registered twice over time. Packets go up to 2, so a partial upload
  exists. 8 AES keys cover every rotation in 4 sessions.
- **key_race**: 2 slots, 1 name, uploads of up to 2 packets, and 3
  sessions. Two slots and one name are the smallest setting in which a
  second connection of the same user can run beside the first.
- **stale_hang**: 1 slot, 2 names, 4 sessions, uploads of up to 2 packets.
  Two packets are the fewest for an upload to be cut off part-way and
  then restarted with a different packet count.
- **clear_race**: the key_race bounds with 1-packet uploads and 2
  sessions. That is enough to reach the hang.
- **wire**: each width at its minimum and at its maximum. That gives 36
  client intents. Each has 2 starting `me.info` contents and faces 5
  earlier registries, which gives 360 initial states. There are 3
  connections, with a crash possible anywhere. That is enough for every
  two-step recovery: a crash after 1606, then a reconnect that fails
  silently (no file yet), then one more. The run has 18540 distinct states.
- uuids are symmetric model values, except in the runs that check liveness. An extra uuid beyond the session count
  lets a free choice of reconnect uuid name an unknown one.

## Fairness

`FairSpec` adds weak fairness per connection to the server steps
(`ServerStep(c)`) that do not turn the peer faulty (`PeerFault(c)`):

- Python schedules every runnable thread.
- The honest client sends its next request without waiting on anything
  but the server's answer. So a thread that can take its next step
  eventually does.
- `Accept`, `Disconnect` and the fault steps are not fair. A client may
  never come, and may never misbehave.
- The code has no timeouts, so a thread blocked on a `recv` that no peer
  will answer stays blocked. `AllConnectionsClose` catches exactly that.
- Safety runs use `Spec`. `Finished` is a stuttering step once every
  session has been served, because the real server runs forever.

## Not modelled

- The byte layout in the multi-connection model: `FileServer` sees decoded
  fields, and `Wire` checks the layout on one connection.
- RSA, AES and CRC. They are modelled only by their contracts, above. The
  RSA wrap is a constant 128-byte value in `Wire`, and it raises for the
  default key `''` (`EncryptAesKeyFails`). `compute_new_uuid` is a fresh
  model value, or a constant in `Wire`.
- Split TCP segments in a run. `Wire` can model them (`Segmented = TRUE`),
  and then TLC finds that the single `recv(255)` of Register keeps part of
  a name. That is listed as a hazard and is not one of the runs.
- Filesystem writes (`make_directory`, the file write of
  `decrypt_and_write_file_data_to_memory`), and port configuration.
- Liveness at byte level. Under weak fairness, TLC's check of `Wire`
  slows to a few dozen states a minute, so no byte-level run checks it.
  `AllConnectionsClose` checks the same question (no thread blocked
  forever) in `FileServer`.
- A server restart between connections in `Wire`. The registries of
  `EarlierUsers` include the empty one that a restart leaves, with the
  client still holding its old `me.info` uuid.
- `get_user_by_username`, `is_uuid_registered_in_database` and
  `get_aes_key_by_uuid`. No engine calls them.

## Plan

1. An abstract upload spec (`UserFile` as a whole-file transfer),
   refined by the packet-level engine.
2. A peer that numbers its packets freely, for the completion test's
   count of out-of-range packet numbers (`UserFile.py:54`).
