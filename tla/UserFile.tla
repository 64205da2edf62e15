------------------------------ MODULE UserFile ------------------------------
(***************************************************************************)
(* The packet-reassembly buffer of one upload (src/server-side/UserFile.py)*)
(* as pure operators on a file record.  A packet's 1024 bytes are          *)
(* abstracted to a tag recording what a decryption can tell apart: the AES *)
(* key the client encrypted it under and the upload <<file_name, total>>   *)
(* it belongs to.  The CRC is abstracted to whether the decrypted bytes    *)
(* are the client's plaintext.                                             *)
(***************************************************************************)
EXTENDS Naturals, FiniteSets, TLC

\* The packet map of a fresh UserFile: {}.
NoPackets == [p \in {} |-> 0]

\* UserFile.__init__ followed by the three setters save_user_file_data
\* calls on the first packet of an upload (the content size is determined
\* by the upload, so it is not kept separately).
NewUserFile(fileName, totalPackets) ==
    [file_name |-> fileName, total_packets |-> totalPackets,
     packets |-> NoPackets, crc |-> "none"]

\* Mutant: the packet stored one slot too far (1-based numbering).
AddPacketDataOffByOne(f, packetNumber, data) ==
    [f EXCEPT !.packets = ((packetNumber + 1) :> data) @@ f.packets]

\* add_packet_data: self._packets[packet_number] = data (a repeated number
\* overwrites, a number outside 0..total-1 is stored like any other).
AddPacketData(f, packetNumber, data) ==
    [f EXCEPT !.packets = (packetNumber :> data) @@ f.packets]

\* Mutant: completion tested against one packet more than total_packets.
ReceivedEntireFileOffByOne(f) == Cardinality(DOMAIN f.packets) = f.total_packets + 1

\* received_entire_file: len(self._packets) == self._total_packets.
ReceivedEntireFile(f) == Cardinality(DOMAIN f.packets) = f.total_packets

\* Mutant: clear_dict that leaves the packets in place.
ClearDictKeepsPackets(f) == f

\* clear_dict: self._packets.clear(); the metadata is kept.
ClearDict(f) == [f EXCEPT !.packets = NoPackets]

\* The packets 0..total_packets-1 that decrypt_and_write_file_data_to_memory
\* concatenates.
Expected(f) == 0 .. (f.total_packets - 1)

\* The concatenation is the ciphertext the client produced for this upload
\* under aes_key exactly when every concatenated packet carries that key and
\* belongs to the upload the file's metadata (name, count, size) describes.
DecryptsToPlaintext(f, aesKey) ==
    \A p \in Expected(f) :
        f.packets[p] = [key |-> aesKey,
                        upload |-> <<f.file_name, f.total_packets>>]

\* The possible results of decrypt_and_write_file_data_to_memory(aes_key):
\* "missing" raises ValueError for an absent packet number; a ciphertext
\* that is not the client's either fails unpad (BadPadding, a ValueError) or
\* decrypts to other bytes, which are written and give a CRC the client
\* rejects; otherwise the plaintext is written and its CRC matches.
DecryptOutcomes(f, aesKey) ==
    IF ~(Expected(f) \subseteq DOMAIN f.packets) THEN {"missing"}
    ELSE IF DecryptsToPlaintext(f, aesKey) THEN {"match"}
    ELSE {"badpadding", "mismatch"}

\* set_crc after a decryption that wrote the file.
SetCrc(f, outcome) == [f EXCEPT !.crc = outcome]
=============================================================================
