------------------------------- MODULE MCWire -------------------------------
(***************************************************************************)
(* Model-checking instance of Wire: concrete byte strings for the client's *)
(* inputs, at both ends of every width the formats allow.                  *)
(***************************************************************************)
EXTENDS Wire

\* Bytes of a repeated ASCII character.
Repeat(b, n) == [i \in 1 .. n |-> b]

\* A one-letter name, a two-letter one, and one of the full 255 bytes.
MCNames == {<<97>>, <<97, 98>>, Repeat(97, 255)}
MCNamesLong == {Repeat(97, 255)}
MCPubKeys == {Repeat(1, 160), Repeat(2, 160)}
MCFileNames == {<<102>>, Repeat(102, 255)}
\* The ciphertext: no NUL byte, so no field ends early by accident.
MCCipher == [i \in 1 .. 2048 |-> (i % 255) + 1]
\* A short ciphertext, one that fills a packet, one that spills into a
\* second packet.
MCContentSizes == {16, 1024, 1040}
\* uuid4 bytes may be NUL; this one starts with one.
MCNewUUID == [i \in 1 .. 16 |-> i - 1]
\* The uuid kept from an earlier session, and another user's.
MCOldUUID == Repeat(200, 16)
MCOtherUUID == Repeat(201, 16)
MCWrappedKey == Repeat(7, 128)
MCCrc == 305419896
=============================================================================
