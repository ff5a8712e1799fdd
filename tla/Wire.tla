-------------------------------- MODULE Wire --------------------------------
(***************************************************************************)
(* The binary format of messages (protocol/src/encoding) and the encrypted *)
(* chunks inside them (Chunk in protocol/src/protocol.rs).                 *)
(*                                                                         *)
(* A frame is the sequence of the values the writer puts out: one element  *)
(* per integer, flag, identifier, string or run of bytes.  A reader takes  *)
(* them in the same order, and the operators decode_X(t, i) read an X that *)
(* starts at position i of frame t.  Byte order and the compression around *)
(* a frame are left out.                                                   *)
(*                                                                         *)
(* A ciphertext is the plain text together with the nonce that Noise       *)
(* counts: it can be decrypted only as the next message of its channel.    *)
(***************************************************************************)
EXTENDS Integers, SequencesExt

CONSTANTS
    CountBits,  \* width of the number of keys in a list, 16 in the code
    MaxBuffer,  \* MAX_BUFFER_SIZE
    TagLen      \* TAGLEN, the length of an authentication tag

ASSUME WireAssumption ==
    /\ CountBits \in Nat /\ 2^CountBits \in Nat \ {0}
    /\ MaxBuffer \in Nat /\ TagLen \in Nat /\ TagLen < MaxBuffer

\* A Vec and an Option, with elements of any type.
IsVec(s) == Len(s) \in Nat /\ s = [j \in 1..Len(s) |-> s[j]]
IsOption(o) == o = {} \/ \E x \in o : o = {x}

KeyLen == 32
HandshakeBuffer == 1024

\* n as u16
u16(n) == n % 2^CountBits

-----------------------------------------------------------------------------
(* Buffers and lists of keys                                               *)

encode_buffer(length, buffer) == <<length, buffer>>
decode_buffer(t, i) == t[i + 1]

encode_keys(keys) ==
    <<u16(Len(keys))>>
        \o FlattenSeq([j \in DOMAIN keys |-> encode_buffer(KeyLen, keys[j])])

\* A slip: the length of a key is taken for the key.
decode_keys_shifted(t, i) == [j \in 1..t[i] |-> t[i + 2 * j - 1]]

decode_keys(t, i) == [j \in 1..t[i] |-> decode_buffer(t, i + 2 * j - 1)]

-----------------------------------------------------------------------------
(* ServerMessage                                                           *)

ServerId ==
    [NewMeeting |-> 1, MeetingCreated |-> 2, JoinMeeting |-> 3,
     MeetingReady |-> 4, NewSession |-> 5, SessionCreated |-> 6,
     SessionReady |-> 7, SessionConnection |-> 8, SessionActive |-> 9,
     SessionTimeout |-> 10, CloseSession |-> 11, SessionFinished |-> 12,
     Error |-> 255]

\* Messages that carry a MeetingState or a SessionState, and those that carry
\* a SessionId.
WithState == {"MeetingCreated", "MeetingReady", "SessionCreated",
              "SessionReady", "SessionActive"}
WithId == {"SessionTimeout", "CloseSession", "SessionFinished"}

\* The fields of each variant.
IsServerMessage(m) ==
    \/ /\ m.type \in WithState
       /\ m = [type |-> m.type, id |-> m.id, keys |-> m.keys] /\ IsVec(m.keys)
    \/ m.type \in WithId /\ m = [type |-> m.type, id |-> m.id]
    \/ /\ m.type = "NewSession"
       /\ m = [type |-> m.type, keys |-> m.keys] /\ IsVec(m.keys)
    \/ /\ m.type = "SessionConnection"
       /\ m = [type |-> m.type, id |-> m.id, key |-> m.key]
    \/ /\ m.type = "JoinMeeting"
       /\ m = [type |-> m.type, id |-> m.id, user |-> m.user]
    \/ /\ m.type = "NewMeeting"
       /\ m = [type |-> m.type, user |-> m.user, slots |-> m.slots]
       /\ IsFiniteSet(m.slots)
    \/ /\ m.type = "Error"
       /\ m = [type |-> m.type, code |-> m.code, text |-> m.text]

encode_server(m) ==
    <<ServerId[m.type]>> \o
    CASE m.type \in WithState -> <<m.id>> \o encode_keys(m.keys)
      [] m.type \in WithId -> <<m.id>>
      [] m.type = "NewSession" -> encode_keys(m.keys)
      [] m.type = "SessionConnection" -> <<m.id>> \o encode_buffer(KeyLen, m.key)
      [] m.type = "JoinMeeting" -> <<m.id, m.user>>
      [] m.type = "NewMeeting" ->
             <<m.user, Cardinality(m.slots)>> \o SetToSeq(m.slots)
      [] m.type = "Error" -> <<m.code, m.text>>

decode_server(t) ==
    LET type == CHOOSE k \in DOMAIN ServerId : ServerId[k] = t[1]
    IN CASE type \in WithState ->
              [type |-> type, id |-> t[2], keys |-> decode_keys(t, 3)]
         [] type \in WithId -> [type |-> type, id |-> t[2]]
         [] type = "NewSession" -> [type |-> type, keys |-> decode_keys(t, 2)]
         [] type = "SessionConnection" ->
              [type |-> type, id |-> t[2], key |-> decode_buffer(t, 3)]
         [] type = "JoinMeeting" -> [type |-> type, id |-> t[2], user |-> t[3]]
         [] type = "NewMeeting" ->
              [type |-> type, user |-> t[2],
               slots |-> {t[3 + j] : j \in 1..t[3]}]
         [] type = "Error" -> [type |-> type, code |-> t[2], text |-> t[3]]

-----------------------------------------------------------------------------
(* Chunks and envelopes                                                    *)

\* A slip: no room for the tag.
ChunkSizeNoTag == MaxBuffer

ChunkSize == MaxBuffer - TagLen

\* Chunk::split: the payload in pieces, encrypted with consecutive nonces.
split(payload, nonce) ==
    LET count == (Len(payload) + ChunkSize - 1) \div ChunkSize
        Piece(j) == SubSeq(payload, (j - 1) * ChunkSize + 1,
                           IF j < count THEN j * ChunkSize ELSE Len(payload))
    IN [j \in 1..count |->
           [length   |-> Len(Piece(j)) + TagLen,
            contents |-> [nonce |-> nonce + j - 1, plain |-> Piece(j)]]]

\* Noise takes the chunks only in the order they were encrypted in.
CanJoin(chunks, nonce) ==
    \A j \in DOMAIN chunks : chunks[j].contents.nonce = nonce + j - 1

join_chunks(chunks) ==
    FlattenSeq([j \in DOMAIN chunks |-> chunks[j].contents.plain])

EncodingId == [Blob |-> 1, Json |-> 2]

IsEnvelope(e) ==
    /\ e = [encoding |-> e.encoding, broadcast |-> e.broadcast,
            chunks |-> e.chunks]
    /\ e.encoding \in DOMAIN EncodingId
    /\ IsVec(e.chunks)
    /\ \A j \in DOMAIN e.chunks :
           e.chunks[j] = [length   |-> e.chunks[j].length,
                          contents |-> e.chunks[j].contents]

\* Each chunk is encoded with encode_payload: its length, then the contents as
\* a buffer of that length, which has to fit.
Fits(envelope) ==
    \A j \in DOMAIN envelope.chunks : envelope.chunks[j].length <= MaxBuffer

encode_envelope(e) ==
    <<EncodingId[e.encoding], e.broadcast, Len(e.chunks)>>
        \o FlattenSeq([j \in DOMAIN e.chunks |->
               <<e.chunks[j].length>>
                   \o encode_buffer(e.chunks[j].length, e.chunks[j].contents)])

decode_envelope(t, i) ==
    [encoding  |-> CHOOSE k \in DOMAIN EncodingId : EncodingId[k] = t[i],
     broadcast |-> t[i + 1],
     chunks    |-> [j \in 1..t[i + 2] |->
                      [length   |-> t[i + 3 * j],
                       contents |-> decode_buffer(t, i + 3 * j + 1)]]]

-----------------------------------------------------------------------------
(* RequestMessage and ResponseMessage, which have the same format          *)

Identity == "MPCR"
Version == 1
ClassId == [Transparent |-> 128, Opaque |-> 129]
TransparentId == [ServerHandshake |-> 1, PeerHandshake |-> 2, Error |-> 255]
OpaqueId == [ServerMessage |-> 1, PeerMessage |-> 2]
HandshakeId == [Initiator |-> 1, Responder |-> 2]

IsMessage(m) ==
    \/ /\ m.type = "Error"
       /\ m = [class |-> "Transparent", type |-> m.type, code |-> m.code,
               text |-> m.text]
    \/ /\ m.type = "ServerHandshake"
       /\ m = [class |-> "Transparent", type |-> m.type, side |-> m.side,
               length |-> m.length, noise |-> m.noise]
       /\ m.side \in DOMAIN HandshakeId
    \/ /\ m.type = "PeerHandshake"
       /\ m = [class |-> "Transparent", type |-> m.type, side |-> m.side,
               length |-> m.length, noise |-> m.noise, key |-> m.key]
       /\ m.side \in DOMAIN HandshakeId
    \/ /\ m.type = "ServerMessage"
       /\ m = [class |-> "Opaque", type |-> m.type, envelope |-> m.envelope]
       /\ IsEnvelope(m.envelope)
    \/ /\ m.type = "PeerMessage"
       /\ m = [class |-> "Opaque", type |-> m.type, key |-> m.key,
               session |-> m.session, envelope |-> m.envelope]
       /\ IsOption(m.session) /\ IsEnvelope(m.envelope)

\* The length of the Noise message and the buffer it was written to.
encode_handshake(m) ==
    <<HandshakeId[m.side], m.length>> \o encode_buffer(HandshakeBuffer, m.noise)

encode_transparent(m) ==
    <<TransparentId[m.type]>> \o
    CASE m.type = "Error" -> <<m.code, m.text>>
      [] m.type = "ServerHandshake" -> encode_handshake(m)
      [] m.type = "PeerHandshake" ->
             encode_buffer(KeyLen, m.key) \o encode_handshake(m)

decode_transparent(t, i) ==
    LET type == CHOOSE k \in DOMAIN TransparentId : TransparentId[k] = t[i]
        Side(j) == CHOOSE k \in DOMAIN HandshakeId : HandshakeId[k] = t[j]
    IN CASE type = "Error" ->
              [class |-> "Transparent", type |-> type,
               code |-> t[i + 1], text |-> t[i + 2]]
         [] type = "ServerHandshake" ->
              [class |-> "Transparent", type |-> type, side |-> Side(i + 1),
               length |-> t[i + 2], noise |-> decode_buffer(t, i + 3)]
         [] type = "PeerHandshake" ->
              [class |-> "Transparent", type |-> type,
               key |-> decode_buffer(t, i + 1), side |-> Side(i + 3),
               length |-> t[i + 4], noise |-> decode_buffer(t, i + 5)]

\* session_id is an Option, a set here: a flag, then the identifier if any.
encode_opaque(m) ==
    <<OpaqueId[m.type]>> \o
    CASE m.type = "ServerMessage" -> encode_envelope(m.envelope)
      [] m.type = "PeerMessage" ->
             encode_buffer(KeyLen, m.key)
                 \o <<m.session # {}>> \o SetToSeq(m.session)
                 \o encode_envelope(m.envelope)

decode_opaque(t, i) ==
    IF t[i] = OpaqueId.ServerMessage
    THEN [class |-> "Opaque", type |-> "ServerMessage",
          envelope |-> decode_envelope(t, i + 1)]
    ELSE LET has_session_id == t[i + 3]
         IN [class    |-> "Opaque", type |-> "PeerMessage",
             key      |-> decode_buffer(t, i + 1),
             session  |-> IF has_session_id THEN {t[i + 4]} ELSE {},
             envelope |-> decode_envelope(t, IF has_session_id
                                             THEN i + 5 ELSE i + 4)]

encode(m) ==
    <<Identity, Version, ClassId[m.class]>> \o
        IF m.class = "Transparent" THEN encode_transparent(m)
                                   ELSE encode_opaque(m)

\* decode_preamble, then the kind.
DecodeError == [class |-> "DecodeError"]

decode(t) ==
    IF t[1] # Identity \/ t[2] # Version THEN DecodeError
    ELSE IF t[3] = ClassId.Transparent THEN decode_transparent(t, 4)
                                  ELSE decode_opaque(t, 4)

=============================================================================
