------------------------------- MODULE Framing -------------------------------
(***************************************************************************)
(* From bytes to payloads: the identification exchange                     *)
(* (ssh-core/src/ident.rs), the framing of packets                         *)
(* (ssh-core/src/transport/packet.rs) and the part of Session::drive that  *)
(* feeds them from a buffer, stops while the host decides on a host key    *)
(* and goes on behind its answer (ssh-core/src/session.rs).  Input comes   *)
(* in portions of any size.  Bytes are numbers; of the cryptography only   *)
(* the length of a tag and its being right or wrong are kept, and of what  *)
(* dispatch does, which is the subject of Session, what makes drive stop,  *)
(* fail or change the cipher.                                              *)
(***************************************************************************)
EXTENDS Integers, Sequences, SequencesExt

CONSTANTS
    MAX_SCAN_BYTES,     \* IdentExchange::MAX_SCAN_BYTES
    MAX_PACKET_LENGTH,
    TAG_LEN,
    BLOCK_SIZE          \* of the packet cipher: 8 or 16

ASSUME FramingAssumption ==
    /\ MAX_SCAN_BYTES \in Nat /\ MAX_PACKET_LENGTH \in Nat \ {0}
    /\ TAG_LEN \in Nat \ {0}
    /\ BLOCK_SIZE \in {8, 16}

MIN_PADDING == 4
CR == 13
LF == 10
DASH == 45
SSH == <<83, 83, 72, DASH>>
Versions == {<<50, 46, 48>>, <<49, 46, 57, 57>>}    \* 2.0 and 1.99
DISCONNECT == 1
KEXINIT == 20
NEWKEYS == 21
KEX_REPLY == 31         \* MSG_KEX_ECDH_REPLY and MSG_KEXDH_REPLY

VARIABLES
    incoming,           \* Session.incoming
    phase,              \* one of Phases
    driving,            \* drive is running
    scan_buf, total_scanned,
    active_kex,         \* is a key exchange under way?
    pending_sc_cipher,  \* is there a receive cipher that waits for NEWKEYS?
    ciphered,           \* is there an sc_cipher?
    dispatched          \* payloads that dispatch has handled

\* "Packets" are all phases behind the identification but the two in which drive
\* does nothing.
Phases == {"VersionExchange", "Packets", "AwaitingHostKeyDecision", "Closed"}

scanVars == <<scan_buf, total_scanned>>
kexVars == <<active_kex, pending_sc_cipher, ciphered>>

receiverVars == <<incoming, phase, driving, scanVars, kexVars, dispatched>>

ReceiverInit ==
    /\ incoming = <<>> /\ phase = "VersionExchange" /\ driving = FALSE
    /\ scan_buf = <<>> /\ total_scanned = 0
    /\ active_kex = FALSE /\ pending_sc_cipher = FALSE /\ ciphered = FALSE
    /\ dispatched = <<>>

\* feed_incoming: bytes are added in every phase, and drive starts.
FeedIncoming(bytes) ==
    /\ ~driving
    /\ incoming' = incoming \o bytes
    /\ driving' = TRUE
    /\ UNCHANGED <<phase, scanVars, kexVars, dispatched>>

\* fail.  A NEWKEYS that fails takes sc_cipher with it, which nothing reads in "Closed".
Fail ==
    /\ phase' = "Closed" /\ driving' = FALSE
    /\ UNCHANGED <<scanVars, kexVars, dispatched>>

Returns ==
    /\ driving' = FALSE
    /\ UNCHANGED <<incoming, phase, scanVars, kexVars, dispatched>>

\* provide_host_key_decision, of which the keys are what the framing sees.  At any
\* other time the answer is without effect.
ProvideHostKeyDecision(accept) ==
    /\ ~driving /\ phase = "AwaitingHostKeyDecision"
    /\ \/ ~accept /\ Fail /\ UNCHANGED incoming
       \/ /\ accept
          /\ phase' = "Packets" /\ driving' = TRUE
          /\ pending_sc_cipher' = TRUE
          /\ UNCHANGED <<incoming, scanVars, active_kex, ciphered, dispatched>>

-----------------------------------------------------------------------------
\* IdentExchange::feed, one byte a step: the code takes the bytes of a portion from
\* `incoming` together, behind the loop.

Line == IF scan_buf # <<>> /\ Last(scan_buf) = CR THEN Front(scan_buf) ELSE scan_buf

\* validate_version: what stands between "SSH-" and the next dash.
ValidVersion(line) ==
    LET rest == SubSeq(line, Len(SSH) + 1, Len(line))
    IN  \E v \in Versions : rest = v \/ IsPrefix(Append(v, DASH), rest)

TooLong == total_scanned + 1 > MAX_SCAN_BYTES

TakeByte ==
    /\ incoming' = Tail(incoming)
    /\ total_scanned' = total_scanned + 1
    /\ UNCHANGED <<driving, kexVars, dispatched>>

Scan ==
    LET byte == Head(incoming)
    IN  \/ TooLong /\ Fail /\ UNCHANGED incoming
        \/ /\ ~TooLong /\ byte # LF
           /\ TakeByte
           /\ scan_buf' = Append(scan_buf, byte)
           /\ UNCHANGED phase
        \/ /\ ~TooLong /\ byte = LF /\ ~IsPrefix(SSH, Line)
           /\ TakeByte
           /\ scan_buf' = <<>>
           /\ UNCHANGED phase
        \/ /\ ~TooLong /\ byte = LF /\ IsPrefix(SSH, Line) /\ ValidVersion(Line)
           /\ TakeByte
           /\ scan_buf' = <<>>
           /\ phase' = "Packets"
        \/ /\ ~TooLong /\ byte = LF /\ IsPrefix(SSH, Line) /\ ~ValidVersion(Line)
           /\ Fail /\ UNCHANGED incoming

DriveVersionExchange ==
    \/ incoming # <<>> /\ Scan
    \/ incoming = <<>> /\ Returns

-----------------------------------------------------------------------------
\* Framing.

FromBytes(b) == ((b[1] * 256 + b[2]) * 256 + b[3]) * 256 + b[4]

ToBytes(n) == <<n \div 16777216, (n \div 65536) % 256, (n \div 256) % 256, n % 256>>

\* pad_payload_with_prefix; the padding is random in the code.  Mutant: the
\* least padding is not observed.
PaddingLenAny(payload, block, prefix) == block - ((prefix + 1 + Len(payload)) % block)

PaddingLen(payload, block, prefix) ==
    LET len == block - ((prefix + 1 + Len(payload)) % block)
    IN  IF len < MIN_PADDING THEN len + block ELSE len

PadPayload(payload, block, prefix) ==
    LET len == PaddingLen(payload, block, prefix)
    IN  <<len>> \o payload \o [i \in 1..len |-> 0]

TagOf(right) == [i \in 1..TAG_LEN |-> IF right THEN 1 ELSE 0]

SealPlaintext(payload) ==
    LET body == PadPayload(payload, 8, 4) IN ToBytes(Len(body)) \o body

Seal(payload) ==
    LET body == PadPayload(payload, BLOCK_SIZE, 0)
    IN  ToBytes(Len(body)) \o body \o TagOf(TRUE)

\* peek_plaintext_length and peek_total_length.
PacketLength == FromBytes(SubSeq(incoming, 1, 4))

\* Mutant of Plausible: any length will do.
PlausibleAny(length) == length # 0

Plausible(length) == length # 0 /\ length <= MAX_PACKET_LENGTH

TotalLength(length) == 4 + length + (IF ciphered THEN TAG_LEN ELSE 0)

Authentic(packet) == ciphered => SubSeq(packet, Len(packet) - TAG_LEN + 1, Len(packet)) = TagOf(TRUE)

\* strip_padding, of a body that is not empty.
PaddingFits(body) == 1 + body[1] <= Len(body)

StripPadding(body) == SubSeq(body, 2, Len(body) - body[1])

\* The messages that are an error now: a reply without an exchange (dispatch has no
\* arm for it), and a NEWKEYS without keys (handle_newkeys).
Unexpected ==
    {m \in {KEX_REPLY, NEWKEYS} : (m = KEX_REPLY => ~active_kex) /\ (m = NEWKEYS => ~pending_sc_cipher)}

\* dispatch, of a message that is not one of them and well formed: an exchange
\* begins, ends in the question to the host (on_kex_result), its keys are taken
\* over, or the session ends.
Dispatch(payload) ==
    LET m == payload[1]
    IN  /\ phase' = CASE m = DISCONNECT -> "Closed"
                     [] m = KEX_REPLY -> "AwaitingHostKeyDecision"
                     [] OTHER -> phase
        /\ active_kex' = (m = KEXINIT \/ (m # KEX_REPLY /\ active_kex))
        /\ pending_sc_cipher' = (m # NEWKEYS /\ pending_sc_cipher)
        /\ ciphered' = (m = NEWKEYS \/ ciphered)
        /\ dispatched' = Append(dispatched, payload)
        /\ UNCHANGED <<driving, scanVars>>

DrivePacketPhase ==
    \/ Len(incoming) < 4 /\ Returns
    \/ /\ Len(incoming) >= 4 /\ ~Plausible(PacketLength)
       /\ Fail /\ UNCHANGED incoming
    \/ /\ Len(incoming) >= 4 /\ Plausible(PacketLength)
       /\ Len(incoming) < TotalLength(PacketLength)
       /\ Returns
    \/ /\ Len(incoming) >= 4 /\ Plausible(PacketLength)
       /\ Len(incoming) >= TotalLength(PacketLength)
       /\ LET total == TotalLength(PacketLength)
              packet == SubSeq(incoming, 1, total)
              body == SubSeq(packet, 5, 4 + PacketLength)
              payload == StripPadding(body)
              opens == Authentic(packet) /\ PaddingFits(body) /\ payload # <<>>
                       /\ payload[1] \notin Unexpected
          IN  /\ incoming' = SubSeq(incoming, total + 1, Len(incoming))
              /\ \/ ~opens /\ Fail
                 \/ opens /\ Dispatch(payload)

-----------------------------------------------------------------------------
\* drive.  Mutant of Stopped: packets are read on while the host decides.
StoppedIfClosed == phase = "Closed"

Stopped == phase \in {"Closed", "AwaitingHostKeyDecision"}

Drive ==
    /\ driving
    /\ \/ Stopped /\ Returns
       \/ ~Stopped /\ phase = "VersionExchange" /\ DriveVersionExchange
       \/ ~Stopped /\ phase # "VersionExchange" /\ DrivePacketPhase
=============================================================================
