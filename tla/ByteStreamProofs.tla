-------------------------- MODULE ByteStreamProofs --------------------------
(***************************************************************************)
(* The framing layer, for every limit, block size, tag length, banner,     *)
(* identification and payload, every way of cutting the stream and every   *)
(* moment of the host's answer: what is sealed is padded as RFC 4253 asks, *)
(* what a session buffers that is open and does not wait for the host is   *)
(* bounded whatever lengths the server announces, and what is dispatched   *)
(* are the packets that were written, up to the one that ends the session  *)
(* or makes it wait.                                                       *)
(*                                                                         *)
(* The bound rests on drive's returning, while it may read, only for want  *)
(* of input: with an empty buffer in the identification exchange, and      *)
(* afterwards with less than the length field or the packet it announces,  *)
(* whose length has been checked before it is waited for.  In the pause it *)
(* does not hold, and the answer starts drive again.                       *)
(*                                                                         *)
(* The last rests on reading the log as the cuts of the stream (Agree): up *)
(* to the first bad entry, the bytes between two edges are one line or one *)
(* packet, so an open session is always behind some entry (Behind), in the *)
(* middle of a line or in front of a packet, what it reads next is what    *)
(* the next entry says, and the key exchange has come as far as the        *)
(* entries behind it and the host's answer tell (Exchanged).  A closed one *)
(* has stopped at the first entry that ends it (HaltedAt).                 *)
(***************************************************************************)
EXTENDS ByteStream, FiniteSetTheorems, TLAPS

TypeInv ==
    /\ stream \in Seq(Nat) /\ fed \in Nat
    /\ incoming \in Seq(Nat) /\ scan_buf \in Seq(Nat)
    /\ total_scanned \in Nat
    /\ phase \in Phases /\ driving \in BOOLEAN
    /\ active_kex \in BOOLEAN /\ pending_sc_cipher \in BOOLEAN /\ ciphered \in BOOLEAN
    /\ decision \in {"none", "accept", "reject"}

\* scan_buf has bytes of the current line only, total_scanned counts all lines.
ScanInv == Len(scan_buf) <= total_scanned /\ total_scanned <= MAX_SCAN_BYTES

StreamInv == TypeInv /\ ScanInv /\ BufferBounded

-----------------------------------------------------------------------------
\* Padding.

\* What is missing to the next multiple, and to the one behind it.
LEMMA UpToMultiple ==
    ASSUME NEW n \in Nat
    PROVE  /\ n % 8 \in 0..7 /\ (n + (8 - (n % 8))) % 8 = 0
           /\ (n + ((8 - (n % 8)) + 8)) % 8 = 0
           /\ n % 16 \in 0..15 /\ (n + (16 - (n % 16))) % 16 = 0
           /\ (n + ((16 - (n % 16)) + 16)) % 16 = 0
OBVIOUS

\* Padding to a block size that some cipher has.
LEMMA PaddingOf ==
    ASSUME NEW payload \in Seq(Nat), NEW block \in {8, 16}, NEW prefix \in {0, 4}
    PROVE  /\ PaddingLen(payload, block, prefix) \in MIN_PADDING..255
           /\ (prefix + 1 + Len(payload) + PaddingLen(payload, block, prefix)) % block = 0
<1> DEFINE n == prefix + 1 + Len(payload)
           p == PaddingLen(payload, block, prefix)
<1>1. n \in Nat
  OBVIOUS
<1>2. p = IF block - (n % block) < 4 THEN (block - (n % block)) + block ELSE block - (n % block)
  BY DEF PaddingLen, MIN_PADDING
<1>3. SUFFICES p \in 4..255 /\ (n + p) % block = 0
  BY DEF MIN_PADDING
<1> HIDE DEF n, p
<1>4. CASE block = 8
  <2>1. n % 8 \in 0..7 /\ (n + (8 - (n % 8))) % 8 = 0 /\ (n + ((8 - (n % 8)) + 8)) % 8 = 0
    BY <1>1, UpToMultiple
  <2>2. p = IF 8 - (n % 8) < 4 THEN (8 - (n % 8)) + 8 ELSE 8 - (n % 8)
    BY <1>2, <1>4
  <2> DEFINE r == n % 8
  <2>3. r \in 0..7 /\ p = IF 8 - r < 4 THEN (8 - r) + 8 ELSE 8 - r
    BY <2>1, <2>2
  <2>4. p \in 4..255
    <3> HIDE DEF r
    <3> QED
      BY <2>3
  <2>5. (n + p) % 8 = 0
    BY <2>1, <2>2
  <2> QED
    BY <1>4, <2>4, <2>5
<1>5. CASE block = 16
  <2>1. n % 16 \in 0..15 /\ (n + (16 - (n % 16))) % 16 = 0 /\ (n + ((16 - (n % 16)) + 16)) % 16 = 0
    BY <1>1, UpToMultiple
  <2>2. p = IF 16 - (n % 16) < 4 THEN (16 - (n % 16)) + 16 ELSE 16 - (n % 16)
    BY <1>2, <1>5
  <2> DEFINE r == n % 16
  <2>3. r \in 0..15 /\ p = IF 16 - r < 4 THEN (16 - r) + 16 ELSE 16 - r
    BY <2>1, <2>2
  <2>4. p \in 4..255
    <3> HIDE DEF r
    <3> QED
      BY <2>3
  <2>5. (n + p) % 16 = 0
    BY <2>1, <2>2
  <2> QED
    BY <1>5, <2>4, <2>5
<1> QED
  BY <1>4, <1>5

\* For the bytes of every payload it is asked to pad.
LEMMA PaddingOfAny ==
    ASSUME NEW n \in 1..MAX_PACKET_LENGTH, NEW block \in {8, 16}, NEW prefix \in {0, 4}
    PROVE  LET len == PaddingLen([i \in 1..n |-> 0], block, prefix)
           IN  /\ (prefix + 1 + n + len) % block = 0
               /\ len \in MIN_PADDING..255
<1> DEFINE payload == [i \in 1..n |-> 0]
<1>1. n \in Nat
  BY FramingAssumption
<1>2. payload \in Seq(Nat) /\ Len(payload) = n
  BY <1>1
<1> HIDE DEF payload
<1>3. /\ PaddingLen(payload, block, prefix) \in MIN_PADDING..255
      /\ (prefix + 1 + Len(payload) + PaddingLen(payload, block, prefix)) % block = 0
  BY <1>2, PaddingOf, ZenonT(30)
<1> QED
  BY <1>2, <1>3 DEF payload

\* With a cipher and without.
LEMMA PaddingHolds == PaddingConforms
<1>1. CASE ciphered
  BY <1>1, FramingAssumption, PaddingOfAny DEF PaddingConforms
<1>2. CASE ~ciphered
  BY <1>2, PaddingOfAny DEF PaddingConforms
<1> QED
  BY <1>1, <1>2

-----------------------------------------------------------------------------
\* What the server writes are bytes.

\* A padded payload, a length field, a tag.
LEMMA PadBytes ==
    ASSUME NEW payload \in Seq(Nat), NEW block \in {8, 16}, NEW prefix \in {0, 4}
    PROVE  PadPayload(payload, block, prefix) \in Seq(Nat)
<1> DEFINE len == PaddingLen(payload, block, prefix)
<1>0. len \in MIN_PADDING..255
  BY PaddingOf
<1> HIDE DEF len
<1>1. len \in Nat
  BY <1>0 DEF MIN_PADDING
<1>2. <<len>> \in Seq(Nat) /\ [i \in 1..len |-> 0] \in Seq(Nat)
  BY <1>1
<1>3. <<len>> \o payload \o [i \in 1..len |-> 0] \in Seq(Nat)
  BY <1>2
<1> QED
  BY <1>3 DEF PadPayload, len

\* Its four bytes.
LEMMA ToBytesBytes ==
    ASSUME NEW n \in Nat
    PROVE  ToBytes(n) \in Seq(Nat)
BY DEF ToBytes

\* Right or wrong.
LEMMA TagBytes ==
    ASSUME NEW right
    PROVE  TagOf(right) \in Seq(Nat)
BY FramingAssumption DEF TagOf

\* Packets, with a cipher and without.
LEMMA SealedBytes ==
    ASSUME NEW payload \in Seq(Nat)
    PROVE  Seal(payload) \in Seq(Nat) /\ SealPlaintext(payload) \in Seq(Nat)
<1> BLOCK_SIZE \in {8, 16}
  BY FramingAssumption
<1>1. PadPayload(payload, BLOCK_SIZE, 0) \in Seq(Nat) /\ PadPayload(payload, 8, 4) \in Seq(Nat)
  BY PadBytes
<1>2. /\ ToBytes(Len(PadPayload(payload, BLOCK_SIZE, 0))) \in Seq(Nat)
      /\ ToBytes(Len(PadPayload(payload, 8, 4))) \in Seq(Nat)
  BY <1>1, ToBytesBytes
<1>3. TagOf(TRUE) \in Seq(Nat)
  BY TagBytes
<1>4. \A x, y, z \in Seq(Nat) : x \o y \in Seq(Nat) /\ x \o y \o z \in Seq(Nat)
  OBVIOUS
<1>5. Seal(payload) \in Seq(Nat)
  BY <1>1, <1>2, <1>3, <1>4 DEF Seal
<1>6. SealPlaintext(payload) \in Seq(Nat)
  BY <1>1, <1>2, <1>4 DEF SealPlaintext
<1> QED
  BY <1>5, <1>6

\* And what is not a packet.
LEMMA BadBytes ==
    ASSUME NEW how \in Malformed
    PROVE  BadPacket(how) \in Seq(Nat)
<1> DEFINE tag == IF Sealed THEN TagOf(how # "tag") ELSE <<>>
<1>1. tag \in Seq(Nat)
  BY TagBytes
<1>2. how \in {"zero", "tooLong", "padding", "empty", "tag"}
  BY StreamAssumption
<1>3. MAX_PACKET_LENGTH \in Nat
  BY FramingAssumption
<1>4. /\ ToBytes(0) \in Seq(Nat) /\ ToBytes(4) \in Seq(Nat)
      /\ ToBytes(MAX_PACKET_LENGTH + 1) \in Seq(Nat)
  BY <1>3, ToBytesBytes
<1>5. [i \in 1..MAX_PACKET_LENGTH |-> 0] \in Seq(Nat)
  BY <1>3
<1> HIDE DEF tag
<1>6. CASE how = "zero"
  BY <1>4, <1>6 DEF BadPacket
<1>7. CASE how = "tooLong"
  BY <1>4, <1>5, <1>7 DEF BadPacket
<1>8. CASE how = "padding"
  <2>1. ToBytes(4) \o <<4, 1, 1, 1>> \o tag \in Seq(Nat)
    BY <1>1, <1>4
  <2> QED
    BY <1>8, <2>1 DEF BadPacket, tag
<1>9. CASE how = "empty"
  <2>1. ToBytes(4) \o <<3, 1, 1, 1>> \o tag \in Seq(Nat)
    BY <1>1, <1>4
  <2> QED
    BY <1>9, <2>1 DEF BadPacket, tag
<1>10. CASE how = "tag"
  <2>1. ToBytes(4) \o <<1, 1, 1, 1>> \o tag \in Seq(Nat)
    BY <1>1, <1>4
  <2> QED
    BY <1>10, <2>1 DEF BadPacket, tag
<1> QED
  BY <1>2, <1>6, <1>7, <1>8, <1>9, <1>10

\* A write leaves the receiver alone.
LEMMA WriteKeeps ==
    ASSUME StreamInv, NEW bytes \in Seq(Nat), NEW what, NEW end, NEW payload,
           Writes(bytes, what, end, payload)
    PROVE  StreamInv'
<1>1. stream' \in Seq(Nat) /\ UNCHANGED <<receiverVars, fed, decision>>
  BY DEF StreamInv, TypeInv, Writes
<1> QED
  BY <1>1 DEF StreamInv, TypeInv, ScanInv, BufferBounded, receiverVars, scanVars, kexVars,
              TotalLength

\* A line is written with its end.
LEMMA LineKeeps ==
    ASSUME StreamInv, NEW line \in Seq(Nat), NEW what, WritesLine(line, what)
    PROVE  StreamInv'
<1>1. PICK eol \in {<<CR, LF>>, <<LF>>} :
        LET end == Len(stream) + Len(line \o eol)
        IN  IF end <= MAX_SCAN_BYTES THEN Writes(line \o eol, what, end, <<>>)
            ELSE Writes(line \o eol, "bad", MAX_SCAN_BYTES + 1, <<>>)
  BY DEF WritesLine
<1>2. eol \in Seq(Nat)
  <2>1. CR \in Nat /\ LF \in Nat
    BY DEF CR, LF
  <2>2. <<CR, LF>> \in Seq(Nat) /\ <<LF>> \in Seq(Nat)
    BY <2>1
  <2> QED
    BY <2>2
<1>3. line \o eol \in Seq(Nat)
  BY <1>2
<1> QED
  BY <1>1, <1>3, WriteKeeps

\* The steps of the server.
LEMMA ServerKeeps ==
    StreamInv /\ (ServerBanner \/ ServerIdent \/ ServerPacket \/ ServerMalformed) => StreamInv'
<1> SUFFICES ASSUME StreamInv
             PROVE  ServerBanner \/ ServerIdent \/ ServerPacket \/ ServerMalformed => StreamInv'
  OBVIOUS
<1>0. /\ \A line \in Banners : line \in Seq(Nat)
      /\ \A line \in Idents : line \in Seq(Nat)
      /\ \A payload \in Payloads : payload \in Seq(Nat)
  BY StreamAssumption
<1>1. CASE ServerBanner
  BY <1>0, <1>1, LineKeeps DEF ServerBanner
<1>2. CASE ServerIdent
  BY <1>0, <1>2, LineKeeps DEF ServerIdent
<1>3. CASE ServerPacket
  <2>1. PICK payload \in Payloads :
          LET wire == IF Sealed THEN Seal(payload) ELSE SealPlaintext(payload)
              what == IF payload[1] \in OutOfTurn THEN "bad" ELSE "packet"
          IN  Writes(wire, what, Len(stream) + Len(wire), payload)
    BY <1>3 DEF ServerPacket
  <2>2. (IF Sealed THEN Seal(payload) ELSE SealPlaintext(payload)) \in Seq(Nat)
    BY <1>0, SealedBytes
  <2> QED
    BY <2>1, <2>2, WriteKeeps
<1>4. CASE ServerMalformed
  BY <1>4, BadBytes, WriteKeeps DEF ServerMalformed
<1> QED
  BY <1>1, <1>2, <1>3, <1>4

-----------------------------------------------------------------------------
\* What the session does with them.

\* A delivery starts drive.
LEMMA DeliversKeeps == StreamInv /\ Delivers => StreamInv'
<1> SUFFICES ASSUME StreamInv, Delivers PROVE StreamInv'
  OBVIOUS
<1>1. PICK n \in 1..(Len(stream) - fed) :
        FeedIncoming(SubSeq(stream, fed + 1, fed + n)) /\ fed' = fed + n
  BY DEF Delivers
<1>2. SubSeq(stream, fed + 1, fed + n) \in Seq(Nat) /\ fed' \in Nat
  BY <1>1 DEF StreamInv, TypeInv
<1>3. TypeInv'
  BY <1>1, <1>2 DEF StreamInv, TypeInv, FeedIncoming, Delivers, scanVars, kexVars
<1>4. ScanInv'
  BY <1>1 DEF StreamInv, ScanInv, FeedIncoming, scanVars
<1>5. BufferBounded'
  BY <1>1 DEF BufferBounded, FeedIncoming
<1> QED
  BY <1>3, <1>4, <1>5 DEF StreamInv

\* A failure bounds nothing, and takes nothing back.
LEMMA FailKeeps ==
    ASSUME StreamInv, Fail, incoming' \in Seq(Nat), UNCHANGED <<stream, fed>>,
           decision' \in {"none", "accept", "reject"}
    PROVE  StreamInv'
BY DEF Fail, StreamInv, TypeInv, ScanInv, BufferBounded, scanVars, kexVars, Phases

\* The identification exchange waits with an empty buffer.
LEMMA ScanKeeps ==
    ASSUME StreamInv, driving, phase = "VersionExchange", DriveVersionExchange,
           UNCHANGED <<stream, log, fed, decision>>
    PROVE  StreamInv'
<1> USE FramingAssumption
<1>1. CASE Fail /\ UNCHANGED incoming
  BY <1>1, FailKeeps DEF StreamInv, TypeInv
<1>2. CASE incoming = <<>> /\ Returns
  <2>1. TypeInv' /\ ScanInv'
    BY <1>2 DEF Returns, StreamInv, TypeInv, ScanInv, scanVars, kexVars
  <2>2. BufferBounded'
    BY <1>2, <2>1 DEF Returns, BufferBounded, TypeInv, ScanInv, TotalLength
  <2> QED
    BY <2>1, <2>2 DEF StreamInv
<1>3. CASE /\ incoming # <<>> /\ ~TooLong /\ TakeByte
           /\ scan_buf' = Append(scan_buf, Head(incoming)) \/ scan_buf' = <<>>
           /\ phase' \in {phase, "Packets"}
  <2>1. incoming' \in Seq(Nat) /\ Head(incoming) \in Nat
    BY <1>3 DEF StreamInv, TypeInv, TakeByte
  <2>2. /\ scan_buf' \in Seq(Nat) /\ Len(scan_buf') <= Len(scan_buf) + 1
        /\ total_scanned' = total_scanned + 1 /\ total_scanned' <= MAX_SCAN_BYTES
    <3>1. scan_buf \in Seq(Nat) /\ total_scanned \in Nat /\ MAX_SCAN_BYTES \in Nat
      BY DEF StreamInv, TypeInv
    <3>2. scan_buf' \in Seq(Nat) /\ Len(scan_buf') <= Len(scan_buf) + 1
      <4>1. CASE scan_buf' = <<>>
        BY <3>1, <4>1
      <4>2. CASE scan_buf' = Append(scan_buf, Head(incoming))
        BY <2>1, <3>1, <4>2
      <4> QED
        BY <1>3, <4>1, <4>2
    <3>3. total_scanned' = total_scanned + 1 /\ total_scanned' <= MAX_SCAN_BYTES
      BY <1>3, <3>1 DEF TakeByte, TooLong
    <3> QED
      BY <3>2, <3>3
  <2>3. TypeInv'
    BY <1>3, <2>1, <2>2 DEF StreamInv, TypeInv, TakeByte, kexVars, Phases
  <2>4. ScanInv'
    BY <2>2 DEF StreamInv, TypeInv, ScanInv
  <2>5. BufferBounded'
    BY <1>3 DEF TakeByte, BufferBounded
  <2> QED
    BY <2>3, <2>4, <2>5 DEF StreamInv
<1> QED
  BY <1>1, <1>2, <1>3 DEF DriveVersionExchange, Scan

\* A packet is waited for only if its length is plausible.
LEMMA PacketKeeps ==
    ASSUME StreamInv, driving, DrivePacketPhase, UNCHANGED <<stream, log, fed, decision>>
    PROVE  StreamInv'
<1> USE FramingAssumption
<1> DEFINE total == TotalLength(PacketLength)
           rest == SubSeq(incoming, total + 1, Len(incoming))
<1>1. CASE Fail /\ UNCHANGED incoming
  BY <1>1, FailKeeps DEF StreamInv, TypeInv
<1>2. ASSUME Len(incoming) >= 4
      PROVE  PacketLength \in Nat
  <2>1. /\ SubSeq(incoming, 1, 4)[1] \in Nat /\ SubSeq(incoming, 1, 4)[2] \in Nat
        /\ SubSeq(incoming, 1, 4)[3] \in Nat /\ SubSeq(incoming, 1, 4)[4] \in Nat
    BY <1>2 DEF StreamInv, TypeInv
  <2> QED
    BY <2>1 DEF PacketLength, FromBytes
<1>7. ASSUME Len(incoming) >= 4
      PROVE  rest \in Seq(Nat)
  <2>1. incoming \in Seq(Nat) /\ total \in Nat
    BY <1>2, <1>7 DEF StreamInv, TypeInv, TotalLength
  <2> HIDE DEF total
  <2> QED
    BY <2>1
<1>3. CASE /\ Returns
           /\ Len(incoming) < 4 \/ Len(incoming) < TotalLength(PacketLength)
           /\ Len(incoming) >= 4 => Plausible(PacketLength)
  <2>1. TypeInv' /\ ScanInv'
    BY <1>3 DEF Returns, StreamInv, TypeInv, ScanInv, scanVars, kexVars
  <2>2. Len(incoming) < TotalLength(MAX_PACKET_LENGTH)
    BY <1>2, <1>3 DEF StreamInv, TypeInv, TotalLength, Plausible
  <2>3. BufferBounded'
    BY <1>3, <2>1, <2>2 DEF Returns, BufferBounded, ScanInv, TypeInv, TotalLength, kexVars
  <2> QED
    BY <2>1, <2>3 DEF StreamInv
<1>4. CASE Len(incoming) >= 4 /\ Fail /\ incoming' = rest
  <2>1. rest \in Seq(Nat)
    BY <1>4, <1>7
  <2> QED
    BY <1>4, <2>1, FailKeeps DEF StreamInv, TypeInv
<1>5. ASSUME Len(incoming) >= 4, incoming' = rest, NEW payload, Dispatch(payload)
      PROVE  StreamInv'
  <2>1. rest \in Seq(Nat)
    BY <1>5, <1>7
  <2>2. /\ phase' \in Phases /\ driving' /\ UNCHANGED <<scan_buf, total_scanned>>
        /\ active_kex' \in BOOLEAN /\ pending_sc_cipher' \in BOOLEAN /\ ciphered' \in BOOLEAN
    BY <1>5 DEF Dispatch, StreamInv, TypeInv, Phases, scanVars
  <2> QED
    BY <1>5, <2>1, <2>2 DEF StreamInv, TypeInv, ScanInv, BufferBounded
<1>6. CASE /\ Len(incoming) >= 4
           /\ LET packet == SubSeq(incoming, 1, total)
                  body == SubSeq(packet, 5, 4 + PacketLength)
                  payload == StripPadding(body)
                  opens == Authentic(packet) /\ PaddingFits(body) /\ payload # <<>>
                           /\ payload[1] \notin Unexpected
              IN  /\ incoming' = rest
                  /\ \/ ~opens /\ Fail
                     \/ opens /\ Dispatch(payload)
  BY <1>4, <1>5, <1>6
<1>8. CASE Len(incoming) < 4 /\ Returns
  <2>1. ~(Len(incoming) >= 4)
    BY <1>8 DEF StreamInv, TypeInv
  <2> QED
    BY <1>3, <1>8, <2>1
<1>9. CASE /\ Len(incoming) >= 4 /\ Plausible(PacketLength)
           /\ Len(incoming) < TotalLength(PacketLength)
           /\ Returns
  BY <1>3, <1>9
<1> QED
  BY <1>1, <1>6, <1>8, <1>9 DEF DrivePacketPhase

\* Nor does drive wait when it may not read, or the host's answer end a wait.
LEMMA StopKeeps ==
    ASSUME StreamInv, Stopped, Returns, UNCHANGED <<stream, log, fed, decision>>
    PROVE  StreamInv'
BY DEF StreamInv, TypeInv, ScanInv, BufferBounded, Returns, Stopped, scanVars, kexVars

LEMMA AnswerKeeps == StreamInv /\ HostDecides => StreamInv'
<1> SUFFICES ASSUME StreamInv, HostDecides PROVE StreamInv'
  OBVIOUS
<1>1. PICK answer \in {"accept", "reject"} :
        ProvideHostKeyDecision(answer = "accept") /\ decision' = answer
  BY DEF HostDecides
<1>2. CASE Fail /\ UNCHANGED incoming
  BY <1>1, <1>2, FailKeeps DEF HostDecides, StreamInv, TypeInv
<1>3. CASE driving' = TRUE
  BY <1>1, <1>3 DEF ProvideHostKeyDecision, HostDecides, Fail, StreamInv, TypeInv, ScanInv,
                    BufferBounded, scanVars, Phases
<1> QED
  BY <1>1, <1>2, <1>3 DEF ProvideHostKeyDecision

-----------------------------------------------------------------------------
\* What has been parsed.

\* The log l, read as the cuts of the stream s.  Where its first k entries end, and
\* what is among them.
Edge(l, k) == IF k = 0 THEN 0 ELSE l[k].end

Clean(l, k) == \A j \in 1..k : l[j].what # "bad"

HasIdent(l, k) == \E j \in 1..k : l[j].what = "ident"

Has(l, k, m) == \E j \in 1..k : l[j].payload = <<m>>

Keyed(l, k) == Has(l, k, NEWKEYS)

NotNow(l, k) ==
    {m \in {KEX_REPLY, NEWKEYS} :
        /\ m = KEX_REPLY => Has(l, k, KEX_REPLY) \/ ~Has(l, k, KEXINIT)
        /\ m = NEWKEYS => Has(l, k, NEWKEYS) \/ ~Has(l, k, KEX_REPLY)}

PacketsTo(l, k) == {i \in 1..k : l[i].what = "packet"}

\* w stands in the stream behind its first b bytes.
Holds(s, b, w) == b + Len(w) <= Len(s) /\ \A j \in 1..Len(w) : s[b + j] = w[j]

LineEnds == {<<CR, LF>>, <<LF>>}

\* What an entry says of the stream, if nothing before it is bad: a line,
LineEntry(l, s, i) ==
    LET b == Edge(l, i - 1)
    IN  \E line \in Banners \cup Idents, eol \in LineEnds :
            LET end == b + Len(line \o eol)
            IN  /\ Holds(s, b, line \o eol) /\ l[i].payload = <<>>
                /\ \/ end > MAX_SCAN_BYTES /\ l[i].what = "bad" /\ l[i].end = MAX_SCAN_BYTES + 1
                   \/ /\ end <= MAX_SCAN_BYTES /\ l[i].end = end
                      /\ \/ line \in Banners /\ l[i].what = "banner"
                         \/ /\ line \in Idents
                            /\ l[i].what = IF ValidVersion(line) THEN "ident" ELSE "bad"

\* or, behind the identification, a packet or something that is none.
Wire(payload, keyed) == IF keyed THEN Seal(payload) ELSE SealPlaintext(payload)

SpoiltTag(how, keyed) == IF keyed THEN TagOf(how # "tag") ELSE <<>>

Spoilt(how, keyed) ==
    CASE how = "zero" -> ToBytes(0)
      [] how = "tooLong" -> ToBytes(MAX_PACKET_LENGTH + 1) \o [i \in 1..MAX_PACKET_LENGTH |-> 0]
      [] how = "padding" -> ToBytes(4) \o <<4, 1, 1, 1>> \o SpoiltTag(how, keyed)
      [] how = "empty" -> ToBytes(4) \o <<3, 1, 1, 1>> \o SpoiltTag(how, keyed)
      [] how = "tag" -> ToBytes(4) \o <<1, 1, 1, 1>> \o SpoiltTag(how, keyed)

PacketEntry(l, s, i) ==
    LET b == Edge(l, i - 1)
        keyed == Keyed(l, i - 1)
    IN  \/ \E payload \in Payloads :
              /\ Holds(s, b, Wire(payload, keyed)) /\ l[i].end = b + Len(Wire(payload, keyed))
              /\ l[i].payload = payload
              /\ payload = <<KEXINIT>> => ~Has(l, i - 1, KEXINIT)
              /\ l[i].what = IF payload[1] \in NotNow(l, i - 1) THEN "bad" ELSE "packet"
        \/ \E how \in Malformed :
              /\ how = "tag" => keyed
              /\ Holds(s, b, Spoilt(how, keyed))
              /\ l[i].end = b + (IF how = "tooLong" THEN 4 ELSE Len(Spoilt(how, keyed)))
              /\ l[i].payload = <<>> /\ l[i].what = "bad"

Entry(l, s, i) == IF HasIdent(l, i - 1) THEN PacketEntry(l, s, i) ELSE LineEntry(l, s, i)

Entries == [what : {"banner", "ident", "packet", "bad"}, end : Nat, payload : Seq(Nat)]

\* The log and the stream agree, up to the first entry that is bad.
Agree(l, s) ==
    /\ l \in Seq(Entries) /\ s \in Seq(Nat)
    /\ \A i, j \in 0..Len(l) : i < j => Edge(l, i) < Edge(l, j)
    /\ \A i \in 0..Len(l) : Edge(l, i) <= Len(s)
    /\ Clean(l, Len(l)) => Edge(l, Len(l)) = Len(s)
    /\ \A i \in 1..Len(l) : Clean(l, i - 1) => Entry(l, s, i)

\* The packets among the first k entries are what has been dispatched.
Done(d, l, k) ==
    /\ Len(d) = Cardinality(PacketsTo(l, k))
    /\ \A i \in PacketsTo(l, k) :
          d[Cardinality({j \in PacketsTo(l, k) : j <= i})] = l[i].payload

\* The bytes of the stream that drive has taken.
Taken == fed - Len(incoming)

\* The key exchange, behind the k-th entry.  The session waits if the reply is the
\* last that it has read.
Exchanged(k) ==
    /\ active_kex <=> Has(log, k, KEXINIT) /\ ~Has(log, k, KEX_REPLY)
    /\ pending_sc_cipher <=> decision = "accept" /\ ~Has(log, k, NEWKEYS)
    /\ ciphered <=> Keyed(log, k)
    /\ ciphered => decision = "accept"
    /\ decision = "accept" => Has(log, k, KEX_REPLY)
    /\ decision # "reject"
    /\ Has(log, k, KEX_REPLY) => Has(log, k, KEXINIT)
    /\ phase = "AwaitingHostKeyDecision" <=> Has(log, k, KEX_REPLY) /\ decision = "none"
    /\ phase = "AwaitingHostKeyDecision" =>
          \A j \in 1..(k - 1) : log[j].payload # <<KEX_REPLY>>

\* The session is behind the k-th entry: of the next it may have read a part of a
\* line, and when drive has returned for want of input that entry is not complete.
Scanning(k) ==
    /\ ~HasIdent(log, k)
    /\ total_scanned = Taken /\ Taken = Edge(log, k) + Len(scan_buf)
    /\ \A j \in 1..Len(scan_buf) : scan_buf[j] = stream[Edge(log, k) + j] /\ scan_buf[j] # LF

Behind(k) ==
    /\ k \in 0..Len(log) /\ Clean(log, k) /\ ~Has(log, k, DISCONNECT)
    /\ Done(dispatched, log, k) /\ Exchanged(k)
    /\ phase = "VersionExchange" => Scanning(k)
    /\ phase # "VersionExchange" => HasIdent(log, k) /\ Taken = Edge(log, k)
    /\ ~driving /\ phase # "AwaitingHostKeyDecision" /\ k < Len(log) => fed < Edge(log, k + 1)

\* It has ended at the k-th entry.
Passed(i) ==
    /\ log[i].what # "bad" /\ log[i].payload # <<DISCONNECT>>
    /\ log[i].payload = <<KEX_REPLY>> => decision = "accept"

HaltedAt(k) ==
    /\ k \in 1..Len(log) /\ Edge(log, k) <= fed
    /\ \A j \in 1..(k - 1) : Passed(j)
    /\ Ends(k) /\ Done(dispatched, log, k)

ParseInv ==
    /\ Agree(log, stream)
    /\ fed <= Len(stream) /\ dispatched \in Seq(Seq(Nat))
    /\ phase # "Closed" =>
          /\ Len(incoming) <= fed
          /\ \A j \in 1..Len(incoming) : incoming[j] = stream[Taken + j]
          /\ \E k \in 0..Len(log) : Behind(k)
    /\ phase = "Closed" => \E k \in 1..Len(log) : HaltedAt(k)

-----------------------------------------------------------------------------
\* Bytes.

\* A length field says the length that was written.
LEMMA FourBytes ==
    ASSUME NEW n \in Nat
    PROVE  FromBytes(ToBytes(n)) = n
<1> DEFINE a == n \div 256
           b == n \div 65536
           c == n \div 16777216
<1>1. a \in Nat /\ b \in Nat /\ c \in Nat /\ n = 256 * a + (n % 256)
  OBVIOUS
<1>2. a = 256 * b + (a % 256)
  OBVIOUS
<1>3. b = 256 * c + (b % 256)
  OBVIOUS
<1>4. FromBytes(ToBytes(n)) = ((c * 256 + (b % 256)) * 256 + (a % 256)) * 256 + (n % 256)
  BY DEF FromBytes, ToBytes
<1> HIDE DEF a, b, c
<1> QED
  BY <1>1, <1>2, <1>3, <1>4

\* Two sequences that agree everywhere are one.
LEMMA SameSeq ==
    ASSUME NEW x \in Seq(Nat), NEW y \in Seq(Nat), Len(x) = Len(y),
           \A j \in 1..Len(x) : x[j] = y[j]
    PROVE  x = y
OBVIOUS

\* Names for two operators of sequences, which the provers are to see through only
\* where their bytes matter.
Cat(x, y) == x \o y

Part(q, m, n) == SubSeq(q, m + 1, m + n)

Joined(w, x, y) ==
    /\ w \in Seq(Nat) /\ Len(w) = Len(x) + Len(y)
    /\ \A j \in 1..Len(x) : w[j] = x[j]
    /\ \A j \in 1..Len(y) : w[Len(x) + j] = y[j]

\* Where the bytes of a concatenation come from.
LEMMA ConcatAt ==
    ASSUME NEW x \in Seq(Nat), NEW y \in Seq(Nat)
    PROVE  Joined(Cat(x, y), x, y)
BY DEF Cat, Joined

Copied(z, q, m, n) == z \in Seq(Nat) /\ Len(z) = n /\ \A j \in 1..n : z[j] = q[m + j]

\* And those of a part.
LEMMA PartAt ==
    ASSUME NEW q \in Seq(Nat), NEW m \in Nat, NEW n \in Nat, m + n <= Len(q)
    PROVE  Copied(Part(q, m, n), q, m, n)
<1> DEFINE z == Part(q, m, n)
<1>1. \A j \in 1..n : m + j \in 1..Len(q)
  OBVIOUS
<1>2. m + n - (m + 1) + 1 = n
  OBVIOUS
<1>3. z = [j \in 1..n |-> q[m + j]]
  <2>1. z = [j \in 1..(m + n - (m + 1) + 1) |-> q[j + (m + 1) - 1]]
    BY DEF Part
  <2>2. \A j \in 1..n : j + (m + 1) - 1 = m + j
    OBVIOUS
  <2> QED
    BY <1>2, <2>1, <2>2
<1> HIDE DEF z
<1>4. z \in Seq(Nat) /\ Len(z) = n /\ \A j \in 1..n : z[j] = q[m + j]
  BY <1>1, <1>3
<1> QED
  BY <1>4 DEF z, Copied

\* What is written for a packet, length field, body and tag, and what is sealed,
\* length of the padding, payload and padding, are three parts one behind the other.
Frame(w, h, body, tag) ==
    /\ w \in Seq(Nat) /\ Len(w) = Len(h) + Len(body) + Len(tag)
    /\ \A j \in 1..Len(h) : w[j] = h[j]
    /\ \A j \in 1..Len(body) : w[Len(h) + j] = body[j]
    /\ \A j \in 1..Len(tag) : w[Len(h) + Len(body) + j] = tag[j]

\* Two concatenations make one.
LEMMA FrameJoined ==
    ASSUME NEW h \in Seq(Nat), NEW body \in Seq(Nat), NEW tag \in Seq(Nat),
           NEW hb, NEW w, Joined(hb, h, body), Joined(w, hb, tag)
    PROVE  Frame(w, h, body, tag)
<1> PICK c \in Nat, k \in Nat, l \in Nat, m \in Nat :
        c = Len(h) /\ k = Len(body) /\ l = Len(tag) /\ m = c + k
  OBVIOUS
<1>1. /\ hb \in Seq(Nat) /\ Len(hb) = m
      /\ \A j \in 1..c : hb[j] = h[j]
      /\ \A j \in 1..k : hb[c + j] = body[j]
  BY DEF Joined
<1>2. /\ w \in Seq(Nat) /\ Len(w) = m + l
      /\ \A j \in 1..m : w[j] = hb[j]
      /\ \A j \in 1..l : w[m + j] = tag[j]
  BY <1>1 DEF Joined
<1>3. \A j \in 1..c : j \in 1..m
  OBVIOUS
<1>4. \A j \in 1..k : c + j \in 1..m
  OBVIOUS
<1>5. \A j \in 1..c : w[j] = h[j]
  BY <1>1, <1>2, <1>3
<1>6. \A j \in 1..k : w[c + j] = body[j]
  BY <1>1, <1>2, <1>4
<1> QED
  BY <1>2, <1>5, <1>6 DEF Frame

\* So for what is written with `\o`.
LEMMA FrameCat ==
    ASSUME NEW h \in Seq(Nat), NEW body \in Seq(Nat), NEW tag \in Seq(Nat)
    PROVE  Frame(h \o body \o tag, h, body, tag)
<1>1. Joined(Cat(h, body), h, body)
  BY ConcatAt
<1>2. Cat(h, body) \in Seq(Nat)
  BY <1>1 DEF Joined
<1>3. Joined(Cat(Cat(h, body), tag), Cat(h, body), tag)
  BY <1>2, ConcatAt
<1>4. Frame(Cat(Cat(h, body), tag), h, body, tag)
  BY <1>1, <1>3, FrameJoined
<1> QED
  BY <1>4 DEF Cat

\* Its body and its tag.
LEMMA FrameParts ==
    ASSUME NEW h \in Seq(Nat), NEW body \in Seq(Nat), NEW tag \in Seq(Nat),
           NEW w, Frame(w, h, body, tag)
    PROVE  /\ SubSeq(w, Len(h) + 1, Len(h) + Len(body)) = body
           /\ SubSeq(w, Len(w) - Len(tag) + 1, Len(w)) = tag
<1> PICK c \in Nat, k \in Nat, l \in Nat, m \in Nat :
        c = Len(h) /\ k = Len(body) /\ l = Len(tag) /\ m = c + k
  OBVIOUS
<1>1. /\ w \in Seq(Nat) /\ Len(w) = m + l
      /\ \A j \in 1..k : w[c + j] = body[j]
      /\ \A j \in 1..l : w[m + j] = tag[j]
  BY DEF Frame
<1>2. c + k <= Len(w) /\ m + l <= Len(w)
  BY <1>1
<1>3. Part(w, c, k) = body
  <2>0. Copied(Part(w, c, k), w, c, k)
    BY <1>1, <1>2, PartAt
  <2>1. Part(w, c, k) \in Seq(Nat) /\ Len(Part(w, c, k)) = k
    BY <2>0 DEF Copied
  <2>2. \A j \in 1..k : Part(w, c, k)[j] = w[c + j]
    BY <2>0 DEF Copied
  <2>3. \A j \in 1..k : Part(w, c, k)[j] = body[j]
    BY <1>1, <2>2
  <2> QED
    BY <2>1, <2>3, SameSeq
<1>4. Part(w, m, l) = tag
  <2>0. Copied(Part(w, m, l), w, m, l)
    BY <1>1, <1>2, PartAt
  <2>1. Part(w, m, l) \in Seq(Nat) /\ Len(Part(w, m, l)) = l
    BY <2>0 DEF Copied
  <2>2. \A j \in 1..l : Part(w, m, l)[j] = w[m + j]
    BY <2>0 DEF Copied
  <2>3. \A j \in 1..l : Part(w, m, l)[j] = tag[j]
    BY <1>1, <2>2
  <2> QED
    BY <2>1, <2>3, SameSeq
<1>5. Len(w) - l + 1 = m + 1 /\ Len(w) = m + l
  BY <1>1
<1>6. SubSeq(w, c + 1, c + k) = body
  BY <1>3, <1>5 DEF Part
<1>7. SubSeq(w, Len(w) - l + 1, Len(w)) = tag
  BY <1>4, <1>5 DEF Part
<1> QED
  BY <1>6, <1>7

\* A buffer q that holds what is in the stream behind its first b bytes has the
\* length of the packet there in its first four bytes, and the packet if it is long
\* enough.
LEMMA FrameRead ==
    ASSUME NEW n \in Nat, NEW body \in Seq(Nat), NEW tag \in Seq(Nat),
           NEW w, Frame(w, ToBytes(n), body, tag),
           NEW s \in Seq(Nat), NEW b \in Nat, Holds(s, b, w),
           NEW q \in Seq(Nat), \A j \in 1..Len(q) : q[j] = s[b + j]
    PROVE  /\ Len(q) >= 4 => FromBytes(SubSeq(q, 1, 4)) = n
           /\ Len(q) >= Len(w) => SubSeq(q, 1, Len(w)) = w
<1> PICK total \in Nat, k \in Nat : total = 4 + Len(body) + Len(tag) /\ k = Len(q)
  OBVIOUS
<1>1. /\ w \in Seq(Nat) /\ Len(w) = total
      /\ \A j \in 1..4 : w[j] = ToBytes(n)[j]
  <2>1. Len(ToBytes(n)) = 4
    BY DEF ToBytes
  <2> QED
    BY <2>1 DEF Frame
<1>2. 0 \in Nat /\ 4 \in Nat /\ 0 + 1 = 1 /\ 0 + 4 = 4 /\ 0 + total = total
  OBVIOUS
<1>3. \A j \in 1..total : s[b + j] = w[j]
  BY <1>1 DEF Holds
<1>4. ASSUME k >= 4
      PROVE  FromBytes(SubSeq(q, 1, 4)) = n
  <2> DEFINE h == ToBytes(n)
  <2>1. \A j \in 1..4 : j \in 1..total /\ j \in 1..k
    BY <1>4
  <2>2. \A j \in 1..4 : q[j] = h[j]
    BY <1>1, <1>3, <2>1
  <2> HIDE DEF h
  <2>7. Copied(Part(q, 0, 4), q, 0, 4)
    BY <1>2, <1>4, PartAt
  <2>3. \A j \in 1..4 : Part(q, 0, 4)[j] = q[0 + j]
    BY <2>7 DEF Copied
  <2>4. \A j \in 1..4 : Part(q, 0, 4)[j] = h[j]
    BY <2>2, <2>3
  <2>5. FromBytes(Part(q, 0, 4)) = FromBytes(h)
    BY <2>4 DEF FromBytes
  <2>6. FromBytes(h) = n
    BY FourBytes DEF h
  <2> QED
    BY <1>2, <2>5, <2>6 DEF Part
<1>5. ASSUME k >= total
      PROVE  SubSeq(q, 1, total) = w
  <2>1. 0 + total <= Len(q)
    BY <1>5
  <2>7. Copied(Part(q, 0, total), q, 0, total)
    BY <1>2, <2>1, PartAt
  <2>2. Part(q, 0, total) \in Seq(Nat) /\ Len(Part(q, 0, total)) = total
    BY <2>7 DEF Copied
  <2>3. \A j \in 1..total : Part(q, 0, total)[j] = q[0 + j]
    BY <2>7 DEF Copied
  <2>4. \A j \in 1..total : 0 + j = j /\ j \in 1..k
    BY <1>5
  <2>5. \A j \in 1..total : Part(q, 0, total)[j] = w[j]
    BY <1>3, <2>3, <2>4
  <2>6. Part(q, 0, total) = w
    BY <1>1, <2>2, <2>5, SameSeq
  <2> QED
    BY <1>2, <2>6 DEF Part
<1> QED
  BY <1>1, <1>4, <1>5

-----------------------------------------------------------------------------
\* Packets.

\* Stripped of its padding, what has been sealed is the payload.
LEMMA StripPad ==
    ASSUME NEW payload \in Seq(Nat), NEW block \in {8, 16}, NEW prefix \in {0, 4}
    PROVE  LET body == PadPayload(payload, block, prefix)
           IN  /\ body \in Seq(Nat) /\ Len(body) >= 1
               /\ PaddingFits(body) /\ StripPadding(body) = payload
<1> DEFINE len == PaddingLen(payload, block, prefix)
           zeros == [i \in 1..len |-> 0]
           body == <<len>> \o payload \o zeros
<1>1. len \in Nat
  <2>1. len \in MIN_PADDING..255
    BY PaddingOf
  <2> HIDE DEF len
  <2> QED
    BY <2>1 DEF MIN_PADDING
<1> HIDE DEF len
<1>2. zeros \in Seq(Nat) /\ Len(zeros) = len
  BY <1>1
<1>3. <<len>> \in Seq(Nat) /\ Len(<<len>>) = 1 /\ <<len>>[1] = len
  BY <1>1
<1> HIDE DEF zeros
<1>4. Frame(body, <<len>>, payload, zeros)
  BY <1>2, <1>3, FrameCat
<1>5. SubSeq(body, Len(<<len>>) + 1, Len(<<len>>) + Len(payload)) = payload
  BY <1>2, <1>3, <1>4, FrameParts
<1> HIDE DEF body
<1>6. body \in Seq(Nat) /\ Len(body) = 1 + Len(payload) + len /\ body[1] = len
  BY <1>2, <1>3, <1>4 DEF Frame
<1>7. Len(body) - body[1] = 1 + Len(payload)
  BY <1>1, <1>6
<1>8. StripPadding(body) = payload
  BY <1>3, <1>5, <1>7 DEF StripPadding
<1>9. PaddingFits(body) /\ Len(body) >= 1
  BY <1>1, <1>6 DEF PaddingFits
<1> QED
  BY <1>6, <1>8, <1>9 DEF PadPayload, body, len, zeros

\* What drive asks of a packet, when `no` are the messages that are an error.
Opens(body, tag, keyed, no) ==
    /\ keyed => tag = TagOf(TRUE)
    /\ PaddingFits(body) /\ StripPadding(body) # <<>>
    /\ StripPadding(body)[1] \notin no

\* An entry of the log tells what drive will make of the bytes behind the first b:
\* it sees by the length field that there is no packet, or it takes the packet and
\* opens it or not.
Reads(e, s, b, keyed, no, n, body, tag, w) ==
    /\ Frame(w, ToBytes(n), body, tag) /\ Holds(s, b, w)
    /\ ~Plausible(n) => e.what = "bad" /\ e.end = b + 4
    /\ Plausible(n) =>
          /\ Len(body) = n /\ Len(tag) = (IF keyed THEN TAG_LEN ELSE 0)
          /\ e.end = b + Len(w)
          /\ Opens(body, tag, keyed, no) => e.what = "packet" /\ e.payload = StripPadding(body)
          /\ ~Opens(body, tag, keyed, no) => e.what = "bad"

\* So for what ServerPacket writes,
LEMMA PayloadReadable ==
    ASSUME NEW e, NEW s, NEW b, NEW keyed, NEW no, NEW payload \in Payloads,
           Holds(s, b, Wire(payload, keyed)), e.end = b + Len(Wire(payload, keyed)),
           e.payload = payload,
           e.what = IF payload[1] \in no THEN "bad" ELSE "packet"
    PROVE  \E n \in Nat, body \in Seq(Nat), tag \in Seq(Nat) :
              \E w : Reads(e, s, b, keyed, no, n, body, tag, w)
<1>0. payload \in Seq(Nat)
  BY StreamAssumption
<1>1. /\ payload # <<>>
      /\ Len(PadPayload(payload, 8, 4)) <= MAX_PACKET_LENGTH
      /\ Len(PadPayload(payload, BLOCK_SIZE, 0)) <= MAX_PACKET_LENGTH
  BY StreamAssumption
<1> DEFINE body == IF keyed THEN PadPayload(payload, BLOCK_SIZE, 0) ELSE PadPayload(payload, 8, 4)
           tag == IF keyed THEN TagOf(TRUE) ELSE <<>>
           w == ToBytes(Len(body)) \o body \o tag
<1>2. /\ body \in Seq(Nat) /\ Len(body) >= 1 /\ Len(body) <= MAX_PACKET_LENGTH
      /\ PaddingFits(body) /\ StripPadding(body) = payload
  <2>1. CASE keyed
    BY <1>0, <1>1, <2>1, FramingAssumption, StripPad
  <2>2. CASE ~keyed
    BY <1>0, <1>1, <2>2, StripPad
  <2> QED
    BY <2>1, <2>2
<1>3. tag \in Seq(Nat) /\ Len(tag) = (IF keyed THEN TAG_LEN ELSE 0)
  BY FramingAssumption DEF TagOf
<1>5. w = Wire(payload, keyed)
  <2>1. CASE keyed
    BY <2>1 DEF Wire, Seal
  <2>2. CASE ~keyed
    <3>1. ToBytes(Len(body)) \o body \in Seq(Nat)
      BY <1>2, ToBytesBytes
    <3>2. \A x \in Seq(Nat) : x \o <<>> = x
      OBVIOUS
    <3>3. Wire(payload, keyed) = ToBytes(Len(body)) \o body
      BY <2>2 DEF Wire, SealPlaintext
    <3>4. w = (ToBytes(Len(body)) \o body) \o <<>>
      BY <2>2
    <3> HIDE DEF body, w
    <3> QED
      BY <3>1, <3>2, <3>3, <3>4
  <2> QED
    BY <2>1, <2>2
<1>7. keyed => tag = TagOf(TRUE)
  OBVIOUS
<1> HIDE DEF body, tag
<1>6. ToBytes(Len(body)) \in Seq(Nat) /\ Len(body) \in Nat
  <2>1. \A x \in Seq(Nat) : Len(x) \in Nat
    OBVIOUS
  <2> QED
    BY <1>2, <2>1, ToBytesBytes
<1>8. Frame(w, ToBytes(Len(body)), body, tag)
  BY <1>2, <1>3, <1>6, FrameCat
<1> HIDE DEF w
<1>9. Plausible(Len(body))
  BY <1>2 DEF Plausible
<1>10. Opens(body, tag, keyed, no) <=> payload[1] \notin no
  BY <1>1, <1>2, <1>7 DEF Opens
<1>11. Reads(e, s, b, keyed, no, Len(body), body, tag, w)
  BY <1>2, <1>3, <1>5, <1>8, <1>9, <1>10 DEF Reads
<1> QED
  BY <1>2, <1>3, <1>6, <1>11

\* and for what ServerMalformed does.
LEMMA MalformedReadable ==
    ASSUME NEW e, NEW s, NEW b, NEW keyed, NEW no, NEW how \in Malformed, how = "tag" => keyed,
           Holds(s, b, Spoilt(how, keyed)),
           e.end = b + (IF how = "tooLong" THEN 4 ELSE Len(Spoilt(how, keyed))),
           e.what = "bad"
    PROVE  \E n \in Nat, body \in Seq(Nat), tag \in Seq(Nat) :
              \E w : Reads(e, s, b, keyed, no, n, body, tag, w)
<1>0. MAX_PACKET_LENGTH \in Nat \ {0} /\ MAX_PACKET_LENGTH >= 4 /\ TAG_LEN \in Nat \ {0}
  BY FramingAssumption, StreamAssumption
<1>h. how \in {"zero", "tooLong", "padding", "empty", "tag"}
  BY StreamAssumption
<1> DEFINE tag == SpoiltTag(how, keyed)
<1>1. tag \in Seq(Nat) /\ Len(tag) = IF keyed THEN TAG_LEN ELSE 0
  BY <1>0 DEF SpoiltTag, TagOf
<1>2. \A x \in Seq(Nat) : x \o <<>> = x /\ Len(x) \in Nat
  OBVIOUS
<1>3. \A n \in Nat : ToBytes(n) \in Seq(Nat) /\ Len(ToBytes(n)) = 4
  BY ToBytesBytes DEF ToBytes
<1>4. <<>> \in Seq(Nat) /\ Len(<<>>) = 0
  OBVIOUS
<1> HIDE DEF tag
<1>5. CASE how = "zero"
  <2>1. Spoilt(how, keyed) = ToBytes(0)
    BY <1>5 DEF Spoilt
  <2> DEFINE w == ToBytes(0) \o <<>> \o <<>>
  <2>2. w = ToBytes(0) /\ 0 \in Nat
    BY <1>2, <1>3
  <2>3. Frame(w, ToBytes(0), <<>>, <<>>)
    BY <1>3, <1>4, <2>2, FrameCat
  <2> HIDE DEF w
  <2>4. ~Plausible(0)
    BY DEF Plausible
  <2>5. Reads(e, s, b, keyed, no, 0, <<>>, <<>>, w)
    BY <1>3, <1>5, <2>1, <2>2, <2>3, <2>4 DEF Reads
  <2> QED
    BY <1>4, <2>5
<1>6. CASE how = "tooLong"
  <2> DEFINE n == MAX_PACKET_LENGTH + 1
             zeros == [i \in 1..MAX_PACKET_LENGTH |-> 0]
             hz == ToBytes(n) \o zeros
             w == hz \o <<>>
  <2>1. zeros \in Seq(Nat) /\ n \in Nat /\ ~Plausible(n)
    BY <1>0 DEF Plausible
  <2>2. Spoilt(how, keyed) = hz
    BY <1>6 DEF Spoilt
  <2> HIDE DEF n, zeros
  <2>3. hz \in Seq(Nat)
    BY <1>3, <2>1
  <2>4. w = hz
    BY <1>2, <2>3
  <2>5. Frame(w, ToBytes(n), zeros, <<>>)
    BY <1>3, <1>4, <2>1, FrameCat
  <2> HIDE DEF hz, w
  <2>6. Reads(e, s, b, keyed, no, n, zeros, <<>>, w)
    BY <1>6, <2>1, <2>2, <2>4, <2>5 DEF Reads
  <2> QED
    BY <1>4, <2>1, <2>6
<1>7. ASSUME NEW body \in Seq(Nat), Len(body) = 4, ~Opens(body, tag, keyed, no),
             Spoilt(how, keyed) = ToBytes(4) \o body \o tag, how # "tooLong"
      PROVE  \E w : Reads(e, s, b, keyed, no, 4, body, tag, w)
  <2> DEFINE w == ToBytes(4) \o body \o tag
  <2>1. 4 \in Nat /\ Plausible(4)
    BY <1>0 DEF Plausible
  <2>2. Frame(w, ToBytes(4), body, tag)
    BY <1>1, <1>3, <1>7, FrameCat
  <2>3. Spoilt(how, keyed) = w
    BY <1>7
  <2> HIDE DEF w
  <2>4. Reads(e, s, b, keyed, no, 4, body, tag, w)
    BY <1>1, <1>7, <2>1, <2>2, <2>3 DEF Reads
  <2> QED
    BY <2>4
<1>8. CASE how = "padding"
  <2> DEFINE body == <<4, 1, 1, 1>>
  <2>1. body \in Seq(Nat) /\ Len(body) = 4 /\ ~PaddingFits(body)
    BY DEF PaddingFits
  <2>2. Spoilt(how, keyed) = ToBytes(4) \o body \o tag
    BY <1>8 DEF Spoilt, tag
  <2> HIDE DEF body
  <2>3. ~Opens(body, tag, keyed, no)
    BY <2>1 DEF Opens
  <2>4. how # "tooLong" /\ 4 \in Nat
    BY <1>8
  <2>5. \E w : Reads(e, s, b, keyed, no, 4, body, tag, w)
    BY <1>7, <2>1, <2>2, <2>3, <2>4
  <2> QED
    BY <1>1, <2>1, <2>4, <2>5
<1>9. CASE how = "empty"
  <2> DEFINE body == <<3, 1, 1, 1>>
  <2>1. body \in Seq(Nat) /\ Len(body) = 4 /\ StripPadding(body) = <<>>
    BY DEF StripPadding
  <2>2. Spoilt(how, keyed) = ToBytes(4) \o body \o tag
    BY <1>9 DEF Spoilt, tag
  <2> HIDE DEF body
  <2>3. ~Opens(body, tag, keyed, no)
    BY <2>1 DEF Opens
  <2>4. how # "tooLong" /\ 4 \in Nat
    BY <1>9
  <2>5. \E w : Reads(e, s, b, keyed, no, 4, body, tag, w)
    BY <1>7, <2>1, <2>2, <2>3, <2>4
  <2> QED
    BY <1>1, <2>1, <2>4, <2>5
<1>10. CASE how = "tag"
  <2> DEFINE body == <<1, 1, 1, 1>>
  <2>1. body \in Seq(Nat) /\ Len(body) = 4
    OBVIOUS
  <2>2. Spoilt(how, keyed) = ToBytes(4) \o body \o tag
    BY <1>10 DEF Spoilt, tag
  <2> HIDE DEF body
  <2>6. tag # TagOf(TRUE)
    <3>1. 1 \in 1..TAG_LEN
      BY <1>0
    <3>2. tag = [j \in 1..TAG_LEN |-> IF how # "tag" THEN 1 ELSE 0]
      BY <1>10 DEF tag, SpoiltTag, TagOf
    <3>3. tag = [j \in 1..TAG_LEN |-> 0]
      BY <1>10, <3>2
    <3>4. tag[1] = 0
      BY <3>1, <3>3
    <3> DEFINE right == TagOf(TRUE)
    <3>5. right[1] = 1
      BY <3>1 DEF TagOf
    <3> HIDE DEF right
    <3>6. tag # right
      BY <3>4, <3>5
    <3> QED
      BY <3>6 DEF right
  <2>3. ~Opens(body, tag, keyed, no)
    BY <1>10, <2>6 DEF Opens
  <2>4. how # "tooLong" /\ 4 \in Nat
    BY <1>10
  <2>5. \E w : Reads(e, s, b, keyed, no, 4, body, tag, w)
    BY <1>7, <2>1, <2>2, <2>3, <2>4
  <2> QED
    BY <1>1, <2>1, <2>4, <2>5
<1> QED
  BY <1>h, <1>5, <1>6, <1>8, <1>9, <1>10

\* Either way.
LEMMA PacketReadable ==
    ASSUME NEW l, NEW s, NEW i, PacketEntry(l, s, i)
    PROVE  \E n \in Nat, body \in Seq(Nat), tag \in Seq(Nat) :
              \E w : Reads(l[i], s, Edge(l, i - 1), Keyed(l, i - 1), NotNow(l, i - 1), n, body, tag, w)
BY PayloadReadable, MalformedReadable DEF PacketEntry

-----------------------------------------------------------------------------
\* What the server adds.

Extends(l2, l) ==
    /\ Len(l) \in Nat /\ Len(l2) \in Nat /\ Len(l) <= Len(l2)
    /\ \A i \in 1..Len(l) : l2[i] = l[i]

\* All that is written are bytes.
LEMMA WireBytes ==
    ASSUME NEW payload \in Payloads, NEW keyed
    PROVE  Wire(payload, keyed) \in Seq(Nat)
BY StreamAssumption, SealedBytes DEF Wire

\* Also what is no packet.
LEMMA SpoiltBytes ==
    ASSUME NEW how \in Malformed, NEW keyed
    PROVE  Spoilt(how, keyed) \in Seq(Nat)
<1> DEFINE tag == SpoiltTag(how, keyed)
<1>1. tag \in Seq(Nat)
  BY TagBytes DEF SpoiltTag
<1>2. how \in {"zero", "tooLong", "padding", "empty", "tag"}
  BY StreamAssumption
<1>3. MAX_PACKET_LENGTH \in Nat
  BY FramingAssumption
<1>4. /\ ToBytes(0) \in Seq(Nat) /\ ToBytes(4) \in Seq(Nat)
      /\ ToBytes(MAX_PACKET_LENGTH + 1) \in Seq(Nat)
  BY <1>3, ToBytesBytes
<1>5. [i \in 1..MAX_PACKET_LENGTH |-> 0] \in Seq(Nat)
  BY <1>3
<1> HIDE DEF tag
<1>6. \A x, y, z \in Seq(Nat) : x \o y \in Seq(Nat) /\ x \o y \o z \in Seq(Nat)
  OBVIOUS
<1>7. /\ <<4, 1, 1, 1>> \in Seq(Nat) /\ <<3, 1, 1, 1>> \in Seq(Nat)
      /\ <<1, 1, 1, 1>> \in Seq(Nat)
  OBVIOUS
<1>8. CASE how = "zero"
  BY <1>4, <1>8 DEF Spoilt
<1>9. CASE how = "tooLong"
  BY <1>4, <1>5, <1>6, <1>9 DEF Spoilt
<1>10. CASE how = "padding"
  BY <1>1, <1>4, <1>6, <1>7, <1>10 DEF Spoilt, tag
<1>11. CASE how = "empty"
  BY <1>1, <1>4, <1>6, <1>7, <1>11 DEF Spoilt, tag
<1>12. CASE how = "tag"
  BY <1>1, <1>4, <1>6, <1>7, <1>12 DEF Spoilt, tag
<1> QED
  BY <1>2, <1>8, <1>9, <1>10, <1>11, <1>12

\* Nothing that is said of the first entries changes.
LEMMA FirstKept ==
    ASSUME NEW l, NEW l2, Extends(l2, l), NEW k \in 0..Len(l)
    PROVE  /\ Edge(l2, k) = Edge(l, k) /\ PacketsTo(l2, k) = PacketsTo(l, k)
           /\ Clean(l2, k) <=> Clean(l, k)
           /\ HasIdent(l2, k) <=> HasIdent(l, k)
           /\ \A m : Has(l2, k, m) <=> Has(l, k, m)
           /\ Keyed(l2, k) <=> Keyed(l, k)
           /\ NotNow(l2, k) = NotNow(l, k)
           /\ \A d : Done(d, l2, k) <=> Done(d, l, k)
<1>1. k \in Nat /\ (k # 0 => k \in 1..Len(l))
  BY DEF Extends
<1>2. \A i \in 1..k : l2[i] = l[i]
  BY <1>1 DEF Extends
<1>3. Edge(l2, k) = Edge(l, k)
  BY <1>1 DEF Edge, Extends
<1>4. PacketsTo(l2, k) = PacketsTo(l, k)
  BY <1>2 DEF PacketsTo
<1>5. \A i \in PacketsTo(l, k) : l2[i] = l[i]
  BY <1>2 DEF PacketsTo
<1>6. \A d : Done(d, l2, k) <=> Done(d, l, k)
  BY <1>4, <1>5 DEF Done
<1>7. \A m : Has(l2, k, m) <=> Has(l, k, m)
  BY <1>2 DEF Has
<1>8. NotNow(l2, k) = NotNow(l, k)
  BY <1>7 DEF NotNow
<1> QED
  BY <1>2, <1>3, <1>4, <1>6, <1>7, <1>8 DEF Clean, HasIdent, Keyed

\* Nor what the stream holds.
LEMMA HoldsKept ==
    ASSUME NEW s \in Seq(Nat), NEW s2 \in Seq(Nat), Extends(s2, s),
           NEW b \in Nat, NEW w, Len(w) \in Nat, Holds(s, b, w)
    PROVE  Holds(s2, b, w)
<1>1. \A j \in 1..Len(w) : b + j \in 1..Len(s)
  BY DEF Holds
<1>2. \A j \in 1..Len(w) : s2[b + j] = w[j]
  BY <1>1 DEF Extends, Holds
<1> QED
  BY <1>2 DEF Extends, Holds

\* Every entry goes on being true of the stream.
LEMMA EntryKept ==
    ASSUME NEW l, NEW l2, Extends(l2, l),
           NEW s \in Seq(Nat), NEW s2 \in Seq(Nat), Extends(s2, s),
           NEW i \in 1..Len(l), Edge(l, i - 1) \in Nat, Entry(l, s, i)
    PROVE  Entry(l2, s2, i)
<1> DEFINE k == i - 1
           b == Edge(l, k)
<1>1. k \in 0..Len(l) /\ l2[i] = l[i] /\ b \in Nat
  BY DEF Extends
<1>2. /\ Edge(l2, k) = b
      /\ HasIdent(l2, k) <=> HasIdent(l, k)
      /\ Keyed(l2, k) <=> Keyed(l, k)
      /\ Has(l2, k, KEXINIT) <=> Has(l, k, KEXINIT)
      /\ NotNow(l2, k) = NotNow(l, k)
  BY <1>1, FirstKept
<1>3. \A w \in Seq(Nat) : Holds(s, b, w) => Holds(s2, b, w)
  <2>1. \A w \in Seq(Nat) : Len(w) \in Nat
    OBVIOUS
  <2> QED
    BY <1>1, <2>1, HoldsKept
<1> HIDE DEF b, k
<1>4. ASSUME LineEntry(l, s, i)
      PROVE  LineEntry(l2, s2, i)
  <2>1. \A line \in Banners \cup Idents, eol \in LineEnds : line \o eol \in Seq(Nat)
    <3>1. \A line \in Banners \cup Idents : line \in Seq(Nat)
      BY StreamAssumption
    <3>2. \A eol \in LineEnds : eol \in Seq(Nat)
      <4>1. <<13, 10>> \in Seq(Nat) /\ <<10>> \in Seq(Nat)
        OBVIOUS
      <4> QED
        BY <4>1 DEF LineEnds, CR, LF
    <3>3. \A x, y \in Seq(Nat) : x \o y \in Seq(Nat)
      OBVIOUS
    <3> QED
      BY <3>1, <3>2, <3>3
  <2> DEFINE Says(ent, e0, str, line, eol) ==
               /\ Holds(str, e0, line \o eol) /\ ent.payload = <<>>
               /\ \/ /\ e0 + Len(line \o eol) > MAX_SCAN_BYTES
                     /\ ent.what = "bad" /\ ent.end = MAX_SCAN_BYTES + 1
                  \/ /\ e0 + Len(line \o eol) <= MAX_SCAN_BYTES
                     /\ ent.end = e0 + Len(line \o eol)
                     /\ \/ line \in Banners /\ ent.what = "banner"
                        \/ /\ line \in Idents
                           /\ ent.what = IF ValidVersion(line) THEN "ident" ELSE "bad"
  <2>2. PICK line \in Banners \cup Idents, eol \in LineEnds : Says(l[i], b, s, line, eol)
    BY <1>4 DEF LineEntry, b, k
  <2>3. Holds(s2, b, line \o eol)
    BY <1>3, <2>1, <2>2
  <2>4. Says(l2[i], Edge(l2, k), s2, line, eol)
    BY <1>1, <1>2, <2>2, <2>3
  <2> QED
    BY <2>4 DEF LineEntry, k
<1>5. ASSUME PacketEntry(l, s, i)
      PROVE  PacketEntry(l2, s2, i)
  <2>1. ASSUME NEW payload \in Payloads
        PROVE  /\ Wire(payload, Keyed(l2, k)) = Wire(payload, Keyed(l, k))
               /\ Wire(payload, Keyed(l, k)) \in Seq(Nat)
    BY <1>2, WireBytes DEF Wire
  <2>2. ASSUME NEW how \in Malformed
        PROVE  /\ Spoilt(how, Keyed(l2, k)) = Spoilt(how, Keyed(l, k))
               /\ Spoilt(how, Keyed(l, k)) \in Seq(Nat)
    <3>1. SpoiltTag(how, Keyed(l2, k)) = SpoiltTag(how, Keyed(l, k))
      BY <1>2 DEF SpoiltTag
    <3>2. Spoilt(how, Keyed(l2, k)) = Spoilt(how, Keyed(l, k))
      BY <3>1, Zenon DEF Spoilt
    <3> QED
      BY <3>2, SpoiltBytes
  <2>3. CASE \E payload \in Payloads :
               /\ Holds(s, b, Wire(payload, Keyed(l, k)))
               /\ l[i].end = b + Len(Wire(payload, Keyed(l, k)))
               /\ l[i].payload = payload
               /\ payload = <<KEXINIT>> => ~Has(l, k, KEXINIT)
               /\ l[i].what = IF payload[1] \in NotNow(l, k) THEN "bad" ELSE "packet"
    <3>1. PICK payload \in Payloads :
               /\ Holds(s, b, Wire(payload, Keyed(l, k)))
               /\ l[i].end = b + Len(Wire(payload, Keyed(l, k)))
               /\ l[i].payload = payload
               /\ payload = <<KEXINIT>> => ~Has(l, k, KEXINIT)
               /\ l[i].what = IF payload[1] \in NotNow(l, k) THEN "bad" ELSE "packet"
      BY <2>3
    <3>2. Holds(s2, b, Wire(payload, Keyed(l, k)))
      BY <1>3, <2>1, <3>1
    <3>3. /\ Holds(s2, Edge(l2, k), Wire(payload, Keyed(l2, k)))
          /\ l2[i].end = Edge(l2, k) + Len(Wire(payload, Keyed(l2, k)))
      BY <1>1, <1>2, <2>1, <3>1, <3>2
    <3>4. /\ l2[i].payload = payload
          /\ payload = <<KEXINIT>> => ~Has(l2, k, KEXINIT)
          /\ l2[i].what = IF payload[1] \in NotNow(l2, k) THEN "bad" ELSE "packet"
      BY <1>1, <1>2, <3>1
    <3> QED
      BY <3>3, <3>4 DEF PacketEntry, k
  <2>4. CASE \E how \in Malformed :
               /\ how = "tag" => Keyed(l, k)
               /\ Holds(s, b, Spoilt(how, Keyed(l, k)))
               /\ l[i].end = b + (IF how = "tooLong" THEN 4 ELSE Len(Spoilt(how, Keyed(l, k))))
               /\ l[i].payload = <<>> /\ l[i].what = "bad"
    <3>1. PICK how \in Malformed :
               /\ how = "tag" => Keyed(l, k)
               /\ Holds(s, b, Spoilt(how, Keyed(l, k)))
               /\ l[i].end = b + (IF how = "tooLong" THEN 4 ELSE Len(Spoilt(how, Keyed(l, k))))
               /\ l[i].payload = <<>> /\ l[i].what = "bad"
      BY <2>4
    <3>2. Holds(s2, b, Spoilt(how, Keyed(l, k)))
      BY <1>3, <2>2, <3>1
    <3>3. /\ Holds(s2, Edge(l2, k), Spoilt(how, Keyed(l2, k)))
          /\ l2[i].end = Edge(l2, k)
                         + (IF how = "tooLong" THEN 4 ELSE Len(Spoilt(how, Keyed(l2, k))))
      BY <1>1, <1>2, <2>2, <3>1, <3>2
    <3>4. /\ how = "tag" => Keyed(l2, k)
          /\ l2[i].payload = <<>> /\ l2[i].what = "bad"
      BY <1>1, <1>2, <3>1
    <3> QED
      BY <3>3, <3>4 DEF PacketEntry, k
  <2> QED
    BY <1>5, <2>3, <2>4 DEF PacketEntry, b, k
<1> QED
  BY <1>1, <1>2, <1>4, <1>5 DEF Entry, k

\* The entry e is added: it ends behind the stream of now, and says truly what is
\* added.
Adds(l, s, e, l2, s2) ==
    /\ e \in Entries /\ l2 = Append(l, e)
    /\ \E bytes \in Seq(Nat) : s2 = s \o bytes
    /\ e.end > Len(s) /\ e.end <= Len(s2)
    /\ Clean(l, Len(l)) /\ e.what # "bad" => e.end = Len(s2)
    /\ Clean(l, Len(l)) => Entry(l2, s2, Len(l) + 1)

\* Then log and stream still agree.
LEMMA AgreeGrows ==
    ASSUME NEW l, NEW s, Agree(l, s), NEW l2, NEW s2, NEW e, Adds(l, s, e, l2, s2)
    PROVE  /\ Agree(l2, s2) /\ Extends(l2, l) /\ Extends(s2, s)
           /\ Len(l2) = Len(l) + 1 /\ l2[Len(l) + 1] = e
<1>1. l \in Seq(Entries) /\ s \in Seq(Nat)
  BY DEF Agree
<1> PICK bytes \in Seq(Nat) : s2 = s \o bytes
  BY DEF Adds
<1>13. /\ e \in Entries /\ l2 = Append(l, e)
       /\ e.end > Len(s) /\ e.end <= Len(s2)
       /\ Clean(l, Len(l)) /\ e.what # "bad" => e.end = Len(s2)
       /\ Clean(l, Len(l)) => Entry(l2, s2, Len(l) + 1)
  BY DEF Adds
<1> PICK n \in Nat : n = Len(l)
  BY <1>1
<1>2. /\ l2 \in Seq(Entries) /\ Len(l2) = n + 1 /\ l2[n + 1] = e
      /\ \A i \in 1..n : l2[i] = l[i]
  BY <1>1, <1>13
<1>3. s2 \in Seq(Nat) /\ Len(s) <= Len(s2) /\ \A j \in 1..Len(s) : s2[j] = s[j]
  BY <1>1
<1>4. Extends(l2, l) /\ Extends(s2, s)
  BY <1>1, <1>2, <1>3 DEF Extends
<1>5. \A k \in 0..n : Edge(l2, k) = Edge(l, k) /\ (Clean(l2, k) <=> Clean(l, k))
  BY <1>4, FirstKept
<1>6. Edge(l2, n + 1) = e.end
  BY <1>2 DEF Edge
<1>7. \A k \in 0..n : Edge(l, k) <= Len(s) /\ Edge(l, k) \in Nat
  <2>1. \A i \in 1..n : l[i].end \in Nat
    <3>1. \A i \in 1..n : l[i] \in Entries
      BY <1>1
    <3>2. \A x \in Entries : x.end \in Nat
      BY DEF Entries
    <3> QED
      BY <3>1, <3>2
  <2>2. \A k \in 0..n : Edge(l, k) \in Nat
    BY <2>1 DEF Edge
  <2>3. \A k \in 0..n : Edge(l, k) <= Len(s)
    BY DEF Agree
  <2> QED
    BY <2>2, <2>3
<1>8. e.end \in Nat
  BY <1>13 DEF Entries
<1>9. \A i, j \in 0..(n + 1) : i < j => Edge(l2, i) < Edge(l2, j)
  <2> SUFFICES ASSUME NEW i \in 0..(n + 1), NEW j \in 0..(n + 1), i < j
               PROVE  Edge(l2, i) < Edge(l2, j)
    OBVIOUS
  <2>1. CASE j \in 0..n
    <3>1. i \in 0..n
      BY <2>1
    <3>2. Edge(l, i) < Edge(l, j)
      BY <2>1, <3>1 DEF Agree
    <3> QED
      BY <1>5, <2>1, <3>1, <3>2
  <2>2. CASE j = n + 1
    <3>1. i \in 0..n
      BY <2>2
    <3>2. Edge(l, i) < e.end
      BY <1>1, <1>7, <1>8, <1>13, <3>1
    <3> QED
      BY <1>5, <1>6, <2>2, <3>1, <3>2
  <2> QED
    BY <2>1, <2>2
<1>10. \A i \in 0..(n + 1) : Edge(l2, i) <= Len(s2)
  <2> SUFFICES ASSUME NEW i \in 0..(n + 1) PROVE Edge(l2, i) <= Len(s2)
    OBVIOUS
  <2>1. CASE i \in 0..n
    BY <1>1, <1>3, <1>5, <1>7, <2>1
  <2>2. CASE i = n + 1
    BY <1>6, <1>13, <2>2
  <2> QED
    BY <2>1, <2>2
<1>11. Clean(l2, n + 1) => Edge(l2, n + 1) = Len(s2)
  <2>1. Clean(l2, n + 1) => Clean(l2, n) /\ l2[n + 1].what # "bad"
    BY DEF Clean
  <2> QED
    BY <1>2, <1>5, <1>6, <1>13, <2>1
<1>12. \A i \in 1..(n + 1) : Clean(l2, i - 1) => Entry(l2, s2, i)
  <2> SUFFICES ASSUME NEW i \in 1..(n + 1), Clean(l2, i - 1) PROVE Entry(l2, s2, i)
    OBVIOUS
  <2>1. CASE i \in 1..n
    <3>1. i - 1 \in 0..n
      BY <2>1
    <3>2. Clean(l, i - 1) /\ Edge(l, i - 1) \in Nat
      BY <1>5, <1>7, <3>1
    <3>3. Entry(l, s, i)
      BY <2>1, <3>2 DEF Agree
    <3> QED
      BY <1>1, <1>3, <1>4, <2>1, <3>2, <3>3, EntryKept
  <2>2. CASE i = n + 1
    <3>1. Clean(l, n)
      BY <1>5, <2>2
    <3> QED
      BY <1>13, <2>2, <3>1
  <2> QED
    BY <2>1, <2>2
<1> QED
  BY <1>2, <1>3, <1>4, <1>9, <1>10, <1>11, <1>12 DEF Agree

\* What the session has read is still what it was.
LEMMA GrowKeeps ==
    ASSUME StreamInv, ParseInv, NEW e, Adds(log, stream, e, log', stream'),
           UNCHANGED <<receiverVars, fed, decision>>
    PROVE  ParseInv'
<1>1. Agree(log, stream)
  BY DEF ParseInv
<1>2. /\ Agree(log', stream') /\ Extends(log', log) /\ Extends(stream', stream)
      /\ Len(log') = Len(log) + 1 /\ log'[Len(log) + 1] = e
  BY <1>1, AgreeGrows
<1>3. /\ fed' = fed /\ incoming' = incoming /\ phase' = phase /\ driving' = driving
      /\ scan_buf' = scan_buf /\ total_scanned' = total_scanned
      /\ active_kex' = active_kex /\ pending_sc_cipher' = pending_sc_cipher
      /\ ciphered' = ciphered /\ dispatched' = dispatched /\ decision' = decision
  BY DEF receiverVars, scanVars, kexVars
<1>4. /\ incoming \in Seq(Nat) /\ scan_buf \in Seq(Nat) /\ fed \in Nat
      /\ stream \in Seq(Nat) /\ stream' \in Seq(Nat) /\ fed <= Len(stream)
  BY <1>1, <1>2 DEF StreamInv, TypeInv, ParseInv, Agree
<1>5. Len(log) \in Nat /\ Len(stream) <= Len(stream')
      /\ \A j \in 1..Len(stream) : stream'[j] = stream[j]
  BY <1>2 DEF Extends
<1>6. e.end \in Nat /\ e.end > Len(stream)
  BY DEF Adds, Entries
<1>7. Taken' = Taken
  BY <1>3 DEF Taken
<1>8. ASSUME NEW k \in 0..Len(log)
      PROVE  /\ Edge(log', k) = Edge(log, k) /\ Edge(log, k) \in Nat
             /\ Edge(log, k) <= Len(stream)
             /\ Clean(log', k) <=> Clean(log, k)
             /\ HasIdent(log', k) <=> HasIdent(log, k)
             /\ \A m : Has(log', k, m) <=> Has(log, k, m)
             /\ Keyed(log', k) <=> Keyed(log, k)
             /\ Done(dispatched', log', k) <=> Done(dispatched, log, k)
  <2>1. Edge(log, k) \in Nat
    <3>1. \A x \in Entries : x.end \in Nat
      BY DEF Entries
    <3>2. log \in Seq(Entries)
      BY <1>1 DEF Agree
    <3>3. k # 0 => log[k] \in Entries
      BY <3>2
    <3> QED
      BY <3>1, <3>3 DEF Edge
  <2> QED
    BY <1>1, <1>2, <1>3, <2>1, FirstKept DEF Agree
<1>9. Edge(log', Len(log) + 1) = e.end
  BY <1>2, <1>5 DEF Edge
<1>10. ASSUME NEW k \in 0..Len(log), Behind(k)
       PROVE  Behind(k)'
  <2>1. k \in 0..Len(log')
    BY <1>2, <1>5
  <2>2. phase = "VersionExchange" => Scanning(k)'
    <3> SUFFICES ASSUME phase = "VersionExchange" PROVE Scanning(k)'
      OBVIOUS
    <3>1. Scanning(k)
      BY <1>10 DEF Behind
    <3>2. /\ ~HasIdent(log', k) /\ total_scanned' = Taken'
          /\ Taken' = Edge(log', k) + Len(scan_buf')
      BY <1>3, <1>7, <1>8, <3>1 DEF Scanning
    <3>3. \A j \in 1..Len(scan_buf) : Edge(log, k) + j \in 1..Len(stream)
      <4>1. Edge(log, k) + Len(scan_buf) = fed - Len(incoming)
        BY <3>1 DEF Scanning, Taken
      <4>2. PICK a \in Nat, b \in Nat, c \in Nat, d \in Nat :
              a = Edge(log, k) /\ b = Len(scan_buf) /\ c = Len(incoming) /\ d = Len(stream)
        BY <1>4, <1>8
      <4>3. a + b <= d
        BY <1>4, <4>1, <4>2
      <4>4. \A j \in 1..b : a + j \in 1..d
        BY <4>3
      <4> QED
        BY <4>2, <4>4
    <3>4. \A j \in 1..Len(scan_buf) :
            scan_buf'[j] = stream'[Edge(log', k) + j] /\ scan_buf'[j] # LF
      BY <1>3, <1>5, <1>8, <3>1, <3>3 DEF Scanning
    <3> QED
      BY <1>3, <3>2, <3>4 DEF Scanning
  <2>3. ~driving /\ phase # "AwaitingHostKeyDecision" /\ k < Len(log')
        => fed < Edge(log', k + 1)
    <3> SUFFICES ASSUME ~driving, phase # "AwaitingHostKeyDecision", k < Len(log')
                 PROVE  fed < Edge(log', k + 1)
      OBVIOUS
    <3>1. CASE k < Len(log)
      <4>1. k + 1 \in 0..Len(log)
        BY <1>5, <3>1
      <4>2. fed < Edge(log, k + 1)
        BY <1>10, <3>1 DEF Behind
      <4> QED
        BY <1>8, <4>1, <4>2
    <3>2. CASE k = Len(log)
      BY <1>4, <1>6, <1>9, <3>2
    <3> QED
      BY <1>2, <1>5, <3>1, <3>2
  <2>4. Exchanged(k)'
    <3>1. \A j \in 1..(k - 1) : log'[j] = log[j]
      BY <1>2, <1>5 DEF Extends
    <3>2. Exchanged(k)
      BY <1>10 DEF Behind
    <3> QED
      BY <1>3, <1>8, <3>1, <3>2 DEF Exchanged
  <2> QED
    BY <1>3, <1>7, <1>8, <1>10, <2>1, <2>2, <2>3, <2>4 DEF Behind
<1>11. ASSUME NEW k \in 1..Len(log), HaltedAt(k)
       PROVE  HaltedAt(k)'
  <2>1. k \in 1..Len(log') /\ k \in 0..Len(log)
    BY <1>2, <1>5
  <2>2. log'[k] = log[k] /\ \A j \in 1..(k - 1) : log'[j] = log[j]
    BY <1>2, <1>5 DEF Extends
  <2>3. Ends(k)' /\ \A j \in 1..(k - 1) : Passed(j)'
    BY <1>3, <1>11, <2>2 DEF HaltedAt, Ends, Passed
  <2> QED
    BY <1>3, <1>8, <1>11, <2>1, <2>3 DEF HaltedAt
<1>12. ASSUME phase # "Closed"
       PROVE  /\ Len(incoming') <= fed'
              /\ \A j \in 1..Len(incoming') : incoming'[j] = stream'[Taken' + j]
  <2>1. Len(incoming) <= fed /\ \A j \in 1..Len(incoming) : incoming[j] = stream[Taken + j]
    BY <1>12 DEF ParseInv
  <2>2. \A j \in 1..Len(incoming) : Taken + j \in 1..Len(stream)
    BY <1>4, <2>1 DEF Taken
  <2> QED
    BY <1>3, <1>5, <1>7, <2>1, <2>2
<1>13. phase # "Closed" => \E k \in 0..Len(log') : Behind(k)'
  <2>1. phase # "Closed" => \E k \in 0..Len(log) : Behind(k)
    BY DEF ParseInv
  <2> QED
    BY <1>2, <1>5, <1>10, <2>1
<1>14. phase = "Closed" => \E k \in 1..Len(log') : HaltedAt(k)'
  <2>1. phase = "Closed" => \E k \in 1..Len(log) : HaltedAt(k)
    BY DEF ParseInv
  <2> QED
    BY <1>2, <1>5, <1>11, <2>1
<1>15. fed' <= Len(stream') /\ dispatched' \in Seq(Seq(Nat))
  BY <1>3, <1>4, <1>5 DEF ParseInv
<1> QED
  BY <1>2, <1>3, <1>12, <1>13, <1>14, <1>15 DEF ParseInv

\* A line's end is one byte or two.
LEMMA EolBytes ==
    ASSUME NEW eol \in LineEnds
    PROVE  eol \in Seq(Nat) /\ Len(eol) \in 1..2
<1>0. CR \in Nat /\ LF \in Nat
  BY DEF CR, LF
<1>1. CASE eol = <<CR, LF>>
  <2>1. eol \in Seq(Nat) /\ Len(eol) = 2
    BY <1>0, <1>1
  <2> QED
    BY <2>1
<1>2. CASE eol = <<LF>>
  <2>1. eol \in Seq(Nat) /\ Len(eol) = 1
    BY <1>0, <1>2
  <2> QED
    BY <2>1
<1> QED
  BY <1>1, <1>2 DEF LineEnds

Put(l, e, s, w, l2, s2) == l2 = Append(l, e) /\ s2 = s \o w

\* Before the new entry all is as it was, and its bytes are the last.
LEMMA LastAdded ==
    ASSUME NEW l \in Seq(Entries), NEW e \in Entries, NEW s \in Seq(Nat), NEW w \in Seq(Nat),
           NEW l2, NEW s2, Put(l, e, s, w, l2, s2)
    PROVE  /\ l2[Len(l) + 1] = e /\ Edge(l2, Len(l)) = Edge(l, Len(l))
           /\ HasIdent(l2, Len(l)) <=> HasIdent(l, Len(l))
           /\ Keyed(l2, Len(l)) <=> Keyed(l, Len(l))
           /\ \A m : Has(l2, Len(l), m) <=> Has(l, Len(l), m)
           /\ NotNow(l2, Len(l)) = NotNow(l, Len(l))
           /\ Holds(s2, Len(s), w) /\ Len(s2) = Len(s) + Len(w)
<1>1. /\ Len(l) \in Nat /\ Len(l2) = Len(l) + 1 /\ l2[Len(l) + 1] = e
      /\ \A i \in 1..Len(l) : l2[i] = l[i]
  BY DEF Put
<1>2. Extends(l2, l) /\ Len(l) \in 0..Len(l)
  BY <1>1 DEF Extends
<1>3. /\ Edge(l2, Len(l)) = Edge(l, Len(l))
      /\ HasIdent(l2, Len(l)) <=> HasIdent(l, Len(l))
      /\ Keyed(l2, Len(l)) <=> Keyed(l, Len(l))
      /\ \A m : Has(l2, Len(l), m) <=> Has(l, Len(l), m)
      /\ NotNow(l2, Len(l)) = NotNow(l, Len(l))
  BY <1>2, FirstKept
<1>4. Len(s2) = Len(s) + Len(w) /\ \A j \in 1..Len(w) : s2[Len(s) + j] = w[j]
  BY DEF Put
<1> QED
  BY <1>1, <1>3, <1>4 DEF Holds

\* A clean log of lines that are no identification is within the limit.
LEMMA LinesWithinLimit ==
    ASSUME NEW l, NEW s, Agree(l, s), NEW k \in 0..Len(l), Clean(l, k), ~HasIdent(l, k)
    PROVE  Edge(l, k) <= MAX_SCAN_BYTES
<1>0. MAX_SCAN_BYTES \in Nat /\ Len(l) \in Nat
  BY FramingAssumption DEF Agree
<1>1. CASE k = 0
  BY <1>0, <1>1 DEF Edge
<1>2. CASE k # 0
  <2>1. k \in 1..Len(l) /\ k - 1 \in 0..Len(l)
    BY <1>0, <1>2
  <2>2. Clean(l, k - 1) /\ ~HasIdent(l, k - 1) /\ l[k].what # "bad"
    BY <1>0, <2>1 DEF Clean, HasIdent
  <2>3. LineEntry(l, s, k)
    BY <2>1, <2>2 DEF Agree, Entry
  <2>4. l[k].end <= MAX_SCAN_BYTES
    BY <2>2, <2>3 DEF LineEntry
  <2> QED
    BY <1>2, <2>4 DEF Edge
<1> QED
  BY <1>1, <1>2

\* A line.
LEMMA LineAdds ==
    ASSUME StreamInv, ParseInv, Clean(log, Len(log)), ~HasIdent(log, Len(log)),
           NEW line \in Banners \cup Idents, NEW what,
           \/ line \in Banners /\ what = "banner"
           \/ line \in Idents /\ what = IF ValidVersion(line) THEN "ident" ELSE "bad",
           WritesLine(line, what)
    PROVE  ParseInv'
<1>1. PICK eol \in {<<CR, LF>>, <<LF>>} :
        LET end == Len(stream) + Len(line \o eol)
        IN  IF end <= MAX_SCAN_BYTES THEN Writes(line \o eol, what, end, <<>>)
            ELSE Writes(line \o eol, "bad", MAX_SCAN_BYTES + 1, <<>>)
  BY DEF WritesLine
<1> DEFINE w == line \o eol
           end == Len(stream) + Len(w)
           e == IF end <= MAX_SCAN_BYTES THEN [what |-> what, end |-> end, payload |-> <<>>]
                ELSE [what |-> "bad", end |-> MAX_SCAN_BYTES + 1, payload |-> <<>>]
           n == Len(log)
<1>2. /\ stream' = stream \o w /\ log' = Append(log, e)
      /\ UNCHANGED <<receiverVars, fed, decision>>
  BY <1>1 DEF Writes
<1>3. w \in Seq(Nat) /\ Len(w) >= 1
  <2>1. line \in Seq(Nat)
    BY StreamAssumption
  <2>2. eol \in Seq(Nat) /\ Len(eol) \in 1..2
    BY EolBytes DEF LineEnds
  <2> QED
    BY <2>1, <2>2
<1>4. Agree(log, stream) /\ log \in Seq(Entries) /\ stream \in Seq(Nat)
  BY DEF ParseInv, Agree
<1>5. n \in Nat /\ Len(stream) \in Nat /\ Len(w) \in Nat /\ MAX_SCAN_BYTES \in Nat
  BY <1>3, <1>4, FramingAssumption
<1>6. Edge(log, n) = Len(stream) /\ Edge(log, n) <= MAX_SCAN_BYTES
  <2>1. n \in 0..n
    BY <1>5
  <2>2. Edge(log, n) <= MAX_SCAN_BYTES
    BY <1>4, <2>1, LinesWithinLimit
  <2> QED
    BY <1>4, <2>2 DEF Agree
<1>7. what \in {"banner", "ident", "bad"}
  OBVIOUS
<1> HIDE DEF w
<1>8. e \in Entries
  <2>1. <<>> \in Seq(Nat)
    OBVIOUS
  <2> QED
    BY <1>5, <1>7, <2>1 DEF Entries
<1>9. e.end > Len(stream) /\ e.end <= end
  BY <1>3, <1>5, <1>6
<1>10. e.what # "bad" => e.end = end
  OBVIOUS
<1>11. /\ \/ end > MAX_SCAN_BYTES /\ e.what = "bad" /\ e.end = MAX_SCAN_BYTES + 1
          \/ /\ end <= MAX_SCAN_BYTES /\ e.end = end
             /\ \/ line \in Banners /\ e.what = "banner"
                \/ /\ line \in Idents
                   /\ e.what = IF ValidVersion(line) THEN "ident" ELSE "bad"
       /\ e.payload = <<>>
  BY <1>5
<1> HIDE DEF e
<1>12. /\ log'[n + 1] = e /\ Edge(log', n) = Edge(log, n)
       /\ HasIdent(log', n) <=> HasIdent(log, n)
       /\ Keyed(log', n) <=> Keyed(log, n)
       /\ Holds(stream', Len(stream), w) /\ Len(stream') = Len(stream) + Len(w)
  <2>1. Put(log, e, stream, w, log', stream')
    BY <1>2 DEF Put
  <2> QED
    BY <1>3, <1>4, <1>8, <2>1, LastAdded
<1>13. LineEntry(log', stream', n + 1)
  <2>1. n + 1 - 1 = n
    BY <1>5
  <2>2. eol \in LineEnds
    BY DEF LineEnds
  <2>3. Edge(log', n + 1 - 1) = Len(stream)
    BY <1>6, <1>12, <2>1
  <2>4. /\ Holds(stream', Len(stream), line \o eol) /\ log'[n + 1].payload = <<>>
        /\ \/ /\ Len(stream) + Len(line \o eol) > MAX_SCAN_BYTES
              /\ log'[n + 1].what = "bad" /\ log'[n + 1].end = MAX_SCAN_BYTES + 1
           \/ /\ Len(stream) + Len(line \o eol) <= MAX_SCAN_BYTES
              /\ log'[n + 1].end = Len(stream) + Len(line \o eol)
              /\ \/ line \in Banners /\ log'[n + 1].what = "banner"
                 \/ /\ line \in Idents
                    /\ log'[n + 1].what = IF ValidVersion(line) THEN "ident" ELSE "bad"
    BY <1>11, <1>12 DEF w
  <2> QED
    BY <2>2, <2>3, <2>4 DEF LineEntry
<1>14. Entry(log', stream', n + 1)
  <2>1. n + 1 - 1 = n
    BY <1>5
  <2> QED
    BY <1>12, <1>13, <2>1 DEF Entry
<1>15. Adds(log, stream, e, log', stream')
  BY <1>2, <1>3, <1>8, <1>9, <1>10, <1>12, <1>14 DEF Adds
<1> QED
  BY <1>2, <1>15, GrowKeeps

\* What an entry says lies between where it begins and what has been written.
LEMMA ReadableEnd ==
    ASSUME NEW e, NEW s \in Seq(Nat), NEW b \in Nat, NEW keyed, NEW no,
           \E n \in Nat, body \in Seq(Nat), tag \in Seq(Nat) :
              \E w : Reads(e, s, b, keyed, no, n, body, tag, w)
    PROVE  b + 4 <= e.end /\ e.end <= Len(s)
<1> PICK n \in Nat, body \in Seq(Nat), tag \in Seq(Nat) :
        \E w : Reads(e, s, b, keyed, no, n, body, tag, w)
  OBVIOUS
<1> PICK w : Reads(e, s, b, keyed, no, n, body, tag, w)
  OBVIOUS
<1>1. Len(w) \in Nat /\ Len(w) >= 4
  <2>1. Len(ToBytes(n)) = 4
    BY DEF ToBytes
  <2>2. Frame(w, ToBytes(n), body, tag)
    BY DEF Reads
  <2>3. Len(body) \in Nat /\ Len(tag) \in Nat
    OBVIOUS
  <2> QED
    BY <2>1, <2>2, <2>3 DEF Frame
<1>2. b + Len(w) <= Len(s)
  BY DEF Reads, Holds
<1>3. Len(s) \in Nat
  OBVIOUS
<1>4. e.end = b + 4 \/ e.end = b + Len(w)
  BY DEF Reads
<1> QED
  BY <1>1, <1>2, <1>3, <1>4

\* Behind the identification: whatever is written, if the entry is true of it.
LEMMA PacketAdds ==
    ASSUME StreamInv, ParseInv, HasIdent(log, Len(log)),
           NEW e \in Entries, NEW w \in Seq(Nat),
           Put(log, e, stream, w, log', stream'), UNCHANGED <<receiverVars, fed, decision>>,
           e.what # "bad" => e.end = Len(stream) + Len(w),
           Len(stream) + 4 <= e.end, e.end <= Len(stream'),
           Clean(log, Len(log)) => PacketEntry(log', stream', Len(log) + 1)
    PROVE  ParseInv'
<1> DEFINE n == Len(log)
<1>1. log \in Seq(Entries) /\ stream \in Seq(Nat)
  BY DEF ParseInv, Agree
<1>2. n \in Nat /\ Len(stream) \in Nat /\ e.end \in Nat /\ n + 1 - 1 = n
  BY <1>1 DEF Entries
<1>3. HasIdent(log', n) /\ Len(stream') = Len(stream) + Len(w)
  BY <1>1, LastAdded
<1>4. Clean(log, n) => Entry(log', stream', n + 1)
  BY <1>2, <1>3 DEF Entry
<1>5. Adds(log, stream, e, log', stream')
  <2>1. log' = Append(log, e) /\ \E bytes \in Seq(Nat) : stream' = stream \o bytes
    BY Zenon DEF Put
  <2>2. e.end > Len(stream)
    BY <1>2
  <2>3. e.what # "bad" => e.end = Len(stream')
    BY <1>3
  <2> QED
    BY <1>4, <2>1, <2>2, <2>3 DEF Adds
<1> QED
  BY <1>5, GrowKeeps

\* How many entries of some kinds there are says whether there is one.
LEMMA Counted ==
    ASSUME log \in Seq(Entries), NEW kinds
    PROVE  Count(kinds) = 0 <=> \A i \in 1..Len(log) : log[i].what \notin kinds
<1> DEFINE found == {i \in DOMAIN log : log[i].what \in kinds}
<1>1. DOMAIN log = 1..Len(log) /\ Len(log) \in Nat
  OBVIOUS
<1>2. IsFiniteSet(1..Len(log))
  BY <1>1, FS_Interval
<1>3. IsFiniteSet(found)
  BY <1>1, <1>2, FS_Subset
<1>4. Cardinality(found) = 0 <=> found = {}
  BY <1>3, FS_EmptySet
<1> QED
  BY <1>1, <1>4 DEF Count

\* What makes the server seal its packets, and what is out of turn, is in the log.
LEMMA SealedKeyed ==
    ASSUME log \in Seq(Entries)
    PROVE  /\ Sealed <=> Keyed(log, Len(log))
           /\ OutOfTurn = NotNow(log, Len(log))
           /\ \A m : Wrote(m) <=> Has(log, Len(log), m)
<1>1. \A m : Wrote(m) <=> Has(log, Len(log), m)
  BY DEF Wrote, Has
<1> QED
  BY <1>1 DEF Sealed, Keyed, OutOfTurn, NotNow

\* Packets are written behind the identification only.
LEMMA BehindIdent ==
    ASSUME log \in Seq(Entries), Count({"ident"}) = 1
    PROVE  HasIdent(log, Len(log))
<1>1. Count({"ident"}) # 0
  OBVIOUS
<1>2. \E i \in 1..Len(log) : log[i].what \in {"ident"}
  BY <1>1, Counted
<1> QED
  BY <1>2 DEF HasIdent

\* The lines.
LEMMA LinesKeep ==
    ASSUME StreamInv, ParseInv, ServerBanner \/ ServerIdent
    PROVE  ParseInv'
<1>1. log \in Seq(Entries)
  BY DEF ParseInv, Agree
<1>2. CASE ServerBanner
  <2>1. log = <<>>
    BY <1>2 DEF ServerBanner
  <2>2. Clean(log, Len(log)) /\ ~HasIdent(log, Len(log))
    BY <2>1 DEF Clean, HasIdent
  <2> QED
    BY <1>2, <2>2, LineAdds DEF ServerBanner
<1>3. CASE ServerIdent
  <2>1. \A i \in 1..Len(log) : log[i].what \notin {"ident", "bad"}
    BY <1>1, <1>3, Counted DEF ServerIdent
  <2>2. Clean(log, Len(log)) /\ ~HasIdent(log, Len(log))
    BY <2>1 DEF Clean, HasIdent
  <2> QED
    BY <1>3, <2>2, LineAdds DEF ServerIdent
<1> QED
  BY <1>2, <1>3

\* A packet.
LEMMA PacketKept ==
    ASSUME StreamInv, ParseInv, ServerPacket
    PROVE  ParseInv'
<1> DEFINE n == Len(log)
           b == Len(stream)
           keyed == Keyed(log, n)
<1>1. log \in Seq(Entries) /\ stream \in Seq(Nat) /\ Agree(log, stream)
  BY DEF ParseInv, Agree
<1>2. n \in Nat /\ b \in Nat /\ n + 1 - 1 = n
  BY <1>1
<1>3. /\ HasIdent(log, n) /\ (Sealed <=> keyed) /\ OutOfTurn = NotNow(log, n)
      /\ \A m : Wrote(m) <=> Has(log, n, m)
  BY <1>1, BehindIdent, SealedKeyed DEF ServerPacket
<1>4. PICK payload \in Payloads :
        LET wire == IF Sealed THEN Seal(payload) ELSE SealPlaintext(payload)
            kind == IF payload[1] \in OutOfTurn THEN "bad" ELSE "packet"
        IN  /\ payload = <<KEXINIT>> => ~Wrote(KEXINIT)
            /\ Writes(wire, kind, Len(stream) + Len(wire), payload)
  BY DEF ServerPacket
<1> DEFINE w == Wire(payload, keyed)
           what == IF payload[1] \in NotNow(log, n) THEN "bad" ELSE "packet"
           e == [what |-> what, end |-> b + Len(w), payload |-> payload]
<1>5. (IF Sealed THEN Seal(payload) ELSE SealPlaintext(payload)) = w
  BY <1>3 DEF Wire
<1>6. Put(log, e, stream, w, log', stream') /\ UNCHANGED <<receiverVars, fed, decision>>
  BY <1>3, <1>4, <1>5 DEF Writes, Put
<1>7. w \in Seq(Nat)
  BY WireBytes
<1>8. Len(w) \in Nat
  BY <1>7
<1>9. payload \in Seq(Nat)
  BY StreamAssumption
<1> HIDE DEF w
<1>10. e \in Entries
  BY <1>2, <1>8, <1>9 DEF Entries
<1>11. e.what = what /\ e.end = b + Len(w) /\ e.payload = payload
  OBVIOUS
<1> HIDE DEF e
<1>12. /\ log'[n + 1] = e /\ Edge(log', n) = Edge(log, n)
       /\ Keyed(log', n) <=> keyed
       /\ Has(log', n, KEXINIT) <=> Has(log, n, KEXINIT)
       /\ NotNow(log', n) = NotNow(log, n)
       /\ Holds(stream', b, w) /\ Len(stream') = b + Len(w)
  BY <1>1, <1>6, <1>7, <1>10, LastAdded
<1>13. b + 4 <= e.end /\ e.end <= Len(stream')
  <2>1. \E m \in Nat, body \in Seq(Nat), tag \in Seq(Nat) :
          \E v : Reads(e, stream', b, keyed, NotNow(log, n), m, body, tag, v)
    BY <1>11, <1>12, PayloadReadable DEF w
  <2>2. stream' \in Seq(Nat)
    BY <1>1, <1>6, <1>7 DEF Put
  <2> QED
    BY <1>2, <2>1, <2>2, ReadableEnd
<1>14. Clean(log, n) => PacketEntry(log', stream', n + 1)
  <2> SUFFICES ASSUME Clean(log, n) PROVE PacketEntry(log', stream', n + 1)
    OBVIOUS
  <2>1. Edge(log', n + 1 - 1) = b
    BY <1>1, <1>2, <1>12 DEF Agree
  <2>2. Wire(payload, Keyed(log', n + 1 - 1)) = w
    BY <1>2, <1>12 DEF w, Wire
  <2>3. /\ Keyed(log', n + 1 - 1) <=> keyed
        /\ payload = <<KEXINIT>> => ~Has(log', n + 1 - 1, KEXINIT)
        /\ NotNow(log', n + 1 - 1) = NotNow(log, n)
    BY <1>2, <1>3, <1>4, <1>12
  <2> QED
    BY <1>11, <1>12, <2>1, <2>2, <2>3 DEF PacketEntry
<1> QED
  BY <1>3, <1>6, <1>7, <1>10, <1>11, <1>13, <1>14, PacketAdds

\* Or what is none.
LEMMA MalformedKept ==
    ASSUME StreamInv, ParseInv, ServerMalformed
    PROVE  ParseInv'
<1> DEFINE n == Len(log)
           b == Len(stream)
           keyed == Keyed(log, n)
<1>1. log \in Seq(Entries) /\ stream \in Seq(Nat) /\ Agree(log, stream)
  BY DEF ParseInv, Agree
<1>2. n \in Nat /\ b \in Nat /\ n + 1 - 1 = n
  BY <1>1
<1>3. HasIdent(log, n) /\ (Sealed <=> keyed)
  BY <1>1, BehindIdent, SealedKeyed DEF ServerMalformed, MayWriteOther
<1>4. PICK how \in Malformed :
        /\ how = "tag" => Sealed
        /\ Writes(BadPacket(how), "bad", Len(stream) + EndOf(how), <<>>)
  BY DEF ServerMalformed
<1> DEFINE w == Spoilt(how, keyed)
           e == [what |-> "bad", end |-> b + EndOf(how), payload |-> <<>>]
<1>5. BadPacket(how) = w
  <2>1. (IF Sealed THEN TagOf(how # "tag") ELSE <<>>) = SpoiltTag(how, keyed)
    BY <1>3 DEF SpoiltTag
  <2> QED
    BY <2>1 DEF BadPacket, Spoilt
<1>6. Put(log, e, stream, w, log', stream') /\ UNCHANGED <<receiverVars, fed, decision>>
  BY <1>4, <1>5 DEF Writes, Put
<1>7. w \in Seq(Nat)
  BY SpoiltBytes
<1>8. Len(w) \in Nat /\ EndOf(how) = IF how = "tooLong" THEN 4 ELSE Len(w)
  BY <1>5, <1>7 DEF EndOf
<1> HIDE DEF w
<1>10. e \in Entries
  <2>1. <<>> \in Seq(Nat) /\ EndOf(how) \in Nat
    BY <1>8
  <2> QED
    BY <1>2, <2>1 DEF Entries
<1>11. /\ e.what = "bad" /\ e.payload = <<>>
       /\ e.end = b + (IF how = "tooLong" THEN 4 ELSE Len(w))
  BY <1>8
<1> HIDE DEF e
<1>12. /\ log'[n + 1] = e /\ Edge(log', n) = Edge(log, n)
       /\ Keyed(log', n) <=> keyed
       /\ Holds(stream', b, w) /\ Len(stream') = b + Len(w)
  BY <1>1, <1>6, <1>7, <1>10, LastAdded
<1>13. b + 4 <= e.end /\ e.end <= Len(stream')
  <2>1. \E m \in Nat, body \in Seq(Nat), tag \in Seq(Nat) :
          \E v : Reads(e, stream', b, keyed, {}, m, body, tag, v)
    BY <1>3, <1>4, <1>11, <1>12, MalformedReadable DEF w
  <2>2. stream' \in Seq(Nat)
    BY <1>1, <1>6, <1>7 DEF Put
  <2> QED
    BY <1>2, <2>1, <2>2, ReadableEnd
<1>14. Clean(log, n) => PacketEntry(log', stream', n + 1)
  <2> SUFFICES ASSUME Clean(log, n) PROVE PacketEntry(log', stream', n + 1)
    OBVIOUS
  <2>1. Edge(log', n + 1 - 1) = b
    BY <1>1, <1>2, <1>12 DEF Agree
  <2>2. Keyed(log', n + 1 - 1) <=> keyed
    BY <1>2, <1>12
  <2>3. Spoilt(how, Keyed(log', n + 1 - 1)) = w
    <3>1. SpoiltTag(how, Keyed(log', n + 1 - 1)) = SpoiltTag(how, keyed)
      BY <2>2 DEF SpoiltTag
    <3> QED
      BY <3>1, Zenon DEF w, Spoilt
  <2> QED
    BY <1>3, <1>4, <1>11, <1>12, <2>1, <2>2, <2>3 DEF PacketEntry
<1> QED
  BY <1>3, <1>6, <1>7, <1>10, <1>11, <1>13, <1>14, PacketAdds

-----------------------------------------------------------------------------
\* What the session takes.

\* Edges are natural numbers, within the stream.
LEMMA Edges ==
    ASSUME NEW l, NEW s, Agree(l, s)
    PROVE  /\ l \in Seq(Entries) /\ s \in Seq(Nat) /\ Len(l) \in Nat /\ Len(s) \in Nat
           /\ \A k \in 0..Len(l) : Edge(l, k) \in Nat /\ Edge(l, k) <= Len(s)
<1>1. l \in Seq(Entries) /\ s \in Seq(Nat)
  BY DEF Agree
<1>2. \A x \in Entries : x.end \in Nat
  BY DEF Entries
<1>3. \A k \in 1..Len(l) : l[k] \in Entries
  BY <1>1
<1>4. \A k \in 0..Len(l) : Edge(l, k) \in Nat
  BY <1>1, <1>2, <1>3 DEF Edge
<1>5. \A k \in 0..Len(l) : Edge(l, k) <= Len(s)
  BY DEF Agree
<1> QED
  BY <1>1, <1>4, <1>5

\* One entry more, that is not bad.
LEMMA OneMore ==
    ASSUME NEW l \in Seq(Entries), NEW k \in 0..(Len(l) - 1)
    PROVE  /\ k + 1 \in 1..Len(l) /\ k + 1 \in 0..Len(l) /\ k \in 0..Len(l)
           /\ Edge(l, k + 1) = l[k + 1].end
           /\ Clean(l, k + 1) <=> Clean(l, k) /\ l[k + 1].what # "bad"
           /\ HasIdent(l, k + 1) <=> HasIdent(l, k) \/ l[k + 1].what = "ident"
           /\ \A m : Has(l, k + 1, m) <=> Has(l, k, m) \/ l[k + 1].payload = <<m>>
           /\ Keyed(l, k + 1) <=> Keyed(l, k) \/ l[k + 1].payload = <<NEWKEYS>>
           /\ PacketsTo(l, k + 1) = PacketsTo(l, k) \cup
                 (IF l[k + 1].what = "packet" THEN {k + 1} ELSE {})
<1> PICK n \in Nat : n = Len(l)
  OBVIOUS
<1>1. k \in Nat /\ k + 1 # 0 /\ k + 1 \in 1..n /\ k + 1 \in 0..n /\ k \in 0..n
  OBVIOUS
<1>2. \A j : j \in 1..(k + 1) <=> j \in 1..k \/ j = k + 1
  BY <1>1
<1>3. Edge(l, k + 1) = l[k + 1].end
  BY <1>1 DEF Edge
<1>4. Clean(l, k + 1) <=> Clean(l, k) /\ l[k + 1].what # "bad"
  BY <1>2 DEF Clean
<1>5. HasIdent(l, k + 1) <=> HasIdent(l, k) \/ l[k + 1].what = "ident"
  BY <1>2 DEF HasIdent
<1>6. \A m : Has(l, k + 1, m) <=> Has(l, k, m) \/ l[k + 1].payload = <<m>>
  BY <1>2 DEF Has
<1>7. PacketsTo(l, k + 1) = PacketsTo(l, k) \cup
                 (IF l[k + 1].what = "packet" THEN {k + 1} ELSE {})
  BY <1>2 DEF PacketsTo
<1> QED
  BY <1>1, <1>3, <1>4, <1>5, <1>6, <1>7 DEF Keyed

\* The packets so far are finitely many.
LEMMA PacketsFinite ==
    ASSUME NEW l, NEW k \in Nat
    PROVE  IsFiniteSet(PacketsTo(l, k)) /\ Cardinality(PacketsTo(l, k)) \in Nat
<1>1. IsFiniteSet(1..k)
  BY FS_Interval
<1>2. PacketsTo(l, k) \subseteq 1..k
  BY DEF PacketsTo
<1>3. IsFiniteSet(PacketsTo(l, k))
  BY <1>1, <1>2, FS_Subset
<1> QED
  BY <1>3, FS_CardinalityType

\* What is dispatched keeps pace with the packets taken.
LEMMA DoneMore ==
    ASSUME NEW l \in Seq(Entries), NEW k \in 0..(Len(l) - 1), NEW d \in Seq(Seq(Nat)),
           Done(d, l, k)
    PROVE  /\ l[k + 1].what # "packet" => Done(d, l, k + 1)
           /\ l[k + 1].what = "packet" => Done(Append(d, l[k + 1].payload), l, k + 1)
<1> DEFINE P == PacketsTo(l, k)
           Q == PacketsTo(l, k + 1)
           Upto(S, i) == {j \in S : j <= i}
<1>0. k \in Nat /\ P \subseteq 1..k
  BY DEF PacketsTo
<1>1. Q = P \cup (IF l[k + 1].what = "packet" THEN {k + 1} ELSE {})
  BY OneMore
<1>2. CASE l[k + 1].what # "packet"
  <2>1. Q = P
    BY <1>1, <1>2
  <2> QED
    BY <1>2, <2>1 DEF Done
<1>3. CASE l[k + 1].what = "packet"
  <2> DEFINE x == l[k + 1].payload
             d2 == Append(d, x)
  <2>1. Q = P \cup {k + 1} /\ k + 1 \notin P
    BY <1>0, <1>1, <1>3
  <2>2. IsFiniteSet(P) /\ Cardinality(P) \in Nat
    BY <1>0, PacketsFinite
  <2>3. Cardinality(Q) = Cardinality(P) + 1
    BY <2>1, <2>2, FS_AddElement
  <2>4. Len(d) = Cardinality(P) /\ \A i \in P : d[Cardinality(Upto(P, i))] = l[i].payload
    BY DEF Done
  <2>5. x \in Seq(Nat)
    <3>1. \A e \in Entries : e.payload \in Seq(Nat)
      BY DEF Entries
    <3>2. k + 1 \in 1..Len(l)
      BY OneMore
    <3> QED
      BY <3>1, <3>2
  <2>6. /\ Len(d2) = Len(d) + 1 /\ d2[Len(d) + 1] = x
        /\ \A i \in 1..Len(d) : d2[i] = d[i]
    BY <2>5
  <2> HIDE DEF P, Q, d2, x
  <2>7. \A i \in P : d2[Cardinality(Upto(Q, i))] = l[i].payload
    <3> SUFFICES ASSUME NEW i \in P PROVE d2[Cardinality(Upto(Q, i))] = l[i].payload
      OBVIOUS
    <3>1. i \in 1..k
      BY <1>0
    <3>2. Upto(Q, i) = Upto(P, i)
      BY <1>0, <2>1, <3>1
    <3>3. Upto(P, i) \subseteq P /\ i \in Upto(P, i)
      BY <3>1
    <3>4. IsFiniteSet(Upto(P, i)) /\ Cardinality(Upto(P, i)) <= Cardinality(P)
      BY <2>2, <3>3, FS_Subset
    <3>5. Cardinality(Upto(P, i)) \in Nat /\ Cardinality(Upto(P, i)) # 0
      BY <3>3, <3>4, FS_EmptySet, FS_CardinalityType
    <3>6. Cardinality(Upto(P, i)) \in 1..Len(d)
      BY <2>2, <2>4, <3>4, <3>5
    <3> HIDE DEF Upto
    <3> QED
      BY <2>4, <2>6, <3>2, <3>6
  <2>8. d2[Cardinality(Upto(Q, k + 1))] = x
    <3>1. Upto(Q, k + 1) = Q
      <4>1. \A j \in P : j <= k + 1
        BY <1>0
      <4>2. \A j \in Q : j <= k + 1
        BY <1>0, <2>1, <4>1
      <4> QED
        BY <4>2
    <3> QED
      BY <2>3, <2>4, <2>6, <3>1
  <2>9. /\ Len(d2) = Cardinality(Q)
        /\ \A i \in Q : d2[Cardinality(Upto(Q, i))] = l[i].payload
    BY <2>1, <2>3, <2>4, <2>6, <2>7, <2>8 DEF x
  <2>10. Done(d2, l, k + 1)
    BY <2>9 DEF Done, Q
  <2> QED
    BY <1>3, <2>10 DEF d2, x
<1> QED
  BY <1>2, <1>3

\* Lines.  The only LF of a line is its end, and without CR it is what Line makes
\* of what was scanned before.
LEMMA LineRead ==
    ASSUME NEW line \in Banners \cup Idents, NEW eol \in LineEnds, NEW w, w = line \o eol
    PROVE  /\ w \in Seq(Nat) /\ Len(w) >= 1 /\ w[Len(w)] = LF
           /\ \A j \in 1..(Len(w) - 1) : w[j] # LF
           /\ \A buf \in Seq(Nat) :
                 Len(buf) = Len(w) - 1 /\ (\A j \in 1..Len(buf) : buf[j] = w[j])
                 => line = IF buf # <<>> /\ Last(buf) = CR THEN Front(buf) ELSE buf
<1>1. /\ line \in Seq(Nat)
      /\ \A i \in 1..Len(line) : line[i] # LF /\ (line[i] = CR => i # Len(line))
  <2>1. line \in Seq(Nat)
    BY StreamAssumption
  <2>2. \A i \in DOMAIN line : line[i] # LF /\ (line[i] = CR => i # Len(line))
    BY StreamAssumption
  <2> QED
    BY <2>1, <2>2
<1> PICK n \in Nat : n = Len(line)
  BY <1>1
<1>c. CR \in Nat /\ LF \in Nat /\ CR # LF
  BY DEF CR, LF
<1>2. CASE eol = <<LF>>
  <2>1. /\ w \in Seq(Nat) /\ Len(w) = n + 1 /\ w[n + 1] = LF
        /\ \A j \in 1..n : w[j] = line[j]
    BY <1>1, <1>2, <1>c
  <2>2. ASSUME NEW buf \in Seq(Nat), Len(buf) = n, \A j \in 1..Len(buf) : buf[j] = w[j]
        PROVE  line = IF buf # <<>> /\ Last(buf) = CR THEN Front(buf) ELSE buf
    <3>1. \A j \in 1..n : buf[j] = line[j]
      BY <2>1, <2>2
    <3>2. buf = line
      BY <1>1, <2>2, <3>1, SameSeq
    <3>3. ~(buf # <<>> /\ Last(buf) = CR)
      <4> SUFFICES ASSUME buf # <<>> PROVE Last(buf) # CR
        OBVIOUS
      <4>1. n \in 1..n
        BY <2>2
      <4> QED
        BY <1>1, <3>2, <4>1 DEF Last
    <3> QED
      BY <3>2, <3>3
  <2>3. Len(w) - 1 = n
    BY <2>1
  <2> QED
    BY <1>1, <2>1, <2>2, <2>3
<1>3. CASE eol = <<CR, LF>>
  <2>1. /\ w \in Seq(Nat) /\ Len(w) = n + 2 /\ w[n + 1] = CR /\ w[n + 2] = LF
        /\ \A j \in 1..n : w[j] = line[j]
    BY <1>1, <1>3, <1>c
  <2>2. ASSUME NEW buf \in Seq(Nat), Len(buf) = n + 1, \A j \in 1..Len(buf) : buf[j] = w[j]
        PROVE  line = IF buf # <<>> /\ Last(buf) = CR THEN Front(buf) ELSE buf
    <3>1. buf # <<>> /\ Last(buf) = CR
      BY <2>1, <2>2 DEF Last
    <3>2. 0 \in Nat /\ 0 + n <= Len(buf) /\ 0 + 1 = 1 /\ 0 + n = n /\ Len(buf) - 1 = n
      BY <2>2
    <3>3. Front(buf) = Part(buf, 0, n)
      BY <3>2 DEF Front, Part
    <3>4. Copied(Part(buf, 0, n), buf, 0, n)
      BY <3>2, PartAt
    <3>5. /\ Front(buf) \in Seq(Nat) /\ Len(Front(buf)) = n
          /\ \A j \in 1..n : Front(buf)[j] = buf[0 + j]
      BY <3>3, <3>4 DEF Copied
    <3>6. \A j \in 1..n : Front(buf)[j] = line[j]
      <4>1. \A j \in 1..n : j \in 1..Len(buf) /\ 0 + j = j
        BY <2>2
      <4> QED
        BY <2>1, <2>2, <3>5, <4>1
    <3>7. Front(buf) = line
      BY <1>1, <3>5, <3>6, SameSeq
    <3> QED
      BY <3>1, <3>7
  <2>3. Len(w) - 1 = n + 1
    BY <2>1
  <2>4. \A j \in 1..(n + 1) : w[j] # LF
    BY <1>1, <1>c, <2>1
  <2>5. /\ w \in Seq(Nat) /\ Len(w) >= 1 /\ w[Len(w)] = LF
        /\ \A j \in 1..(Len(w) - 1) : w[j] # LF
    BY <2>1, <2>3, <2>4
  <2>6. \A buf \in Seq(Nat) :
           Len(buf) = Len(w) - 1 /\ (\A j \in 1..Len(buf) : buf[j] = w[j])
           => line = IF buf # <<>> /\ Last(buf) = CR THEN Front(buf) ELSE buf
    BY <2>2, <2>3
  <2> QED
    BY <2>5, <2>6
<1> QED
  BY <1>2, <1>3 DEF LineEnds

\* An open session has taken what is not in its buffer; if there is something in it,
\* there is an entry that says what it is.
LEMMA Position ==
    ASSUME StreamInv, ParseInv, phase # "Closed", NEW k, Behind(k)
    PROVE  /\ Len(incoming) \in Nat /\ fed \in Nat /\ Taken \in Nat
           /\ Taken + Len(incoming) = fed
           /\ \A j \in 1..Len(incoming) : incoming[j] = stream[Taken + j]
           /\ k \in Nat /\ k \in 0..Len(log) /\ Edge(log, k) \in Nat /\ Edge(log, k) <= Taken
           /\ incoming # <<>> => k \in 0..(Len(log) - 1)
           /\ k # Len(log) => k \in 0..(Len(log) - 1)
           /\ k \in 0..(Len(log) - 1) => Entry(log, stream, k + 1)
<1>1. incoming \in Seq(Nat) /\ scan_buf \in Seq(Nat) /\ fed \in Nat
  BY DEF StreamInv, TypeInv
<1>2. Len(incoming) <= fed /\ \A j \in 1..Len(incoming) : incoming[j] = stream[Taken + j]
  BY DEF ParseInv
<1>3. Agree(log, stream) /\ fed <= Len(stream)
  BY DEF ParseInv
<1>4. k \in 0..Len(log) /\ Clean(log, k)
  BY DEF Behind
<1>5. Edge(log, k) \in Nat /\ Len(log) \in Nat /\ Len(stream) \in Nat
  BY <1>3, <1>4, Edges
<1>6. Taken \in Nat /\ Taken + Len(incoming) = fed
  BY <1>1, <1>2 DEF Taken
<1>7. Edge(log, k) <= Taken
  <2>1. CASE phase = "VersionExchange"
    <3>1. Taken = Edge(log, k) + Len(scan_buf)
      BY <2>1 DEF Behind, Scanning
    <3> QED
      BY <1>1, <1>5, <1>6, <3>1
  <2>2. CASE phase # "VersionExchange"
    BY <1>5, <2>2 DEF Behind
  <2> QED
    BY <2>1, <2>2
<1>8. ASSUME incoming # <<>> PROVE k # Len(log)
  <2> SUFFICES ASSUME k = Len(log) PROVE FALSE
    OBVIOUS
  <2>1. Edge(log, k) = Len(stream)
    BY <1>3, <1>4 DEF Agree
  <2>2. Len(incoming) > 0
    BY <1>1, <1>8
  <2>3. PICK c \in Nat : c = Len(incoming)
    BY <1>1
  <2> QED
    BY <1>3, <1>5, <1>6, <1>7, <2>1, <2>2, <2>3
<1>9. k # Len(log) => k \in 0..(Len(log) - 1)
  BY <1>4, <1>5
<1>10. k \in 0..(Len(log) - 1) => Entry(log, stream, k + 1)
  <2> SUFFICES ASSUME k \in 0..(Len(log) - 1) PROVE Entry(log, stream, k + 1)
    OBVIOUS
  <2>1. k + 1 \in 1..Len(log) /\ k + 1 - 1 = k
    BY <1>5
  <2> QED
    BY <1>3, <1>4, <2>1 DEF Agree
<1> QED
  BY <1>1, <1>2, <1>4, <1>5, <1>6, <1>7, <1>8, <1>9, <1>10

\* What is delivered is the next of the stream.
LEMMA DeliversParsed ==
    ASSUME StreamInv, ParseInv, Delivers
    PROVE  ParseInv'
<1>1. PICK n \in 1..(Len(stream) - fed) :
        FeedIncoming(SubSeq(stream, fed + 1, fed + n)) /\ fed' = fed + n
  BY DEF Delivers
<1>2. /\ UNCHANGED <<stream, log, decision, phase, scan_buf, total_scanned, dispatched>>
      /\ UNCHANGED <<active_kex, pending_sc_cipher, ciphered>>
      /\ driving' = TRUE
      /\ incoming' = incoming \o SubSeq(stream, fed + 1, fed + n)
  BY <1>1 DEF Delivers, FeedIncoming, scanVars, kexVars
<1>3. /\ incoming \in Seq(Nat) /\ fed \in Nat /\ stream \in Seq(Nat)
      /\ Len(stream) \in Nat /\ fed <= Len(stream) /\ Agree(log, stream)
  BY DEF StreamInv, TypeInv, ParseInv, Agree
<1>4. n \in Nat /\ fed + n <= Len(stream)
  BY <1>1, <1>3
<1> DEFINE z == Part(stream, fed, n)
<1>5. incoming' = Cat(incoming, z)
  BY <1>2 DEF Cat, Part
<1>6. Copied(z, stream, fed, n)
  BY <1>3, <1>4, PartAt
<1> HIDE DEF z
<1>7. z \in Seq(Nat) /\ Len(z) = n /\ \A j \in 1..n : z[j] = stream[fed + j]
  BY <1>6 DEF Copied
<1>8. Joined(incoming', incoming, z)
  BY <1>3, <1>5, <1>7, ConcatAt
<1> PICK c \in Nat : c = Len(incoming)
  BY <1>3
<1>9. /\ incoming' \in Seq(Nat) /\ Len(incoming') = c + n
      /\ \A j \in 1..c : incoming'[j] = incoming[j]
      /\ \A j \in 1..n : incoming'[c + j] = z[j]
  BY <1>7, <1>8 DEF Joined
<1>10. Taken' = Taken /\ Taken = fed - c
  BY <1>1, <1>3, <1>4, <1>9 DEF Taken
<1>11. CASE phase = "Closed"
  <2>1. PICK k \in 1..Len(log) : HaltedAt(k)
    BY <1>11 DEF ParseInv
  <2>2. k \in 0..Len(log)
    OBVIOUS
  <2>3. Edge(log, k) \in Nat
    BY <1>3, <2>2, Edges
  <2>4. HaltedAt(k)'
    BY <1>1, <1>2, <1>3, <1>4, <2>1, <2>3 DEF HaltedAt, Passed, Ends
  <2>5. phase' = "Closed"
    BY <1>2, <1>11
  <2> QED
    BY <1>1, <1>2, <1>3, <1>4, <2>1, <2>4, <2>5 DEF ParseInv
<1>12. CASE phase # "Closed"
  <2>1. PICK k \in 0..Len(log) : Behind(k)
    BY <1>12 DEF ParseInv
  <2>2. driving' /\ phase' # "Closed"
    BY <1>2, <1>12
  <2>3. Scanning(k) => Scanning(k)'
    BY <1>2, <1>10 DEF Scanning
  <2>8. Exchanged(k)'
    BY <1>2, <2>1 DEF Behind, Exchanged
  <2>4. Behind(k)'
    BY <1>2, <1>10, <2>1, <2>2, <2>3, <2>8 DEF Behind
  <2>5. c <= fed /\ \A j \in 1..c : incoming[j] = stream[Taken + j]
    BY <1>12 DEF ParseInv
  <2>6. \A j \in 1..(c + n) : incoming'[j] = stream[Taken + j]
    <3> SUFFICES ASSUME NEW j \in 1..(c + n) PROVE incoming'[j] = stream[Taken + j]
      OBVIOUS
    <3>1. CASE j \in 1..c
      BY <1>9, <2>5, <3>1
    <3>2. CASE j \notin 1..c
      <4>1. PICK m \in 1..n : j = c + m
        <5>1. j - c \in 1..n /\ j = c + (j - c)
          BY <1>4, <3>2
        <5> QED
          BY <5>1
      <4>2. Taken + j = fed + m
        BY <1>3, <1>10, <4>1
      <4> QED
        BY <1>7, <1>9, <4>1, <4>2
    <3> QED
      BY <3>1, <3>2
  <2>7. c + n <= fed + n /\ fed + n \in Nat
    BY <1>3, <1>4, <2>5
  <2> QED
    BY <1>1, <1>2, <1>3, <1>4, <1>9, <1>10, <2>1, <2>2, <2>4, <2>6, <2>7 DEF ParseInv
<1> QED
  BY <1>11, <1>12

\* Of the identification exchange: what is scanned of the line behind the k-th entry
\* is not all of it.
LEMMA LinePart ==
    ASSUME StreamInv, ParseInv, phase = "VersionExchange", NEW k, Behind(k),
           NEW line \in Banners \cup Idents, NEW eol \in LineEnds,
           NEW w, w = line \o eol, Holds(stream, Edge(log, k), w)
    PROVE  /\ Len(scan_buf) \in Nat /\ Len(w) \in Nat /\ Len(scan_buf) < Len(w)
           /\ \A j \in 1..Len(scan_buf) : scan_buf[j] = w[j]
<1> PICK a \in Nat, m \in Nat, n \in Nat : a = Edge(log, k) /\ m = Len(scan_buf) /\ n = Len(w)
  <2>1. Edge(log, k) \in Nat /\ scan_buf \in Seq(Nat)
    BY Position DEF StreamInv, TypeInv
  <2>2. w \in Seq(Nat)
    BY LineRead
  <2> QED
    BY <2>1, <2>2
<1>1. \A j \in 1..m : scan_buf[j] = stream[a + j] /\ scan_buf[j] # LF
  BY DEF Behind, Scanning
<1>2. \A j \in 1..n : stream[a + j] = w[j]
  BY DEF Holds
<1>3. n >= 1 /\ w[n] = LF
  BY LineRead
<1>4. m < n
  <2> SUFFICES ASSUME n <= m PROVE FALSE
    OBVIOUS
  <2>1. n \in 1..m /\ n \in 1..n
    BY <1>3
  <2> QED
    BY <1>1, <1>2, <1>3, <2>1
<1>5. \A j \in 1..m : j \in 1..n
  BY <1>4
<1> QED
  BY <1>1, <1>2, <1>4, <1>5

\* What the next entry says of a line.
NextIs(k, line, eol, w, end) ==
    /\ w = line \o eol /\ Holds(stream, Edge(log, k), w)
    /\ end = Edge(log, k) + Len(w) /\ log[k + 1].payload = <<>>
    /\ \/ /\ end > MAX_SCAN_BYTES
          /\ log[k + 1].what = "bad" /\ log[k + 1].end = MAX_SCAN_BYTES + 1
       \/ /\ end <= MAX_SCAN_BYTES /\ log[k + 1].end = end
          /\ \/ line \in Banners /\ log[k + 1].what = "banner"
             \/ /\ line \in Idents
                /\ log[k + 1].what = IF ValidVersion(line) THEN "ident" ELSE "bad"

\* There is a line that it is about.
LEMMA NextLine ==
    ASSUME StreamInv, ParseInv, phase = "VersionExchange", NEW k, Behind(k),
           k \in 0..(Len(log) - 1)
    PROVE  \E line \in Banners \cup Idents, eol \in LineEnds :
              \E w : \E end \in Nat : NextIs(k, line, eol, w, end)
<1>1. k \in Nat /\ Edge(log, k) \in Nat /\ Entry(log, stream, k + 1)
  BY Position
<1>2. k + 1 - 1 = k
  BY <1>1
<1>3. ~HasIdent(log, k)
  BY DEF Behind, Scanning
<1>4. LineEntry(log, stream, k + 1)
  BY <1>1, <1>2, <1>3 DEF Entry
<1> DEFINE Says(line, w, end) ==
                 /\ Holds(stream, Edge(log, k), w) /\ log[k + 1].payload = <<>>
                 /\ \/ /\ end > MAX_SCAN_BYTES
                       /\ log[k + 1].what = "bad" /\ log[k + 1].end = MAX_SCAN_BYTES + 1
                    \/ /\ end <= MAX_SCAN_BYTES /\ log[k + 1].end = end
                       /\ \/ line \in Banners /\ log[k + 1].what = "banner"
                          \/ /\ line \in Idents
                             /\ log[k + 1].what = IF ValidVersion(line) THEN "ident" ELSE "bad"
<1>5. PICK line \in Banners \cup Idents, eol \in LineEnds :
        Says(line, line \o eol, Edge(log, k) + Len(line \o eol))
  BY <1>2, <1>4 DEF LineEntry
<1> DEFINE w == line \o eol
<1>6. w = line \o eol
  OBVIOUS
<1>7. w \in Seq(Nat)
  BY LineRead
<1> HIDE DEF w
<1>8. Len(w) \in Nat
  BY <1>7
<1> DEFINE end == Edge(log, k) + Len(w)
<1>9. end \in Nat /\ Says(line, w, end)
  BY <1>1, <1>5, <1>6, <1>8
<1> HIDE DEF end
<1>10. end = Edge(log, k) + Len(w)
  BY DEF end
<1>11. NextIs(k, line, eol, w, end)
  BY <1>6, <1>9, <1>10 DEF NextIs
<1> QED
  BY <1>9, <1>11

\* When it waits, no line is complete.
LEMMA ScanWaits ==
    ASSUME StreamInv, ParseInv, phase = "VersionExchange", NEW k, Behind(k),
           incoming = <<>>, k \in 0..(Len(log) - 1)
    PROVE  fed < Edge(log, k + 1)
<1>0. PICK line \in Banners \cup Idents, eol \in LineEnds :
        \E w : \E end \in Nat : NextIs(k, line, eol, w, end)
  BY NextLine
<1> PICK w : \E end \in Nat : NextIs(k, line, eol, w, end)
  BY <1>0
<1> PICK end \in Nat : NextIs(k, line, eol, w, end)
  OBVIOUS
<1>1. /\ w = line \o eol /\ Holds(stream, Edge(log, k), w)
      /\ end = Edge(log, k) + Len(w)
      /\ \/ end > MAX_SCAN_BYTES /\ log[k + 1].end = MAX_SCAN_BYTES + 1
         \/ log[k + 1].end = end
  BY DEF NextIs
<1> PICK a \in Nat, m \in Nat, n \in Nat : a = Edge(log, k) /\ m = Len(scan_buf) /\ n = Len(w)
  BY <1>1, LinePart, Position
<1>2. m < n
  BY <1>1, LinePart
<1>3. total_scanned = Taken /\ Taken = a + m /\ total_scanned <= MAX_SCAN_BYTES
  BY DEF Behind, Scanning, StreamInv, ScanInv
<1>4. fed = Taken
  BY Position
<1>5. Edge(log, k + 1) = log[k + 1].end
  BY OneMore DEF ParseInv, Agree
<1>6. MAX_SCAN_BYTES \in Nat
  BY FramingAssumption
<1> QED
  BY <1>1, <1>2, <1>3, <1>4, <1>5, <1>6

\* The steps of drive.  It ends at an entry that ends the session,
LEMMA DriveEnds ==
    ASSUME StreamInv, ParseInv, ~Stopped, NEW k, Behind(k),
           k \in 0..(Len(log) - 1), Edge(log, k + 1) <= fed,
           log[k + 1].what = "bad" \/ log[k + 1].payload = <<DISCONNECT>>,
           dispatched' \in Seq(Seq(Nat)), Done(dispatched', log, k + 1),
           phase' = "Closed", UNCHANGED <<stream, log, fed, decision>>
    PROVE  ParseInv'
<1>1. /\ Clean(log, k) /\ ~Has(log, k, DISCONNECT)
      /\ Has(log, k, KEX_REPLY) => decision = "accept"
  BY DEF Behind, Exchanged, Stopped, StreamInv, TypeInv
<1>2. k + 1 \in 1..Len(log) /\ k + 1 - 1 = k
  BY OneMore DEF ParseInv, Agree
<1>3. \A j \in 1..k : Passed(j)'
  BY <1>1 DEF Clean, Has, Passed
<1>4. Ends(k + 1)'
  BY DEF Ends
<1>5. HaltedAt(k + 1)'
  BY <1>2, <1>3, <1>4 DEF HaltedAt
<1> QED
  BY <1>2, <1>5 DEF ParseInv

\* as one that is bad does,
LEMMA DriveFails ==
    ASSUME StreamInv, ParseInv, ~Stopped, NEW k, Behind(k),
           k \in 0..(Len(log) - 1), log[k + 1].what = "bad", Edge(log, k + 1) <= fed,
           Fail, UNCHANGED <<stream, log, fed, decision>>
    PROVE  ParseInv'
<1>1. phase' = "Closed" /\ dispatched' = dispatched
  BY DEF Fail
<1>2. log \in Seq(Entries) /\ dispatched \in Seq(Seq(Nat))
  BY DEF ParseInv, Agree
<1>3. Done(dispatched, log, k + 1)
  BY <1>2, DoneMore DEF Behind
<1> QED
  BY <1>1, <1>2, <1>3, DriveEnds

\* or waits, for input or for the host,
LEMMA DriveWaits ==
    ASSUME StreamInv, ParseInv, phase # "Closed", NEW k, Behind(k),
           phase # "AwaitingHostKeyDecision" /\ k \in 0..(Len(log) - 1) => fed < Edge(log, k + 1),
           Returns, UNCHANGED <<stream, log, fed, decision>>
    PROVE  ParseInv'
<1>1. /\ k \in 0..Len(log) /\ (k # Len(log) => k \in 0..(Len(log) - 1))
      /\ k \in Nat /\ Len(log) \in Nat
  BY Position, Edges DEF ParseInv
<1>2. /\ UNCHANGED <<stream, log, fed, decision, incoming, phase, scan_buf, total_scanned>>
      /\ UNCHANGED <<active_kex, pending_sc_cipher, ciphered, dispatched>>
  BY DEF Returns, scanVars, kexVars
<1>3. Taken' = Taken
  BY <1>2 DEF Taken
<1>4. Scanning(k) => Scanning(k)'
  BY <1>2, <1>3 DEF Scanning
<1>5. phase # "AwaitingHostKeyDecision" /\ k < Len(log) => fed < Edge(log, k + 1)
  BY <1>1
<1>6. Exchanged(k)'
  BY <1>2 DEF Behind, Exchanged
<1>7. Behind(k)'
  BY <1>2, <1>3, <1>4, <1>5, <1>6 DEF Behind
<1> QED
  BY <1>1, <1>2, <1>3, <1>7 DEF ParseInv

\* returns when it has nothing to do,
LEMMA DriveStops ==
    ASSUME StreamInv, ParseInv, Stopped, Returns, UNCHANGED <<stream, log, fed, decision>>
    PROVE  ParseInv'
<1>1. CASE phase = "Closed"
  <2>1. PICK k \in 1..Len(log) : HaltedAt(k)
    BY <1>1 DEF ParseInv
  <2>2. phase' = "Closed" /\ dispatched' = dispatched
    BY <1>1 DEF Returns
  <2>3. HaltedAt(k)'
    BY <2>1, <2>2 DEF HaltedAt, Passed, Ends
  <2> QED
    BY <2>1, <2>2, <2>3 DEF ParseInv
<1>2. CASE phase = "AwaitingHostKeyDecision"
  BY <1>2, DriveWaits DEF ParseInv
<1> QED
  BY <1>1, <1>2 DEF Stopped

\* or goes on.
LEMMA DriveGoesOn ==
    ASSUME StreamInv, ParseInv, phase' # "Closed", NEW k, k \in 0..Len(log), Behind(k)',
           UNCHANGED <<stream, log, fed, decision>>, dispatched' \in Seq(Seq(Nat)),
           Len(incoming') <= fed,
           \A j \in 1..Len(incoming') : incoming'[j] = stream[Taken' + j]
    PROVE  ParseInv'
BY DEF ParseInv

\* A byte taken.
LEMMA ByteTaken ==
    ASSUME StreamInv, ParseInv, phase # "Closed", NEW k, Behind(k),
           incoming # <<>>, incoming' = Tail(incoming), UNCHANGED <<stream, log, fed>>
    PROVE  /\ Taken' = Taken + 1 /\ Taken \in Nat /\ Taken + 1 <= fed
           /\ Head(incoming) = stream[Taken + 1]
           /\ Len(incoming') <= fed
           /\ \A j \in 1..Len(incoming') : incoming'[j] = stream[Taken' + j]
<1>1. /\ incoming \in Seq(Nat) /\ fed \in Nat /\ Taken \in Nat
      /\ Taken + Len(incoming) = fed
      /\ \A j \in 1..Len(incoming) : incoming[j] = stream[Taken + j]
  BY Position DEF StreamInv, TypeInv
<1> PICK c \in Nat : c = Len(incoming)
  BY <1>1
<1>2. c >= 1 /\ Head(incoming) = incoming[1]
  BY <1>1
<1>3. Len(incoming') = c - 1 /\ \A j \in 1..(c - 1) : incoming'[j] = incoming[j + 1]
  BY <1>1
<1>4. Taken' = Taken + 1
  BY <1>1, <1>3 DEF Taken
<1>5. \A j \in 1..(c - 1) : j + 1 \in 1..c /\ Taken + (j + 1) = (Taken + 1) + j
  BY <1>1
<1>6. \A j \in 1..(c - 1) : incoming'[j] = stream[Taken' + j]
  BY <1>1, <1>3, <1>4, <1>5
<1>7. Head(incoming) = stream[Taken + 1]
  BY <1>1, <1>2
<1>8. Taken + 1 <= fed /\ c - 1 <= fed
  BY <1>1, <1>2
<1> QED
  BY <1>1, <1>3, <1>4, <1>6, <1>7, <1>8

\* The limit is reached within a line that is too long,
LEMMA ScanTooLong ==
    ASSUME StreamInv, ParseInv, phase = "VersionExchange", NEW k, Behind(k),
           incoming # <<>>, TooLong
    PROVE  log[k + 1].what = "bad" /\ Edge(log, k + 1) <= fed
<1>0. k \in 0..(Len(log) - 1) /\ Edge(log, k) \in Nat /\ Taken \in Nat
  BY Position
<1>1. PICK line \in Banners \cup Idents, eol \in LineEnds :
        \E w : \E end \in Nat : NextIs(k, line, eol, w, end)
  BY <1>0, NextLine
<1> PICK w : \E end \in Nat : NextIs(k, line, eol, w, end)
  BY <1>1
<1> PICK end \in Nat : NextIs(k, line, eol, w, end)
  OBVIOUS
<1>2. /\ w = line \o eol /\ Holds(stream, Edge(log, k), w)
      /\ end = Edge(log, k) + Len(w)
      /\ end > MAX_SCAN_BYTES =>
            log[k + 1].what = "bad" /\ log[k + 1].end = MAX_SCAN_BYTES + 1
  <2>1. MAX_SCAN_BYTES \in Nat
    BY FramingAssumption
  <2> QED
    BY <2>1 DEF NextIs
<1> PICK a \in Nat, m \in Nat, n \in Nat : a = Edge(log, k) /\ m = Len(scan_buf) /\ n = Len(w)
  BY <1>0, <1>2, LinePart
<1>3. m < n
  BY <1>2, LinePart
<1>4. total_scanned = Taken /\ Taken = a + m /\ total_scanned <= MAX_SCAN_BYTES
  BY DEF Behind, Scanning, StreamInv, ScanInv
<1>5. MAX_SCAN_BYTES \in Nat
  BY FramingAssumption
<1>6. end > MAX_SCAN_BYTES /\ MAX_SCAN_BYTES = Taken
  <2>1. end = a + n /\ end \in Nat
    BY <1>2
  <2>2. a + m + 1 > MAX_SCAN_BYTES /\ a + m <= MAX_SCAN_BYTES
    BY <1>4 DEF TooLong
  <2> QED
    BY <1>3, <1>4, <1>5, <2>1, <2>2
<1>7. Edge(log, k + 1) = log[k + 1].end
  BY <1>0, OneMore DEF ParseInv, Agree
<1>8. Taken + 1 <= fed
  <2>1. Len(incoming) \in Nat /\ Len(incoming) # 0
    BY DEF StreamInv, TypeInv
  <2>2. Taken + Len(incoming) = fed
    BY Position
  <2> QED
    BY <1>0, <2>1, <2>2
<1> QED
  BY <1>2, <1>6, <1>7, <1>8

\* and an LF within it completes the line.
LEMMA ScanCompletes ==
    ASSUME StreamInv, ParseInv, phase = "VersionExchange", NEW k, Behind(k),
           incoming # <<>>, ~TooLong, Head(incoming) = LF
    PROVE  /\ k \in 0..(Len(log) - 1)
           /\ Edge(log, k + 1) = Taken + 1 /\ log[k + 1].payload = <<>>
           /\ \/ Line \in Banners /\ log[k + 1].what = "banner"
              \/ /\ Line \in Idents
                 /\ log[k + 1].what = IF ValidVersion(Line) THEN "ident" ELSE "bad"
<1>0. /\ k \in 0..(Len(log) - 1) /\ Edge(log, k) \in Nat /\ Taken \in Nat
      /\ incoming \in Seq(Nat) /\ scan_buf \in Seq(Nat)
  BY Position DEF StreamInv, TypeInv
<1>1. PICK line \in Banners \cup Idents, eol \in LineEnds :
        \E w : \E end \in Nat : NextIs(k, line, eol, w, end)
  BY <1>0, NextLine
<1> PICK w : \E end \in Nat : NextIs(k, line, eol, w, end)
  BY <1>1
<1> PICK end \in Nat : NextIs(k, line, eol, w, end)
  OBVIOUS
<1>2. /\ w = line \o eol /\ Holds(stream, Edge(log, k), w)
      /\ end = Edge(log, k) + Len(w) /\ log[k + 1].payload = <<>>
      /\ end <= MAX_SCAN_BYTES =>
            /\ log[k + 1].end = end
            /\ \/ line \in Banners /\ log[k + 1].what = "banner"
               \/ /\ line \in Idents
                  /\ log[k + 1].what = IF ValidVersion(line) THEN "ident" ELSE "bad"
  <2>1. MAX_SCAN_BYTES \in Nat
    BY FramingAssumption
  <2> QED
    BY <2>1 DEF NextIs
<1> PICK a \in Nat, m \in Nat, n \in Nat : a = Edge(log, k) /\ m = Len(scan_buf) /\ n = Len(w)
  BY <1>0, <1>2, LinePart
<1>3. m < n /\ \A j \in 1..m : scan_buf[j] = w[j]
  BY <1>2, LinePart
<1>4. total_scanned = Taken /\ Taken = a + m /\ total_scanned <= MAX_SCAN_BYTES
  BY DEF Behind, Scanning, StreamInv, ScanInv
<1>5. MAX_SCAN_BYTES \in Nat
  BY FramingAssumption
<1>6. Head(incoming) = stream[Taken + 1]
  <2>1. 1 \in 1..Len(incoming) /\ Head(incoming) = incoming[1]
    BY <1>0
  <2> QED
    BY <2>1, Position
<1>7. m + 1 = n
  <2>1. m + 1 \in 1..n /\ Taken + 1 = a + (m + 1)
    BY <1>3, <1>4
  <2>2. w[m + 1] = LF
    BY <1>2, <1>6, <2>1 DEF Holds
  <2>3. \A j \in 1..(n - 1) : w[j] # LF
    BY <1>2, LineRead
  <2>4. m + 1 \notin 1..(n - 1)
    BY <2>2, <2>3
  <2> QED
    BY <2>1, <2>4
<1>8. Line = line
  <2>1. Len(scan_buf) = Len(w) - 1 /\ \A j \in 1..Len(scan_buf) : scan_buf[j] = w[j]
    BY <1>3, <1>7
  <2>2. line = IF scan_buf # <<>> /\ Last(scan_buf) = CR THEN Front(scan_buf) ELSE scan_buf
    BY <1>0, <1>2, <2>1, LineRead
  <2> QED
    BY <2>2 DEF Line
<1>9. end = Taken + 1 /\ end <= MAX_SCAN_BYTES
  <2>1. end = a + n /\ end \in Nat
    BY <1>2
  <2>2. ~(a + m + 1 > MAX_SCAN_BYTES)
    BY <1>4 DEF TooLong
  <2> QED
    BY <1>4, <1>5, <1>7, <2>1, <2>2
<1>10. Edge(log, k + 1) = log[k + 1].end
  BY <1>0, OneMore DEF ParseInv, Agree
<1> QED
  BY <1>0, <1>2, <1>8, <1>9, <1>10

\* Identification lines are no banners.
LEMMA LineKinds ==
    /\ \A line \in Banners : ~IsPrefix(SSH, line)
    /\ \A line \in Idents : IsPrefix(SSH, line)
BY StreamAssumption

\* The identification exchange reads the lines one by one.
LEMMA ScanParsed ==
    ASSUME StreamInv, ParseInv, driving, phase = "VersionExchange", DriveVersionExchange,
           UNCHANGED <<stream, log, fed, decision>>
    PROVE  ParseInv'
<1>0. phase = "VersionExchange" /\ phase # "Closed" /\ ~Stopped /\ driving
  BY DEF Stopped
<1>1. PICK k \in 0..Len(log) : Behind(k)
  BY <1>0 DEF ParseInv
<1>2. log \in Seq(Entries) /\ dispatched \in Seq(Seq(Nat)) /\ Agree(log, stream)
  BY DEF ParseInv, Agree
<1>3. /\ Scanning(k) /\ Clean(log, k) /\ ~Has(log, k, DISCONNECT)
      /\ Done(dispatched, log, k) /\ Exchanged(k)
  BY <1>0, <1>1 DEF Behind
<1>4. CASE incoming = <<>> /\ Returns
  BY <1>0, <1>1, <1>4, ScanWaits, DriveWaits
<1>5. CASE incoming # <<>> /\ TooLong /\ Fail /\ UNCHANGED incoming
  <2>1. log[k + 1].what = "bad" /\ Edge(log, k + 1) <= fed
    BY <1>0, <1>1, <1>5, ScanTooLong
  <2>2. k \in 0..(Len(log) - 1)
    BY <1>0, <1>1, <1>5, Position
  <2> QED
    BY <1>0, <1>1, <1>5, <2>1, <2>2, DriveFails
<1>6. CASE /\ incoming # <<>> /\ ~TooLong /\ Head(incoming) # LF
           /\ TakeByte /\ scan_buf' = Append(scan_buf, Head(incoming)) /\ UNCHANGED phase
  <2>1. /\ Taken' = Taken + 1 /\ Taken \in Nat
        /\ Head(incoming) = stream[Taken + 1]
        /\ Len(incoming') <= fed
        /\ \A j \in 1..Len(incoming') : incoming'[j] = stream[Taken' + j]
    BY <1>0, <1>1, <1>6, ByteTaken DEF TakeByte
  <2>2. Edge(log, k) \in Nat /\ scan_buf \in Seq(Nat) /\ Head(incoming) \in Nat
    BY <1>0, <1>1, <1>6, Position DEF StreamInv, TypeInv
  <2> PICK a \in Nat, m \in Nat : a = Edge(log, k) /\ m = Len(scan_buf)
    BY <2>2
  <2>3. /\ Len(scan_buf') = m + 1 /\ scan_buf'[m + 1] = Head(incoming)
        /\ \A j \in 1..m : scan_buf'[j] = scan_buf[j]
    BY <1>6, <2>2
  <2>4. /\ total_scanned = Taken /\ Taken = a + m
        /\ \A j \in 1..m : scan_buf[j] = stream[a + j] /\ scan_buf[j] # LF
    BY <1>3 DEF Scanning
  <2>5. total_scanned' = Taken' /\ Taken' = a + (m + 1)
    BY <1>6, <2>1, <2>4 DEF TakeByte
  <2>6. Taken + 1 = a + (m + 1)
    BY <2>4
  <2>7. \A j \in 1..(m + 1) : scan_buf'[j] = stream[a + j] /\ scan_buf'[j] # LF
    <3> SUFFICES ASSUME NEW j \in 1..(m + 1)
                 PROVE  scan_buf'[j] = stream[a + j] /\ scan_buf'[j] # LF
      OBVIOUS
    <3>1. CASE j \in 1..m
      BY <2>3, <2>4, <3>1
    <3>2. CASE j = m + 1
      BY <1>6, <2>1, <2>3, <2>6, <3>2
    <3> QED
      BY <3>1, <3>2
  <2>8. Scanning(k)'
    BY <1>3, <2>3, <2>5, <2>7 DEF Scanning
  <2>10. Exchanged(k)'
    BY <1>3, <1>6 DEF Exchanged, TakeByte, kexVars
  <2>9. Behind(k)'
    BY <1>0, <1>1, <1>6, <2>8, <2>10 DEF Behind, TakeByte
  <2> QED
    BY <1>0, <1>1, <1>2, <1>6, <2>1, <2>9, DriveGoesOn DEF TakeByte
<1>7. CASE incoming # <<>> /\ ~TooLong /\ Head(incoming) = LF /\ Scan
  <2>1. /\ k \in 0..(Len(log) - 1)
        /\ Edge(log, k + 1) = Taken + 1 /\ log[k + 1].payload = <<>>
        /\ \/ Line \in Banners /\ log[k + 1].what = "banner"
           \/ /\ Line \in Idents
              /\ log[k + 1].what = IF ValidVersion(Line) THEN "ident" ELSE "bad"
    BY <1>0, <1>1, <1>7, ScanCompletes
  <2>2. /\ k + 1 \in 0..Len(log)
        /\ Clean(log, k + 1) <=> log[k + 1].what # "bad"
        /\ HasIdent(log, k + 1) <=> log[k + 1].what = "ident"
        /\ \A m : Has(log, k + 1, m) <=> Has(log, k, m)
    <3>1. \A m : <<>> # <<m>>
      OBVIOUS
    <3> QED
      <4>1. /\ k + 1 \in 0..Len(log)
            /\ Clean(log, k + 1) <=> Clean(log, k) /\ log[k + 1].what # "bad"
            /\ HasIdent(log, k + 1) <=> HasIdent(log, k) \/ log[k + 1].what = "ident"
            /\ \A m : Has(log, k + 1, m) <=> Has(log, k, m) \/ log[k + 1].payload = <<m>>
        BY <1>2, <2>1, OneMore
      <4>2. ~HasIdent(log, k) /\ Clean(log, k)
        BY <1>3 DEF Scanning
      <4> QED
        BY <2>1, <3>1, <4>1, <4>2
  <2>3. Done(dispatched, log, k + 1)
    BY <1>2, <1>3, <2>1, DoneMore
  <2>7. ASSUME TakeByte, phase' \in {"VersionExchange", "Packets"}
        PROVE  Exchanged(k + 1)'
    BY <1>0, <1>3, <2>2, <2>7 DEF Exchanged, TakeByte, kexVars, Keyed
  <2>4. CASE ~IsPrefix(SSH, Line) /\ TakeByte /\ scan_buf' = <<>> /\ UNCHANGED phase
    <3>1. log[k + 1].what = "banner"
      BY <2>1, <2>4, LineKinds
    <3>2. /\ Taken' = Taken + 1 /\ Taken \in Nat
          /\ Len(incoming') <= fed
          /\ \A j \in 1..Len(incoming') : incoming'[j] = stream[Taken' + j]
      BY <1>0, <1>1, <1>7, <2>4, ByteTaken DEF TakeByte
    <3>3. Len(scan_buf') = 0
      BY <2>4
    <3>4. total_scanned' = Taken' /\ Taken' = Edge(log, k + 1) + Len(scan_buf')
      BY <1>3, <2>1, <2>4, <3>2, <3>3 DEF Scanning, TakeByte
    <3>5. Scanning(k + 1)'
      BY <2>2, <3>1, <3>3, <3>4 DEF Scanning
    <3>6. Behind(k + 1)'
      BY <1>0, <1>3, <2>2, <2>3, <2>4, <2>7, <3>1, <3>5 DEF Behind, TakeByte
    <3>7. phase' # "Closed" /\ dispatched' = dispatched
      BY <1>0, <2>4 DEF TakeByte
    <3> QED
      BY <1>2, <2>2, <3>2, <3>6, <3>7, DriveGoesOn
  <2>5. CASE /\ IsPrefix(SSH, Line) /\ ValidVersion(Line) /\ TakeByte
             /\ scan_buf' = <<>> /\ phase' = "Packets"
    <3>1. log[k + 1].what = "ident"
      BY <2>1, <2>5, LineKinds
    <3>2. /\ Taken' = Taken + 1 /\ Taken \in Nat
          /\ Len(incoming') <= fed
          /\ \A j \in 1..Len(incoming') : incoming'[j] = stream[Taken' + j]
      BY <1>0, <1>1, <1>7, <2>5, ByteTaken DEF TakeByte
    <3>3. Behind(k + 1)'
      BY <1>0, <1>3, <2>1, <2>2, <2>3, <2>5, <2>7, <3>1, <3>2 DEF Behind, TakeByte
    <3>4. phase' # "Closed" /\ dispatched' = dispatched
      BY <2>5 DEF TakeByte
    <3> QED
      BY <1>2, <2>2, <3>2, <3>3, <3>4, DriveGoesOn
  <2>6. CASE IsPrefix(SSH, Line) /\ ~ValidVersion(Line) /\ Fail /\ UNCHANGED incoming
    <3>1. log[k + 1].what = "bad"
      BY <2>1, <2>6, LineKinds
    <3>2. Taken + 1 <= fed
      <4>1. Len(incoming) \in Nat /\ Len(incoming) # 0
        BY <1>7 DEF StreamInv, TypeInv
      <4>2. Taken + Len(incoming) = fed /\ Taken \in Nat
        BY <1>0, <1>1, Position
      <4> QED
        BY <4>1, <4>2
    <3> QED
      BY <1>0, <1>1, <2>1, <2>6, <3>1, <3>2, DriveFails
  <2> QED
    BY <1>7, <2>4, <2>5, <2>6 DEF Scan
<1>8. CASE incoming # <<>> /\ Scan
  BY <1>5, <1>6, <1>7, <1>8 DEF Scan
<1> QED
  BY <1>4, <1>8 DEF DriveVersionExchange

\* Behind the identification the next entry is readable.
LEMMA NextPacket ==
    ASSUME StreamInv, ParseInv, phase = "Packets", NEW k, Behind(k),
           k \in 0..(Len(log) - 1)
    PROVE  /\ Edge(log, k + 1) = log[k + 1].end /\ Taken + 4 <= Edge(log, k + 1)
           /\ \E n \in Nat, body \in Seq(Nat), tag \in Seq(Nat) :
                 \E w : Reads(log[k + 1], stream, Taken, Keyed(log, k), NotNow(log, k), n, body, tag, w)
           /\ log[k + 1].what = "packet" =>
                 /\ log[k + 1].payload \in Payloads
                 /\ log[k + 1].payload = <<KEXINIT>> => ~Has(log, k, KEXINIT)
           /\ log[k + 1].what \in {"packet", "bad"}
<1>1. k \in Nat /\ Entry(log, stream, k + 1) /\ Taken \in Nat
  BY Position
<1>2. k + 1 - 1 = k
  BY <1>1
<1>3. HasIdent(log, k) /\ Taken = Edge(log, k)
  BY DEF Behind
<1>4. PacketEntry(log, stream, k + 1)
  BY <1>1, <1>2, <1>3 DEF Entry
<1>5. \E n \in Nat, body \in Seq(Nat), tag \in Seq(Nat) :
        \E w : Reads(log[k + 1], stream, Taken, Keyed(log, k), NotNow(log, k), n, body, tag, w)
  BY <1>2, <1>3, <1>4, PacketReadable
<1>6. Edge(log, k + 1) = log[k + 1].end
  BY OneMore DEF ParseInv, Agree
<1>7. Taken + 4 <= log[k + 1].end
  <2>1. stream \in Seq(Nat)
    BY DEF ParseInv, Agree
  <2> QED
    BY <1>1, <1>5, <2>1, ReadableEnd
<1>8. /\ log[k + 1].what = "packet" =>
            /\ log[k + 1].payload \in Payloads
            /\ log[k + 1].payload = <<KEXINIT>> => ~Has(log, k, KEXINIT)
      /\ log[k + 1].what \in {"packet", "bad"}
  <2> DEFINE e == log[k + 1]
  <2>1. \/ \E payload \in Payloads :
              /\ e.payload = payload /\ (payload = <<KEXINIT>> => ~Has(log, k, KEXINIT))
              /\ e.what = IF payload[1] \in NotNow(log, k) THEN "bad" ELSE "packet"
        \/ e.what = "bad"
    <3> DEFINE b == k + 1 - 1
    <3>1. \/ \E payload \in Payloads :
                /\ e.payload = payload /\ (payload = <<KEXINIT>> => ~Has(log, b, KEXINIT))
                /\ e.what = IF payload[1] \in NotNow(log, b) THEN "bad" ELSE "packet"
          \/ e.what = "bad"
      <4>1. CASE \E payload \in Payloads :
                   /\ Holds(stream, Edge(log, b), Wire(payload, Keyed(log, b)))
                   /\ e.end = Edge(log, b) + Len(Wire(payload, Keyed(log, b)))
                   /\ e.payload = payload
                   /\ payload = <<KEXINIT>> => ~Has(log, b, KEXINIT)
                   /\ e.what = IF payload[1] \in NotNow(log, b) THEN "bad" ELSE "packet"
        <5> HIDE DEF b, e
        <5> QED
          BY <4>1
      <4>2. CASE e.what = "bad"
        BY <4>2
      <4> QED
        BY <1>4, <4>1, <4>2 DEF PacketEntry
    <3>2. b = k
      BY <1>2
    <3> HIDE DEF b, e
    <3> QED
      BY <3>1, <3>2
  <2> HIDE DEF e
  <2>2. /\ e.what = "packet" =>
              e.payload \in Payloads /\ (e.payload = <<KEXINIT>> => ~Has(log, k, KEXINIT))
        /\ e.what \in {"packet", "bad"}
    BY <2>1
  <2> QED
    BY <2>2 DEF e
<1> QED
  BY <1>5, <1>6, <1>7, <1>8

\* What drive reads from its buffer, is what the entry says.
LEMMA PacketSeen ==
    ASSUME StreamInv, ParseInv, phase = "Packets", NEW k, Behind(k),
           k \in 0..(Len(log) - 1),
           NEW n \in Nat, NEW body \in Seq(Nat), NEW tag \in Seq(Nat), NEW w,
           Reads(log[k + 1], stream, Taken, Keyed(log, k), NotNow(log, k), n, body, tag, w)
    PROVE  /\ Len(incoming) >= 4 => PacketLength = n
           /\ Plausible(n) => TotalLength(n) = Len(w) /\ Len(w) \in Nat
           /\ Plausible(n) /\ Len(incoming) >= Len(w) =>
                 /\ SubSeq(SubSeq(incoming, 1, Len(w)), 5, 4 + n) = body
                 /\ Authentic(SubSeq(incoming, 1, Len(w))) <=> (ciphered => tag = TagOf(TRUE))
<1>1. /\ Frame(w, ToBytes(n), body, tag) /\ Holds(stream, Taken, w)
      /\ Plausible(n) => Len(body) = n /\ Len(tag) = IF Keyed(log, k) THEN TAG_LEN ELSE 0
  BY DEF Reads
<1>2. /\ incoming \in Seq(Nat) /\ stream \in Seq(Nat) /\ Taken \in Nat
      /\ \A j \in 1..Len(incoming) : incoming[j] = stream[Taken + j]
  BY Position DEF StreamInv, TypeInv
<1>3. /\ Len(incoming) >= 4 => FromBytes(SubSeq(incoming, 1, 4)) = n
      /\ Len(incoming) >= Len(w) => SubSeq(incoming, 1, Len(w)) = w
  <2>1. body \in Seq(Nat) /\ tag \in Seq(Nat) /\ n \in Nat
    OBVIOUS
  <2> QED
    BY <1>1, <1>2, <2>1, FrameRead, SMTT(60)
<1>4. ciphered <=> Keyed(log, k)
  BY DEF Behind, Exchanged
<1>5. ToBytes(n) \in Seq(Nat) /\ Len(ToBytes(n)) = 4
  BY ToBytesBytes DEF ToBytes
<1>6. Len(w) = 4 + Len(body) + Len(tag)
  BY <1>1, <1>5 DEF Frame
<1>7. ASSUME Plausible(n)
      PROVE  TotalLength(n) = Len(w) /\ Len(w) \in Nat
  <2>1. Len(tag) = IF ciphered THEN TAG_LEN ELSE 0
    BY <1>1, <1>4, <1>7
  <2>2. TotalLength(n) = 4 + n + Len(tag)
    BY <2>1 DEF TotalLength
  <2>3. Len(body) = n /\ Len(tag) \in Nat
    BY <1>1, <1>7
  <2> QED
    BY <1>6, <2>2, <2>3
<1>8. /\ SubSeq(w, Len(ToBytes(n)) + 1, Len(ToBytes(n)) + Len(body)) = body
      /\ SubSeq(w, Len(w) - Len(tag) + 1, Len(w)) = tag
  <2> DEFINE h == ToBytes(n)
  <2>1. h \in Seq(Nat) /\ Frame(w, h, body, tag)
    BY <1>1, <1>5
  <2> HIDE DEF h
  <2>2. SubSeq(w, Len(h) + 1, Len(h) + Len(body)) = body
    BY <2>1, FrameParts
  <2>3. SubSeq(w, Len(w) - Len(tag) + 1, Len(w)) = tag
    BY <2>1, FrameParts
  <2> QED
    BY <2>2, <2>3 DEF h
<1>9. ASSUME Plausible(n)
      PROVE  /\ SubSeq(w, 5, 4 + n) = body
             /\ Authentic(w) <=> (ciphered => tag = TagOf(TRUE))
  <2>1. 4 + 1 = 5 /\ Len(body) = n
    BY <1>1, <1>9
  <2>2. SubSeq(w, 5, 4 + n) = body
    BY <1>5, <1>8, <2>1
  <2>3. ciphered => Len(tag) = TAG_LEN
    BY <1>1, <1>4, <1>9
  <2>4. Authentic(w) <=> (ciphered => tag = TagOf(TRUE))
    BY <1>8, <2>3 DEF Authentic
  <2> QED
    BY <2>2, <2>4
<1> QED
  BY <1>3, <1>7, <1>9 DEF PacketLength

\* A packet taken: the buffer begins behind it.
LEMMA PacketTaken ==
    ASSUME StreamInv, ParseInv, phase = "Packets", NEW k, Behind(k),
           NEW total \in Nat, total <= Len(incoming),
           incoming' = SubSeq(incoming, total + 1, Len(incoming)), UNCHANGED <<stream, log, fed>>
    PROVE  /\ Taken' = Taken + total /\ Taken + total <= fed /\ Taken \in Nat
           /\ Len(incoming') <= fed
           /\ \A j \in 1..Len(incoming') : incoming'[j] = stream[Taken' + j]
<1>1. /\ incoming \in Seq(Nat) /\ fed \in Nat /\ Taken \in Nat
      /\ Taken + Len(incoming) = fed
      /\ \A j \in 1..Len(incoming) : incoming[j] = stream[Taken + j]
  BY Position DEF StreamInv, TypeInv
<1> PICK c \in Nat : c = Len(incoming)
  BY <1>1
<1> PICK r \in Nat : c = total + r
  <2>1. c - total \in Nat /\ c = total + (c - total)
    OBVIOUS
  <2> QED
    BY <2>1
<1>2. incoming' = Part(incoming, total, r)
  BY DEF Part
<1>3. Copied(incoming', incoming, total, r)
  <2>1. total + r <= Len(incoming)
    OBVIOUS
  <2> QED
    BY <1>1, <1>2, <2>1, PartAt
<1>4. Len(incoming') = r /\ \A j \in 1..r : incoming'[j] = incoming[total + j]
  BY <1>3 DEF Copied
<1>5. Taken' = Taken + total
  BY <1>1, <1>4 DEF Taken
<1>6. \A j \in 1..r : total + j \in 1..c /\ Taken + (total + j) = (Taken + total) + j
  BY <1>1
<1>7. \A j \in 1..r : incoming'[j] = stream[Taken' + j]
  BY <1>1, <1>4, <1>5, <1>6
<1>8. Taken + total <= fed /\ r <= fed
  BY <1>1
<1> QED
  BY <1>1, <1>4, <1>5, <1>7, <1>8

\* What is unexpected for the receiver is what the log has out of turn.
LEMMA UnexpectedNow ==
    ASSUME phase = "Packets", NEW k, Exchanged(k), decision \in {"none", "accept", "reject"}
    PROVE  Unexpected = NotNow(log, k)
BY DEF Exchanged, Unexpected, NotNow, KEX_REPLY, NEWKEYS, Keyed

\* The messages that are acted on.
LEMMA ActedOn ==
    ASSUME NEW payload \in Payloads, NEW m \in Kex \cup {DISCONNECT}
    PROVE  payload[1] = m <=> payload = <<m>>
<1>1. payload[1] = m => payload = <<m>>
  BY StreamAssumption
<1>2. <<m>>[1] = m
  OBVIOUS
<1> QED
  BY <1>1, <1>2

\* A packet dispatched, that is no DISCONNECT, takes the key exchange one entry on.
LEMMA ExchangeGoesOn ==
    ASSUME StreamInv, phase = "Packets", NEW k \in Nat, Exchanged(k),
           NEW payload \in Payloads, Dispatch(payload), payload # <<DISCONNECT>>,
           payload[1] \notin NotNow(log, k), payload = <<KEXINIT>> => ~Has(log, k, KEXINIT),
           \A m : Has(log, k + 1, m) <=> Has(log, k, m) \/ payload = <<m>>,
           UNCHANGED <<log, decision>>
    PROVE  Exchanged(k + 1)'
<1> DEFINE m == payload[1]
           Was(x) == Has(log, k, x)
           Is(x) == Has(log, k + 1, x)
<1>1. /\ m = KEXINIT <=> payload = <<KEXINIT>>
      /\ m = KEX_REPLY <=> payload = <<KEX_REPLY>>
      /\ m = NEWKEYS <=> payload = <<NEWKEYS>>
      /\ m = DISCONNECT <=> payload = <<DISCONNECT>>
  BY ActedOn DEF Kex
<1>2. /\ Is(KEXINIT) <=> Was(KEXINIT) \/ m = KEXINIT
      /\ Is(KEX_REPLY) <=> Was(KEX_REPLY) \/ m = KEX_REPLY
      /\ Is(NEWKEYS) <=> Was(NEWKEYS) \/ m = NEWKEYS
      /\ m = KEXINIT => ~Was(KEXINIT)
  BY <1>1
<1>3. /\ m = KEX_REPLY => ~Was(KEX_REPLY) /\ Was(KEXINIT)
      /\ m = NEWKEYS => ~Was(NEWKEYS) /\ Was(KEX_REPLY)
  <2>1. KEX_REPLY # NEWKEYS
    BY DEF KEX_REPLY, NEWKEYS
  <2>2. KEX_REPLY \notin NotNow(log, k) => ~Was(KEX_REPLY) /\ Was(KEXINIT)
    BY <2>1, Zenon DEF NotNow
  <2>3. NEWKEYS \notin NotNow(log, k) => ~Was(NEWKEYS) /\ Was(KEX_REPLY)
    BY <2>1, Zenon DEF NotNow
  <2> QED
    BY <2>2, <2>3
<1>4. /\ phase' = IF m = KEX_REPLY THEN "AwaitingHostKeyDecision" ELSE "Packets"
      /\ active_kex' = (m = KEXINIT \/ (m # KEX_REPLY /\ active_kex))
      /\ pending_sc_cipher' = (m # NEWKEYS /\ pending_sc_cipher)
      /\ ciphered' = (m = NEWKEYS \/ ciphered)
      /\ decision' = decision /\ log' = log
  BY <1>1 DEF Dispatch
<1>5. KEXINIT # KEX_REPLY /\ KEXINIT # NEWKEYS /\ KEX_REPLY # NEWKEYS
  BY DEF KEXINIT, KEX_REPLY, NEWKEYS
<1>6. /\ active_kex <=> Was(KEXINIT) /\ ~Was(KEX_REPLY)
      /\ pending_sc_cipher <=> decision = "accept" /\ ~Was(NEWKEYS)
      /\ ciphered <=> Was(NEWKEYS)
      /\ ciphered => decision = "accept"
      /\ decision = "accept" => Was(KEX_REPLY)
      /\ decision \in {"none", "accept"}
      /\ Was(KEX_REPLY) => Was(KEXINIT) /\ decision # "none"
  BY DEF Exchanged, Keyed, StreamInv, TypeInv
<1>7. m = KEX_REPLY => \A j \in 1..k : log[j].payload # <<KEX_REPLY>>
  BY <1>3 DEF Has
<1>8. k + 1 - 1 = k
  OBVIOUS
<1> HIDE DEF m, Was, Is
<1>9. /\ active_kex' <=> Is(KEXINIT) /\ ~Is(KEX_REPLY)
      /\ pending_sc_cipher' <=> decision' = "accept" /\ ~Is(NEWKEYS)
      /\ ciphered' <=> Is(NEWKEYS)
      /\ ciphered' => decision' = "accept"
      /\ decision' = "accept" => Is(KEX_REPLY)
      /\ decision' # "reject"
      /\ Is(KEX_REPLY) => Is(KEXINIT)
      /\ phase' = "AwaitingHostKeyDecision" <=> Is(KEX_REPLY) /\ decision' = "none"
  BY <1>2, <1>3, <1>4, <1>5, <1>6
<1>10. phase' = "AwaitingHostKeyDecision" => \A j \in 1..k : log'[j].payload # <<KEX_REPLY>>
  BY <1>4, <1>7
<1> QED
  BY <1>4, <1>8, <1>9, <1>10 DEF Exchanged, Keyed, Is

\* The packets are read one by one.
LEMMA PacketParsed ==
    ASSUME StreamInv, ParseInv, driving, phase = "Packets", DrivePacketPhase,
           UNCHANGED <<stream, log, fed, decision>>
    PROVE  ParseInv'
<1>0. phase = "Packets" /\ phase # "Closed" /\ ~Stopped /\ driving
  BY DEF Stopped
<1>1. PICK k \in 0..Len(log) : Behind(k)
  BY <1>0 DEF ParseInv
<1>2. /\ log \in Seq(Entries) /\ dispatched \in Seq(Seq(Nat)) /\ incoming \in Seq(Nat)
      /\ fed \in Nat /\ ciphered \in BOOLEAN
  BY DEF ParseInv, Agree, StreamInv, TypeInv
<1>3. /\ HasIdent(log, k) /\ Taken = Edge(log, k) /\ Clean(log, k) /\ Done(dispatched, log, k)
      /\ ~Has(log, k, DISCONNECT) /\ Exchanged(k) /\ (ciphered <=> Keyed(log, k))
      /\ Unexpected = NotNow(log, k)
  <2>1. decision \in {"none", "accept", "reject"}
    BY DEF StreamInv, TypeInv
  <2> QED
    BY <1>0, <1>1, <2>1, UnexpectedNow DEF Behind, Exchanged
<1> PICK c \in Nat : c = Len(incoming)
  BY <1>2
<1>4. Taken \in Nat /\ Taken + c = fed
  BY <1>0, <1>1, Position
<1>5. CASE c < 4 /\ Returns
  <2>1. k \in 0..(Len(log) - 1) => fed < Edge(log, k + 1)
    <3> SUFFICES ASSUME k \in 0..(Len(log) - 1) PROVE fed < Edge(log, k + 1)
      OBVIOUS
    <3>1. Taken + 4 <= Edge(log, k + 1)
      BY <1>0, <1>1, NextPacket
    <3>2. Edge(log, k + 1) \in Nat
      <4>1. Agree(log, stream)
        BY DEF ParseInv
      <4>2. k + 1 \in 0..Len(log)
        BY <1>2, OneMore
      <4> QED
        BY <4>1, <4>2, Edges
    <3> QED
      BY <1>4, <1>5, <3>1, <3>2
  <2> QED
    BY <1>0, <1>1, <1>5, <2>1, DriveWaits
<1>6. CASE c >= 4
  <2>0. k \in 0..(Len(log) - 1)
    <3>1. incoming # <<>>
      BY <1>6
    <3> QED
      BY <1>0, <1>1, <3>1, Position
  <2>1. /\ Edge(log, k + 1) = log[k + 1].end
        /\ log[k + 1].what = "packet" =>
              /\ log[k + 1].payload \in Payloads
              /\ log[k + 1].payload = <<KEXINIT>> => ~Has(log, k, KEXINIT)
    BY <1>0, <1>1, <2>0, NextPacket
  <2>2. PICK n \in Nat, body \in Seq(Nat), tag \in Seq(Nat) :
          \E w : Reads(log[k + 1], stream, Taken, Keyed(log, k), NotNow(log, k), n, body, tag, w)
    BY <1>0, <1>1, <2>0, NextPacket
  <2> PICK w : Reads(log[k + 1], stream, Taken, Keyed(log, k), NotNow(log, k), n, body, tag, w)
    BY <2>2
  <2>3. /\ ~Plausible(n) => log[k + 1].what = "bad" /\ log[k + 1].end = Taken + 4
        /\ Plausible(n) =>
              /\ log[k + 1].end = Taken + Len(w)
              /\ Opens(body, tag, Keyed(log, k), NotNow(log, k)) =>
                    log[k + 1].what = "packet" /\ log[k + 1].payload = StripPadding(body)
              /\ ~Opens(body, tag, Keyed(log, k), NotNow(log, k)) => log[k + 1].what = "bad"
    BY DEF Reads
  <2>4. /\ PacketLength = n
        /\ Plausible(n) => TotalLength(n) = Len(w) /\ Len(w) \in Nat
        /\ Plausible(n) /\ c >= Len(w) =>
              /\ SubSeq(SubSeq(incoming, 1, Len(w)), 5, 4 + n) = body
              /\ Authentic(SubSeq(incoming, 1, Len(w))) <=> (ciphered => tag = TagOf(TRUE))
    <3>1. PacketLength = n
      BY <1>0, <1>1, <1>6, <2>0, PacketSeen
    <3>2. Plausible(n) => TotalLength(n) = Len(w) /\ Len(w) \in Nat
      BY <1>0, <1>1, <2>0, PacketSeen
    <3>3. Plausible(n) /\ Len(incoming) >= Len(w) =>
              /\ SubSeq(SubSeq(incoming, 1, Len(w)), 5, 4 + n) = body
              /\ Authentic(SubSeq(incoming, 1, Len(w))) <=> (ciphered => tag = TagOf(TRUE))
      BY <1>0, <1>1, <2>0, PacketSeen
    <3> QED
      BY <3>1, <3>2, <3>3
  <2>5. CASE ~Plausible(n) /\ Fail /\ UNCHANGED incoming
    <3>1. log[k + 1].what = "bad" /\ Edge(log, k + 1) <= fed
      BY <1>4, <1>6, <2>1, <2>3, <2>5
    <3> QED
      BY <1>0, <1>1, <2>0, <2>5, <3>1, DriveFails
  <2>6. CASE Plausible(n) /\ c < Len(w) /\ Returns
    <3>1. fed < Edge(log, k + 1)
      BY <1>4, <2>1, <2>3, <2>4, <2>6
    <3> QED
      BY <1>0, <1>1, <2>6, <3>1, DriveWaits
  <2>7. CASE /\ Plausible(n) /\ c >= Len(w)
             /\ ~Opens(body, tag, Keyed(log, k), NotNow(log, k)) /\ Fail
    <3>1. log[k + 1].what = "bad" /\ Edge(log, k + 1) <= fed
      BY <1>4, <2>1, <2>3, <2>4, <2>7
    <3> QED
      BY <1>0, <1>1, <2>0, <2>7, <3>1, DriveFails
  <2>8. CASE /\ Plausible(n) /\ c >= Len(w)
             /\ incoming' = SubSeq(incoming, Len(w) + 1, c)
             /\ Opens(body, tag, Keyed(log, k), NotNow(log, k))
             /\ Dispatch(StripPadding(body))
    <3> DEFINE payload == StripPadding(body)
    <3>1. /\ Taken' = Taken + Len(w) /\ Taken + Len(w) <= fed /\ Len(incoming') <= fed
          /\ \A j \in 1..Len(incoming') : incoming'[j] = stream[Taken' + j]
      <4>1. Len(w) \in Nat /\ Len(w) <= Len(incoming)
        BY <2>4, <2>8
      <4> QED
        BY <1>0, <1>1, <2>8, <4>1, PacketTaken
    <3>2. /\ log[k + 1].what = "packet" /\ log[k + 1].payload = payload
          /\ Edge(log, k + 1) = Taken' /\ Edge(log, k + 1) <= fed
      BY <2>1, <2>3, <2>8, <3>1
    <3>3. /\ k + 1 \in 0..Len(log) /\ Clean(log, k + 1) /\ HasIdent(log, k + 1)
          /\ \A m : Has(log, k + 1, m) <=> Has(log, k, m) \/ payload = <<m>>
      BY <1>2, <1>3, <2>0, <3>2, OneMore
    <3>5. /\ payload \in Payloads /\ (payload = <<KEXINIT>> => ~Has(log, k, KEXINIT))
          /\ payload[1] \notin NotNow(log, k)
      BY <2>1, <2>8, <3>2 DEF Opens
    <3> HIDE DEF payload
    <3>4. dispatched' = Append(dispatched, payload) /\ Done(dispatched', log, k + 1)
      BY <1>2, <1>3, <2>0, <2>8, <3>2, DoneMore DEF payload, Dispatch
    <3>9. dispatched' \in Seq(Seq(Nat))
      <4>1. payload \in Seq(Nat)
        BY <3>5, StreamAssumption
      <4> QED
        BY <1>2, <3>4, <4>1
    <3>6. CASE payload = <<DISCONNECT>>
      <4>1. phase' = "Closed"
        <5>1. payload[1] = DISCONNECT
          BY <3>6
        <5> QED
          BY <2>8, <5>1 DEF Dispatch, payload, DISCONNECT, KEX_REPLY
      <4> QED
        BY <1>0, <1>1, <2>0, <3>2, <3>4, <3>6, <3>9, <4>1, DriveEnds
    <3>7. CASE payload # <<DISCONNECT>>
      <4>1. k \in Nat
        BY <2>0
      <4>2. Exchanged(k + 1)'
        BY <1>0, <1>3, <2>8, <3>3, <3>5, <3>7, <4>1, ExchangeGoesOn DEF payload
      <4>3. phase' \in {"Packets", "AwaitingHostKeyDecision"} /\ driving'
        BY <1>0, <2>8, <3>5, <3>7, ActedOn DEF Dispatch, payload
      <4>4. ~Has(log, k + 1, DISCONNECT)
        BY <1>3, <3>3, <3>7
      <4>5. Behind(k + 1)'
        BY <3>2, <3>3, <3>4, <4>2, <4>3, <4>4 DEF Behind
      <4> QED
        BY <3>1, <3>3, <3>9, <4>3, <4>5, DriveGoesOn
    <3> QED
      BY <3>6, <3>7
  <2>9. CASE Plausible(n) /\ c < TotalLength(n) /\ Returns
    BY <2>4, <2>6, <2>9
  <2>10. CASE /\ Plausible(n) /\ c >= TotalLength(n)
              /\ LET total == TotalLength(n)
                     packet == SubSeq(incoming, 1, total)
                     part == SubSeq(packet, 5, 4 + n)
                     opens == Authentic(packet) /\ PaddingFits(part) /\ StripPadding(part) # <<>>
                              /\ StripPadding(part)[1] \notin Unexpected
                 IN  /\ incoming' = SubSeq(incoming, total + 1, c)
                     /\ \/ ~opens /\ Fail
                        \/ opens /\ Dispatch(StripPadding(part))
    <3> DEFINE packet == SubSeq(incoming, 1, Len(w))
    <3>1. TotalLength(n) = Len(w) /\ c >= Len(w)
      BY <2>4, <2>10
    <3>2. SubSeq(packet, 5, 4 + n) = body /\ (Authentic(packet) <=> (ciphered => tag = TagOf(TRUE)))
      BY <2>4, <2>10, <3>1
    <3> HIDE DEF packet
    <3>3. Opens(body, tag, Keyed(log, k), NotNow(log, k)) <=>
            /\ Authentic(packet) /\ PaddingFits(body) /\ StripPadding(body) # <<>>
            /\ StripPadding(body)[1] \notin Unexpected
      BY <1>3, <3>2 DEF Opens
    <3>4. /\ incoming' = SubSeq(incoming, Len(w) + 1, c)
          /\ \/ ~Opens(body, tag, Keyed(log, k), NotNow(log, k)) /\ Fail
             \/ Opens(body, tag, Keyed(log, k), NotNow(log, k)) /\ Dispatch(StripPadding(body))
      BY <2>10, <3>1, <3>2, <3>3 DEF packet
    <3> QED
      BY <2>7, <2>8, <2>10, <3>1, <3>4
  <2> QED
    BY <1>5, <1>6, <2>4, <2>5, <2>9, <2>10 DEF DrivePacketPhase
<1>7. CASE ~(c >= 4)
  <2>1. c < 4
    BY <1>7
  <2> QED
    BY <1>5, <1>7, <2>1 DEF DrivePacketPhase
<1> QED
  BY <1>6, <1>7

\* With the answer the session goes on behind the reply, or has ended with it.
LEMMA AnswerParsed ==
    ASSUME StreamInv, ParseInv, HostDecides
    PROVE  ParseInv'
<1>1. PICK answer \in {"accept", "reject"} :
        ProvideHostKeyDecision(answer = "accept") /\ decision' = answer
  BY DEF HostDecides
<1>2. /\ phase = "AwaitingHostKeyDecision" /\ phase # "Closed"
      /\ UNCHANGED <<stream, log, fed, incoming, dispatched>>
  BY <1>1 DEF HostDecides, ProvideHostKeyDecision, Fail
<1>3. PICK k \in 0..Len(log) : Behind(k)
  BY <1>2 DEF ParseInv
<1>4. /\ Exchanged(k) /\ Clean(log, k) /\ ~Has(log, k, DISCONNECT) /\ Done(dispatched, log, k)
      /\ HasIdent(log, k) /\ Taken = Edge(log, k)
  BY <1>2, <1>3 DEF Behind
<1>5. /\ Has(log, k, KEX_REPLY) /\ decision = "none"
      /\ \A j \in 1..(k - 1) : log[j].payload # <<KEX_REPLY>>
  BY <1>2, <1>4 DEF Exchanged
<1>6. Taken' = Taken
  BY <1>2 DEF Taken
<1>7. CASE answer = "accept"
  <2>1. /\ phase' = "Packets" /\ driving' = TRUE /\ pending_sc_cipher' = TRUE
        /\ UNCHANGED <<active_kex, ciphered>> /\ decision' = "accept"
    BY <1>1, <1>7 DEF ProvideHostKeyDecision
  <2>2. Exchanged(k)'
    BY <1>2, <1>4, <1>5, <2>1 DEF Exchanged, Keyed
  <2>3. Behind(k)'
    BY <1>2, <1>3, <1>4, <1>6, <2>1, <2>2 DEF Behind
  <2> QED
    BY <1>2, <1>3, <1>6, <2>1, <2>3 DEF ParseInv
<1>8. CASE answer = "reject"
  <2>1. phase' = "Closed" /\ decision' = "reject"
    BY <1>1, <1>8 DEF ProvideHostKeyDecision, Fail
  <2>2. k \in 1..Len(log) /\ log[k].payload = <<KEX_REPLY>>
    <3>1. PICK j \in 1..k : log[j].payload = <<KEX_REPLY>>
      BY <1>5 DEF Has
    <3>2. j = k
      BY <1>5, <3>1
    <3> QED
      BY <1>3, <3>1, <3>2
  <2>3. Edge(log, k) <= fed
    BY <1>2, <1>3, <1>4, Position
  <2>4. \A j \in 1..(k - 1) : Passed(j)'
    BY <1>2, <1>4, <1>5 DEF Clean, Has, Passed
  <2>5. Ends(k)'
    BY <1>2, <2>1, <2>2 DEF Ends
  <2>6. HaltedAt(k)'
    BY <1>2, <1>4, <2>2, <2>3, <2>4, <2>5 DEF HaltedAt
  <2> QED
    BY <1>2, <2>1, <2>2, <2>6 DEF ParseInv
<1> QED
  BY <1>7, <1>8

-----------------------------------------------------------------------------
\* What it comes to.

\* If the readable entries are the first k, the packets among them are dispatched.
LEMMA ReadableDone ==
    ASSUME NEW k, Readable = 1..k, Done(dispatched, log, k)
    PROVE  /\ Len(dispatched) = Cardinality(Packets)
           /\ \A i \in Packets :
                 dispatched[Cardinality({j \in Packets : j <= i})] = log[i].payload
<1>1. Packets = PacketsTo(log, k)
  BY DEF Packets, PacketsTo
<1> QED
  BY <1>1 DEF Done

\* Entries in order of their ends.
LEMMA Ordered ==
    ASSUME Agree(log, stream)
    PROVE  /\ DOMAIN log = 1..Len(log) /\ Len(log) \in Nat
           /\ \A i \in 1..Len(log) : log[i].end = Edge(log, i) /\ log[i].end \in Nat
           /\ \A i, j \in 1..Len(log) : i <= j => log[i].end <= log[j].end
<1>1. /\ log \in Seq(Entries) /\ Len(log) \in Nat
      /\ \A k \in 0..Len(log) : Edge(log, k) \in Nat
  BY Edges
<1>2. \A i \in 1..Len(log) : log[i].end = Edge(log, i)
  BY DEF Edge
<1>3. \A i \in 1..Len(log) : i \in 0..Len(log)
  BY <1>1
<1>4. \A i \in 1..Len(log) : log[i].end \in Nat
  BY <1>1, <1>2, <1>3
<1>5. ASSUME NEW i \in 1..Len(log), NEW j \in 1..Len(log), i <= j
      PROVE  log[i].end <= log[j].end
  <2>1. CASE i = j
    BY <1>4, <2>1
  <2>2. CASE i < j
    <3>1. Edge(log, i) < Edge(log, j)
      BY <1>3, <2>2 DEF Agree
    <3> QED
      BY <1>2, <1>4, <3>1
  <2> QED
    BY <1>1, <1>5, <2>1, <2>2
<1> QED
  BY <1>1, <1>2, <1>4, <1>5

\* What is behind an open session is known, and nothing of it ends or pauses it but,
\* if it waits, the last.
LEMMA BehindKnown ==
    ASSUME StreamInv, ParseInv, phase # "Closed", NEW k \in 0..Len(log), Behind(k)
    PROVE  /\ 1..k \subseteq Known
           /\ \A i \in 1..k : ~Ends(i)
           /\ \A i \in 1..k : Pauses(i) <=> i = k /\ phase = "AwaitingHostKeyDecision"
<1>1. Agree(log, stream)
  BY DEF ParseInv
<1>2. /\ DOMAIN log = 1..Len(log) /\ Len(log) \in Nat
      /\ \A i \in 1..Len(log) : log[i].end = Edge(log, i) /\ log[i].end \in Nat
      /\ \A i, j \in 1..Len(log) : i <= j => log[i].end <= log[j].end
  BY <1>1, Ordered
<1>3. /\ k \in Nat /\ fed \in Nat /\ Taken \in Nat /\ Edge(log, k) \in Nat
      /\ Edge(log, k) <= Taken /\ Taken + Len(incoming) = fed /\ Len(incoming) \in Nat
  BY Position
<1>4. ASSUME NEW i \in 1..k
      PROVE  i \in Known
  <2>1. i \in 1..Len(log) /\ k \in 1..Len(log) /\ i <= k
    BY <1>2, <1>3
  <2>2. log[i].end <= log[k].end /\ log[k].end = Edge(log, k) /\ log[i].end \in Nat
    BY <1>2, <2>1
  <2>3. log[i].end <= fed
    BY <1>3, <2>2
  <2> QED
    BY <1>2, <2>1, <2>3 DEF Known
<1>5. /\ Clean(log, k) /\ ~Has(log, k, DISCONNECT) /\ Exchanged(k)
  BY DEF Behind
<1>6. \A i \in 1..k : ~Ends(i)
  BY <1>5 DEF Ends, Clean, Has, Exchanged
<1>7. ASSUME NEW i \in 1..k, Pauses(i)
      PROVE  i = k /\ phase = "AwaitingHostKeyDecision"
  <2>1. log[i].payload = <<KEX_REPLY>> /\ decision = "none"
    BY <1>7 DEF Pauses
  <2>2. phase = "AwaitingHostKeyDecision"
    BY <1>5, <2>1 DEF Exchanged, Has
  <2>3. i \notin 1..(k - 1)
    BY <1>5, <2>1, <2>2 DEF Exchanged
  <2> QED
    BY <1>3, <2>2, <2>3
<1>8. ASSUME phase = "AwaitingHostKeyDecision", k \in 1..k
      PROVE  Pauses(k)
  <2>1. /\ Has(log, k, KEX_REPLY) /\ decision = "none"
        /\ \A j \in 1..(k - 1) : log[j].payload # <<KEX_REPLY>>
    BY <1>5, <1>8 DEF Exchanged
  <2>2. PICK j \in 1..k : log[j].payload = <<KEX_REPLY>>
    BY <2>1 DEF Has
  <2>3. j = k
    BY <1>3, <2>1, <2>2
  <2> QED
    BY <2>1, <2>2, <2>3 DEF Pauses
<1> QED
  BY <1>4, <1>6, <1>7, <1>8

\* A session that is open when drive returns has read all that is complete, up to
\* where it waits for the host,
LEMMA OpenSplits ==
    ASSUME StreamInv, ParseInv, ~driving, phase # "Closed"
    PROVE  SplitsDoNotMatter
<1>1. PICK k \in 0..Len(log) : Behind(k)
  BY DEF ParseInv
<1>2. Agree(log, stream)
  BY DEF ParseInv
<1>3. /\ DOMAIN log = 1..Len(log) /\ Len(log) \in Nat
      /\ \A i \in 1..Len(log) : log[i].end = Edge(log, i) /\ log[i].end \in Nat
      /\ \A i, j \in 1..Len(log) : i <= j => log[i].end <= log[j].end
  BY <1>2, Ordered
<1>4. k \in Nat /\ fed \in Nat
  BY <1>1, Position
<1>5. /\ 1..k \subseteq Known
      /\ \A i \in 1..k : ~Ends(i)
      /\ \A i \in 1..k : Pauses(i) <=> i = k /\ phase = "AwaitingHostKeyDecision"
  BY <1>1, BehindKnown
<1>6. Known \subseteq 1..Len(log)
  BY <1>3 DEF Known
<1>7. phase = "AwaitingHostKeyDecision" => k \in 1..k
  <2>1. phase = "AwaitingHostKeyDecision" => Has(log, k, KEX_REPLY)
    BY <1>1 DEF Behind, Exchanged
  <2>2. Has(log, k, KEX_REPLY) => k \in 1..k
    BY <1>4 DEF Has
  <2> QED
    BY <2>1, <2>2
<1>8. ASSUME NEW i \in Readable
      PROVE  i \in 1..k
  <2>1. i \in Known /\ i \in 1..Len(log) /\ \A j \in 1..(i - 1) : ~Pauses(j)
    BY <1>6, <1>8 DEF Readable
  <2> SUFFICES ASSUME ~(i <= k) PROVE FALSE
    BY <2>1
  <2>2. k + 1 \in 1..Len(log) /\ k + 1 <= i /\ k < Len(log)
    BY <1>3, <1>4, <2>1
  <2>3. CASE phase = "AwaitingHostKeyDecision"
    <3>1. k \in 1..(i - 1)
      BY <1>3, <1>4, <1>7, <2>1, <2>2, <2>3
    <3> QED
      BY <1>5, <1>7, <2>1, <2>3, <3>1
  <2>4. CASE phase # "AwaitingHostKeyDecision"
    <3>1. fed < Edge(log, k + 1)
      BY <1>1, <2>2, <2>4 DEF Behind
    <3>2. /\ log[k + 1].end = Edge(log, k + 1) /\ log[k + 1].end <= log[i].end
          /\ log[k + 1].end \in Nat /\ log[i].end \in Nat /\ log[i].end <= fed
      BY <1>3, <2>1, <2>2 DEF Known
    <3> QED
      BY <1>4, <3>1, <3>2
  <2> QED
    BY <2>3, <2>4
<1>9. ASSUME NEW i \in 1..k
      PROVE  i \in Readable
  <2>1. \A j \in 1..(i - 1) : j \in 1..k /\ j # k
    BY <1>4
  <2> QED
    BY <1>5, <2>1 DEF Readable
<1>10. Readable = 1..k
  BY <1>8, <1>9
<1>11. Done(dispatched, log, k)
  BY <1>1 DEF Behind
<1>12. phase = IF \E i \in Readable : Ends(i) THEN "Closed"
               ELSE IF \E i \in Readable : Pauses(i) THEN "AwaitingHostKeyDecision"
               ELSE IF \E i \in Readable : log[i].what = "ident" THEN "Packets"
               ELSE "VersionExchange"
  <2>1. (\E i \in Readable : log[i].what = "ident") <=> HasIdent(log, k)
    BY <1>10 DEF HasIdent
  <2>2. ~\E i \in Readable : Ends(i)
    BY <1>5, <1>10
  <2>3. (\E i \in Readable : Pauses(i)) <=> phase = "AwaitingHostKeyDecision"
    BY <1>5, <1>7, <1>10
  <2>4. phase \in Phases
    BY DEF StreamInv, TypeInv
  <2>5. HasIdent(log, k) <=> phase # "VersionExchange"
    BY <1>1 DEF Behind, Scanning
  <2> QED
    BY <2>1, <2>2, <2>3, <2>4, <2>5 DEF Phases
<1> QED
  BY <1>10, <1>11, <1>12, ReadableDone DEF SplitsDoNotMatter

\* and one that has ended, all up to what has ended it.
LEMMA ClosedSplits ==
    ASSUME StreamInv, ParseInv, phase = "Closed"
    PROVE  SplitsDoNotMatter
<1>1. PICK k \in 1..Len(log) : HaltedAt(k)
  BY DEF ParseInv
<1>2. Agree(log, stream)
  BY DEF ParseInv
<1>3. /\ DOMAIN log = 1..Len(log) /\ Len(log) \in Nat
      /\ \A i \in 1..Len(log) : log[i].end = Edge(log, i) /\ log[i].end \in Nat
      /\ \A i, j \in 1..Len(log) : i <= j => log[i].end <= log[j].end
  BY <1>2, Ordered
<1>4. k \in Nat /\ fed \in Nat /\ log[k].end <= fed /\ Ends(k)
  BY <1>1, <1>3 DEF HaltedAt, StreamInv, TypeInv
<1>5. \A j \in 1..(k - 1) : ~Ends(j) /\ ~Pauses(j)
  BY <1>1 DEF HaltedAt, Passed, Ends, Pauses
<1>6. ASSUME NEW i \in 1..k
      PROVE  i \in Readable
  <2>1. i \in 1..Len(log) /\ i <= k
    BY <1>1, <1>3
  <2>2. log[i].end <= log[k].end /\ log[i].end \in Nat /\ log[k].end \in Nat
    BY <1>1, <1>3, <2>1
  <2>3. i \in Known
    BY <1>3, <1>4, <2>1, <2>2 DEF Known
  <2>4. \A j \in 1..(i - 1) : j \in 1..(k - 1)
    BY <1>4, <2>1
  <2> QED
    BY <1>5, <2>3, <2>4 DEF Readable
<1>7. ASSUME NEW i \in Readable
      PROVE  i \in 1..k
  <2>1. i \in 1..Len(log) /\ \A j \in 1..(i - 1) : ~Ends(j)
    BY <1>3, <1>7 DEF Readable, Known
  <2>2. k \notin 1..(i - 1)
    BY <1>4, <2>1
  <2> QED
    BY <1>1, <1>3, <2>1, <2>2
<1>8. Readable = 1..k
  BY <1>6, <1>7
<1>9. Done(dispatched, log, k)
  BY <1>1 DEF HaltedAt
<1>10. \E i \in Readable : Ends(i)
  BY <1>4, <1>6
<1> QED
  BY <1>8, <1>9, <1>10, ReadableDone DEF SplitsDoNotMatter

-----------------------------------------------------------------------------
\* The specification.

\* The invariant holds at first, and every step keeps it.
LEMMA StreamInitHolds == Init => StreamInv
<1> SUFFICES ASSUME Init PROVE StreamInv
  OBVIOUS
<1>1. TypeInv
  <2>1. stream = <<>> /\ incoming = <<>> /\ scan_buf = <<>> /\ <<>> \in Seq(Nat)
    BY DEF Init, ReceiverInit
  <2>2. /\ fed = 0 /\ total_scanned = 0 /\ phase = "VersionExchange" /\ decision = "none"
        /\ driving = FALSE /\ active_kex = FALSE /\ pending_sc_cipher = FALSE
        /\ ciphered = FALSE
    BY DEF Init, ReceiverInit
  <2> QED
    BY <2>1, <2>2 DEF TypeInv, Phases
<1>2. /\ incoming = <<>> /\ scan_buf = <<>> /\ ciphered = FALSE
      /\ MAX_SCAN_BYTES \in Nat /\ MAX_PACKET_LENGTH \in Nat
  BY FramingAssumption DEF Init, ReceiverInit
<1>3. Len(incoming) = 0 /\ Len(scan_buf) = 0
  BY <1>2
<1>4. ScanInv /\ BufferBounded
  BY <1>1, <1>2, <1>3 DEF Init, ReceiverInit, ScanInv, BufferBounded, TotalLength
<1> QED
  BY <1>1, <1>4 DEF StreamInv

\* The steps of server and session.
LEMMA StreamStepHolds == StreamInv /\ [Next]_vars => StreamInv'
<1> SUFFICES ASSUME StreamInv, [Next]_vars PROVE StreamInv'
  OBVIOUS
<1>1. CASE ServerBanner \/ ServerIdent \/ ServerPacket \/ ServerMalformed
  BY <1>1, ServerKeeps
<1>2. CASE Delivers
  BY <1>2, DeliversKeeps
<1>3. CASE SessionDrives
  BY <1>3, ScanKeeps, PacketKeeps, StopKeeps DEF SessionDrives, Drive
<1>4. CASE HostDecides
  BY <1>4, AnswerKeeps
<1>5. CASE UNCHANGED vars
  BY <1>5 DEF vars, receiverVars, scanVars, kexVars, StreamInv, TypeInv, ScanInv, BufferBounded,
              TotalLength
<1> QED
  BY <1>1, <1>2, <1>3, <1>4, <1>5 DEF Next

\* At first nothing has been written.
LEMMA ParseInitHolds == Init => ParseInv
<1> SUFFICES ASSUME Init PROVE ParseInv
  OBVIOUS
<1>1. /\ log = <<>> /\ stream = <<>> /\ fed = 0 /\ incoming = <<>> /\ scan_buf = <<>>
      /\ phase = "VersionExchange" /\ total_scanned = 0 /\ ciphered = FALSE
      /\ active_kex = FALSE /\ pending_sc_cipher = FALSE /\ decision = "none"
      /\ dispatched = <<>>
  BY DEF Init, ReceiverInit
<1>2. /\ Len(log) = 0 /\ Len(stream) = 0 /\ Len(incoming) = 0 /\ Len(scan_buf) = 0
      /\ Len(dispatched) = 0
      /\ log \in Seq(Entries) /\ stream \in Seq(Nat) /\ dispatched \in Seq(Seq(Nat))
  <2>1. \A S : <<>> \in Seq(S) /\ Len(<<>>) = 0
    OBVIOUS
  <2> QED
    BY <1>1, <2>1
<1>3. Edge(log, 0) = 0
  BY DEF Edge
<1>4. Agree(log, stream)
  <2>1. \A i \in 0..Len(log) : i = 0
    BY <1>2
  <2>2. \A i, j \in 0..Len(log) : ~(i < j)
    BY <2>1
  <2>3. 1..Len(log) = {}
    BY <1>2
  <2>4. \A i \in 0..Len(log) : Edge(log, i) <= Len(stream)
    BY <1>2, <1>3, <2>1
  <2> QED
    BY <1>2, <1>3, <2>2, <2>3, <2>4 DEF Agree
<1>5. /\ Clean(log, 0) /\ ~HasIdent(log, 0) /\ PacketsTo(log, 0) = {}
      /\ \A m : ~Has(log, 0, m)
  BY DEF Clean, HasIdent, Has, PacketsTo
<1>6. Done(dispatched, log, 0)
  <2>1. Cardinality({}) = 0
    BY FS_EmptySet
  <2> QED
    BY <1>2, <1>5, <2>1 DEF Done
<1>7. Taken = 0
  <2>1. fed = 0 /\ Len(incoming) = 0
    BY <1>1, <1>2
  <2> QED
    BY <2>1 DEF Taken
<1>8. Scanning(0)
  BY <1>1, <1>2, <1>3, <1>5, <1>7 DEF Scanning
<1>9. Behind(0) /\ 0 \in 0..Len(log)
  BY <1>1, <1>2, <1>5, <1>6, <1>8 DEF Behind, Exchanged, Keyed
<1>10. /\ Len(incoming) <= fed /\ fed <= Len(stream) /\ phase # "Closed"
       /\ \A j \in 1..Len(incoming) : incoming[j] = stream[Taken + j]
  BY <1>1, <1>2
<1> QED
  BY <1>2, <1>4, <1>9, <1>10 DEF ParseInv

\* And every step of server and session keeps log, stream and session together.
LEMMA ParseStepHolds == StreamInv /\ ParseInv /\ [Next]_vars => ParseInv'
<1> SUFFICES ASSUME StreamInv, ParseInv, [Next]_vars PROVE ParseInv'
  OBVIOUS
<1>1. CASE ServerBanner \/ ServerIdent
  BY <1>1, LinesKeep
<1>2. CASE ServerPacket
  BY <1>2, PacketKept
<1>3. CASE ServerMalformed
  BY <1>3, MalformedKept
<1>4. CASE Delivers
  BY <1>4, DeliversParsed
<1>5. CASE SessionDrives
  <2>1. phase \in Phases
    BY DEF StreamInv, TypeInv
  <2>2. CASE Stopped /\ Returns
    BY <1>5, <2>2, DriveStops DEF SessionDrives
  <2>3. CASE phase = "VersionExchange" /\ DriveVersionExchange
    BY <1>5, <2>3, ScanParsed DEF SessionDrives, Drive
  <2>4. CASE phase = "Packets" /\ DrivePacketPhase
    BY <1>5, <2>4, PacketParsed DEF SessionDrives, Drive
  <2> QED
    BY <1>5, <2>1, <2>2, <2>3, <2>4 DEF SessionDrives, Drive, Stopped, Phases
<1>6. CASE HostDecides
  BY <1>6, AnswerParsed
<1>7. CASE UNCHANGED vars
  <2>1. /\ UNCHANGED <<stream, log, fed, decision, incoming, phase, driving, scan_buf>>
        /\ UNCHANGED <<total_scanned, active_kex, pending_sc_cipher, ciphered, dispatched>>
    BY <1>7 DEF vars, receiverVars, scanVars, kexVars
  <2>2. Taken' = Taken
    BY <2>1 DEF Taken
  <2>3. \A k : (Scanning(k)' <=> Scanning(k)) /\ (Exchanged(k)' <=> Exchanged(k))
    BY <2>1, <2>2 DEF Scanning, Exchanged
  <2>4. \A k : (Behind(k)' <=> Behind(k)) /\ (HaltedAt(k)' <=> HaltedAt(k))
    BY <2>1, <2>2, <2>3 DEF Behind, HaltedAt, Passed, Ends
  <2> QED
    BY <2>1, <2>2, <2>4 DEF ParseInv
<1> QED
  BY <1>1, <1>2, <1>3, <1>4, <1>5, <1>6, <1>7 DEF Next

\* Whatever a server announces and however its stream is cut, an open session that
\* does not wait for the host and whose drive has returned holds less than one packet
\* of the greatest length, and of the identification exchange no more than the limit,
\* also when it has just read what was buffered in the pause
\* (ident.rs:28-31, packet.rs:21-24, session.rs:144-229).
THEOREM Buffered == Spec => []BufferBounded
<1>1. StreamInv => BufferBounded
  BY DEF StreamInv
<1> QED
  BY <1>1, StreamInitHolds, StreamStepHolds, PTL DEF Spec

\* What is sealed is padded to the block size by 4 to 255 bytes, for payloads of
\* every length and both block sizes (packet.rs:238-272).
THEOREM Padded == Spec => []PaddingConforms
BY PaddingHolds, PTL

\* However the stream is cut and whenever the host answers, what has been dispatched
\* whenever drive returns are the packets that are complete, in their order, up to the
\* one that ends the session or at which it waits for the host, and the phase is the
\* one this says: closed exactly if something malformed, a DISCONNECT or a reply that
\* the host rejected has been read
\* (ident.rs:54-90, session.rs:144-229, 405-442, packet.rs:159-236).
THEOREM SplitsNeverMatter == Spec => []SplitsDoNotMatter
<1>1. Init => StreamInv /\ ParseInv
  BY StreamInitHolds, ParseInitHolds
<1>2. StreamInv /\ ParseInv /\ [Next]_vars => StreamInv' /\ ParseInv'
  BY StreamStepHolds, ParseStepHolds
<1>3. StreamInv /\ ParseInv => SplitsDoNotMatter
  <2> SUFFICES ASSUME StreamInv, ParseInv, ~driving PROVE SplitsDoNotMatter
    BY DEF SplitsDoNotMatter
  <2>1. CASE phase = "Closed"
    BY <2>1, ClosedSplits
  <2>2. CASE phase # "Closed"
    BY <2>2, OpenSplits
  <2> QED
    BY <2>1, <2>2
<1> QED
  BY <1>1, <1>2, <1>3, PTL DEF Spec
=============================================================================
