----------------------------- MODULE ByteStream -----------------------------
(***************************************************************************)
(* Framing behind a transport that cuts what a server writes into          *)
(* portions as it likes.  The server writes lines, its identification and  *)
(* packets, and now and then something that is none of these; `log` has,   *)
(* for each, the number of bytes with which the receiver can know it.      *)
(***************************************************************************)
EXTENDS Framing, FiniteSets

CONSTANTS
    Banners,        \* lines that are not an identification, without their end
    Idents,         \* identification lines
    Payloads,       \* packets it sends
    Malformed,      \* any of {"zero", "tooLong", "padding", "empty", "tag"}
    MaxOthers       \* bound: packets besides the key exchange, and what is none

\* The messages the receiver acts on.
Kex == {KEXINIT, KEX_REPLY, NEWKEYS}

\* Lines come without their end, of which a CR before the LF is part; the messages the
\* receiver acts on are well formed, for which their number stands; payloads are not
\* empty and fit a packet, and so does the body of a malformed one.
ASSUME StreamAssumption ==
    /\ Banners \cup Idents \cup Payloads \subseteq Seq(Nat)
    /\ \A line \in Banners \cup Idents : \A i \in DOMAIN line :
          line[i] # LF /\ (line[i] = CR => i # Len(line))
    /\ \A line \in Banners : ~IsPrefix(SSH, line)
    /\ \A line \in Idents : IsPrefix(SSH, line)
    /\ \A payload \in Payloads :
          /\ payload # <<>>
          /\ payload[1] \in Kex \cup {DISCONNECT} => payload = <<payload[1]>>
          /\ Len(PadPayload(payload, 8, 4)) <= MAX_PACKET_LENGTH
          /\ Len(PadPayload(payload, BLOCK_SIZE, 0)) <= MAX_PACKET_LENGTH
    /\ Malformed \subseteq {"zero", "tooLong", "padding", "empty", "tag"}
    /\ Malformed # {} => MAX_PACKET_LENGTH >= 4
    /\ MaxOthers \in Nat

VARIABLES
    stream,         \* all bytes written
    log,            \* what they stand for
    fed,            \* how many of them have reached the session
    decision        \* the host's: "none" yet, "accept" or "reject"

vars == <<receiverVars, stream, log, fed, decision>>

Init ==
    /\ ReceiverInit
    /\ stream = <<>> /\ log = <<>> /\ fed = 0
    /\ decision = "none"

Count(what) == Cardinality({i \in DOMAIN log : log[i].what \in what})

Writes(bytes, what, end, payload) ==
    /\ stream' = stream \o bytes
    /\ log' = Append(log, [what |-> what, end |-> end, payload |-> payload])
    /\ UNCHANGED <<receiverVars, fed, decision>>

\* Lines end in CR LF or in LF alone; what is beyond the limit cannot be known.
WritesLine(line, what) ==
    \E eol \in {<<CR, LF>>, <<LF>>} :
        LET end == Len(stream) + Len(line \o eol)
        IN  IF end <= MAX_SCAN_BYTES THEN Writes(line \o eol, what, end, <<>>)
            ELSE Writes(line \o eol, "bad", MAX_SCAN_BYTES + 1, <<>>)

ServerBanner ==
    /\ log = <<>>
    /\ \E line \in Banners : WritesLine(line, "banner")

ServerIdent ==
    /\ Count({"ident", "bad"}) = 0
    /\ \E line \in Idents : WritesLine(line, IF ValidVersion(line) THEN "ident" ELSE "bad")

Wrote(m) == \E i \in DOMAIN log : log[i].payload = <<m>>

\* The server's packets are sealed once its NEWKEYS has been written.
Sealed == Wrote(NEWKEYS)

\* What has no place now: a reply to no KEXINIT, keys of no exchange, either again.
OutOfTurn ==
    {m \in {KEX_REPLY, NEWKEYS} :
        /\ m = KEX_REPLY => Wrote(KEX_REPLY) \/ ~Wrote(KEXINIT)
        /\ m = NEWKEYS => Wrote(NEWKEYS) \/ ~Wrote(KEX_REPLY)}

Others == {i \in DOMAIN log :
              \/ log[i].what = "bad"
              \/ log[i].what = "packet" /\ log[i].payload[1] \notin Kex}

MayWriteOther == Count({"ident"}) = 1 /\ Cardinality(Others) < MaxOthers

\* There is one key exchange; a second one is the subject of Handshake.
ServerPacket ==
    /\ Count({"ident"}) = 1
    /\ \E payload \in Payloads :
          LET wire == IF Sealed THEN Seal(payload) ELSE SealPlaintext(payload)
              what == IF payload[1] \in OutOfTurn THEN "bad" ELSE "packet"
          IN  /\ payload = <<KEXINIT>> => ~Wrote(KEXINIT)
              /\ what = "bad" \/ payload[1] \notin Kex => MayWriteOther
              /\ Writes(wire, what, Len(stream) + Len(wire), payload)

BadPacket(how) ==
    LET tag == IF Sealed THEN TagOf(how # "tag") ELSE <<>>
    IN  CASE how = "zero" -> ToBytes(0)
          [] how = "tooLong" -> ToBytes(MAX_PACKET_LENGTH + 1) \o [i \in 1..MAX_PACKET_LENGTH |-> 0]
          [] how = "padding" -> ToBytes(4) \o <<4, 1, 1, 1>> \o tag
          [] how = "empty" -> ToBytes(4) \o <<3, 1, 1, 1>> \o tag
          [] how = "tag" -> ToBytes(4) \o <<1, 1, 1, 1>> \o tag

\* A length field is known to be bad with its last byte, a packet with its own.
EndOf(how) == IF how = "tooLong" THEN 4 ELSE Len(BadPacket(how))

ServerMalformed ==
    /\ MayWriteOther
    /\ \E how \in Malformed :
          /\ how = "tag" => Sealed
          /\ Writes(BadPacket(how), "bad", Len(stream) + EndOf(how), <<>>)

\* The session gets some of what has been written.
Delivers ==
    /\ \E n \in 1..(Len(stream) - fed) :
          /\ FeedIncoming(SubSeq(stream, fed + 1, fed + n))
          /\ fed' = fed + n
    /\ UNCHANGED <<stream, log, decision>>

SessionDrives == Drive /\ UNCHANGED <<stream, log, fed, decision>>

\* The host answers once, at any time behind the question.
HostDecides ==
    /\ \E answer \in {"accept", "reject"} :
          ProvideHostKeyDecision(answer = "accept") /\ decision' = answer
    /\ UNCHANGED <<stream, log, fed>>

Next ==
    \/ ServerBanner \/ ServerIdent \/ ServerPacket \/ ServerMalformed
    \/ Delivers \/ SessionDrives \/ HostDecides

Spec == Init /\ [][Next]_vars

-----------------------------------------------------------------------------
(***************************************************************************)
(* Properties                                                              *)
(***************************************************************************)

\* The entries the session can know of.
Known == {i \in DOMAIN log : log[i].end <= fed}

\* Behind an entry that ends the session, or at which it asks the host, it reads
\* nothing more.
Ends(i) ==
    \/ log[i].what = "bad"
    \/ log[i].payload = <<DISCONNECT>>
    \/ log[i].payload = <<KEX_REPLY>> /\ decision = "reject"

Pauses(i) == log[i].payload = <<KEX_REPLY>> /\ decision = "none"

Readable == {i \in Known : \A j \in 1..(i - 1) : ~Ends(j) /\ ~Pauses(j)}

Packets == {i \in Readable : log[i].what = "packet"}

\* However the bytes are cut, and wherever in them the host answers, whenever drive
\* returns the session has dispatched exactly the packets that are complete, in their
\* order, up to the one that ends it, or at which it waits for the host: nothing is
\* read in the pause, everything that came meanwhile is read behind the answer without
\* new input, and a session fails exactly if something malformed has come, with the byte
\* that makes it so.  No byte is lost between identification, packets and the switch of
\* ciphers, none is counted twice (ident.rs:54-90, session.rs:144-229, 405-442,
\* packet.rs:159-236).
SplitsDoNotMatter ==
    ~driving =>
        /\ Len(dispatched) = Cardinality(Packets)
        /\ \A i \in Packets :
              dispatched[Cardinality({j \in Packets : j <= i})] = log[i].payload
        /\ phase = IF \E i \in Readable : Ends(i) THEN "Closed"
                   ELSE IF \E i \in Readable : Pauses(i) THEN "AwaitingHostKeyDecision"
                   ELSE IF \E i \in Readable : log[i].what = "ident" THEN "Packets"
                   ELSE "VersionExchange"

\* Whatever the payload, what is sealed now is padded as RFC 4253 6 has it: with
\* its length field if there is no cipher yet, and without under the AEAD ciphers,
\* to the block size; by 4 bytes at least, and by no more than its length byte can
\* say (packet.rs:238-272).
PaddingConforms ==
    LET block == IF ciphered THEN BLOCK_SIZE ELSE 8
        prefix == IF ciphered THEN 0 ELSE 4
    IN  \A n \in 1..MAX_PACKET_LENGTH :
            LET len == PaddingLen([i \in 1..n |-> 0], block, prefix)
            IN  /\ (prefix + 1 + n + len) % block = 0
                /\ len \in MIN_PADDING..255

\* An open session that does not wait for the host buffers less than one packet of the
\* greatest length when drive has returned, whatever has come in the pause before, and
\* of the identification exchange never more than the limit, whatever the server
\* announces (ident.rs:28-31, packet.rs:21-24).
BufferBounded ==
    ~driving /\ phase \notin {"Closed", "AwaitingHostKeyDecision"} =>
        /\ Len(incoming) < TotalLength(MAX_PACKET_LENGTH)
        /\ Len(scan_buf) <= MAX_SCAN_BYTES

\* What the limits are said to be for: no "unbounded data before transport encryption
\* is even established" (ident.rs:28-30), no "oversized allocation before any
\* authentication has happened" (packet.rs:21-23).  In the pause nothing looks at a length
\* (session.rs:144-147, 159).
LimitedUntilKeyed ==
    ~driving /\ phase # "Closed" /\ ~ciphered =>
        Len(incoming) < TotalLength(MAX_PACKET_LENGTH)
=============================================================================
