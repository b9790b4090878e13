--------------------------- MODULE LockstepProofs ---------------------------
(***************************************************************************)
(* Lockstep of the packet ciphers, the absence of fatal errors, and the    *)
(* refinement of SessionPromise.                                           *)
(*                                                                         *)
(* A packet's place in its stream decides how it is sealed: what precedes  *)
(* NEWKEYS is plaintext, and every later packet counts one on from the one *)
(* before.  So "the two ends agree" need not be followed through the       *)
(* steps: both hold the cipher of the place they have come to.             *)
(***************************************************************************)
EXTENDS HandshakeProofs

\* The cipher of the packet at place i of a stream, for an algorithm.
CipherAt(alg, i) ==
    IF i <= 4 THEN NoCipher
    ELSE [alg |-> alg, kex |-> 1, ctr |-> (IF alg = "chacha20" THEN 3 ELSE 0) + (i - 5)]

OutAlg == Agreed(srvOffer.cs)

InAlg == Agreed(srvOffer.sc)

\* What the client writes at place i.
ClientScript == <<"IDENT", "KEXINIT", "KEX_INIT", "NEWKEYS", "SERVICE_REQUEST">>

LaterClient == {"KEX_INIT", "USERAUTH_REQUEST", "REQUEST_FAILURE", "CHANNEL_OPEN"}

ClientFits(alg, i, p) ==
    /\ Opens(CipherAt(alg, i), p)
    /\ i <= 5 => p.msg.type = ClientScript[i]
    /\ i > 5 => p.msg.type \in LaterClient
    /\ i = 3 => p.msg.kex = 1

ClientWrites ==
    /\ \A i \in 1..Len(outgoing) : ClientFits(OutAlg, i, outgoing[i])
    /\ Len(outgoing) \notin {0, 4}
    /\ cs_cipher = CipherAt(OutAlg, Len(outgoing) + 1)

\* How far the client has come, by what it has written.
ClientStage ==
    /\ phase = "VersionExchange" => Len(outgoing) = 1
    /\ phase = "KexInProgress" => Len(outgoing) \in {2, 3}
    /\ phase = "AwaitingHostKeyDecision" =>
          Len(outgoing) = 3 /\ pending_ciphers = CipherAt(OutAlg, 5)
    /\ phase \in {"ServiceRequest", "UserAuth", "Connected"} => Len(outgoing) >= 5
    /\ Len(outgoing) <= 2 => kexes = 0 /\ active_kex = 0
    /\ Len(outgoing) = 3 =>
          kexes = 1 /\ active_kex \in {0, 1} /\ negotiated.cs = OutAlg

\* The server, by what it has read.
ServerReadsInStep ==
    /\ received <= Len(outgoing)
    /\ srvPhase # "Gone" => srvIn = CipherAt(OutAlg, received + 1)
    /\ srvPhase = "AwaitingIdent" => received = 0
    /\ srvPhase = "AwaitingKexInit" => received = 1
    /\ srvPhase = "AwaitingKexEcdhInit" => received = 2
    /\ srvPhase = "AwaitingNewKeys" => received \in {3, 4} /\ srvKex = 1
    /\ srvPhase \in {"AwaitingUserAuth", "Connected"} => received >= 5
    /\ srvPhase \in {"AwaitingIdent", "AwaitingKexInit", "AwaitingKexEcdhInit"} => srvKex = 0
    /\ srvKex \in {0, 1}

\* The places behind the first n of a stream with a message of a type in T.
Placed(q, n, T) == {i \in (n + 1)..Len(q) : q[i].msg.type \in T}

KexInits == Placed(incoming, 0, {"KEXINIT"})

KexReplies == Placed(incoming, 0, {"KEX_REPLY"})

\* One KEXINIT before the client has its keys, and one KEX_REPLY ever.
ServerExchanges ==
    /\ srvOffer = NoOffer => Len(outgoing) <= 2 /\ srvKex = 0 /\ KexInits = {}
    /\ \A i \in KexInits : incoming[i].msg.offer = srvOffer
    /\ Len(outgoing) <= 3 => \A i, j \in KexInits : i = j
    /\ Len(outgoing) = 3 => \A i \in KexInits : i <= consumed
    /\ srvKex = 0 => KexReplies = {}
    /\ \A i, j \in KexReplies : i = j
    /\ phase = "AwaitingHostKeyDecision" \/ Len(outgoing) >= 5 =>
          srvKex = 1 /\ \A i \in KexReplies : i <= consumed

OutInv ==
    /\ ClientWrites /\ ClientStage
    /\ ServerReadsInStep /\ ServerExchanges

-----------------------------------------------------------------------------
\* Ciphers by place.

LEMMA Places ==
    ASSUME NEW alg \in Algs, NEW i \in Nat \ {0}
    PROVE  /\ CipherAt(alg, i) \in MaybeCipher
           /\ CipherAt(alg, i) = NoCipher <=> i <= 4
           /\ i # 4 => Advance(CipherAt(alg, i)) = CipherAt(alg, i + 1)
           /\ WithInitialSeq(alg, 1, 3) = CipherAt(alg, 5)
BY DEF CipherAt, MaybeCipher, Ciphers, NoCipher, Advance, WithInitialSeq, Algs

\* The plaintext places do not depend on the algorithm.
LEMMA PlainPlaces ==
    ASSUME NEW a, NEW b, NEW i \in 1..4
    PROVE  /\ CipherAt(a, i) = NoCipher
           /\ \A p : ClientFits(a, i, p) => ClientFits(b, i, p)
BY DEF CipherAt, ClientFits

LEMMA AlgsAgreed == OutAlg \in Algs /\ InAlg \in Algs
BY NegotiateType DEF OutAlg, InAlg

\* Sealed with a cipher, a packet opens with that cipher alone.
LEMMA Sealed ==
    ASSUME NEW c, NEW m
    PROVE  Opens(c, Seal(c, m)) /\ Seal(c, m).msg = m
BY DEF Opens, Seal

\* The next message of the script, sealed, fits its place.
LEMMA FitsNext ==
    ASSUME NEW alg \in Algs, NEW n \in Nat \ {0}, NEW m,
           n < 5 => m.type = ClientScript[n + 1],
           n = 2 => m.kex = 1,
           n >= 5 => m.type \in LaterClient
    PROVE  ClientFits(alg, n + 1, Seal(CipherAt(alg, n + 1), m))
<1>1. n + 1 <= 5 => n < 5
  OBVIOUS
<1> QED
  BY <1>1, Sealed DEF ClientFits

-----------------------------------------------------------------------------
\* What the client writes.

\* The offer, once made, is not changed; before that nothing is ciphered.
LEMMA WritesNothing ==
    ASSUME TypeInv, ClientWrites, UNCHANGED <<outgoing, cs_cipher>>,
           srvOffer' = srvOffer \/ Len(outgoing) <= 3
    PROVE  ClientWrites'
<1>1. CASE srvOffer' = srvOffer
  BY <1>1 DEF ClientWrites, OutAlg
<1>2. CASE Len(outgoing) <= 3
  <2>1. Len(outgoing) \in Nat /\ Len(outgoing) + 1 \in 1..4
    BY <1>2 DEF TypeInv, TypeOK
  <2>2. \A i \in 1..Len(outgoing) : ClientFits(OutAlg, i, outgoing[i]) => ClientFits(OutAlg', i, outgoing[i])
    BY <1>2, <2>1, PlainPlaces
  <2>3. CipherAt(OutAlg, Len(outgoing) + 1) = CipherAt(OutAlg', Len(outgoing) + 1)
    BY <2>1, PlainPlaces
  <2> QED
    BY <2>2, <2>3 DEF ClientWrites
<1> QED
  BY <1>1, <1>2

\* One packet more, at its place.
LEMMA WritesOne ==
    ASSUME NEW S, NEW q \in Seq(S), NEW p \in S, NEW alg,
           \A i \in 1..Len(q) : ClientFits(alg, i, q[i]),
           ClientFits(alg, Len(q) + 1, p)
    PROVE  /\ \A i \in 1..Len(Append(q, p)) : ClientFits(alg, i, Append(q, p)[i])
           /\ Len(Append(q, p)) = Len(q) + 1
<1>1. /\ Len(Append(q, p)) = Len(q) + 1
      /\ \A i \in 1..Len(q) : Append(q, p)[i] = q[i]
      /\ Append(q, p)[Len(q) + 1] = p
  OBVIOUS
<1> QED
  BY <1>1

\* send_plaintext and send_ciphered: the next message of the script.
LEMMA WritesNext ==
    ASSUME TypeInv, ClientWrites, NEW m \in ClientMessages,
           outgoing' = Append(outgoing, Seal(cs_cipher, m)),
           cs_cipher' = Advance(cs_cipher),
           UNCHANGED srvOffer,
           Len(outgoing) # 3,
           Len(outgoing) < 5 => m.type = ClientScript[Len(outgoing) + 1],
           Len(outgoing) = 2 => m.kex = 1,
           Len(outgoing) >= 5 => m.type \in LaterClient
    PROVE  ClientWrites' /\ Len(outgoing') = Len(outgoing) + 1
<1>1. PICK n : n = Len(outgoing)
  OBVIOUS
<1>2. n \in Nat \ {0, 3, 4} /\ outgoing \in Seq(Packets(ClientMessages))
  BY <1>1 DEF ClientWrites, TypeInv, TypeOK
<1>3. PICK p : p = Seal(cs_cipher, m)
  OBVIOUS
<1>4. p \in Packets(ClientMessages)
  BY <1>3, SealType DEF TypeInv, TypeOK
<1>5. cs_cipher = CipherAt(OutAlg, n + 1)
  BY <1>1 DEF ClientWrites
<1>6. ClientFits(OutAlg, n + 1, p)
  BY <1>1, <1>2, <1>3, <1>5, AlgsAgreed, FitsNext
<1>7. cs_cipher' = CipherAt(OutAlg, n + 2)
  <2>1. n + 1 \in Nat \ {0} /\ n + 1 # 4 /\ (n + 1) + 1 = n + 2
    BY <1>2
  <2>2. Advance(CipherAt(OutAlg, n + 1)) = CipherAt(OutAlg, (n + 1) + 1)
    BY <2>1, AlgsAgreed, Places
  <2> QED
    BY <1>5, <2>1, <2>2
<1>8. /\ \A i \in 1..Len(outgoing') : ClientFits(OutAlg, i, outgoing'[i])
      /\ Len(outgoing') = n + 1
  BY <1>1, <1>2, <1>3, <1>4, <1>6, WritesOne DEF ClientWrites
<1>9. OutAlg' = OutAlg
  BY DEF OutAlg
<1>10. n + 1 \notin {0, 4} /\ (n + 1) + 1 = n + 2
  BY <1>2
<1>11. Len(outgoing') \notin {0, 4} /\ cs_cipher' = CipherAt(OutAlg', Len(outgoing') + 1)
  BY <1>7, <1>8, <1>9, <1>10
<1> QED
  BY <1>1, <1>8, <1>9, <1>11 DEF ClientWrites

\* send_ciphered: after NEWKEYS it writes the next packet, before it panics.
LEMMA WritesCiphered ==
    ASSUME TypeInv, ClientWrites, NEW m \in ClientMessages, m.type \in LaterClient,
           SendCiphered(m), UNCHANGED srvOffer
    PROVE  /\ ClientWrites'
           /\ Len(outgoing) <= 3 => outgoing' = outgoing
           /\ Len(outgoing) >= 5 => outgoing' = Append(outgoing, Seal(cs_cipher, m))
           /\ Len(outgoing') >= Len(outgoing)
<1>1. PICK n : n = Len(outgoing)
  OBVIOUS
<1>2. n \in Nat \ {0, 4} /\ cs_cipher = CipherAt(OutAlg, n + 1)
  BY <1>1 DEF ClientWrites, TypeInv, TypeOK
<1>3. cs_cipher = NoCipher <=> n <= 3
  BY <1>2, AlgsAgreed, Places
<1>4. CASE cs_cipher = NoCipher
  BY <1>1, <1>2, <1>3, <1>4, WritesNothing DEF SendCiphered
<1>5. CASE cs_cipher # NoCipher
  <2>1. outgoing' = Append(outgoing, Seal(cs_cipher, m)) /\ cs_cipher' = Advance(cs_cipher)
    BY <1>5 DEF SendCiphered
  <2>2. n >= 5
    BY <1>2, <1>3, <1>5
  <2>3. ClientWrites' /\ Len(outgoing') = n + 1
    BY <1>1, <2>1, <2>2, WritesNext
  <2> QED
    BY <1>1, <1>2, <2>1, <2>2, <2>3
<1> QED
  BY <1>4, <1>5

\* An append, by its type.
LEMMA Appended ==
    ASSUME NEW S, NEW q \in Seq(S), NEW p \in S
    PROVE  Append(q, p) \in Seq(S) /\ Len(Append(q, p)) = Len(q) + 1
OBVIOUS

\* What a stream holds, when one packet more is written to it.
LEMMA PlacedAppend ==
    ASSUME NEW S, NEW q \in Seq(S), NEW p \in S, NEW n \in Nat, n <= Len(q), NEW T
    PROVE  /\ p.msg.type \notin T => Placed(Append(q, p), n, T) = Placed(q, n, T)
           /\ p.msg.type \in T => Placed(Append(q, p), n, T) = Placed(q, n, T) \cup {Len(q) + 1}
           /\ \A i \in Placed(q, n, T) : Append(q, p)[i] = q[i] /\ i \in 1..Len(q)
           /\ Append(q, p)[Len(q) + 1] = p
<1>1. /\ Len(Append(q, p)) = Len(q) + 1 /\ Len(q) \in Nat
      /\ \A i \in 1..Len(q) : Append(q, p)[i] = q[i]
      /\ Append(q, p)[Len(q) + 1] = p
  OBVIOUS
<1> DEFINE r == Append(q, p)
<1> HIDE DEF r
<1>2. /\ Len(r) = Len(q) + 1
      /\ \A i \in 1..Len(q) : r[i] = q[i]
      /\ r[Len(q) + 1] = p
  BY <1>1 DEF r
<1>3. \A i : i \in (n + 1)..Len(r) <=> i \in (n + 1)..Len(q) \/ i = Len(q) + 1
  BY <1>1, <1>2
<1>4. \A i : i \in (n + 1)..Len(q) => i \in 1..Len(q)
  BY <1>1
<1>5. \A i : i \in Placed(r, n, T) <=>
               i \in Placed(q, n, T) \/ (i = Len(q) + 1 /\ p.msg.type \in T)
  BY <1>2, <1>3, <1>4 DEF Placed
<1>6. \A i \in Placed(q, n, T) : i \in 1..Len(q)
  BY <1>4 DEF Placed
<1> QED
  BY <1>1, <1>5, <1>6 DEF r

\* And when one is read from it.
LEMMA PlacedTake ==
    ASSUME NEW S, NEW q \in Seq(S), NEW n \in Nat, n < Len(q), NEW T
    PROVE  /\ Placed(q, n + 1, T) = Placed(q, n, T) \ {n + 1}
           /\ n + 1 \in Placed(q, n, T) <=> q[n + 1].msg.type \in T
           /\ \A i \in Placed(q, n, T) : i \in Nat /\ i > n
<1>1. Len(q) \in Nat
  OBVIOUS
<1>2. \A i : i \in ((n + 1) + 1)..Len(q) <=> i \in (n + 1)..Len(q) /\ i # n + 1
  BY <1>1
<1> QED
  BY <1>1, <1>2 DEF Placed

-----------------------------------------------------------------------------
\* What a client's step has to show.

LEMMA ClientMoves ==
    ASSUME TypeInv, OutInv, UNCHANGED <<incoming, received, serverVars>>,
           ClientWrites', ClientStage',
           Len(outgoing') \in Nat, Len(outgoing') >= Len(outgoing),
           consumed' \in {consumed, consumed + 1},
           Len(outgoing) <= 2 /\ Len(outgoing') > 2 => srvOffer # NoOffer,
           Len(outgoing) # 3 /\ Len(outgoing') = 3 => \A i \in KexInits : i <= consumed',
           \/ phase = "AwaitingHostKeyDecision" \/ Len(outgoing) >= 5
           \/ srvKex = 1 /\ \A i \in KexReplies : i <= consumed'
           \/ phase' # "AwaitingHostKeyDecision" /\ Len(outgoing') < 5
    PROVE  OutInv'
<1>1. KexInits' = KexInits /\ KexReplies' = KexReplies
  BY DEF KexInits, KexReplies
<1>2. /\ consumed \in Nat /\ received \in Nat /\ Len(outgoing) \in Nat
      /\ UNCHANGED <<srvPhase, srvOffer, srvKex, srvIn, srvOut>>
  BY DEF TypeInv, TypeOK, serverVars
<1>3. \A i : i \in KexInits \cup KexReplies => i \in Nat
  BY DEF KexInits, KexReplies, Placed, TypeInv, TypeOK
<1>4. ServerReadsInStep'
  BY <1>2 DEF OutInv, ServerReadsInStep, OutAlg
<1>5. ServerExchanges'
  BY <1>1, <1>2, <1>3 DEF OutInv, ServerExchanges
<1> QED
  BY <1>4, <1>5 DEF OutInv

\* A handler that writes nothing and derives nothing.
LEMMA ClientStays ==
    ASSUME TypeInv, OutInv, UNCHANGED <<incoming, received, serverVars>>,
           UNCHANGED <<outgoing, cs_cipher, kexes, active_kex, negotiated, pending_ciphers>>,
           phase' \in {phase, "Closed"}, consumed' \in {consumed, consumed + 1}
    PROVE  OutInv'
<1>1. Len(outgoing) \in Nat
  BY DEF TypeInv, TypeOK
<1>2. ClientWrites'
  BY WritesNothing DEF OutInv, serverVars
<1>3. OutAlg' = OutAlg
  BY DEF serverVars, OutAlg
<1>4. ClientStage'
  BY <1>3 DEF OutInv, ClientStage
<1> QED
  BY <1>1, <1>2, <1>4, ClientMoves

\* A handler or a call that sends under the send cipher, if there is one.
LEMMA ClientSends ==
    ASSUME TypeInv, OutInv, UNCHANGED <<incoming, received, serverVars>>,
           NEW m \in ClientMessages, m.type \in LaterClient, SendCiphered(m),
           UNCHANGED <<kexes, active_kex, negotiated, pending_ciphers, phase>>,
           consumed' \in {consumed, consumed + 1}
    PROVE  OutInv'
<1>1. PICK n : n = Len(outgoing)
  OBVIOUS
<1>2. n \in Nat /\ n # 0 /\ n # 4
  BY <1>1 DEF TypeInv, TypeOK, OutInv, ClientWrites
<1>3. n <= 3 \/ n >= 5
  BY <1>2
<1>4. /\ ClientWrites'
      /\ n <= 3 => outgoing' = outgoing
      /\ n >= 5 => outgoing' = Append(outgoing, Seal(cs_cipher, m))
  BY <1>1, WritesCiphered DEF OutInv, serverVars
<1>5. CASE n <= 3
  <2>1. outgoing' = outgoing
    BY <1>4, <1>5
  <2>2. OutAlg' = OutAlg
    BY DEF serverVars, OutAlg
  <2>3. ClientStage'
    BY <2>1, <2>2 DEF OutInv, ClientStage
  <2> QED
    BY <1>1, <1>2, <1>4, <2>1, <2>3, ClientMoves
<1>6. CASE n >= 5
  <2>1. Seal(cs_cipher, m) \in Packets(ClientMessages)
    BY SealType DEF TypeInv, TypeOK
  <2>2. Len(outgoing') = n + 1
    BY <1>1, <1>4, <1>6, <2>1 DEF TypeInv, TypeOK
  <2>3. phase \notin {"VersionExchange", "KexInProgress", "AwaitingHostKeyDecision"}
    BY <1>1, <1>2, <1>6 DEF OutInv, ClientStage
  <2>4. ClientStage'
    BY <1>2, <1>6, <2>2, <2>3 DEF ClientStage
  <2> QED
    BY <1>1, <1>2, <1>4, <1>6, <2>2, <2>4, ClientMoves
<1> QED
  BY <1>3, <1>5, <1>6

\* Session::new has written its identification line, the server has read nothing.
LEMMA OutInit == Init => OutInv
<1> SUFFICES ASSUME Init PROVE OutInv
  OBVIOUS
<1>1. PICK v : incoming = <<Seal(NoCipher, [type |-> "IDENT", version |-> v])>>
  BY DEF Init
<1>2. Len(incoming) = 1 /\ incoming[1].msg.type = "IDENT"
  BY <1>1 DEF Seal
<1>3. KexInits = {} /\ KexReplies = {}
  BY <1>2 DEF KexInits, KexReplies, Placed
<1>4. Len(outgoing) = 1 /\ outgoing[1] = Seal(NoCipher, [type |-> "IDENT", version |-> "2.0"])
  BY DEF Init
<1>5. CipherAt(OutAlg, 1) = NoCipher /\ CipherAt(OutAlg, 2) = NoCipher
  BY PlainPlaces
<1>6. ClientWrites
  BY <1>4, <1>5 DEF Init, SessionInit, ClientWrites, ClientFits, ClientScript, Opens, Seal
<1> QED
  BY <1>3, <1>4, <1>5, <1>6
     DEF Init, SessionInit, ServerInit, OutInv, ClientStage, ServerReadsInStep, ServerExchanges

\* drive_packet_phase finds the session where its writing leaves it.
LEMMA DispatchStage ==
    ASSUME TypeInv, OutInv, NEW t, Dispatch(t)
    PROVE  /\ consumed' = consumed + 1 /\ phase \notin {"VersionExchange", "AwaitingHostKeyDecision", "Closed"}
           /\ Len(outgoing) = 2 \/ Len(outgoing) = 3 \/ Len(outgoing) >= 5
           /\ Len(outgoing) \in {2, 3} <=> phase = "KexInProgress"
           /\ consumed + 1 \in Placed(incoming, 0, {t})
<1>1. PICK n : n = Len(outgoing)
  OBVIOUS
<1>2. /\ consumed' = consumed + 1 /\ consumed < Len(incoming) /\ incoming[consumed + 1].msg.type = t
      /\ phase \notin {"VersionExchange", "AwaitingHostKeyDecision", "Closed"}
  BY DEF Dispatch, Driving, NextPacket
<1>3. phase = "KexInProgress" \/ phase \in {"ServiceRequest", "UserAuth", "Connected"}
  BY <1>2 DEF TypeInv, TypeOK, Phases
<1>4. (phase = "KexInProgress" => n \in {2, 3}) /\ (phase # "KexInProgress" => n >= 5)
  BY <1>1, <1>3 DEF OutInv, ClientStage
<1>5. consumed \in Nat /\ Len(incoming) \in Nat
  BY DEF TypeInv, TypeOK
<1>6. consumed + 1 \in (0 + 1)..Len(incoming)
  BY <1>2, <1>5
<1> QED
  BY <1>1, <1>2, <1>4, <1>6 DEF Placed

\* Acceptance puts the client behind its own NEWKEYS.
LEMMA AcceptedStage ==
    ASSUME TypeInv, GateInv, OutInv, accepted
    PROVE  Len(outgoing) >= 5
<1>1. PICK n : n = Len(outgoing)
  OBVIOUS
<1>2. n \in Nat /\ n # 0 /\ n # 4
  BY <1>1 DEF TypeInv, TypeOK, OutInv, ClientWrites
<1>3. cs_cipher # NoCipher /\ cs_cipher = CipherAt(OutAlg, n + 1)
  BY <1>1 DEF GateInv, OutInv, ClientWrites
<1>4. ~(n + 1 <= 4)
  BY <1>2, <1>3, AlgsAgreed, Places
<1> QED
  BY <1>1, <1>2, <1>4

\* handle_peer_kexinit: the first KEXINIT is answered with the first key, in
\* plaintext; one that comes later under the cipher.
LEMMA OutPeerKexinit ==
    ASSUME TypeInv, OutInv, HandlePeerKexinit, UNCHANGED serverVars
    PROVE  OutInv'
<1>1. PICK n : n = Len(outgoing)
  OBVIOUS
<1>2. /\ n \in Nat /\ (n = 2 \/ n = 3 \/ n >= 5) /\ (n \in {2, 3} <=> phase = "KexInProgress")
      /\ consumed' = consumed + 1 /\ consumed + 1 \in KexInits /\ consumed \in Nat
      /\ phase \notin {"VersionExchange", "AwaitingHostKeyDecision", "Closed"}
  <2>1. Dispatch("KEXINIT")
    BY DEF HandlePeerKexinit
  <2>2. consumed + 1 \in Placed(incoming, 0, {"KEXINIT"})
    BY <2>1, DispatchStage
  <2>3. n \in Nat /\ consumed \in Nat
    BY <1>1 DEF TypeInv, TypeOK
  <2>4. /\ consumed' = consumed + 1 /\ phase \notin {"VersionExchange", "AwaitingHostKeyDecision", "Closed"}
        /\ Len(outgoing) = 2 \/ Len(outgoing) = 3 \/ Len(outgoing) >= 5
        /\ Len(outgoing) \in {2, 3} <=> phase = "KexInProgress"
    BY <2>1, DispatchStage
  <2> QED
    BY <1>1, <2>2, <2>3, <2>4 DEF KexInits
<1>3. UNCHANGED <<incoming, received, pending_ciphers>>
  BY DEF HandlePeerKexinit, Opened
<1>4. CASE Fail("Negotiation") /\ UNCHANGED <<negotiated, active_kex, kexes, outgoing, cs_cipher, panicked>>
  BY <1>2, <1>3, <1>4, ClientStays DEF Fail
<1>5. CASE /\ kexes' = kexes + 1
           /\ active_kex' = kexes'
           /\ negotiated' = [cs |-> negotiate(NextPacket.msg.offer.cs),
                             sc |-> negotiate(NextPacket.msg.offer.sc)]
           /\ SendPlaintextOrCiphered([type |-> "KEX_INIT", kex |-> kexes'])
           /\ UNCHANGED <<phase, events>>
  <2> DEFINE m == [type |-> "KEX_INIT", kex |-> kexes']
  <2>1. m \in ClientMessages /\ m.type = "KEX_INIT" /\ m.kex = kexes'
    BY <1>5 DEF ClientMessages, TypeInv, TypeOK
  <2>2. SendPlaintextOrCiphered(m)
    BY <1>5
  <2> HIDE DEF m
  <2>3. outgoing' = Append(outgoing, Seal(cs_cipher, m)) /\ cs_cipher' = Advance(cs_cipher)
    BY <2>2 DEF SendPlaintextOrCiphered, SendPlaintext, SendCiphered, Advance
  <2>4. n # 3
    BY <1>1, <1>2 DEF OutInv, ServerExchanges
  <2>5. n = 2 => kexes' = 1
    BY <1>1, <1>5 DEF OutInv, ClientStage
  <2>6. ClientWrites' /\ Len(outgoing') = n + 1
    <3>1. ClientWrites /\ UNCHANGED srvOffer /\ Len(outgoing) # 3
      BY <1>1, <2>4 DEF OutInv, serverVars
    <3>2. n < 5 => n = 2
      BY <1>2, <2>4
    <3>3. /\ Len(outgoing) < 5 => m.type = ClientScript[Len(outgoing) + 1]
          /\ Len(outgoing) = 2 => m.kex = 1
          /\ Len(outgoing) >= 5 => m.type \in LaterClient
      BY <1>1, <2>1, <2>5, <3>2 DEF ClientScript, LaterClient
    <3> QED
      BY <1>1, <2>1, <2>3, <3>1, <3>3, WritesNext
  <2>7. negotiated'.cs = OutAlg' /\ srvOffer # NoOffer
    <3>1. NextPacket.msg.offer = srvOffer /\ srvOffer # NoOffer
      BY <1>2 DEF NextPacket, OutInv, ServerExchanges
    <3> QED
      BY <1>5, <3>1 DEF OutAlg, negotiate, Agreed, serverVars
  <2>8. \A i \in KexInits : n = 2 => i <= consumed'
    BY <1>1, <1>2 DEF OutInv, ServerExchanges
  <2>9. CASE n = 2
    <3>1. ClientStage'
      BY <1>2, <1>5, <2>5, <2>6, <2>7, <2>9 DEF ClientStage
    <3> QED
      BY <1>1, <1>2, <1>3, <1>5, <2>6, <2>7, <2>8, <2>9, <3>1, ClientMoves
  <2>10. CASE n >= 5
    <3>1. ClientStage'
      BY <1>2, <1>5, <2>6, <2>10 DEF ClientStage
    <3> QED
      BY <1>1, <1>2, <1>3, <1>5, <2>6, <2>10, <3>1, ClientMoves
  <2> QED
    BY <1>2, <2>4, <2>9, <2>10
<1> QED
  BY <1>4, <1>5 DEF HandlePeerKexinit

\* handle_*_reply: there is one reply, to the first key, before the client has
\* its ciphers, and what is derived from it is the cipher behind both NEWKEYS.
LEMMA OutKexReply ==
    ASSUME TypeInv, OutInv, HandleKexReply, UNCHANGED serverVars
    PROVE  OutInv'
<1>1. PICK n : n = Len(outgoing)
  OBVIOUS
<1>2. /\ n \in Nat /\ (n = 2 \/ n = 3 \/ n >= 5) /\ (n \in {2, 3} <=> phase = "KexInProgress")
      /\ consumed' = consumed + 1 /\ consumed + 1 \in KexReplies /\ consumed \in Nat
      /\ phase \notin {"VersionExchange", "AwaitingHostKeyDecision", "Closed"}
  <2>1. Dispatch("KEX_REPLY")
    BY DEF HandleKexReply
  <2>2. consumed + 1 \in Placed(incoming, 0, {"KEX_REPLY"})
    BY <2>1, DispatchStage
  <2>3. n \in Nat /\ consumed \in Nat
    BY <1>1 DEF TypeInv, TypeOK
  <2>4. /\ consumed' = consumed + 1 /\ phase \notin {"VersionExchange", "AwaitingHostKeyDecision", "Closed"}
        /\ Len(outgoing) = 2 \/ Len(outgoing) = 3 \/ Len(outgoing) >= 5
        /\ Len(outgoing) \in {2, 3} <=> phase = "KexInProgress"
    BY <2>1, DispatchStage
  <2> QED
    BY <1>1, <2>2, <2>3, <2>4 DEF KexReplies
<1>3. /\ UNCHANGED <<incoming, received, outgoing, cs_cipher, kexes, negotiated>>
      /\ active_kex # 0 /\ active_kex' = 0
  BY DEF HandleKexReply
<1>4. n = 3
  <2>1. n # 2
    BY <1>1, <1>3 DEF OutInv, ClientStage
  <2>2. ~(n >= 5)
    BY <1>1, <1>2 DEF OutInv, ServerExchanges
  <2> QED
    BY <1>2, <2>1, <2>2
<1>5. kexes = 1 /\ active_kex = 1 /\ negotiated.cs = OutAlg
  BY <1>1, <1>3, <1>4 DEF OutInv, ClientStage
<1>6. srvKex = 1 /\ \A i \in KexReplies : i <= consumed'
  BY <1>2 DEF OutInv, ServerExchanges, ServerReadsInStep
<1>7. ClientWrites' /\ OutAlg' = OutAlg
  BY <1>3, WritesNothing DEF OutInv, serverVars, OutAlg
<1>8. phase' = "Closed" \/ (phase' = "AwaitingHostKeyDecision" /\ pending_ciphers' = CipherAt(OutAlg, 5))
  <2>1. DerivedCipher(active_kex) = CipherAt(OutAlg, 5)
    BY <1>5, AlgsAgreed, Places DEF DerivedCipher, PLAINTEXT_PACKETS_BEFORE_NEWKEYS
  <2> QED
    BY <2>1 DEF HandleKexReply, Fail
<1>9. ClientStage'
  BY <1>1, <1>3, <1>4, <1>5, <1>7, <1>8 DEF ClientStage
<1> QED
  BY <1>1, <1>2, <1>3, <1>4, <1>6, <1>7, <1>9, ClientMoves

ClientLog(alg, q) ==
    /\ q \in Seq(Packets(ClientMessages))
    /\ \A i \in 1..Len(q) : ClientFits(alg, i, q[i])

LEMMA LogGrows ==
    ASSUME NEW alg, NEW q, ClientLog(alg, q), NEW p \in Packets(ClientMessages),
           ClientFits(alg, Len(q) + 1, p)
    PROVE  ClientLog(alg, Append(q, p)) /\ Len(Append(q, p)) = Len(q) + 1
<1>1. q \in Seq(Packets(ClientMessages)) /\ \A i \in 1..Len(q) : ClientFits(alg, i, q[i])
  BY DEF ClientLog
<1>2. Append(q, p) \in Seq(Packets(ClientMessages))
  BY <1>1
<1> QED
  BY <1>1, <1>2, WritesOne DEF ClientLog

\* provide_host_key_decision(true): NEWKEYS in plaintext, and the first packet
\* under the new cipher.
LEMMA OutAccept ==
    ASSUME TypeInv, OutInv, AcceptHostKey, phase = "AwaitingHostKeyDecision",
           UNCHANGED <<incoming, consumed, received, kexVars, serverVars>>
    PROVE  OutInv'
<1> DEFINE a == Seal(NoCipher, Msg("NEWKEYS"))
           b == Seal(pending_ciphers, Msg("SERVICE_REQUEST"))
<1>1. Len(outgoing) = 3 /\ pending_ciphers = CipherAt(OutAlg, 5) /\ ClientLog(OutAlg, outgoing)
  BY DEF OutInv, ClientStage, ClientWrites, TypeInv, TypeOK, ClientLog
<1>2. a \in Packets(ClientMessages) /\ b \in Packets(ClientMessages)
  <2>1. Msg("NEWKEYS") \in ClientMessages /\ Msg("SERVICE_REQUEST") \in ClientMessages
    BY DEF Msg, ClientMessages
  <2> QED
    BY <2>1, SealType, NoCipherType DEF TypeInv, TypeOK
<1>3. ClientFits(OutAlg, 4, a)
  <2>1. CipherAt(OutAlg, 4) = NoCipher
    BY PlainPlaces
  <2> QED
    BY <2>1, Sealed DEF ClientFits, ClientScript, Msg
<1>4. ClientFits(OutAlg, 5, b)
  BY <1>1, Sealed DEF ClientFits, ClientScript, Msg
<1>5. outgoing' = Append(Append(outgoing, a), b)
  BY <1>1, <1>2 DEF AcceptHostKey, ClientLog
<1>6. PICK r : r = Append(outgoing, a)
  OBVIOUS
<1> HIDE DEF a, b
<1>7. /\ ClientLog(OutAlg, outgoing')
      /\ Len(outgoing') = 5
  <2>1. ClientLog(OutAlg, r) /\ Len(r) = 4
    <3>1. Len(outgoing) + 1 = 4
      BY <1>1
    <3>2. ClientFits(OutAlg, Len(outgoing) + 1, a)
      BY <1>3, <3>1
    <3> QED
      BY <1>1, <1>2, <1>6, <3>1, <3>2, LogGrows
  <2>2. Len(r) + 1 = 5
    BY <2>1
  <2>3. ClientFits(OutAlg, Len(r) + 1, b) /\ outgoing' = Append(r, b)
    BY <1>4, <1>5, <1>6, <2>2
  <2> QED
    BY <1>2, <2>1, <2>2, <2>3, LogGrows
<1>8. OutAlg' = OutAlg
  BY DEF serverVars, OutAlg
<1>9. cs_cipher' = CipherAt(OutAlg, 6)
  BY <1>1, AlgsAgreed, Places DEF AcceptHostKey
<1>10. ClientWrites' /\ ClientStage'
  BY <1>7, <1>8, <1>9 DEF ClientWrites, ClientStage, AcceptHostKey, ClientLog
<1> QED
  BY <1>1, <1>7, <1>10, ClientMoves

-----------------------------------------------------------------------------
\* What a server's step has to show.

LEMMA ServerMoves ==
    ASSUME TypeInv, OutInv, UNCHANGED <<consumed, outgoing, sessionVars>>,
           srvOffer' = srvOffer \/ Len(outgoing) <= 2,
           ServerReadsInStep', ServerExchanges'
    PROVE  OutInv'
<1>1. UNCHANGED <<phase, kexes, active_kex, negotiated, pending_ciphers, cs_cipher>>
  BY DEF sessionVars, kexVars, cipherVars
<1>2. ClientWrites'
  <2>1. srvOffer' = srvOffer \/ Len(outgoing) <= 3
    BY DEF TypeInv, TypeOK
  <2> QED
    BY <1>1, <2>1, WritesNothing DEF OutInv
<1>3. ClientStage'
  <2>1. CASE srvOffer' = srvOffer
    BY <1>1, <2>1 DEF OutInv, ClientStage, OutAlg
  <2>2. CASE Len(outgoing) <= 2
    <3>1. Len(outgoing) # 3
      <4>1. PICK n : n = Len(outgoing)
        OBVIOUS
      <4>2. n \in Nat /\ n <= 2
        BY <2>2, <4>1 DEF TypeInv, TypeOK
      <4> QED
        BY <4>1, <4>2
    <3>2. phase # "AwaitingHostKeyDecision"
      BY <3>1 DEF OutInv, ClientStage
    <3> QED
      BY <1>1, <3>1, <3>2 DEF OutInv, ClientStage
  <2> QED
    BY <2>1, <2>2
<1> QED
  BY <1>2, <1>3 DEF OutInv

\* A server's message that is not of the key exchange.
LEMMA ExchangesStay ==
    ASSUME TypeInv, OutInv, UNCHANGED <<consumed, outgoing, phase, srvOffer, srvKex>>,
           \/ UNCHANGED incoming
           \/ \E p \in Packets(ServerMessages) : incoming' = Append(incoming, p)
                                                 /\ p.msg.type \notin {"KEXINIT", "KEX_REPLY"}
    PROVE  ServerExchanges'
<1>1. CASE UNCHANGED incoming
  BY <1>1 DEF OutInv, ServerExchanges, KexInits, KexReplies
<1>2. CASE ~ UNCHANGED incoming
  <2>1. PICK p \in Packets(ServerMessages) :
             incoming' = Append(incoming, p) /\ p.msg.type \notin {"KEXINIT", "KEX_REPLY"}
    BY <1>2
  <2>2. incoming \in Seq(Packets(ServerMessages)) /\ 0 \in Nat /\ 0 <= Len(incoming)
    BY DEF TypeInv, TypeOK
  <2>3. /\ Placed(incoming', 0, {"KEXINIT"}) = Placed(incoming, 0, {"KEXINIT"})
        /\ Placed(incoming', 0, {"KEX_REPLY"}) = Placed(incoming, 0, {"KEX_REPLY"})
        /\ \A i \in Placed(incoming, 0, {"KEXINIT"}) : incoming'[i] = incoming[i]
    <3>1. p.msg.type \notin {"KEXINIT"} /\ p.msg.type \notin {"KEX_REPLY"}
      BY <2>1
    <3> QED
      BY <2>1, <2>2, <3>1, PlacedAppend
  <2> QED
    BY <2>3 DEF OutInv, ServerExchanges, KexInits, KexReplies
<1> QED
  BY <1>1, <1>2

\* What the server sends is a packet with that message.
LEMMA ReplyIs ==
    ASSUME TypeInv, NEW m \in ServerMessages, Reply(m)
    PROVE  \E p \in Packets(ServerMessages) : incoming' = Append(incoming, p) /\ p.msg = m
<1>1. Seal(srvOut, m) \in Packets(ServerMessages) /\ Seal(srvOut, m).msg = m
  BY SealType, Sealed DEF TypeInv, TypeOK
<1> QED
  BY <1>1 DEF Reply

\* What the server takes is what the client wrote at that place.
LEMMA TakesFits ==
    ASSUME TypeInv, OutInv, NEW t, Takes(t)
    PROVE  /\ received' = received + 1 /\ received \in Nat /\ received < Len(outgoing)
           /\ srvPhase # "Gone" /\ srvIn = CipherAt(OutAlg, received + 1)
           /\ received < 5 => t = ClientScript[received + 1]
           /\ received >= 5 => t \in LaterClient
           /\ received = 2 => NextFromClient.msg.kex = 1
<1>1. /\ received' = received + 1 /\ received < Len(outgoing) /\ srvPhase # "Gone"
      /\ outgoing[received + 1].msg.type = t /\ received \in Nat /\ Len(outgoing) \in Nat
  BY DEF Takes, Receiving, NextFromClient, TypeInv, TypeOK
<1>2. received + 1 \in 1..Len(outgoing)
  BY <1>1
<1>3. ClientFits(OutAlg, received + 1, outgoing[received + 1])
  BY <1>2 DEF OutInv, ClientWrites
<1>4. /\ received < 5 <=> received + 1 <= 5
      /\ received >= 5 <=> received + 1 > 5
      /\ received = 2 <=> received + 1 = 3
  BY <1>1
<1> QED
  BY <1>1, <1>3, <1>4 DEF OutInv, ServerReadsInStep, ClientFits, NextFromClient

\* handle_kexinit and handle_kex_ecdh_init, what the server sends of the
\* exchange: its offer while the client has nothing to go by, and its reply to
\* the first key.
LEMMA OutServerKexinit ==
    ASSUME TypeInv, OutInv, SrvSendKexInit, UNCHANGED sessionVars
    PROVE  OutInv'
<1>1. PICK offer \in Offers : srvOffer' = offer /\ Reply([type |-> "KEXINIT", offer |-> offer])
  BY DEF SrvSendKexInit
<1>2. [type |-> "KEXINIT", offer |-> offer] \in ServerMessages
  BY DEF ServerMessages
<1>3. PICK p \in Packets(ServerMessages) :
           incoming' = Append(incoming, p) /\ p.msg = [type |-> "KEXINIT", offer |-> offer]
  BY <1>1, <1>2, ReplyIs
<1>4. p.msg.type = "KEXINIT" /\ p.msg.offer = offer
  BY <1>3
<1>5. incoming \in Seq(Packets(ServerMessages)) /\ 0 \in Nat /\ 0 <= Len(incoming)
  BY DEF TypeInv, TypeOK
<1>6. PICK n : n = Len(outgoing)
  OBVIOUS
<1>7. /\ n \in Nat /\ n <= 2 /\ srvKex = 0 /\ KexInits = {} /\ KexReplies = {}
      /\ UNCHANGED <<consumed, outgoing, received, srvPhase, srvKex, srvIn, phase>>
  <2>1. srvOffer = NoOffer /\ UNCHANGED <<consumed, outgoing, received, srvPhase, srvKex, srvIn, phase>>
    BY DEF SrvSendKexInit, sessionVars
  <2>2. n \in Nat
    BY <1>6 DEF TypeInv, TypeOK
  <2> QED
    BY <1>6, <2>1, <2>2 DEF OutInv, ServerExchanges
<1>8. KexInits' = {Len(incoming) + 1} /\ KexReplies' = {} /\ incoming'[Len(incoming) + 1] = p
  <2>1. p.msg.type \in {"KEXINIT"} /\ p.msg.type \notin {"KEX_REPLY"}
    BY <1>4
  <2> QED
    BY <1>3, <1>5, <1>7, <2>1, PlacedAppend DEF KexInits, KexReplies
<1>9. offer # NoOffer
  BY ServerAssumption
<1>10. phase # "AwaitingHostKeyDecision"
  BY <1>6, <1>7 DEF OutInv, ClientStage
<1>11. ServerExchanges'
  BY <1>1, <1>4, <1>6, <1>7, <1>8, <1>9, <1>10 DEF ServerExchanges
<1>12. ServerReadsInStep'
  <2>1. PICK r : r = received
    OBVIOUS
  <2>2. r \in Nat /\ r <= 2 /\ r + 1 \in 1..4
    BY <1>6, <1>7, <2>1 DEF OutInv, ServerReadsInStep, TypeInv, TypeOK
  <2>3. CipherAt(OutAlg, received + 1) = CipherAt(OutAlg', received + 1)
    BY <2>1, <2>2, PlainPlaces
  <2> QED
    BY <1>7, <2>3 DEF OutInv, ServerReadsInStep
<1> QED
  BY <1>6, <1>7, <1>11, <1>12, ServerMoves

LEMMA OutServerReply ==
    ASSUME TypeInv, OutInv, SrvKexEcdhInit, UNCHANGED sessionVars
    PROVE  OutInv'
<1>1. /\ received' = received + 1 /\ received = 2 /\ srvKex = 0 /\ srvKex' = 1
      /\ received < Len(outgoing) /\ srvIn = CipherAt(OutAlg, 3)
      /\ UNCHANGED <<consumed, outgoing, srvOffer, srvIn, phase>>
      /\ srvPhase' = "AwaitingNewKeys"
  <2>1. received = 2 /\ srvKex = 0
    BY DEF SrvKexEcdhInit, OutInv, ServerReadsInStep
  <2>2. Takes("KEX_INIT")
    BY DEF SrvKexEcdhInit
  <2>3. /\ received' = received + 1 /\ received < Len(outgoing)
        /\ NextFromClient.msg.kex = 1 /\ srvIn = CipherAt(OutAlg, received + 1)
    BY <2>1, <2>2, TakesFits
  <2> QED
    BY <2>1, <2>3 DEF SrvKexEcdhInit, sessionVars
<1>2. PICK signed \in BOOLEAN : Reply([type |-> "KEX_REPLY", kex |-> 1, signed |-> signed])
  BY <1>1 DEF SrvKexEcdhInit
<1>3. [type |-> "KEX_REPLY", kex |-> 1, signed |-> signed] \in ServerMessages
  BY DEF ServerMessages
<1>4. PICK p \in Packets(ServerMessages) :
           incoming' = Append(incoming, p) /\ p.msg = [type |-> "KEX_REPLY", kex |-> 1, signed |-> signed]
  BY <1>2, <1>3, ReplyIs
<1>5. p.msg.type = "KEX_REPLY"
  BY <1>4
<1>6. incoming \in Seq(Packets(ServerMessages)) /\ 0 \in Nat /\ 0 <= Len(incoming)
  BY DEF TypeInv, TypeOK
<1>7. /\ KexInits' = KexInits /\ KexReplies' = {Len(incoming) + 1}
      /\ \A i \in KexInits : incoming'[i] = incoming[i]
  <2>1. p.msg.type \notin {"KEXINIT"} /\ p.msg.type \in {"KEX_REPLY"}
    BY <1>5
  <2>2. KexReplies = {}
    BY <1>1 DEF OutInv, ServerExchanges
  <2> QED
    BY <1>4, <1>6, <2>1, <2>2, PlacedAppend DEF KexInits, KexReplies
<1>8. ServerExchanges'
  <2>1. srvOffer # NoOffer
    BY DEF SrvKexEcdhInit
  <2>2. ~(phase = "AwaitingHostKeyDecision" \/ Len(outgoing) >= 5)
    BY <1>1 DEF OutInv, ServerExchanges
  <2> QED
    BY <1>1, <1>7, <2>1, <2>2 DEF OutInv, ServerExchanges
<1>9. ServerReadsInStep'
  <2>1. received' = 3 /\ received' <= Len(outgoing)
    BY <1>1 DEF TypeInv, TypeOK
  <2>2. CipherAt(OutAlg', 3 + 1) = CipherAt(OutAlg, 3)
    BY PlainPlaces
  <2> QED
    BY <1>1, <2>1, <2>2 DEF ServerReadsInStep
<1> QED
  BY <1>1, <1>8, <1>9, ServerMoves

\* The server sends something else, and reads nothing.
LEMMA OutServerSends ==
    ASSUME TypeInv, OutInv, NEW m \in ServerMessages, m.type \notin {"KEXINIT", "KEX_REPLY"},
           \/ Reply(m)
           \/ \E p \in Packets(ServerMessages) : incoming' = Append(incoming, p) /\ p.msg = m,
           UNCHANGED <<consumed, outgoing, received, srvOffer, srvKex, srvIn, sessionVars>>,
           srvPhase' \in {srvPhase, "Gone"}
    PROVE  OutInv'
<1>1. \E p \in Packets(ServerMessages) : incoming' = Append(incoming, p) /\ p.msg = m
  BY ReplyIs
<1>2. ServerExchanges'
  BY <1>1, ExchangesStay DEF sessionVars
<1>3. ServerReadsInStep'
  BY DEF OutInv, ServerReadsInStep, OutAlg
<1> QED
  BY <1>2, <1>3, ServerMoves

\* The server reads, and may answer, outside the key exchange.
LEMMA OutServerReads ==
    ASSUME TypeInv, OutInv, UNCHANGED <<consumed, outgoing, srvOffer, srvKex, sessionVars>>,
           \/ UNCHANGED incoming
           \/ \E m \in ServerMessages : m.type \notin {"KEXINIT", "KEX_REPLY"} /\ Reply(m),
           NEW n, n = received, received' = n + 1, n < Len(outgoing),
           srvPhase' # "Gone" => srvIn' = CipherAt(OutAlg, (n + 1) + 1),
           \/ n = 0 /\ srvPhase' = "AwaitingKexInit" /\ srvKex = 0
           \/ n = 1 /\ srvPhase' = "AwaitingKexEcdhInit" /\ srvKex = 0
           \/ n = 3 /\ srvPhase' = "AwaitingNewKeys" /\ srvKex = 1
           \/ n >= 4 /\ srvPhase' \in {"AwaitingUserAuth", "Connected"}
           \/ srvPhase' = "Gone"
    PROVE  OutInv'
<1>1. \/ UNCHANGED incoming
      \/ \E p \in Packets(ServerMessages) : incoming' = Append(incoming, p)
                                            /\ p.msg.type \notin {"KEXINIT", "KEX_REPLY"}
  BY ReplyIs
<1>2. ServerExchanges'
  BY <1>1, ExchangesStay DEF sessionVars
<1>3. n \in Nat /\ Len(outgoing) \in Nat /\ OutAlg' = OutAlg /\ srvKex \in {0, 1}
  BY DEF TypeInv, TypeOK, OutAlg, OutInv, ServerReadsInStep
<1>4. n + 1 <= Len(outgoing)
  BY <1>3
<1>5. ServerReadsInStep'
  BY <1>3, <1>4 DEF ServerReadsInStep
<1> QED
  BY <1>2, <1>5, ServerMoves

LEMMA OutServerStep ==
    ASSUME TypeInv, OutInv, UNCHANGED sessionVars,
           \/ SrvIdent \/ SrvKexInit \/ SrvNewKeys \/ SrvServiceRequest
           \/ SrvUserauthRequest \/ SrvConnection \/ SrvProtocolError
    PROVE  OutInv'
<1>1. PICK n : n = received
  OBVIOUS
<1>2. n \in Nat /\ UNCHANGED <<consumed, outgoing, srvOffer, srvKex>>
  BY <1>1 DEF TypeInv, TypeOK, SrvIdent, SrvKexInit, SrvNewKeys, SrvServiceRequest,
              SrvUserauthRequest, SrvConnection, SrvProtocolError
<1>3. \A t : Takes(t) =>
         /\ received' = n + 1 /\ n < Len(outgoing) /\ srvIn = CipherAt(OutAlg, n + 1)
         /\ n < 5 => t = ClientScript[n + 1]
         /\ n >= 5 => t \in LaterClient
  BY <1>1, TakesFits
<1>4. n >= 4 => Advance(CipherAt(OutAlg, n + 1)) = CipherAt(OutAlg, (n + 1) + 1)
  <2>1. n >= 4 => n + 1 \in Nat \ {0} /\ n + 1 # 4
    BY <1>2
  <2> QED
    BY <2>1, AlgsAgreed, Places
<1>5. CASE SrvIdent
  <2>1. n = 0 /\ srvKex = 0
    BY <1>1, <1>5 DEF SrvIdent, OutInv, ServerReadsInStep
  <2>2. CipherAt(OutAlg, 0 + 1) = CipherAt(OutAlg, (0 + 1) + 1)
    BY PlainPlaces
  <2> QED
    BY <1>1, <1>2, <1>3, <1>5, <2>1, <2>2, OutServerReads DEF SrvIdent
<1>6. CASE SrvKexInit
  <2>1. n = 1 /\ srvKex = 0
    BY <1>1, <1>6 DEF SrvKexInit, OutInv, ServerReadsInStep
  <2>2. CipherAt(OutAlg, 1 + 1) = CipherAt(OutAlg, (1 + 1) + 1)
    BY PlainPlaces
  <2> QED
    BY <1>1, <1>2, <1>3, <1>6, <2>1, <2>2, OutServerReads DEF SrvKexInit
<1>7. CASE SrvNewKeys
  <2>1. /\ Takes("NEWKEYS") /\ srvPhase = "AwaitingNewKeys" /\ srvPhase' = "AwaitingNewKeys"
        /\ srvIn' = WithInitialSeq(OutAlg, srvKex, received' - 1) /\ UNCHANGED incoming
    BY <1>7 DEF SrvNewKeys, OutAlg
  <2>2. n \in {3, 4} /\ srvKex = 1
    BY <1>1, <2>1 DEF OutInv, ServerReadsInStep
  <2>3. n = 3
    BY <1>3, <2>1, <2>2 DEF ClientScript
  <2>4. srvIn' = CipherAt(OutAlg, (3 + 1) + 1)
    BY <1>3, <2>1, <2>2, <2>3, AlgsAgreed, Places
  <2> QED
    BY <1>1, <1>2, <1>3, <2>1, <2>2, <2>3, <2>4, OutServerReads
<1>8. CASE SrvServiceRequest
  <2>1. Takes("SERVICE_REQUEST") /\ n \in {3, 4}
    BY <1>1, <1>8 DEF SrvServiceRequest, OutInv, ServerReadsInStep
  <2>2. n = 4
    BY <1>3, <2>1 DEF ClientScript
  <2>3. Msg("SERVICE_ACCEPT") \in ServerMessages /\ Msg("SERVICE_ACCEPT").type = "SERVICE_ACCEPT"
    BY DEF Msg, ServerMessages
  <2>4. Reply(Msg("SERVICE_ACCEPT")) /\ srvIn' = Advance(srvIn) /\ srvPhase' = "AwaitingUserAuth"
    BY <1>8 DEF SrvServiceRequest
  <2>5. /\ received' = n + 1 /\ n < Len(outgoing) /\ n >= 4
        /\ srvIn' = CipherAt(OutAlg, (n + 1) + 1)
    BY <1>2, <1>3, <1>4, <2>1, <2>2, <2>4
  <2>6. \E m \in ServerMessages : m.type \notin {"KEXINIT", "KEX_REPLY"} /\ Reply(m)
    BY <2>3, <2>4
  <2> QED
    BY <1>1, <1>2, <2>4, <2>5, <2>6, OutServerReads
<1>9. CASE SrvUserauthRequest
  <2>1. /\ Takes("USERAUTH_REQUEST") /\ srvPhase = "AwaitingUserAuth" /\ srvIn' = Advance(srvIn)
        /\ srvPhase' \in {"AwaitingUserAuth", "Connected"}
    BY <1>9 DEF SrvUserauthRequest
  <2>2. n >= 4
    BY <1>1, <1>2, <2>1 DEF OutInv, ServerReadsInStep
  <2>3. PICK t \in {"USERAUTH_PK_OK", "USERAUTH_SUCCESS", "USERAUTH_FAILURE"} : Reply(Msg(t))
    BY <1>9 DEF SrvUserauthRequest
  <2>4. Msg(t) \in ServerMessages /\ Msg(t).type \notin {"KEXINIT", "KEX_REPLY"}
    BY DEF Msg, ServerMessages
  <2>5. /\ received' = n + 1 /\ n < Len(outgoing)
        /\ srvIn' = CipherAt(OutAlg, (n + 1) + 1)
    BY <1>3, <1>4, <2>1, <2>2
  <2>6. \E m \in ServerMessages : m.type \notin {"KEXINIT", "KEX_REPLY"} /\ Reply(m)
    BY <2>3, <2>4
  <2> QED
    BY <1>1, <1>2, <2>1, <2>2, <2>5, <2>6, OutServerReads
<1>10. CASE SrvConnection
  <2>1. PICK t : Takes(t)
    BY <1>10 DEF SrvConnection
  <2>2. srvIn' = Advance(srvIn) /\ srvPhase' = "Connected" /\ UNCHANGED incoming
    BY <1>10 DEF SrvConnection
  <2>3. n >= 4
    BY <1>1, <1>2, <1>10 DEF SrvConnection, OutInv, ServerReadsInStep
  <2>4. /\ received' = n + 1 /\ n < Len(outgoing)
        /\ srvIn' = CipherAt(OutAlg, (n + 1) + 1)
    BY <1>3, <1>4, <2>1, <2>2, <2>3
  <2> QED
    BY <1>1, <1>2, <2>2, <2>3, <2>4, OutServerReads
<1>11. CASE SrvProtocolError
  <2>1. PICK t : Takes(t)
    BY <1>11 DEF SrvProtocolError
  <2>2. Msg("DISCONNECT") \in ServerMessages /\ Msg("DISCONNECT").type = "DISCONNECT"
    BY DEF Msg, ServerMessages
  <2>3. \E m \in ServerMessages : m.type \notin {"KEXINIT", "KEX_REPLY"} /\ Reply(m)
    BY <1>11, <2>2 DEF SrvProtocolError
  <2>4. received' = n + 1 /\ n < Len(outgoing) /\ srvPhase' = "Gone"
    BY <1>3, <1>11, <2>1 DEF SrvProtocolError
  <2> QED
    BY <1>1, <1>2, <2>3, <2>4, OutServerReads
<1> QED
  BY <1>5, <1>6, <1>7, <1>8, <1>9, <1>10, <1>11

\* Every handler, host call and server step keeps the two ends in lockstep.
LEMMA OutStep == TypeInv /\ GateInv /\ OutInv /\ [Next]_vars => OutInv'
<1> SUFFICES ASSUME TypeInv, GateInv, OutInv, [Next]_vars PROVE OutInv'
  OBVIOUS
<1>s. ASSUME SessionAlone PROVE UNCHANGED serverVars
  BY <1>s DEF SessionAlone
<1>v. ASSUME ServerAlone PROVE UNCHANGED sessionVars
  BY <1>v DEF ServerAlone
<1>1. CASE DriveVersionExchange /\ SessionAlone
  <2>1. Len(outgoing) = 1
    BY <1>1 DEF DriveVersionExchange, OutInv, ClientStage
  <2>2. UNCHANGED <<incoming, received, serverVars, kexes, active_kex, negotiated,
                    pending_ciphers, cs_cipher>>
    BY <1>1, <1>s DEF DriveVersionExchange, kexVars, cipherVars
  <2>3. CASE SendPlaintext(Msg("KEXINIT")) /\ phase' = "KexInProgress" /\ consumed' = consumed + 1
    <3>1. cs_cipher = NoCipher
      BY <2>1, PlainPlaces DEF OutInv, ClientWrites
    <3>2. Msg("KEXINIT") \in ClientMessages /\ Msg("KEXINIT").type = ClientScript[2]
      BY DEF Msg, ClientMessages, ClientScript
    <3>3. ClientWrites' /\ Len(outgoing') = 2
      BY <2>1, <2>2, <2>3, <3>1, <3>2, WritesNext DEF OutInv, SendPlaintext, Advance, serverVars
    <3>4. ClientStage'
      BY <2>1, <2>2, <2>3, <3>3 DEF OutInv, ClientStage
    <3> QED
      BY <2>1, <2>2, <2>3, <3>3, <3>4, ClientMoves
  <2>4. CASE Fail("Ident") /\ UNCHANGED <<consumed, outgoing>>
    BY <2>2, <2>4, ClientStays DEF Fail
  <2> QED
    BY <1>1, <2>3, <2>4 DEF DriveVersionExchange
<1>2. CASE (DriveUndecodable \/ HandleDisconnect \/ HandleIgnored \/ HandleUserauthFailure) /\ SessionAlone
  <2>1. /\ UNCHANGED <<incoming, received, outgoing, kexes, active_kex, negotiated,
                       pending_ciphers, cs_cipher>>
        /\ phase' \in {phase, "Closed"} /\ consumed' = consumed + 1
    BY <1>2 DEF DriveUndecodable, HandleDisconnect, HandleIgnored, HandleUserauthFailure, Dispatch,
                Fail, Opened, kexVars, cipherVars
  <2> QED
    BY <1>2, <1>s, <2>1, ClientStays
<1>3. CASE HandlePeerKexinit /\ SessionAlone
  BY <1>3, <1>s, OutPeerKexinit
<1>4. CASE HandleKexReply /\ SessionAlone
  BY <1>4, <1>s, OutKexReply
<1>5. CASE (HandleNewkeys \/ HandleUnexpected) /\ SessionAlone
  <2>1. /\ UNCHANGED <<incoming, received, outgoing, kexes, active_kex, negotiated,
                       pending_ciphers, cs_cipher>>
        /\ phase' \in {phase, "Closed"} /\ consumed' = consumed + 1
    BY <1>5 DEF HandleNewkeys, HandleUnexpected, Dispatch, Fail, Opened, kexVars
  <2> QED
    BY <1>5, <1>s, <2>1, ClientStays
<1>6. CASE (HandleServiceAccept \/ HandleUserauthSuccess) /\ SessionAlone
  <2>1. /\ UNCHANGED <<incoming, received, outgoing, kexes, active_kex, negotiated,
                       pending_ciphers, cs_cipher>>
        /\ phase' \in {"UserAuth", "Connected"} /\ consumed' = consumed + 1
    BY <1>6 DEF HandleServiceAccept, HandleUserauthSuccess, Dispatch, Opened, kexVars
  <2>2. Len(outgoing) >= 5
    <3>1. accepted
      BY <1>6, DispatchAccepted
         DEF HandleServiceAccept, HandleUserauthSuccess, BeforeAcceptServer
    <3> QED
      BY <3>1, AcceptedStage
  <2>3. ClientWrites'
    BY <1>6, <1>s, <2>1, WritesNothing DEF OutInv, serverVars
  <2>4. ~(Len(outgoing) <= 2) /\ Len(outgoing) # 3 /\ Len(outgoing) \in Nat
    <3>1. PICK n : n = Len(outgoing)
      OBVIOUS
    <3>2. n \in Nat /\ n >= 5
      BY <2>2, <3>1 DEF TypeInv, TypeOK
    <3> QED
      BY <3>1, <3>2
  <2>5. ClientStage'
    BY <2>1, <2>2, <2>4 DEF ClientStage
  <2> QED
    BY <1>6, <1>s, <2>1, <2>2, <2>3, <2>4, <2>5, ClientMoves
<1>7. CASE HandleUserauthPkOk /\ SessionAlone
  <2>1. UNCHANGED <<incoming, received, kexes, active_kex, negotiated, session_id, pending_ciphers>>
        /\ consumed' = consumed + 1
    BY <1>7 DEF HandleUserauthPkOk, Dispatch, Opened, kexVars
  <2>2. CASE pending_auth = "PublicKeyQuery"
    <3> DEFINE m == [type |-> "USERAUTH_REQUEST", method |-> "signed", over |-> session_id]
    <3>1. m \in ClientMessages /\ m.type \in LaterClient
      BY DEF ClientMessages, TypeInv, TypeOK, LaterClient
    <3>2. SendCiphered(m) /\ UNCHANGED phase
      BY <1>7, <2>2 DEF HandleUserauthPkOk
    <3> HIDE DEF m
    <3> QED
      BY <1>7, <1>s, <2>1, <3>1, <3>2, ClientSends
  <2>3. CASE pending_auth # "PublicKeyQuery"
    BY <1>7, <1>s, <2>1, <2>3, ClientStays DEF HandleUserauthPkOk, Fail
  <2> QED
    BY <2>2, <2>3
<1>8. CASE HandleGlobalRequest /\ SessionAlone
  <2>1. UNCHANGED <<incoming, received, kexes, active_kex, negotiated, phase, pending_ciphers>>
        /\ consumed' = consumed + 1
    BY <1>8 DEF HandleGlobalRequest, Dispatch, Opened, kexVars
  <2>2. CASE SendCiphered(Msg("REQUEST_FAILURE"))
    <3>1. Msg("REQUEST_FAILURE") \in ClientMessages /\ Msg("REQUEST_FAILURE").type \in LaterClient
      BY DEF Msg, ClientMessages, LaterClient
    <3> QED
      BY <1>8, <1>s, <2>1, <2>2, <3>1, ClientSends
  <2>3. CASE UNCHANGED <<outgoing, cs_cipher, panicked>>
    BY <1>8, <1>s, <2>1, <2>3, ClientStays
  <2> QED
    BY <1>8, <2>2, <2>3 DEF HandleGlobalRequest
<1>9. CASE HostPolls
  BY <1>9, ClientStays DEF HostPolls, PollEvent, wires, kexVars, cipherVars
<1>10. CASE HostDecides
  <2>1. phase = "AwaitingHostKeyDecision" /\ UNCHANGED <<incoming, consumed, received, kexVars, serverVars>>
    BY <1>10 DEF HostDecides, ProvideHostKeyDecision
  <2>2. CASE AcceptHostKey
    BY <2>1, <2>2, OutAccept
  <2>3. CASE Fail("HostKeyRejected") /\ UNCHANGED <<outgoing, cipherVars, panicked>>
    BY <2>1, <2>3, ClientStays DEF Fail, kexVars, cipherVars
  <2> QED
    BY <1>10, <2>2, <2>3 DEF HostDecides, ProvideHostKeyDecision
<1>11. CASE HostAuthenticates
  <2>1. PICK pending \in PendingAuths, method \in {"password", "query"} :
             Authenticate(pending, method) /\ UNCHANGED serverVars
    BY <1>11 DEF HostAuthenticates, AuthenticatePassword, AuthenticatePublickey, PendingAuths
  <2> DEFINE m == [type |-> "USERAUTH_REQUEST", method |-> method, over |-> 0]
  <2>2. m \in ClientMessages /\ m.type \in LaterClient
    BY DEF ClientMessages, LaterClient
  <2>3. SendCiphered(m) /\ UNCHANGED <<incoming, consumed, received, phase, kexVars, pending_ciphers>>
    BY <2>1 DEF Authenticate
  <2> HIDE DEF m
  <2> QED
    BY <2>1, <2>2, <2>3, ClientSends DEF kexVars
<1>12. CASE HostOpensChannel
  <2>1. Msg("CHANNEL_OPEN") \in ClientMessages /\ Msg("CHANNEL_OPEN").type \in LaterClient
    BY DEF Msg, ClientMessages, LaterClient
  <2> QED
    BY <1>12, <2>1, ClientSends DEF HostOpensChannel, OpenChannel, kexVars
<1>13. CASE HostCloses
  BY <1>13, ClientStays DEF HostCloses, NotifyTransportClosed, Fail, wires, kexVars, cipherVars
<1>14. CASE SrvSendKexInit /\ ServerAlone
  BY <1>14, <1>v, OutServerKexinit
<1>15. CASE SrvKexEcdhInit /\ ServerAlone
  BY <1>15, <1>v, OutServerReply
<1>16. CASE SrvSendNewKeys /\ ServerAlone
  <2>1. Msg("NEWKEYS") \in ServerMessages /\ Msg("NEWKEYS").type \notin {"KEXINIT", "KEX_REPLY"}
    BY DEF Msg, ServerMessages
  <2>2. /\ Seal(NoCipher, Msg("NEWKEYS")) \in Packets(ServerMessages)
        /\ Seal(NoCipher, Msg("NEWKEYS")).msg = Msg("NEWKEYS")
    BY <2>1, SealType, NoCipherType, Sealed
  <2>3. \E p \in Packets(ServerMessages) : incoming' = Append(incoming, p) /\ p.msg = Msg("NEWKEYS")
    BY <1>16, <2>2 DEF SrvSendNewKeys
  <2> QED
    BY <1>16, <1>v, <2>1, <2>3, OutServerSends DEF SrvSendNewKeys
<1>17. CASE (\/ SrvIdent \/ SrvKexInit \/ SrvNewKeys \/ SrvServiceRequest
             \/ SrvUserauthRequest \/ SrvConnection \/ SrvProtocolError) /\ ServerAlone
  BY <1>17, <1>v, OutServerStep
<1>18. CASE (SrvDebug \/ SrvEarlyDebug \/ SrvDisconnect \/ SrvBanner \/ SrvGlobalRequest) /\ ServerAlone
  <2>1. PICK t \in {"DEBUG", "DISCONNECT", "USERAUTH_BANNER", "GLOBAL_REQUEST"} :
             /\ Reply(Msg(t)) /\ srvPhase' \in {srvPhase, "Gone"}
             /\ UNCHANGED <<consumed, outgoing, received, srvOffer, srvKex, srvIn>>
    BY <1>18 DEF SrvDebug, SrvEarlyDebug, SrvDisconnect, SrvBanner, SrvGlobalRequest, Unsolicited
  <2>2. Msg(t) \in ServerMessages /\ Msg(t).type \notin {"KEXINIT", "KEX_REPLY"}
    BY DEF Msg, ServerMessages
  <2> QED
    BY <1>18, <1>v, <2>1, <2>2, OutServerSends
<1>19. CASE SrvRekey /\ ServerAlone
  <2>1. /\ Reply([type |-> "KEXINIT", offer |-> srvOffer]) /\ srvPhase = "Connected"
        /\ UNCHANGED <<consumed, outgoing, received, srvPhase, srvOffer, srvKex, srvIn, sessionVars>>
    BY <1>19, <1>v DEF SrvRekey, Unsolicited
  <2> DEFINE m == [type |-> "KEXINIT", offer |-> srvOffer]
  <2>2. m \in ServerMessages /\ m.type = "KEXINIT" /\ m.offer = srvOffer
    BY DEF ServerMessages, TypeInv, TypeOK
  <2> HIDE DEF m
  <2>3. PICK p \in Packets(ServerMessages) : incoming' = Append(incoming, p) /\ p.msg = m
    BY <2>1, <2>2, ReplyIs DEF m
  <2>4. incoming \in Seq(Packets(ServerMessages)) /\ 0 \in Nat /\ 0 <= Len(incoming)
    BY DEF TypeInv, TypeOK
  <2>5. /\ KexInits' = KexInits \cup {Len(incoming) + 1} /\ KexReplies' = KexReplies
        /\ \A i \in KexInits : incoming'[i] = incoming[i]
        /\ incoming'[Len(incoming) + 1] = p
    <3>1. p.msg.type \in {"KEXINIT"} /\ p.msg.type \notin {"KEX_REPLY"}
      BY <2>2, <2>3
    <3> QED
      BY <2>3, <2>4, <3>1, PlacedAppend DEF KexInits, KexReplies
  <2>6. Len(outgoing) >= 5 /\ ~(Len(outgoing) <= 3) /\ Len(outgoing) # 3
    <3>1. PICK n, r : n = Len(outgoing) /\ r = received
      OBVIOUS
    <3>2. n \in Nat /\ r \in Nat /\ r >= 5 /\ r <= n
      BY <2>1, <3>1 DEF OutInv, ServerReadsInStep, TypeInv, TypeOK
    <3> QED
      BY <3>1, <3>2
  <2>7. srvKex = 1 /\ srvOffer # NoOffer
    BY <2>6 DEF OutInv, ServerExchanges
  <2>8. ServerExchanges'
    BY <2>1, <2>2, <2>3, <2>5, <2>6, <2>7 DEF OutInv, ServerExchanges, sessionVars
  <2>9. ServerReadsInStep'
    BY <2>1 DEF OutInv, ServerReadsInStep, OutAlg
  <2> QED
    BY <2>1, <2>8, <2>9, ServerMoves
<1>20. CASE UNCHANGED vars
  BY <1>20, ClientStays DEF vars, wires, sessionVars, kexVars, cipherVars
<1> QED
  BY <1>1, <1>2, <1>3, <1>4, <1>5, <1>6, <1>7, <1>8, <1>9, <1>10, <1>11, <1>12, <1>13,
     <1>14, <1>15, <1>16, <1>17, <1>18, <1>19, <1>20
     DEF Next

\* Whatever Quirks the server has, what the client writes opens under the cipher
\* the server holds when it comes to it (provide_host_key_decision,
\* send_ciphered, with_initial_seq).
THEOREM LockstepOutCorrect == Spec => []LockstepOut
<1>1. TypeInv /\ OutInv => LockstepOut
  <2> SUFFICES ASSUME TypeInv, OutInv, received < Len(outgoing), srvPhase # "Gone"
               PROVE  Opens(srvIn, NextFromClient)
    BY DEF LockstepOut
  <2>1. received + 1 \in 1..Len(outgoing)
    BY DEF TypeInv, TypeOK
  <2>2. ClientFits(OutAlg, received + 1, outgoing[received + 1])
    BY <2>1 DEF OutInv, ClientWrites
  <2>3. srvIn = CipherAt(OutAlg, received + 1)
    BY DEF OutInv, ServerReadsInStep
  <2> QED
    BY <2>2, <2>3 DEF ClientFits, NextFromClient
<1> QED
  BY TypeInit, TypeStep, GateInit, GateStep, OutInit, OutStep, <1>1, PTL DEF Spec

-----------------------------------------------------------------------------
\* One authentication step is under way at a time: as a request to the server,
\* an answer of the server's, an event, or a question to the user.

AuthRequests == {"SERVICE_REQUEST", "USERAUTH_REQUEST"}

AuthAnswers == {"SERVICE_ACCEPT", "USERAUTH_PK_OK", "USERAUTH_FAILURE", "USERAUTH_SUCCESS"}

AuthQuestions == {"ReadyForAuth", "AuthFailure"}

Asks == Placed(outgoing, received, AuthRequests)

Answers == Placed(incoming, consumed, AuthAnswers)

Questions == {i \in (polled + 1)..Len(events) : events[i] \in AuthQuestions}

OneTurn ==
    /\ \A i, j \in Asks : i = j
    /\ \A i, j \in Answers : i = j
    /\ \A i, j \in Questions : i = j
    /\ Asks # {} => Answers = {} /\ Questions = {} /\ ~prompted
    /\ Answers # {} => Questions = {} /\ ~prompted
    /\ Questions # {} => ~prompted

\* Whose turn it is fits the phase of the client.
TurnFits ==
    /\ \A i \in Asks : phase \in {"Closed", IF outgoing[i].msg.type = "SERVICE_REQUEST"
                                            THEN "ServiceRequest" ELSE "UserAuth"}
    /\ \A i \in Answers : phase \in {"Closed", IF incoming[i].msg.type = "SERVICE_ACCEPT"
                                               THEN "ServiceRequest" ELSE "UserAuth"}
    /\ Questions # {} \/ prompted => phase \in {"Closed", "UserAuth"}
    /\ \A i \in Asks : outgoing[i].msg.type = "USERAUTH_REQUEST" /\ outgoing[i].msg.method = "query"
          => pending_auth = "PublicKeyQuery"
    /\ \A i \in Answers : incoming[i].msg.type = "USERAUTH_PK_OK" => pending_auth = "PublicKeyQuery"

\* Nothing is answered behind USERAUTH_SUCCESS.
GrantIsLast ==
    /\ granted => srvPhase \in {"Connected", "Gone"}
    /\ \A i, j \in 1..Len(incoming) :
          i < j /\ incoming[i].msg.type = "USERAUTH_SUCCESS" => incoming[j].msg.type \notin AuthAnswers

AuthInv ==
    /\ consumed <= Len(incoming)
    /\ OneTurn /\ TurnFits /\ GrantIsLast

\* Nobody has asked for anything yet.
LEMMA AuthInit == Init => AuthInv
<1> SUFFICES ASSUME Init PROVE AuthInv
  OBVIOUS
<1>1. PICK v : incoming = <<Seal(NoCipher, [type |-> "IDENT", version |-> v])>>
  BY DEF Init
<1>2. Len(incoming) = 1 /\ incoming[1].msg.type = "IDENT"
  BY <1>1 DEF Seal
<1>3. Len(outgoing) = 1 /\ outgoing[1].msg.type = "IDENT"
  BY DEF Init, Seal
<1>4. Asks = {} /\ Answers = {}
  BY <1>2, <1>3 DEF Init, Asks, Answers, Placed, AuthRequests, AuthAnswers
<1>5. Questions = {} /\ ~prompted /\ ~granted
  BY <1>2 DEF Init, SessionInit, Questions, granted
<1> QED
  BY <1>2, <1>4, <1>5 DEF Init, AuthInv, OneTurn, TurnFits, GrantIsLast

\* The events, when one more is queued and when one is polled.
LEMMA QuestionsQueued ==
    ASSUME TypeInv, GateInv, UNCHANGED polled, NEW e \in Events, events' = Append(events, e)
    PROVE  /\ e \notin AuthQuestions => Questions' = Questions
           /\ e \in AuthQuestions => Questions' = Questions \cup {Len(events) + 1}
<1>1. events \in Seq(Events) /\ polled \in Nat /\ polled <= Len(events)
  BY DEF TypeInv, TypeOK, GateInv
<1>2. /\ Len(events') = Len(events) + 1 /\ Len(events) \in Nat /\ events'[Len(events) + 1] = e
      /\ \A i \in 1..Len(events) : events'[i] = events[i]
  BY <1>1
<1>3. \A i : i \in (polled + 1)..Len(events') <=> i \in (polled + 1)..Len(events) \/ i = Len(events) + 1
  BY <1>1, <1>2
<1>4. \A i : i \in (polled + 1)..Len(events) => i \in 1..Len(events)
  BY <1>1
<1>5. \A i : i \in Questions' <=> i \in Questions \/ (i = Len(events) + 1 /\ e \in AuthQuestions)
  BY <1>2, <1>3, <1>4 DEF Questions
<1> QED
  BY <1>5

LEMMA QuestionsPolled ==
    ASSUME TypeInv, polled < Len(events), polled' = polled + 1, UNCHANGED events
    PROVE  /\ Questions' = Questions \ {polled + 1}
           /\ polled + 1 \in Questions <=> events[polled + 1] \in AuthQuestions
<1>1. polled \in Nat /\ Len(events) \in Nat
  BY DEF TypeInv, TypeOK
<1>2. \A i : i \in ((polled + 1) + 1)..Len(events) <=> i \in (polled + 1)..Len(events) /\ i # polled + 1
  BY <1>1
<1>3. polled + 1 \in (polled + 1)..Len(events)
  BY <1>1
<1> QED
  BY <1>2, <1>3 DEF Questions

\* Whoever takes what is due to him leaves one turn the less.
LEMMA TurnStays ==
    ASSUME TypeInv, AuthInv,
           Asks' \subseteq Asks, Answers' \subseteq Answers, Questions' \subseteq Questions,
           \A i \in Asks : outgoing'[i] = outgoing[i],
           \A i \in Answers : incoming'[i] = incoming[i],
           UNCHANGED <<prompted, pending_auth>>, phase' \in {phase, "Closed"},
           consumed' <= Len(incoming'), GrantIsLast'
    PROVE  AuthInv'
<1>1. OneTurn'
  BY DEF AuthInv, OneTurn
<1>2. TurnFits'
  BY DEF AuthInv, TurnFits
<1> QED
  BY <1>1, <1>2 DEF AuthInv

\* The server's messages that answer nothing, and the one that answers.
LEMMA GrantStays ==
    ASSUME AuthInv, UNCHANGED incoming, srvPhase' = srvPhase \/ (granted => srvPhase' \in {"Connected", "Gone"})
    PROVE  GrantIsLast' /\ granted' = granted
BY DEF AuthInv, GrantIsLast, granted

LEMMA GrantAppend ==
    ASSUME TypeInv, AuthInv, NEW p \in Packets(ServerMessages), incoming' = Append(incoming, p),
           p.msg.type \in AuthAnswers => ~granted,
           granted \/ p.msg.type = "USERAUTH_SUCCESS" => srvPhase' \in {"Connected", "Gone"}
    PROVE  GrantIsLast' /\ (granted' <=> granted \/ p.msg.type = "USERAUTH_SUCCESS")
<1>1. incoming \in Seq(Packets(ServerMessages))
  BY DEF TypeInv, TypeOK
<1>2. PICK n \in Nat : n = Len(incoming)
  BY <1>1
<1>3. /\ Len(incoming') = n + 1 /\ incoming'[n + 1] = p
      /\ \A i \in 1..n : incoming'[i] = incoming[i]
      /\ \A i \in 1..Len(incoming') : i \in 1..n \/ i = n + 1
      /\ n + 1 \in 1..Len(incoming') /\ \A i \in 1..n : i \in 1..Len(incoming')
  BY <1>1, <1>2
<1>4. granted' <=> granted \/ p.msg.type = "USERAUTH_SUCCESS"
  BY <1>2, <1>3 DEF granted
<1>5. ASSUME NEW i \in 1..Len(incoming'), NEW j \in 1..Len(incoming'), i < j,
             incoming'[i].msg.type = "USERAUTH_SUCCESS"
      PROVE  incoming'[j].msg.type \notin AuthAnswers
  <2>1. i \in 1..n /\ incoming[i].msg.type = "USERAUTH_SUCCESS"
    BY <1>2, <1>3, <1>5
  <2>2. granted
    BY <1>2, <2>1 DEF granted
  <2>3. CASE j \in 1..n
    BY <1>2, <1>3, <1>5, <2>1, <2>3 DEF AuthInv, GrantIsLast
  <2>4. CASE j = n + 1
    BY <1>3, <2>2, <2>4
  <2> QED
    BY <1>3, <2>3, <2>4
<1> QED
  BY <1>4, <1>5 DEF GrantIsLast

\* The client's log, when one packet more is written to it.
LEMMA AsksAppend ==
    ASSUME TypeInv, OutInv, UNCHANGED received,
           NEW p \in Packets(ClientMessages), outgoing' = Append(outgoing, p)
    PROVE  /\ p.msg.type \notin AuthRequests => Asks' = Asks
           /\ p.msg.type \in AuthRequests => Asks' = Asks \cup {Len(outgoing) + 1}
           /\ \A i \in Asks : outgoing'[i] = outgoing[i]
           /\ outgoing'[Len(outgoing) + 1] = p
<1>1. /\ outgoing \in Seq(Packets(ClientMessages)) /\ received \in Nat
      /\ received <= Len(outgoing)
  BY DEF TypeInv, TypeOK, OutInv, ServerReadsInStep
<1> QED
  BY <1>1, PlacedAppend DEF Asks

LEMMA AnswersAppend ==
    ASSUME TypeInv, AuthInv, UNCHANGED consumed,
           NEW p \in Packets(ServerMessages), incoming' = Append(incoming, p)
    PROVE  /\ p.msg.type \notin AuthAnswers => Answers' = Answers
           /\ p.msg.type \in AuthAnswers => Answers' = Answers \cup {Len(incoming) + 1}
           /\ \A i \in Answers : incoming'[i] = incoming[i]
           /\ incoming'[Len(incoming) + 1] = p
           /\ consumed' <= Len(incoming')
<1>1. /\ incoming \in Seq(Packets(ServerMessages)) /\ consumed \in Nat
      /\ consumed <= Len(incoming)
  BY DEF TypeInv, TypeOK, AuthInv
<1>2. Len(incoming') = Len(incoming) + 1 /\ Len(incoming) \in Nat
  BY <1>1
<1>3. consumed' <= Len(incoming')
  BY <1>1, <1>2
<1> QED
  BY <1>1, <1>3, PlacedAppend DEF Answers

\* A handler or a call that has nothing to do with authentication.
LEMMA ClientQuiet ==
    ASSUME TypeInv, GateInv, OutInv, AuthInv,
           UNCHANGED <<incoming, received, srvPhase, polled, prompted, pending_auth>>,
           phase' \in {phase, "Closed"},
           consumed' = consumed \/ (consumed < Len(incoming) /\ consumed' = consumed + 1),
           \/ UNCHANGED outgoing
           \/ \E p \in Packets(ClientMessages) :
                 outgoing' = Append(outgoing, p) /\ p.msg.type \notin AuthRequests,
           \/ UNCHANGED events
           \/ \E e \in Events \ AuthQuestions : events' = Append(events, e)
    PROVE  AuthInv'
<1>1. Asks' = Asks /\ \A i \in Asks : outgoing'[i] = outgoing[i]
  BY AsksAppend DEF Asks, Placed
<1>2. Answers' \subseteq Answers /\ consumed' <= Len(incoming')
  <2>1. CASE consumed' = consumed
    BY <2>1 DEF Answers, AuthInv
  <2>2. CASE consumed < Len(incoming) /\ consumed' = consumed + 1
    <3>1. Placed(incoming, consumed + 1, AuthAnswers) = Placed(incoming, consumed, AuthAnswers) \ {consumed + 1}
      BY <2>2, PlacedTake DEF TypeInv, TypeOK
    <3>2. consumed + 1 <= Len(incoming)
      BY <2>2 DEF TypeInv, TypeOK
    <3> QED
      BY <2>2, <3>1, <3>2 DEF Answers
  <2> QED
    BY <2>1, <2>2
<1>3. Questions' = Questions
  BY QuestionsQueued DEF Questions
<1>4. GrantIsLast'
  BY GrantStays
<1> QED
  BY <1>1, <1>2, <1>3, <1>4, TurnStays

\* What send_ciphered writes, if it writes.
LEMMA SendsOne ==
    ASSUME TypeInv, NEW m \in ClientMessages, SendCiphered(m)
    PROVE  \/ UNCHANGED outgoing
           \/ \E p \in Packets(ClientMessages) : outgoing' = Append(outgoing, p) /\ p.msg = m
<1>1. Seal(cs_cipher, m) \in Packets(ClientMessages) /\ Seal(cs_cipher, m).msg = m
  BY SealType, Sealed DEF TypeInv, TypeOK
<1> QED
  BY <1>1 DEF SendCiphered

\* The handlers of the answers: the one that is due is taken.
LEMMA TakesAnswer ==
    ASSUME TypeInv, OutInv, AuthInv, NEW t \in AuthAnswers, Dispatch(t)
    PROVE  /\ consumed + 1 \in Answers /\ incoming[consumed + 1].msg.type = t
           /\ Answers = {consumed + 1} /\ Asks = {} /\ Questions = {} /\ ~prompted
           /\ phase = (IF t = "SERVICE_ACCEPT" THEN "ServiceRequest" ELSE "UserAuth")
           /\ consumed' <= Len(incoming) /\ Placed(incoming, consumed', AuthAnswers) = {}
           /\ t \in {"USERAUTH_PK_OK", "USERAUTH_FAILURE"} => ~granted
           /\ t = "USERAUTH_PK_OK" => pending_auth = "PublicKeyQuery"
           /\ t = "USERAUTH_SUCCESS" => granted
<1>1. /\ incoming \in Seq(Packets(ServerMessages)) /\ consumed \in Nat /\ consumed < Len(incoming)
      /\ incoming[consumed + 1].msg.type = t /\ consumed' = consumed + 1 /\ phase # "Closed"
  BY DEF Dispatch, Driving, NextPacket, TypeInv, TypeOK
<1>2. /\ consumed + 1 \in Answers
      /\ Placed(incoming, consumed + 1, AuthAnswers) = Answers \ {consumed + 1}
  BY <1>1, PlacedTake DEF Answers
<1>3. Answers = {consumed + 1} /\ Asks = {} /\ Questions = {} /\ ~prompted
  BY <1>2 DEF AuthInv, OneTurn
<1>4. consumed + 1 \in 1..Len(incoming) /\ consumed' <= Len(incoming)
  BY <1>1
<1>5. ASSUME t # "USERAUTH_SUCCESS", granted, t # "SERVICE_ACCEPT" PROVE FALSE
  <2>1. PICK i \in 1..Len(incoming) : incoming[i].msg.type = "USERAUTH_SUCCESS"
    BY <1>5 DEF granted
  <2>2. CASE i < consumed + 1
    BY <1>1, <1>4, <2>1, <2>2 DEF AuthInv, GrantIsLast
  <2>3. CASE i > consumed
    <3>1. i \in (consumed + 1)..Len(incoming)
      BY <1>1, <2>1, <2>3
    <3>2. i \in Answers
      BY <2>1, <3>1 DEF Answers, Placed, AuthAnswers
    <3> QED
      BY <1>1, <1>3, <1>5, <2>1, <3>2
  <2> QED
    BY <1>1, <2>1, <2>2, <2>3
<1>6. phase = (IF t = "SERVICE_ACCEPT" THEN "ServiceRequest" ELSE "UserAuth")
  BY <1>1, <1>2 DEF AuthInv, TurnFits
<1>7. t = "USERAUTH_PK_OK" => pending_auth = "PublicKeyQuery"
  BY <1>1, <1>2 DEF AuthInv, TurnFits
<1>8. t = "USERAUTH_SUCCESS" => granted
  BY <1>1, <1>4 DEF granted
<1> QED
  BY <1>1, <1>2, <1>3, <1>4, <1>5, <1>6, <1>7, <1>8

\* handle_service_accept and handle_userauth_*: the answer becomes an event, or
\* the signed request.
LEMMA AuthHandlers ==
    ASSUME TypeInv, GateInv, OutInv, AuthInv, UNCHANGED <<serverVars, prompted>>,
           \/ HandleServiceAccept \/ HandleUserauthFailure \/ HandleUserauthSuccess
           \/ HandleUserauthPkOk
    PROVE  AuthInv'
<1>1. GrantIsLast'
  BY GrantStays
     DEF serverVars, HandleServiceAccept, HandleUserauthFailure, HandleUserauthSuccess,
         HandleUserauthPkOk
<1>2. UNCHANGED <<incoming, received, polled>>
  BY DEF HandleServiceAccept, HandleUserauthFailure, HandleUserauthSuccess, HandleUserauthPkOk
<1>3. CASE HandleServiceAccept \/ HandleUserauthFailure
  <2>1. PICK t \in {"SERVICE_ACCEPT", "USERAUTH_FAILURE"}, e \in AuthQuestions :
             Dispatch(t) /\ Emit(e) /\ UNCHANGED outgoing
             /\ phase' = (IF t = "SERVICE_ACCEPT" THEN "UserAuth" ELSE phase)
    BY <1>3 DEF HandleServiceAccept, HandleUserauthFailure, AuthQuestions
  <2>2. /\ Answers' = {} /\ Asks' = {} /\ Questions = {} /\ ~prompted
        /\ phase' = "UserAuth" /\ consumed' <= Len(incoming')
    BY <1>2, <2>1, TakesAnswer DEF AuthAnswers, Answers, Asks
  <2>3. Questions' = {Len(events) + 1}
    BY <1>2, <2>1, <2>2, QuestionsQueued DEF Emit, AuthQuestions, Events
  <2> QED
    BY <1>1, <2>2, <2>3 DEF AuthInv, OneTurn, TurnFits
<1>4. CASE HandleUserauthSuccess
  <2>1. Dispatch("USERAUTH_SUCCESS") /\ Emit("AuthSuccess") /\ UNCHANGED outgoing
    BY <1>4 DEF HandleUserauthSuccess
  <2>2. Answers' = {} /\ Asks' = {} /\ Questions = {} /\ ~prompted /\ consumed' <= Len(incoming')
    BY <1>2, <2>1, TakesAnswer DEF AuthAnswers, Answers, Asks
  <2>3. Questions' = {}
    BY <1>2, <2>1, <2>2, QuestionsQueued DEF Emit, AuthQuestions, Events
  <2> QED
    BY <1>1, <2>2, <2>3 DEF AuthInv, OneTurn, TurnFits
<1>5. CASE HandleUserauthPkOk
  <2>1. Dispatch("USERAUTH_PK_OK")
    BY <1>5 DEF HandleUserauthPkOk
  <2>2. /\ Answers' = {} /\ Asks = {} /\ Questions = {} /\ ~prompted /\ consumed' <= Len(incoming')
        /\ pending_auth = "PublicKeyQuery" /\ phase = "UserAuth"
    BY <1>2, <2>1, TakesAnswer DEF AuthAnswers, Answers
  <2> DEFINE m == [type |-> "USERAUTH_REQUEST", method |-> "signed", over |-> session_id]
  <2>3. m \in ClientMessages /\ m.type = "USERAUTH_REQUEST" /\ m.method = "signed"
    BY DEF ClientMessages, TypeInv, TypeOK
  <2>4. SendCiphered(m) /\ UNCHANGED <<phase, events>>
    BY <1>5, <2>2 DEF HandleUserauthPkOk
  <2> HIDE DEF m
  <2>5. Questions' = {}
    BY <1>2, <2>2, <2>4 DEF Questions
  <2>6. CASE UNCHANGED outgoing
    <3>1. Asks' = {}
      BY <1>2, <2>2, <2>6 DEF Asks
    <3> QED
      BY <1>1, <2>2, <2>5, <3>1 DEF AuthInv, OneTurn, TurnFits
  <2>7. CASE ~ UNCHANGED outgoing
    <3>1. PICK p \in Packets(ClientMessages) : outgoing' = Append(outgoing, p) /\ p.msg = m
      BY <2>3, <2>4, <2>7, SendsOne
    <3>2. Asks' = {Len(outgoing) + 1} /\ outgoing'[Len(outgoing) + 1].msg = m
      BY <1>2, <2>2, <2>3, <3>1, AsksAppend DEF AuthRequests
    <3> QED
      BY <1>1, <2>2, <2>3, <2>4, <2>5, <3>2 DEF AuthInv, OneTurn, TurnFits
  <2> QED
    BY <2>6, <2>7
<1> QED
  BY <1>3, <1>4, <1>5

\* provide_host_key_decision(true) asks for the service: nothing else can be due.
LEMMA AuthAccept ==
    ASSUME TypeInv, GateInv, OutInv, AuthInv, AcceptHostKey, phase = "AwaitingHostKeyDecision",
           UNCHANGED <<incoming, consumed, received, serverVars, polled, prompted, pending_auth>>
    PROVE  AuthInv'
<1> DEFINE a == Seal(NoCipher, Msg("NEWKEYS"))
           b == Seal(pending_ciphers, Msg("SERVICE_REQUEST"))
<1>1. Asks = {} /\ Answers = {} /\ Questions = {} /\ ~prompted
  BY DEF AuthInv, TurnFits
<1>2. a.msg.type = "NEWKEYS" /\ b.msg.type = "SERVICE_REQUEST"
  BY DEF Seal, Msg
<1>3. a \in Packets(ClientMessages) /\ b \in Packets(ClientMessages)
  <2>1. Msg("NEWKEYS") \in ClientMessages /\ Msg("SERVICE_REQUEST") \in ClientMessages
    BY DEF Msg, ClientMessages
  <2> QED
    BY <2>1, SealType, NoCipherType DEF TypeInv, TypeOK
<1>4. /\ outgoing \in Seq(Packets(ClientMessages)) /\ received \in Nat
      /\ received <= Len(outgoing) /\ Len(outgoing) = 3
  BY DEF TypeInv, TypeOK, OutInv, ServerReadsInStep, ClientStage
<1>5. outgoing' = Append(Append(outgoing, a), b)
  BY <1>3, <1>4 DEF AcceptHostKey
<1>6. PICK r : r = Append(outgoing, a)
  OBVIOUS
<1> HIDE DEF a, b
<1>7. Placed(r, received, AuthRequests) = {}
  <2>1. a.msg.type \notin AuthRequests
    BY <1>2 DEF AuthRequests
  <2> QED
    BY <1>1, <1>3, <1>4, <1>6, <2>1, PlacedAppend DEF Asks
<1>8. r \in Seq(Packets(ClientMessages)) /\ Len(r) = 4 /\ received <= Len(r)
  <2>1. Len(r) = Len(outgoing) + 1 /\ r \in Seq(Packets(ClientMessages))
    BY <1>3, <1>4, <1>6, Appended
  <2>2. PICK n : n = received
    OBVIOUS
  <2>3. n \in Nat /\ n <= 3
    BY <1>4, <2>2
  <2> QED
    BY <1>4, <2>1, <2>2, <2>3
<1>9. Asks' = {Len(r) + 1} /\ outgoing'[Len(r) + 1] = b
  <2>1. b.msg.type \in AuthRequests
    BY <1>2 DEF AuthRequests
  <2>2. outgoing' = Append(r, b)
    BY <1>5, <1>6
  <2> QED
    BY <1>3, <1>4, <1>7, <1>8, <2>1, <2>2, PlacedAppend DEF Asks
<1>10. Answers' = {} /\ Questions' = {} /\ ~prompted' /\ phase' = "ServiceRequest"
  BY <1>1 DEF Answers, Questions, AcceptHostKey
<1>11. GrantIsLast'
  BY GrantStays DEF serverVars
<1> QED
  BY <1>2, <1>9, <1>10, <1>11 DEF AuthInv, OneTurn, TurnFits

\* The host polls the question, and answers it.
LEMMA AuthHost ==
    ASSUME TypeInv, GateInv, OutInv, AuthInv, HostPolls \/ HostAuthenticates
    PROVE  AuthInv'
<1>1. CASE HostPolls
  <2>1. /\ UNCHANGED <<incoming, consumed, outgoing, received, srvPhase, phase, pending_auth, events>>
        /\ polled < Len(events) /\ polled' = polled + 1
        /\ prompted' = (prompted \/ events[polled + 1] \in AuthQuestions)
    BY <1>1 DEF HostPolls, PollEvent, wires, serverVars, AuthQuestions
  <2>2. /\ Questions' = Questions \ {polled + 1}
        /\ polled + 1 \in Questions <=> events[polled + 1] \in AuthQuestions
    BY <2>1, QuestionsPolled
  <2>3. Asks' = Asks /\ Answers' = Answers /\ GrantIsLast'
    BY <2>1, GrantStays DEF Asks, Answers
  <2>4. CASE events[polled + 1] \in AuthQuestions
    <3>1. Questions' = {} /\ Asks = {} /\ Answers = {} /\ phase \in {"Closed", "UserAuth"}
      BY <2>2, <2>4 DEF AuthInv, OneTurn, TurnFits
    <3> QED
      BY <2>1, <2>3, <3>1 DEF AuthInv, OneTurn, TurnFits
  <2>5. CASE events[polled + 1] \notin AuthQuestions
    <3>1. Questions' = Questions
      BY <2>2, <2>5
    <3>2. prompted' <=> prompted
      BY <2>1, <2>5
    <3> QED
      BY <2>1, <2>3, <3>1, <3>2 DEF AuthInv, OneTurn, TurnFits
  <2> QED
    BY <2>4, <2>5
<1>2. CASE HostAuthenticates
  <2>1. PICK pending, method :
             /\ Authenticate(pending, method) /\ UNCHANGED serverVars
             /\ prompted /\ ~prompted'
             /\ \/ pending = "Password" /\ method = "password"
                \/ pending = "PublicKeyQuery" /\ method = "query"
    BY <1>2 DEF HostAuthenticates, AuthenticatePassword, AuthenticatePublickey
  <2>2. /\ UNCHANGED <<incoming, consumed, received, srvPhase, phase, polled, events>>
        /\ phase = "UserAuth" /\ pending_auth' = pending
    BY <2>1 DEF Authenticate, serverVars
  <2>3. Asks = {} /\ Answers' = {} /\ Questions' = {} /\ GrantIsLast' /\ consumed' <= Len(incoming')
    BY <2>1, <2>2, GrantStays DEF AuthInv, OneTurn, Answers, Questions
  <2> DEFINE m == [type |-> "USERAUTH_REQUEST", method |-> method, over |-> 0]
  <2>4. m \in ClientMessages /\ m.type = "USERAUTH_REQUEST" /\ m.method = method
    BY <2>1 DEF ClientMessages
  <2>5. SendCiphered(m)
    BY <2>1 DEF Authenticate
  <2> HIDE DEF m
  <2>6. CASE UNCHANGED outgoing
    <3>1. Asks' = {}
      BY <2>2, <2>3, <2>6 DEF Asks
    <3> QED
      BY <2>1, <2>3, <3>1 DEF AuthInv, OneTurn, TurnFits
  <2>7. CASE ~ UNCHANGED outgoing
    <3>1. PICK p \in Packets(ClientMessages) : outgoing' = Append(outgoing, p) /\ p.msg = m
      BY <2>4, <2>5, <2>7, SendsOne
    <3>2. Asks' = {Len(outgoing) + 1} /\ outgoing'[Len(outgoing) + 1].msg = m
      BY <2>2, <2>3, <2>4, <3>1, AsksAppend DEF AuthRequests
    <3> QED
      BY <2>1, <2>2, <2>3, <2>4, <3>2 DEF AuthInv, OneTurn, TurnFits
  <2> QED
    BY <2>6, <2>7
<1> QED
  BY <1>1, <1>2

-----------------------------------------------------------------------------
\* The server's side of it.

\* The request that is due is taken.
LEMMA TakesRequest ==
    ASSUME TypeInv, AuthInv, NEW t \in AuthRequests, Takes(t)
    PROVE  /\ Placed(outgoing, received', AuthRequests) = {}
           /\ Answers = {} /\ Questions = {} /\ ~prompted
           /\ phase \in {"Closed", IF t = "SERVICE_REQUEST" THEN "ServiceRequest" ELSE "UserAuth"}
           /\ t = "USERAUTH_REQUEST" /\ NextFromClient.msg.method = "query"
                 => pending_auth = "PublicKeyQuery"
<1>1. /\ outgoing \in Seq(Packets(ClientMessages)) /\ received \in Nat /\ received < Len(outgoing)
      /\ outgoing[received + 1].msg.type = t /\ received' = received + 1
      /\ NextFromClient = outgoing[received + 1]
  BY DEF Takes, Receiving, NextFromClient, TypeInv, TypeOK
<1>2. /\ received + 1 \in Asks
      /\ Placed(outgoing, received + 1, AuthRequests) = Asks \ {received + 1}
  BY <1>1, PlacedTake DEF Asks
<1>3. Asks = {received + 1} /\ Answers = {} /\ Questions = {} /\ ~prompted
  BY <1>2 DEF AuthInv, OneTurn
<1>4. /\ phase \in {"Closed", IF t = "SERVICE_REQUEST" THEN "ServiceRequest" ELSE "UserAuth"}
      /\ t = "USERAUTH_REQUEST" /\ NextFromClient.msg.method = "query"
            => pending_auth = "PublicKeyQuery"
  BY <1>1, <1>2 DEF AuthInv, TurnFits
<1> QED
  BY <1>1, <1>2, <1>3, <1>4

\* Anything the server takes and sends that is no request and no answer.
LEMMA ServerQuiet ==
    ASSUME TypeInv, OutInv, AuthInv, UNCHANGED <<consumed, outgoing, sessionVars, prompted>>,
           received' = received \/ (received < Len(outgoing) /\ received' = received + 1),
           \/ UNCHANGED incoming
           \/ \E p \in Packets(ServerMessages) :
                 incoming' = Append(incoming, p) /\ p.msg.type \notin AuthAnswers,
           srvPhase' = srvPhase \/ (granted => srvPhase' \in {"Connected", "Gone"})
    PROVE  AuthInv'
<1>1. Asks' \subseteq Asks
  <2>1. CASE received' = received
    BY <2>1 DEF Asks
  <2>2. CASE received < Len(outgoing) /\ received' = received + 1
    <3>1. Placed(outgoing, received + 1, AuthRequests) = Placed(outgoing, received, AuthRequests) \ {received + 1}
      BY <2>2, PlacedTake DEF TypeInv, TypeOK
    <3> QED
      BY <2>2, <3>1 DEF Asks
  <2> QED
    BY <2>1, <2>2
<1>2. UNCHANGED <<phase, pending_auth>> /\ Questions' = Questions
  BY DEF sessionVars, Questions
<1>3. granted => srvPhase' \in {"Connected", "Gone"}
  BY DEF AuthInv, GrantIsLast
<1>4. CASE UNCHANGED incoming
  BY <1>1, <1>2, <1>4, GrantStays, TurnStays DEF Answers, AuthInv
<1>5. CASE ~ UNCHANGED incoming
  <2>1. PICK p \in Packets(ServerMessages) :
             incoming' = Append(incoming, p) /\ p.msg.type \notin AuthAnswers
    BY <1>5
  <2>2. Answers' = Answers /\ (\A i \in Answers : incoming'[i] = incoming[i]) /\ consumed' <= Len(incoming')
    BY <2>1, AnswersAppend
  <2>3. p.msg.type # "USERAUTH_SUCCESS"
    BY <2>1 DEF AuthAnswers
  <2>4. GrantIsLast'
    BY <1>3, <2>1, <2>3, GrantAppend
  <2> QED
    BY <1>1, <1>2, <2>2, <2>4, TurnStays
<1> QED
  BY <1>4, <1>5

\* handle_service_request and handle_userauth_request: the request becomes its
\* answer.
LEMMA ServerAnswers ==
    ASSUME TypeInv, OutInv, AuthInv, UNCHANGED <<consumed, outgoing, sessionVars, prompted>>,
           NEW t \in AuthRequests, Takes(t), NEW a \in AuthAnswers, Reply(Msg(a)),
           srvPhase \notin {"Connected", "Gone"},
           a = "SERVICE_ACCEPT" <=> t = "SERVICE_REQUEST",
           a = "USERAUTH_PK_OK" => NextFromClient.msg.method = "query",
           a = "USERAUTH_SUCCESS" => srvPhase' = "Connected"
    PROVE  AuthInv' /\ ~granted /\ (granted' <=> a = "USERAUTH_SUCCESS")
<1>1. /\ Asks' = {} /\ Answers = {} /\ Questions = {} /\ ~prompted
      /\ phase \in {"Closed", IF t = "SERVICE_REQUEST" THEN "ServiceRequest" ELSE "UserAuth"}
      /\ a = "USERAUTH_PK_OK" => pending_auth = "PublicKeyQuery"
  BY TakesRequest DEF Asks, AuthRequests
<1>2. UNCHANGED <<phase, pending_auth>> /\ Questions' = {} /\ ~prompted'
  BY <1>1 DEF sessionVars, Questions
<1>3. ~granted
  BY DEF AuthInv, GrantIsLast
<1>4. Msg(a) \in ServerMessages /\ Msg(a).type = a
  BY DEF Msg, ServerMessages, AuthAnswers
<1>5. PICK p \in Packets(ServerMessages) : incoming' = Append(incoming, p) /\ p.msg = Msg(a)
  BY <1>4, ReplyIs
<1>6. p.msg.type = a
  BY <1>4, <1>5
<1>7. /\ Answers' = {Len(incoming) + 1} /\ incoming'[Len(incoming) + 1].msg.type = a
      /\ consumed' <= Len(incoming')
  BY <1>1, <1>5, <1>6, AnswersAppend
<1>8. GrantIsLast' /\ (granted' <=> a = "USERAUTH_SUCCESS")
  BY <1>3, <1>5, <1>6, GrantAppend
<1>9. OneTurn'
  BY <1>1, <1>2, <1>7 DEF OneTurn
<1>10. TurnFits'
  BY <1>1, <1>2, <1>7 DEF TurnFits
<1> QED
  BY <1>3, <1>7, <1>8, <1>9, <1>10 DEF AuthInv

\* The server's answers, named.
LEMMA UserauthAnswered ==
    ASSUME SrvUserauthRequest
    PROVE  \E a \in {"USERAUTH_PK_OK", "USERAUTH_SUCCESS", "USERAUTH_FAILURE"} :
              /\ Takes("USERAUTH_REQUEST") /\ Reply(Msg(a)) /\ srvPhase = "AwaitingUserAuth"
              /\ a = "USERAUTH_PK_OK" => NextFromClient.msg.method = "query"
              /\ a = "USERAUTH_SUCCESS" => srvPhase' = "Connected"
              /\ UNCHANGED <<consumed, outgoing>>
BY DEF SrvUserauthRequest

LEMMA AuthStep == TypeInv /\ GateInv /\ OutInv /\ AuthInv /\ [Next]_vars => AuthInv'
<1> SUFFICES ASSUME TypeInv, GateInv, OutInv, AuthInv, [Next]_vars PROVE AuthInv'
  OBVIOUS
<1>s. ASSUME SessionAlone PROVE UNCHANGED <<serverVars, srvPhase, prompted>>
  BY <1>s DEF SessionAlone, serverVars, hostVars
<1>v. ASSUME ServerAlone PROVE UNCHANGED <<sessionVars, prompted>>
  BY <1>v DEF ServerAlone, hostVars
<1>e. \A err \in Errors : err \in Events \ AuthQuestions
  BY DEF Events, TerminalEvents, Errors, AuthQuestions
<1>m. ASSUME NEW m \in ClientMessages, m.type \notin AuthRequests, SendCiphered(m)
      PROVE  \/ UNCHANGED outgoing
             \/ \E p \in Packets(ClientMessages) :
                   outgoing' = Append(outgoing, p) /\ p.msg.type \notin AuthRequests
  BY <1>m, SendsOne
<1>p. ASSUME NEW m \in ClientMessages, m.type \notin AuthRequests, SendPlaintext(m)
      PROVE  \E p \in Packets(ClientMessages) :
                outgoing' = Append(outgoing, p) /\ p.msg.type \notin AuthRequests
  <2>1. Seal(NoCipher, m) \in Packets(ClientMessages) /\ Seal(NoCipher, m).msg = m
    BY SealType, NoCipherType, Sealed
  <2> QED
    BY <1>p, <2>1 DEF SendPlaintext
<1>r. ASSUME NEW m \in ServerMessages, m.type \notin AuthAnswers, Reply(m)
      PROVE  \E p \in Packets(ServerMessages) :
                incoming' = Append(incoming, p) /\ p.msg.type \notin AuthAnswers
  BY <1>r, ReplyIs
<1>c. \A t : Dispatch(t) => consumed < Len(incoming) /\ consumed' = consumed + 1
  BY DEF Dispatch, Driving
<1>t. \A t : Takes(t) => received < Len(outgoing) /\ received' = received + 1
  BY DEF Takes, Receiving
<1>1. CASE DriveVersionExchange /\ SessionAlone
  <2>1. /\ UNCHANGED <<incoming, received, srvPhase, polled, prompted, pending_auth>>
        /\ consumed < Len(incoming)
    BY <1>1, <1>s DEF DriveVersionExchange, Driving
  <2>2. CASE SendPlaintext(Msg("KEXINIT")) /\ phase' = "KexInProgress" /\ consumed' = consumed + 1
             /\ UNCHANGED events
    <3>1. Asks = {} /\ Answers = {} /\ Questions = {} /\ ~prompted
      BY <1>1 DEF DriveVersionExchange, AuthInv, TurnFits
    <3>2. Msg("KEXINIT") \in ClientMessages /\ Msg("KEXINIT").type \notin AuthRequests
      BY DEF Msg, ClientMessages, AuthRequests
    <3>3. Asks' = {}
      BY <1>p, <2>1, <2>2, <3>1, <3>2, AsksAppend
    <3>4. Answers' = {} /\ consumed' <= Len(incoming')
      <4>1. Placed(incoming, consumed + 1, AuthAnswers) = Placed(incoming, consumed, AuthAnswers) \ {consumed + 1}
        BY <2>1, PlacedTake DEF TypeInv, TypeOK
      <4>2. consumed + 1 <= Len(incoming)
        BY <2>1 DEF TypeInv, TypeOK
      <4> QED
        BY <2>1, <2>2, <3>1, <4>1, <4>2 DEF Answers
    <3>5. Questions' = {} /\ ~prompted' /\ GrantIsLast'
      BY <2>1, <2>2, <3>1, GrantStays DEF Questions
    <3> QED
      BY <3>3, <3>4, <3>5 DEF AuthInv, OneTurn, TurnFits
  <2>3. CASE Fail("Ident") /\ UNCHANGED <<consumed, outgoing>>
    BY <1>e, <2>1, <2>3, ClientQuiet DEF Fail, Errors
  <2> QED
    BY <1>1, <2>2, <2>3 DEF DriveVersionExchange
<1>2. CASE (DriveUndecodable \/ HandleDisconnect \/ HandleIgnored) /\ SessionAlone
  <2>1. /\ UNCHANGED <<incoming, received, outgoing, polled, pending_auth>>
        /\ phase' \in {phase, "Closed"}
        /\ consumed < Len(incoming) /\ consumed' = consumed + 1
    BY <1>2 DEF DriveUndecodable, HandleDisconnect, HandleIgnored, Dispatch, Driving, Fail
  <2>2. UNCHANGED events \/ \E e \in Events \ AuthQuestions : events' = Append(events, e)
    BY <1>2 DEF DriveUndecodable, HandleDisconnect, HandleIgnored, Fail, Emit, Events,
                TerminalEvents, Errors, AuthQuestions
  <2> QED
    BY <1>2, <1>s, <2>1, <2>2, ClientQuiet
<1>3. CASE HandlePeerKexinit /\ SessionAlone
  <2>1. /\ UNCHANGED <<incoming, received, polled, pending_auth>>
        /\ consumed < Len(incoming) /\ consumed' = consumed + 1
    BY <1>3, <1>c DEF HandlePeerKexinit
  <2>2. CASE kexes' = kexes + 1 /\ SendPlaintextOrCiphered([type |-> "KEX_INIT", kex |-> kexes'])
             /\ UNCHANGED <<phase, events>>
    <3> DEFINE m == [type |-> "KEX_INIT", kex |-> kexes']
    <3>1. m \in ClientMessages /\ m.type \notin AuthRequests
      BY <2>2 DEF ClientMessages, TypeInv, TypeOK, AuthRequests
    <3>2. SendPlaintext(m) \/ SendCiphered(m)
      BY <2>2 DEF SendPlaintextOrCiphered
    <3> HIDE DEF m
    <3> QED
      BY <1>3, <1>s, <1>m, <1>p, <2>1, <2>2, <3>1, <3>2, ClientQuiet
  <2>3. CASE Fail("Negotiation") /\ UNCHANGED outgoing
    BY <1>3, <1>s, <1>e, <2>1, <2>3, ClientQuiet DEF Fail, Errors
  <2> QED
    BY <1>3, <2>2, <2>3 DEF HandlePeerKexinit
<1>4. CASE (HandleKexReply \/ HandleNewkeys \/ HandleUnexpected) /\ SessionAlone
  <2>1. /\ UNCHANGED <<incoming, received, outgoing, polled, pending_auth>>
        /\ consumed < Len(incoming) /\ consumed' = consumed + 1
    BY <1>4, <1>c DEF HandleKexReply, HandleNewkeys, HandleUnexpected
  <2>2. CASE phase' \in {phase, "Closed"}
    <3>1. UNCHANGED events \/ \E e \in Events \ AuthQuestions : events' = Append(events, e)
      BY <1>4 DEF HandleKexReply, HandleNewkeys, HandleUnexpected, Fail, Emit, Events,
                  TerminalEvents, Errors, AuthQuestions
    <3> QED
      BY <1>4, <1>s, <2>1, <2>2, <3>1, ClientQuiet
  <2>3. CASE HandleKexReply /\ phase' = "AwaitingHostKeyDecision"
    <3>1. Emit("HostKeyVerify") /\ phase = "KexInProgress"
      <4>1. Emit("HostKeyVerify")
        BY <2>3 DEF HandleKexReply, Fail
      <4>2. Dispatch("KEX_REPLY")
        BY <2>3 DEF HandleKexReply
      <4>3. ~(Len(outgoing) >= 5)
        <5>1. consumed + 1 \in KexReplies /\ consumed \in Nat
          BY <4>2, DispatchStage DEF KexReplies, TypeInv, TypeOK
        <5> QED
          BY <5>1 DEF OutInv, ServerExchanges
      <4> QED
        BY <4>1, <4>2, <4>3, DispatchStage
    <3>2. Asks = {} /\ Answers = {} /\ Questions = {} /\ ~prompted
      BY <3>1 DEF AuthInv, TurnFits
    <3>3. Asks' = {} /\ GrantIsLast' /\ ~prompted'
      BY <1>4, <1>s, <2>1, <3>2, GrantStays DEF Asks
    <3>4. Answers' = {} /\ consumed' <= Len(incoming')
      <4>1. Placed(incoming, consumed + 1, AuthAnswers) = Placed(incoming, consumed, AuthAnswers) \ {consumed + 1}
        BY <2>1, PlacedTake DEF TypeInv, TypeOK
      <4>2. consumed + 1 <= Len(incoming)
        BY <2>1 DEF TypeInv, TypeOK
      <4> QED
        BY <2>1, <3>2, <4>1, <4>2 DEF Answers
    <3>5. Questions' = {}
      BY <2>1, <3>1, <3>2, QuestionsQueued DEF Emit, Events, AuthQuestions
    <3> QED
      BY <3>3, <3>4, <3>5 DEF AuthInv, OneTurn, TurnFits
  <2> QED
    BY <1>4, <2>2, <2>3 DEF HandleKexReply, HandleNewkeys, HandleUnexpected, Fail
<1>5. CASE (\/ HandleServiceAccept \/ HandleUserauthFailure \/ HandleUserauthSuccess
            \/ HandleUserauthPkOk) /\ SessionAlone
  BY <1>5, <1>s, AuthHandlers
<1>6. CASE HandleGlobalRequest /\ SessionAlone
  <2>1. /\ UNCHANGED <<incoming, received, polled, pending_auth, phase, events>>
        /\ consumed < Len(incoming) /\ consumed' = consumed + 1
    BY <1>6, <1>c DEF HandleGlobalRequest
  <2>2. CASE SendCiphered(Msg("REQUEST_FAILURE"))
    <3>1. Msg("REQUEST_FAILURE") \in ClientMessages /\ Msg("REQUEST_FAILURE").type \notin AuthRequests
      BY DEF Msg, ClientMessages, AuthRequests
    <3> QED
      BY <1>6, <1>s, <1>m, <2>1, <2>2, <3>1, ClientQuiet
  <2>3. CASE UNCHANGED <<outgoing, cs_cipher, panicked>>
    BY <1>6, <1>s, <2>1, <2>3, ClientQuiet
  <2> QED
    BY <1>6, <2>2, <2>3 DEF HandleGlobalRequest
<1>7. CASE HostPolls \/ HostAuthenticates
  BY <1>7, AuthHost
<1>8. CASE HostDecides
  <2>1. /\ phase = "AwaitingHostKeyDecision"
        /\ UNCHANGED <<incoming, consumed, received, polled, pending_auth, serverVars, srvPhase, prompted>>
    BY <1>8 DEF HostDecides, ProvideHostKeyDecision, serverVars
  <2>2. CASE AcceptHostKey
    BY <2>1, <2>2, AuthAccept
  <2>3. CASE Fail("HostKeyRejected") /\ UNCHANGED outgoing
    BY <1>e, <2>1, <2>3, ClientQuiet DEF Fail, Errors
  <2> QED
    BY <1>8, <2>2, <2>3 DEF HostDecides, ProvideHostKeyDecision
<1>9. CASE HostOpensChannel
  <2>1. Msg("CHANNEL_OPEN") \in ClientMessages /\ Msg("CHANNEL_OPEN").type \notin AuthRequests
    BY DEF Msg, ClientMessages, AuthRequests
  <2> QED
    BY <1>9, <1>m, <2>1, ClientQuiet DEF HostOpensChannel, OpenChannel, serverVars, hostVars
<1>10. CASE HostCloses
  BY <1>10, <1>e, ClientQuiet
     DEF HostCloses, NotifyTransportClosed, Fail, wires, serverVars, hostVars, Errors
<1>11. CASE (SrvIdent \/ SrvKexInit \/ SrvNewKeys \/ SrvConnection) /\ ServerAlone
  <2>1. /\ UNCHANGED <<consumed, outgoing, incoming>>
        /\ received < Len(outgoing) /\ received' = received + 1
    BY <1>11, <1>t DEF SrvIdent, SrvKexInit, SrvNewKeys, SrvConnection
  <2>2. srvPhase' = srvPhase \/ ~granted
    BY <1>11 DEF SrvIdent, SrvKexInit, SrvNewKeys, SrvConnection, AuthInv, GrantIsLast
  <2> QED
    BY <1>11, <1>v, <2>1, <2>2, ServerQuiet
<1>12. CASE (SrvSendKexInit \/ SrvRekey) /\ ServerAlone
  <2>1. PICK offer \in Offers \cup {NoOffer} : Reply([type |-> "KEXINIT", offer |-> offer])
    BY <1>12 DEF SrvSendKexInit, SrvRekey, Unsolicited, TypeInv, TypeOK
  <2> DEFINE m == [type |-> "KEXINIT", offer |-> offer]
  <2>2. m \in ServerMessages /\ m.type \notin AuthAnswers
    BY DEF ServerMessages, AuthAnswers
  <2>3. Reply(m) /\ UNCHANGED <<consumed, outgoing, received, srvPhase>>
    BY <1>12, <2>1 DEF SrvSendKexInit, SrvRekey, Unsolicited
  <2> HIDE DEF m
  <2> QED
    BY <1>12, <1>v, <1>r, <2>2, <2>3, ServerQuiet
<1>13. CASE SrvKexEcdhInit /\ ServerAlone
  <2>1. /\ UNCHANGED <<consumed, outgoing>> /\ received < Len(outgoing) /\ received' = received + 1
        /\ srvPhase = "AwaitingKexEcdhInit"
    BY <1>13, <1>t DEF SrvKexEcdhInit
  <2>2. PICK signed \in BOOLEAN : Reply([type |-> "KEX_REPLY", kex |-> srvKex', signed |-> signed])
    BY <1>13 DEF SrvKexEcdhInit
  <2>3. srvKex' \in Nat
    BY <1>13, TypeStep DEF TypeInv, TypeOK
  <2> DEFINE m == [type |-> "KEX_REPLY", kex |-> srvKex', signed |-> signed]
  <2>4. m \in ServerMessages /\ m.type \notin AuthAnswers
    BY <2>3 DEF ServerMessages, AuthAnswers
  <2>5. Reply(m) /\ ~granted
    BY <2>1, <2>2 DEF AuthInv, GrantIsLast
  <2> HIDE DEF m
  <2> QED
    BY <1>13, <1>v, <1>r, <2>1, <2>4, <2>5, ServerQuiet
<1>14. CASE SrvSendNewKeys /\ ServerAlone
  <2>1. Msg("NEWKEYS") \in ServerMessages /\ Msg("NEWKEYS").type \notin AuthAnswers
    BY DEF Msg, ServerMessages, AuthAnswers
  <2>2. /\ Seal(NoCipher, Msg("NEWKEYS")) \in Packets(ServerMessages)
        /\ Seal(NoCipher, Msg("NEWKEYS")).msg = Msg("NEWKEYS")
    BY <2>1, SealType, NoCipherType, Sealed
  <2>3. \E p \in Packets(ServerMessages) : incoming' = Append(incoming, p) /\ p.msg.type \notin AuthAnswers
    BY <1>14, <2>1, <2>2 DEF SrvSendNewKeys
  <2> QED
    BY <1>14, <1>v, <2>3, ServerQuiet DEF SrvSendNewKeys
<1>15. CASE SrvServiceRequest /\ ServerAlone
  BY <1>15, <1>v, ServerAnswers DEF SrvServiceRequest, AuthRequests, AuthAnswers
<1>16. CASE SrvUserauthRequest /\ ServerAlone
  BY <1>16, <1>v, UserauthAnswered, ServerAnswers DEF AuthRequests, AuthAnswers
<1>17. CASE (\/ SrvProtocolError \/ SrvDebug \/ SrvEarlyDebug \/ SrvDisconnect \/ SrvBanner
             \/ SrvGlobalRequest) /\ ServerAlone
  <2>1. PICK t \in {"DEBUG", "DISCONNECT", "USERAUTH_BANNER", "GLOBAL_REQUEST"} :
             /\ Reply(Msg(t)) /\ srvPhase' \in {srvPhase, "Gone"}
             /\ UNCHANGED <<consumed, outgoing>>
             /\ received' = received \/ (received < Len(outgoing) /\ received' = received + 1)
    BY <1>17, <1>t
       DEF SrvProtocolError, SrvDebug, SrvEarlyDebug, SrvDisconnect, SrvBanner, SrvGlobalRequest, Unsolicited
  <2>2. Msg(t) \in ServerMessages /\ Msg(t).type \notin AuthAnswers
    BY DEF Msg, ServerMessages, AuthAnswers
  <2> QED
    BY <1>17, <1>v, <1>r, <2>1, <2>2, ServerQuiet
<1>18. CASE UNCHANGED vars
  BY <1>18, ClientQuiet DEF vars, wires, sessionVars, serverVars, hostVars
<1> QED
  BY <1>1, <1>2, <1>3, <1>4, <1>5, <1>6, <1>7, <1>8, <1>9, <1>10, <1>11, <1>12, <1>13,
     <1>14, <1>15, <1>16, <1>17, <1>18
     DEF Next

-----------------------------------------------------------------------------
\* The promise: every step is one of SessionPromise's or shows the host nothing.

LEMMA StageOf ==
    /\ phase \in {"VersionExchange", "KexInProgress"} => stage = "handshake"
    /\ phase = "AwaitingHostKeyDecision" => stage = "verify"
    /\ phase = "ServiceRequest" => stage = "service"
    /\ phase = "UserAuth" => stage = "auth"
    /\ phase = "Connected" => stage = "connected"
    /\ phase = "Closed" => stage = "closed"
BY DEF stage

LEMMA NextStageOf ==
    /\ phase' \in {"VersionExchange", "KexInProgress"} => stage' = "handshake"
    /\ phase' = "AwaitingHostKeyDecision" => stage' = "verify"
    /\ phase' = "ServiceRequest" => stage' = "service"
    /\ phase' = "UserAuth" => stage' = "auth"
    /\ phase' = "Connected" => stage' = "connected"
    /\ phase' = "Closed" => stage' = "closed"
    /\ UNCHANGED phase => UNCHANGED stage
BY DEF stage

Quiet == UNCHANGED <<stage, granted, events>>

\* fail(), and DISCONNECT: the terminal event.
LEMMA EndTold ==
    ASSUME TypeInv, phase # "Closed", NEW e \in TerminalEvents, Emit(e), phase' = "Closed",
           UNCHANGED incoming
    PROVE  Promise!Next
<1>1. stage # "closed" /\ stage' = "closed"
  BY StageOf, NextStageOf DEF TypeInv, TypeOK, Phases
<1>2. UNCHANGED granted
  BY DEF granted
<1> QED
  BY <1>1, <1>2 DEF Promise!Next, Promise!End, Promise!Report, Emit

LEMMA FailTold ==
    ASSUME TypeInv, phase # "Closed", NEW err \in Errors, Fail(err), UNCHANGED incoming
    PROVE  Promise!Next
BY EndTold DEF Fail, Emit, TerminalEvents

\* A handler of an answer: it finds the phase that promises it.
LEMMA AnswerTold ==
    ASSUME TypeInv, OutInv, AuthInv,
           \/ HandleServiceAccept \/ HandleUserauthFailure \/ HandleUserauthSuccess
           \/ HandleUserauthPkOk
    PROVE  Promise!Next \/ Quiet
<1>1. UNCHANGED granted
  BY DEF granted, HandleServiceAccept, HandleUserauthFailure, HandleUserauthSuccess,
         HandleUserauthPkOk
<1>2. CASE HandleServiceAccept
  <2>1. phase = "ServiceRequest" /\ phase' = "UserAuth" /\ Emit("ReadyForAuth")
    BY <1>2, TakesAnswer DEF HandleServiceAccept, AuthAnswers
  <2> QED
    BY <1>1, <2>1, StageOf, NextStageOf DEF Promise!Next, Promise!Ready, Promise!Report, Emit
<1>3. CASE HandleUserauthFailure
  <2>1. phase = "UserAuth" /\ UNCHANGED phase /\ Emit("AuthFailure") /\ ~granted
    BY <1>3, TakesAnswer DEF HandleUserauthFailure, AuthAnswers
  <2> QED
    BY <1>1, <2>1, StageOf, NextStageOf DEF Promise!Next, Promise!Refuse, Promise!Report, Emit
<1>4. CASE HandleUserauthSuccess
  <2>1. phase = "UserAuth" /\ phase' = "Connected" /\ Emit("AuthSuccess") /\ granted
    BY <1>4, TakesAnswer DEF HandleUserauthSuccess, AuthAnswers
  <2> QED
    BY <1>1, <2>1, StageOf, NextStageOf DEF Promise!Next, Promise!Success, Promise!Report, Emit
<1>5. CASE HandleUserauthPkOk
  <2>1. pending_auth = "PublicKeyQuery"
    BY <1>5, TakesAnswer DEF HandleUserauthPkOk, AuthAnswers
  <2> QED
    BY <1>1, <1>5, <2>1, NextStageOf DEF HandleUserauthPkOk, Quiet
<1> QED
  BY <1>2, <1>3, <1>4, <1>5

\* The server's messages show the host nothing, the grant aside.
LEMMA ServerTold ==
    ASSUME TypeInv, UNCHANGED sessionVars,
           \/ UNCHANGED incoming
           \/ \E p \in Packets(ServerMessages) :
                 incoming' = Append(incoming, p) /\ p.msg.type # "USERAUTH_SUCCESS"
    PROVE  Quiet
<1>1. UNCHANGED <<phase, events>>
  BY DEF sessionVars
<1>2. CASE UNCHANGED incoming
  BY <1>1, <1>2, NextStageOf DEF Quiet, granted
<1>3. CASE ~ UNCHANGED incoming
  <2>1. PICK p \in Packets(ServerMessages) :
             incoming' = Append(incoming, p) /\ p.msg.type # "USERAUTH_SUCCESS"
    BY <1>3
  <2>2. PICK n \in Nat : n = Len(incoming)
    BY DEF TypeInv, TypeOK
  <2>3. /\ Len(incoming') = n + 1 /\ incoming'[n + 1] = p
        /\ \A i \in 1..n : incoming'[i] = incoming[i]
        /\ \A i \in 1..Len(incoming') : i \in 1..n \/ i = n + 1
        /\ \A i \in 1..n : i \in 1..Len(incoming')
    BY <2>1, <2>2 DEF TypeInv, TypeOK
  <2>4. granted' <=> granted
    BY <2>1, <2>2, <2>3 DEF granted
  <2> QED
    BY <1>1, <2>4, NextStageOf DEF Quiet, granted
<1> QED
  BY <1>2, <1>3

LEMMA StepsTold == TypeInv /\ GateInv /\ OutInv /\ AuthInv /\ [Next]_vars => Promise!Next \/ Quiet
<1> SUFFICES ASSUME TypeInv, GateInv, OutInv, AuthInv, [Next]_vars PROVE Promise!Next \/ Quiet
  OBVIOUS
<1>v. ASSUME ServerAlone PROVE UNCHANGED <<sessionVars, prompted>>
  BY <1>v DEF ServerAlone, hostVars
<1>c. \A t : Dispatch(t) => phase # "Closed"
  BY DEF Dispatch, Driving
<1>q. UNCHANGED <<incoming, phase, events>> => Quiet
  BY NextStageOf DEF Quiet, granted
<1>r. ASSUME NEW m \in ServerMessages, m.type # "USERAUTH_SUCCESS", Reply(m)
      PROVE  \E p \in Packets(ServerMessages) :
                incoming' = Append(incoming, p) /\ p.msg.type # "USERAUTH_SUCCESS"
  BY <1>r, ReplyIs
<1>1. CASE DriveVersionExchange
  <2>1. phase = "VersionExchange" /\ UNCHANGED incoming
    BY <1>1 DEF DriveVersionExchange
  <2>2. CASE phase' = "KexInProgress" /\ UNCHANGED events
    BY <2>1, <2>2, StageOf, NextStageOf DEF Quiet, granted
  <2>3. CASE Fail("Ident")
    BY <2>1, <2>3, FailTold DEF Errors
  <2> QED
    BY <1>1, <2>2, <2>3 DEF DriveVersionExchange
<1>2. CASE DriveUndecodable
  BY <1>2, FailTold DEF DriveUndecodable, Driving, Errors
<1>3. CASE HandleDisconnect
  BY <1>3, <1>c, EndTold DEF HandleDisconnect, TerminalEvents
<1>4. CASE HandleIgnored
  BY <1>4, <1>q DEF HandleIgnored
<1>5. CASE HandlePeerKexinit
  <2>1. UNCHANGED incoming /\ phase # "Closed"
    BY <1>5, <1>c DEF HandlePeerKexinit
  <2> QED
    BY <1>5, <1>q, <2>1, FailTold DEF HandlePeerKexinit, Errors
<1>6. CASE HandleKexReply
  <2>1. UNCHANGED incoming /\ phase # "Closed" /\ Dispatch("KEX_REPLY")
    BY <1>6, <1>c DEF HandleKexReply
  <2>2. CASE phase' = "AwaitingHostKeyDecision" /\ Emit("HostKeyVerify")
    <3>1. phase = "KexInProgress"
      <4>1. consumed + 1 \in KexReplies /\ consumed \in Nat
        BY <2>1, DispatchStage DEF KexReplies, TypeInv, TypeOK
      <4>2. ~(Len(outgoing) >= 5)
        BY <4>1 DEF OutInv, ServerExchanges
      <4> QED
        BY <2>1, <4>2, DispatchStage
    <3> QED
      BY <2>1, <2>2, <3>1, StageOf, NextStageOf
         DEF Promise!Next, Promise!Verify, Promise!Report, Emit, granted
  <2>3. CASE Fail("HostKeySignatureInvalid")
    BY <2>1, <2>3, FailTold DEF Errors
  <2> QED
    BY <1>6, <2>2, <2>3 DEF HandleKexReply
<1>7. CASE HandleNewkeys
  <2>1. UNCHANGED incoming /\ phase # "Closed"
    BY <1>7, <1>c DEF HandleNewkeys
  <2> QED
    BY <1>7, <1>q, <2>1, FailTold DEF HandleNewkeys, Errors
<1>8. CASE HandleUnexpected
  <2>1. UNCHANGED incoming /\ phase # "Closed"
    BY <1>8, <1>c DEF HandleUnexpected
  <2> QED
    BY <1>8, <2>1, FailTold DEF HandleUnexpected, Errors
<1>9. CASE HandleServiceAccept \/ HandleUserauthFailure \/ HandleUserauthSuccess \/ HandleUserauthPkOk
  BY <1>9, AnswerTold
<1>10. CASE HandleGlobalRequest
  BY <1>10, <1>q DEF HandleGlobalRequest
<1>11. CASE HostPolls
  BY <1>11, <1>q DEF HostPolls, PollEvent, wires
<1>12. CASE HostDecides
  <2>1. phase = "AwaitingHostKeyDecision" /\ UNCHANGED incoming
    BY <1>12 DEF HostDecides, ProvideHostKeyDecision
  <2>2. CASE AcceptHostKey
    BY <2>1, <2>2, StageOf, NextStageOf DEF AcceptHostKey, Promise!Next, Promise!Accept, granted
  <2>3. CASE Fail("HostKeyRejected")
    BY <2>1, <2>3, FailTold DEF Errors
  <2> QED
    BY <1>12, <2>2, <2>3 DEF HostDecides, ProvideHostKeyDecision
<1>13. CASE HostAuthenticates
  BY <1>13, <1>q DEF HostAuthenticates, AuthenticatePassword, AuthenticatePublickey, Authenticate
<1>14. CASE HostOpensChannel
  BY <1>14, <1>q DEF HostOpensChannel, OpenChannel
<1>15. CASE HostCloses
  BY <1>15, FailTold DEF HostCloses, NotifyTransportClosed, wires, Errors
<1>16. CASE (SrvIdent \/ SrvKexInit \/ SrvNewKeys \/ SrvConnection) /\ ServerAlone
  BY <1>16, <1>v, ServerTold DEF SrvIdent, SrvKexInit, SrvNewKeys, SrvConnection
<1>17. CASE (SrvSendKexInit \/ SrvRekey) /\ ServerAlone
  <2>1. PICK offer \in Offers \cup {NoOffer} : Reply([type |-> "KEXINIT", offer |-> offer])
    BY <1>17 DEF SrvSendKexInit, SrvRekey, Unsolicited, TypeInv, TypeOK
  <2> DEFINE m == [type |-> "KEXINIT", offer |-> offer]
  <2>2. m \in ServerMessages /\ m.type # "USERAUTH_SUCCESS"
    BY DEF ServerMessages
  <2>3. Reply(m)
    BY <2>1
  <2> HIDE DEF m
  <2> QED
    BY <1>17, <1>v, <1>r, <2>2, <2>3, ServerTold
<1>18. CASE SrvKexEcdhInit /\ ServerAlone
  <2>1. PICK signed \in BOOLEAN : Reply([type |-> "KEX_REPLY", kex |-> srvKex', signed |-> signed])
    BY <1>18 DEF SrvKexEcdhInit
  <2>2. srvKex' \in Nat
    BY <1>18, TypeStep DEF TypeInv, TypeOK
  <2> DEFINE m == [type |-> "KEX_REPLY", kex |-> srvKex', signed |-> signed]
  <2>3. m \in ServerMessages /\ m.type # "USERAUTH_SUCCESS"
    BY <2>2 DEF ServerMessages
  <2>4. Reply(m)
    BY <2>1
  <2> HIDE DEF m
  <2> QED
    BY <1>18, <1>v, <1>r, <2>3, <2>4, ServerTold
<1>19. CASE SrvSendNewKeys /\ ServerAlone
  <2>1. Msg("NEWKEYS") \in ServerMessages /\ Msg("NEWKEYS").type = "NEWKEYS"
    BY DEF Msg, ServerMessages
  <2>2. /\ Seal(NoCipher, Msg("NEWKEYS")) \in Packets(ServerMessages)
        /\ Seal(NoCipher, Msg("NEWKEYS")).msg = Msg("NEWKEYS")
    BY <2>1, SealType, NoCipherType, Sealed
  <2>3. \E p \in Packets(ServerMessages) : incoming' = Append(incoming, p) /\ p.msg.type # "USERAUTH_SUCCESS"
    BY <1>19, <2>1, <2>2 DEF SrvSendNewKeys
  <2> QED
    BY <1>19, <1>v, <2>3, ServerTold
<1>20. CASE SrvUserauthRequest /\ ServerAlone
  <2>1. PICK a \in {"USERAUTH_PK_OK", "USERAUTH_SUCCESS", "USERAUTH_FAILURE"} :
              /\ Takes("USERAUTH_REQUEST") /\ Reply(Msg(a)) /\ srvPhase = "AwaitingUserAuth"
              /\ a = "USERAUTH_PK_OK" => NextFromClient.msg.method = "query"
              /\ a = "USERAUTH_SUCCESS" => srvPhase' = "Connected"
              /\ UNCHANGED <<consumed, outgoing>>
    BY <1>20, UserauthAnswered
  <2>2. ~granted /\ (granted' <=> a = "USERAUTH_SUCCESS")
    BY <1>20, <1>v, <2>1, ServerAnswers DEF AuthRequests, AuthAnswers
  <2>3. UNCHANGED <<phase, events>>
    BY <1>20, <1>v DEF sessionVars
  <2>4. CASE a = "USERAUTH_SUCCESS"
    <3>1. phase \in {"Closed", "UserAuth"}
      BY <2>1, TakesRequest DEF AuthRequests
    <3>2. granted' = TRUE /\ granted = FALSE
      BY <2>2, <2>4 DEF granted
    <3> QED
      BY <2>3, <3>1, <3>2, StageOf, NextStageOf DEF Promise!Next, Promise!Grant
  <2>5. CASE a # "USERAUTH_SUCCESS"
    <3>1. granted' = granted
      BY <2>2, <2>5 DEF granted
    <3> QED
      BY <2>3, <3>1, NextStageOf DEF Quiet
  <2> QED
    BY <2>4, <2>5
<1>21. CASE (\/ SrvServiceRequest \/ SrvProtocolError \/ SrvDebug \/ SrvEarlyDebug
             \/ SrvDisconnect \/ SrvBanner \/ SrvGlobalRequest) /\ ServerAlone
  <2>1. PICK t \in {"SERVICE_ACCEPT", "DEBUG", "DISCONNECT", "USERAUTH_BANNER", "GLOBAL_REQUEST"} :
             Reply(Msg(t))
    BY <1>21 DEF SrvServiceRequest, SrvProtocolError, SrvDebug, SrvEarlyDebug, SrvDisconnect,
                 SrvBanner, SrvGlobalRequest, Unsolicited
  <2>2. Msg(t) \in ServerMessages /\ Msg(t).type # "USERAUTH_SUCCESS"
    BY DEF Msg, ServerMessages
  <2> QED
    BY <1>21, <1>v, <1>r, <2>1, <2>2, ServerTold
<1>22. CASE UNCHANGED vars
  BY <1>22, <1>q DEF vars, wires, sessionVars
<1> QED
  BY <1>1, <1>2, <1>3, <1>4, <1>5, <1>6, <1>7, <1>8, <1>9, <1>10, <1>11, <1>12, <1>13,
     <1>14, <1>15, <1>16, <1>17, <1>18, <1>19, <1>20, <1>21, <1>22
     DEF Next

\* Whatever Quirks the server has, the host is told what SessionPromise says and
\* in that order: one host-key question, nothing further until it is accepted,
\* one ReadyForAuth, AuthSuccess only when the server has granted it, and one
\* terminal event with nothing behind it (dispatch and every handler, fail,
\* provide_host_key_decision).
THEOREM SessionPromiseKept == Spec => KeepsPromise
<1>1. Init => Promise!Init
  <2> SUFFICES ASSUME Init PROVE Promise!Init
    OBVIOUS
  <2>1. PICK v : incoming = <<Seal(NoCipher, [type |-> "IDENT", version |-> v])>>
    BY DEF Init
  <2>2. Len(incoming) = 1 /\ incoming[1].msg.type = "IDENT"
    BY <2>1 DEF Seal
  <2>3. granted = FALSE
    BY <2>2 DEF granted
  <2> QED
    BY <2>3, StageOf DEF Init, SessionInit, Promise!Init
<1>2. TypeInv /\ GateInv /\ OutInv /\ AuthInv /\ [Next]_vars => [Promise!Next]_(Promise!promiseVars)
  BY StepsTold DEF Quiet, Promise!promiseVars
<1> QED
  BY TypeInit, TypeStep, GateInit, GateStep, OutInit, OutStep, AuthInit, AuthStep, <1>1, <1>2, PTL
     DEF Spec, KeepsPromise, Promise!Spec

-----------------------------------------------------------------------------
\* The other direction, against a server that sends no DEBUG before NEWKEYS and
\* agrees on the same cipher in both directions.  Both hypotheses are needed: the
\* run early_debug loses the nonce without the one, and asymmetric keys the
\* receive cipher with the wrong algorithm without the other.

Symmetric == \A offer \in Offers : Agreed(offer.sc) = Agreed(offer.cs)

KeepsCount == "earlyDebug" \notin Quirks /\ Symmetric

\* What the server writes at place i.
ServerScript == <<"IDENT", "KEXINIT", "KEX_REPLY", "NEWKEYS">>

ServerFits(alg, i, p) ==
    /\ Opens(CipherAt(alg, i), p)
    /\ i <= 4 => p.msg.type = ServerScript[i] \/ (i > 1 /\ p.msg.type = "DISCONNECT")
    /\ i > 4 => p.msg.type \notin {"IDENT", "KEX_REPLY", "NEWKEYS"}

ServerWrites ==
    /\ \A i \in 1..Len(incoming) : ServerFits(InAlg, i, incoming[i])
    /\ Len(incoming) # 0
    /\ srvPhase # "Gone" =>
          /\ srvOut = CipherAt(InAlg, Len(incoming) + 1)
          /\ srvOffer = NoOffer <=> Len(incoming) = 1
          /\ srvKex = 0 <=> Len(incoming) <= 2
    /\ srvPhase \in {"AwaitingUserAuth", "Connected"} => Len(incoming) >= 4

\* The client, by what it has read.
ClientReadsInStep ==
    /\ phase = "VersionExchange" => consumed = 0
    /\ phase = "KexInProgress" =>
          consumed + 1 = Len(outgoing) /\ (consumed = 2 => active_kex = 1)
    /\ phase = "AwaitingHostKeyDecision" => consumed = 3
    /\ phase \in {"ServiceRequest", "UserAuth", "Connected"} =>
          consumed >= 3 /\ (consumed = 3 => pending_sc_cipher = CipherAt(InAlg, 5))
    /\ phase # "Closed" => sc_cipher = CipherAt(InAlg, consumed + 1)

InInv == ServerWrites /\ ClientReadsInStep

\* A server that keeps to the protocol besides, and shares algorithms.
KeepsToProtocol ==
    /\ KeepsCount
    /\ Quirks \cap {"banner", "badSignature"} = {}
    /\ Versions = {"2.0"}
    /\ \A offer \in Offers : offer.rest /\ offer.cs # {} /\ offer.sc # {}

\* It replies to the client's only key, and sends no banner.
SoundAnswers ==
    \A i \in 1..Len(incoming) :
        /\ incoming[i].msg.type # "USERAUTH_BANNER"
        /\ incoming[i].msg.type = "KEX_REPLY" => incoming[i].msg.kex = 1 /\ incoming[i].msg.signed

LEMMA InInit == Init => InInv
<1> SUFFICES ASSUME Init PROVE InInv
  OBVIOUS
<1>1. PICK v : incoming = <<Seal(NoCipher, [type |-> "IDENT", version |-> v])>>
  BY DEF Init
<1>2. Len(incoming) = 1 /\ incoming[1].msg.type = "IDENT" /\ Opens(NoCipher, incoming[1])
  BY <1>1 DEF Seal, Opens
<1>3. CipherAt(InAlg, 1) = NoCipher /\ CipherAt(InAlg, 2) = NoCipher
  BY PlainPlaces
<1>4. ServerFits(InAlg, 1, incoming[1])
  BY <1>2, <1>3 DEF ServerFits, ServerScript
<1> QED
  BY <1>2, <1>3, <1>4 DEF Init, SessionInit, ServerInit, InInv, ServerWrites, ClientReadsInStep

\* What the client reads is what the server wrote at that place.
LEMMA NextFits ==
    ASSUME TypeInv, InInv, consumed < Len(incoming)
    PROVE  /\ ServerFits(InAlg, consumed + 1, NextPacket)
           /\ phase # "Closed" => Opens(sc_cipher, NextPacket)
<1>1. consumed + 1 \in 1..Len(incoming)
  BY DEF TypeInv, TypeOK
<1>2. ServerFits(InAlg, consumed + 1, NextPacket)
  BY <1>1 DEF InInv, ServerWrites, NextPacket
<1> QED
  BY <1>2 DEF InInv, ClientReadsInStep, ServerFits

LEMMA DispatchPlace ==
    ASSUME TypeInv, OutInv, InInv, NEW t, Dispatch(t), NEW n, n = consumed
    PROVE  /\ n \in Nat /\ consumed' = n + 1 /\ sc_cipher = CipherAt(InAlg, n + 1)
           /\ n # 3 => Advance(sc_cipher) = CipherAt(InAlg, (n + 1) + 1)
           /\ \/ phase = "KexInProgress" /\ n = 1 /\ t \in {"KEXINIT", "DISCONNECT"}
              \/ phase = "KexInProgress" /\ n = 2 /\ t \in {"KEX_REPLY", "DISCONNECT"}
              \/ /\ phase \in {"ServiceRequest", "UserAuth", "Connected"}
                 /\ n = 3 /\ t \in {"NEWKEYS", "DISCONNECT"}
              \/ /\ phase \in {"ServiceRequest", "UserAuth", "Connected"}
                 /\ n >= 4 /\ t \notin {"IDENT", "KEX_REPLY", "NEWKEYS"}
<1>1. /\ n \in Nat /\ consumed' = n + 1 /\ consumed < Len(incoming) /\ NextPacket.msg.type = t
      /\ phase \in {"KexInProgress", "ServiceRequest", "UserAuth", "Connected"}
  BY DEF Dispatch, Driving, TypeInv, TypeOK, Phases
<1>2. sc_cipher = CipherAt(InAlg, n + 1)
  BY <1>1 DEF InInv, ClientReadsInStep
<1>3. n # 3 => Advance(sc_cipher) = CipherAt(InAlg, (n + 1) + 1)
  <2>1. n # 3 => n + 1 \in Nat \ {0} /\ n + 1 # 4
    BY <1>1
  <2> QED
    BY <1>2, <2>1, AlgsAgreed, Places
<1>4. ServerFits(InAlg, n + 1, NextPacket)
  BY <1>1, NextFits
<1>5. CASE phase = "KexInProgress"
  <2>1. PICK k : k = Len(outgoing)
    OBVIOUS
  <2>2. k \in {2, 3} /\ n + 1 = k
    BY <1>5, <2>1 DEF OutInv, ClientStage, InInv, ClientReadsInStep
  <2>3. (n = 1 \/ n = 2) /\ ServerFits(InAlg, k, NextPacket)
    BY <1>1, <1>4, <2>2
  <2>4. \/ n = 1 /\ t \in {"KEXINIT", "DISCONNECT"}
        \/ n = 2 /\ t \in {"KEX_REPLY", "DISCONNECT"}
    BY <1>1, <2>2, <2>3 DEF ServerFits, ServerScript
  <2> QED
    BY <1>1, <1>2, <1>3, <1>5, <2>4
<1>6. CASE phase # "KexInProgress"
  <2>1. n >= 3
    BY <1>1, <1>6 DEF InInv, ClientReadsInStep
  <2>2. CASE n = 3
    BY <1>1, <1>2, <1>3, <1>4, <1>6, <2>2 DEF ServerFits, ServerScript
  <2>3. CASE n >= 4
    <3>1. n + 1 > 4
      BY <1>1, <2>3
    <3> QED
      BY <1>1, <1>2, <1>3, <1>4, <1>6, <2>3, <3>1 DEF ServerFits
  <2> QED
    BY <1>1, <2>1, <2>2, <2>3
<1> QED
  BY <1>5, <1>6

\* A handler of a message that comes behind NEWKEYS, in whatever phase it leaves
\* the session.
LEMMA LaterReads ==
    ASSUME TypeInv, OutInv, InInv, NEW t, Dispatch(t), UNCHANGED <<incoming, serverVars>>,
           t \notin {"KEXINIT", "KEX_REPLY", "NEWKEYS", "DISCONNECT"},
           sc_cipher' = Advance(sc_cipher),
           phase' \in {phase, "UserAuth", "Connected", "Closed"}
    PROVE  InInv'
<1>1. PICK n : n = consumed
  OBVIOUS
<1>2. /\ n \in Nat /\ n >= 4 /\ consumed' = n + 1 /\ sc_cipher' = CipherAt(InAlg, (n + 1) + 1)
      /\ phase \in {"ServiceRequest", "UserAuth", "Connected"}
  BY <1>1, DispatchPlace
<1>3. InAlg' = InAlg /\ UNCHANGED <<srvPhase, srvOffer, srvKex, srvIn, srvOut>>
  BY DEF serverVars, InAlg
<1>4. consumed' >= 3 /\ consumed' # 3
  BY <1>2
<1>5. ClientReadsInStep'
  BY <1>2, <1>3, <1>4 DEF ClientReadsInStep
<1> QED
  BY <1>3, <1>5 DEF InInv, ServerWrites

\* A handler or a call that ends the session.
LEMMA ClosedReads ==
    ASSUME InInv, UNCHANGED <<incoming, serverVars>>, phase' = "Closed"
    PROVE  InInv'
BY DEF InInv, ServerWrites, ClientReadsInStep, serverVars, InAlg

\* A call that reads nothing.
LEMMA ReadsNothing ==
    ASSUME TypeInv, OutInv, InInv, UNCHANGED <<incoming, serverVars, phase, consumed, active_kex,
                                 pending_sc_cipher, sc_cipher>>,
           \/ UNCHANGED outgoing
           \/ \E m \in ClientMessages : m.type \in LaterClient /\ SendCiphered(m)
    PROVE  InInv'
<1>1. phase = "KexInProgress" => UNCHANGED outgoing
  <2> SUFFICES ASSUME phase = "KexInProgress", NEW m \in ClientMessages, m.type \in LaterClient,
                      SendCiphered(m)
               PROVE  UNCHANGED outgoing
    OBVIOUS
  <2>1. PICK k : k = Len(outgoing)
    OBVIOUS
  <2>2. k \in {2, 3}
    BY <2>1 DEF OutInv, ClientStage
  <2>3. ClientWrites /\ UNCHANGED srvOffer
    BY DEF OutInv, serverVars
  <2>4. Len(outgoing) <= 3 => outgoing' = outgoing
    BY <2>3, WritesCiphered
  <2>5. k <= 3
    BY <2>2
  <2> QED
    BY <2>1, <2>4, <2>5
<1>2. InAlg' = InAlg /\ UNCHANGED <<srvPhase, srvOffer, srvKex, srvIn, srvOut>>
  BY DEF serverVars, InAlg
<1>3. ClientReadsInStep'
  BY <1>1, <1>2 DEF InInv, ClientReadsInStep
<1> QED
  BY <1>2, <1>3 DEF InInv, ServerWrites

\* A server's step leaves the client where it is.
LEMMA ClientUnmoved ==
    ASSUME TypeInv, InInv, UNCHANGED <<consumed, outgoing, sessionVars>>,
           InAlg' = InAlg \/ consumed <= 1
    PROVE  ClientReadsInStep'
<1>1. /\ UNCHANGED <<phase, active_kex, pending_sc_cipher, sc_cipher>>
      /\ consumed \in Nat
  BY DEF sessionVars, kexVars, cipherVars, TypeInv, TypeOK
<1>2. CASE InAlg' = InAlg
  BY <1>1, <1>2 DEF InInv, ClientReadsInStep
<1>3. CASE consumed <= 1
  <2>1. consumed + 1 \in 1..4 /\ ~(consumed >= 3)
    BY <1>1, <1>3
  <2>2. CipherAt(InAlg', consumed + 1) = CipherAt(InAlg, consumed + 1)
    BY <2>1, PlainPlaces
  <2> QED
    BY <1>1, <2>1, <2>2 DEF InInv, ClientReadsInStep
<1> QED
  BY <1>2, <1>3

\* One packet more of the server's, at its place.
LEMMA ServerWritesOne ==
    ASSUME TypeInv, InInv, NEW n, n = Len(incoming),
           NEW p \in Packets(ServerMessages), incoming' = Append(incoming, p),
           InAlg' = InAlg \/ n <= 3,
           ServerFits(InAlg', n + 1, p),
           srvPhase' # "Gone" =>
              /\ srvOut' = CipherAt(InAlg', (n + 1) + 1)
              /\ srvOffer' # NoOffer
              /\ srvKex' = 0 <=> n + 1 <= 2,
           srvPhase' \in {"AwaitingUserAuth", "Connected"} => n >= 4
    PROVE  ServerWrites'
<1>1. /\ n \in Nat \ {0} /\ Len(incoming') = n + 1 /\ incoming'[n + 1] = p
      /\ \A i \in 1..n : incoming'[i] = incoming[i]
      /\ \A i \in 1..(n + 1) : i \in 1..n \/ i = n + 1
      /\ n + 1 # 1 /\ n + 1 # 0 /\ (n >= 4 => n + 1 >= 4)
  BY DEF TypeInv, TypeOK, InInv, ServerWrites
<1>2. \A i \in 1..n : ServerFits(InAlg, i, incoming[i])
  BY DEF InInv, ServerWrites
<1>3. \A i \in 1..n : ServerFits(InAlg', i, incoming[i])
  <2>1. CASE InAlg' = InAlg
    BY <1>2, <2>1
  <2>2. CASE n <= 3
    <3>1. \A i \in 1..n : i \in 1..4
      BY <1>1, <2>2
    <3>2. \A i \in 1..4 : CipherAt(InAlg', i) = CipherAt(InAlg, i)
      BY PlainPlaces
    <3> QED
      BY <1>2, <3>1, <3>2 DEF ServerFits
  <2> QED
    BY <2>1, <2>2
<1>4. \A i \in 1..(n + 1) : ServerFits(InAlg', i, incoming'[i])
  BY <1>1, <1>3
<1> QED
  BY <1>1, <1>4 DEF ServerWrites

\* A message behind the server's NEWKEYS, or the DISCONNECT with which it goes.
LEMMA InServerSends ==
    ASSUME TypeInv, InInv, NEW m \in ServerMessages, Reply(m), srvPhase # "Gone",
           UNCHANGED <<consumed, outgoing, srvOffer, srvKex, sessionVars>>,
           \/ /\ srvOut # NoCipher
              /\ m.type \notin {"IDENT", "KEX_REPLY", "NEWKEYS"}
           \/ m.type = "DISCONNECT" /\ srvPhase' = "Gone"
    PROVE  InInv'
<1>1. PICK n : n = Len(incoming)
  OBVIOUS
<1>2. n \in Nat \ {0} /\ srvOut = CipherAt(InAlg, n + 1) /\ n + 1 \in Nat \ {0}
  BY <1>1 DEF TypeInv, TypeOK, InInv, ServerWrites
<1>3. srvOut # NoCipher => n >= 4
  <2>1. srvOut # NoCipher => ~(n + 1 <= 4)
    BY <1>2, AlgsAgreed, Places
  <2> QED
    BY <1>2, <2>1
<1>4. PICK p \in Packets(ServerMessages) : p = Seal(srvOut, m)
  BY SealType DEF TypeInv, TypeOK
<1>5. incoming' = Append(incoming, p) /\ srvOut' = Advance(srvOut) /\ InAlg' = InAlg
  BY <1>4 DEF Reply, InAlg
<1>6. Opens(CipherAt(InAlg, n + 1), p) /\ p.msg = m
  BY <1>2, <1>4, Sealed
<1>7. ServerFits(InAlg, n + 1, p)
  <2>1. n + 1 > 1 /\ (n >= 4 => ~(n + 1 <= 4))
    BY <1>2
  <2>2. m.type = "DISCONNECT" \/ (n >= 4 /\ m.type \notin {"IDENT", "KEX_REPLY", "NEWKEYS"})
    BY <1>3
  <2> QED
    BY <1>2, <1>6, <2>1, <2>2 DEF ServerFits
<1>8. ASSUME srvPhase' # "Gone"
      PROVE  /\ n >= 4 /\ srvOut' = CipherAt(InAlg', (n + 1) + 1)
             /\ srvOffer' # NoOffer /\ (srvKex' = 0 <=> n + 1 <= 2)
  <2>1. n >= 4
    BY <1>3, <1>8
  <2>2. n + 1 # 4 /\ ~(n + 1 <= 2) /\ n # 1 /\ ~(n <= 2)
    BY <1>2, <2>1
  <2>3. Advance(CipherAt(InAlg, n + 1)) = CipherAt(InAlg, (n + 1) + 1)
    BY <1>2, <2>2, AlgsAgreed, Places
  <2>4. srvOffer # NoOffer /\ srvKex # 0
    BY <1>1, <2>2 DEF InInv, ServerWrites
  <2> QED
    BY <1>2, <1>5, <2>1, <2>2, <2>3, <2>4
<1>9. srvPhase' \in {"AwaitingUserAuth", "Connected"} => n >= 4
  BY <1>8
<1>10. ServerWrites'
  BY <1>1, <1>5, <1>7, <1>8, <1>9, ServerWritesOne
<1> QED
  BY <1>5, <1>10, ClientUnmoved DEF InInv

\* The three messages with which the server exchanges keys, each at its place.
LEMMA InServerKexinit ==
    ASSUME TypeInv, OutInv, AuthInv, InInv, SrvSendKexInit, UNCHANGED sessionVars
    PROVE  InInv'
<1>1. PICK offer \in Offers : srvOffer' = offer /\ Reply([type |-> "KEXINIT", offer |-> offer])
  BY DEF SrvSendKexInit
<1> DEFINE m == [type |-> "KEXINIT", offer |-> offer]
<1>2. m \in ServerMessages /\ m.type = "KEXINIT" /\ Reply(m)
  BY <1>1 DEF ServerMessages
<1> HIDE DEF m
<1>3. /\ Len(incoming) = 1 /\ srvPhase # "Gone" /\ srvOut = CipherAt(InAlg, 1 + 1) /\ srvKex = 0
      /\ UNCHANGED <<consumed, outgoing, srvPhase, srvKex>>
  <2>1. srvPhase # "Gone" /\ srvOffer = NoOffer /\ UNCHANGED <<consumed, outgoing, srvPhase, srvKex>>
    BY DEF SrvSendKexInit
  <2>2. Len(incoming) = 1
    BY <2>1 DEF InInv, ServerWrites
  <2>3. srvOut = CipherAt(InAlg, Len(incoming) + 1) /\ srvKex = 0
    BY <2>1, <2>2 DEF InInv, ServerWrites
  <2> QED
    BY <2>1, <2>2, <2>3
<1>4. PICK p \in Packets(ServerMessages) : p = Seal(srvOut, m)
  BY <1>2, SealType DEF TypeInv, TypeOK
<1>5. incoming' = Append(incoming, p) /\ srvOut' = Advance(srvOut)
  BY <1>2, <1>4 DEF Reply
<1>6. /\ CipherAt(InAlg, 1 + 1) = NoCipher /\ CipherAt(InAlg', 1 + 1) = NoCipher
      /\ CipherAt(InAlg', (1 + 1) + 1) = NoCipher
  BY PlainPlaces
<1>7. ServerFits(InAlg', 1 + 1, p)
  BY <1>2, <1>3, <1>4, <1>6, Sealed DEF ServerFits, ServerScript
<1>8. srvOut' = CipherAt(InAlg', (1 + 1) + 1)
  BY <1>3, <1>5, <1>6 DEF Advance
<1>9. srvOffer' # NoOffer
  BY <1>1, ServerAssumption
<1>10. srvPhase \notin {"AwaitingUserAuth", "Connected"}
  BY <1>3 DEF InInv, ServerWrites
<1>11. ServerWrites'
  BY <1>3, <1>5, <1>7, <1>8, <1>9, <1>10, ServerWritesOne
<1>12. consumed <= 1
  BY <1>3 DEF AuthInv
<1> QED
  BY <1>3, <1>11, <1>12, ClientUnmoved DEF InInv

LEMMA InServerReply ==
    ASSUME TypeInv, OutInv, InInv, SrvKexEcdhInit, UNCHANGED sessionVars
    PROVE  InInv'
<1>1. /\ srvKex = 0 /\ srvKex' = 1 /\ srvOffer # NoOffer /\ UNCHANGED <<consumed, outgoing, srvOffer>>
      /\ srvPhase # "Gone" /\ srvPhase' = "AwaitingNewKeys"
  <2>1. received = 2 /\ srvKex = 0
    BY DEF SrvKexEcdhInit, OutInv, ServerReadsInStep
  <2>2. Takes("KEX_INIT")
    BY DEF SrvKexEcdhInit
  <2>3. NextFromClient.msg.kex = 1
    BY <2>1, <2>2, TakesFits
  <2> QED
    BY <2>1, <2>3 DEF SrvKexEcdhInit
<1>2. PICK signed \in BOOLEAN : Reply([type |-> "KEX_REPLY", kex |-> 1, signed |-> signed])
  BY <1>1 DEF SrvKexEcdhInit
<1> DEFINE m == [type |-> "KEX_REPLY", kex |-> 1, signed |-> signed]
<1>3. m \in ServerMessages /\ m.type = "KEX_REPLY" /\ Reply(m)
  BY <1>2 DEF ServerMessages
<1> HIDE DEF m
<1>4. Len(incoming) = 2 /\ srvOut = CipherAt(InAlg, 2 + 1) /\ InAlg' = InAlg
  <2>1. PICK n : n = Len(incoming)
    OBVIOUS
  <2>2. n \in Nat /\ n # 0 /\ n <= 2 /\ n # 1 /\ srvOut = CipherAt(InAlg, n + 1)
    BY <1>1, <2>1 DEF TypeInv, TypeOK, InInv, ServerWrites
  <2>3. n = 2
    BY <2>2
  <2> QED
    BY <1>1, <2>1, <2>2, <2>3 DEF InAlg
<1>5. PICK p \in Packets(ServerMessages) : p = Seal(srvOut, m)
  BY <1>3, SealType DEF TypeInv, TypeOK
<1>6. incoming' = Append(incoming, p) /\ srvOut' = Advance(srvOut)
  BY <1>3, <1>5 DEF Reply
<1>7. CipherAt(InAlg, 2 + 1) = NoCipher /\ CipherAt(InAlg, (2 + 1) + 1) = NoCipher
  BY PlainPlaces
<1>8. ServerFits(InAlg, 2 + 1, p)
  BY <1>3, <1>4, <1>5, Sealed DEF ServerFits, ServerScript
<1>9. srvOut' = CipherAt(InAlg, (2 + 1) + 1)
  BY <1>4, <1>6, <1>7 DEF Advance
<1>10. ServerWrites'
  BY <1>1, <1>4, <1>6, <1>8, <1>9, ServerWritesOne
<1> QED
  BY <1>1, <1>4, <1>10, ClientUnmoved DEF InInv

LEMMA InServerNewKeys ==
    ASSUME TypeInv, OutInv, InInv, SrvSendNewKeys, UNCHANGED sessionVars
    PROVE  InInv'
<1> DEFINE p == Seal(NoCipher, Msg("NEWKEYS"))
<1>1. p \in Packets(ServerMessages) /\ p.msg.type = "NEWKEYS" /\ Opens(NoCipher, p)
  <2>1. Msg("NEWKEYS") \in ServerMessages /\ Msg("NEWKEYS").type = "NEWKEYS"
    BY DEF Msg, ServerMessages
  <2> QED
    BY <2>1, SealType, NoCipherType, Sealed
<1>2. /\ incoming' = Append(incoming, p) /\ srvPhase # "Gone"
      /\ srvOut' = WithInitialSeq(InAlg, srvKex, Len(incoming') - 1)
      /\ UNCHANGED <<consumed, outgoing, srvPhase, srvOffer, srvKex>>
  BY DEF SrvSendNewKeys, InAlg
<1> HIDE DEF p
<1>3. Len(incoming) = 3 /\ srvKex = 1 /\ srvOffer # NoOffer /\ InAlg' = InAlg
  <2>1. PICK n : n = Len(incoming)
    OBVIOUS
  <2>2. n \in Nat \ {0} /\ ~(n <= 2) /\ srvOut = CipherAt(InAlg, n + 1) /\ srvOut = NoCipher
    BY <2>1 DEF SrvSendNewKeys, TypeInv, TypeOK, InInv, ServerWrites
  <2>3. n + 1 \in Nat \ {0} /\ n # 1
    BY <2>2
  <2>4. n + 1 <= 4
    BY <2>2, <2>3, AlgsAgreed, Places
  <2>5. n = 3
    BY <2>2, <2>4
  <2>6. srvKex # 0 /\ srvKex \in {0, 1}
    BY DEF SrvSendNewKeys, OutInv, ServerReadsInStep
  <2>7. srvOffer # NoOffer
    BY <1>2, <2>1, <2>3 DEF InInv, ServerWrites
  <2> QED
    BY <1>2, <2>1, <2>5, <2>6, <2>7 DEF InAlg
<1>4. Len(incoming') - 1 = 3
  <2>1. incoming \in Seq(Packets(ServerMessages))
    BY DEF TypeInv, TypeOK
  <2>2. Len(incoming') = Len(incoming) + 1
    BY <1>1, <1>2, <2>1, Appended
  <2> QED
    BY <1>3, <2>2
<1>5. srvOut' = CipherAt(InAlg, (3 + 1) + 1)
  BY <1>2, <1>3, <1>4, AlgsAgreed, Places
<1>6. ServerFits(InAlg, 3 + 1, p)
  <2>1. CipherAt(InAlg, 3 + 1) = NoCipher
    BY PlainPlaces
  <2> QED
    BY <1>1, <2>1 DEF ServerFits, ServerScript
<1>7. srvPhase \notin {"AwaitingUserAuth", "Connected"}
  BY <1>3 DEF InInv, ServerWrites
<1>8. srvOffer' # NoOffer /\ (srvKex' = 0 <=> 3 + 1 <= 2)
  BY <1>2, <1>3
<1>9. srvPhase' \notin {"AwaitingUserAuth", "Connected"}
  BY <1>2, <1>7
<1>10. ServerWrites'
  BY <1>1, <1>2, <1>3, <1>5, <1>6, <1>8, <1>9, ServerWritesOne
<1> QED
  BY <1>2, <1>3, <1>10, ClientUnmoved DEF InInv

\* A server that only reads.
LEMMA InServerReads ==
    ASSUME TypeInv, InInv, UNCHANGED <<incoming, consumed, outgoing, srvOffer, srvKex, srvOut, sessionVars>>,
           \/ srvPhase' \in {"AwaitingKexInit", "AwaitingKexEcdhInit", "AwaitingNewKeys"}
           \/ UNCHANGED srvPhase,
           srvPhase # "Gone"
    PROVE  InInv'
<1>1. InAlg' = InAlg
  BY DEF InAlg
<1>2. ServerWrites'
  BY <1>1 DEF InInv, ServerWrites
<1> QED
  BY <1>1, <1>2, ClientUnmoved DEF InInv

\* The handlers of the key exchange, which move the client on in the script.
LEMMA InPeerKexinit ==
    ASSUME TypeInv, OutInv, InInv, HandlePeerKexinit, UNCHANGED serverVars
    PROVE  InInv'
<1>1. PICK n, k : n = consumed /\ k = Len(outgoing)
  OBVIOUS
<1>2. Dispatch("KEXINIT")
  BY DEF HandlePeerKexinit
<1>3. /\ n \in Nat /\ consumed' = n + 1 /\ sc_cipher' = CipherAt(InAlg, (n + 1) + 1)
      /\ \/ phase = "KexInProgress" /\ n = 1
         \/ phase \in {"ServiceRequest", "UserAuth", "Connected"} /\ n >= 4
  <2>1. /\ n \in Nat /\ consumed' = n + 1
        /\ n # 3 => Advance(sc_cipher) = CipherAt(InAlg, (n + 1) + 1)
        /\ \/ phase = "KexInProgress" /\ n = 1
           \/ phase \in {"ServiceRequest", "UserAuth", "Connected"} /\ n >= 4
    BY <1>1, <1>2, DispatchPlace
  <2>2. n # 3
    BY <2>1
  <2> QED
    BY <2>1, <2>2 DEF HandlePeerKexinit, Opened
<1>4. UNCHANGED <<incoming, srvPhase, srvOffer, srvKex, srvOut>> /\ InAlg' = InAlg
  BY DEF HandlePeerKexinit, serverVars, InAlg
<1>5. ServerWrites'
  BY <1>4 DEF InInv, ServerWrites
<1>6. CASE phase' = "Closed"
  BY <1>5, <1>6 DEF InInv, ClientReadsInStep
<1>7. CASE phase' # "Closed" /\ n = 1
  <2>1. /\ phase = "KexInProgress" /\ UNCHANGED phase /\ active_kex' = kexes + 1
        /\ SendPlaintextOrCiphered([type |-> "KEX_INIT", kex |-> kexes + 1])
    BY <1>3, <1>7 DEF HandlePeerKexinit, Fail
  <2>2. k = 2
    <3>1. k \in {2, 3} /\ n + 1 = k
      BY <1>1, <2>1 DEF OutInv, ClientStage, InInv, ClientReadsInStep
    <3> QED
      BY <1>7, <3>1
  <2>3. kexes = 0 /\ cs_cipher = NoCipher
    <3>1. cs_cipher = CipherAt(OutAlg, 2 + 1)
      BY <1>1, <2>2 DEF OutInv, ClientWrites
    <3> QED
      BY <1>1, <2>2, <3>1, PlainPlaces DEF OutInv, ClientStage
  <2> DEFINE m == [type |-> "KEX_INIT", kex |-> kexes + 1]
  <2>4. m \in ClientMessages
    BY <2>3 DEF ClientMessages
  <2>5. SendPlaintextOrCiphered(m)
    BY <2>1
  <2> HIDE DEF m
  <2>6. Seal(NoCipher, m) \in Packets(ClientMessages) /\ outgoing' = Append(outgoing, Seal(NoCipher, m))
    BY <2>3, <2>4, <2>5, SealType, NoCipherType DEF SendPlaintextOrCiphered, SendPlaintext
  <2>7. Len(outgoing') = 3
    <3>1. outgoing \in Seq(Packets(ClientMessages))
      BY DEF TypeInv, TypeOK
    <3>2. Len(outgoing') = Len(outgoing) + 1
      BY <2>6, <3>1, Appended
    <3>3. Len(outgoing) = 2
      BY <1>1, <2>2
    <3> QED
      BY <3>2, <3>3
  <2>8. ClientReadsInStep'
    BY <1>3, <1>4, <1>7, <2>1, <2>3, <2>7 DEF ClientReadsInStep
  <2> QED
    BY <1>5, <2>8 DEF InInv
<1>8. CASE phase' # "Closed" /\ n >= 4
  <2>1. phase \in {"ServiceRequest", "UserAuth", "Connected"} /\ UNCHANGED phase
    BY <1>3, <1>8 DEF HandlePeerKexinit, Fail
  <2>2. consumed' >= 3 /\ consumed' # 3
    BY <1>3, <1>8
  <2>3. ClientReadsInStep'
    BY <1>3, <1>4, <2>1, <2>2 DEF ClientReadsInStep
  <2> QED
    BY <1>5, <2>3 DEF InInv
<1> QED
  BY <1>3, <1>6, <1>7, <1>8

LEMMA InKexReply ==
    ASSUME TypeInv, OutInv, InInv, HandleKexReply, UNCHANGED serverVars
    PROVE  InInv'
<1>1. PICK n : n = consumed
  OBVIOUS
<1>2. Dispatch("KEX_REPLY")
  BY DEF HandleKexReply
<1>3. n = 2 /\ consumed' = 3 /\ sc_cipher' = CipherAt(InAlg, 3 + 1)
  <2>1. /\ n = 2 /\ consumed' = n + 1
        /\ n # 3 => Advance(sc_cipher) = CipherAt(InAlg, (n + 1) + 1)
    BY <1>1, <1>2, DispatchPlace
  <2> QED
    BY <2>1 DEF HandleKexReply
<1>4. UNCHANGED <<incoming, srvPhase, srvOffer, srvKex, srvOut>> /\ InAlg' = InAlg
  BY DEF HandleKexReply, serverVars, InAlg
<1>5. phase' \in {"AwaitingHostKeyDecision", "Closed"}
  BY DEF HandleKexReply, Fail
<1>6. ClientReadsInStep'
  BY <1>3, <1>4, <1>5 DEF ClientReadsInStep
<1> QED
  BY <1>4, <1>6 DEF InInv, ServerWrites

LEMMA InNewkeys ==
    ASSUME TypeInv, OutInv, InInv, HandleNewkeys, UNCHANGED serverVars
    PROVE  InInv'
<1>1. PICK n : n = consumed
  OBVIOUS
<1>2. Dispatch("NEWKEYS")
  BY DEF HandleNewkeys
<1>3. n = 3 /\ consumed' = 3 + 1 /\ phase \in {"ServiceRequest", "UserAuth", "Connected"}
  BY <1>1, <1>2, DispatchPlace
<1>4. sc_cipher' = CipherAt(InAlg, (3 + 1) + 1)
  BY <1>1, <1>3 DEF HandleNewkeys, InInv, ClientReadsInStep
<1>5. UNCHANGED <<incoming, srvPhase, srvOffer, srvKex, srvOut>> /\ InAlg' = InAlg
  BY DEF HandleNewkeys, serverVars, InAlg
<1>6. phase' \in {phase, "Closed"}
  BY DEF HandleNewkeys, Fail
<1>7. ClientReadsInStep'
  BY <1>3, <1>4, <1>5, <1>6 DEF ClientReadsInStep
<1> QED
  BY <1>5, <1>7 DEF InInv, ServerWrites

\* provide_host_key_decision(true): the pending receive cipher is the one
\* derived for sending, which is the server's if it prefers the same both ways.
LEMMA InAccept ==
    ASSUME Symmetric, TypeInv, OutInv, InInv, AcceptHostKey, phase = "AwaitingHostKeyDecision",
           UNCHANGED <<incoming, consumed, received, kexVars, serverVars>>
    PROVE  InInv'
<1>1. consumed = 3 /\ pending_ciphers = CipherAt(OutAlg, 5) /\ sc_cipher = CipherAt(InAlg, consumed + 1)
  BY DEF OutInv, ClientStage, InInv, ClientReadsInStep
<1>2. InAlg = OutAlg
  <2>1. srvOffer # NoOffer
    <3>1. srvKex = 1
      BY DEF OutInv, ServerExchanges
    <3> QED
      BY <3>1 DEF OutInv, ServerExchanges
  <2>2. srvOffer \in Offers
    BY <2>1 DEF TypeInv, TypeOK
  <2> QED
    BY <2>2 DEF Symmetric, InAlg, OutAlg
<1>3. UNCHANGED <<incoming, srvPhase, srvOffer, srvKex, srvOut>> /\ InAlg' = InAlg
  BY DEF serverVars, InAlg
<1>4. phase' = "ServiceRequest" /\ pending_sc_cipher' = CipherAt(InAlg', 5) /\ UNCHANGED sc_cipher
  BY <1>1, <1>2, <1>3 DEF AcceptHostKey
<1>5. ClientReadsInStep'
  BY <1>1, <1>3, <1>4 DEF ClientReadsInStep
<1> QED
  BY <1>3, <1>5 DEF InInv, ServerWrites

\* A server that has accepted the service request is behind its NEWKEYS.
LEMMA InAuthPhase ==
    ASSUME TypeInv, InInv, srvPhase \in {"AwaitingUserAuth", "Connected"}
    PROVE  srvOut # NoCipher
<1>1. PICK n : n = Len(incoming)
  OBVIOUS
<1>2. n \in Nat /\ n >= 4 /\ srvOut = CipherAt(InAlg, n + 1)
  BY <1>1 DEF TypeInv, TypeOK, InInv, ServerWrites
<1>3. n + 1 \in Nat \ {0} /\ ~(n + 1 <= 4)
  BY <1>2
<1> QED
  BY <1>2, <1>3, AlgsAgreed, Places

\* Every handler, host call and server step keeps this direction in step too.
LEMMA InStep ==
    ASSUME KeepsCount
    PROVE  TypeInv /\ GateInv /\ OutInv /\ AuthInv /\ InInv /\ [Next]_vars => InInv'
<1> SUFFICES ASSUME TypeInv, GateInv, OutInv, AuthInv, InInv, [Next]_vars PROVE InInv'
  OBVIOUS
<1>s. ASSUME SessionAlone PROVE UNCHANGED serverVars
  BY <1>s DEF SessionAlone
<1>v. ASSUME ServerAlone PROVE UNCHANGED sessionVars
  BY <1>v DEF ServerAlone
<1>1. CASE DriveVersionExchange /\ SessionAlone
  <2>1. UNCHANGED <<incoming, serverVars, sc_cipher>> /\ phase = "VersionExchange"
    BY <1>1, <1>s DEF DriveVersionExchange, cipherVars
  <2>2. CASE phase' = "KexInProgress" /\ consumed' = consumed + 1 /\ SendPlaintext(Msg("KEXINIT"))
    <3>1. consumed = 0 /\ Len(outgoing) = 1 /\ sc_cipher = CipherAt(InAlg, 0 + 1)
      BY <2>1 DEF OutInv, ClientStage, InInv, ClientReadsInStep
    <3>2. consumed' = 1 /\ InAlg' = InAlg /\ UNCHANGED <<srvPhase, srvOffer, srvKex, srvOut>>
      BY <2>1, <2>2, <3>1 DEF serverVars, InAlg
    <3>3. Len(outgoing') = 2
      <4>1. Msg("KEXINIT") \in ClientMessages
        BY DEF Msg, ClientMessages
      <4>2. Seal(NoCipher, Msg("KEXINIT")) \in Packets(ClientMessages)
        BY <4>1, SealType, NoCipherType
      <4>3. outgoing \in Seq(Packets(ClientMessages))
        BY DEF TypeInv, TypeOK
      <4>4. Len(outgoing') = Len(outgoing) + 1
        BY <2>2, <4>2, <4>3, Appended DEF SendPlaintext
      <4> QED
        BY <3>1, <4>4
    <3>4. sc_cipher' = CipherAt(InAlg', 1 + 1)
      BY <2>1, <3>1, PlainPlaces
    <3>5. ClientReadsInStep'
      BY <2>2, <3>2, <3>3, <3>4 DEF ClientReadsInStep
    <3> QED
      BY <2>1, <3>2, <3>5 DEF InInv, ServerWrites
  <2>3. CASE Fail("Ident")
    BY <2>1, <2>3, ClosedReads DEF Fail
  <2> QED
    BY <1>1, <2>2, <2>3 DEF DriveVersionExchange
<1>2. CASE (DriveUndecodable \/ HandleDisconnect \/ HandleUnexpected) /\ SessionAlone
  <2>1. UNCHANGED incoming /\ phase' = "Closed"
    BY <1>2 DEF DriveUndecodable, HandleDisconnect, HandleUnexpected, Fail
  <2> QED
    BY <1>2, <1>s, <2>1, ClosedReads
<1>3. CASE HandlePeerKexinit /\ SessionAlone
  BY <1>3, <1>s, InPeerKexinit
<1>4. CASE HandleKexReply /\ SessionAlone
  BY <1>4, <1>s, InKexReply
<1>5. CASE HandleNewkeys /\ SessionAlone
  BY <1>5, <1>s, InNewkeys
<1>6. CASE (\/ HandleIgnored \/ HandleServiceAccept \/ HandleUserauthFailure
            \/ HandleUserauthSuccess \/ HandleUserauthPkOk \/ HandleGlobalRequest) /\ SessionAlone
  <2>1. PICK t \in {"DEBUG", "SERVICE_ACCEPT", "USERAUTH_FAILURE", "USERAUTH_SUCCESS",
                    "USERAUTH_PK_OK", "GLOBAL_REQUEST"} : Dispatch(t)
    BY <1>6 DEF HandleIgnored, HandleServiceAccept, HandleUserauthFailure,
                HandleUserauthSuccess, HandleUserauthPkOk, HandleGlobalRequest
  <2>2. /\ UNCHANGED incoming /\ sc_cipher' = Advance(sc_cipher)
        /\ phase' \in {phase, "UserAuth", "Connected", "Closed"}
    BY <1>6 DEF HandleIgnored, HandleServiceAccept, HandleUserauthFailure, Opened, Fail,
                HandleUserauthSuccess, HandleUserauthPkOk, HandleGlobalRequest
  <2> QED
    BY <1>6, <1>s, <2>1, <2>2, LaterReads
<1>7. CASE HostPolls
  BY <1>7, ReadsNothing DEF HostPolls, PollEvent, wires, kexVars, cipherVars
<1>8. CASE HostDecides
  <2>1. phase = "AwaitingHostKeyDecision" /\ UNCHANGED <<incoming, consumed, received, kexVars, serverVars>>
    BY <1>8 DEF HostDecides, ProvideHostKeyDecision
  <2>2. CASE AcceptHostKey
    BY <2>1, <2>2, InAccept DEF KeepsCount
  <2>3. CASE Fail("HostKeyRejected")
    BY <2>1, <2>3, ClosedReads DEF Fail
  <2> QED
    BY <1>8, <2>2, <2>3 DEF HostDecides, ProvideHostKeyDecision
<1>9. CASE HostAuthenticates
  <2>1. PICK pending \in PendingAuths, method \in {"password", "query"} :
             Authenticate(pending, method) /\ UNCHANGED serverVars
    BY <1>9 DEF HostAuthenticates, AuthenticatePassword, AuthenticatePublickey, PendingAuths
  <2> DEFINE m == [type |-> "USERAUTH_REQUEST", method |-> method, over |-> 0]
  <2>2. m \in ClientMessages /\ m.type \in LaterClient
    BY DEF ClientMessages, LaterClient
  <2>3. SendCiphered(m) /\ UNCHANGED <<incoming, consumed, phase, active_kex, pending_sc_cipher, sc_cipher>>
    BY <2>1 DEF Authenticate, kexVars
  <2> HIDE DEF m
  <2> QED
    BY <2>1, <2>2, <2>3, ReadsNothing
<1>10. CASE HostOpensChannel
  <2>1. Msg("CHANNEL_OPEN") \in ClientMessages /\ Msg("CHANNEL_OPEN").type \in LaterClient
    BY DEF Msg, ClientMessages, LaterClient
  <2> QED
    BY <1>10, <2>1, ReadsNothing DEF HostOpensChannel, OpenChannel, kexVars
<1>11. CASE HostCloses
  BY <1>11, ClosedReads DEF HostCloses, NotifyTransportClosed, Fail, wires
<1>12. CASE SrvSendKexInit /\ ServerAlone
  BY <1>12, <1>v, InServerKexinit
<1>13. CASE SrvKexEcdhInit /\ ServerAlone
  BY <1>13, <1>v, InServerReply
<1>14. CASE SrvSendNewKeys /\ ServerAlone
  BY <1>14, <1>v, InServerNewKeys
<1>15. CASE (SrvIdent \/ SrvKexInit \/ SrvNewKeys \/ SrvConnection) /\ ServerAlone
  <2>1. /\ UNCHANGED <<incoming, consumed, outgoing, srvOffer, srvKex, srvOut>> /\ srvPhase # "Gone"
        /\ \/ srvPhase' \in {"AwaitingKexInit", "AwaitingKexEcdhInit", "AwaitingNewKeys"}
           \/ UNCHANGED srvPhase
    BY <1>15 DEF SrvIdent, SrvKexInit, SrvNewKeys, SrvConnection
  <2> QED
    BY <1>15, <1>v, <2>1, InServerReads
<1>16. CASE (SrvServiceRequest \/ SrvUserauthRequest) /\ ServerAlone
  <2>1. PICK t \in {"SERVICE_ACCEPT", "USERAUTH_PK_OK", "USERAUTH_SUCCESS", "USERAUTH_FAILURE"} : Reply(Msg(t))
    BY <1>16 DEF SrvServiceRequest, SrvUserauthRequest
  <2>2. Msg(t) \in ServerMessages /\ Msg(t).type \notin {"IDENT", "KEX_REPLY", "NEWKEYS"}
    BY DEF Msg, ServerMessages
  <2>3. UNCHANGED <<consumed, outgoing, srvOffer, srvKex>> /\ srvPhase # "Gone"
    BY <1>16 DEF SrvServiceRequest, SrvUserauthRequest
  <2>4. srvOut # NoCipher
    <3>1. CASE SrvServiceRequest
      BY <3>1 DEF SrvServiceRequest
    <3>2. CASE srvPhase = "AwaitingUserAuth"
      BY <3>2, InAuthPhase
    <3> QED
      BY <1>16, <3>1, <3>2 DEF SrvUserauthRequest
  <2> QED
    BY <1>16, <1>v, <2>1, <2>2, <2>3, <2>4, InServerSends
<1>17. CASE (SrvProtocolError \/ SrvDisconnect) /\ ServerAlone
  <2>1. Msg("DISCONNECT") \in ServerMessages /\ Msg("DISCONNECT").type = "DISCONNECT"
    BY DEF Msg, ServerMessages
  <2>2. /\ UNCHANGED <<consumed, outgoing, srvOffer, srvKex>> /\ srvPhase # "Gone"
        /\ Reply(Msg("DISCONNECT")) /\ srvPhase' = "Gone"
    BY <1>17 DEF SrvProtocolError, SrvDisconnect, Unsolicited, Receiving
  <2> QED
    BY <1>17, <1>v, <2>1, <2>2, InServerSends
<1>18. CASE (SrvDebug \/ SrvBanner \/ SrvGlobalRequest) /\ ServerAlone
  <2>1. PICK t \in {"DEBUG", "USERAUTH_BANNER", "GLOBAL_REQUEST"} : Reply(Msg(t))
    BY <1>18 DEF SrvDebug, SrvBanner, SrvGlobalRequest, Unsolicited
  <2>2. Msg(t) \in ServerMessages /\ Msg(t).type \notin {"IDENT", "KEX_REPLY", "NEWKEYS"}
    BY DEF Msg, ServerMessages
  <2>3. UNCHANGED <<consumed, outgoing, srvOffer, srvKex>> /\ srvPhase # "Gone"
    BY <1>18 DEF SrvDebug, SrvBanner, SrvGlobalRequest, Unsolicited
  <2>4. srvOut # NoCipher
    BY <1>18, InAuthPhase DEF SrvDebug, SrvBanner, SrvGlobalRequest
  <2> QED
    BY <1>18, <1>v, <2>1, <2>2, <2>3, <2>4, InServerSends
<1>19. CASE SrvEarlyDebug /\ ServerAlone
  BY <1>19 DEF SrvEarlyDebug, Unsolicited, KeepsCount
<1>20. CASE SrvRekey /\ ServerAlone
  <2> DEFINE m == [type |-> "KEXINIT", offer |-> srvOffer]
  <2>1. m \in ServerMessages /\ m.type = "KEXINIT"
    BY DEF ServerMessages, TypeInv, TypeOK
  <2>2. /\ UNCHANGED <<consumed, outgoing, srvOffer, srvKex>> /\ srvPhase = "Connected" /\ Reply(m)
    BY <1>20 DEF SrvRekey, Unsolicited
  <2> HIDE DEF m
  <2>3. srvOut # NoCipher
    BY <2>2, InAuthPhase
  <2> QED
    BY <1>20, <1>v, <2>1, <2>2, <2>3, InServerSends
<1>21. CASE UNCHANGED vars
  <2>1. /\ UNCHANGED <<incoming, serverVars, phase, consumed, outgoing, active_kex,
                       pending_sc_cipher, sc_cipher>>
    BY <1>21 DEF vars, wires, sessionVars, kexVars, cipherVars
  <2> QED
    BY <2>1, ReadsNothing
<1> QED
  BY <1>1, <1>2, <1>3, <1>4, <1>5, <1>6, <1>7, <1>8, <1>9, <1>10, <1>11, <1>12, <1>13,
     <1>14, <1>15, <1>16, <1>17, <1>18, <1>19, <1>20, <1>21
     DEF Next

\* What the server writes opens under the cipher the client holds when it comes
\* to it (drive_packet_phase, handle_newkeys, on_kex_result), whether it was
\* buffered during the pause for the host key or not.
THEOREM LockstepInCorrect ==
    ASSUME KeepsCount
    PROVE  Spec => []LockstepIn
<1>1. TypeInv /\ InInv => LockstepIn
  BY NextFits DEF LockstepIn
<1>2. TypeInv /\ GateInv /\ OutInv /\ AuthInv /\ InInv /\ [Next]_vars => InInv'
  BY InStep
<1> QED
  BY TypeInit, TypeStep, GateInit, GateStep, OutInit, OutStep, AuthInit, AuthStep, InInit,
     <1>1, <1>2, PTL DEF Spec

-----------------------------------------------------------------------------
\* No fatal error.

Fatal == Errors \ {"HostKeyRejected", "TransportClosed"}

LEMMA FatalAppend ==
    ASSUME TypeInv, NeverFatal,
           UNCHANGED events \/ \E e \in Events \ Fatal : events' = Append(events, e)
    PROVE  NeverFatal'
<1>1. CASE UNCHANGED events
  BY <1>1 DEF NeverFatal
<1>2. ASSUME NEW e \in Events \ Fatal, events' = Append(events, e)
      PROVE  NeverFatal'
  <2>1. events \in Seq(Events)
    BY DEF TypeInv, TypeOK
  <2>2. /\ \A i \in 1..Len(events) : events'[i] = events[i]
        /\ \A i \in 1..Len(events') : i \in 1..Len(events) \/ events'[i] = e
    BY <1>2, <2>1
  <2> QED
    BY <1>2, <2>2 DEF NeverFatal, Fatal
<1> QED
  BY <1>1, <1>2

LEMMA SoundAppend ==
    ASSUME TypeInv, SoundAnswers, NEW m \in ServerMessages,
           \E p \in Packets(ServerMessages) : incoming' = Append(incoming, p) /\ p.msg = m,
           m.type # "USERAUTH_BANNER",
           m.type = "KEX_REPLY" => m.kex = 1 /\ m.signed
    PROVE  SoundAnswers'
<1>1. PICK p \in Packets(ServerMessages) : incoming' = Append(incoming, p) /\ p.msg = m
  OBVIOUS
<1>2. incoming \in Seq(Packets(ServerMessages))
  BY DEF TypeInv, TypeOK
<1>3. \A i \in 1..Len(incoming') :
         \/ i \in 1..Len(incoming) /\ incoming'[i] = incoming[i]
         \/ incoming'[i] = p
  BY <1>1, <1>2
<1> QED
  BY <1>1, <1>3 DEF SoundAnswers

LEMMA SoundInit == Init => SoundAnswers
<1> SUFFICES ASSUME Init PROVE SoundAnswers
  OBVIOUS
<1>1. PICK v : incoming = <<Seal(NoCipher, [type |-> "IDENT", version |-> v])>>
  BY DEF Init
<1>2. Len(incoming) = 1 /\ incoming[1].msg.type = "IDENT"
  BY <1>1 DEF Seal
<1> QED
  BY <1>2 DEF SoundAnswers

\* The server signs its reply to the only key it ever saw, and sends no banner.
LEMMA SoundStep ==
    ASSUME KeepsToProtocol
    PROVE  TypeInv /\ OutInv /\ SoundAnswers /\ [Next]_vars => SoundAnswers'
<1> SUFFICES ASSUME TypeInv, OutInv, SoundAnswers, [Next]_vars PROVE SoundAnswers'
  OBVIOUS
<1>1. CASE UNCHANGED incoming
  BY <1>1 DEF SoundAnswers
<1>2. CASE SrvSendKexInit
  <2>1. PICK offer \in Offers : Reply([type |-> "KEXINIT", offer |-> offer])
    BY <1>2 DEF SrvSendKexInit
  <2> DEFINE m == [type |-> "KEXINIT", offer |-> offer]
  <2>2. m \in ServerMessages /\ m.type = "KEXINIT" /\ Reply(m)
    BY <2>1 DEF ServerMessages
  <2> HIDE DEF m
  <2> QED
    BY <2>2, ReplyIs, SoundAppend
<1>3. CASE SrvKexEcdhInit
  <2>1. received = 2 /\ Takes("KEX_INIT")
    BY <1>3 DEF SrvKexEcdhInit, OutInv, ServerReadsInStep
  <2>2. NextFromClient.msg.kex = 1
    BY <2>1, TakesFits
  <2>3. srvKex' = 1
    BY <1>3, <2>2 DEF SrvKexEcdhInit
  <2>4. "badSignature" \notin Quirks
    BY DEF KeepsToProtocol
  <2>5. Reply([type |-> "KEX_REPLY", kex |-> 1, signed |-> TRUE])
    BY <1>3, <2>3, <2>4 DEF SrvKexEcdhInit
  <2> DEFINE m == [type |-> "KEX_REPLY", kex |-> 1, signed |-> TRUE]
  <2>6. m \in ServerMessages /\ m.type = "KEX_REPLY" /\ m.kex = 1 /\ m.signed /\ Reply(m)
    BY <2>5 DEF ServerMessages
  <2> HIDE DEF m
  <2> QED
    BY <2>6, ReplyIs, SoundAppend
<1>4. CASE SrvSendNewKeys
  <2>1. Msg("NEWKEYS") \in ServerMessages /\ Msg("NEWKEYS").type = "NEWKEYS"
    BY DEF Msg, ServerMessages
  <2>2. \E p \in Packets(ServerMessages) : incoming' = Append(incoming, p) /\ p.msg = Msg("NEWKEYS")
    <3>1. Seal(NoCipher, Msg("NEWKEYS")) \in Packets(ServerMessages)
      BY <2>1, SealType, NoCipherType
    <3> QED
      BY <1>4, <3>1, Sealed DEF SrvSendNewKeys
  <2> QED
    BY <2>1, <2>2, SoundAppend
<1>5. CASE \/ SrvServiceRequest \/ SrvUserauthRequest \/ SrvProtocolError
           \/ SrvDebug \/ SrvEarlyDebug \/ SrvDisconnect \/ SrvGlobalRequest
  <2>1. PICK t \in {"SERVICE_ACCEPT", "USERAUTH_PK_OK", "USERAUTH_SUCCESS", "USERAUTH_FAILURE",
                    "DISCONNECT", "DEBUG", "GLOBAL_REQUEST"} : Reply(Msg(t))
    BY <1>5 DEF SrvServiceRequest, SrvUserauthRequest, SrvProtocolError, SrvDebug, SrvEarlyDebug,
                SrvDisconnect, SrvGlobalRequest, Unsolicited
  <2>2. Msg(t) \in ServerMessages /\ Msg(t).type \notin {"USERAUTH_BANNER", "KEX_REPLY"}
    BY DEF Msg, ServerMessages
  <2> QED
    BY <2>1, <2>2, ReplyIs, SoundAppend
<1>6. CASE SrvBanner
  BY <1>6 DEF SrvBanner, Unsolicited, KeepsToProtocol
<1>7. CASE SrvRekey
  <2> DEFINE m == [type |-> "KEXINIT", offer |-> srvOffer]
  <2>1. m \in ServerMessages /\ m.type = "KEXINIT"
    BY DEF ServerMessages, TypeInv, TypeOK
  <2>2. Reply(m)
    BY <1>7 DEF SrvRekey, Unsolicited
  <2> HIDE DEF m
  <2> QED
    BY <2>1, <2>2, ReplyIs, SoundAppend
<1>8. CASE SrvIdent \/ SrvKexInit \/ SrvNewKeys \/ SrvConnection
  BY <1>1, <1>8 DEF SrvIdent, SrvKexInit, SrvNewKeys, SrvConnection
<1>9. CASE \/ DriveVersionExchange \/ DriveUndecodable \/ HandleDisconnect \/ HandleIgnored
           \/ HandlePeerKexinit \/ HandleKexReply \/ HandleNewkeys \/ HandleServiceAccept
           \/ HandleUserauthFailure \/ HandleUserauthSuccess \/ HandleUserauthPkOk
           \/ HandleGlobalRequest \/ HandleUnexpected
  <2>1. UNCHANGED incoming
    BY <1>9 DEF DriveVersionExchange, DriveUndecodable, HandleDisconnect, HandleIgnored,
                HandlePeerKexinit, HandleKexReply, HandleNewkeys, HandleServiceAccept,
                HandleUserauthFailure, HandleUserauthSuccess, HandleUserauthPkOk,
                HandleGlobalRequest, HandleUnexpected
  <2> QED
    BY <1>1, <2>1
<1>10. CASE HostPolls \/ HostDecides \/ HostAuthenticates \/ HostOpensChannel \/ HostCloses \/ UNCHANGED vars
  <2>1. UNCHANGED incoming
    BY <1>10 DEF HostPolls, PollEvent, HostDecides, ProvideHostKeyDecision, HostAuthenticates,
                 AuthenticatePassword, AuthenticatePublickey, Authenticate, HostOpensChannel,
                 OpenChannel, HostCloses, NotifyTransportClosed, vars, wires
  <2> QED
    BY <1>1, <2>1
<1> QED
  BY <1>2, <1>3, <1>4, <1>5, <1>6, <1>7, <1>8, <1>9, <1>10 DEF Next

\* No error path of drive, dispatch or a handler is taken.
LEMMA FatalStep ==
    ASSUME KeepsToProtocol
    PROVE  TypeInv /\ OutInv /\ AuthInv /\ InInv /\ SoundAnswers /\ NeverFatal /\ [Next]_vars
              => NeverFatal'
<1> SUFFICES ASSUME TypeInv, OutInv, AuthInv, InInv, SoundAnswers, NeverFatal, [Next]_vars
             PROVE  NeverFatal'
  OBVIOUS
<1>q. ASSUME UNCHANGED events \/ \E e \in Events \ Fatal : events' = Append(events, e)
      PROVE  NeverFatal'
  BY <1>q, FatalAppend
<1>e. {"Disconnected", "HostKeyVerify", "ReadyForAuth", "AuthFailure", "AuthSuccess",
       "HostKeyRejected", "TransportClosed"} \subseteq Events \ Fatal
  BY DEF Events, TerminalEvents, Errors, Fatal
<1>n. consumed < Len(incoming) =>
         /\ NextPacket \in Packets(ServerMessages) /\ consumed + 1 \in 1..Len(incoming)
         /\ NextPacket = incoming[consumed + 1]
         /\ phase # "Closed" => Opens(sc_cipher, NextPacket)
         /\ ServerFits(InAlg, consumed + 1, NextPacket)
  <2>1. incoming \in Seq(Packets(ServerMessages)) /\ consumed \in Nat
    BY DEF TypeInv, TypeOK
  <2>2. consumed < Len(incoming) => consumed + 1 \in 1..Len(incoming)
    BY <2>1
  <2> QED
    BY <2>1, <2>2, NextFits DEF NextPacket
<1>1. CASE DriveVersionExchange
  <2>1. consumed < Len(incoming) /\ consumed = 0
    BY <1>1 DEF DriveVersionExchange, Driving, InInv, ClientReadsInStep
  <2>2. ServerFits(InAlg, 0 + 1, NextPacket) /\ NextPacket \in Packets(ServerMessages)
    BY <1>n, <2>1
  <2>3. NextPacket.msg.type = "IDENT" /\ NextPacket.msg \in ServerMessages
    BY <2>2 DEF ServerFits, ServerScript, Packets
  <2>4. NextPacket.msg.version \in Versions
    BY <2>3 DEF ServerMessages
  <2> QED
    BY <1>1, <1>q, <2>4 DEF DriveVersionExchange, KeepsToProtocol
<1>2. CASE DriveUndecodable
  BY <1>2, <1>n DEF DriveUndecodable, Driving
<1>3. CASE \/ HandleDisconnect \/ HandleServiceAccept \/ HandleUserauthFailure
           \/ HandleUserauthSuccess
  BY <1>3, <1>q, <1>e DEF HandleDisconnect, HandleServiceAccept, HandleUserauthFailure,
                          HandleUserauthSuccess, Emit
<1>4. CASE HandleIgnored \/ HandleGlobalRequest
  BY <1>4, <1>q DEF HandleIgnored, HandleGlobalRequest
<1>5. CASE HandlePeerKexinit
  <2>1. Dispatch("KEXINIT")
    BY <1>5 DEF HandlePeerKexinit
  <2>2. consumed + 1 \in KexInits
    BY <2>1, DispatchStage DEF KexInits
  <2>3. NextPacket.msg.offer = srvOffer /\ srvOffer # NoOffer
    BY <2>2 DEF NextPacket, OutInv, ServerExchanges
  <2>4. NextPacket.msg.offer \in Offers
    BY <2>3 DEF TypeInv, TypeOK
  <2>5. NextPacket.msg.offer.rest /\ NextPacket.msg.offer.cs # {} /\ NextPacket.msg.offer.sc # {}
    BY <2>4 DEF KeepsToProtocol
  <2> QED
    BY <1>5, <1>q, <2>5 DEF HandlePeerKexinit
<1>6. CASE HandleKexReply
  <2>1. Dispatch("KEX_REPLY")
    BY <1>6 DEF HandleKexReply
  <2>2. phase = "KexInProgress" /\ consumed = 2
    BY <2>1, DispatchPlace
  <2>3. active_kex = 1
    BY <2>2 DEF InInv, ClientReadsInStep
  <2>4. consumed < Len(incoming) /\ NextPacket.msg.type = "KEX_REPLY"
    BY <2>1 DEF Dispatch, Driving
  <2>5. NextPacket.msg.kex = 1 /\ NextPacket.msg.signed
    BY <1>n, <2>4 DEF SoundAnswers
  <2>6. SignatureVerifies(NextPacket.msg)
    BY <2>3, <2>5 DEF SignatureVerifies
  <2> QED
    BY <1>6, <1>q, <1>e, <2>6 DEF HandleKexReply, Emit
<1>7. CASE HandleNewkeys
  <2>1. Dispatch("NEWKEYS")
    BY <1>7 DEF HandleNewkeys
  <2>2. phase \in {"ServiceRequest", "UserAuth", "Connected"} /\ consumed = 3
    BY <2>1, DispatchPlace
  <2>3. pending_sc_cipher = CipherAt(InAlg, 5)
    BY <2>2 DEF InInv, ClientReadsInStep
  <2>4. pending_sc_cipher # NoCipher
    BY <2>3, AlgsAgreed, Places
  <2>5. cs_cipher # NoCipher
    <3>1. PICK k : k = Len(outgoing)
      OBVIOUS
    <3>2. k \in Nat /\ k >= 5 /\ cs_cipher = CipherAt(OutAlg, k + 1)
      BY <2>2, <3>1 DEF TypeInv, TypeOK, OutInv, ClientStage, ClientWrites
    <3>3. k + 1 \in Nat \ {0} /\ ~(k + 1 <= 4)
      BY <3>2
    <3> QED
      BY <3>2, <3>3, AlgsAgreed, Places
  <2> QED
    BY <1>7, <1>q, <2>4, <2>5 DEF HandleNewkeys
<1>8. CASE HandleUserauthPkOk
  <2>1. pending_auth = "PublicKeyQuery"
    BY <1>8, TakesAnswer DEF HandleUserauthPkOk, AuthAnswers
  <2> QED
    BY <1>8, <1>q, <2>1 DEF HandleUserauthPkOk
<1>9. CASE HandleUnexpected
  <2>1. CASE Dispatch("KEX_REPLY") /\ active_kex = 0
    <3>1. phase = "KexInProgress" /\ consumed = 2
      BY <2>1, DispatchPlace
    <3> QED
      BY <2>1, <3>1 DEF InInv, ClientReadsInStep
  <2>2. CASE Dispatch("USERAUTH_BANNER")
    <3>1. consumed < Len(incoming) /\ NextPacket.msg.type = "USERAUTH_BANNER"
      BY <2>2 DEF Dispatch, Driving
    <3> QED
      BY <1>n, <3>1 DEF SoundAnswers
  <2> QED
    BY <1>9, <2>1, <2>2 DEF HandleUnexpected
<1>10. CASE HostDecides
  BY <1>10, <1>q, <1>e DEF HostDecides, ProvideHostKeyDecision, AcceptHostKey, Fail
<1>11. CASE HostCloses
  BY <1>11, <1>q, <1>e DEF HostCloses, NotifyTransportClosed, Fail
<1>12. CASE HostPolls \/ HostAuthenticates \/ HostOpensChannel \/ UNCHANGED vars
  BY <1>12, <1>q DEF HostPolls, PollEvent, HostAuthenticates, AuthenticatePassword,
                     AuthenticatePublickey, Authenticate, HostOpensChannel, OpenChannel,
                     vars, sessionVars
<1>13. CASE ServerAlone
  BY <1>13, <1>q DEF ServerAlone, sessionVars
<1> QED
  BY <1>1, <1>2, <1>3, <1>4, <1>5, <1>6, <1>7, <1>8, <1>9, <1>10, <1>11, <1>12, <1>13 DEF Next

\* A server that keeps to the protocol, and shares algorithms with the client,
\* is never the cause of a fatal error (drive, dispatch and every handler).
THEOREM NeverFatalCorrect ==
    ASSUME KeepsToProtocol
    PROVE  Spec => []NeverFatal
<1>1. Init => NeverFatal
  BY DEF Init, SessionInit, NeverFatal
<1>2. TypeInv /\ GateInv /\ OutInv /\ AuthInv /\ InInv /\ [Next]_vars => InInv'
  BY InStep DEF KeepsToProtocol
<1>3. TypeInv /\ OutInv /\ SoundAnswers /\ [Next]_vars => SoundAnswers'
  BY SoundStep
<1>4. TypeInv /\ OutInv /\ AuthInv /\ InInv /\ SoundAnswers /\ NeverFatal /\ [Next]_vars => NeverFatal'
  BY FatalStep
<1> QED
  BY TypeInit, TypeStep, GateInit, GateStep, OutInit, OutStep, AuthInit, AuthStep, InInit, SoundInit,
     <1>1, <1>2, <1>3, <1>4, PTL DEF Spec
=============================================================================
