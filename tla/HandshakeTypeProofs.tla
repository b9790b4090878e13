------------------------- MODULE HandshakeTypeProofs -------------------------
(***************************************************************************)
(* Type correctness of the handshake, for every choice of its constants.   *)
(* The client sends a key-exchange reply's ciphers only after negotiating  *)
(* them and the server answers only a key exchange it has received; these  *)
(* two facts are what TypeOK lacks to be inductive.                        *)
(***************************************************************************)
EXTENDS Handshake, TLAPS

-----------------------------------------------------------------------------
\* What the operators of Wire and the senders of Session and Server return.

\* A cipher stays a cipher, and "none" is never reached by counting.

LEMMA AdvanceType ==
    ASSUME NEW c \in MaybeCipher
    PROVE  /\ Advance(c) \in MaybeCipher
           /\ c # NoCipher => Advance(c) # NoCipher
BY DEF MaybeCipher, Ciphers, NoCipher, Advance, Algs

\* with_initial_seq makes a real cipher out of a negotiated algorithm.
LEMMA WithInitialSeqType ==
    ASSUME NEW alg \in Algs, NEW kex \in Nat \ {0}, NEW seq \in Nat
    PROVE  /\ WithInitialSeq(alg, kex, seq) \in MaybeCipher
           /\ WithInitialSeq(alg, kex, seq) # NoCipher
BY DEF MaybeCipher, Ciphers, NoCipher, WithInitialSeq, Algs

\* Sealing wraps a message into a packet, whatever the cipher.
LEMMA SealType ==
    ASSUME NEW messages, NEW m \in messages, NEW c \in MaybeCipher
    PROVE  Seal(c, m) \in Packets(messages)
BY DEF Seal, Packets, MaybeCipher, Ciphers, NoCipher, Algs

\* Both sides choose one of the implemented ciphers.
LEMMA NegotiateType ==
    ASSUME NEW theirs
    PROVE  negotiate(theirs) \in Algs /\ Agreed(theirs) \in Algs
BY DEF negotiate, Agreed, Algs

\* Cipher "none" is a legal value of every cipher variable.
LEMMA NoCipherType == NoCipher \in MaybeCipher
BY DEF MaybeCipher

\* send_ciphered appends a well-typed packet or panics.
LEMMA SendCipheredType ==
    ASSUME TypeOK, NEW m \in ClientMessages, SendCiphered(m)
    PROVE  /\ outgoing' \in Seq(Packets(ClientMessages))
           /\ cs_cipher' \in MaybeCipher
           /\ panicked' \in BOOLEAN
<1>1. Seal(cs_cipher, m) \in Packets(ClientMessages) /\ Advance(cs_cipher) \in MaybeCipher
  BY AdvanceType, SealType DEF TypeOK
<1>2. panicked' \in BOOLEAN
  BY Zenon DEF SendCiphered, TypeOK
<1> QED BY <1>1, <1>2 DEF SendCiphered, TypeOK

\* A plaintext send appends a well-typed packet.
LEMMA SendPlaintextType ==
    ASSUME TypeOK, NEW m \in ClientMessages, SendPlaintext(m)
    PROVE  outgoing' \in Seq(Packets(ClientMessages))
BY NoCipherType, SealType DEF SendPlaintext, TypeOK

\* The server's replies are well typed.
LEMMA ReplyType ==
    ASSUME TypeOK, NEW m \in ServerMessages, Reply(m)
    PROVE  /\ incoming' \in Seq(Packets(ServerMessages))
           /\ srvOut' \in MaybeCipher
BY AdvanceType, SealType DEF Reply, TypeOK

\* The names the handlers use are among those of the type invariant.
LEMMA Names ==
    /\ {"Ident", "Undecodable", "Negotiation", "HostKeySignatureInvalid",
        "HostKeyRejected", "UnexpectedMessage", "UnsupportedAuthMethod",
        "TransportClosed"} \subseteq Errors
    /\ {"Disconnected", "HostKeyVerify", "ReadyForAuth", "AuthFailure",
        "AuthSuccess"} \subseteq Events
    /\ {"KexInProgress", "AwaitingHostKeyDecision", "ServiceRequest", "UserAuth",
        "Connected", "Closed"} \subseteq Phases
BY DEF Errors, TerminalEvents, Events, Phases

\* fail() and queueing an event.
LEMMA FailType ==
    ASSUME TypeOK, NEW err \in Errors, Fail(err)
    PROVE  phase' \in Phases /\ events' \in Seq(Events)
<1>1. err \in Events
  BY DEF Events, TerminalEvents
<1> QED BY <1>1, Names DEF Fail, TypeOK

LEMMA EmitType ==
    ASSUME TypeOK, NEW e \in Events, Emit(e)
    PROVE  events' \in Seq(Events)
BY DEF Emit, TypeOK

-----------------------------------------------------------------------------
\* The inductive invariant.

TypeInv ==
    /\ TypeOK
    /\ active_kex # 0 => negotiated \in [cs : Algs, sc : Algs]
    /\ srvPhase = "AwaitingNewKeys" => srvKex # 0

\* Session::new and a listening server start well typed.
LEMMA TypeInit == Init => TypeInv
<1> SUFFICES ASSUME Init PROVE TypeInv
  OBVIOUS
<1>1. incoming \in Seq(Packets(ServerMessages))
  <2>1. PICK v \in Versions : incoming = <<Seal(NoCipher, [type |-> "IDENT", version |-> v])>>
    BY DEF Init
  <2>2. [type |-> "IDENT", version |-> v] \in ServerMessages
    BY DEF ServerMessages
  <2> QED BY <2>1, <2>2, SealType, NoCipherType
<1>2. outgoing \in Seq(Packets(ClientMessages))
  <2>1. [type |-> "IDENT", version |-> "2.0"] \in ClientMessages
    BY DEF ClientMessages
  <2> QED BY <2>1, SealType, NoCipherType DEF Init
<1>3. panicked \in BOOLEAN /\ prompted \in BOOLEAN /\ accepted \in BOOLEAN
  BY Zenon DEF Init, SessionInit
<1> QED BY <1>1, <1>2, <1>3, NoCipherType
        DEF Init, SessionInit, ServerInit, TypeInv, TypeOK, Phases, SrvPhases, PendingAuths, NoAlgorithms

\* Every handler, host call and server step keeps the types.
LEMMA TypeStep == TypeInv /\ [Next]_vars => TypeInv'
<1> SUFFICES ASSUME TypeInv, [Next]_vars PROVE TypeInv'
  OBVIOUS
<1> USE Names DEF TypeInv, TypeOK, kexVars
<1>s. ASSUME SessionAlone
      PROVE  UNCHANGED <<srvPhase, srvOffer, srvKex, srvIn, srvOut, prompted, accepted>>
  BY <1>s DEF SessionAlone, serverVars, hostVars
<1>v. ASSUME ServerAlone
      PROVE  UNCHANGED <<phase, events, polled, negotiated, active_kex, kexes, session_id,
                         pending_ciphers, pending_sc_cipher, cs_cipher, sc_cipher,
                         pending_auth, panicked, prompted, accepted>>
  BY <1>v DEF ServerAlone, sessionVars, hostVars, kexVars, cipherVars
<1>1. CASE DriveVersionExchange /\ SessionAlone
  <2>1. Msg("KEXINIT") \in ClientMessages
    BY DEF Msg, ClientMessages
  <2>2. CASE NextPacket.msg.version = "2.0"
    BY <1>1, <1>s, <2>1, <2>2, SendPlaintextType
       DEF DriveVersionExchange, cipherVars
  <2>3. CASE NextPacket.msg.version # "2.0"
    BY FailType, <1>1, <1>s, <2>3 DEF DriveVersionExchange, cipherVars
  <2> QED BY <2>2, <2>3
<1>2. CASE DriveUndecodable /\ SessionAlone
  BY FailType, <1>2, <1>s DEF DriveUndecodable, cipherVars
<1>3. CASE HandleDisconnect /\ SessionAlone
  BY EmitType, <1>3, <1>s, AdvanceType DEF HandleDisconnect, Dispatch, Opened
<1>4. CASE HandleIgnored /\ SessionAlone
  BY <1>4, <1>s, AdvanceType DEF HandleIgnored, Dispatch, Opened
<1>5. CASE HandlePeerKexinit /\ SessionAlone
  <2>1. [type |-> "KEX_INIT", kex |-> kexes + 1] \in ClientMessages
    BY DEF ClientMessages
  <2>2. CASE /\ kexes' = kexes + 1
             /\ SendPlaintextOrCiphered([type |-> "KEX_INIT", kex |-> kexes'])
    <3>1. /\ outgoing' \in Seq(Packets(ClientMessages))
          /\ cs_cipher' \in MaybeCipher
          /\ panicked' \in BOOLEAN
      BY <2>1, <2>2, SendPlaintextType, SendCipheredType
         DEF SendPlaintextOrCiphered
    <3>2. active_kex' \in Nat /\ negotiated' \in [cs : Algs, sc : Algs]
      BY <1>5, <2>2, NegotiateType DEF HandlePeerKexinit
    <3> QED BY FailType, <1>5, <1>s, <2>2, <3>1, <3>2, AdvanceType
               DEF HandlePeerKexinit, Dispatch, Opened
  <2>3. CASE /\ Fail("Negotiation")
             /\ UNCHANGED <<negotiated, active_kex, kexes, outgoing, cs_cipher, panicked>>
    BY FailType, <1>5, <1>s, <2>3, AdvanceType DEF HandlePeerKexinit, Dispatch, Opened
  <2> QED BY <1>5, <2>2, <2>3 DEF HandlePeerKexinit
<1>6. CASE HandleKexReply /\ SessionAlone
  <2>1. active_kex \in Nat \ {0} /\ negotiated.cs \in Algs
    BY <1>6 DEF HandleKexReply
  <2>2. DerivedCipher(active_kex) \in MaybeCipher
    BY <2>1, WithInitialSeqType
       DEF DerivedCipher, PLAINTEXT_PACKETS_BEFORE_NEWKEYS
  <2>3. CASE SignatureVerifies(NextPacket.msg)
    <3>1. /\ pending_ciphers' \in MaybeCipher /\ sc_cipher' \in MaybeCipher
          /\ session_id' \in Nat /\ active_kex' = 0 /\ consumed' \in Nat
      BY <1>6, <2>1, <2>2, <2>3, AdvanceType DEF HandleKexReply, Dispatch
    <3>2. phase' \in Phases /\ events' \in Seq(Events)
      BY EmitType, <1>6, <2>3 DEF HandleKexReply
    <3> QED BY <1>6, <1>s, <3>1, <3>2 DEF HandleKexReply
  <2>4. CASE ~SignatureVerifies(NextPacket.msg)
    BY FailType, <1>6, <1>s, <2>4, AdvanceType DEF HandleKexReply, Dispatch
  <2> QED BY <2>3, <2>4
<1>7. CASE HandleNewkeys /\ SessionAlone
  <2>1. CASE cs_cipher = NoCipher \/ pending_sc_cipher = NoCipher
    BY FailType, <1>7, <1>s, <2>1, NoCipherType DEF HandleNewkeys, Dispatch
  <2>2. CASE ~(cs_cipher = NoCipher \/ pending_sc_cipher = NoCipher)
    BY <1>7, <1>s, <2>2, NoCipherType DEF HandleNewkeys, Dispatch
  <2> QED BY <2>1, <2>2
<1>8. CASE HandleServiceAccept /\ SessionAlone
  BY EmitType, <1>8, <1>s, AdvanceType DEF HandleServiceAccept, Dispatch, Opened
<1>9. CASE HandleUserauthFailure /\ SessionAlone
  BY EmitType, <1>9, <1>s, AdvanceType
     DEF HandleUserauthFailure, Dispatch, Opened, PendingAuths
<1>10. CASE HandleUserauthSuccess /\ SessionAlone
  BY EmitType, <1>10, <1>s, AdvanceType
     DEF HandleUserauthSuccess, Dispatch, Opened, PendingAuths
<1>11. CASE HandleUserauthPkOk /\ SessionAlone
  <2>1. [type |-> "USERAUTH_REQUEST", method |-> "signed", over |-> session_id]
            \in ClientMessages
    BY DEF ClientMessages
  <2>2. CASE pending_auth = "PublicKeyQuery"
    BY <1>11, <1>s, <2>1, <2>2, AdvanceType, SendCipheredType
       DEF HandleUserauthPkOk, Dispatch, Opened, PendingAuths
  <2>3. CASE pending_auth # "PublicKeyQuery"
    BY FailType, <1>11, <1>s, <2>3, AdvanceType
       DEF HandleUserauthPkOk, Dispatch, Opened
  <2> QED BY <2>2, <2>3
<1>12. CASE HandleGlobalRequest /\ SessionAlone
  <2>1. Msg("REQUEST_FAILURE") \in ClientMessages
    BY DEF Msg, ClientMessages
  <2>2. CASE SendCiphered(Msg("REQUEST_FAILURE"))
    BY <1>12, <1>s, <2>1, <2>2, AdvanceType, SendCipheredType
       DEF HandleGlobalRequest, Dispatch, Opened
  <2>3. CASE UNCHANGED <<outgoing, cs_cipher, panicked>>
    BY <1>12, <1>s, <2>3, AdvanceType DEF HandleGlobalRequest, Dispatch, Opened
  <2> QED BY <1>12, <2>2, <2>3 DEF HandleGlobalRequest
<1>13. CASE HandleUnexpected /\ SessionAlone
  BY FailType, <1>13, <1>s, AdvanceType DEF HandleUnexpected, Dispatch, Opened
<1>14. CASE HostPolls
  BY <1>14 DEF HostPolls, PollEvent, serverVars, wires, cipherVars
<1>15. CASE HostDecides
  <2>1. Msg("NEWKEYS") \in ClientMessages /\ Msg("SERVICE_REQUEST") \in ClientMessages
    BY DEF Msg, ClientMessages
  <2>2. /\ Seal(NoCipher, Msg("NEWKEYS")) \in Packets(ClientMessages)
        /\ Seal(pending_ciphers, Msg("SERVICE_REQUEST")) \in Packets(ClientMessages)
    BY <2>1, SealType, NoCipherType
  <2>3. CASE AcceptHostKey /\ accepted' = TRUE
    <3>1. accepted' \in BOOLEAN
      BY <2>3, Zenon
    <3>2. outgoing' \in Seq(Packets(ClientMessages))
      BY <2>2, <2>3 DEF AcceptHostKey
    <3> QED BY <1>15, <2>3, <3>1, <3>2, AdvanceType, NoCipherType
               DEF HostDecides, ProvideHostKeyDecision, AcceptHostKey, serverVars
  <2>4. CASE Fail("HostKeyRejected") /\ UNCHANGED <<outgoing, cipherVars, panicked, accepted>>
    BY FailType, <1>15, <2>4
       DEF HostDecides, ProvideHostKeyDecision, serverVars, cipherVars
  <2> QED BY <1>15, <2>3, <2>4 DEF HostDecides, ProvideHostKeyDecision
<1>16. CASE HostAuthenticates
  <2>1. ASSUME NEW pending \in PendingAuths, NEW method \in {"password", "query"},
               Authenticate(pending, method), prompted' = FALSE,
               UNCHANGED <<serverVars, accepted>>
        PROVE  TypeInv'
    <3>1. [type |-> "USERAUTH_REQUEST", method |-> method, over |-> 0] \in ClientMessages
      BY DEF ClientMessages
    <3> QED BY <2>1, <3>1, SendCipheredType DEF Authenticate, serverVars
  <2> QED BY <1>16, <2>1
             DEF HostAuthenticates, AuthenticatePassword, AuthenticatePublickey,
                 PendingAuths
<1>17. CASE HostOpensChannel
  <2>1. Msg("CHANNEL_OPEN") \in ClientMessages
    BY DEF Msg, ClientMessages
  <2> QED BY <1>17, <2>1, SendCipheredType
             DEF HostOpensChannel, OpenChannel, serverVars, hostVars
<1>18. CASE HostCloses
  BY FailType, <1>18
     DEF HostCloses, NotifyTransportClosed, serverVars, hostVars, wires,
         cipherVars
<1>19. CASE SrvIdent /\ ServerAlone
  BY <1>19, <1>v DEF SrvIdent, Takes, SrvPhases
<1>20. CASE SrvSendKexInit /\ ServerAlone
  <2>1. ASSUME NEW offer \in Offers PROVE [type |-> "KEXINIT", offer |-> offer] \in ServerMessages
    BY DEF ServerMessages
  <2> QED BY <1>20, <1>v, <2>1, ReplyType DEF SrvSendKexInit
<1>21. CASE SrvKexInit /\ ServerAlone
  BY <1>21, <1>v DEF SrvKexInit, Takes, SrvPhases
<1>22. CASE SrvKexEcdhInit /\ ServerAlone
  <2>1. NextFromClient \in Packets(ClientMessages) /\ NextFromClient.msg.type = "KEX_INIT"
    BY <1>22 DEF SrvKexEcdhInit, Takes, Receiving, NextFromClient
  <2>2. srvKex' \in Nat /\ srvKex' # 0
    BY <1>22, <2>1 DEF Packets, ClientMessages, SrvKexEcdhInit
  <2>3. PICK signed \in {TRUE} \cup {"badSignature" \notin Quirks} :
            Reply([type |-> "KEX_REPLY", kex |-> srvKex', signed |-> signed])
    BY <1>22 DEF SrvKexEcdhInit
  <2>4. signed \in BOOLEAN
    BY <2>3, Zenon
  <2>5. [type |-> "KEX_REPLY", kex |-> srvKex', signed |-> signed] \in ServerMessages
    BY <2>2, <2>4 DEF ServerMessages
  <2> QED BY <1>22, <1>v, <2>2, <2>3, <2>5, ReplyType
             DEF SrvKexEcdhInit, SrvPhases, Takes
<1>23. CASE SrvSendNewKeys /\ ServerAlone
  <2>1. Seal(NoCipher, Msg("NEWKEYS")) \in Packets(ServerMessages)
    BY NoCipherType, SealType DEF Msg, ServerMessages
  <2>2. Len(incoming') - 1 \in Nat
    BY <1>23, <2>1 DEF SrvSendNewKeys
  <2> QED BY <1>23, <1>v, <2>1, <2>2, WithInitialSeqType, NegotiateType
             DEF SrvSendNewKeys
<1>24. CASE SrvNewKeys /\ ServerAlone
  <2>1. srvKex # 0
    BY <1>24 DEF SrvNewKeys
  <2> QED BY <1>24, <1>v, <2>1, WithInitialSeqType, NegotiateType
             DEF SrvNewKeys, Takes
<1>25. CASE SrvServiceRequest /\ ServerAlone
  <2>1. Msg("SERVICE_ACCEPT") \in ServerMessages
    BY DEF Msg, ServerMessages
  <2> QED BY <1>25, <1>v, <2>1, ReplyType, AdvanceType
             DEF SrvServiceRequest, SrvPhases, Takes
<1>26. CASE SrvUserauthRequest /\ ServerAlone
  <2>1. \A t \in {"USERAUTH_PK_OK", "USERAUTH_SUCCESS", "USERAUTH_FAILURE"} : Msg(t) \in ServerMessages
    BY DEF Msg, ServerMessages
  <2> QED BY <1>26, <1>v, <2>1, ReplyType, AdvanceType
             DEF SrvUserauthRequest, SrvPhases, Takes
<1>27. CASE SrvConnection /\ ServerAlone
  BY <1>27, <1>v, AdvanceType DEF SrvConnection, Takes
<1>28. CASE SrvProtocolError /\ ServerAlone
  <2>1. Msg("DISCONNECT") \in ServerMessages
    BY DEF Msg, ServerMessages
  <2> QED BY <1>28, <1>v, <2>1, ReplyType DEF SrvProtocolError, SrvPhases, Takes
<1>29. CASE (SrvDebug \/ SrvEarlyDebug \/ SrvDisconnect \/ SrvBanner \/ SrvGlobalRequest) /\ ServerAlone
  <2>1. \A t \in {"DEBUG", "DISCONNECT", "USERAUTH_BANNER", "GLOBAL_REQUEST"} : Msg(t) \in ServerMessages
    BY DEF Msg, ServerMessages
  <2> QED BY <1>29, <1>v, <2>1, ReplyType
             DEF SrvDebug, SrvEarlyDebug, SrvDisconnect, SrvBanner,
                 SrvGlobalRequest, Unsolicited, SrvPhases
<1>30. CASE SrvRekey /\ ServerAlone
  <2>1. [type |-> "KEXINIT", offer |-> srvOffer] \in ServerMessages
    BY DEF ServerMessages
  <2> QED BY <1>30, <1>v, <2>1, ReplyType DEF SrvRekey, Unsolicited
<1>31. CASE UNCHANGED vars
  BY <1>31 DEF vars, wires, sessionVars, serverVars, hostVars, kexVars, cipherVars
<1> QED
  BY <1>1, <1>2, <1>3, <1>4, <1>5, <1>6, <1>7, <1>8, <1>9, <1>10, <1>11, <1>12,
     <1>13, <1>14, <1>15, <1>16, <1>17, <1>18, <1>19, <1>20, <1>21, <1>22, <1>23,
     <1>24, <1>25, <1>26, <1>27, <1>28, <1>29, <1>30, <1>31
     DEF Next

\* Every state of the handshake is well typed: every packet of both logs is a
\* message the two programs send, the client never keys a cipher without a
\* negotiated algorithm, and no log index leaves its range (Session's fields).
THEOREM TypeCorrect == Spec => []TypeOK
<1>1. TypeInv => TypeOK
  BY DEF TypeInv
<1> QED BY TypeInit, TypeStep, <1>1, PTL DEF Spec
=============================================================================
