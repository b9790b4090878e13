--------------------------- MODULE HandshakeProofs ---------------------------
(***************************************************************************)
(* The host-key gate and the absence of panics, for every choice of the    *)
(* constants: any server behaviour listed in AllQuirks, any offers, any    *)
(* version, logs of any length.                                            *)
(*                                                                         *)
(* AcceptGate alone is not inductive: that nothing but the key exchange    *)
(* leaves the client before the host key is accepted depends on what the   *)
(* server can have answered by then, and the server's answers on what it   *)
(* has been sent.  BeforeAccept closes that circle: it describes the whole *)
(* system for as long as the host has not accepted.                        *)
(***************************************************************************)
EXTENDS HandshakeTypeProofs

\* The messages either side can have sent before the host accepts the key.

BeforeAcceptClient == {"IDENT", "KEXINIT", "KEX_INIT"}

BeforeAcceptServer == {"IDENT", "KEXINIT", "KEX_REPLY", "NEWKEYS", "DEBUG", "DISCONNECT"}

\* Messages that must never travel in plaintext.
Ciphered == {"USERAUTH_REQUEST", "SERVICE_REQUEST", "CHANNEL_OPEN"}

\* The system for as long as the host has not accepted the host key.
BeforeAccept ==
    /\ cs_cipher = NoCipher
    /\ phase \in {"VersionExchange", "KexInProgress", "AwaitingHostKeyDecision", "Closed"}
    /\ srvPhase \notin {"AwaitingUserAuth", "Connected"}
    /\ \A i \in 1..Len(outgoing) : outgoing[i].msg.type \in BeforeAcceptClient
    /\ \A i \in 1..Len(incoming) : incoming[i].msg.type \in BeforeAcceptServer
    /\ \A i \in 1..Len(events) : events[i] \notin {"ReadyForAuth", "AuthSuccess"}

\* The inductive invariant.
GateInv ==
    /\ accepted => cs_cipher # NoCipher
    /\ phase = "AwaitingHostKeyDecision" => pending_ciphers # NoCipher
    /\ \A i \in 1..Len(outgoing) :
          outgoing[i].msg.type \in Ciphered => outgoing[i].alg # "none"
    /\ polled <= Len(events)
    /\ "earlyExec" \notin HostMay => ~panicked
    /\ ~accepted => BeforeAccept

\* Nothing has been sent but the identification lines.
LEMMA GateInit == Init => GateInv
<1> SUFFICES ASSUME Init PROVE GateInv
  OBVIOUS
<1>1. \A i \in 1..Len(outgoing) : outgoing[i].msg.type = "IDENT"
  BY DEF Init, Seal
<1>2. \A i \in 1..Len(incoming) : incoming[i].msg.type = "IDENT"
  BY DEF Init, Seal
<1> QED BY <1>1, <1>2
           DEF Init, SessionInit, ServerInit, GateInv, BeforeAccept,
               BeforeAcceptClient, BeforeAcceptServer, Ciphered

\* The cipher under which a packet is sealed names its algorithm.
LEMMA CipherAlg ==
    ASSUME NEW c \in MaybeCipher, c # NoCipher
    PROVE  c.alg # "none"
BY DEF MaybeCipher, Ciphers, Algs

\* send_ciphered never writes plaintext, and panics only without a cipher.
LEMMA SendCipheredGate ==
    ASSUME TypeInv, GateInv, NEW m, SendCiphered(m)
    PROVE  /\ cs_cipher # NoCipher => cs_cipher' # NoCipher /\ panicked' = panicked
           /\ cs_cipher = NoCipher => cs_cipher' = NoCipher /\ outgoing' = outgoing
           /\ \A i \in 1..Len(outgoing') :
                outgoing'[i].msg.type \in Ciphered => outgoing'[i].alg # "none"
<1>1. CASE cs_cipher = NoCipher
  BY <1>1 DEF SendCiphered, GateInv
<1>2. CASE cs_cipher # NoCipher
  <2>1. Advance(cs_cipher) # NoCipher
    BY <1>2, AdvanceType DEF TypeInv, TypeOK
  <2>2. Seal(cs_cipher, m).alg # "none"
    BY <1>2, CipherAlg DEF TypeInv, TypeOK, Seal
  <2>3. outgoing' = Append(outgoing, Seal(cs_cipher, m))
    BY <1>2 DEF SendCiphered
  <2>4. \A i \in 1..Len(outgoing') :
           outgoing'[i].msg.type \in Ciphered => outgoing'[i].alg # "none"
    BY <2>2, <2>3 DEF GateInv, TypeInv, TypeOK
  <2>5. panicked' = panicked
    BY <1>2 DEF SendCiphered
  <2>6. cs_cipher' # NoCipher
    BY <1>2, <2>1 DEF SendCiphered
  <2> QED BY <1>2, <2>4, <2>5, <2>6
<1> QED BY <1>1, <1>2

\* A message the server sends only to an accepting session implies acceptance.
LEMMA DispatchAccepted ==
    ASSUME TypeInv, GateInv, NEW t, t \notin BeforeAcceptServer, Dispatch(t)
    PROVE  accepted
BY DEF Dispatch, Driving, NextPacket, GateInv, BeforeAccept, TypeInv, TypeOK

\* So does a message the client sends only once it has accepted.
LEMMA TakesAccepted ==
    ASSUME TypeInv, GateInv, NEW t, t \notin BeforeAcceptClient, Takes(t)
    PROVE  accepted
BY DEF Takes, Receiving, NextFromClient, GateInv, BeforeAccept, TypeInv, TypeOK

\* A server reply of the key exchange keeps the server's half of BeforeAccept.
LEMMA ReplyGate ==
    ASSUME TypeInv, GateInv, NEW m, m.type \in BeforeAcceptServer, Reply(m), ~accepted
    PROVE  \A i \in 1..Len(incoming') : incoming'[i].msg.type \in BeforeAcceptServer
<1>1. Seal(srvOut, m).msg = m
  BY DEF Seal
<1> QED BY <1>1 DEF Reply, GateInv, BeforeAccept, TypeInv, TypeOK

\* A plaintext key-exchange message keeps the client's half of it.
LEMMA SendPlaintextGate ==
    ASSUME TypeInv, GateInv, NEW m, m.type \in BeforeAcceptClient, SendPlaintext(m)
    PROVE  /\ \A i \in 1..Len(outgoing') :
                outgoing'[i].msg.type \in Ciphered => outgoing'[i].alg # "none"
           /\ ~accepted => \A i \in 1..Len(outgoing') :
                outgoing'[i].msg.type \in BeforeAcceptClient
<1>1. Seal(NoCipher, m).msg.type \in BeforeAcceptClient \ Ciphered
  BY DEF Seal, BeforeAcceptClient, Ciphered
<1>2. outgoing' = Append(outgoing, Seal(NoCipher, m))
  BY DEF SendPlaintext
<1> QED BY <1>1, <1>2 DEF GateInv, BeforeAccept, TypeInv, TypeOK

\* Every handler, host call and server step keeps the gate.
LEMMA GateStep == TypeInv /\ GateInv /\ [Next]_vars => GateInv'
<1> SUFFICES ASSUME TypeInv, GateInv, [Next]_vars PROVE GateInv'
  OBVIOUS
<1> USE DEF kexVars
<1>s. ASSUME SessionAlone PROVE UNCHANGED <<srvPhase, accepted>>
  BY <1>s DEF SessionAlone, serverVars, hostVars
<1>v. ASSUME ServerAlone
      PROVE  UNCHANGED <<phase, events, polled, pending_ciphers, cs_cipher, panicked,
                         accepted>>
  BY <1>v DEF ServerAlone, sessionVars, hostVars, kexVars, cipherVars
<1>1. CASE DriveVersionExchange /\ SessionAlone
  <2>1. CASE SendPlaintext(Msg("KEXINIT")) /\ phase' = "KexInProgress" /\ UNCHANGED events
    BY <1>1, <1>s, <2>1, SendPlaintextGate
       DEF DriveVersionExchange, cipherVars, GateInv, BeforeAccept, BeforeAcceptClient, Msg
  <2>2. CASE Fail("Ident") /\ UNCHANGED outgoing
    BY <1>1, <1>s, <2>2
       DEF DriveVersionExchange, Fail, cipherVars, GateInv, BeforeAccept, TypeInv,
           TypeOK
  <2> QED BY <1>1, <2>1, <2>2 DEF DriveVersionExchange
<1>2. CASE DriveUndecodable /\ SessionAlone
  BY <1>2, <1>s
     DEF DriveUndecodable, Fail, cipherVars, GateInv, BeforeAccept, TypeInv, TypeOK
<1>3. CASE HandleDisconnect /\ SessionAlone
  BY <1>3, <1>s
     DEF HandleDisconnect, Dispatch, Opened, Emit, GateInv, BeforeAccept, TypeInv,
         TypeOK
<1>4. CASE HandleIgnored /\ SessionAlone
  BY <1>4, <1>s
     DEF HandleIgnored, Dispatch, Opened, GateInv, BeforeAccept, TypeInv, TypeOK
<1>6. CASE HandleKexReply /\ SessionAlone
  <2>1. CASE /\ pending_ciphers' = DerivedCipher(active_kex)
             /\ Emit("HostKeyVerify")
             /\ phase' = "AwaitingHostKeyDecision"
    <3>1. active_kex \in Nat \ {0} /\ negotiated.cs \in Algs
      BY <1>6 DEF HandleKexReply, TypeInv, TypeOK
    <3>2. pending_ciphers' # NoCipher
      BY <2>1, <3>1, WithInitialSeqType
         DEF DerivedCipher, PLAINTEXT_PACKETS_BEFORE_NEWKEYS
    <3> QED BY <1>6, <1>s, <2>1, <3>2
               DEF HandleKexReply, Emit, GateInv, BeforeAccept, TypeInv, TypeOK
  <2>2. CASE Fail("HostKeySignatureInvalid")
    BY <1>6, <1>s, <2>2
       DEF HandleKexReply, Fail, GateInv, BeforeAccept, TypeInv, TypeOK
  <2> QED BY <1>6, <2>1, <2>2 DEF HandleKexReply
<1>7. CASE HandleNewkeys /\ SessionAlone
  <2>1. CASE Fail("UnexpectedMessage")
    BY <1>7, <1>s, <2>1
       DEF HandleNewkeys, Fail, GateInv, BeforeAccept, TypeInv, TypeOK
  <2>2. CASE UNCHANGED <<phase, events>>
    BY <1>7, <1>s, <2>2 DEF HandleNewkeys, GateInv, BeforeAccept
  <2> QED BY <1>7, <2>1, <2>2 DEF HandleNewkeys
<1>8. CASE HandleServiceAccept /\ SessionAlone
  <2>1. accepted
    BY <1>8, DispatchAccepted DEF HandleServiceAccept, BeforeAcceptServer
  <2> QED BY <1>8, <1>s, <2>1
             DEF HandleServiceAccept, Dispatch, Emit, GateInv, TypeInv, TypeOK
<1>9. CASE HandleUserauthFailure /\ SessionAlone
  <2>1. accepted
    BY <1>9, DispatchAccepted DEF HandleUserauthFailure, BeforeAcceptServer
  <2> QED BY <1>9, <1>s, <2>1
             DEF HandleUserauthFailure, Opened, Emit, GateInv, TypeInv, TypeOK
<1>10. CASE HandleUserauthSuccess /\ SessionAlone
  <2>1. accepted
    BY <1>10, DispatchAccepted DEF HandleUserauthSuccess, BeforeAcceptServer
  <2> QED BY <1>10, <1>s, <2>1
             DEF HandleUserauthSuccess, Emit, GateInv, TypeInv, TypeOK
<1>11. CASE HandleUserauthPkOk /\ SessionAlone
  <2>1. accepted /\ cs_cipher # NoCipher
    BY <1>11, DispatchAccepted DEF HandleUserauthPkOk, BeforeAcceptServer, GateInv
  <2>2. CASE pending_auth = "PublicKeyQuery"
    BY <1>11, <1>s, <2>1, <2>2, SendCipheredGate
       DEF HandleUserauthPkOk, Opened, GateInv
  <2>3. CASE pending_auth # "PublicKeyQuery"
    BY <1>11, <1>s, <2>1, <2>3
       DEF HandleUserauthPkOk, Fail, GateInv, TypeInv, TypeOK
  <2> QED BY <2>2, <2>3
<1>12. CASE HandleGlobalRequest /\ SessionAlone
  <2>1. accepted /\ cs_cipher # NoCipher
    BY <1>12, DispatchAccepted
       DEF HandleGlobalRequest, BeforeAcceptServer, GateInv
  <2>2. CASE SendCiphered(Msg("REQUEST_FAILURE"))
    BY <1>12, <1>s, <2>1, <2>2, SendCipheredGate
       DEF HandleGlobalRequest, Opened, GateInv
  <2>3. CASE UNCHANGED <<outgoing, cs_cipher, panicked>>
    BY <1>12, <1>s, <2>1, <2>3
       DEF HandleGlobalRequest, Opened, GateInv, TypeInv, TypeOK
  <2> QED BY <1>12, <2>2, <2>3 DEF HandleGlobalRequest
<1>13. CASE HandleUnexpected /\ SessionAlone
  BY <1>13, <1>s
     DEF HandleUnexpected, Opened, Fail, GateInv, BeforeAccept, TypeInv, TypeOK
<1>5. CASE HandlePeerKexinit /\ SessionAlone
  <2>1. CASE /\ SendPlaintextOrCiphered([type |-> "KEX_INIT", kex |-> kexes'])
             /\ UNCHANGED <<phase, events>>
    <3>1. CASE cs_cipher = NoCipher
      BY <1>5, <1>s, <2>1, <3>1, SendPlaintextGate
         DEF HandlePeerKexinit, Opened, SendPlaintextOrCiphered, GateInv, BeforeAccept, BeforeAcceptClient
    <3>2. CASE cs_cipher # NoCipher
      BY <1>5, <1>s, <2>1, <3>2, SendCipheredGate
         DEF HandlePeerKexinit, Opened, SendPlaintextOrCiphered, GateInv,
             BeforeAccept
    <3> QED BY <3>1, <3>2
  <2>2. CASE Fail("Negotiation") /\ UNCHANGED <<outgoing, cs_cipher, panicked>>
    BY <1>5, <1>s, <2>2
       DEF HandlePeerKexinit, Opened, Fail, GateInv, BeforeAccept, TypeInv, TypeOK
  <2> QED BY <1>5, <2>1, <2>2 DEF HandlePeerKexinit
<1>14. CASE HostPolls
  BY <1>14
     DEF HostPolls, PollEvent, serverVars, wires, cipherVars, GateInv, BeforeAccept,
         TypeInv, TypeOK
<1>15. CASE HostDecides
  <2>1. CASE AcceptHostKey /\ accepted' = TRUE
    <3>1. pending_ciphers # NoCipher
      BY <1>15 DEF HostDecides, ProvideHostKeyDecision, GateInv
    <3>2. /\ Advance(pending_ciphers) # NoCipher
          /\ Seal(pending_ciphers, Msg("SERVICE_REQUEST")).alg # "none"
      BY <3>1, AdvanceType, CipherAlg DEF TypeInv, TypeOK, Seal
    <3>3. Seal(NoCipher, Msg("NEWKEYS")).msg.type = "NEWKEYS"
      BY DEF Seal, Msg
    <3>4. \A i \in 1..Len(outgoing') :
             outgoing'[i].msg.type \in Ciphered => outgoing'[i].alg # "none"
      BY <2>1, <3>2, <3>3 DEF AcceptHostKey, GateInv, TypeInv, TypeOK, Ciphered
    <3> QED BY <1>15, <2>1, <3>2, <3>4
               DEF HostDecides, ProvideHostKeyDecision, AcceptHostKey, GateInv
  <2>2. CASE Fail("HostKeyRejected") /\ UNCHANGED <<outgoing, cipherVars, panicked, accepted>>
    BY <1>15, <2>2
       DEF HostDecides, ProvideHostKeyDecision, Fail, serverVars, cipherVars,
           GateInv, BeforeAccept, TypeInv, TypeOK
  <2> QED BY <1>15, <2>1, <2>2 DEF HostDecides, ProvideHostKeyDecision
<1>16. CASE HostAuthenticates
  <2>1. PICK pending, method : Authenticate(pending, method) /\ UNCHANGED <<serverVars, accepted>>
    BY <1>16 DEF HostAuthenticates, AuthenticatePassword, AuthenticatePublickey
  <2>2. accepted /\ cs_cipher # NoCipher
    BY <2>1 DEF Authenticate, GateInv, BeforeAccept
  <2> QED BY <2>1, <2>2, SendCipheredGate DEF Authenticate, GateInv
<1>17. CASE HostOpensChannel
  <2>1. CASE cs_cipher = NoCipher
    <3>1. "earlyExec" \in HostMay
      BY <1>17, <2>1
         DEF HostOpensChannel, Told, GateInv, BeforeAccept, TypeInv, TypeOK
    <3> QED BY <1>17, <2>1, <3>1
               DEF HostOpensChannel, OpenChannel, SendCiphered, serverVars,
                   hostVars, GateInv, BeforeAccept
  <2>2. CASE cs_cipher # NoCipher
    BY <1>17, <2>2, SendCipheredGate
       DEF HostOpensChannel, OpenChannel, serverVars, hostVars, GateInv,
           BeforeAccept
  <2> QED BY <2>1, <2>2
<1>18. CASE HostCloses
  BY <1>18
     DEF HostCloses, NotifyTransportClosed, Fail, serverVars, hostVars, wires,
         cipherVars, GateInv, BeforeAccept, TypeInv, TypeOK
<1>19. CASE SrvIdent /\ ServerAlone
  BY <1>19, <1>v DEF SrvIdent, GateInv, BeforeAccept
<1>20. CASE SrvSendKexInit /\ ServerAlone
  BY <1>20, <1>v, ReplyGate
     DEF SrvSendKexInit, BeforeAcceptServer, GateInv, BeforeAccept
<1>21. CASE SrvKexInit /\ ServerAlone
  BY <1>21, <1>v DEF SrvKexInit, GateInv, BeforeAccept
<1>22. CASE SrvKexEcdhInit /\ ServerAlone
  BY <1>22, <1>v, ReplyGate
     DEF SrvKexEcdhInit, BeforeAcceptServer, GateInv, BeforeAccept
<1>23. CASE SrvSendNewKeys /\ ServerAlone
  <2> DEFINE p == Seal(NoCipher, Msg("NEWKEYS"))
  <2>1. p.msg.type = "NEWKEYS"
    BY DEF Seal, Msg
  <2>2. incoming' = Append(incoming, p)
    BY <1>23 DEF SrvSendNewKeys
  <2> HIDE DEF p
  <2>3. incoming \in Seq(Packets(ServerMessages))
    BY DEF TypeInv, TypeOK
  <2>4. \A i \in 1..Len(incoming') :
           \/ incoming'[i] = p
           \/ i \in 1..Len(incoming) /\ incoming'[i] = incoming[i]
    BY <2>2, <2>3
  <2>5. ~accepted => \A i \in 1..Len(incoming') : incoming'[i].msg.type \in BeforeAcceptServer
    BY <2>1, <2>4 DEF BeforeAcceptServer, GateInv, BeforeAccept
  <2> QED BY <1>23, <1>v, <2>5 DEF SrvSendNewKeys, GateInv, BeforeAccept
<1>24. CASE SrvNewKeys /\ ServerAlone
  BY <1>24, <1>v DEF SrvNewKeys, GateInv, BeforeAccept
<1>25. CASE SrvServiceRequest /\ ServerAlone
  <2>1. accepted
    BY <1>25, TakesAccepted DEF SrvServiceRequest, BeforeAcceptClient
  <2> QED BY <1>25, <1>v, <2>1 DEF SrvServiceRequest, GateInv
<1>26. CASE SrvUserauthRequest /\ ServerAlone
  BY <1>26, <1>v DEF SrvUserauthRequest, GateInv, BeforeAccept
<1>27. CASE SrvConnection /\ ServerAlone
  BY <1>27, <1>v DEF SrvConnection, GateInv, BeforeAccept
<1>28. CASE SrvProtocolError /\ ServerAlone
  BY <1>28, <1>v DEF SrvProtocolError, GateInv, BeforeAccept
<1>29. CASE (SrvDebug \/ SrvEarlyDebug \/ SrvDisconnect) /\ ServerAlone
  <2>1. PICK t \in {"DEBUG", "DISCONNECT"} : Reply(Msg(t))
    BY <1>29 DEF SrvDebug, SrvEarlyDebug, SrvDisconnect, Unsolicited
  <2>2. ~accepted => \A i \in 1..Len(incoming') : incoming'[i].msg.type \in BeforeAcceptServer
    BY <2>1, ReplyGate DEF Msg, BeforeAcceptServer
  <2> QED BY <1>29, <1>v, <2>2
             DEF SrvDebug, SrvEarlyDebug, SrvDisconnect, Unsolicited, GateInv,
                 BeforeAccept
<1>30. CASE (SrvBanner \/ SrvGlobalRequest \/ SrvRekey) /\ ServerAlone
  BY <1>30, <1>v
     DEF SrvBanner, SrvGlobalRequest, SrvRekey, Unsolicited, GateInv, BeforeAccept
<1>31. CASE UNCHANGED vars
  BY <1>31
     DEF vars, wires, sessionVars, serverVars, hostVars, cipherVars, GateInv,
         BeforeAccept
<1> QED
  BY <1>1, <1>2, <1>3, <1>4, <1>5, <1>6, <1>7, <1>8, <1>9, <1>10, <1>11, <1>12,
     <1>13, <1>14, <1>15, <1>16, <1>17, <1>18, <1>19, <1>20, <1>21, <1>22, <1>23,
     <1>24, <1>25, <1>26, <1>27, <1>28, <1>29, <1>30, <1>31
     DEF Next

\* Whatever Quirks the server has, nothing but the identification line and the key
\* exchange leaves the client before the host accepts the host key, and no
\* credential ever leaves it in plaintext (provide_host_key_decision,
\* send_ciphered, dispatch).
THEOREM GateCorrect == Spec => []AcceptGate
<1>1. GateInv => AcceptGate
  BY DEF GateInv, BeforeAccept, BeforeAcceptClient, Ciphered, AcceptGate
<1> QED BY TypeInit, TypeStep, GateInit, GateStep, <1>1, PTL DEF Spec

\* A host that opens channels only after AuthSuccess never makes the session's
\* expect() in send_ciphered fail, whatever Quirks the server has.  The hypothesis is
\* needed: exec() before AuthSuccess does trip it.
THEOREM NoPanicCorrect ==
    ASSUME "earlyExec" \notin HostMay
    PROVE  Spec => []NoPanic
<1>1. GateInv => NoPanic
  BY DEF GateInv, NoPanic
<1> QED BY TypeInit, TypeStep, GateInit, GateStep, <1>1, PTL DEF Spec
=============================================================================
