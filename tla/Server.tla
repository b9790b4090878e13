-------------------------------- MODULE Server --------------------------------
(***************************************************************************)
(* The SSH server at the other end: an RFC 4253/4252 server, of which the  *)
(* repository's FakeServer (ssh-core-testkit/src/lib.rs) is the instance   *)
(* its tests run.  It answers as FakeServer does, but it may send KEXINIT  *)
(* before it has seen the client's and NEWKEYS any time after its reply,   *)
(* it may refuse a credential, and Quirks lists what else this server does.*)
(***************************************************************************)
EXTENDS Wire

CONSTANTS
    Versions,   \* protocol versions in the server's identification line
    Offers,     \* the algorithm lists its KEXINIT may carry
    NoOffer,    \* no KEXINIT sent yet
    Quirks,     \* the optional behaviours of this server
    MaxLog      \* bound: nothing optional is written to a log this long

AllQuirks == {"debug", "earlyDebug", "disconnect", "globalRequest", "banner",
              "rekey", "badSignature"}

OfferSet == [cs : SUBSET {"chacha20", "aes256gcm"},
             sc : SUBSET {"chacha20", "aes256gcm"}, rest : BOOLEAN]

ASSUME ServerAssumption ==
    /\ Versions \subseteq {"2.0", "1.5"}
    /\ Offers \subseteq OfferSet
    /\ NoOffer \notin OfferSet
    /\ Quirks \subseteq AllQuirks
    /\ MaxLog \in Nat

VARIABLES
    srvPhase, srvOffer,
    srvKex,             \* the key exchange it has replied to, 0 if none
    srvIn, srvOut       \* its receive and send ciphers

serverVars == <<srvPhase, srvOffer, srvKex, srvIn, srvOut>>

SrvPhases == {"AwaitingIdent", "AwaitingKexInit", "AwaitingKexEcdhInit",
              "AwaitingNewKeys", "AwaitingUserAuth", "Connected", "Gone"}

ServerInit ==
    /\ srvPhase = "AwaitingIdent"
    /\ srvOffer = NoOffer
    /\ srvKex = 0
    /\ srvIn = NoCipher
    /\ srvOut = NoCipher

\* The client's preference order decides on both sides (RFC 4253, 7.1).
Agreed(offered) == IF "chacha20" \in offered THEN "chacha20" ELSE "aes256gcm"

Reply(m) == /\ incoming' = Append(incoming, Seal(srvOut, m))
            /\ srvOut' = Advance(srvOut)

NextFromClient == outgoing[received + 1]

Receiving == srvPhase # "Gone" /\ received < Len(outgoing)

\* step_packet: the client's next packet opens and holds message type t.
Takes(t) == /\ Receiving
            /\ Opens(srvIn, NextFromClient)
            /\ NextFromClient.msg.type = t
            /\ received' = received + 1

-----------------------------------------------------------------------------
\* What the protocol obliges the server to do.

\* step_ident.
SrvIdent ==
    /\ srvPhase = "AwaitingIdent"
    /\ Takes("IDENT")
    /\ srvPhase' = "AwaitingKexInit"
    /\ UNCHANGED <<incoming, consumed, outgoing, srvOffer, srvKex, srvIn, srvOut>>

\* handle_kexinit, which answers a KEXINIT already received.  A server may
\* also send its own first.
SrvSendKexInit ==
    /\ srvPhase # "Gone"
    /\ srvOffer = NoOffer
    /\ \E offer \in Offers :
          /\ srvOffer' = offer
          /\ Reply([type |-> "KEXINIT", offer |-> offer])
    /\ UNCHANGED <<consumed, outgoing, received, srvPhase, srvKex, srvIn>>

SrvKexInit ==
    /\ srvPhase = "AwaitingKexInit"
    /\ Takes("KEXINIT")
    /\ srvPhase' = "AwaitingKexEcdhInit"
    /\ UNCHANGED <<incoming, consumed, outgoing, srvOffer, srvKex, srvIn, srvOut>>

\* handle_kex_ecdh_init, up to its reply.
SrvKexEcdhInit ==
    /\ srvPhase = "AwaitingKexEcdhInit"
    /\ srvOffer # NoOffer
    /\ Takes("KEX_INIT")
    /\ srvKex' = NextFromClient.msg.kex
    /\ srvPhase' = "AwaitingNewKeys"
    /\ \E signed \in {TRUE} \cup {"badSignature" \notin Quirks} :
          Reply([type |-> "KEX_REPLY", kex |-> srvKex', signed |-> signed])
    /\ UNCHANGED <<consumed, outgoing, srvOffer, srvIn>>

\* handle_kex_ecdh_init, its NEWKEYS: the send cipher counts on from the
\* binary packets sent so far, the identification line not being one.
SrvSendNewKeys ==
    /\ srvPhase # "Gone"
    /\ srvKex # 0
    /\ srvOut = NoCipher
    /\ incoming' = Append(incoming, Seal(NoCipher, Msg("NEWKEYS")))
    /\ srvOut' = WithInitialSeq(Agreed(srvOffer.sc), srvKex, Len(incoming') - 1)
    /\ UNCHANGED <<consumed, outgoing, received, srvPhase, srvOffer, srvKex, srvIn>>

\* handle on NEWKEYS: the receive cipher counts on from the packets received.
SrvNewKeys ==
    /\ srvPhase = "AwaitingNewKeys"
    /\ srvIn = NoCipher
    /\ Takes("NEWKEYS")
    /\ srvIn' = WithInitialSeq(Agreed(srvOffer.cs), srvKex, received' - 1)
    /\ UNCHANGED <<incoming, consumed, outgoing, srvPhase, srvOffer, srvKex, srvOut>>

\* handle_service_request.
SrvServiceRequest ==
    /\ srvPhase = "AwaitingNewKeys"
    /\ srvOut # NoCipher
    /\ Takes("SERVICE_REQUEST")
    /\ srvPhase' = "AwaitingUserAuth"
    /\ srvIn' = Advance(srvIn)
    /\ Reply(Msg("SERVICE_ACCEPT"))
    /\ UNCHANGED <<consumed, outgoing, srvOffer, srvKex>>

\* handle_userauth_request: a key query may be answered PK_OK, a password or
\* a signature over this session's id SUCCESS; any of them may be refused.
Granted(request) ==
    \/ request.method = "password"
    \/ request.method = "signed" /\ request.over = srvKex

SrvUserauthRequest ==
    /\ srvPhase = "AwaitingUserAuth"
    /\ Takes("USERAUTH_REQUEST")
    /\ srvIn' = Advance(srvIn)
    /\ \/ /\ NextFromClient.msg.method = "query"
          /\ Reply(Msg("USERAUTH_PK_OK"))
          /\ UNCHANGED srvPhase
       \/ /\ Granted(NextFromClient.msg)
          /\ Reply(Msg("USERAUTH_SUCCESS"))
          /\ srvPhase' = "Connected"
       \/ /\ Reply(Msg("USERAUTH_FAILURE"))
          /\ UNCHANGED srvPhase
    /\ UNCHANGED <<consumed, outgoing, srvOffer, srvKex>>

\* The client's REQUEST_FAILURE and CHANNEL_OPEN (answered in no way here).
SrvConnection ==
    /\ srvPhase = "Connected"
    /\ \/ Takes("REQUEST_FAILURE")
       \/ Takes("CHANNEL_OPEN")
    /\ srvIn' = Advance(srvIn)
    /\ UNCHANGED <<incoming, consumed, outgoing, srvPhase, srvOffer, srvKex, srvOut>>

SrvOblige ==
    \/ SrvIdent \/ SrvSendKexInit \/ SrvKexInit \/ SrvKexEcdhInit \/ SrvSendNewKeys
    \/ SrvNewKeys \/ SrvServiceRequest \/ SrvUserauthRequest \/ SrvConnection

-----------------------------------------------------------------------------
\* How it gives up, and what it may do of its own accord.  It would also drop
\* the connection over a packet that does not open (step_packet): LockstepOut
\* of Handshake says that there is none.

\* A message the phase does not allow: DISCONNECT.
SrvProtocolError ==
    /\ Receiving
    /\ \/ srvPhase = "Connected" /\ Takes("KEX_INIT")
       \/ srvPhase = "AwaitingUserAuth" /\ Takes("CHANNEL_OPEN")
    /\ srvPhase' = "Gone"
    /\ Reply(Msg("DISCONNECT"))
    /\ UNCHANGED <<consumed, outgoing, srvOffer, srvKex, srvIn>>

Unsolicited(quirk, m) ==
    /\ quirk \in Quirks
    /\ srvPhase # "Gone"
    /\ Len(incoming) < MaxLog
    /\ Reply(m)
    /\ UNCHANGED <<consumed, outgoing, received, srvOffer, srvKex, srvIn>>

SrvDebug ==
    /\ Unsolicited("debug", Msg("DEBUG"))
    /\ srvOut # NoCipher
    /\ UNCHANGED srvPhase

SrvEarlyDebug ==
    /\ Unsolicited("earlyDebug", Msg("DEBUG"))
    /\ srvOut = NoCipher
    /\ UNCHANGED srvPhase

SrvDisconnect ==
    /\ Unsolicited("disconnect", Msg("DISCONNECT"))
    /\ srvPhase' = "Gone"

SrvBanner ==
    /\ Unsolicited("banner", Msg("USERAUTH_BANNER"))
    /\ srvPhase = "AwaitingUserAuth"
    /\ UNCHANGED srvPhase

SrvGlobalRequest ==
    /\ Unsolicited("globalRequest", Msg("GLOBAL_REQUEST"))
    /\ srvPhase = "Connected"
    /\ UNCHANGED srvPhase

SrvRekey ==
    /\ Unsolicited("rekey", [type |-> "KEXINIT", offer |-> srvOffer])
    /\ srvPhase = "Connected"
    /\ UNCHANGED srvPhase
=============================================================================
