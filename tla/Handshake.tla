------------------------------ MODULE Handshake ------------------------------
(***************************************************************************)
(* The client session, its server and its host together.  The host is what *)
(* src/client.ts makes of the session: it answers the host-key question    *)
(* once it has polled it, authenticates once for each ReadyForAuth and     *)
(* AuthFailure it has polled, opens channels after AuthSuccess, and may    *)
(* report the transport closed at any moment.                              *)
(***************************************************************************)
EXTENDS Session, Server

CONSTANTS
    Credentials,    \* subset of {"password", "publickey"} the host may use
    HostMay         \* subset of {"reject", "close", "earlyExec"}

ASSUME HostAssumption ==
    /\ Credentials \subseteq {"password", "publickey"}
    /\ HostMay \subseteq {"reject", "close", "earlyExec"}

VARIABLES
    prompted,   \* an authentication is asked for and not yet attempted
    accepted    \* history: the host accepted the host key

hostVars == <<prompted, accepted>>
vars == <<wires, sessionVars, serverVars, hostVars>>

Init ==
    /\ SessionInit
    /\ ServerInit
    /\ \E v \in Versions :
          incoming = <<Seal(NoCipher, [type |-> "IDENT", version |-> v])>>
    /\ outgoing = <<Seal(NoCipher, [type |-> "IDENT", version |-> "2.0"])>>
    /\ consumed = 0
    /\ received = 0
    /\ prompted = FALSE
    /\ accepted = FALSE

Told == {events[i] : i \in 1..polled}

-----------------------------------------------------------------------------
\* The host's calls.  RoomToSend bounds the calls it may repeat for ever.

RoomToSend == Len(outgoing) < MaxLog

HostPolls ==
    /\ PollEvent
    /\ prompted' = (prompted \/ events[polled'] \in {"ReadyForAuth", "AuthFailure"})
    /\ UNCHANGED <<serverVars, accepted>>

\* pump's HostKeyVerify case and the verifier's promise, which settles once
\* per question but may do so long after.
HostDecides ==
    /\ "HostKeyVerify" \in Told
    /\ \/ ProvideHostKeyDecision(TRUE) /\ accepted' = TRUE
       \/ "reject" \in HostMay /\ ProvideHostKeyDecision(FALSE) /\ UNCHANGED accepted
    /\ UNCHANGED <<serverVars, prompted>>

\* attemptInitialAuth, and handlePasswordInput after a prompt.
HostAuthenticates ==
    /\ prompted
    /\ RoomToSend
    /\ \/ "password" \in Credentials /\ AuthenticatePassword
       \/ "publickey" \in Credentials /\ AuthenticatePublickey
    /\ prompted' = FALSE
    /\ UNCHANGED <<serverVars, accepted>>

\* open_shell in the AuthSuccess case, and exec(), which rejects only once the
\* client has handled a terminal event: it runs before AuthSuccess if the
\* caller does not wait.
HostOpensChannel ==
    /\ Told \cap TerminalEvents = {}
    /\ "AuthSuccess" \in Told \/ "earlyExec" \in HostMay
    /\ RoomToSend
    /\ OpenChannel
    /\ UNCHANGED <<serverVars, hostVars>>

\* The transport reports its end, at will or because the server is gone.
HostCloses ==
    /\ \/ "close" \in HostMay
       \/ srvPhase = "Gone" /\ consumed = Len(incoming)
    /\ NotifyTransportClosed
    /\ UNCHANGED <<serverVars, hostVars>>

-----------------------------------------------------------------------------

SessionAlone == UNCHANGED <<serverVars, hostVars>>

ServerAlone == UNCHANGED <<sessionVars, hostVars>>

Next ==
    \/ DriveVersionExchange /\ SessionAlone
    \/ DriveUndecodable /\ SessionAlone
    \/ HandleDisconnect /\ SessionAlone
    \/ HandleIgnored /\ SessionAlone
    \/ HandlePeerKexinit /\ SessionAlone
    \/ HandleKexReply /\ SessionAlone
    \/ HandleNewkeys /\ SessionAlone
    \/ HandleServiceAccept /\ SessionAlone
    \/ HandleUserauthFailure /\ SessionAlone
    \/ HandleUserauthSuccess /\ SessionAlone
    \/ HandleUserauthPkOk /\ SessionAlone
    \/ HandleGlobalRequest /\ SessionAlone
    \/ HandleUnexpected /\ SessionAlone
    \/ HostPolls \/ HostDecides \/ HostAuthenticates \/ HostOpensChannel \/ HostCloses
    \/ SrvIdent /\ ServerAlone
    \/ SrvSendKexInit /\ ServerAlone
    \/ SrvKexInit /\ ServerAlone
    \/ SrvKexEcdhInit /\ ServerAlone
    \/ SrvSendNewKeys /\ ServerAlone
    \/ SrvNewKeys /\ ServerAlone
    \/ SrvServiceRequest /\ ServerAlone
    \/ SrvUserauthRequest /\ ServerAlone
    \/ SrvConnection /\ ServerAlone
    \/ SrvProtocolError /\ ServerAlone
    \/ SrvDebug /\ ServerAlone
    \/ SrvEarlyDebug /\ ServerAlone
    \/ SrvDisconnect /\ ServerAlone
    \/ SrvBanner /\ ServerAlone
    \/ SrvGlobalRequest /\ ServerAlone
    \/ SrvRekey /\ ServerAlone

Spec == Init /\ [][Next]_vars

\* What the code's scheduling guarantees: drive runs whenever bytes arrive
\* and pump polls after every drive; a live server fulfils its obligations; a
\* transport whose server is gone reports its end.  The host need not answer
\* the host-key question, authenticate, or do anything else.
Fairness ==
    /\ WF_vars(Drive /\ SessionAlone)
    /\ WF_vars(HostPolls)
    /\ WF_vars(SrvOblige /\ ServerAlone)
    /\ WF_vars(srvPhase = "Gone" /\ HostCloses)

FairSpec == Spec /\ Fairness

-----------------------------------------------------------------------------
\* Properties.

MaybeCipher == Ciphers \cup {NoCipher}

ClientMessages ==
    [type : {"IDENT"}, version : {"2.0"}] \cup
    [type : {"KEXINIT", "NEWKEYS", "SERVICE_REQUEST", "REQUEST_FAILURE", "CHANNEL_OPEN"}] \cup
    [type : {"KEX_INIT"}, kex : Nat \ {0}] \cup
    [type : {"USERAUTH_REQUEST"}, method : {"password", "query", "signed"}, over : Nat]

ServerMessages ==
    [type : {"IDENT"}, version : Versions] \cup
    [type : {"KEXINIT"}, offer : Offers \cup {NoOffer}] \cup
    [type : {"KEX_REPLY"}, kex : Nat, signed : BOOLEAN] \cup
    [type : {"NEWKEYS", "SERVICE_ACCEPT", "USERAUTH_PK_OK", "USERAUTH_SUCCESS",
             "USERAUTH_FAILURE", "DISCONNECT", "DEBUG", "USERAUTH_BANNER", "GLOBAL_REQUEST"}]

Packets(messages) == [alg : Algs \cup {"none"}, kex : Nat, ctr : Nat, msg : messages]

TypeOK ==
    /\ incoming \in Seq(Packets(ServerMessages))
    /\ outgoing \in Seq(Packets(ClientMessages))
    /\ consumed \in Nat /\ received \in Nat /\ polled \in Nat /\ kexes \in Nat
    /\ active_kex \in Nat /\ session_id \in Nat /\ srvKex \in Nat
    /\ phase \in Phases /\ srvPhase \in SrvPhases
    /\ events \in Seq(Events)
    /\ negotiated \in [cs : Algs, sc : Algs] \cup {NoAlgorithms}
    /\ pending_ciphers \in MaybeCipher /\ pending_sc_cipher \in MaybeCipher
    /\ cs_cipher \in MaybeCipher /\ sc_cipher \in MaybeCipher
    /\ srvIn \in MaybeCipher /\ srvOut \in MaybeCipher
    /\ srvOffer \in Offers \cup {NoOffer}
    /\ pending_auth \in PendingAuths
    /\ panicked \in BOOLEAN /\ prompted \in BOOLEAN /\ accepted \in BOOLEAN

\* The next packet the server has sent always opens under the cipher the
\* session holds when it gets to it: the switch of the receive cipher falls
\* exactly between the server's NEWKEYS and what follows it, even when both
\* were buffered during the host-key pause, and the nonces never drift apart
\* (drive_packet_phase, handle_newkeys, on_kex_result).
LockstepIn ==
    consumed < Len(incoming) /\ phase \notin {"VersionExchange", "Closed"}
        => Opens(sc_cipher, NextPacket)

\* The same for the packets the session sends (provide_host_key_decision,
\* send_ciphered), as the server opens them.
LockstepOut ==
    received < Len(outgoing) /\ srvPhase # "Gone" => Opens(srvIn, NextFromClient)

\* A server that keeps to the protocol is never the cause of a fatal error:
\* the session ends only by DISCONNECT, by the transport, or by the host's
\* refusal (the error paths of dispatch and of every handler).
NeverFatal ==
    \A i \in 1..Len(events) : events[i] \notin
        Errors \ {"HostKeyRejected", "TransportClosed"}

\* No expect() of the session fails (send_ciphered without a cipher).
NoPanic == ~panicked

\* Before the host accepts the host key nothing but the identification line
\* and the two key-exchange messages leaves the client, and credentials never
\* leave it in plaintext (event.rs: "No further protocol progress").
AcceptGate ==
    \A i \in 1..Len(outgoing) :
        /\ ~accepted => outgoing[i].msg.type \in {"IDENT", "KEXINIT", "KEX_INIT"}
        /\ outgoing[i].msg.type \in {"USERAUTH_REQUEST", "SERVICE_REQUEST", "CHANNEL_OPEN"}
               => outgoing[i].alg # "none"

\* The session implements its promise, whatever Quirks the server has.
stage == CASE phase \in {"VersionExchange", "KexInProgress"} -> "handshake"
           [] phase = "AwaitingHostKeyDecision" -> "verify"
           [] phase = "ServiceRequest" -> "service"
           [] phase = "UserAuth" -> "auth"
           [] phase = "Connected" -> "connected"
           [] OTHER -> "closed"

granted == \E i \in 1..Len(incoming) : incoming[i].msg.type = "USERAUTH_SUCCESS"

Promise == INSTANCE SessionPromise WITH log <- events, Terminal <- TerminalEvents

KeepsPromise == Promise!Spec

\* Once the host has accepted the key the handshake reaches user
\* authentication, in whichever order the two NEWKEYS and the answer came
\* (the pause in drive and its end in provide_host_key_decision).
AcceptedSettles ==
    accepted ~> (phase = "Closed" \/ "ReadyForAuth" \in Told)

\* Every authentication request is answered: the client is not left with a
\* request outstanding that no reply will ever clear (handle_userauth_*).
RequestSettles ==
    pending_auth # "None" ~> (pending_auth = "None" \/ phase = "Closed")

\* kexinit.rs on negotiate: each direction uses the client's most preferred
\* cipher that the server offered for that direction.
ReceiveCipherNegotiated ==
    sc_cipher # NoCipher => sc_cipher.alg = negotiated.sc

=============================================================================
