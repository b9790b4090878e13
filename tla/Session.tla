------------------------------- MODULE Session -------------------------------
(***************************************************************************)
(* The client's session state machine up to user authentication            *)
(* (ssh-core/src/session.rs): version exchange, key exchange, the pause    *)
(* for the host-key decision, cipher activation, service request, auth.    *)
(*                                                                         *)
(* Every step below is one iteration of Session::drive on the next entry   *)
(* of `incoming`, or one call of the host.  The host's calls run to        *)
(* completion, so a host call between two iterations is a host call made   *)
(* before the later packet arrived.                                        *)
(*                                                                         *)
(* `events` is the log of every event queued and `polled` the number of    *)
(* them poll_event has returned.  The error carried by an Unrecoverable    *)
(* event stands for the event.  What the handlers of channel messages do   *)
(* is not in this module.                                                  *)
(***************************************************************************)
EXTENDS Wire

VARIABLES
    phase, events, polled,
    negotiated,         \* Option<NegotiatedAlgorithms>, the two ciphers of it
    active_kex,         \* Option<ActiveKex>: id of the ephemeral key, 0 if none
    kexes,              \* ephemeral keys generated so far (fresh ids)
    session_id,         \* Option<H> of the first exchange, 0 if none
    pending_ciphers, pending_sc_cipher, cs_cipher, sc_cipher,
    pending_auth,
    panicked            \* an expect() of session.rs failed: wasm has trapped

kexVars == <<negotiated, active_kex, kexes, session_id>>
cipherVars == <<pending_ciphers, pending_sc_cipher, cs_cipher, sc_cipher>>
sessionVars == <<phase, events, polled, kexVars, cipherVars, pending_auth, panicked>>

Phases == {"VersionExchange", "KexInProgress", "AwaitingHostKeyDecision",
           "ServiceRequest", "UserAuth", "Connected", "Closed"}

PendingAuths == {"None", "Password", "PublicKeyQuery", "PublicKeySigned"}

Errors == {"Ident", "Undecodable", "Negotiation", "HostKeySignatureInvalid",
           "HostKeyRejected", "UnexpectedMessage", "UnsupportedAuthMethod",
           "TransportClosed"}

\* Event::Disconnected, and Event::Unrecoverable by its error.
TerminalEvents == Errors \cup {"Disconnected"}

Events == TerminalEvents \cup
          {"HostKeyVerify", "ReadyForAuth", "AuthFailure", "AuthSuccess"}

NoAlgorithms == [cs |-> "none", sc |-> "none"]

\* Session::new: the identification line is queued by the constructor.
SessionInit ==
    /\ phase = "VersionExchange"
    /\ events = <<>>
    /\ polled = 0
    /\ negotiated = NoAlgorithms
    /\ active_kex = 0
    /\ kexes = 0
    /\ session_id = 0
    /\ pending_ciphers = NoCipher
    /\ pending_sc_cipher = NoCipher
    /\ cs_cipher = NoCipher
    /\ sc_cipher = NoCipher
    /\ pending_auth = "None"
    /\ panicked = FALSE

-----------------------------------------------------------------------------
\* Helpers of the handlers.

Fail(err) == /\ phase' = "Closed"
             /\ events' = Append(events, err)

Emit(e) == events' = Append(events, e)

SendPlaintext(m) == outgoing' = Append(outgoing, Seal(NoCipher, m))

\* send_ciphered: its expect() fails while cs_cipher is None.
SendCiphered(m) ==
    IF cs_cipher = NoCipher
    THEN /\ panicked' = TRUE
         /\ UNCHANGED <<outgoing, cs_cipher>>
    ELSE /\ outgoing' = Append(outgoing, Seal(cs_cipher, m))
         /\ cs_cipher' = Advance(cs_cipher)
         /\ UNCHANGED panicked

SendPlaintextOrCiphered(m) ==
    IF cs_cipher = NoCipher
    THEN /\ SendPlaintext(m)
         /\ UNCHANGED <<cs_cipher, panicked>>
    ELSE SendCiphered(m)

\* Mutant of negotiate: falls back to no cipher.
NegotiateOrNone(theirs) == IF "chacha20" \in theirs THEN "chacha20" ELSE "none"

\* negotiate: the client's most preferred cipher among those offered.
negotiate(theirs) == IF "chacha20" \in theirs THEN "chacha20" ELSE "aes256gcm"

NextPacket == incoming[consumed + 1]

\* Mutant of Driving: no pause for the host-key decision.
DrivingThroughPause == /\ ~panicked
                       /\ phase # "Closed"
                       /\ consumed < Len(incoming)

\* drive: paused until the host-key decision, and never again once closed.
Driving == /\ ~panicked
           /\ phase \notin {"Closed", "AwaitingHostKeyDecision"}
           /\ consumed < Len(incoming)

\* drive_packet_phase up to dispatch: the next packet opens under the current
\* receive cipher, is drained, and carries a message of type t.
Dispatch(t) == /\ Driving
               /\ phase # "VersionExchange"
               /\ Opens(sc_cipher, NextPacket)
               /\ NextPacket.msg.type = t
               /\ consumed' = consumed + 1

\* The receive cipher's counter moves on; the other ciphers do not change.
Opened == /\ sc_cipher' = Advance(sc_cipher)
          /\ UNCHANGED <<pending_ciphers, pending_sc_cipher>>

-----------------------------------------------------------------------------
\* Iterations of drive.

\* drive_version_exchange: on a good identification line the client moves on
\* and sends its KEXINIT; on a bad one nothing is drained and it fails.
DriveVersionExchange ==
    /\ Driving
    /\ phase = "VersionExchange"
    /\ IF NextPacket.msg.version = "2.0"
       THEN /\ consumed' = consumed + 1
            /\ phase' = "KexInProgress"
            /\ SendPlaintext(Msg("KEXINIT"))
            /\ UNCHANGED events
       ELSE /\ Fail("Ident")
            /\ UNCHANGED <<consumed, outgoing>>
    /\ UNCHANGED <<incoming, received, polled, kexVars, cipherVars, pending_auth, panicked>>

\* A packet the current receive cipher cannot open: wrong key or nonce, or
\* ciphertext read as a plaintext packet.  A length that decrypts to garbage
\* may also leave the session waiting, which is this step not being taken.
DriveUndecodable ==
    /\ Driving
    /\ phase # "VersionExchange"
    /\ ~Opens(sc_cipher, NextPacket)
    /\ consumed' = consumed + 1
    /\ Fail("Undecodable")
    /\ UNCHANGED <<incoming, outgoing, received, polled, kexVars, cipherVars,
                   pending_auth, panicked>>

HandleDisconnect ==
    /\ Dispatch("DISCONNECT")
    /\ phase' = "Closed"
    /\ Emit("Disconnected")
    /\ Opened
    /\ UNCHANGED <<incoming, outgoing, received, polled, kexVars, cs_cipher,
                   pending_auth, panicked>>

\* SSH_MSG_IGNORE, UNIMPLEMENTED and DEBUG are dropped.
HandleIgnored ==
    /\ Dispatch("DEBUG")
    /\ Opened
    /\ UNCHANGED <<incoming, outgoing, received, phase, events, polled, kexVars,
                   cs_cipher, pending_auth, panicked>>

\* handle_peer_kexinit, in whatever phase it arrives.  The own KEXINIT is not
\* sent again.  `rest` says whether the lists of key-exchange and host-key
\* algorithms have a name in common with the client's.
HandlePeerKexinit ==
    /\ Dispatch("KEXINIT")
    /\ LET offer == NextPacket.msg.offer
       IN  IF offer.rest /\ offer.cs # {} /\ offer.sc # {}
           THEN /\ kexes' = kexes + 1
                /\ active_kex' = kexes'
                /\ negotiated' = [cs |-> negotiate(offer.cs), sc |-> negotiate(offer.sc)]
                /\ SendPlaintextOrCiphered([type |-> "KEX_INIT", kex |-> kexes'])
                /\ UNCHANGED <<phase, events>>
           ELSE /\ Fail("Negotiation")
                /\ UNCHANGED <<negotiated, active_kex, kexes, outgoing, cs_cipher, panicked>>
    /\ Opened
    /\ UNCHANGED <<incoming, received, polled, session_id, pending_auth>>

\* handle_curve25519_reply and handle_dh_group14_reply, then on_kex_result:
\* the ciphers of both directions take the client-to-server algorithm, and
\* start from a fixed count of PLAINTEXT_PACKETS_BEFORE_NEWKEYS.
PLAINTEXT_PACKETS_BEFORE_NEWKEYS == 3

SignatureVerifies(reply) == reply.kex = active_kex /\ reply.signed

\* Mutant of DerivedCipher: the sequence number restarts with the cipher.
DerivedCipherFromZero(kex) == WithInitialSeq(negotiated.cs, kex, 0)

DerivedCipher(kex) ==
    WithInitialSeq(negotiated.cs, kex, PLAINTEXT_PACKETS_BEFORE_NEWKEYS)

HandleKexReply ==
    /\ Dispatch("KEX_REPLY")
    /\ active_kex # 0
    /\ active_kex' = 0
    /\ IF SignatureVerifies(NextPacket.msg)
       THEN /\ pending_ciphers' = DerivedCipher(active_kex)
            /\ session_id' = IF session_id = 0 THEN active_kex ELSE session_id
            /\ phase' = "AwaitingHostKeyDecision"
            /\ Emit("HostKeyVerify")
       ELSE /\ Fail("HostKeySignatureInvalid")
            /\ UNCHANGED <<pending_ciphers, session_id>>
    /\ sc_cipher' = Advance(sc_cipher)
    /\ UNCHANGED <<incoming, outgoing, received, polled, negotiated, kexes,
                   pending_sc_cipher, cs_cipher, pending_auth, panicked>>

\* handle_newkeys: the pending receive cipher is taken before the check.
HandleNewkeys ==
    /\ Dispatch("NEWKEYS")
    /\ sc_cipher' = pending_sc_cipher
    /\ pending_sc_cipher' = NoCipher
    /\ IF cs_cipher = NoCipher \/ pending_sc_cipher = NoCipher
       THEN Fail("UnexpectedMessage")
       ELSE UNCHANGED <<phase, events>>
    /\ UNCHANGED <<incoming, outgoing, received, polled, kexVars, pending_ciphers,
                   cs_cipher, pending_auth, panicked>>

\* handle_service_accept.  A SERVICE_ACCEPT that names another service than
\* "ssh-userauth", an error, is not in the model: its servers name this one.
HandleServiceAccept ==
    /\ Dispatch("SERVICE_ACCEPT")
    /\ phase' = "UserAuth"
    /\ Emit("ReadyForAuth")
    /\ Opened
    /\ UNCHANGED <<incoming, outgoing, received, polled, kexVars, cs_cipher,
                   pending_auth, panicked>>

\* Mutant of HandleUserauthFailure: the failed request stays outstanding.
HandleUserauthFailureKeepsPending ==
    /\ Dispatch("USERAUTH_FAILURE")
    /\ Emit("AuthFailure")
    /\ Opened
    /\ UNCHANGED <<incoming, outgoing, received, phase, polled, kexVars, cs_cipher,
                   pending_auth, panicked>>

HandleUserauthFailure ==
    /\ Dispatch("USERAUTH_FAILURE")
    /\ pending_auth' = "None"
    /\ Emit("AuthFailure")
    /\ Opened
    /\ UNCHANGED <<incoming, outgoing, received, phase, polled, kexVars, cs_cipher, panicked>>

HandleUserauthSuccess ==
    /\ Dispatch("USERAUTH_SUCCESS")
    /\ pending_auth' = "None"
    /\ phase' = "Connected"
    /\ Emit("AuthSuccess")
    /\ Opened
    /\ UNCHANGED <<incoming, outgoing, received, polled, kexVars, cs_cipher, panicked>>

\* handle_userauth_pk_ok: the outstanding query is answered by the request
\* signed over the session id.  With no query outstanding, message 60 is read
\* as PASSWD_CHANGEREQ, which is fatal.  A PK_OK that does not parse and a key
\* that cannot sign are not in the model.
HandleUserauthPkOk ==
    /\ Dispatch("USERAUTH_PK_OK")
    /\ IF pending_auth = "PublicKeyQuery"
       THEN /\ pending_auth' = "PublicKeySigned"
            /\ SendCiphered([type |-> "USERAUTH_REQUEST", method |-> "signed", over |-> session_id])
            /\ UNCHANGED <<phase, events>>
       ELSE /\ Fail("UnsupportedAuthMethod")
            /\ UNCHANGED <<pending_auth, outgoing, cs_cipher, panicked>>
    /\ Opened
    /\ UNCHANGED <<incoming, received, polled, kexVars>>

\* handle_global_request, of a request that wants a reply or of one that does not.
HandleGlobalRequest ==
    /\ Dispatch("GLOBAL_REQUEST")
    /\ \/ SendCiphered(Msg("REQUEST_FAILURE"))
       \/ UNCHANGED <<outgoing, cs_cipher, panicked>>
    /\ Opened
    /\ UNCHANGED <<incoming, received, phase, events, polled, kexVars, pending_auth>>

\* The arms of dispatch that end in UnexpectedMessage: a key-exchange reply
\* with no exchange under way, and every message type without a handler.
HandleUnexpected ==
    /\ \/ Dispatch("KEX_REPLY") /\ active_kex = 0
       \/ Dispatch("USERAUTH_BANNER")
    /\ Fail("UnexpectedMessage")
    /\ Opened
    /\ UNCHANGED <<incoming, outgoing, received, polled, kexVars, cs_cipher,
                   pending_auth, panicked>>

Drive ==
    \/ DriveVersionExchange \/ DriveUndecodable \/ HandleDisconnect \/ HandleIgnored
    \/ HandlePeerKexinit \/ HandleKexReply \/ HandleNewkeys \/ HandleServiceAccept
    \/ HandleUserauthFailure \/ HandleUserauthSuccess \/ HandleUserauthPkOk
    \/ HandleGlobalRequest \/ HandleUnexpected

-----------------------------------------------------------------------------
\* Calls of the host.

PollEvent ==
    /\ ~panicked
    /\ polled < Len(events)
    /\ polled' = polled + 1
    /\ UNCHANGED <<wires, phase, events, kexVars, cipherVars, pending_auth, panicked>>

\* Mutants of AcceptHostKey: both ciphers are switched at once; the send
\* cipher is never promoted; the service is never requested.
AcceptHostKeySwitchesBoth ==
    /\ phase' = "ServiceRequest"
    /\ outgoing' = outgoing \o <<Seal(NoCipher, Msg("NEWKEYS")),
                                 Seal(pending_ciphers, Msg("SERVICE_REQUEST"))>>
    /\ cs_cipher' = Advance(pending_ciphers)
    /\ sc_cipher' = pending_ciphers
    /\ UNCHANGED <<pending_sc_cipher, pending_ciphers, events, panicked>>

AcceptHostKeyKeepsPlaintext ==
    /\ phase' = "ServiceRequest"
    /\ SendCiphered(Msg("SERVICE_REQUEST"))
    /\ UNCHANGED <<pending_sc_cipher, pending_ciphers, sc_cipher, events>>

AcceptHostKeyAsksNoService ==
    /\ phase' = "ServiceRequest"
    /\ outgoing' = Append(outgoing, Seal(NoCipher, Msg("NEWKEYS")))
    /\ cs_cipher' = pending_ciphers
    /\ pending_sc_cipher' = pending_ciphers
    /\ pending_ciphers' = NoCipher
    /\ UNCHANGED <<sc_cipher, events, panicked>>

\* provide_host_key_decision(true): NEWKEYS is always sent in plaintext, and
\* the receive cipher stays as it is until the peer's own NEWKEYS is drained.
\* The drive() that ends the call is the iterations of Drive that follow.
AcceptHostKey ==
    /\ phase' = "ServiceRequest"
    /\ outgoing' = outgoing \o <<Seal(NoCipher, Msg("NEWKEYS")),
                                 Seal(pending_ciphers, Msg("SERVICE_REQUEST"))>>
    /\ cs_cipher' = Advance(pending_ciphers)
    /\ pending_sc_cipher' = pending_ciphers
    /\ pending_ciphers' = NoCipher
    /\ UNCHANGED <<sc_cipher, events, panicked>>

\* Mutant of ProvideHostKeyDecision: the answer is not looked at.
ProvideHostKeyDecisionAccepts(accept) ==
    /\ ~panicked
    /\ phase = "AwaitingHostKeyDecision"
    /\ AcceptHostKey
    /\ UNCHANGED <<incoming, consumed, received, polled, kexVars, pending_auth>>

\* provide_host_key_decision: a stale or duplicate answer is ignored.
ProvideHostKeyDecision(accept) ==
    /\ ~panicked
    /\ phase = "AwaitingHostKeyDecision"
    /\ \/ accept /\ AcceptHostKey
       \/ /\ ~accept
          /\ Fail("HostKeyRejected")
          /\ UNCHANGED <<outgoing, cipherVars, panicked>>
    /\ UNCHANGED <<incoming, consumed, received, polled, kexVars, pending_auth>>

\* authenticate_password, authenticate_publickey.  A private key from which no
\* query can be made leaves everything as it was but the user name.
Authenticate(pending, method) ==
    /\ ~panicked
    /\ phase = "UserAuth"
    /\ pending_auth' = pending
    /\ SendCiphered([type |-> "USERAUTH_REQUEST", method |-> method, over |-> 0])
    /\ UNCHANGED <<incoming, consumed, received, phase, events, polled, kexVars,
                   pending_ciphers, pending_sc_cipher, sc_cipher>>

AuthenticatePassword == Authenticate("Password", "password")

AuthenticatePublickey == Authenticate("PublicKeyQuery", "query")

\* open_exec and open_shell: no phase is checked.  What becomes of the channel
\* is not in this module.
OpenChannel ==
    /\ ~panicked
    /\ SendCiphered(Msg("CHANNEL_OPEN"))
    /\ UNCHANGED <<incoming, consumed, received, phase, events, polled, kexVars,
                   pending_ciphers, pending_sc_cipher, sc_cipher, pending_auth>>

\* Mutant of NotifyTransportClosed: reported even when already closed.
NotifyTransportClosedAgain ==
    /\ ~panicked
    /\ Fail("TransportClosed")
    /\ UNCHANGED <<wires, polled, kexVars, cipherVars, pending_auth, panicked>>

NotifyTransportClosed ==
    /\ ~panicked
    /\ phase # "Closed"
    /\ Fail("TransportClosed")
    /\ UNCHANGED <<wires, polled, kexVars, cipherVars, pending_auth, panicked>>

=============================================================================
