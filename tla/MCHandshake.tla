----------------------------- MODULE MCHandshake -----------------------------
(***************************************************************************)
(* Values of Handshake's constants for TLC.                                *)
(***************************************************************************)
EXTENDS Handshake

Only(cs, sc) == [cs |-> cs, sc |-> sc, rest |-> TRUE]

\* Servers whose two directions offer the same ciphers.
MCSymmetricOffers == {Only(a, a) : a \in {{"chacha20"}, {"aes256gcm"}}}

\* Servers that may treat the directions differently, or share no algorithm.
MCAllOffers == OfferSet

\* One whose preferred cipher depends on the direction.
MCAsymmetricOffers == {Only({"chacha20"}, {"aes256gcm"})}

=============================================================================
