-------------------------------- MODULE Wire --------------------------------
(***************************************************************************)
(* The two byte streams between the SSH client and its server, and the     *)
(* per-direction packet cipher that both ends apply to them                *)
(* (ssh-core/src/transport/packet.rs).                                     *)
(*                                                                         *)
(* A stream is the log of everything ever written to it, with the number   *)
(* of its entries the reader has consumed.  An entry is the identification *)
(* line or one whole binary packet: an incomplete packet at the end of a   *)
(* buffer has no effect on its reader, so it is still "in flight" here.    *)
(* Entries past the read index are in the network or in the reader's       *)
(* `incoming` buffer; the transport is reliable and ordered (TCP).         *)
(***************************************************************************)
EXTENDS Naturals, Sequences

VARIABLES
    incoming,   \* server -> client log (Session.incoming is its unread part)
    consumed,   \* how many entries of it Session::drive has drained
    outgoing,   \* client -> server log (Session.outgoing and the network)
    received    \* how many entries of it the server has consumed

wires == <<incoming, consumed, outgoing, received>>

(***************************************************************************)
(* CipherAlgorithm: the two AEAD ciphers the client implements.            *)
(***************************************************************************)
Algs == {"chacha20", "aes256gcm"}

(***************************************************************************)
(* The keys of one direction, named by the key exchange that derived them, *)
(* with the counter that forms the next nonce.  NoCipher is SSH's cipher   *)
(* "none": packets under it are plaintext and count nothing.               *)
(***************************************************************************)
Ciphers == [alg : Algs, kex : Nat \ {0}, ctr : Nat]

NoCipher == [alg |-> "none", kex |-> 0, ctr |-> 0]

(***************************************************************************)
(* with_initial_seq: chacha20-poly1305 takes its nonce from the sequence   *)
(* number, aes256-gcm from an IV derived anew with the key.                *)
(***************************************************************************)
WithInitialSeq(alg, kex, seq) ==
    [alg |-> alg, kex |-> kex, ctr |-> IF alg = "chacha20" THEN seq ELSE 0]

(***************************************************************************)
(* The counter moves once per packet sealed, and once per packet opened.   *)
(* (u32 and u64 in the code; MaxLog of Handshake bounds them here.)        *)
(***************************************************************************)
Advance(c) == IF c = NoCipher THEN c ELSE [c EXCEPT !.ctr = @ + 1]

Seal(c, m) == [alg |-> c.alg, kex |-> c.kex, ctr |-> c.ctr, msg |-> m]

(***************************************************************************)
(* PacketCipher::open and open_plaintext: a packet is readable exactly     *)
(* when key and nonce are those it was sealed with.                        *)
(***************************************************************************)
Opens(c, p) == /\ p.alg = c.alg
               /\ p.kex = c.kex
               /\ p.ctr = c.ctr

Msg(t) == [type |-> t]
=============================================================================
