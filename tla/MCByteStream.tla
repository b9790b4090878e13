---------------------------- MODULE MCByteStream ----------------------------
(***************************************************************************)
(* ByteStream for TLC: the lines and payloads a server may send.           *)
(***************************************************************************)
EXTENDS ByteStream

\* Nothing at all, and "SSH-2.0" behind a blank.
MCBanners == {<<>>, <<32>> \o SSH \o <<50, 46, 48>>}

\* "SSH-2.0", "SSH-1.99-x" and, not supported, "SSH-2.01".
MCIdents == {SSH \o <<50, 46, 48>>, SSH \o <<49, 46, 57, 57, DASH, 120>>, SSH \o <<50, 46, 48, 49>>}

\* Those the receiver acts on, one that leaves too little padding, and one of the
\* greatest length (20 and padding make 32 when sealed).
MCPayloads ==
    {<<KEXINIT>>, <<KEX_REPLY>>, <<NEWKEYS>>, <<DISCONNECT>>, [i \in 1..5 |-> 2], [i \in 1..20 |-> 3]}
=============================================================================
