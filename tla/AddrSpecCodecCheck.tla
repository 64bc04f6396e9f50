-------------------------- MODULE AddrSpecCodecCheck --------------------------
(***************************************************************************)
(* Checks the codec of AddrSpecCodec over bounded inputs.  Each initial    *)
(* state is one input: an AddrSpec with exactly one of FQDN and IP, a      *)
(* reply code, and bytes that follow the address on the stream; the        *)
(* properties are invariants of these states.                              *)
(***************************************************************************)
EXTENDS AddrSpecCodec

CONSTANTS
    IPs,        \* net.IP values: 4-byte and 16-byte addresses
    FQDNs,      \* non-empty names, as bytes
    Ports,      \* port numbers
    Replies,    \* reply codes
    Trailers    \* bytes that follow an address on the stream

AddrSpecs == [fqdn : {<<>>}, ip : IPs, port : Ports]
             \cup [fqdn : FQDNs, ip : {<<>>}, port : Ports]

VARIABLES addr, resp, trailer
vars == <<addr, resp, trailer>>

Init == /\ addr \in AddrSpecs \cup {Nil}
        /\ resp \in Replies
        /\ trailer \in Trailers

Next == UNCHANGED vars

Spec == Init /\ [][Next]_vars

TypeOK == /\ addr \in AddrSpecs \cup {Nil}
          /\ resp \in Replies
          /\ trailer \in Seq(Bytes)

(* Spec 8, reply-always-has-address: every reply sendReply writes, nil     *)
(* address included, is VER REP RSV followed by an ATYP, address and port  *)
(* that readAddrSpec reads back completely and exactly, with the port the  *)
(* caller gave.  A reply the client cannot parse would desynchronise the   *)
(* stream that the relay then carries.                                     *)
ReplyWellFormed ==
    LET r == SendReply(resp, addr)
        p == ReadAddrSpec(SubSeq(r.msg, 4, Len(r.msg)) \o trailer)
    IN addr # Nil => r.err = NoErr
       /\ (r.err = NoErr =>
             /\ SubSeq(r.msg, 1, 3) = <<Socks5Version, resp, 0>>
             /\ p.err = NoErr
             /\ p.used = Len(r.msg) - 3
             /\ p.addr.port = IF addr = Nil THEN 0 ELSE addr.port)

(* Spec 4.1 and 8: readAddrSpec of the wire encoding of an AddrSpec        *)
(* reconstructs it and consumes exactly its bytes, leaving what follows on *)
(* the stream; a stream cut anywhere inside the encoding fails instead of  *)
(* yielding a truncated address; an unknown address type fails after the  *)
(* type byte alone.                                                        *)
ParseExact ==
    addr # Nil =>
    LET e == SpecEncode(addr)
    IN /\ ReadAddrSpec(e \o trailer) = [err |-> NoErr, addr |-> addr, used |-> Len(e)]
       /\ \A k \in 0..(Len(e) - 1) : ReadAddrSpec(SubSeq(e, 1, k)).err = "ShortRead"
       /\ \A t \in {0, 2, 5} :
             ReadAddrSpec(<<t>> \o SubSeq(e, 2, Len(e))).used = 1
=============================================================================
