---------------------------- MODULE AddrSpecCodec ----------------------------
(***************************************************************************)
(* The SOCKS5 address codec of pkg/socks5/request.go: readAddrSpec,        *)
(* sendReply, NewRequest, isLocalhostDest and AddrSpec.Address, as pure    *)
(* operators over byte sequences.  A stream is the sequence of bytes the   *)
(* peer sent before closing; io.ReadFull of more bytes than remain fails.  *)
(* An AddrSpec is [fqdn, ip, port] with <<>> for "" and for a nil net.IP;  *)
(* a nil *AddrSpec is Nil.  The module is checked on its own against the   *)
(* wire table of the spec, and RequestHandler builds on it.                *)
(***************************************************************************)
EXTENDS Integers, Sequences

CONSTANTS
    Localhost,   \* the bytes of the string "localhost"
    Nil          \* a nil pointer (model value)

Bytes == 0..255
NoErr == "none"

IPv4Addr == 1
FQDNAddr == 3
IPv6Addr == 4
Socks5Version == 5

\* The reply codes, successReply = 0 ... addrTypeNotSupported = 8.
SuccessReply == 0
RuleFailure == 2
NetworkUnreachable == 3
HostUnreachable == 4
ConnectionRefused == 5
CommandNotSupported == 7

-----------------------------------------------------------------------------
(* net.IP helpers of the Go standard library that the code relies on.      *)

V4InV6Prefix == <<0, 0, 0, 0, 0, 0, 0, 0, 0, 0, 255, 255>>

\* ip.To4(): the 4-byte form, or nil if ip is not an IPv4 address.
To4(ip) == IF Len(ip) = 4 THEN ip
           ELSE IF Len(ip) = 16 /\ SubSeq(ip, 1, 12) = V4InV6Prefix
                THEN SubSeq(ip, 13, 16)
                ELSE <<>>

\* ip.To16(): the 16-byte form, or nil if ip has neither length.
To16(ip) == IF Len(ip) = 4 THEN V4InV6Prefix \o ip
            ELSE IF Len(ip) = 16 THEN ip ELSE <<>>

\* ip.IsLoopback(): 127.0.0.0/8, or ::1.
IsLoopback(ip) ==
    IF To4(ip) # <<>> THEN To4(ip)[1] = 127
    ELSE ip = [j \in 1..16 |-> IF j = 16 THEN 1 ELSE 0]

-----------------------------------------------------------------------------
(* readAddrSpec (lines 517-565).  The result is [err, addr, used], used    *)
(* being the number of bytes consumed from s.                              *)

ParseFail(e, used) == [err |-> e, addr |-> Nil, used |-> used]

\* Reads the two port bytes at offset off (bytes consumed so far).
ReadPort(s, off, fqdn, ip) ==
    IF Len(s) < off + 2 THEN ParseFail("ShortRead", Len(s))
    ELSE [err |-> NoErr,
          addr |-> [fqdn |-> fqdn, ip |-> ip, port |-> s[off + 1] * 256 + s[off + 2]],
          used |-> off + 2]

\* Mutant of ReadAddrSpec: the default case does not return at once and the
\* port is read before the error is reported.
ReadAddrSpecNoEarlyReturn(s) ==
    IF s = <<>> THEN ParseFail("ShortRead", 0)
    ELSE CASE s[1] = IPv4Addr ->
                IF Len(s) < 5 THEN ParseFail("ShortRead", Len(s))
                ELSE ReadPort(s, 5, <<>>, SubSeq(s, 2, 5))
           [] s[1] = IPv6Addr ->
                IF Len(s) < 17 THEN ParseFail("ShortRead", Len(s))
                ELSE ReadPort(s, 17, <<>>, SubSeq(s, 2, 17))
           [] s[1] = FQDNAddr ->
                IF Len(s) < 2 \/ Len(s) < 2 + s[2] THEN ParseFail("ShortRead", Len(s))
                ELSE ReadPort(s, 2 + s[2], SubSeq(s, 3, 2 + s[2]), <<>>)
           [] OTHER -> IF Len(s) < 3 THEN ParseFail("ShortRead", Len(s))
                       ELSE ParseFail("UnrecognizedAddrType", 3)

ReadAddrSpec(s) ==
    IF s = <<>> THEN ParseFail("ShortRead", 0)
    ELSE CASE s[1] = IPv4Addr ->
                IF Len(s) < 5 THEN ParseFail("ShortRead", Len(s))
                ELSE ReadPort(s, 5, <<>>, SubSeq(s, 2, 5))
           [] s[1] = IPv6Addr ->
                IF Len(s) < 17 THEN ParseFail("ShortRead", Len(s))
                ELSE ReadPort(s, 17, <<>>, SubSeq(s, 2, 17))
           [] s[1] = FQDNAddr ->
                IF Len(s) < 2 \/ Len(s) < 2 + s[2] THEN ParseFail("ShortRead", Len(s))
                ELSE ReadPort(s, 2 + s[2], SubSeq(s, 3, 2 + s[2]), <<>>)
           [] OTHER -> ParseFail("UnrecognizedAddrType", 1)

\* Mutant of NewRequest: the version byte is not checked and is echoed.
NewRequestNoVersionCheck(s) ==
    IF Len(s) < 3 THEN [err |-> "ShortRead", req |-> Nil, used |-> Len(s)]
    ELSE LET a == ReadAddrSpec(SubSeq(s, 4, Len(s)))
         IN IF a.err # NoErr THEN [err |-> a.err, req |-> Nil, used |-> 3 + a.used]
            ELSE [err |-> NoErr, used |-> 3 + a.used,
                  req |-> [version |-> s[1], command |-> s[2], dest |-> a.addr]]

\* NewRequest (lines 83-108): 3 header bytes, the version check, the address.
NewRequest(s) ==
    IF Len(s) < 3 THEN [err |-> "ShortRead", req |-> Nil, used |-> Len(s)]
    ELSE IF s[1] # Socks5Version
         THEN [err |-> "UnsupportedVersion", req |-> Nil, used |-> 3]
         ELSE LET a == ReadAddrSpec(SubSeq(s, 4, Len(s)))
              IN IF a.err # NoErr THEN [err |-> a.err, req |-> Nil, used |-> 3 + a.used]
                 ELSE [err |-> NoErr, used |-> 3 + a.used,
                       req |-> [version |-> Socks5Version, command |-> s[2], dest |-> a.addr]]

-----------------------------------------------------------------------------
(* sendReply (lines 568-611): the message bytes, or an error.              *)

\* Mutant of SendReply: the FQDN body lacks its length byte.
SendReplyNoLenByte(resp, addr) ==
    LET enc(t, body, port) ==
            [err |-> NoErr,
             msg |-> <<Socks5Version, resp, 0, t>> \o body
                       \o <<(port % 65536) \div 256, port % 256>>]
    IN IF addr = Nil THEN enc(IPv4Addr, <<0, 0, 0, 0>>, 0)
       ELSE IF addr.fqdn # <<>> THEN enc(FQDNAddr, addr.fqdn, addr.port)
       ELSE IF To4(addr.ip) # <<>> THEN enc(IPv4Addr, To4(addr.ip), addr.port)
       ELSE IF To16(addr.ip) # <<>> THEN enc(IPv6Addr, To16(addr.ip), addr.port)
       ELSE [err |-> "FormatAddress", msg |-> <<>>]

\* The cases are tried in order: nil, FQDN, To4, To16.  The port is
\* converted with uint16(addr.Port) and written big-endian; the FQDN length
\* with byte(len(addr.FQDN)).
SendReply(resp, addr) ==
    LET enc(t, body, port) ==
            [err |-> NoErr,
             msg |-> <<Socks5Version, resp, 0, t>> \o body
                       \o <<(port % 65536) \div 256, port % 256>>]
    IN IF addr = Nil THEN enc(IPv4Addr, <<0, 0, 0, 0>>, 0)
       ELSE IF addr.fqdn # <<>> THEN enc(FQDNAddr, <<Len(addr.fqdn) % 256>> \o addr.fqdn, addr.port)
       ELSE IF To4(addr.ip) # <<>> THEN enc(IPv4Addr, To4(addr.ip), addr.port)
       ELSE IF To16(addr.ip) # <<>> THEN enc(IPv6Addr, To16(addr.ip), addr.port)
       ELSE [err |-> "FormatAddress", msg |-> <<>>]

\* isLocalhostDest (lines 613-621).
IsLocalhostDest(dest) == dest # Nil /\ (dest.fqdn = Localhost \/ IsLoopback(dest.ip))

\* AddrSpec.Address (lines 61-66): what DialContext is given; the IP is
\* preferred over the FQDN.
DialTarget(a) == IF a.ip # <<>> THEN [ip |-> a.ip] ELSE [fqdn |-> a.fqdn]

-----------------------------------------------------------------------------
(* The encoding the spec's wire table (section 6) gives an AddrSpec that   *)
(* has exactly one of FQDN and IP: ATYP, the address, the big-endian port. *)
SpecEncode(a) ==
    (IF a.fqdn # <<>> THEN <<FQDNAddr, Len(a.fqdn)>> \o a.fqdn
     ELSE IF Len(a.ip) = 4 THEN <<IPv4Addr>> \o a.ip
     ELSE <<IPv6Addr>> \o a.ip)
    \o <<a.port \div 256, a.port % 256>>
=============================================================================
