--------------------------- MODULE MC_AddrSpecCodec ---------------------------
EXTENDS AddrSpecCodecCheck

MCLocalhost == <<108, 111, 99, 97, 108, 104, 111, 115, 116>>

\* 0.0.0.0, 127.0.0.1, 8.8.8.8; ::1, ::ffff:127.0.0.1, 2001:db8::1.
MCIPv4s == {<<0, 0, 0, 0>>, <<127, 0, 0, 1>>, <<8, 8, 8, 8>>}
MCIPv6s == {[j \in 1..16 |-> IF j = 16 THEN 1 ELSE 0],
            V4InV6Prefix \o <<127, 0, 0, 1>>,
            <<32, 1, 13, 184>> \o [j \in 1..12 |-> IF j = 12 THEN 1 ELSE 0]}
MCIPs == MCIPv4s \cup MCIPv6s
\* "a", "localhost", and a 255-byte name (the longest a length byte holds).
MCFQDNs == {<<97>>, MCLocalhost, [j \in 1..255 |-> 97]}
\* Both port bytes exercised, and the extremes.
MCPorts == {0, 53, 256, 65535}
MCReplies == {SuccessReply, HostUnreachable}
MCTrailers == {<<>>, <<9>>}
\* The IPv4-mapped address alone, for the round-trip run.
MCIPsMapped == {V4InV6Prefix \o <<127, 0, 0, 1>>}
=============================================================================
