--------------------------- MODULE MC_UDPAssociate ---------------------------
(* Instantiation of UDPAssociate for TLC: a handful of framed datagrams    *)
(* covering every branch of the header checks and every address type.     *)
EXTENDS UDPAssociate

\* Well-formed: IPv4 8.8.8.8:53 with two payload bytes, IPv4 with one byte
\* (shorter than the first, so a stale byte of the first is still in buf),
\* an FQDN "a":53, and IPv6 ::1:53.
V4Long  == <<0, 0, 0, 1, 8, 8, 8, 8, 0, 53, 7, 7>>
V4Short == <<0, 0, 0, 1, 8, 8, 4, 4, 0, 53, 9>>
VName   == <<0, 0, 0, 3, 1, 97, 0, 53, 5>>
V6      == <<0, 0, 0, 4, 0, 0, 0, 0, 0, 0, 0, 0, 0, 0, 0, 0, 0, 0, 0, 1, 0, 53, 6>>
\* Malformed: fragment byte set, header without payload, reserved byte set,
\* unknown address type, fewer than 7 bytes.
Frag    == <<0, 0, 1, 1, 8, 8, 8, 8, 0, 53, 7>>
NoData  == <<0, 0, 0, 1, 8, 8, 8, 8, 0, 53>>
BadRsv  == <<0, 1, 0, 1, 8, 8, 8, 8, 0, 53, 7>>
BadType == <<0, 0, 0, 2, 8, 8, 8, 8, 0, 53, 7>>
Tiny    == <<0, 0, 0, 1, 8, 8>>

MCDatagrams == {V4Long, V4Short, VName, V6, Frag, NoData, BadRsv, BadType, Tiny}

\* Well-formed datagrams naming hosts of 250 and 251 bytes ("aa...a":53,
\* one payload byte), and a buffer long enough to hold them.
LongName(len) == <<0, 0, 0, 3, len>> \o [j \in 1..len |-> 97] \o <<0, 53, 7>>
MCLongName251 == {LongName(251)}
MCLongName250 == {LongName(250)}
MCBufLenLong == 260

\* Only the cells up to the longest datagram are ever read.
MCBufLen == 24

\* Go types of the error values: io.EOF and the stderror values are
\* *errors.errorString; failed reads and writes on network connections,
\* the closed UDP socket included, are *net.OpError.
MCErrType == [e \in ErrKinds |->
                 IF e \in {"EOF", "NoEnoughData", "InvalidArgument", "Unsupported"}
                 THEN "errorString" ELSE "OpError"]

\* Network packets are model values; their lengths differ so that a byte
\* counted for the wrong packet shows.
CONSTANTS p1, p2
MCPacketLen == [p \in Packets |-> IF p = p1 THEN 3 ELSE 5]
=============================================================================
