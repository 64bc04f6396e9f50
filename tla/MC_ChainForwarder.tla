--------------------------- MODULE MC_ChainForwarder ---------------------------
(* Client conversations and upstream replies for checking ChainForwarder.  *)
EXTENDS ChainForwarder

Name(k) == [j \in 1..k |-> 97]

\* Method requests: one method; two methods.
Auth1 == <<5, 1, 0>>
Auth2 == <<5, 2, 0, 2>>

\* Connection requests: CONNECT to an IPv4, IPv6 and short FQDN address,
\* CONNECT to a 253-byte name, ASSOCIATE from 0.0.0.0:0.
ReqV4 == <<5, 1, 0, 1, 8, 8, 8, 8, 0, 80>>
ReqV6 == <<5, 1, 0, 4>> \o [j \in 1..16 |-> IF j = 1 THEN 32 ELSE 0] \o <<1, 187>>
ReqName == <<5, 1, 0, 3, 1, 97, 0, 80>>
ReqName253 == <<5, 1, 0, 3, 253>> \o Name(253) \o <<0, 80>>
ReqAssoc == <<5, 3, 0, 1, 0, 0, 0, 0, 0, 0>>
\* Requests the upstream or the forwarder rejects; a truncated request.
ReqBadVersion == <<4, 1, 0, 1, 8, 8, 8, 8, 0, 80>>
ReqBadType == <<5, 1, 0, 2, 0, 80>>
ReqTruncated == <<5, 1, 0, 1, 8, 8>>
\* A CONNECT to a 254-byte and to a 255-byte name.
ReqName254 == <<5, 1, 0, 3, 254>> \o Name(254) \o <<1, 187>>
ReqName255 == <<5, 1, 0, 3, 255>> \o Name(255) \o <<1, 187>>

MCClientStreams ==
    {Auth1 \o r : r \in {ReqV4, ReqV6, ReqName, ReqName253, ReqAssoc,
                         ReqBadVersion, ReqBadType, ReqTruncated}}
    \cup {Auth2 \o ReqAssoc, <<4, 1, 0>>, <<5, 2, 0>>}

MCClientStreamsLongNames == {Auth1 \o ReqName254, Auth1 \o ReqName255, Auth1 \o ReqV4}

\* Upstream replies: success with an IPv4, IPv6 or FQDN bind address, and
\* a failure reply with no address.
MCUpReplies ==
    { SendReply(SuccessReply, [fqdn |-> <<>>, ip |-> <<10, 0, 0, 1>>, port |-> 1080]).msg,
      SendReply(SuccessReply, [fqdn |-> <<>>, ip |-> [j \in 1..16 |-> IF j = 16 THEN 1 ELSE 0],
                               port |-> 443]).msg,
      SendReply(SuccessReply, [fqdn |-> <<98>>, ip |-> <<>>, port |-> 2000]).msg,
      SendReply(HostUnreachable, Nil).msg }
=============================================================================
