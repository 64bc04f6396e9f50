-------------------------- MODULE MC_Socks5Session --------------------------
(* Instantiation of Socks5Session for TLC: requests a client may make to  *)
(* reach this host, and the datagrams it may then send.                   *)
EXTENDS Socks5Session

MCLocalhost == <<108, 111, 99, 97, 108, 104, 111, 115, 116>>
Loop4 == <<127, 0, 0, 1>>

\* ASSOCIATE from 0.0.0.0:0 (what clients send when they do not know their
\* UDP address), and a CONNECT to 127.0.0.1:80 that the policy refuses.
MCRequests == {<<5, 3, 0, 1, 0, 0, 0, 0, 0, 0>>,
               <<5, 1, 0, 1>> \o Loop4 \o <<0, 80>>}
MCResolveTo == [n \in {MCLocalhost} |-> {Loop4}]
MCLocalBind == [fqdn |-> <<>>, ip |-> <<10, 0, 0, 2>>, port |-> 40000]

\* Datagrams to 127.0.0.1:53, to "localhost":53 and to 8.8.8.8:53.
DLoop4  == <<0, 0, 0, 1>> \o Loop4 \o <<0, 53, 7>>
DLocal  == <<0, 0, 0, 3, 9>> \o MCLocalhost \o <<0, 53, 7>>
DPublic == <<0, 0, 0, 1, 8, 8, 8, 8, 0, 53, 7>>
MCDatagrams == {DLoop4, DLocal, DPublic}

MCBufLen == 24
\* UDPAssociate's ErrKinds, spelled out: the MC definition is substituted
\* into the instance UA and cannot refer back to it.
MCErrKinds == {"EOF", "TunnelReadFail", "TunnelWriteFail", "NoEnoughData",
               "InvalidArgument", "Unsupported", "UDPClosed"}
MCErrType == [e \in MCErrKinds |->
                 IF e \in {"EOF", "NoEnoughData", "InvalidArgument", "Unsupported"}
                 THEN "errorString" ELSE "OpError"]

\* Network packets are model values; their lengths differ so that a byte
\* counted for the wrong packet shows.
CONSTANTS p1, p2
MCPacketLen == [p \in Packets |-> IF p = p1 THEN 3 ELSE 5]
=============================================================================
