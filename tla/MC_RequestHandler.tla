-------------------------- MODULE MC_RequestHandler --------------------------
EXTENDS RequestHandler

MCLocalhost == <<108, 111, 99, 97, 108, 104, 111, 115, 116>>
\* Names: "g" resolves to a public address, "e" to 127.0.0.1, "u" to nothing.
NameG == <<103>>
NameE == <<101>>
NameU == <<117>>
Public4 == <<8, 8, 8, 8>>
Loop4 == <<127, 0, 0, 1>>
Any4 == <<0, 0, 0, 0>>
Loop6 == [j \in 1..16 |-> IF j = 16 THEN 1 ELSE 0]
Mapped6 == V4InV6Prefix \o Loop4

MCResolveTo == [n \in {NameG, NameE, NameU, MCLocalhost} |->
                   IF n = NameG THEN {Public4}
                   ELSE IF n = NameU THEN {}
                   ELSE {Loop4}]

Dest(ip, name) == [fqdn |-> name, ip |-> ip, port |-> 80]
MCDests == {Dest(ip, <<>>) : ip \in {Public4, Loop4, Any4, Loop6, Mapped6}}
           \cup {Dest(<<>>, n) : n \in {NameG, NameE, NameU, MCLocalhost}}

\* Every command (9 is unknown) to every destination; a SOCKS4 version
\* byte; an unknown address type; a request cut after two bytes.
MCRequests == {<<5, c, 0>> \o SpecEncode(d) : c \in {1, 2, 3, 9}, d \in MCDests}
              \cup {<<4, 1, 0>> \o SpecEncode(Dest(Public4, <<>>)),
                    <<5, 1, 0, 2, 8, 8, 8, 8, 0, 80>>,
                    <<5, 1>>}

MCLocalBind == [fqdn |-> <<>>, ip |-> V4InV6Prefix \o <<10, 0, 0, 2>>, port |-> 40000]
=============================================================================
