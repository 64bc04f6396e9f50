------------------------------- MODULE UDPRelay -------------------------------
(***************************************************************************)
(* What a UDP ASSOCIATE session promises (spec sections 4.5, 5 and 8),     *)
(* without the buffer, the goroutines or the error box of the code.        *)
(*                                                                         *)
(* After setup the session relays in two directions.  The outbound side   *)
(* takes the client's datagrams from the tunnel in the order they were    *)
(* sent; each well-formed one is forwarded to the destination its header  *)
(* names (one naming a host may be dropped when the name does not         *)
(* resolve); the first malformed one stops the outbound side, as does the *)
(* client leaving.  The inbound side writes the packets that arrived on   *)
(* the relay's socket to the client unmodified, each once and in the      *)
(* order they arrived; packets not yet read when the socket closes, and   *)
(* the one whose write fails, are lost.  It stops when the client has     *)
(* left or the outbound side has stopped.  The session ends when both     *)
(* have stopped.  Which error it reports is not part of this promise.     *)
(***************************************************************************)
EXTENDS Integers, Sequences

CONSTANTS Datagrams, \* the framed datagrams a client may send
          Packets    \* the packets the network may send to the relay's socket

VARIABLES
    status,     \* "setup", "relaying" or "ended"
    client,     \* the control connection: "open", "eof" (closed) or "reset"
    pending,    \* datagrams the client sent that the relay has not taken
    taken,      \* datagrams the relay took from the tunnel, in order
    forwarded,  \* the destinations datagrams were sent to, in order
    outbound,   \* the outbound side is running
    inbound,    \* the inbound side is running
    arrived,    \* packets that arrived for the client, not yet written to it
    returned    \* packets written to the client, in order

avars == <<status, client, pending, taken, forwarded, outbound, inbound,
           arrived, returned>>
inVars == <<arrived, returned>>

-----------------------------------------------------------------------------
(* The SOCKS5 UDP request header (spec sections 6 and 8):                  *)
(* RSV(2)=0 FRAG(1)=0 ATYP(1) DST.ADDR DST.PORT(2) DATA.                   *)

SpecWellFormed(d) ==
    /\ Len(d) > 6
    /\ d[1] = 0 /\ d[2] = 0 /\ d[3] = 0
    /\ \/ d[4] = 1 /\ Len(d) > 10
       \/ d[4] = 3 /\ Len(d) > 6 + d[5]
       \/ d[4] = 4 /\ Len(d) > 22

SpecAddrLen(d) == CASE d[4] = 1 -> 4 [] d[4] = 3 -> 1 + d[5] [] d[4] = 4 -> 16

SpecDst(d) ==
    LET a == 5 + IF d[4] = 3 THEN 1 ELSE 0
        p == 5 + SpecAddrLen(d)
    IN [atyp |-> d[4], addr |-> SubSeq(d, a, p - 1), port |-> d[p] * 256 + d[p + 1]]

SpecData(d) == SubSeq(d, 7 + SpecAddrLen(d), Len(d))

-----------------------------------------------------------------------------
Init ==
    /\ status = "setup" /\ client = "open"
    /\ pending = <<>> /\ taken = <<>> /\ forwarded = <<>>
    /\ outbound = FALSE /\ inbound = FALSE
    /\ arrived = <<>> /\ returned = <<>>

\* The socket is open and the client was told so; both sides start.
Open ==
    /\ status = "setup" /\ status' = "relaying"
    /\ outbound' = TRUE /\ inbound' = TRUE
    /\ UNCHANGED <<inVars, client, pending, taken, forwarded>>

\* Setup fails: the session ends before relaying anything.
SetupFail ==
    /\ status = "setup" /\ status' = "ended"
    /\ UNCHANGED <<inVars, client, pending, taken, forwarded, outbound, inbound>>

Send(d) ==
    /\ status = "relaying" /\ client = "open"
    /\ pending' = Append(pending, d)
    /\ UNCHANGED <<inVars, status, client, taken, forwarded, outbound, inbound>>

Close ==
    /\ client = "open" /\ client' = "eof"
    /\ UNCHANGED <<inVars, status, pending, taken, forwarded, outbound, inbound>>

Reset ==
    /\ client \in {"open", "eof"} /\ client' = "reset"
    /\ UNCHANGED <<inVars, status, pending, taken, forwarded, outbound, inbound>>

Take ==
    /\ status = "relaying" /\ outbound /\ client # "reset" /\ pending # <<>>
    /\ LET d == Head(pending)
       IN /\ pending' = Tail(pending)
          /\ taken' = Append(taken, d)
          /\ IF SpecWellFormed(d)
             THEN /\ \/ forwarded' = Append(forwarded, SpecDst(d))
                     \/ d[4] = 3 /\ UNCHANGED forwarded
                  /\ UNCHANGED outbound
             ELSE outbound' = FALSE /\ UNCHANGED forwarded
    /\ UNCHANGED <<inVars, status, client, inbound>>

\* The outbound side sees the client leave: end of stream or a reset.
OutboundStop ==
    /\ status = "relaying" /\ outbound
    /\ \/ client = "reset"
       \/ client = "eof" /\ pending = <<>>
    /\ outbound' = FALSE
    /\ UNCHANGED <<inVars, status, client, pending, taken, forwarded, inbound>>

\* A packet arrives on the relay's socket.
Arrive(p) ==
    /\ status = "relaying"
    /\ arrived' = Append(arrived, p)
    /\ UNCHANGED <<status, client, pending, taken, forwarded, outbound, inbound,
                   returned>>

\* The oldest packet that arrived is written to the client as it came.
WriteBack ==
    /\ status = "relaying" /\ inbound /\ client # "reset" /\ arrived # <<>>
    /\ returned' = Append(returned, Head(arrived))
    /\ arrived' = Tail(arrived)
    /\ UNCHANGED <<status, client, pending, taken, forwarded, outbound, inbound>>

\* Once the outbound side has stopped the socket may close: the packets not
\* yet read are lost, the one being written is not.
Discard ==
    /\ status = "relaying" /\ ~outbound
    /\ \E k \in 0..Len(arrived) : arrived' = SubSeq(arrived, 1, k)
    /\ UNCHANGED <<status, client, pending, taken, forwarded, outbound, inbound,
                   returned>>

\* The inbound side stops; when the client has left, the packet it was
\* writing is lost.
InboundStop ==
    /\ status = "relaying" /\ inbound
    /\ client # "open" \/ ~outbound
    /\ inbound' = FALSE
    /\ \/ UNCHANGED arrived
       \/ client # "open" /\ arrived # <<>> /\ arrived' = Tail(arrived)
    /\ UNCHANGED <<status, client, pending, taken, forwarded, outbound, returned>>

End ==
    /\ status = "relaying" /\ ~outbound /\ ~inbound
    /\ status' = "ended"
    /\ UNCHANGED <<inVars, client, pending, taken, forwarded, outbound, inbound>>

Next ==
    \/ Open \/ SetupFail \/ \E d \in Datagrams : Send(d)
    \/ Close \/ Reset \/ Take \/ OutboundStop \/ InboundStop \/ End
    \/ \E p \in Packets : Arrive(p) \/ WriteBack \/ Discard

\* The relay itself keeps going; the client owes nothing.
Spec == Init /\ [][Next]_avars
        /\ WF_avars(Open \/ SetupFail) /\ WF_avars(Take) /\ WF_avars(OutboundStop) /\ WF_avars(WriteBack)
        /\ WF_avars(InboundStop) /\ WF_avars(End)
=============================================================================
