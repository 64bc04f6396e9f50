------------------------------- MODULE Metrics -------------------------------
(***************************************************************************)
(* The process-wide counters of pkg/metrics that pkg/socks5/request.go     *)
(* increments.  Each is a uint64 changed only by atomic.AddUint64, so an   *)
(* increment is part of the step that performs the counted event and is   *)
(* never lost to a concurrent one.  The counters are a function from the  *)
(* names the code uses to their values; a session starts from zero, which  *)
(* stands for the value the counters had before it.  Counts stay far below *)
(* 2^64, so wrap-around is not modelled.                                   *)
(***************************************************************************)
EXTENDS Naturals

Counters == {"Socks5DNSResolveErrors", "Socks5UnsupportedCommandErrors",
             "Socks5ConnectionRefusedErrors", "Socks5NetworkUnreachableErrors",
             "Socks5HostUnreachableErrors", "Socks5HandshakeErrors",
             "Socks5UDPAssociateErrors", "UDPAssociateOutPkts",
             "UDPAssociateOutBytes", "UDPAssociateInPkts",
             "UDPAssociateInBytes"}

NoMetrics == [c \in Counters |-> 0]

\* atomic.AddUint64(&metrics.<c>, k)
AddUint64(m, c, k) == [m EXCEPT ![c] = @ + k]

\* 1 for an event that happened, 0 for one that did not.
Count(b) == IF b THEN 1 ELSE 0
=============================================================================
