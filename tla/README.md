# TLA+ models of mieru's SOCKS5 request handling

These modules model `src/pkg/socks5/request.go`: the SOCKS5 request
after authentication, its address codec, the CONNECT/BIND/ASSOCIATE
handlers, the UDP relay of an association, the chain forwarder and the
process-wide counters those handlers increment. Every
definition is translated from that file. `PROJECT.json` lists for each one the
lines it models (`map`), the runs and what they show, the mutants that
show each property can fail, the findings, and the hazards.

## The system and its parts

| Part | Code (request.go) | State | Operations |
|---|---|---|---|
| Address codec | `readAddrSpec` 517-565, `sendReply` 568-611, `AddrSpec.Address` 59-66, `isLocalhostDest` 613-621 | none (pure) | parse a DST.ADDR/DST.PORT, encode a reply |
| Request parser | `NewRequest` 83-108 | the bytes on the connection | read header, check version, read address |
| Dispatcher and TCP handlers | `handleRequest` 110-149, `handleConnect` 152-184, `handleBind` 187-194 | `req` (shared `*AddrSpec`), the connection | resolve FQDN into `req.DestAddr.IP`, apply the localhost policy, switch on the command, dial and reply, relay |
| UDP ASSOCIATE relay | `handleAssociate` 196-372 | UDP socket, 64 KiB reused buffer, `atomic.Value` error box, `WaitGroup` | listen and reply; outbound goroutine (tunnel to UDP); inbound goroutine (UDP to tunnel); wait and return the error |
| Chain forwarder | `proxySocks5AuthReq` 374-411, `proxySocks5ConnReq` 413-513 | the two connections, a UDP socket for ASSOCIATE | forward the auth and request bytes upstream and the replies back, rewriting the UDP bind port |
| Metrics counters | every `atomic.AddUint64(&metrics.…)` in the handlers above | process-wide `uint64` counters | one increment per counted event: DNS, dial-class, unsupported-command, handshake and association errors, UDP packets and bytes |

How they interact: the server reads a request with the parser (which uses the
codec), `handleRequest` resolves and filters it and hands it to one handler.
Each handler writes its reply with the codec's `sendReply`. ASSOCIATE then
runs two goroutines that share the UDP socket, the buffer-free inbound path
and the `udpErr` box. The handler waits for both. The chain forwarder sits in
front of an upstream SOCKS5 server and copies the same wire format both ways.

Outside `src/` and therefore only the environment of these models: `BidiCopy`,
`WrapUDPAssociateTunnel` (the datagram framing over the tunnel), the resolver,
`stderror`, `netutil` and the `metrics` package itself (the increments
are in `request.go` and are modelled). The rest of `src/` is
infrastructure (Packer/Terraform files and a deploy script), documentation
(`mkdocs.yml`, `unnamed/part_000`) and generated protobuf code. None of it has
behaviour for TLC (see `components` in `PROJECT.json`).

### What is hard here

- Two goroutines share one `atomic.Value`. The outbound one stores
  unconditionally, and the inbound one does `Load()==nil` and then `Store`
  as two separate steps. Also, `atomic.Value` panics when a value of another
  concrete type is stored.
- Only the outbound goroutine closes the UDP socket. That close is what wakes
  the inbound goroutine, and `wg.Wait` needs both goroutines to end.
- One buffer is reused for every datagram, and the payload slice ends at `n+1`.
- Early returns between opening the UDP socket and starting the goroutines.
- `dest := req.DestAddr` aliases the request, so the policy check and the
  dial see the resolved IP.
- The `sendReply` case order (nil, FQDN, `To4`, `To16`), the port and length
  conversions to `uint16`/`byte`, and `readAddrSpec`'s short reads.

## Modules

| Module | Models | State / actions |
|---|---|---|
| `AddrSpecCodec` | codec and parser | operators: `To4`, `To16`, `IsLoopback` (Go `net.IP`), `ReadAddrSpec`, `ReadPort`, `NewRequest`, `SendReply`, `IsLocalhostDest`, `DialTarget`; `SpecEncode` is the spec's wire table |
| `AddrSpecCodecCheck` | checks the codec against `SpecEncode` | the inputs are variables fixed by `Init` |
| `RequestHandler` | one request on one connection | `pc` of the handler goroutine, `req`, `conn`, `replies`, `dialed`; actions `Parse`, `Resolve`, `Dispatch`, `Connect`, `RelayEnd`, `Bind`, `Associate`, plus the environment action `ConnBreak` |
| `UDPAssociate` | one association | `phase` of the handler, `outPc`/`inPc` of the two goroutines, `udpOpen`, `tunnel` (open/eof/reset), `buf`, `udpErr`, history `written`, `tunnelLog`, `storeLog`. Handler actions `Listen`, `SendAssocReply`, `Return`. Outbound actions `OutRead`, `OutStore`, `OutClose`. Inbound actions `InRead`, `InWrite`, `InLoad`, `InStore`. Environment actions `ClientSend`, `ClientClose`, `ClientReset`, `NetDeliver` |
| `UDPRelay` | what an association promises (abstract) | `status`, the client connection, the datagrams `pending` and `taken`, the destinations `forwarded`, whether the `outbound` and `inbound` sides run, the packets `arrived` for the client and those `returned` to it; actions `Open`, `SetupFail`, `Send`, `Close`, `Reset`, `Take`, `OutboundStop`, `Arrive`, `WriteBack`, `Discard`, `InboundStop`, `End` |
| `Socks5Session` | one connection through `handleRequest` and, for ASSOCIATE, the relay | the variables of both modules; `RequestHandler`'s `conn` is `UDPAssociate`'s `tunnel` (a reset breaks it). Actions `Handle` (the request steps), `StartRelay` (`Associate`; on success the relay runs with its socket open), `Pumps` (the relay's goroutines, the handler's return, datagrams and packets), `Client` (close or reset) |
| `ChainForwarder` | chain forwarder | forwarder `pc`, the four stream ends (`cliOut`/`cliEOF`/`cliBroken`, `upOut`/`upEOF`/`upBroken`), everything written each way (`toUp`, `toCli`), `udp`. Forwarder actions, one per read or write of the code: `AuthRead`, `AuthWrite`, `AuthRespRead`, `AuthRespWrite`, `ConnRead`, `ConnWrite`, `ConnRespRead`, `Listen`, `ConnRespWrite`. The upstream is a SOCKS5 server that delimits requests with `NewRequest` (actions `UpAuth`, `UpReply`). Environment actions `ClientClose`, `ClientReset`, `UpReset` |
| `Metrics` | the counters | `Counters` (the names the code uses), `NoMetrics`, `AddUint64(m, c, k)`; `RequestHandler` and `UDPAssociate` each have a variable `metrics` that their actions increment in the step that performs the counted event, and `Socks5Session` shares that one variable between the two |
| `MC_*` | the constants for TLC | datagrams, addresses and names as byte sequences, error types |

How the model abstracts the code:
- A datagram or request is a short byte sequence chosen to reach each branch
  of the code: each address type, short headers, the fragment and reserved
  bytes, and a longer datagram followed by a shorter one so that stale buffer
  bytes show.
- A network error is a kind mapped to its Go type (`ErrType`). The
  `atomic.Value` panic depends only on that type.
- The resolver, the dialer, the client and remote UDP peers choose their
  answers nondeterministically.

## Runs

| Run | Module / cfg | Expect | Shows |
|---|---|---|---|
| `udp` | MC_UDPAssociate / `UDPAssociate.cfg` | pass | `TrafficCounted`: when the handler returns, each datagram taken from the tunnel was counted once, as a packet sent (with the bytes written) or as an error, no other error was counted, and every packet read from the socket was counted, with its length, even when writing it to the client failed. `RelayRefined`: `UDPAssociate` implements `UDPRelay` (see below), fairness included. `SessionEnds`: when the tunnel ends, both goroutines end and the handler returns. |
| `udp_payload` | `UDPAssociate_ForwardedDataIntact.cfg` | violation | the off-by-one payload slice (finding) |
| `udp_first_error` | `UDPAssociate_FirstErrorWins.cfg` | violation | a later error replaces the first (finding) |
| `udp_store_panic` | `UDPAssociate_NoStorePanic.cfg` | violation | `atomic.Value` panics on the race (finding) |
| `udp_socket_leak` | `UDPAssociate_SocketReleased.cfg` | violation | the UDP socket leaks when the reply fails (finding) |
| `codec` | MC_AddrSpecCodec / `AddrSpecCodec.cfg` | pass | `ReplyWellFormed`, `ParseExact`: replies parse back. Every encoding, with and without trailing bytes, parses exactly, and every truncation fails. |
| `request` | MC_RequestHandler / `RequestHandler.cfg` | pass | `ReplyMatchesOutcome`, `RelayOnlyAfterSuccess`, `NoLoopbackDial`; `FailuresCounted`: every classified failure (resolution, each dial class, listen) and every BIND or unknown command is counted exactly once under its own counter, even when its reply could not be written (spec 7 and the refused-CONNECT scenario of 8) |
| `chain` | MC_ChainForwarder / `ChainForwarder.cfg` | pass | `ForwardedVerbatim`, `ReplyRelayed`, `HandshakeCompletes`: the upstream gets the client's messages whole and unchanged, the client gets the upstream's replies with only the ASSOCIATE port rewritten, and a complete conversation whose destination name has at most 253 bytes is answered (longer names are the `chain_long_name` finding) |
| `chain_long_name` | `ChainForwarder_LongName.cfg` | violation | 254/255-byte names are cut short (finding) |
| `chain_udp_leak` | `ChainForwarder_UDPSocketReleased.cfg` | violation | the forwarder's UDP socket leaks when the response write fails (finding) |
| `udp_long_name` | MC_UDPAssociate / `UDPAssociate_LongName.cfg` | violation | `RelayRefined`: a well-formed datagram naming a 251-byte host makes the outbound pump panic on `buf[5:0]`, so the relay stops without the promised end (finding) |
| `session_udp_local` | MC_Socks5Session / `Socks5Session_NoLoopbackAccess.cfg` | violation | with local destinations disallowed, an ASSOCIATE from 0.0.0.0:0 passes the policy and its datagrams reach 127.0.0.1 or "localhost" (finding) |

### The refinement

`UDPRelay` says what an association promises, without the buffer, the
goroutines or the error box: the client's datagrams are taken in the order
sent; each well-formed one goes to the destination its header names (a named
one may be dropped when the name does not resolve); the first malformed one
stops the outbound side, as does the client leaving (EOF once the tunnel is
drained, or a reset). The inbound side writes the packets that arrived on the
socket to the client unmodified, each once and in arrival order (spec 4.5 and
the round-trip scenario of section 8). Packets are lost only when the socket
closes after the outbound side stopped, or when the write fails because the
client left. The inbound side stops when the client has left or the outbound
side stopped. The session ends when both have stopped. Its fairness
is weak fairness on every step of the relay and none on the client.

`UDPAssociate` instantiates it as `Relay` with this mapping: `status` is
`setup` during `Listen` and the reply, `relaying` while `phase = "running"`,
and `ended` after the return or a panic; `client` is `tunnel`; `pending` is
what the client sent and the pump has not read; `taken` is `tunnelLog`;
`forwarded` is the destinations of `written`; `outbound` holds while the
outbound goroutine is in its read loop and `inbound` while the inbound one
reads or writes; `arrived` is the socket's queue, behind the packet the
inbound pump is writing; `returned` is `toClient`. The outbound pump's `OutStore` and `OutClose`, and the inbound
pump's `InRead` of a packet, `InLoad` and `InStore`, are stuttering steps of the abstract spec.
`RelayRefined == Relay!Spec` is a `PROPERTY` of the `udp` run. It subsumes
the order, destination and stop-at-first-error checks that a single invariant
would make, and adds that the sides stop only for the reasons the promise
allows and that the implementation's fairness yields the promise's.
The passing run holds only for the short names it uses. The `udp_long_name`
run sends a 251-byte name and finds the promise broken.

The FQDN offsets are modelled as Go computes them. `fqdnLen := buf[4]` is a
byte, so `ByteSum(x, fqdnLen)` is `(x + fqdnLen) % 256`, and `HeaderLen` and
`CodeDst` use it. The guard at line 272 uses `int(buf[4])+6`, which does not
wrap. `SliceBoundsPanic` holds when `5+fqdnLen` wraps below 5. For names of
251 to 255 bytes, `buf[5:5+fqdnLen]` then has its low bound above its high
bound, and `OutRead` ends the process in phase `panicked`.

Bounds and why they are enough:
- **UDP runs.** In the passing run the client sends at most 2 datagrams
  (`MaxSend`) from 9 shapes. The network delivers at most 2 packets
  (`MaxRecv`), drawn from 2 distinct ones, so a swapped or repeated packet
  shows. The violation runs use 2 datagrams and 1 packet. Two datagrams
  cover each validation branch, each address type, a malformed datagram
  followed by another, and a long datagram followed by a shorter one in
  the same buffer. Two packets cover a write that succeeds followed by one
  that fails, and packets queued when the socket closes. The two packets
  have different lengths (3 and 5, `MCPacketLen`), so a byte count taken
  from the wrong packet shows. A third datagram
  adds no new case, and it makes the run take more than five minutes.
- **Error interleavings.** The races need only one error per goroutine, and
  these bounds reach every order of those two stores.
- **Buffer.** In the passing runs it is 24 bytes long and names have 1 byte.
  Every datagram fits, so what matters is the buffer's contents beyond `n`,
  not its capacity. These runs cannot reach the byte-sum wrap, which needs
  names of 249 bytes or more. The `udp_long_name` run covers it with a
  260-byte buffer and one datagram naming a 251-byte host. Checking a
  250-byte name the same way shows the datagram sent to port 0 instead of 53.
- **Codec.** It covers IPv4 (unspecified, loopback, public), IPv6 (`::1`,
  mapped, global), names of length 1, 9 ("localhost") and 255, the ports 0,
  53, 256 and 65535, and every prefix of every encoding.
- **Request handler.** It covers every command (including an unknown one)
  against every destination kind. The resolver answers each name with an
  address that is public, loopback, or none at all.

- **Chain forwarder.** The client conversations are 11 shapes: 1 or 2
  methods; CONNECT to IPv4, IPv6 and names of 1 and 253 bytes; ASSOCIATE; a
  bad version in either message; a bad address type; and truncation in each
  message. The upstream gives 4 replies: an IPv4, IPv6 or name bind address,
  or a failure. The long-name run uses names of 254 and 255 bytes, which are
  the only lengths where the byte sum wraps.

Fairness: `UDPAssociate` assumes weak fairness for the handler goroutine and
the two pump goroutines only. `ChainForwarder` assumes weak fairness for
the forwarder goroutine and for the upstream server answering a complete
request, since that server runs this same request code. Go schedules every runnable goroutine, and a
blocked Read becomes runnable when its connection yields data, EOF or an
error. The client, the network and the resolver get no fairness: nothing in
the code makes them act. `RequestHandler` and `Socks5Session` check only safety. `UDPRelay`'s weak fairness on the relay's steps is what the code's fairness for the handler and the two pumps must yield, and the `udp` run checks that it does.

## Findings

These are details of the `findings` list in `PROJECT.json`:
- **Payload off-by-one.** `buf[h:n+1]` (lines 285, 306, 321) sends one byte
  too many: a stale byte from an earlier datagram, or 0.
- **First error not kept.** Line 245 stores unconditionally, and lines 349–350
  do the load and the store as two steps. So the first error is not the one
  returned.
- **Store panic.** The same race makes `atomic.Value` panic when the two
  errors have different concrete types (`io.EOF` vs `*net.OpError`). That
  takes the server down.
- **Socket leak.** When the success reply fails (line 226), `handleAssociate`
  returns with its UDP socket open.
- **Long names in the UDP relay.** `5+fqdnLen`, `6+fqdnLen` and `7+fqdnLen`
  (lines 297–306) are byte sums. A datagram naming a host of 251–255 bytes
  passes the length guard (line 272), and then `buf[5:5+fqdnLen]` panics in
  the outbound goroutine, which takes the server down. A 249- or 250-byte name
  reads its port from the wrong offset. A 250-byte name is sent to port 0.
- **UDP policy gap.** The policy (line 130) sees only the ASSOCIATE request's
  own destination, usually 0.0.0.0:0. The outbound pump then sends each
  datagram to the address in its header (lines 281–321) without a check. So a
  client refused a CONNECT to 127.0.0.1 reaches it over UDP.

- **Long names in the forwarder.** `reqFQDNLen[0]+2` (line 434, and
  line 467 for the response) is a byte sum. For a 254- or 255-byte name the
  forwarder sends a request that stops after the length byte. The handshake
  then hangs: the forwarder waits for a reply, and the upstream waits for
  the rest of the name.
- **Forwarder socket leak.** If the response write fails (line 508),
  `proxySocks5ConnReq` returns without closing the UDP socket it opened for
  ASSOCIATE.

## Not modelled, and what comes next

- `sendReply` writes an IPv4-mapped IPv6 bind address as IPv4 (line 584).
  RFC 1928 clients expect that, so no property states otherwise.
- `sendReply` truncates an FQDN longer than 255 bytes with `byte(len(...))`
  (line 581). It is only ever called with nil or an IP address, so this
  cannot happen.
- The `udpErr.Load().(error)` assertion (line 371) cannot fail in this code.
  Every exit of the outbound loop stores, and so does the inbound pump while
  the box is empty. No single change to the code empties the box at `Wait`.
- A resolver or dialer that never answers (`context.Background()`, line 112)
  lies outside `src/`. The models let them answer, or fail, in one step.
- The generated protobuf code (`history.pb.go`) is not modelled. Its state
  changes are `Reset`, the lazy message-info store in `ProtoReflect`, the
  `sync.Once` in `rawDescGZIP` and the package `init`. All of them delegate to
  the protobuf runtime outside `src/`. The one race, two `ProtoReflect`
  callers both storing, stores the same pointer twice. Nothing in `src/`
  uses the package.
- Several concurrent connections are not composed. They share only the
  read-only server configuration and the metrics counters, which change
  only by `atomic.AddUint64` and are never read by this code, so one
  connection's steps cannot change another's behaviour.
- `isLocalhostDest` (line 617) refuses only loopback addresses and the name
  "localhost". A CONNECT to 0.0.0.0 or `::` passes the policy, and Go's
  dialer connects an unspecified address to the local host. Spec 4.3 names
  only loopback and "localhost", so `NoLoopbackDial` states the policy as the
  spec writes it. The UDP form of this gap is the `session_udp_local` finding.
