--------------------------- MODULE ProxySession ----------------------------
(***************************************************************************)
(* One session of the SSH man-in-the-middle proxy (src/ssh/ssh-proxy.c):   *)
(* the libevent callbacks accept_cb, connect_cb, input_cb, output_cb, the  *)
(* forwarding helper ssh_packet_fwd and the teardown session_close, with   *)
(* the two endpoints (the SSH client and the upstream SSH server) as the   *)
(* environment.                                                            *)
(*                                                                         *)
(* Data is abstracted to units: unit <<s, k, i>> is the i-th fragment of   *)
(* the k-th packet sent by endpoint s.  A read or a write moves any number *)
(* of whole units, so partial reads and partial writes are explored; a     *)
(* transport engine (struct ssh) is abstracted to its input buffer and its *)
(* output buffer: ssh_packet_get yields a packet once its PktLen units are *)
(* in the input buffer, ssh_packet_put appends them to the other engine's  *)
(* output buffer (decryption and re-encryption keep the payload).          *)
(*                                                                         *)
(* The event loop is single threaded, so each callback is one atomic step. *)
(* libevent events are one-shot (no EV_PERSIST): a fired event is no       *)
(* longer pending until event_add re-arms it.                              *)
(***************************************************************************)
EXTENDS Naturals, Sequences

CONSTANTS
  NPkt,         \* packets each endpoint sends in one session
  PktLen,       \* units per packet
  ReadMax,      \* units one read() may return (BUFSZ)
  MaxSessions   \* connections the listener accepts (bounds the model)

ASSUME NPktAssumption == NPkt \in Nat \ {0}
ASSUME PktLenAssumption == PktLen \in Nat \ {0}
ASSUME ReadMaxAssumption == ReadMax \in Nat \ {0}
ASSUME MaxSessionsAssumption == MaxSessions \in Nat

Sides == {"client", "server"}
Other(s) == IF s = "client" THEN "server" ELSE "client"

Unit == Sides \X (1..NPkt) \X (1..PktLen)

(* The events of a session: struct side has an input and an output event. *)
Events == Sides \X {"input", "output"}

(* The units endpoint s has sent so far, in order. *)
SentUnits(s, n) ==
  [j \in 1..(n * PktLen) |-> <<s, ((j - 1) \div PktLen) + 1, ((j - 1) % PktLen) + 1>>]

PacketUnits(s, k) == [i \in 1..PktLen |-> <<s, k, i>>]

Drop(q, n) == SubSeq(q, n + 1, Len(q))

VARIABLES
  keysOk,     \* ssh_add_hostkey accepts the keybuf and known_keybuf main() read
  running,    \* the proxy process has not exited through fatal()
  nsess,      \* sessions accepted so far
  alloc,      \* the struct session is allocated (not yet xfree'd)
  connected,  \* s->connected
  linked,     \* s is in the TAILQ `sessions'
  fdState,    \* side -> "unset" (-1), "open", "closed"
  closes,     \* side -> close() calls on that side's descriptor
  engine,     \* side -> s->side.ssh # NULL
  pending,    \* the session's events that are added (armed)
  sockIn,     \* side -> units the endpoint sent that the proxy has not read
  sent,       \* side -> packets the endpoint has sent
  peerEof,    \* side -> the endpoint has shut down its sending direction
  inBuf,      \* side -> units in that side's engine input buffer
  outBuf,     \* side -> units in that side's engine output buffer
  recv        \* side -> units written to that side's endpoint

vars == <<keysOk, running, nsess, alloc, connected, linked, fdState, closes, engine,
          pending, sockIn, sent, peerEof, inBuf, outBuf, recv>>

dataVars == <<sockIn, sent, peerEof, inBuf, outBuf, recv>>

Empty == [s \in Sides |-> <<>>]

(* The type invariant, in a part for the flags and a part for the counters *)
(* and buffers.                                                            *)
FlagsOK ==
  /\ keysOk \in BOOLEAN
  /\ running \in BOOLEAN
  /\ alloc \in BOOLEAN
  /\ connected \in BOOLEAN
  /\ linked \in BOOLEAN
  /\ fdState \in [Sides -> {"unset", "open", "closed"}]
  /\ engine \in [Sides -> BOOLEAN]
  /\ peerEof \in [Sides -> BOOLEAN]
  /\ pending \subseteq Events

BuffersOK ==
  /\ nsess \in 0..MaxSessions
  /\ closes \in [Sides -> Nat]
  /\ sent \in [Sides -> 0..NPkt]
  /\ sockIn \in [Sides -> Seq(Unit)]
  /\ inBuf \in [Sides -> Seq(Unit)]
  /\ outBuf \in [Sides -> Seq(Unit)]
  /\ recv \in [Sides -> Seq(Unit)]

TypeOK == FlagsOK /\ BuffersOK

Init ==
  /\ keysOk \in BOOLEAN
  /\ running = TRUE
  /\ nsess = 0
  /\ alloc = FALSE
  /\ connected = FALSE
  /\ linked = FALSE
  /\ fdState = [s \in Sides |-> "unset"]
  /\ closes = [s \in Sides |-> 0]
  /\ engine = [s \in Sides |-> FALSE]
  /\ pending = {}
  /\ sockIn = Empty
  /\ sent = [s \in Sides |-> 0]
  /\ peerEof = [s \in Sides |-> FALSE]
  /\ inBuf = Empty
  /\ outBuf = Empty
  /\ recv = Empty
-----------------------------------------------------------------------------
(***************************************************************************)
(* session_close: close both descriptors that are not -1; if connected,    *)
(* event_del the four events, ssh_free both engines, TAILQ_REMOVE; xfree.  *)
(* `fds', `c' and `ev' are the fd fields, the close() counts and the armed *)
(* events at the call.                                                     *)
(***************************************************************************)
session_close(fds, c, ev) ==
  /\ fdState' = [s \in Sides |-> IF fds[s] = "unset" THEN "unset" ELSE "closed"]
  /\ closes' = [s \in Sides |-> IF fds[s] = "unset" THEN c[s] ELSE c[s] + 1]
  /\ IF connected
       THEN /\ pending' = ev \ Events
            /\ engine' = [s \in Sides |-> FALSE]
            /\ linked' = FALSE
       ELSE /\ pending' = ev
            /\ UNCHANGED <<engine, linked>>
  /\ alloc' = FALSE
  /\ connected' = FALSE

(***************************************************************************)
(* ssh_packet_fwd(from, to) on a buffer state b = [in, out, ev]: forward at *)
(* most one packet from `from's engine to `to's engine, then arm the output *)
(* event of each side whose engine has output queued.                      *)
(***************************************************************************)
ssh_packet_fwd_on_packet(b, from, to) ==
  IF ~(engine[from] /\ engine[to]) THEN b
  ELSE
    LET got == Len(b.in[from]) >= PktLen
        in1 == IF got THEN [b.in EXCEPT ![from] = Drop(@, PktLen)] ELSE b.in
        out1 == IF got THEN [b.out EXCEPT ![to] = @ \o SubSeq(b.in[from], 1, PktLen)]
                       ELSE b.out
    IN [in |-> in1, out |-> out1,
        ev |-> IF got THEN b.ev \cup {<<to, "output">>} ELSE b.ev]

ssh_packet_fwd(b, from, to) ==
  IF ~(engine[from] /\ engine[to]) THEN b
  ELSE
    LET got == Len(b.in[from]) >= PktLen
        in1 == IF got THEN [b.in EXCEPT ![from] = Drop(@, PktLen)] ELSE b.in
        out1 == IF got THEN [b.out EXCEPT ![to] = @ \o SubSeq(b.in[from], 1, PktLen)]
                       ELSE b.out
    IN [in |-> in1, out |-> out1,
        ev |-> b.ev \cup {<<x, "output">> : x \in {y \in {from, to} : out1[y] # <<>>}}]

(* The two calls that end input_cb and output_cb: fwd(r, w); fwd(w, r).    *)
FwdBoth(b, r, w) == ssh_packet_fwd(ssh_packet_fwd(b, r, w), w, r)

(* Install a buffer state as the next state. *)
SetBufs(b) ==
  /\ inBuf' = b.in
  /\ outBuf' = b.out
  /\ pending' = b.ev
-----------------------------------------------------------------------------
(***************************************************************************)
(* accept_cb: the listener event fires.  xcalloc a session, re-arm the     *)
(* listener, accept the client, make it non-blocking, do_connect upstream  *)
(* and arm server.output with connect_cb.  accept() failing is fatal();    *)
(* fcntl or do_connect failing closes the client fd and frees s.           *)
(***************************************************************************)
AcceptOk ==
  /\ running /\ ~alloc /\ nsess < MaxSessions
  /\ nsess' = nsess + 1
  /\ alloc' = TRUE
  /\ connected' = FALSE
  /\ fdState' = [s \in Sides |-> "open"]
  /\ closes' = [s \in Sides |-> 0]
  /\ pending' = {<<"server", "output">>}
  /\ sockIn' = Empty /\ sent' = [s \in Sides |-> 0]
  /\ peerEof' = [s \in Sides |-> FALSE]
  /\ inBuf' = Empty /\ outBuf' = Empty /\ recv' = Empty
  /\ UNCHANGED <<keysOk, running, linked, engine>>

(* fcntl(client) or do_connect fails: goto fail closes client.fd, xfree(s). *)
AcceptFail ==
  /\ running /\ ~alloc /\ nsess < MaxSessions
  /\ nsess' = nsess + 1
  /\ fdState' = [s \in Sides |-> IF s = "client" THEN "closed" ELSE "unset"]
  /\ closes' = [s \in Sides |-> IF s = "client" THEN 1 ELSE 0]
  /\ UNCHANGED <<keysOk, running, alloc, connected, linked, engine, pending, dataVars>>

(* accept() itself fails: fatal() ends the process. *)
AcceptFatal ==
  /\ running /\ ~alloc /\ nsess < MaxSessions
  /\ running' = FALSE
  /\ UNCHANGED <<keysOk, nsess, alloc, connected, linked, fdState, closes, engine,
                 pending, dataVars>>

(***************************************************************************)
(* connect_cb: server.output fires while the session is not connected.     *)
(* event_del it; on SO_ERROR # 0 close server.fd, set it to -1 and         *)
(* session_close; otherwise event_set the four events, ssh_init both       *)
(* engines, ssh_add_hostkey (fatal on failure), add both input events,     *)
(* connected = 1 and TAILQ_INSERT_TAIL.                                    *)
(***************************************************************************)
ConnectFailNoReset ==
  /\ running /\ alloc /\ ~connected /\ <<"server", "output">> \in pending
  /\ session_close(fdState, [closes EXCEPT !["server"] = @ + 1],
                   pending \ {<<"server", "output">>})
  /\ UNCHANGED <<keysOk, running, nsess, dataVars>>

ConnectFail ==
  /\ running /\ alloc /\ ~connected /\ <<"server", "output">> \in pending
  /\ session_close([fdState EXCEPT !["server"] = "unset"],
                   [closes EXCEPT !["server"] = @ + 1],
                   pending \ {<<"server", "output">>})
  /\ UNCHANGED <<keysOk, running, nsess, dataVars>>

ConnectOk ==
  /\ running /\ alloc /\ ~connected /\ <<"server", "output">> \in pending
  /\ keysOk
  /\ engine' = [s \in Sides |-> TRUE]
  /\ pending' = (pending \ {<<"server", "output">>})
                   \cup {<<"server", "input">>, <<"client", "input">>}
  /\ connected' = TRUE
  /\ linked' = TRUE
  /\ UNCHANGED <<keysOk, running, nsess, alloc, fdState, closes, dataVars>>

(* ssh_add_hostkey rejects keybuf or known_keybuf: fatal() ends the process. *)
ConnectFatal ==
  /\ running /\ alloc /\ ~connected /\ <<"server", "output">> \in pending
  /\ ~keysOk
  /\ running' = FALSE
  /\ pending' = pending \ {<<"server", "output">>}
  /\ UNCHANGED <<keysOk, nsess, alloc, connected, linked, fdState, closes, engine, dataVars>>
-----------------------------------------------------------------------------
(***************************************************************************)
(* input_cb for side r (the side whose fd fired; w is the other one).      *)
(* read(): EINTR/EAGAIN re-arms r.input; len <= 0 (EOF or a fatal error)   *)
(* calls session_close and returns; len > 0 re-arms r.input and appends    *)
(* the bytes to r's engine.  Then fwd(r, w); fwd(w, r).                    *)
(***************************************************************************)
InputReady(r) == running /\ connected /\ <<r, "input">> \in pending

InputRetry(r) ==
  /\ InputReady(r)
  /\ SetBufs(FwdBoth([in |-> inBuf, out |-> outBuf, ev |-> pending], r, Other(r)))
  /\ UNCHANGED <<keysOk, running, nsess, alloc, connected, linked, fdState, closes,
                 engine, sockIn, sent, peerEof, recv>>

InputData(r) ==
  /\ InputReady(r)
  /\ sockIn[r] # <<>>
  /\ \E k \in 1..ReadMax :
       /\ k <= Len(sockIn[r])
       /\ sockIn' = [sockIn EXCEPT ![r] = Drop(@, k)]
       /\ SetBufs(FwdBoth([in |-> [inBuf EXCEPT ![r] = @ \o SubSeq(sockIn[r], 1, k)],
                           out |-> outBuf, ev |-> pending], r, Other(r)))
  /\ UNCHANGED <<keysOk, running, nsess, alloc, connected, linked, fdState, closes,
                 engine, sent, peerEof, recv>>

(* read() returns 0: the endpoint shut down and its data is drained.      *)
InputEof(r) ==
  /\ InputReady(r)
  /\ sockIn[r] = <<>> /\ peerEof[r]
  /\ session_close(fdState, closes, pending)
  /\ UNCHANGED <<keysOk, running, nsess, dataVars>>

(* read() returns -1 with a fatal errno (ECONNRESET), at any time.         *)
InputError(r) ==
  /\ InputReady(r)
  /\ session_close(fdState, closes, pending)
  /\ UNCHANGED <<keysOk, running, nsess, dataVars>>

(***************************************************************************)
(* output_cb for side w (r is the other one).  If w's engine has olen > 0  *)
(* bytes queued, write(): EINTR/EAGAIN re-arms w.output; len <= 0 calls    *)
(* session_close and returns; 0 < len <= olen consumes len bytes.  Then    *)
(* fwd(r, w); fwd(w, r).                                                   *)
(***************************************************************************)
OutputReady(w) == running /\ connected /\ <<w, "output">> \in pending

(* The olen == 0 branch (the write is skipped) is not an action: output is *)
(* armed only by ssh_packet_fwd when that side's engine holds output, and  *)
(* only output_cb consumes it, so the event never fires on an empty buffer. *)
OutputRetry(w) ==
  /\ OutputReady(w)
  /\ outBuf[w] # <<>>
  /\ SetBufs(FwdBoth([in |-> inBuf, out |-> outBuf, ev |-> pending], Other(w), w))
  /\ UNCHANGED <<keysOk, running, nsess, alloc, connected, linked, fdState, closes,
                 engine, sockIn, sent, peerEof, recv>>

OutputDataConsumeAll(w) ==
  /\ OutputReady(w)
  /\ outBuf[w] # <<>>
  /\ \E k \in 1..Len(outBuf[w]) :
       /\ recv' = [recv EXCEPT ![w] = @ \o SubSeq(outBuf[w], 1, k)]
       /\ SetBufs(FwdBoth([in |-> inBuf, out |-> [outBuf EXCEPT ![w] = <<>>],
                           ev |-> pending \ {<<w, "output">>}], Other(w), w))
  /\ UNCHANGED <<keysOk, running, nsess, alloc, connected, linked, fdState, closes,
                 engine, sockIn, sent, peerEof>>

OutputDataNoConsume(w) ==
  /\ OutputReady(w)
  /\ outBuf[w] # <<>>
  /\ \E k \in 1..Len(outBuf[w]) :
       /\ recv' = [recv EXCEPT ![w] = @ \o SubSeq(outBuf[w], 1, k)]
       /\ SetBufs(FwdBoth([in |-> inBuf, out |-> outBuf,
                           ev |-> pending \ {<<w, "output">>}], Other(w), w))
  /\ UNCHANGED <<keysOk, running, nsess, alloc, connected, linked, fdState, closes,
                 engine, sockIn, sent, peerEof>>

OutputData(w) ==
  /\ OutputReady(w)
  /\ outBuf[w] # <<>>
  /\ \E k \in 1..Len(outBuf[w]) :
       /\ recv' = [recv EXCEPT ![w] = @ \o SubSeq(outBuf[w], 1, k)]
       /\ SetBufs(FwdBoth([in |-> inBuf, out |-> [outBuf EXCEPT ![w] = Drop(@, k)],
                           ev |-> pending \ {<<w, "output">>}], Other(w), w))
  /\ UNCHANGED <<keysOk, running, nsess, alloc, connected, linked, fdState, closes,
                 engine, sockIn, sent, peerEof>>

OutputClose(w) ==
  /\ OutputReady(w)
  /\ outBuf[w] # <<>>
  /\ session_close(fdState, closes, pending)
  /\ UNCHANGED <<keysOk, running, nsess, dataVars>>
-----------------------------------------------------------------------------
(***************************************************************************)
(* The endpoints.  An endpoint sends its next packet into its socket, or  *)
(* shuts down its sending direction.  The upstream server can only send   *)
(* once the proxy's connect() to it has succeeded.                         *)
(***************************************************************************)
EndpointUp(s) ==
  /\ running /\ alloc /\ fdState[s] = "open" /\ ~peerEof[s]
  /\ (s = "server" => connected)

Send(s) ==
  /\ EndpointUp(s)
  /\ sent[s] < NPkt
  /\ sockIn' = [sockIn EXCEPT ![s] = @ \o PacketUnits(s, sent[s] + 1)]
  /\ sent' = [sent EXCEPT ![s] = @ + 1]
  /\ UNCHANGED <<keysOk, running, nsess, alloc, connected, linked, fdState, closes,
                 engine, pending, peerEof, inBuf, outBuf, recv>>

Shutdown(s) ==
  /\ EndpointUp(s)
  /\ peerEof' = [peerEof EXCEPT ![s] = TRUE]
  /\ UNCHANGED <<keysOk, running, nsess, alloc, connected, linked, fdState, closes,
                 engine, pending, sockIn, sent, inBuf, outBuf, recv>>

(* The process has exited, or the listener accepted its last connection:  *)
(* event_dispatch waits with nothing left to do.                           *)
Idle ==
  /\ ~running \/ (~alloc /\ nsess = MaxSessions)
  /\ UNCHANGED vars

Next ==
  \/ AcceptOk \/ AcceptFail \/ AcceptFatal
  \/ ConnectOk \/ ConnectFail \/ ConnectFatal
  \/ \E s \in Sides :
       \/ InputRetry(s) \/ InputData(s) \/ InputEof(s) \/ InputError(s)
       \/ OutputRetry(s) \/ OutputData(s) \/ OutputClose(s)
       \/ Send(s) \/ Shutdown(s)
  \/ Idle

(***************************************************************************)
(* Fairness.  libevent delivers every pending event whose descriptor stays *)
(* ready, and a non-blocking connect() completes or fails in finite time:  *)
(* weak fairness on connect_cb, on a read that returns data and on a write *)
(* that accepts data.  Nothing forces an endpoint to send or to close, nor *)
(* a signal to interrupt a call.                                           *)
(***************************************************************************)
Fairness ==
  /\ WF_vars(ConnectOk \/ ConnectFail \/ ConnectFatal)
  /\ \A s \in Sides : WF_vars(InputData(s)) /\ WF_vars(OutputData(s))

Spec == Init /\ [][Next]_vars
FairSpec == Spec /\ Fairness
-----------------------------------------------------------------------------
PrefixOf(a, b) == Len(a) <= Len(b) /\ SubSeq(b, 1, Len(a)) = a

(***************************************************************************)
(* A session's resources follow its lifecycle (spec section 3, property 8) *)
(* through every path of accept_cb, connect_cb and session_close: the two  *)
(* engines exist and the session is on the list exactly while it is       *)
(* connected; a connecting session has at most its connect event armed; a *)
(* freed session has no armed event (no callback can run on freed memory)  *)
(* and no open descriptor; and no descriptor is ever closed twice.         *)
(***************************************************************************)
SessionResources ==
  /\ \A s \in Sides : engine[s] = (alloc /\ connected)
  /\ linked = (alloc /\ connected)
  /\ alloc /\ ~connected => pending \subseteq {<<"server", "output">>}
  /\ ~alloc => pending = {} /\ \A s \in Sides : fdState[s] # "open"
  /\ \A s \in Sides : closes[s] <= 1

(***************************************************************************)
(* Spec property 7, safety part: what an endpoint has received from the    *)
(* proxy is a prefix of what the other endpoint sent, under any            *)
(* interleaving of readable and writable events, partial reads and         *)
(* partial writes: no unit is lost in the middle, duplicated or reordered. *)
(***************************************************************************)
DeliveredInOrder ==
  \A s \in Sides : PrefixOf(recv[Other(s)], SentUnits(s, sent[s]))

(***************************************************************************)
(* Conservation of each direction: the units delivered to the receiving    *)
(* endpoint, then the receiving engine's output buffer, then the sending   *)
(* engine's input buffer, then the sender's socket, are exactly what the  *)
(* sender sent.  ssh_packet_fwd moves a packet between the middle two      *)
(* without loss or duplication, and reads and writes only take the head.   *)
(***************************************************************************)
Conservation ==
  \A s \in Sides :
    recv[Other(s)] \o outBuf[Other(s)] \o inBuf[s] \o sockIn[s] = SentUnits(s, sent[s])

(***************************************************************************)
(* Spec property 7, liveness part: every packet an endpoint sends reaches  *)
(* the other endpoint, unless the session is torn down or the proxy dies.  *)
(* It relies on the output event being re-armed by ssh_packet_fwd after a  *)
(* partial write and on each forwarded packet triggering the next forward. *)
(***************************************************************************)
Delivery ==
  \A s \in Sides, n \in 1..NPkt :
    (alloc /\ sent[s] >= n)
      ~> (~running \/ ~alloc \/ Len(recv[Other(s)]) >= n * PktLen)

(***************************************************************************)
(* When input_cb tears a session down because endpoint s shut down its     *)
(* sending side (read() returned 0), everything s sent has already been    *)
(* written to the other endpoint: spec property 7 for an endpoint that    *)
(* sends its packets and then closes.                                      *)
(***************************************************************************)
EofDeliversAll ==
  [][\A s \in Sides : InputEof(s) => Len(recv[Other(s)]) = sent[s] * PktLen]_vars

(***************************************************************************)
(* The proxy implements the channel of ProxyChannel: with a session live  *)
(* while the process runs and the struct session is allocated, every step *)
(* of the four callbacks and of the endpoints is a send, a delivery of the *)
(* next units in order, an open, a close, or changes nothing the endpoints *)
(* see; and under the fairness of libevent everything sent is delivered   *)
(* while the session lives.                                                *)
(***************************************************************************)
Chan == INSTANCE ProxyChannel WITH live <- running /\ alloc

ChannelRefinement == Chan!FairSpec
=============================================================================
