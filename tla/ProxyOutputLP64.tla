-------------------------- MODULE ProxyOutputLP64 --------------------------
(***************************************************************************)
(* output_cb on an LP64 build.  `ssize_t olen' is passed to ssh_output_ptr *)
(* through a cast to a u_int pointer (ssh-proxy.c line 342): the callee  *)
(* stores 32 bits and the upper half of olen keeps whatever the stack     *)
(* held.  Reading it                                                       *)
(* is undefined; what the build can produce is one of three values:       *)
(*   - the buffered length (the upper half happens to be zero): output_cb *)
(*     behaves as in ProxySession;                                        *)
(*   - a negative value: the write is skipped;                            *)
(*   - a length far beyond the buffer: write() sends the buffered bytes    *)
(*     and then whatever follows them in memory (Junk), len < olen takes   *)
(*     the partial branch, and ssh_output_consume(len) consumes len bytes *)
(*     when the buffer holds them and fails, consuming nothing, when it   *)
(*     does not (sshbuf_consume refuses to consume more than is held).    *)
(***************************************************************************)
EXTENDS ProxySession

Junk == <<"stack", 0, 0>>

(* write(fd, obuf, olen) with the garbage olen: k units leave, the last    *)
(* of them read past the end of the output buffer when k > Len(obuf).      *)
OverRead(obuf, k) == SubSeq(obuf \o <<Junk>>, 1, k)

OutputNegative(w) ==
  /\ OutputReady(w)
  /\ outBuf[w] # <<>>
  /\ SetBufs(FwdBoth([in |-> inBuf, out |-> outBuf, ev |-> pending \ {<<w, "output">>}],
                     Other(w), w))
  /\ UNCHANGED <<keysOk, running, nsess, alloc, connected, linked, fdState, closes,
                 engine, sockIn, sent, peerEof, recv>>

OutputHuge(w) ==
  /\ OutputReady(w)
  /\ outBuf[w] # <<>>
  /\ \E k \in 1..(Len(outBuf[w]) + 1) :
       /\ recv' = [recv EXCEPT ![w] = @ \o OverRead(outBuf[w], k)]
       /\ LET out1 == IF k <= Len(outBuf[w]) THEN [outBuf EXCEPT ![w] = Drop(@, k)]
                                              ELSE outBuf
          IN SetBufs(FwdBoth([in |-> inBuf, out |-> out1,
                              ev |-> pending \ {<<w, "output">>}], Other(w), w))
  /\ UNCHANGED <<keysOk, running, nsess, alloc, connected, linked, fdState, closes,
                 engine, sockIn, sent, peerEof>>

NextLP64 == Next \/ \E w \in Sides : OutputNegative(w) \/ OutputHuge(w)

SpecLP64 == Init /\ [][NextLP64]_vars
=============================================================================
