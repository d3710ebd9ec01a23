------------------------- MODULE ProxySessionProofs ------------------------
(***************************************************************************)
(* Proofs about ProxySession that hold for every value of the constants.   *)
(* The type invariant is proved in two halves: FlagsOK, the Boolean and    *)
(* enumerated state, whose steps Zenon handles, and BuffersOK, the        *)
(* counters and sequences, whose steps need SMT's arithmetic.              *)
(***************************************************************************)
EXTENDS ProxySession, TLAPS

USE NPktAssumption, PktLenAssumption, ReadMaxAssumption, MaxSessionsAssumption

(* A buffer state [in, out, ev] as ssh_packet_fwd reads and builds it. *)
Bufs == [in : [Sides -> Seq(Unit)], out : [Sides -> Seq(Unit)], ev : SUBSET Events]

LEMMA OtherSide ==
  ASSUME NEW s \in Sides
  PROVE  Other(s) \in Sides /\ Other(Other(s)) = s
BY DEF Other, Sides

(* Drop keeps a sequence over Unit a sequence over Unit. *)
LEMMA DropType ==
  ASSUME NEW q \in Seq(Unit), NEW n \in Nat
  PROVE  Drop(q, n) \in Seq(Unit)
BY DEF Drop

(* ssh_packet_fwd only ever arms events of the session. *)
LEMMA FwdEvents ==
  ASSUME NEW b, b.ev \subseteq Events, NEW from \in Sides, NEW to \in Sides
  PROVE  ssh_packet_fwd(b, from, to).ev \subseteq Events
BY DEF ssh_packet_fwd, Events

(* ssh_packet_fwd maps well-typed buffers to well-typed buffers. *)
LEMMA FwdType ==
  ASSUME NEW b \in Bufs, NEW from \in Sides, NEW to \in Sides
  PROVE  ssh_packet_fwd(b, from, to) \in Bufs
<1> DEFINE got == Len(b.in[from]) >= PktLen
<1>1. got => [b.in EXCEPT ![from] = Drop(@, PktLen)] \in [Sides -> Seq(Unit)]
  BY DropType DEF Bufs
<1>2. got => [b.out EXCEPT ![to] = @ \o SubSeq(b.in[from], 1, PktLen)]
               \in [Sides -> Seq(Unit)]
  BY DEF Bufs
<1>3. ssh_packet_fwd(b, from, to).ev \subseteq Events
  BY FwdEvents DEF Bufs
<1>4. QED BY <1>1, <1>2, <1>3 DEF ssh_packet_fwd, Bufs

(* session_close counts one more close() on each descriptor it closes. *)
LEMMA CloseCounts ==
  ASSUME NEW fds, NEW c \in [Sides -> Nat], NEW ev, session_close(fds, c, ev)
  PROVE  closes' \in [Sides -> Nat]
BY DEF session_close

LEMMA FwdBothEvents ==
  ASSUME NEW b, b.ev \subseteq Events, NEW r \in Sides, NEW w \in Sides
  PROVE  FwdBoth(b, r, w).ev \subseteq Events
BY FwdEvents DEF FwdBoth

LEMMA FwdBothType ==
  ASSUME NEW b \in Bufs, NEW r \in Sides, NEW w \in Sides
  PROVE  FwdBoth(b, r, w) \in Bufs
BY FwdType DEF FwdBoth
-----------------------------------------------------------------------------
LEMMA InitTypeOK == Init => TypeOK
<1> SUFFICES ASSUME Init PROVE TypeOK
  OBVIOUS
<1>1. FlagsOK
  BY Zenon DEF Init, FlagsOK
<1>2. Empty \in [Sides -> Seq(Unit)]
  BY DEF Empty
<1>3. BuffersOK
  BY <1>2 DEF Init, BuffersOK
<1>4. QED BY <1>1, <1>3 DEF TypeOK

(* Every step keeps the flags in their types. *)
LEMMA FlagsStep == TypeOK /\ [Next]_vars => FlagsOK'
<1> SUFFICES ASSUME TypeOK, [Next]_vars PROVE FlagsOK'
  OBVIOUS
<1>0. [in |-> inBuf, out |-> outBuf, ev |-> pending].ev \subseteq Events
  BY DEF TypeOK, FlagsOK
<1>1. CASE AcceptOk
  <2>1. pending' \subseteq Events BY <1>1 DEF AcceptOk, Events, Sides
  <2>2. QED BY <1>1, <2>1, Zenon DEF AcceptOk, TypeOK, FlagsOK
<1>2. CASE AcceptFail \/ AcceptFatal
  <2>1. fdState' \in [Sides -> {"unset", "open", "closed"}]
    BY <1>2 DEF AcceptFail, AcceptFatal, TypeOK, FlagsOK
  <2>2. QED BY <1>2, <2>1, Zenon DEF AcceptFail, AcceptFatal, TypeOK, FlagsOK, dataVars
<1>3. CASE ConnectOk
  <2>1. pending' \subseteq Events BY <1>3 DEF ConnectOk, TypeOK, FlagsOK, Events, Sides
  <2>3. engine' \in [Sides -> BOOLEAN] BY <1>3 DEF ConnectOk
  <2>2. QED BY <1>3, <2>1, <2>3, Zenon DEF ConnectOk, TypeOK, FlagsOK, dataVars
<1>4. CASE ConnectFail \/ ConnectFatal
  <2>1. pending' \subseteq Events
    BY <1>4 DEF ConnectFail, ConnectFatal, session_close, TypeOK, FlagsOK
  <2>3. fdState' \in [Sides -> {"unset", "open", "closed"}]
    BY <1>4 DEF ConnectFail, ConnectFatal, session_close, TypeOK, FlagsOK
  <2>2. QED BY <1>4, <2>1, <2>3, Zenon
          DEF ConnectFail, ConnectFatal, session_close, TypeOK, FlagsOK, dataVars
<1>5. ASSUME NEW s \in Sides, InputRetry(s) PROVE FlagsOK'
  <2>1. pending' \subseteq Events
    <3>1. FwdBoth([in |-> inBuf, out |-> outBuf, ev |-> pending], s, Other(s)).ev
            \subseteq Events
      BY <1>0, OtherSide, FwdBothEvents
    <3>2. QED BY <1>5, <3>1 DEF InputRetry, SetBufs
  <2>2. QED BY <1>5, <2>1, Zenon DEF InputRetry, TypeOK, FlagsOK
<1>6. ASSUME NEW s \in Sides, InputData(s) PROVE FlagsOK'
  <2>1. pending' \subseteq Events
    <3>1. PICK k \in 1..ReadMax :
            pending' = FwdBoth([in |-> [inBuf EXCEPT ![s] = @ \o SubSeq(sockIn[s], 1, k)],
                                out |-> outBuf, ev |-> pending], s, Other(s)).ev
      BY <1>6 DEF InputData, SetBufs
    <3>2. FwdBoth([in |-> [inBuf EXCEPT ![s] = @ \o SubSeq(sockIn[s], 1, k)],
                   out |-> outBuf, ev |-> pending], s, Other(s)).ev \subseteq Events
      BY OtherSide, FwdBothEvents DEF TypeOK, FlagsOK
    <3>3. QED BY <3>1, <3>2
  <2>2. QED BY <1>6, <2>1, Zenon DEF InputData, TypeOK, FlagsOK
<1>7. ASSUME NEW s \in Sides, InputEof(s) \/ InputError(s) \/ OutputClose(s)
      PROVE FlagsOK'
  <2>1. pending' \subseteq Events
    BY <1>7 DEF InputEof, InputError, OutputClose, session_close, TypeOK, FlagsOK
  <2>2. fdState' \in [Sides -> {"unset", "open", "closed"}]
    BY <1>7 DEF InputEof, InputError, OutputClose, session_close
  <2>3. QED BY <1>7, <2>1, <2>2, Zenon
          DEF InputEof, InputError, OutputClose, session_close, TypeOK, FlagsOK, dataVars
<1>8. ASSUME NEW s \in Sides, OutputRetry(s) PROVE FlagsOK'
  <2>1. FwdBoth([in |-> inBuf, out |-> outBuf, ev |-> pending],
                Other(s), s).ev \subseteq Events
    BY OtherSide, FwdBothEvents DEF TypeOK, FlagsOK
  <2>2. pending' \subseteq Events
    BY <1>8, <2>1 DEF OutputRetry, SetBufs
  <2>3. QED BY <1>8, <2>2, Zenon DEF OutputRetry, TypeOK, FlagsOK
<1>9. ASSUME NEW s \in Sides, OutputData(s) PROVE FlagsOK'
  <2>1. pending' \subseteq Events
    <3>1. PICK k \in 1..Len(outBuf[s]) :
            pending' = FwdBoth([in |-> inBuf, out |-> [outBuf EXCEPT ![s] = Drop(@, k)],
                                ev |-> pending \ {<<s, "output">>}], Other(s), s).ev
      BY <1>9 DEF OutputData, SetBufs
    <3>2. FwdBoth([in |-> inBuf, out |-> [outBuf EXCEPT ![s] = Drop(@, k)],
                   ev |-> pending \ {<<s, "output">>}], Other(s), s).ev \subseteq Events
      BY OtherSide, FwdBothEvents DEF TypeOK, FlagsOK
    <3>3. QED BY <3>1, <3>2
  <2>2. QED BY <1>9, <2>1, Zenon DEF OutputData, TypeOK, FlagsOK
<1>10. ASSUME NEW s \in Sides, Send(s) \/ Shutdown(s) PROVE FlagsOK'
  BY <1>10, Zenon DEF Send, Shutdown, TypeOK, FlagsOK
<1>11. CASE Idle \/ UNCHANGED vars
  BY <1>11, Zenon DEF Idle, vars, TypeOK, FlagsOK
<1>12. QED BY <1>1, <1>2, <1>3, <1>4, <1>5, <1>6, <1>7, <1>8, <1>9, <1>10, <1>11
         DEF Next

(* Every step keeps the counters and buffers in their types. *)
LEMMA BuffersStep == TypeOK /\ [Next]_vars => BuffersOK'
<1> SUFFICES ASSUME TypeOK, [Next]_vars PROVE BuffersOK'
  OBVIOUS
<1>0. [in |-> inBuf, out |-> outBuf, ev |-> pending] \in Bufs
  BY DEF TypeOK, FlagsOK, BuffersOK, Bufs
<1>1. CASE AcceptOk
  <2>1. Empty \in [Sides -> Seq(Unit)] BY DEF Empty
  <2>2. QED BY <1>1, <2>1 DEF AcceptOk, TypeOK, BuffersOK
<1>2. CASE AcceptFail \/ AcceptFatal
  <2>1. CASE AcceptFail
    <3>1. nsess' = nsess + 1 /\ UNCHANGED dataVars
      BY <2>1 DEF AcceptFail
    <3>2. closes' \in [Sides -> Nat]
      BY <2>1 DEF AcceptFail
    <3>3. QED BY <2>1, <3>1, <3>2 DEF AcceptFail, TypeOK, BuffersOK, dataVars
  <2>2. CASE AcceptFatal
    <3>1. UNCHANGED <<nsess, closes, dataVars>>
      BY <2>2, Zenon DEF AcceptFatal
    <3>2. QED BY <3>1 DEF TypeOK, BuffersOK, dataVars
  <2>3. QED BY <1>2, <2>1, <2>2
<1>13. CASE ConnectOk \/ ConnectFatal
  BY <1>13 DEF ConnectOk, ConnectFatal, TypeOK, BuffersOK, dataVars
<1>3. CASE ConnectFail
  <2>1. closes' \in [Sides -> Nat]
    BY <1>3 DEF ConnectFail, session_close, TypeOK, BuffersOK
  <2>2. QED BY <1>3, <2>1 DEF ConnectFail, TypeOK, BuffersOK, dataVars
<1>12. ASSUME NEW s \in Sides, InputEof(s) \/ InputError(s) \/ OutputClose(s)
       PROVE BuffersOK'
  <2>1. session_close(fdState, closes, pending)
    BY <1>12 DEF InputEof, InputError, OutputClose
  <2>3. closes' \in [Sides -> Nat]
    BY <2>1, CloseCounts DEF TypeOK, BuffersOK
  <2>2. QED BY <1>12, <2>3 DEF InputEof, InputError, OutputClose, TypeOK, BuffersOK, dataVars
<1>4. ASSUME NEW s \in Sides, InputRetry(s) PROVE BuffersOK'
  <2>1. FwdBoth([in |-> inBuf, out |-> outBuf, ev |-> pending], s, Other(s)) \in Bufs
    BY <1>0, OtherSide, FwdBothType
  <2>2. QED BY <1>4, <2>1 DEF InputRetry, SetBufs, TypeOK, BuffersOK, Bufs
<1>5. ASSUME NEW s \in Sides, InputData(s) PROVE BuffersOK'
  <2>1. PICK k \in 1..ReadMax :
          /\ k <= Len(sockIn[s])
          /\ sockIn' = [sockIn EXCEPT ![s] = Drop(@, k)]
          /\ SetBufs(FwdBoth([in |-> [inBuf EXCEPT ![s] = @ \o SubSeq(sockIn[s], 1, k)],
                              out |-> outBuf, ev |-> pending], s, Other(s)))
    BY <1>5 DEF InputData
  <2>2. [in |-> [inBuf EXCEPT ![s] = @ \o SubSeq(sockIn[s], 1, k)],
         out |-> outBuf, ev |-> pending] \in Bufs
    BY <2>1 DEF TypeOK, FlagsOK, BuffersOK, Bufs
  <2>3. FwdBoth([in |-> [inBuf EXCEPT ![s] = @ \o SubSeq(sockIn[s], 1, k)],
                 out |-> outBuf, ev |-> pending], s, Other(s)) \in Bufs
    BY <2>2, OtherSide, FwdBothType
  <2>4. sockIn' \in [Sides -> Seq(Unit)]
    BY <2>1, DropType DEF TypeOK, BuffersOK
  <2>5. QED BY <1>5, <2>1, <2>3, <2>4 DEF InputData, SetBufs, TypeOK, BuffersOK, Bufs
<1>6. ASSUME NEW s \in Sides, OutputRetry(s) PROVE BuffersOK'
  <2>2. FwdBoth([in |-> inBuf, out |-> outBuf, ev |-> pending], Other(s), s) \in Bufs
    BY <1>0, OtherSide, FwdBothType
  <2>3. QED BY <1>6, <2>2 DEF OutputRetry, SetBufs, TypeOK, BuffersOK, Bufs
<1>7. ASSUME NEW s \in Sides, OutputData(s) PROVE BuffersOK'
  <2>1. PICK k \in 1..Len(outBuf[s]) :
          /\ recv' = [recv EXCEPT ![s] = @ \o SubSeq(outBuf[s], 1, k)]
          /\ SetBufs(FwdBoth([in |-> inBuf, out |-> [outBuf EXCEPT ![s] = Drop(@, k)],
                              ev |-> pending \ {<<s, "output">>}], Other(s), s))
    BY <1>7 DEF OutputData
  <2>2. [in |-> inBuf, out |-> [outBuf EXCEPT ![s] = Drop(@, k)],
         ev |-> pending \ {<<s, "output">>}] \in Bufs
    <3>1. Drop(outBuf[s], k) \in Seq(Unit)
      BY <2>1, DropType DEF TypeOK, BuffersOK
    <3>2. QED BY <3>1 DEF TypeOK, FlagsOK, BuffersOK, Bufs
  <2>3. FwdBoth([in |-> inBuf, out |-> [outBuf EXCEPT ![s] = Drop(@, k)],
                 ev |-> pending \ {<<s, "output">>}], Other(s), s) \in Bufs
    BY <2>2, OtherSide, FwdBothType
  <2>4. recv' \in [Sides -> Seq(Unit)]
    BY <2>1 DEF TypeOK, BuffersOK
  <2>5. QED BY <1>7, <2>1, <2>3, <2>4 DEF OutputData, SetBufs, TypeOK, BuffersOK, Bufs
<1>8. ASSUME NEW s \in Sides, Send(s) PROVE BuffersOK'
  <2>1. PacketUnits(s, sent[s] + 1) \in Seq(Unit)
    BY <1>8 DEF Send, PacketUnits, Unit, TypeOK, BuffersOK
  <2>2. QED BY <1>8, <2>1 DEF Send, TypeOK, BuffersOK
<1>9. ASSUME NEW s \in Sides, Shutdown(s) PROVE BuffersOK'
  BY <1>9 DEF Shutdown, TypeOK, BuffersOK
<1>10. CASE Idle \/ UNCHANGED vars
  BY <1>10 DEF Idle, vars, TypeOK, BuffersOK
<1>11. QED BY <1>1, <1>2, <1>3, <1>4, <1>5, <1>6, <1>7, <1>8, <1>9, <1>10, <1>12, <1>13
         DEF Next

(* The type invariant of ProxySession holds in every reachable state. *)
THEOREM TypeCorrect == Spec => []TypeOK
<1>1. TypeOK /\ [Next]_vars => TypeOK'
  BY FlagsStep, BuffersStep DEF TypeOK
<1>2. QED BY InitTypeOK, <1>1, PTL DEF Spec
-----------------------------------------------------------------------------
(***************************************************************************)
(* SessionResources is not inductive by itself: a step of session_close    *)
(* from a state where a descriptor was already closed would close it a     *)
(* second time.  The strengthening says that the callbacks only run on a   *)
(* live session (connected implies allocated), and that a live session    *)
(* still has both descriptors open and none closed.                        *)
(***************************************************************************)
LifecycleInv ==
  /\ connected => alloc
  /\ alloc => \A s \in Sides : fdState[s] = "open" /\ closes[s] = 0

IInv == TypeOK /\ SessionResources /\ LifecycleInv

LEMMA InitIInv == Init => SessionResources /\ LifecycleInv
<1> SUFFICES ASSUME Init PROVE SessionResources /\ LifecycleInv
  OBVIOUS
<1>1. \A s \in Sides : closes[s] <= 1
  BY DEF Init
<1>2. QED BY <1>1, Zenon DEF Init, SessionResources, LifecycleInv

(* session_close on a connected session releases everything exactly once. *)
LEMMA CloseLive ==
  ASSUME IInv, connected, session_close(fdState, closes, pending)
  PROVE  SessionResources' /\ LifecycleInv'
<1>1. alloc /\ \A s \in Sides : fdState[s] = "open" /\ closes[s] = 0
  BY DEF IInv, LifecycleInv
<1>2. pending \subseteq Events
  BY DEF IInv, TypeOK, FlagsOK
<1>3. /\ pending' = {}
      /\ engine' = [s \in Sides |-> FALSE]
      /\ linked' = FALSE /\ alloc' = FALSE /\ connected' = FALSE
  BY <1>2 DEF session_close
<1>4. \A s \in Sides : fdState'[s] = "closed" /\ closes'[s] = 1
  BY <1>1 DEF session_close
<1>5. \A s \in Sides : fdState'[s] # "open" /\ closes'[s] <= 1
  BY <1>4
<1>6. QED BY <1>3, <1>4, <1>5, Zenon DEF SessionResources, LifecycleInv

(* Every step keeps SessionResources and its strengthening. *)
LEMMA ResourcesStep == IInv /\ [Next]_vars => SessionResources' /\ LifecycleInv'
<1> SUFFICES ASSUME IInv, [Next]_vars PROVE SessionResources' /\ LifecycleInv'
  OBVIOUS
<1>0. /\ engine = [s \in Sides |-> alloc /\ connected]
      /\ linked = (alloc /\ connected)
  BY DEF IInv, TypeOK, FlagsOK, SessionResources
<1>1. CASE AcceptOk
  <2>1. ~alloc /\ ~connected BY <1>1 DEF AcceptOk, IInv, LifecycleInv
  <2>2. QED BY <1>0, <1>1, <2>1 DEF AcceptOk, SessionResources, LifecycleInv
<1>2. CASE AcceptFail \/ AcceptFatal
  <2>1. ~alloc /\ ~connected BY <1>2 DEF AcceptFail, AcceptFatal, IInv, LifecycleInv
  <2>2. pending = {} BY <2>1 DEF IInv, SessionResources
  <2>3. \A s \in Sides : fdState'[s] # "open" /\ closes'[s] <= 1
    BY <1>2, <2>1 DEF AcceptFail, AcceptFatal, IInv, SessionResources
  <2>4. UNCHANGED <<alloc, connected, linked, engine, pending>>
    BY <1>2 DEF AcceptFail, AcceptFatal
  <2>5. QED BY <2>1, <2>2, <2>3, <2>4, Zenon DEF IInv, SessionResources, LifecycleInv
<1>3. CASE ConnectOk
  BY <1>3 DEF ConnectOk, IInv, SessionResources, LifecycleInv
<1>4. CASE ConnectFail
  <2>1. alloc /\ ~connected /\ pending \subseteq {<<"server", "output">>}
    BY <1>4 DEF ConnectFail, IInv, SessionResources
  <2>2. \A s \in Sides : fdState[s] = "open" /\ closes[s] = 0
    BY <2>1 DEF IInv, LifecycleInv
  <2>3. /\ pending' = {} /\ alloc' = FALSE /\ connected' = FALSE
        /\ engine' = engine /\ linked' = linked
    BY <1>4, <2>1 DEF ConnectFail, session_close
  <2>4. \A s \in Sides : closes'[s] = 1
    <3> DEFINE fds == [fdState EXCEPT !["server"] = "unset"]
               c == [closes EXCEPT !["server"] = @ + 1]
    <3>1. session_close(fds, c, pending \ {<<"server", "output">>})
      BY <1>4 DEF ConnectFail
    <3>2. fds["client"] = "open" /\ fds["server"] = "unset"
      BY <2>2 DEF IInv, TypeOK, FlagsOK, Sides
    <3>3. c["client"] = 0 /\ c["server"] = 1
      BY <2>2 DEF IInv, TypeOK, BuffersOK, Sides
    <3>4. closes' = [s \in Sides |-> IF fds[s] = "unset" THEN c[s] ELSE c[s] + 1]
      BY <3>1 DEF session_close
    <3>5. QED BY <3>2, <3>3, <3>4 DEF Sides
  <2>5. \A s \in Sides : fdState'[s] # "open" /\ closes'[s] <= 1
    BY <1>4, <2>4 DEF ConnectFail, session_close
  <2>6. QED BY <1>0, <2>1, <2>3, <2>5, Zenon DEF SessionResources, LifecycleInv
<1>5. CASE ConnectFatal
  BY <1>5 DEF ConnectFatal, IInv, SessionResources, LifecycleInv
<1>6. ASSUME NEW s \in Sides,
             InputRetry(s) \/ InputData(s) \/ OutputRetry(s)
               \/ OutputData(s)
      PROVE  SessionResources' /\ LifecycleInv'
  <2>1. connected
    BY <1>6 DEF InputRetry, InputData, OutputRetry, OutputData,
                InputReady, OutputReady
  <2>2. UNCHANGED <<alloc, connected, linked, fdState, closes, engine>>
    BY <1>6 DEF InputRetry, InputData, OutputRetry, OutputData
  <2>3. QED BY <2>1, <2>2 DEF IInv, SessionResources, LifecycleInv
<1>7. ASSUME NEW s \in Sides, InputEof(s) \/ InputError(s) \/ OutputClose(s)
      PROVE  SessionResources' /\ LifecycleInv'
  <2>1. connected /\ session_close(fdState, closes, pending)
    BY <1>7 DEF InputEof, InputError, OutputClose, InputReady, OutputReady
  <2>2. QED BY <2>1, CloseLive
<1>8. ASSUME NEW s \in Sides, Send(s) \/ Shutdown(s)
      PROVE  SessionResources' /\ LifecycleInv'
  <2>1. UNCHANGED <<alloc, connected, linked, fdState, closes, engine, pending>>
    BY <1>8 DEF Send, Shutdown
  <2>2. QED BY <2>1 DEF IInv, SessionResources, LifecycleInv
<1>9. CASE Idle \/ UNCHANGED vars
  BY <1>9 DEF Idle, vars, IInv, SessionResources, LifecycleInv
<1>10. QED BY <1>1, <1>2, <1>3, <1>4, <1>5, <1>6, <1>7, <1>8, <1>9 DEF Next

(***************************************************************************)
(* Every session the proxy creates, on every path through accept_cb,       *)
(* connect_cb, input_cb, output_cb and session_close, holds its engines    *)
(* and its list entry exactly while connected, arms no event once freed,   *)
(* and closes each descriptor at most once (SessionResources), for every  *)
(* packet count, packet length, read size and session bound.              *)
(***************************************************************************)
THEOREM ResourcesSafe == Spec => []SessionResources
<1>1. Init => IInv
  BY InitTypeOK, InitIInv DEF IInv
<1>2. IInv /\ [Next]_vars => IInv'
  BY FlagsStep, BuffersStep, ResourcesStep DEF IInv, TypeOK
<1>3. IInv => SessionResources
  BY DEF IInv
<1>4. QED BY <1>1, <1>2, <1>3, PTL DEF Spec

=============================================================================
