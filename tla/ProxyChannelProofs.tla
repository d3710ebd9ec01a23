------------------------- MODULE ProxyChannelProofs -------------------------
(***************************************************************************)
(* Proofs that every byte a proxy session holds is accounted for           *)
(* (Conservation) and that ProxySession implements the abstract channel    *)
(* of ProxyChannel, for every value of the constants.                      *)
(***************************************************************************)
EXTENDS ProxySessionProofs, SequenceTheorems

USE NPktAssumption, PktLenAssumption, ReadMaxAssumption, MaxSessionsAssumption

(* Division of q * L + r by L, for a remainder r below L. *)
LEMMA DivMod ==
  ASSUME NEW L \in Nat \ {0}, NEW q \in Nat, NEW r \in 0..(L - 1)
  PROVE  (q * L + r) \div L = q /\ (q * L + r) % L = r
BY SMT

(* The units of n packets: n * PktLen of them, all of type Unit. *)
LEMMA SentUnitsType ==
  ASSUME NEW s \in Sides, NEW n \in 0..NPkt
  PROVE  SentUnits(s, n) \in Seq(Unit) /\ Len(SentUnits(s, n)) = n * PktLen
<1>1. ASSUME NEW j \in 1..(n * PktLen)
      PROVE  <<s, ((j - 1) \div PktLen) + 1, ((j - 1) % PktLen) + 1>> \in Unit
  <2>1. (j - 1) % PktLen \in 0..(PktLen - 1)
    BY SMT
  <2>2. (j - 1) \div PktLen \in 0..(n - 1)
    BY SMT
  <2>3. n <= NPkt
    OBVIOUS
  <2>4. QED BY <2>1, <2>2, <2>3 DEF Unit
<1>2. n * PktLen \in Nat
  OBVIOUS
<1>3. QED BY <1>1, <1>2, IsASeq DEF SentUnits
(* Sending packet n + 1 appends its units to those of the first n packets. *)
LEMMA SentUnitsStep ==
  ASSUME NEW s \in Sides, NEW n \in 0..(NPkt - 1)
  PROVE  SentUnits(s, n + 1) = SentUnits(s, n) \o PacketUnits(s, n + 1)
<1> DEFINE A == SentUnits(s, n)
           B == PacketUnits(s, n + 1)
<1>1. SentUnits(s, n + 1) \in Seq(Unit) /\ Len(SentUnits(s, n + 1)) = (n + 1) * PktLen
  BY SentUnitsType
<1>2. A \in Seq(Unit) /\ Len(A) = n * PktLen
  BY SentUnitsType
<1>3. B \in Seq(Unit) /\ Len(B) = PktLen
  BY DEF PacketUnits, Unit
<1>4. /\ A \o B \in Seq(Unit)
      /\ Len(A \o B) = (n + 1) * PktLen
      /\ \A i \in 1..(n + 1) * PktLen :
           (A \o B)[i] = IF i <= n * PktLen THEN A[i] ELSE B[i - n * PktLen]
  <2>1. Len(A) + Len(B) = (n + 1) * PktLen
    BY <1>2, <1>3
  <2>2. QED BY <1>2, <1>3, <2>1, ConcatProperties
<1>5. ASSUME NEW i \in 1..(n + 1) * PktLen
      PROVE  SentUnits(s, n + 1)[i] = (A \o B)[i]
  <2>1. CASE i <= n * PktLen
    BY <1>4, <2>1 DEF SentUnits
  <2>2. CASE ~(i <= n * PktLen)
    <3>1. i - n * PktLen - 1 \in 0..(PktLen - 1) /\ i - 1 = n * PktLen + (i - n * PktLen - 1)
      BY <2>2
    <3>2. (i - 1) \div PktLen = n /\ (i - 1) % PktLen = i - n * PktLen - 1
      BY <3>1, DivMod
    <3>3. SentUnits(s, n + 1)[i] = <<s, n + 1, i - n * PktLen>>
      BY <3>2 DEF SentUnits
    <3>4. (A \o B)[i] = <<s, n + 1, i - n * PktLen>>
      <4>1. (A \o B)[i] = B[i - n * PktLen]
        BY <1>4, <2>2
      <4>2. B[i - n * PktLen] = <<s, n + 1, i - n * PktLen>>
        BY <3>1 DEF B, PacketUnits
      <4>3. QED BY <4>1, <4>2
    <3>5. QED BY <3>3, <3>4
  <2>3. QED BY <2>1, <2>2
<1>6. QED BY <1>1, <1>4, <1>5, SeqEqual
(* The library's facts on concatenation, for sequences of units. *)
LEMMA CatAssoc ==
  ASSUME NEW a \in Seq(Unit), NEW b \in Seq(Unit), NEW c \in Seq(Unit)
  PROVE  (a \o b) \o c = a \o (b \o c)
BY ConcatAssociative

LEMMA CatType ==
  ASSUME NEW a \in Seq(Unit), NEW b \in Seq(Unit)
  PROVE  a \o b \in Seq(Unit) /\ Len(a \o b) = Len(a) + Len(b)
BY ConcatProperties

(* A read or a write of k units splits a buffer into its head and its rest. *)
LEMMA TakeDrop ==
  ASSUME NEW q \in Seq(Unit), NEW k \in 0..Len(q)
  PROVE  /\ SubSeq(q, 1, k) \in Seq(Unit)
         /\ Drop(q, k) \in Seq(Unit)
         /\ SubSeq(q, 1, k) \o Drop(q, k) = q
<1>1. SubSeq(q, 1, k) \in Seq(Unit) /\ Drop(q, k) \in Seq(Unit)
  BY SubSeqProperties DEF Drop
<1>2. SubSeq(q, 1, k) \o SubSeq(q, k + 1, Len(q)) = SubSeq(q, 1, Len(q))
  <2>1. 1 \in 1..Len(q) + 1 /\ k \in 1 - 1..Len(q) /\ Len(q) \in k..Len(q)
    OBVIOUS
  <2>2. QED BY <2>1, Zenon, ConcatAdjacentSubSeq
<1>3. QED BY <1>1, <1>2, SubSeqFull DEF Drop

(* The units of direction s inside the proxy: the receiving engine's        *)
(* output buffer, then the sending engine's input buffer.                  *)
Pipe(b, s) == b.out[Other(s)] \o b.in[s]

(* ssh_packet_fwd moves a packet inside one direction's pipe. *)
LEMMA FwdPipe ==
  ASSUME NEW b \in Bufs, NEW from \in Sides, NEW s \in Sides
  PROVE  Pipe(ssh_packet_fwd(b, from, Other(from)), s) = Pipe(b, s)
<1> DEFINE to == Other(from)
           f == ssh_packet_fwd(b, from, to)
           got == Len(b.in[from]) >= PktLen
           take == SubSeq(b.in[from], 1, PktLen)
<1>1. to \in Sides /\ to # from /\ Other(to) = from
  BY OtherSide DEF Other, Sides
<1>2. CASE ~(engine[from] /\ engine[to]) \/ ~got
  BY <1>2 DEF f, ssh_packet_fwd, Pipe
<1>3. CASE engine[from] /\ engine[to] /\ got
  <2>1. f.in = [b.in EXCEPT ![from] = Drop(@, PktLen)]
        /\ f.out = [b.out EXCEPT ![to] = @ \o take]
    BY <1>3 DEF f, ssh_packet_fwd
  <2>2. b.in[from] \in Seq(Unit) /\ b.out[to] \in Seq(Unit) /\ PktLen \in 0..Len(b.in[from])
    BY <1>1, <1>3 DEF Bufs
  <2>3. take \in Seq(Unit) /\ Drop(b.in[from], PktLen) \in Seq(Unit)
        /\ take \o Drop(b.in[from], PktLen) = b.in[from]
    BY <2>2, TakeDrop
  <2>4. CASE s = from
    <3>1. Pipe(f, s) = (b.out[to] \o take) \o Drop(b.in[from], PktLen)
      BY <1>1, <2>1, <2>4 DEF Pipe, Bufs
    <3>2. (b.out[to] \o take) \o Drop(b.in[from], PktLen) = b.out[to] \o b.in[from]
      <4>1. (b.out[to] \o take) \o Drop(b.in[from], PktLen)
              = b.out[to] \o (take \o Drop(b.in[from], PktLen))
        BY <2>2, <2>3, CatAssoc
      <4>2. QED BY <4>1, <2>3
    <3>3. QED BY <3>1, <3>2, <2>4 DEF Pipe, f, to
  <2>5. CASE s # from
    <3>1. s = to
      BY <1>1, <2>5 DEF Sides, Other
    <3>2. QED BY <1>1, <2>1, <3>1 DEF Pipe, Bufs
  <2>6. QED BY <2>4, <2>5
<1>4. QED BY <1>2, <1>3

(* The two forwards that end input_cb and output_cb keep both pipes. *)
LEMMA FwdBothPipe ==
  ASSUME NEW b \in Bufs, NEW r \in Sides, NEW s \in Sides
  PROVE  Pipe(FwdBoth(b, r, Other(r)), s) = Pipe(b, s)
<1>1. ssh_packet_fwd(b, r, Other(r)) \in Bufs /\ Other(r) \in Sides
  BY FwdType, OtherSide
<1>2. Other(Other(r)) = r
  BY OtherSide
<1>3. QED BY <1>1, <1>2, FwdPipe DEF FwdBoth

(* The engine buffers as the callbacks read them. *)
Cur == [in |-> inBuf, out |-> outBuf, ev |-> pending]

(* Direction s end to end: delivered, in the proxy, not yet read. *)
Flow(s) == (recv[Other(s)] \o Pipe(Cur, s)) \o sockIn[s]

FlowInv == \A s \in Sides : Flow(s) = SentUnits(s, sent[s])

LEMMA CurType == TypeOK => Cur \in Bufs
BY DEF Cur, Bufs, TypeOK, FlagsOK, BuffersOK

(* Installing a buffer state replaces both pipes. *)
LEMMA SetBufsPipe ==
  ASSUME NEW b, SetBufs(b), NEW s \in Sides
  PROVE  Pipe(Cur', s) = Pipe(b, s)
BY DEF SetBufs, Pipe, Cur

LEMMA InitFlow == Init => FlowInv
<1> SUFFICES ASSUME Init, NEW s \in Sides PROVE Flow(s) = SentUnits(s, sent[s])
  BY DEF FlowInv
<1>1. Other(s) \in Sides  BY OtherSide
<1>2. SentUnits(s, 0) = <<>>  BY DEF SentUnits
<1>3. QED BY <1>1, <1>2 DEF Init, Flow, Pipe, Cur, Empty

(* Steps that leave every buffer, counter and delivery alone. *)
LEMMA FlowUnchanged ==
  ASSUME FlowInv, UNCHANGED <<recv, inBuf, outBuf, sockIn, sent>>
  PROVE  FlowInv'
BY DEF FlowInv, Flow, Pipe, Cur
(* A callback that only forwards (EINTR/EAGAIN) keeps every direction. *)
LEMMA FlowFwd ==
  ASSUME TypeOK, FlowInv, NEW r \in Sides, SetBufs(FwdBoth(Cur, r, Other(r))),
         UNCHANGED <<recv, sockIn, sent>>
  PROVE  FlowInv'
<1> SUFFICES ASSUME NEW s \in Sides PROVE Flow(s)' = SentUnits(s, sent'[s])
  BY DEF FlowInv
<1>1. Pipe(Cur', s) = Pipe(Cur, s)
  BY SetBufsPipe, FwdBothPipe, CurType
<1>2. QED BY <1>1 DEF FlowInv, Flow

(* input_cb reading k units: they move from the socket to the input buffer. *)
LEMMA FlowRead ==
  ASSUME TypeOK, FlowInv, NEW r \in Sides, NEW k \in 1..Len(sockIn[r]),
         sockIn' = [sockIn EXCEPT ![r] = Drop(@, k)],
         SetBufs(FwdBoth([in |-> [inBuf EXCEPT ![r] = @ \o SubSeq(sockIn[r], 1, k)],
                          out |-> outBuf, ev |-> pending], r, Other(r))),
         UNCHANGED <<recv, sent>>
  PROVE  FlowInv'
<1> DEFINE T == SubSeq(sockIn[r], 1, k)
           D == Drop(sockIn[r], k)
           X == recv[Other(r)]
           Y == outBuf[Other(r)]
           Z == inBuf[r]
           b0 == [in |-> [inBuf EXCEPT ![r] = @ \o T], out |-> outBuf, ev |-> pending]
<1>0. /\ Other(r) \in Sides /\ Other(r) # r
      /\ sockIn[r] \in Seq(Unit) /\ k \in 0..Len(sockIn[r])
      /\ X \in Seq(Unit) /\ Y \in Seq(Unit) /\ Z \in Seq(Unit)
  BY OtherSide DEF Other, Sides, TypeOK, BuffersOK, X, Y, Z
<1>1. T \in Seq(Unit) /\ D \in Seq(Unit) /\ T \o D = sockIn[r]
  BY <1>0, TakeDrop, Zenon DEF T, D
<1>2. Z \o T \in Seq(Unit)
  BY <1>0, <1>1, CatType, Zenon
<1>3. b0 \in Bufs
  BY <1>2 DEF TypeOK, BuffersOK, FlagsOK, Bufs, b0, Z
<1>4. \A s \in Sides : Pipe(Cur', s) = Pipe(b0, s)
  BY <1>3, SetBufsPipe, FwdBothPipe
<1> SUFFICES ASSUME NEW s \in Sides PROVE Flow(s)' = SentUnits(s, sent'[s])
  BY DEF FlowInv
<1>5. CASE s = r
  <2>1. Pipe(b0, r) = Y \o (Z \o T) /\ sockIn'[r] = D
    BY DEF Pipe, b0, Y, Z, D, TypeOK, BuffersOK
  <2>2. Flow(s)' = (X \o (Y \o (Z \o T))) \o D
    BY <1>4, <1>5, <2>1 DEF Flow, X
  <2>3. (X \o (Y \o (Z \o T))) \o D = (X \o (Y \o Z)) \o (T \o D)
    <3>1. Y \o (Z \o T) = (Y \o Z) \o T  BY <1>0, <1>1, CatAssoc
    <3>2. Y \o Z \in Seq(Unit) /\ X \o (Y \o Z) \in Seq(Unit)  BY <1>0, CatType
    <3>3. X \o ((Y \o Z) \o T) = (X \o (Y \o Z)) \o T  BY <1>0, <1>1, <3>2, CatAssoc
    <3>4. ((X \o (Y \o Z)) \o T) \o D = (X \o (Y \o Z)) \o (T \o D)
      BY <1>1, <3>2, CatAssoc
    <3>5. QED BY <3>1, <3>3, <3>4
  <2>4. (X \o (Y \o Z)) \o (T \o D) = Flow(s)
    BY <1>1, <1>5 DEF Flow, Pipe, Cur, X, Y, Z
  <2>5. QED BY <2>2, <2>3, <2>4 DEF FlowInv
<1>6. CASE s # r
  <2>1. s = Other(r) /\ Other(s) = r
    BY <1>6 DEF Other, Sides
  <2>2. Pipe(b0, s) = Pipe(Cur, s) /\ sockIn'[s] = sockIn[s]
    BY <1>0, <2>1 DEF Pipe, Cur, b0, TypeOK, BuffersOK
  <2>3. QED BY <1>4, <2>2 DEF FlowInv, Flow
<1>7. QED BY <1>5, <1>6
(* output_cb writing k units: they move from the output buffer to the peer. *)
LEMMA FlowWrite ==
  ASSUME TypeOK, FlowInv, NEW w \in Sides, NEW k \in 1..Len(outBuf[w]), NEW ev,
         recv' = [recv EXCEPT ![w] = @ \o SubSeq(outBuf[w], 1, k)],
         SetBufs(FwdBoth([in |-> inBuf, out |-> [outBuf EXCEPT ![w] = Drop(@, k)],
                          ev |-> ev], Other(w), w)),
         ev \subseteq Events,
         UNCHANGED <<sockIn, sent>>
  PROVE  FlowInv'
<1> DEFINE T == SubSeq(outBuf[w], 1, k)
           D == Drop(outBuf[w], k)
           X == recv[w]
           Z == inBuf[Other(w)]
           b0 == [in |-> inBuf, out |-> [outBuf EXCEPT ![w] = D], ev |-> ev]
<1>0. /\ Other(w) \in Sides /\ Other(w) # w /\ Other(Other(w)) = w
      /\ outBuf[w] \in Seq(Unit) /\ k \in 0..Len(outBuf[w])
      /\ X \in Seq(Unit) /\ Z \in Seq(Unit)
  BY OtherSide DEF Other, Sides, TypeOK, BuffersOK, X, Z
<1>1. T \in Seq(Unit) /\ D \in Seq(Unit) /\ T \o D = outBuf[w]
  BY <1>0, TakeDrop, Zenon DEF T, D
<1>2. b0 \in Bufs
  BY <1>1 DEF TypeOK, BuffersOK, Bufs, b0
<1>3. \A s \in Sides : Pipe(Cur', s) = Pipe(b0, s)
  <2>1. FwdBoth(b0, Other(w), w) = FwdBoth(b0, Other(w), Other(Other(w)))
    BY <1>0
  <2>2. SetBufs(FwdBoth(b0, Other(w), Other(Other(w))))
    BY <2>1 DEF b0, D
  <2>3. QED BY <1>0, <1>2, <2>2, SetBufsPipe, FwdBothPipe
<1> SUFFICES ASSUME NEW s \in Sides PROVE Flow(s)' = SentUnits(s, sent'[s])
  BY DEF FlowInv
<1>4. CASE s = Other(w)
  <2>1. Other(s) = w /\ Pipe(b0, s) = D \o Z /\ recv'[w] = X \o T
    BY <1>0, <1>4 DEF Pipe, b0, Z, X, T, TypeOK, BuffersOK
  <2>2. Flow(s)' = ((X \o T) \o (D \o Z)) \o sockIn[s]
    BY <1>3, <2>1 DEF Flow
  <2>3. (X \o T) \o (D \o Z) = X \o ((T \o D) \o Z)
    <3>1. D \o Z \in Seq(Unit) /\ T \o D \in Seq(Unit)  BY <1>0, <1>1, CatType
    <3>2. (X \o T) \o (D \o Z) = X \o (T \o (D \o Z))  BY <1>0, <1>1, <3>1, CatAssoc
    <3>3. T \o (D \o Z) = (T \o D) \o Z  BY <1>0, <1>1, CatAssoc
    <3>4. QED BY <3>2, <3>3
  <2>4. (X \o ((T \o D) \o Z)) \o sockIn[s] = Flow(s)
    BY <1>1, <1>4, <2>1 DEF Flow, Pipe, Cur, X, Z
  <2>5. QED BY <2>2, <2>3, <2>4 DEF FlowInv
<1>5. CASE s # Other(w)
  <2>1. s = w /\ Other(s) # w /\ Other(s) \in Sides
    BY <1>0, <1>5 DEF Other, Sides
  <2>2. Pipe(b0, s) = Pipe(Cur, s) /\ recv'[Other(s)] = recv[Other(s)]
    BY <2>1 DEF Pipe, Cur, b0, TypeOK, BuffersOK
  <2>3. QED BY <1>3, <2>2 DEF FlowInv, Flow
<1>6. QED BY <1>4, <1>5

(* An endpoint sending packet n + 1 appends its units to its socket. *)
LEMMA FlowSend ==
  ASSUME TypeOK, FlowInv, NEW e \in Sides, Send(e)
  PROVE  FlowInv'
<1>1. /\ sent[e] \in 0..(NPkt - 1)
      /\ sockIn' = [sockIn EXCEPT ![e] = @ \o PacketUnits(e, sent[e] + 1)]
      /\ sent' = [sent EXCEPT ![e] = @ + 1]
      /\ UNCHANGED <<recv, inBuf, outBuf>>
  BY DEF Send, TypeOK, BuffersOK
<1> SUFFICES ASSUME NEW s \in Sides PROVE Flow(s)' = SentUnits(s, sent'[s])
  BY DEF FlowInv
<1>2. CASE s = e
  <2> DEFINE X == recv[Other(s)] \o Pipe(Cur, s)
             Q == sockIn[s]
             P == PacketUnits(s, sent[s] + 1)
  <2>1. X \in Seq(Unit) /\ Q \in Seq(Unit) /\ P \in Seq(Unit)
    <3>1. Other(s) \in Sides  BY OtherSide
    <3>2. recv[Other(s)] \in Seq(Unit) /\ Pipe(Cur, s) \in Seq(Unit)
      BY <3>1, CatType DEF Pipe, Cur, TypeOK, BuffersOK
    <3>3. P \in Seq(Unit)
      BY <1>1, <1>2 DEF P, PacketUnits, Unit, Sides
    <3>4. QED BY <3>2, <3>3, CatType DEF X, Q, TypeOK, BuffersOK
  <2>2. Flow(s)' = X \o (Q \o P) /\ sent'[s] = sent[s] + 1
    BY <1>1, <1>2 DEF Flow, Pipe, Cur, X, Q, P, TypeOK, BuffersOK
  <2>3. X \o (Q \o P) = (X \o Q) \o P
    BY <2>1, CatAssoc
  <2>4. (X \o Q) \o P = SentUnits(s, sent[s] + 1)
    <3>1. X \o Q = SentUnits(s, sent[s])  BY DEF FlowInv, Flow, X, Q
    <3>2. SentUnits(s, sent[s]) \o P = SentUnits(s, sent[s] + 1)
      BY <1>1, <1>2, SentUnitsStep DEF P
    <3>3. QED BY <3>1, <3>2
  <2>5. QED BY <2>2, <2>3, <2>4
<1>3. CASE s # e
  BY <1>1, <1>3 DEF FlowInv, Flow, Pipe, Cur, TypeOK, BuffersOK
<1>4. QED BY <1>2, <1>3
(* Every step of the proxy and of the endpoints keeps each direction whole. *)
LEMMA FlowStep == TypeOK /\ FlowInv /\ [Next]_vars => FlowInv'
<1> SUFFICES ASSUME TypeOK, FlowInv, [Next]_vars PROVE FlowInv'
  OBVIOUS
<1>1. CASE AcceptOk
  <2> SUFFICES ASSUME NEW s \in Sides PROVE Flow(s)' = SentUnits(s, sent'[s])
    BY DEF FlowInv
  <2>1. Other(s) \in Sides  BY OtherSide
  <2>2. SentUnits(s, 0) = <<>>  BY DEF SentUnits
  <2>3. QED BY <1>1, <2>1, <2>2 DEF AcceptOk, Flow, Pipe, Cur, Empty
<1>2. CASE AcceptFail \/ AcceptFatal \/ ConnectOk \/ ConnectFail \/ ConnectFatal \/ Idle
  BY <1>2, FlowUnchanged
     DEF AcceptFail, AcceptFatal, ConnectOk, ConnectFail, ConnectFatal, Idle, dataVars, vars
<1>3. ASSUME NEW s \in Sides, InputEof(s) \/ InputError(s) \/ OutputClose(s) \/ Shutdown(s)
      PROVE  FlowInv'
  BY <1>3, FlowUnchanged DEF InputEof, InputError, OutputClose, Shutdown, dataVars
<1>4. ASSUME NEW s \in Sides, InputRetry(s) PROVE FlowInv'
  BY <1>4, FlowFwd DEF InputRetry, Cur
<1>5. ASSUME NEW s \in Sides, OutputRetry(s) PROVE FlowInv'
  <2>1. Other(s) \in Sides /\ Other(Other(s)) = s  BY OtherSide
  <2>2. SetBufs(FwdBoth(Cur, Other(s), Other(Other(s))))
    BY <1>5, <2>1 DEF OutputRetry, Cur
  <2>3. QED BY <1>5, <2>1, <2>2, FlowFwd DEF OutputRetry
<1>6. ASSUME NEW s \in Sides, InputData(s) PROVE FlowInv'
  <2>1. PICK k \in 1..ReadMax :
          /\ k <= Len(sockIn[s])
          /\ sockIn' = [sockIn EXCEPT ![s] = Drop(@, k)]
          /\ SetBufs(FwdBoth([in |-> [inBuf EXCEPT ![s] = @ \o SubSeq(sockIn[s], 1, k)],
                              out |-> outBuf, ev |-> pending], s, Other(s)))
    BY <1>6 DEF InputData
  <2>2. k \in 1..Len(sockIn[s]) /\ UNCHANGED <<recv, sent>>
    BY <1>6, <2>1 DEF InputData, TypeOK, BuffersOK
  <2>3. QED BY <2>1, <2>2, FlowRead
<1>7. ASSUME NEW s \in Sides, OutputData(s) PROVE FlowInv'
  <2>1. PICK k \in 1..Len(outBuf[s]) :
          /\ recv' = [recv EXCEPT ![s] = @ \o SubSeq(outBuf[s], 1, k)]
          /\ SetBufs(FwdBoth([in |-> inBuf, out |-> [outBuf EXCEPT ![s] = Drop(@, k)],
                              ev |-> pending \ {<<s, "output">>}], Other(s), s))
    BY <1>7 DEF OutputData
  <2>2. pending \ {<<s, "output">>} \subseteq Events /\ UNCHANGED <<sockIn, sent>>
    BY <1>7 DEF OutputData, TypeOK, FlagsOK
  <2>3. QED BY <2>1, <2>2, FlowWrite
<1>8. ASSUME NEW s \in Sides, Send(s) PROVE FlowInv'
  BY <1>8, FlowSend
<1>9. CASE UNCHANGED vars
  BY <1>9, FlowUnchanged DEF vars
<1>10. QED BY <1>1, <1>2, <1>3, <1>4, <1>5, <1>6, <1>7, <1>8, <1>9 DEF Next

(* FlowInv is Conservation with the concatenations grouped differently. *)
LEMMA FlowConservation == TypeOK /\ FlowInv => Conservation
<1> SUFFICES ASSUME TypeOK, FlowInv, NEW s \in Sides
             PROVE  recv[Other(s)] \o outBuf[Other(s)] \o inBuf[s] \o sockIn[s]
                      = SentUnits(s, sent[s])
  BY DEF Conservation
<1> DEFINE X == recv[Other(s)]
           Y == outBuf[Other(s)]
           Z == inBuf[s]
<1>1. X \in Seq(Unit) /\ Y \in Seq(Unit) /\ Z \in Seq(Unit)
  BY OtherSide DEF TypeOK, BuffersOK, X, Y, Z
<1>2. X \o (Y \o Z) = (X \o Y) \o Z  BY <1>1, CatAssoc
<1>3. QED BY <1>2 DEF FlowInv, Flow, Pipe, Cur, X, Y, Z

(***************************************************************************)
(* For every number of packets, packet length, read size and session      *)
(* count: under any interleaving of input_cb, output_cb (with partial      *)
(* reads and writes and EINTR retries), ssh_packet_fwd and the endpoints,  *)
(* each direction's units delivered, in the two engine buffers and still  *)
(* in the socket are, in order, exactly what the sender sent.             *)
(***************************************************************************)
THEOREM ConservationSafe == Spec => []Conservation
<1>1. Init => TypeOK /\ FlowInv  BY InitTypeOK, InitFlow
<1>2. TypeOK /\ FlowInv /\ [Next]_vars => TypeOK' /\ FlowInv'
  BY FlagsStep, BuffersStep, FlowStep DEF TypeOK
<1>3. TypeOK /\ FlowInv => Conservation  BY FlowConservation
<1>4. QED BY <1>1, <1>2, <1>3, PTL DEF Spec-----------------------------------------------------------------------------
(***************************************************************************)
(* Refinement.  A step of OutputData(w) writes to endpoint w the next k    *)
(* units of the other side's stream: it is Deliver(Other(w)) of the        *)
(* channel.  Knowing that these are the next units sent needs FlowInv;    *)
(* knowing that the session is live in a callback needs connected =>      *)
(* alloc, from the strengthening LifecycleInv of SessionResources.        *)
(***************************************************************************)
LEMMA PrefixCat ==
  ASSUME NEW A \in Seq(Unit), NEW B \in Seq(Unit)
  PROVE  /\ Len(A \o B) = Len(A) + Len(B)
         /\ SubSeq(A \o B, 1, Len(A)) = A
<1>1. Len(A \o B) = Len(A) + Len(B)  BY ConcatProperties
<1>2. SubSeq(A \o B, 1, Len(A)) = A
  <2>1. A \o B \in Seq(Unit)  BY ConcatProperties
  <2>2. SubSeq(A \o B, 1, Len(A)) \in Seq(Unit) /\ Len(SubSeq(A \o B, 1, Len(A))) = Len(A)
    BY <1>1, <2>1, SubSeqProperties
  <2>3. \A i \in 1..Len(A) : SubSeq(A \o B, 1, Len(A))[i] = A[i]
    BY <1>1, <2>1, SubSeqProperties, ConcatProperties
  <2>4. QED BY <2>2, <2>3, SeqEqual
<1>3. QED BY <1>1, <1>2

(* k lies in the range of a delivery when it and a rest fill what was sent. *)
LEMMA RangeFromSum ==
  ASSUME NEW tot, NEW got \in Nat, NEW rest \in Nat, NEW j \in Nat, j >= 1,
         tot = got + j + rest
  PROVE  j \in 1..(tot - got)
OBVIOUS

LEMMA DeliverStep ==
  ASSUME TypeOK, FlowInv, connected => alloc, NEW w \in Sides, OutputData(w)
  PROVE  Chan!Deliver(Other(w))
<1> DEFINE o == Other(w)
<1>1. PICK k \in 1..Len(outBuf[w]) :
        /\ recv' = [recv EXCEPT ![w] = @ \o SubSeq(outBuf[w], 1, k)]
        /\ SetBufs(FwdBoth([in |-> inBuf, out |-> [outBuf EXCEPT ![w] = Drop(@, k)],
                            ev |-> pending \ {<<w, "output">>}], Other(w), w))
  BY DEF OutputData
<1> DEFINE T == SubSeq(outBuf[w], 1, k)
           D == Drop(outBuf[w], k)
           X == recv[w]
           I == inBuf[o]
           S == sockIn[o]
           U == SentUnits(o, sent[o])
<1>2. /\ o \in Sides /\ Other(o) = w
      /\ X \in Seq(Unit) /\ I \in Seq(Unit) /\ S \in Seq(Unit)
      /\ outBuf[w] \in Seq(Unit) /\ k \in 0..Len(outBuf[w])
      /\ sent[o] \in 0..NPkt
  BY OtherSide DEF o, X, I, S, TypeOK, BuffersOK
<1>3. T \in Seq(Unit) /\ D \in Seq(Unit) /\ T \o D = outBuf[w] /\ Len(T) = k
  <2>1. T \in Seq(Unit) /\ D \in Seq(Unit) /\ T \o D = outBuf[w]
    BY <1>2, TakeDrop, Zenon DEF T, D
  <2>2. Len(T) = k  BY <1>2, SubSeqProperties DEF T
  <2>3. QED BY <2>1, <2>2
<1> DEFINE XT == X \o T
           DI == D \o I
           R == DI \o S
<1>4. XT \in Seq(Unit) /\ DI \in Seq(Unit) /\ R \in Seq(Unit)
  <2>1. XT \in Seq(Unit) /\ DI \in Seq(Unit)  BY <1>2, <1>3, CatType DEF XT, DI
  <2>2. QED BY <1>2, <2>1, CatType DEF R
<1>5. U = XT \o R
  <2>1. U = (X \o ((T \o D) \o I)) \o S
    BY <1>2, <1>3 DEF FlowInv, Flow, Pipe, Cur, o, X, I, S, U
  <2>2. (T \o D) \o I = T \o DI  BY <1>2, <1>3, CatAssoc DEF DI
  <2>3. X \o (T \o DI) = XT \o DI
    <3>1. X \in Seq(Unit) /\ T \in Seq(Unit) /\ DI \in Seq(Unit)  BY <1>2, <1>3, <1>4
    <3>2. (X \o T) \o DI = X \o (T \o DI)  BY <3>1, CatAssoc
    <3>3. QED BY <3>2 DEF XT
  <2>4. (XT \o DI) \o S = XT \o R
    <3>1. XT \in Seq(Unit) /\ DI \in Seq(Unit) /\ S \in Seq(Unit)  BY <1>2, <1>4
    <3>2. (XT \o DI) \o S = XT \o (DI \o S)  BY <3>1, CatAssoc
    <3>3. QED BY <3>2 DEF R
  <2>5. QED BY <2>1, <2>2, <2>3, <2>4
<1>6. /\ Len(U) = Len(XT) + Len(R)
      /\ SubSeq(U, 1, Len(XT)) = XT
  BY <1>4, <1>5, PrefixCat
<1>7. Len(XT) = Len(X) + k
  <2>1. Len(X \o T) = Len(X) + Len(T)  BY <1>2, <1>3, PrefixCat
  <2>2. QED BY <2>1, <1>3 DEF XT
<1>8. Len(U) = sent[o] * PktLen
  BY <1>2, SentUnitsType DEF U
<1>9. k \in 1..(sent[o] * PktLen - Len(recv[Other(o)]))
  <2>1. Len(R) \in Nat /\ Len(X) \in Nat  BY <1>2, <1>4, LenProperties, Zenon
  <2>2. Len(recv[Other(o)]) = Len(X)  BY <1>2 DEF X
  <2>3. Len(XT) \in Nat  BY <1>4, LenProperties, Zenon
  <2>7. k \in Nat /\ k >= 1  BY <1>2
  <2>4. sent[o] * PktLen = Len(recv[Other(o)]) + k + Len(R)
    BY <1>6, <1>7, <1>8, <2>1, <2>2, <2>3
  <2>5. QED BY <2>1, <2>2, <2>4, <2>7, RangeFromSum, Zenon
<1>10. recv' = [recv EXCEPT ![Other(o)] = SubSeq(U, 1, Len(@) + k)]
  <2>1. recv' = [recv EXCEPT ![w] = XT]  BY <1>1 DEF XT, X, T
  <2>2. SubSeq(U, 1, Len(recv[w]) + k) = XT  BY <1>6, <1>7 DEF X
  <2>3. QED BY <1>2, <2>1, <2>2
<1>11. running /\ alloc /\ UNCHANGED <<running, alloc, sent>>
  BY DEF OutputData, OutputReady
<1>12. Chan!SentUnits(o, sent[o]) = U /\ Chan!Other(o) = Other(o)
  BY DEF Chan!SentUnits, SentUnits, Chan!Other, Other, U
<1>13. QED BY <1>9, <1>10, <1>11, <1>12 DEF Chan!Deliver, o
(* Every step of the proxy is a step of the channel or leaves it alone. *)
LEMMA RefineStep == IInv /\ FlowInv /\ [Next]_vars => [Chan!Next]_Chan!cvars
<1> SUFFICES ASSUME IInv, FlowInv, [Next]_vars PROVE [Chan!Next]_Chan!cvars
  OBVIOUS
<1>0. TypeOK /\ (connected => alloc)
  BY DEF IInv, LifecycleInv
<1>1. CASE AcceptOk
  <2>1. Chan!Open
    BY <1>1 DEF AcceptOk, Chan!Open, Empty, Chan!Sides, Sides
  <2>2. QED BY <2>1 DEF Chan!Next
<1>2. CASE AcceptFail \/ AcceptFatal \/ ConnectOk \/ Idle
  BY <1>2 DEF AcceptFail, AcceptFatal, ConnectOk, Idle, vars, dataVars, Chan!cvars
<1>3. CASE ConnectFail \/ ConnectFatal
  <2>1. Chan!Close
    BY <1>3 DEF ConnectFail, ConnectFatal, session_close, dataVars, Chan!Close
  <2>2. QED BY <2>1 DEF Chan!Next
<1>4. ASSUME NEW s \in Sides, InputEof(s) \/ InputError(s) \/ OutputClose(s)
      PROVE  [Chan!Next]_Chan!cvars
  <2>1. running /\ connected /\ alloc
    BY <1>0, <1>4 DEF InputEof, InputError, OutputClose, InputReady, OutputReady
  <2>2. Chan!Close
    BY <1>4, <2>1 DEF InputEof, InputError, OutputClose, session_close, dataVars, Chan!Close
  <2>3. QED BY <2>2 DEF Chan!Next
<1>5. ASSUME NEW s \in Sides, InputRetry(s) \/ InputData(s) \/ OutputRetry(s) \/ Shutdown(s)
      PROVE  [Chan!Next]_Chan!cvars
  <2>1. UNCHANGED <<running, alloc, sent, recv>>
    BY <1>5 DEF InputRetry, InputData, OutputRetry, Shutdown
  <2>2. QED BY <2>1 DEF Chan!cvars
<1>6. ASSUME NEW s \in Sides, Send(s) PROVE [Chan!Next]_Chan!cvars
  <2>1. Chan!Send(s)
    BY <1>6 DEF Send, EndpointUp, Chan!Send
  <2>2. QED BY <2>1 DEF Chan!Next, Chan!Sides, Sides
<1>7. ASSUME NEW s \in Sides, OutputData(s) PROVE [Chan!Next]_Chan!cvars
  <2>1. Chan!Deliver(Other(s))
    BY <1>0, <1>7, DeliverStep
  <2>2. Other(s) \in Chan!Sides
    BY OtherSide DEF Chan!Sides, Sides
  <2>3. QED BY <2>1, <2>2 DEF Chan!Next
<1>8. CASE UNCHANGED vars
  BY <1>8 DEF vars, Chan!cvars
<1>9. QED BY <1>1, <1>2, <1>3, <1>4, <1>5, <1>6, <1>7, <1>8 DEF Next

(***************************************************************************)
(* For every number of packets, packet length, read size and session      *)
(* count, the proxy implements the channel of ProxyChannel under the       *)
(* mapping live <- running /\ alloc: accept_cb opens it with nothing in    *)
(* flight, each write of output_cb delivers the next units the other      *)
(* endpoint sent, session_close and fatal() close it, and no other step   *)
(* changes what the endpoints see.  Fairness (ChannelRefinement's         *)
(* delivery part) is left to TLC.                                          *)
(***************************************************************************)
THEOREM ChannelImplementation == Spec => Chan!Spec
<1>1. Init => IInv /\ FlowInv
  BY InitTypeOK, InitIInv, InitFlow DEF IInv
<1>2. IInv /\ FlowInv /\ [Next]_vars => IInv' /\ FlowInv'
  BY FlagsStep, BuffersStep, ResourcesStep, FlowStep DEF IInv, TypeOK
<1>3. Init => Chan!Init
  BY DEF Init, Chan!Init, Empty, Chan!Sides, Sides
<1>4. IInv /\ FlowInv /\ [Next]_vars => [Chan!Next]_Chan!cvars
  BY RefineStep
<1>5. QED BY <1>1, <1>2, <1>3, <1>4, PTL DEF Spec, Chan!Spec
=============================================================================
