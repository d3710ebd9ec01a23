------------------------- MODULE KexEcdhServerProofs ------------------------
(***************************************************************************)
(* Proofs about KexEcdhServer for every number of key exchanges and every  *)
(* set of names and curves: the type invariant and the session-id binding  *)
(* of spec property 5.                                                     *)
(***************************************************************************)
EXTENDS KexEcdhServer, TLAPS

USE MaxKexAssumption, NoIdAssumption

(* Where the checks that the session-id argument depends on sit in Steps. *)
LEMMA StepPositions ==
  /\ Pos("hash") = 13
  /\ Pos("sidalloc") = 14
  /\ Pos("sign") = 15
  /\ Done = 17
<1>1. Len(Steps) = 16
  BY DEF Steps
<1>2. \A i \in 1..16 : Steps[i] = "hash" <=> i = 13
  BY DEF Steps
<1>3. \A i \in 1..16 : Steps[i] = "sidalloc" <=> i = 14
  BY DEF Steps
<1>4. \A i \in 1..16 : Steps[i] = "sign" <=> i = 15
  BY DEF Steps
<1>5. QED BY <1>1, <1>2, <1>3, <1>4 DEF Pos, Done

(* The messages one handler run sends are messages of its round. *)
LEMMA SentType ==
  ASSUME NEW stop, NEW finishOk, round \in Rounds
  PROVE  Sent(stop, finishOk) \in Seq(Msgs)
BY DEF Sent, DisconnectSent, ReplySent, Msgs

(***************************************************************************)
(* The inductive invariant.  Besides the type and SessionIdBinding it says *)
(* that a handler runs only in a started exchange, and that the one way   *)
(* to have an exchange hash but no session id, the failed malloc of        *)
(* kex->session_id, ends the connection.                                   *)
(***************************************************************************)
BindInv ==
  /\ TypeOK
  /\ SessionIdBinding
  /\ phase = "await_init" => round \in Rounds
  /\ firstH # NoId /\ sessionId = NoId => phase = "failed"

LEMMA InitBindInv == Init => BindInv
BY DEF Init, BindInv, TypeOK, SessionIdBinding

LEMMA StartStep == BindInv /\ kexecdh_server => BindInv'
<1> SUFFICES ASSUME BindInv, kexecdh_server PROVE BindInv'
  OBVIOUS
<1>1. TypeOK'
  BY DEF BindInv, TypeOK, kexecdh_server, Rounds
<1>2. QED BY <1>1 DEF BindInv, TypeOK, SessionIdBinding, kexecdh_server, Rounds

LEMMA HandlerStep ==
  ASSUME BindInv,
         NEW name, NEW loaders, NEW hostkey, NEW point, NEW env,
         NEW deriveOk, NEW finishOk,
         input_kex_ecdh_init(name, loaders, hostkey, point, env, deriveOk, finishOk)
  PROVE  BindInv'
<1>0. PICK stop \in 1..Done :
        LET alloc == {x \in Resources : Passed(AllocAt[x], stop)}
            fatal == stop = Pos("sign")
        IN
        /\ phase = "await_init"
        /\ phase' = CASE fatal -> "dead" [] stop = Done -> "done" [] OTHER -> "failed"
        /\ sessionId' = NewSessionId(stop)
        /\ firstH' = IF Passed("hash", stop) /\ firstH = NoId THEN round ELSE firstH
        /\ keysWith' = IF stop = Done /\ deriveOk
                         THEN keysWith \cup {<<round, sessionId'>>} ELSE keysWith
        /\ live' = live \cup ((IF fatal THEN alloc ELSE alloc \ ReleasedAtOut) \X {round})
        /\ msgs' = msgs \o Sent(stop, finishOk)
        /\ round' = round
  BY DEF input_kex_ecdh_init
<1> DEFINE alloc == {x \in Resources : Passed(AllocAt[x], stop)}
           fatal == stop = Pos("sign")
<1>1. /\ phase = "await_init"
      /\ round \in Rounds
      /\ phase' = CASE fatal -> "dead" [] stop = Done -> "done" [] OTHER -> "failed"
      /\ sessionId' = NewSessionId(stop)
      /\ firstH' = IF Passed("hash", stop) /\ firstH = NoId THEN round ELSE firstH
      /\ keysWith' = IF stop = Done /\ deriveOk
                       THEN keysWith \cup {<<round, sessionId'>>} ELSE keysWith
      /\ live' = live \cup ((IF fatal THEN alloc ELSE alloc \ ReleasedAtOut) \X {round})
      /\ msgs' = msgs \o Sent(stop, finishOk)
      /\ round' = round
  BY <1>0 DEF BindInv
<1>2. firstH # NoId => sessionId # NoId
  BY <1>1 DEF BindInv
<1>3. CASE sessionId # NoId
  <2>1. sessionId' = sessionId /\ firstH' = firstH /\ sessionId = firstH
    BY <1>1, <1>3 DEF NewSessionId, BindInv, SessionIdBinding
  <2>2. SessionIdBinding'
    BY <1>1, <2>1 DEF BindInv, SessionIdBinding
  <2>3. TypeOK'
    <3>1. sessionId \in Rounds BY <1>3 DEF BindInv, TypeOK
    <3>2. alloc \subseteq Resources OBVIOUS
    <3>3. QED BY <1>1, <2>1, <3>1, <3>2, SentType DEF BindInv, TypeOK
  <2>4. QED BY <1>1, <1>3, <2>1, <2>2, <2>3 DEF BindInv
<1>4. CASE sessionId = NoId
  <2>1. firstH = NoId BY <1>2, <1>4
  <2>2. CASE Passed("sidalloc", stop)
    <3>1. Passed("hash", stop) BY <2>2, StepPositions DEF Passed
    <3>2. sessionId' = round /\ firstH' = round
      BY <1>1, <1>4, <2>1, <2>2, <3>1 DEF NewSessionId
    <3>3. TypeOK'
      BY <1>1, <3>2, SentType DEF BindInv, TypeOK
    <3>4. SessionIdBinding'
      BY <1>1, <2>1, <3>2 DEF BindInv, TypeOK, Rounds, SessionIdBinding
    <3>5. QED BY <1>1, <3>2, <3>3, <3>4 DEF BindInv
  <2>3. CASE ~Passed("sidalloc", stop)
    <3>1. sessionId' = NoId /\ keysWith' = keysWith
      BY <1>1, <1>4, <2>3, StepPositions DEF NewSessionId, Passed
    <3>2. firstH' # NoId => phase' = "failed"
      <4>1. SUFFICES ASSUME firstH' # NoId PROVE phase' = "failed"
        OBVIOUS
      <4>2. Passed("hash", stop) BY <1>1, <2>1, <4>1
      <4>3. stop = Pos("sidalloc") BY <2>3, <4>2, StepPositions DEF Passed
      <4>4. QED BY <1>1, <4>3, StepPositions
    <3>3. firstH' \in Rounds \cup {NoId}
      BY <1>1 DEF BindInv, TypeOK
    <3>4. TypeOK'
      BY <1>1, <3>1, <3>3, SentType DEF BindInv, TypeOK
    <3>5. SessionIdBinding'
      BY <1>1, <2>1, <3>1 DEF BindInv, TypeOK, Rounds, SessionIdBinding
    <3>6. QED BY <1>1, <3>1, <3>2, <3>4, <3>5 DEF BindInv
  <2>4. QED BY <2>2, <2>3
<1>5. QED BY <1>3, <1>4

LEMMA BindStep == BindInv /\ [Next]_vars => BindInv'
<1> SUFFICES ASSUME BindInv, [Next]_vars PROVE BindInv'
  OBVIOUS
<1>1. CASE kexecdh_server
  BY <1>1, StartStep
<1>2. CASE \E name \in Names, loaders, hostkey \in BOOLEAN, point \in Points,
             env \in EnvFail \cup {"none"}, deriveOk, finishOk \in BOOLEAN :
             input_kex_ecdh_init(name, loaders, hostkey, point, env, deriveOk, finishOk)
  BY <1>2, HandlerStep
<1>3. CASE Stopped \/ UNCHANGED vars
  BY <1>3 DEF Stopped, vars, BindInv, TypeOK, SessionIdBinding
<1>4. QED BY <1>1, <1>2, <1>3 DEF Next

(***************************************************************************)
(* The ECDH server's type invariant holds on every connection.             *)
(***************************************************************************)
THEOREM KexTypeCorrect == Spec => []TypeOK
<1>1. BindInv => TypeOK BY DEF BindInv
<1>2. QED BY <1>1, InitBindInv, BindStep, PTL DEF Spec

(***************************************************************************)
(* Spec property 5 (input_kex_ecdh_init, "save session id := H"): on every *)
(* connection, over any number of re-keys and any failure of any check,   *)
(* kex->session_id once set is the first exchange hash, and every         *)
(* exchange derives its keys under it.                                     *)
(***************************************************************************)
THEOREM SessionIdBound == Spec => []SessionIdBinding
<1>1. BindInv => SessionIdBinding BY DEF BindInv
<1>2. QED BY <1>1, InitBindInv, BindStep, PTL DEF Spec
=============================================================================
