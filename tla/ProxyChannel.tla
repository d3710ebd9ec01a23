--------------------------- MODULE ProxyChannel ----------------------------
(***************************************************************************)
(* What one proxy session promises its two endpoints (spec section 4.6,   *)
(* property 7), without the proxy: while the session lives, each endpoint *)
(* sends packets, and the other endpoint receives a growing prefix of what *)
(* was sent, in order, with nothing lost in the middle or duplicated.  A  *)
(* session opens with nothing sent and may close at any time; what is not *)
(* delivered when it closes is gone.  Under fairness, while the session   *)
(* lives every unit sent is delivered.                                    *)
(*                                                                         *)
(* ProxySession implements this specification under the refinement        *)
(* mapping live <- running /\ alloc; sent and recv are the same variables. *)
(***************************************************************************)
EXTENDS Naturals, Sequences

CONSTANTS NPkt, PktLen

Sides == {"client", "server"}
Other(s) == IF s = "client" THEN "server" ELSE "client"

(* The units endpoint s has sent after n packets, in order. *)
SentUnits(s, n) ==
  [j \in 1..(n * PktLen) |-> <<s, ((j - 1) \div PktLen) + 1, ((j - 1) % PktLen) + 1>>]

VARIABLES
  live,   \* a session connects the two endpoints
  sent,   \* side -> packets that endpoint has sent in this session
  recv    \* side -> units that endpoint has received in this session

cvars == <<live, sent, recv>>

Init ==
  /\ live = FALSE
  /\ sent = [s \in Sides |-> 0]
  /\ recv = [s \in Sides |-> <<>>]

(* A new session starts with nothing in flight. *)
Open ==
  /\ ~live
  /\ live' = TRUE
  /\ sent' = [s \in Sides |-> 0]
  /\ recv' = [s \in Sides |-> <<>>]

Send(s) ==
  /\ live /\ sent[s] < NPkt
  /\ sent' = [sent EXCEPT ![s] = @ + 1]
  /\ UNCHANGED <<live, recv>>

(* The other endpoint receives the next k units s sent. *)
Deliver(s) ==
  /\ live
  /\ \E k \in 1..(sent[s] * PktLen - Len(recv[Other(s)])) :
       recv' = [recv EXCEPT ![Other(s)] = SubSeq(SentUnits(s, sent[s]), 1, Len(@) + k)]
  /\ UNCHANGED <<live, sent>>

Close ==
  /\ live
  /\ live' = FALSE
  /\ UNCHANGED <<sent, recv>>

Next == Open \/ Close \/ \E s \in Sides : Send(s) \/ Deliver(s)

Spec == Init /\ [][Next]_cvars

(* The session forwards whatever it holds while it lives. *)
FairSpec == Init /\ [][Next]_cvars /\ \A s \in Sides : WF_cvars(Deliver(s))
=============================================================================
