--------------------------- MODULE KexEcdhServer ---------------------------
(***************************************************************************)
(* The server side of the ECDH key exchange (src/ssh/kexecdhs.c) over the  *)
(* life of one connection: kexecdh_server installs the KEX_ECDH_INIT       *)
(* handler at every key exchange (the first one and each re-key), and      *)
(* input_kex_ecdh_init runs to completion when the packet arrives.        *)
(*                                                                         *)
(* The handler is one step.  Its control flow is a chain of checks, each   *)
(* of which may `goto out' with an error, followed by the `out:' epilogue  *)
(* that releases what was allocated.  The step at which the chain stops is *)
(* chosen among all of them: the inputs decide some (an unsupported KEX   *)
(* name, an undecodable or invalid client point), the environment the     *)
(* others (allocation and libcrypto failures, a failed send).  The        *)
(* exchange hash H of KEX number r is the model value r: the random       *)
(* KEXINIT cookies make the hashes of two exchanges differ.                *)
(***************************************************************************)
EXTENDS Naturals, Sequences

CONSTANTS
  MaxKex,     \* key exchanges on the connection (the first one and re-keys)
  Names,      \* KEX method names the negotiation may choose (kex->name)
  Curves,     \* the names kex_ecdh_name_to_nid maps to a curve
  NoId        \* kex->session_id == NULL

ASSUME MaxKexAssumption == MaxKex \in Nat \ {0}
ASSUME CurvesAssumption == Curves \subseteq Names
ASSUME NoIdAssumption == NoId \notin Nat

(***************************************************************************)
(* The checks of input_kex_ecdh_init in the order the code makes them.  A  *)
(* handler that stops at Steps[i] has completed Steps[1..i-1]; one that   *)
(* stops at Len(Steps) + 1 has succeeded.                                  *)
(***************************************************************************)
Steps == <<"name",      \* kex_ecdh_name_to_nid(kex->name) == -1
           "keynew",    \* EC_KEY_new_by_curve_name
           "keygen",    \* EC_KEY_generate_key
           "loaders",   \* load_host_public_key / load_host_private_key unset
           "hostkeys",  \* either loader returns NULL
           "pointnew",  \* EC_POINT_new
           "decode",    \* sshpkt_get_ec / sshpkt_get_end
           "validate",  \* sshkey_ec_validate_public: disconnect
           "kbuf",      \* malloc(klen)
           "bn",        \* BN_new
           "ecdh",      \* ECDH_compute_key / BN_bin2bn
           "blob",      \* sshkey_to_blob
           "hash",      \* kex_ecdh_hash
           "sidalloc",  \* malloc of kex->session_id
           "sign",      \* sshkey_sign: fatal()
           "send">>     \* sshpkt_start ... sshpkt_send

Done == Len(Steps) + 1

Pos(st) == CHOOSE i \in 1..Len(Steps) : Steps[i] = st

(* The heap objects of the handler and the check that allocates each. *)
Resources == {"server_key", "client_public", "kbuf", "shared_secret", "blob", "signature"}
AllocAt == [server_key |-> "keynew", client_public |-> "pointnew", kbuf |-> "kbuf",
            shared_secret |-> "bn", blob |-> "blob", signature |-> "sign"]

(***************************************************************************)
(* The `out:' epilogue.  Released: server_key (EC_KEY_free, which clears   *)
(* the private scalar), kbuf (bzero, then free), shared_secret            *)
(* (BN_clear_free), server_host_key_blob and signature (free).            *)
(* client_public is never released.                                        *)
(***************************************************************************)
ReleasedAtOut == {"server_key", "kbuf", "shared_secret", "blob", "signature"}

(* Environment failures: the checks that fail without an input causing it. *)
EnvFail == {"keynew", "keygen", "pointnew", "kbuf", "bn", "ecdh", "blob",
            "hash", "sidalloc", "sign", "send"}

(* What a KEX_ECDH_INIT may carry: a valid point, a point that decodes but *)
(* fails sshkey_ec_validate_public, or bytes sshpkt_get_ec rejects.        *)
Points == {"valid", "invalid", "garbled"}

VARIABLES
  phase,      \* "idle", "await_init", "done", "failed" or "dead" (fatal)
  round,      \* key exchanges started
  sessionId,  \* kex->session_id: NoId or the H it was copied from
  firstH,     \* history: the first exchange hash computed, or NoId
  keysWith,   \* history: <<r, sid>> when KEX r derived keys under session id sid
  live,       \* resources (with their round) allocated and not released
  msgs        \* messages sent by the handler and by kex_finish, in order

vars == <<phase, round, sessionId, firstH, keysWith, live, msgs>>

Rounds == 1..MaxKex
Msgs == {"REPLY", "DISCONNECT", "NEWKEYS"} \X Rounds

TypeOK ==
  /\ phase \in {"idle", "await_init", "done", "failed", "dead"}
  /\ round \in 0..MaxKex
  /\ sessionId \in Rounds \cup {NoId}
  /\ firstH \in Rounds \cup {NoId}
  /\ keysWith \subseteq Rounds \X Rounds
  /\ live \subseteq Resources \X Rounds
  /\ msgs \in Seq(Msgs)

Init ==
  /\ phase = "idle"
  /\ round = 0
  /\ sessionId = NoId
  /\ firstH = NoId
  /\ keysWith = {}
  /\ live = {}
  /\ msgs = <<>>

(***************************************************************************)
(* kexecdh_server: a key exchange (the first or a re-key) has chosen an    *)
(* ECDH method and installs the KEX_ECDH_INIT handler.  A re-key starts    *)
(* only once the previous exchange has finished.                           *)
(***************************************************************************)
kexecdh_server ==
  /\ phase \in {"idle", "done"}
  /\ round < MaxKex
  /\ phase' = "await_init"
  /\ round' = round + 1
  /\ UNCHANGED <<sessionId, firstH, keysWith, live, msgs>>

(***************************************************************************)
(* Whether check st of input_kex_ecdh_init fails, given the negotiated     *)
(* name, whether the host-key loaders are installed and find a key, the    *)
(* client's point, and the environment failure env (or "none").  The      *)
(* session_id allocation is attempted only while session_id is NULL.      *)
(***************************************************************************)
Fails(st, name, loaders, hostkey, point, env) ==
  CASE st = "name"     -> name \notin Curves
    [] st = "loaders"  -> ~loaders
    [] st = "hostkeys" -> ~hostkey
    [] st = "decode"   -> point = "garbled"
    [] st = "validate" -> point = "invalid"
    [] st = "sidalloc" -> env = st /\ sessionId = NoId
    [] OTHER           -> env = st

(* The handler leaves for `out:' at check i, the first that fails (i is  *)
(* Done if none does).                                                     *)
StopsAt(i, name, loaders, hostkey, point, env) ==
  /\ i < Done => Fails(Steps[i], name, loaders, hostkey, point, env)
  /\ \A j \in 1..(i - 1) : ~Fails(Steps[j], name, loaders, hostkey, point, env)

(* Check st was passed by a handler that stopped at check stop. *)
Passed(st, stop) == Pos(st) < stop

(***************************************************************************)
(* "save session id := H": kex->session_id is set from the hash of this    *)
(* KEX only while it is still NULL, and only if the malloc succeeded.     *)
(***************************************************************************)
NewSessionIdAlways(stop) == IF Passed("sidalloc", stop) THEN round ELSE sessionId

NewSessionId(stop) ==
  IF sessionId = NoId /\ Passed("sidalloc", stop) THEN round ELSE sessionId

(* The DISCONNECT sent when the client's point fails validation. *)
DisconnectSent(stop) ==
  IF stop = Pos("validate") THEN <<<<"DISCONNECT", round>>>> ELSE <<>>

(* On success the REPLY, followed by kex_finish's NEWKEYS when that send  *)
(* succeeds (kex_finish's result is ignored).                              *)
ReplySent(stop, finishOk) ==
  IF stop = Done
  THEN <<<<"REPLY", round>>>> \o (IF finishOk THEN <<<<"NEWKEYS", round>>>> ELSE <<>>)
  ELSE <<>>

(* What one run of the handler sends: at most one of the two. *)
Sent(stop, finishOk) == DisconnectSent(stop) \o ReplySent(stop, finishOk)

(***************************************************************************)
(* input_kex_ecdh_init, from the first check to the `out:' epilogue, with  *)
(* the calls to kex_derive_keys and kex_finish whose results the code     *)
(* ignores (deriveOk, finishOk).  A failed sshkey_sign is fatal(): the    *)
(* process exits without running the epilogue.  Any other error is       *)
(* returned to the dispatcher, which ends the connection.                 *)
(***************************************************************************)
input_kex_ecdh_init(name, loaders, hostkey, point, env, deriveOk, finishOk) ==
  \E stop \in 1..Done :
    LET alloc == {x \in Resources : Passed(AllocAt[x], stop)}
        fatal == stop = Pos("sign")
    IN
    /\ StopsAt(stop, name, loaders, hostkey, point, env)
    /\ phase = "await_init"
    /\ phase' = CASE fatal -> "dead" [] stop = Done -> "done" [] OTHER -> "failed"
    /\ sessionId' = NewSessionId(stop)
    /\ firstH' = IF Passed("hash", stop) /\ firstH = NoId THEN round ELSE firstH
    /\ keysWith' = IF stop = Done /\ deriveOk
                     THEN keysWith \cup {<<round, sessionId'>>} ELSE keysWith
    /\ live' = live \cup ((IF fatal THEN alloc ELSE alloc \ ReleasedAtOut) \X {round})
    /\ msgs' = msgs \o Sent(stop, finishOk)
    /\ UNCHANGED round

(* The connection has ended, or has made all the exchanges of the bound. *)
Stopped ==
  /\ \/ phase \in {"failed", "dead"}
     \/ phase = "done" /\ round = MaxKex
  /\ UNCHANGED vars

Next ==
  \/ kexecdh_server
  \/ \E name \in Names, loaders, hostkey \in BOOLEAN, point \in Points,
        env \in EnvFail \cup {"none"}, deriveOk, finishOk \in BOOLEAN :
       input_kex_ecdh_init(name, loaders, hostkey, point, env, deriveOk, finishOk)
  \/ Stopped

Spec == Init /\ [][Next]_vars

-----------------------------------------------------------------------------
(***************************************************************************)
(* Session-id binding (input_kex_ecdh_init, "save session id := H", and    *)
(* the kex_derive_keys call): once set, kex->session_id is the first       *)
(* exchange hash of the connection, and every exchange, re-keys included, *)
(* derived its keys under that same session id.                            *)
(***************************************************************************)
SessionIdBinding ==
  /\ sessionId # NoId => sessionId = firstH
  /\ \A k \in keysWith : k[2] = firstH

(***************************************************************************)
(* The handler releases every object it allocates on every path that      *)
(* returns (only the fatal sshkey_sign path keeps the current exchange's   *)
(* objects, the process being about to exit).                              *)
(***************************************************************************)
HandlerReleasesAll ==
  \A l \in live : phase = "dead" /\ l[2] = round

(***************************************************************************)
(* A key exchange the handler reports successful (it returns 0) has        *)
(* derived its keys and sent NEWKEYS, as spec section 4.4 steps 7-8        *)
(* require before the exchange is considered done.                         *)
(***************************************************************************)
FinishedKexHasKeys ==
  phase = "done" =>
    /\ <<round, sessionId>> \in keysWith
    /\ \E i \in 1..Len(msgs) : msgs[i] = <<"NEWKEYS", round>>

=============================================================================
