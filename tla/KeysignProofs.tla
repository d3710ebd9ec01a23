---------------------------- MODULE KeysignProofs ---------------------------
(***************************************************************************)
(* Proofs about Keysign for every set of requests, socket descriptors,     *)
(* local host name and integer widths.                                     *)
(***************************************************************************)
EXTENDS Keysign, SequenceTheorems, TLAPS

USE SizeBitsAssumption, LocalNameAssumption, RequestsAssumption, KeyFileSetsAssumption

-----------------------------------------------------------------------------
(***************************************************************************)
(* valid_request's checks, one at a time, against the spec's conditions.  *)
(***************************************************************************)

(* The pubkey checks fail nothing exactly when the algorithm is a known   *)
(* key type and the blob parses to a key of that type.                     *)
LEMMA PubkeyChecks ==
  ASSUME NEW r
  PROVE  /\ PubkeyFails(r) \in {0, 1}
         /\ PubkeyFails(r) = 0 <=>
              /\ r.blob # BadBlob
              /\ r.pkalg \in {KeyTypes[i] : i \in 1..NumKeyTypes}
              /\ r.blob[1] = r.pkalg
<1>1. {KeyTypes[i] : i \in 1..NumKeyTypes} = {"dsa", "ecdsa", "rsa"}
  BY DEF KeyTypes, NumKeyTypes
<1>2. "unspec" \notin {KeyTypes[i] : i \in 1..NumKeyTypes}
  BY <1>1
<1>3. QED BY <1>2 DEF PubkeyFails

(* The size_t subtraction len - 1 wraps only for len = 0, and then gives  *)
(* SIZE_MAX, which no strlen(host) equals.                                 *)
LEMMA LengthCheck ==
  ASSUME NEW h \in Nat, NEW len \in Nat, NEW N \in Nat,
         h + 1 < N, len < N
  PROVE  h = (len - 1) % N <=> len = h + 1
<1>1. CASE len = 0
  <2>1. (len - 1) % N = N - 1
    BY <1>1
  <2>2. QED BY <1>1, <2>1
<1>2. CASE len # 0
  <2>1. (len - 1) % N = len - 1
    BY <1>2
  <2>2. QED BY <1>2, <2>1
<1>3. QED BY <1>1, <1>2

(* The client host name check fails nothing exactly when the name is the   *)
(* local host name, in any case, followed by a dot.                        *)
LEMMA HostCheck ==
  ASSUME NEW host \in {LocalName, <<>>}, NEW r \in Requests
  PROVE  /\ HostFails(host, r) \in {0, 1}
         /\ HostFails(host, r) = 0 <=>
              /\ Len(r.chost) = Len(host) + 1
              /\ r.chost[Len(r.chost)] = "."
              /\ \A i \in 1..Len(host) : Lower(r.chost[i]) = Lower(host[i])
<1>1. host \in Seq(STRING) /\ r.chost \in Seq(STRING)
  BY EmptySeq
<1>2. PICK h \in Nat : h = Len(host)
  BY <1>1, LenProperties, Zenon
<1>3. PICK len \in Nat : len = Len(r.chost)
  BY <1>1, LenProperties, Zenon
<1>4. PICK N \in Nat : N = 2^SizeBits
  BY SizeBitsAssumption
<1>5. h = (len - 1) % N <=> len = h + 1
  <2>1. h + 1 < N /\ len < N
    BY <1>2, <1>3, <1>4
  <2>2. QED BY <2>1, LengthCheck
<1>6. CASE len = h + 1
  <2>1. HostFails(host, r) =
          IF \/ r.chost[len] # "."
             \/ \E i \in 1..(len - 1) : Lower(host[i]) # Lower(r.chost[i])
          THEN 1 ELSE 0
    BY <1>2, <1>3, <1>4, <1>5, <1>6 DEF HostFails
  <2>2. 1..(len - 1) = 1..h
    BY <1>6
  <2>3. QED BY <1>2, <1>3, <1>6, <2>1, <2>2
<1>7. CASE len # h + 1
  <2>1. HostFails(host, r) = 1
    BY <1>2, <1>3, <1>4, <1>5, <1>7 DEF HostFails
  <2>2. QED BY <1>2, <1>3, <1>7, <2>1
<1>8. QED BY <1>6, <1>7

(* valid_request returns 0 exactly for the requests spec section 4.7       *)
(* accepts: counting failures, wrapping len - 1 and nesting the pubkey      *)
(* checks lose no condition and add none.                                  *)
LEMMA ValidRequestSpec ==
  ASSUME NEW host \in {LocalName, <<>>}, NEW r \in Requests
  PROVE  valid_request(host, r) = 0 <=> SpecValid(host, r)
<1>1. PICK p \in {0, 1} : p = PubkeyFails(r)
  BY PubkeyChecks
<1>2. PICK q \in {0, 1} : q = HostFails(host, r)
  BY HostCheck
<1>3. PICK a1 \in {0, 1} : a1 = IF r.sidLen \in {20, 32} THEN 0 ELSE 1
  OBVIOUS
<1>4. PICK a2 \in {0, 1} : a2 = IF r.type = SSH2_MSG_USERAUTH_REQUEST THEN 0 ELSE 1
  OBVIOUS
<1>5. PICK a3 \in {0, 1} : a3 = IF r.service = "ssh-connection" THEN 0 ELSE 1
  OBVIOUS
<1>6. PICK a4 \in {0, 1} : a4 = IF r.method = "hostbased" THEN 0 ELSE 1
  OBVIOUS
<1>7. PICK a5 \in {0, 1} : a5 = IF r.luser = PwName THEN 0 ELSE 1
  OBVIOUS
<1>8. PICK a6 \in {0, 1} : a6 = IF r.rest = "none" THEN 0 ELSE 1
  OBVIOUS
<1>9. FailCount(host, r) = a1 + a2 + a3 + a4 + p + q + a5 + a6
  BY <1>1, <1>2, <1>3, <1>4, <1>5, <1>6, <1>7, <1>8 DEF FailCount
<1>10. FailCount(host, r) = 0 <=>
         a1 = 0 /\ a2 = 0 /\ a3 = 0 /\ a4 = 0 /\ p = 0 /\ q = 0 /\ a5 = 0 /\ a6 = 0
  BY <1>9
<1>11. valid_request(host, r) = 0 <=> FailCount(host, r) = 0
  BY DEF valid_request
<1>12. /\ a1 = 0 <=> r.sidLen \in {20, 32}
       /\ a2 = 0 <=> r.type = SSH2_MSG_USERAUTH_REQUEST
       /\ a3 = 0 <=> r.service = "ssh-connection"
       /\ a4 = 0 <=> r.method = "hostbased"
       /\ a5 = 0 <=> r.luser = PwName
       /\ a6 = 0 <=> r.rest = "none"
  BY <1>3, <1>4, <1>5, <1>6, <1>7, <1>8
<1>13. p = 0 <=> /\ r.blob # BadBlob
                 /\ r.pkalg \in {KeyTypes[i] : i \in 1..NumKeyTypes}
                 /\ r.blob[1] = r.pkalg
  BY <1>1, PubkeyChecks
<1>14. q = 0 <=> /\ Len(r.chost) = Len(host) + 1
                 /\ r.chost[Len(r.chost)] = "."
                 /\ \A i \in 1..Len(host) : Lower(r.chost[i]) = Lower(host[i])
  BY <1>2, HostCheck
<1>15. QED BY <1>10, <1>11, <1>12, <1>13, <1>14, Zenon DEF SpecValid

(* The name valid_request is given: get_local_name of the request's fd. *)
Host == get_local_name(AsInt(req.fd))

(***************************************************************************)
(* SignsOnlyValid and ValidatorMatchesSpec are not inductive by themselves: *)
(* a step must know what main() established at the steps before it.  KInv *)
(* records it: fatalAt is set only by the fatal() that ends the process,  *)
(* the helper is root until the drop and the user after it, and enabled   *)
(* from the configuration check on; a request that got past ReadRequest   *)
(* is a version-2 one naming a socket, one that got past Validate has     *)
(* valid_request 0, one refused by it -1; and a reply is the request      *)
(* signed with a loaded host key equal to its key.                        *)
(***************************************************************************)
KInv ==
  /\ pc \in {"start", "opened", "dropped", "enabled", "loaded", "read", "valid",
             "done", "fatal"}
  /\ pc # "fatal" => fatalAt = "none"
  /\ keyFd \subseteq 1..NumKeyTypes /\ keys \subseteq 1..NumKeyTypes
  /\ pc \in {"start", "opened"} => uid = "root"
  /\ pc \in {"dropped", "enabled", "loaded", "read", "valid", "done"} => uid = "user"
  /\ pc \in {"enabled", "loaded", "read", "valid", "done"} => enabled
  /\ pc \in {"read", "valid", "done"} \/ fatalAt \in {"buffer", "validate", "nomatch", "sign", "send"} =>
       /\ req \in Requests /\ req.version = Version
       /\ AsInt(req.fd) \in SocketFds \ {0, 1} /\ AsInt(req.fd) >= 0
       /\ Host # <<>>
  /\ pc \in {"valid", "done"} \/ fatalAt \in {"nomatch", "sign", "send"} =>
       valid_request(Host, req) = 0
  /\ fatalAt = "validate" => valid_request(Host, req) # 0
  /\ out # NoReply =>
       /\ pc = "done" /\ out[2] = req /\ out[1] = req.blob
       /\ \E i \in keys : HostKey(i) = out[1]
-----------------------------------------------------------------------------
LEMMA HostIsLocalName == Host \in {LocalName, <<>>}
BY DEF Host, get_local_name

LEMMA InitKInv == Init => KInv
BY DEF Init, KInv

(* The steps up to loading the keys: each ends in fatal() or moves on,   *)
(* dropping privileges and checking the configuration on the way.         *)
LEMMA SetupStep ==
  ASSUME KInv, OpenKeys \/ DropPrivileges \/ CheckEnabled \/ LoadKeys
  PROVE  KInv'
<1>1. CASE OpenKeys
  <2>1. keyFd' \in KeyFileSets
    BY <1>1 DEF OpenKeys
  <2>2. QED BY <1>1, <2>1 DEF OpenKeys, KInv
<1>2. CASE DropPrivileges
  BY <1>2 DEF DropPrivileges, Fatal, KInv
<1>3. CASE CheckEnabled
  <2>1. pc = "dropped" /\ UNCHANGED <<uid, keyFd, keys, req, out>>
    BY <1>3 DEF CheckEnabled
  <2>2. \/ Fatal("disabled") \/ Fatal("nokeyfile")
        \/ enabled' /\ pc' = "enabled" /\ fatalAt' = fatalAt
    BY <1>3 DEF CheckEnabled
  <2>3. QED BY <2>1, <2>2 DEF Fatal, KInv
<1>4. CASE LoadKeys
  <2>1. pc = "enabled" /\ UNCHANGED <<uid, enabled, req, out>>
    BY <1>4 DEF LoadKeys
  <2>4. keyFd' = {} /\ keys' \subseteq keyFd
    BY <1>4 DEF LoadKeys
  <2>2. \/ pc' = "loaded" /\ fatalAt' = fatalAt
        \/ Fatal("nohostkey")
    BY <1>4 DEF LoadKeys
  <2>3. QED BY <2>1, <2>2, <2>4 DEF Fatal, KInv
<1>5. QED BY <1>1, <1>2, <1>3, <1>4

(* ReadRequest: a request gets past the outer checks only when it is a   *)
(* version-2 message whose descriptor is a socket other than 0 and 1.    *)
LEMMA ReadStep ==
  ASSUME KInv, ReadRequest
  PROVE  KInv'
<1>1. pc = "loaded" /\ UNCHANGED <<uid, enabled, keyFd, keys, out>>
  BY DEF ReadRequest
<1>2. PICK r \in Requests :
        /\ req' = r
        /\ \/ Fatal("version") \/ Fatal("fd") \/ Fatal("localname")
           \/ /\ r.version = Version
              /\ ~(AsInt(r.fd) < 0 \/ AsInt(r.fd) \in {0, 1})
              /\ get_local_name(AsInt(r.fd)) # <<>>
              /\ pc' = "read" /\ fatalAt' = fatalAt
  BY DEF ReadRequest
<1>3. CASE Fatal("version") \/ Fatal("fd") \/ Fatal("localname")
  BY <1>1, <1>3 DEF Fatal, KInv
<1>4. CASE /\ r.version = Version
           /\ ~(AsInt(r.fd) < 0 \/ AsInt(r.fd) \in {0, 1})
           /\ get_local_name(AsInt(r.fd)) # <<>>
           /\ pc' = "read" /\ fatalAt' = fatalAt
  <2>1. AsInt(r.fd) \in SocketFds /\ Host' # <<>>
    BY <1>2, <1>4 DEF get_local_name, Host
  <2>0. AsInt(r.fd) \in Int
    <3>1. r.fd \in Int /\ 2^U32Bits \in Int
      BY U32BitsAssumption
    <3>2. QED BY <3>1 DEF AsInt
  <2>2. AsInt(r.fd) >= 0 /\ AsInt(r.fd) \notin {0, 1}
    BY <1>4, <2>0
  <2>3. QED BY <1>1, <1>2, <1>4, <2>1, <2>2 DEF KInv
<1>5. QED BY <1>2, <1>3, <1>4

(* Validate: the request goes on only when valid_request returns 0, and  *)
(* the fatal() of a refused request follows a result below 0.             *)
LEMMA ValidateStep ==
  ASSUME KInv, Validate
  PROVE  KInv'
<1>1. pc = "read" /\ UNCHANGED <<uid, enabled, keyFd, keys, req, out>>
  BY DEF Validate
<1>2. valid_request(Host, req) \in {0, -1}
  BY DEF valid_request
<1>3. \/ Fatal("buffer")
      \/ Fatal("validate") /\ valid_request(Host, req) < 0
      \/ pc' = "valid" /\ fatalAt' = fatalAt /\ ~(valid_request(Host, req) < 0)
  BY DEF Validate, Host
<1>4. QED BY <1>1, <1>2, <1>3 DEF Fatal, KInv, Host

(* SignAndReply: the reply pairs the request with a loaded host key equal *)
(* to the request's key.                                                   *)
LEMMA SignStep ==
  ASSUME KInv, SignAndReply
  PROVE  KInv'
<1>1. pc = "valid" /\ out = NoReply /\ UNCHANGED <<uid, enabled, keyFd, keys, req>>
  BY DEF SignAndReply, KInv
<1>2. \/ (Fatal("nomatch") \/ Fatal("sign") \/ Fatal("send")) /\ UNCHANGED out
      \/ \E i \in MatchingKey(req.blob) : out' = <<HostKey(i), req>> /\ pc' = "done"
  BY DEF SignAndReply
<1>3. CASE (Fatal("nomatch") \/ Fatal("sign") \/ Fatal("send")) /\ UNCHANGED out
  BY <1>1, <1>3 DEF Fatal, KInv, Host
<1>4. CASE \E i \in MatchingKey(req.blob) : out' = <<HostKey(i), req>> /\ pc' = "done"
  <2>1. PICK i \in MatchingKey(req.blob) : out' = <<HostKey(i), req>> /\ pc' = "done"
    BY <1>4
  <2>2. i \in keys /\ HostKey(i) = req.blob
    BY DEF MatchingKey
  <2>3. fatalAt' = fatalAt
    BY <2>1 DEF SignAndReply, Fatal
  <2>4. out'[2] = req' /\ out'[1] = req'.blob
    BY <1>1, <2>1, <2>2
  <2>6. \E j \in keys' : HostKey(j) = out'[1]
    BY <1>1, <2>1, <2>2
  <2>5. QED BY <1>1, <2>1, <2>3, <2>4, <2>6 DEF KInv, Host
<1>5. QED BY <1>2, <1>3, <1>4

LEMMA KInvStep == KInv /\ [Next]_vars => KInv'
<1> SUFFICES ASSUME KInv, [Next]_vars PROVE KInv'
  OBVIOUS
<1>1. CASE Exited \/ UNCHANGED vars
  BY <1>1 DEF Exited, vars, KInv, Host
<1>2. QED BY <1>1, SetupStep, ReadStep, ValidateStep, SignStep DEF Next

(***************************************************************************)
(* For every set of requests, socket descriptors, local name and integer  *)
(* widths in which lengths fit a size_t: a request ssh-keysign's          *)
(* valid_request (69-142) let through satisfies every condition of spec   *)
(* section 4.7, and one it refused breaks at least one.                   *)
(***************************************************************************)
THEOREM ValidatorSafe == Spec => []ValidatorMatchesSpec
<1>1. KInv => ValidatorMatchesSpec
  <2> SUFFICES ASSUME KInv PROVE ValidatorMatchesSpec
    OBVIOUS
  <2>1. pc \in {"valid", "done"} \/ fatalAt \in {"nomatch", "sign", "send"} =>
          SpecValid(Host, req)
    BY HostIsLocalName, ValidRequestSpec DEF KInv
  <2>2. fatalAt = "validate" => ~SpecValid(Host, req)
    BY HostIsLocalName, ValidRequestSpec DEF KInv
  <2>3. QED BY <2>1, <2>2 DEF ValidatorMatchesSpec, Host
<1>2. QED BY <1>1, InitKInv, KInvStep, PTL DEF Spec

(***************************************************************************)
(* For every such configuration: ssh-keysign writes a signature (line 268) *)
(* only when enabled, after dropping privileges, for a version-2 request  *)
(* naming a socket that valid_request accepted, with a loaded host key    *)
(* equal to the request's key and over that request.                      *)
(***************************************************************************)
THEOREM SignsOnlyValidSafe == Spec => []SignsOnlyValid
<1>1. KInv => SignsOnlyValid
  <2> SUFFICES ASSUME KInv, out # NoReply PROVE SignsOnlyValid
    BY DEF SignsOnlyValid
  <2>1. pc = "done" /\ enabled /\ uid = "user"
    BY DEF KInv
  <2>2. req \in Requests /\ req.version = Version /\ AsInt(req.fd) \in SocketFds \ {0, 1}
    BY <2>1 DEF KInv
  <2>3. SpecValid(Host, req)
    BY <2>1, <2>2, HostIsLocalName, ValidRequestSpec DEF KInv
  <2>4. out[2] = req /\ out[1] = req.blob /\ \E i \in keys : HostKey(i) = out[1]
    BY DEF KInv
  <2>5. QED BY <2>1, <2>2, <2>3, <2>4 DEF SignsOnlyValid, Host
<1>2. QED BY <1>1, InitKInv, KInvStep, PTL DEF Spec
=============================================================================
