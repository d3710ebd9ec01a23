------------------------------ MODULE Keysign ------------------------------
(***************************************************************************)
(* ssh-keysign (src/ssh/ssh-keysign.c): the set-uid helper that signs one  *)
(* host-based authentication request with a host key.  main() runs one    *)
(* straight line of steps, each of which may end the process through      *)
(* fatal(); valid_request() decodes the signed data and counts the checks  *)
(* that fail.                                                              *)
(*                                                                         *)
(* A request is a record of its fields.  Strings the checks compare are    *)
(* model values, except the client host name, which is a sequence of      *)
(* characters because the code checks its length, its last character and *)
(* a case-insensitive prefix.  A key is <<type, identity>>.               *)
(***************************************************************************)
EXTENDS Integers, Sequences

CONSTANTS
  Requests,     \* the requests the caller may write on stdin
  LocalName,    \* get_local_name(fd) of a socket: a sequence of characters
  SocketFds,    \* descriptor numbers that are sockets get_local_name resolves
  PwName,       \* pw->pw_name of the invoking user
  NoRequest,    \* req before a request is read
  NoReply,      \* out before a reply is written
  KeyFileSets,  \* which of the host key files open() may succeed on
  SizeBits,     \* width of size_t
  U32Bits       \* width of u_int32_t and int

ASSUME SizeBitsAssumption == SizeBits \in Nat \ {0}
ASSUME U32BitsAssumption == U32Bits \in Nat \ {0}

(* The lengths valid_request compares are size_t values: len, from       *)
(* sshbuf_get_cstring, is at most SIZE_MAX, and strlen(host) is at most    *)
(* SIZE_MAX - 1, host being a NUL-terminated object in memory.            *)
(* The descriptor number is read with sshbuf_get_u32 (line 236).           *)
ASSUME LocalNameAssumption ==
  LocalName \in Seq(STRING) /\ Len(LocalName) + 1 < 2^SizeBits
ASSUME RequestsAssumption ==
  \A r \in Requests :
    /\ r.chost \in Seq(STRING) /\ Len(r.chost) < 2^SizeBits
    /\ r.fd \in 0..(2^U32Bits - 1)

(* The host key files in the order main() opens them (NUM_KEYTYPES = 3).   *)
KeyTypes == <<"dsa", "ecdsa", "rsa">>
NumKeyTypes == Len(KeyTypes)

(* open() is tried on the NUM_KEYTYPES key files, key_fd[0..2] (177-179). *)
ASSUME KeyFileSetsAssumption == KeyFileSets \subseteq SUBSET (1..NumKeyTypes)
HostKey(i) == <<KeyTypes[i], "host">>

(* A key blob sshkey_from_blob cannot parse. *)
BadBlob == <<"none", "none">>

(* Case folding as strncasecmp does it, on the characters of the model.    *)
Lower(c) == CASE c = "A" -> "a" [] c = "B" -> "b" [] OTHER -> c

SSH2_MSG_USERAUTH_REQUEST == 50
Version == 2

(***************************************************************************)
(* The pubkey checks of valid_request (lines 104-118): a known algorithm    *)
(* name, a blob sshkey_from_blob parses, a key of that type.               *)
(***************************************************************************)
PubkeyFails(r) ==
  LET pktype == IF r.pkalg \in {KeyTypes[i] : i \in 1..NumKeyTypes} THEN r.pkalg
                                                                 ELSE "unspec"
  IN  CASE pktype = "unspec"    -> 1
        [] r.blob = BadBlob     -> 1
        [] r.blob[1] # pktype   -> 1
        [] OTHER                -> 0

(***************************************************************************)
(* The client host name check (lines 120-130).  len is the length         *)
(* sshbuf_get_cstring returns, len - 1 is computed in size_t, and p[len-1] *)
(* is the last character.                                                  *)
(***************************************************************************)
HostFailsNoDot(host, r) ==
  LET len == Len(r.chost) IN
  CASE Len(host) # (len - 1) % (2^SizeBits) -> 1
    [] \E i \in 1..(len - 1) : Lower(host[i]) # Lower(r.chost[i]) -> 1
    [] OTHER -> 0

HostFails(host, r) ==
  LET len == Len(r.chost) IN
  CASE Len(host) # (len - 1) % (2^SizeBits) -> 1
    [] r.chost[len] # "." -> 1
    [] \E i \in 1..(len - 1) : Lower(host[i]) # Lower(r.chost[i]) -> 1
    [] OTHER -> 0

(***************************************************************************)
(* The number of checks of valid_request that fail (lines 69-142).  A      *)
(* request whose decoding runs out of bytes never gets here: every        *)
(* sshbuf_get of the function is fatal().                                  *)
(***************************************************************************)
FailCount(host, r) ==
    (IF r.sidLen \in {20, 32} THEN 0 ELSE 1)
  + (IF r.type = SSH2_MSG_USERAUTH_REQUEST THEN 0 ELSE 1)
  + (IF r.service = "ssh-connection" THEN 0 ELSE 1)
  + (IF r.method = "hostbased" THEN 0 ELSE 1)
  + PubkeyFails(r)
  + HostFails(host, r)
  + (IF r.luser = PwName THEN 0 ELSE 1)
  + (IF r.rest = "none" THEN 0 ELSE 1)

(* valid_request's result: 0 when no check failed, -1 otherwise. *)
valid_request(host, r) == IF FailCount(host, r) = 0 THEN 0 ELSE -1

(* The descriptor number read with sshbuf_get_u32 into an int. *)
AsInt(u) == IF u >= 2^(U32Bits - 1) THEN u - 2^U32Bits ELSE u

(* get_local_name(fd): the local host name when fd is a socket. *)
get_local_name(fd) == IF fd \in SocketFds THEN LocalName ELSE <<>>

VARIABLES
  pc,         \* the step of main() the process is at, "done" or "fatal"
  uid,        \* "root" until permanently_set_uid, then "user"
  enabled,    \* options.enable_ssh_keysign as read from ssh_config
  keyFd,      \* indices of the host key files that are open
  keys,       \* indices i with keys[i] # NULL
  loadedAs,   \* history: the uid the host keys were loaded under
  req,        \* the request read from stdin, or NoRequest
  fatalAt,    \* the step whose fatal() ended the process, or "none"
  out         \* the reply written to stdout: NoReply or <<key, signed data>>

vars == <<pc, uid, enabled, keyFd, keys, loadedAs, req, fatalAt, out>>

TypeOK ==
  /\ pc \in {"start", "opened", "dropped", "enabled", "loaded", "read", "valid",
             "done", "fatal"}
  /\ uid \in {"root", "user"}
  /\ enabled \in BOOLEAN
  /\ keyFd \subseteq 1..NumKeyTypes
  /\ keys \subseteq 1..NumKeyTypes
  /\ loadedAs \in {"none", "root", "user"}
  /\ req \in Requests \cup {NoRequest}
  /\ out = NoReply \/ out \in {HostKey(i) : i \in 1..NumKeyTypes} \X Requests

Init ==
  /\ pc = "start"
  /\ uid = "root"
  /\ enabled = FALSE
  /\ keyFd = {}
  /\ keys = {}
  /\ loadedAs = "none"
  /\ req = NoRequest
  /\ fatalAt = "none"
  /\ out = NoReply

(* fatal(): the process exits at step st. *)
Fatal(st) ==
  /\ pc' = "fatal"
  /\ fatalAt' = st

(***************************************************************************)
(* Lines 169-179: /dev/null is opened to make sure descriptors 0-2 exist,  *)
(* then the three host key files are opened while still privileged.       *)
(***************************************************************************)
OpenKeys ==
  /\ pc = "start"
  /\ \E opened \in KeyFileSets : keyFd' = opened
  /\ pc' = "opened"
  /\ UNCHANGED <<uid, enabled, keys, loadedAs, req, fatalAt, out>>

(* Lines 181-186: getpwuid, then permanently_set_uid drops privileges. *)
DropPrivileges ==
  /\ pc = "opened"
  /\ \/ /\ uid' = "user"
        /\ pc' = "dropped"
        /\ UNCHANGED fatalAt
     \/ /\ Fatal("getpwuid")
        /\ UNCHANGED uid
  /\ UNCHANGED <<enabled, keyFd, keys, loadedAs, req, out>>

(***************************************************************************)
(* Lines 193-205: read ssh_config (the file may enable the helper or not)  *)
(* and refuse to run unless it is enabled and a key file is open.         *)
(***************************************************************************)
CheckEnabled ==
  /\ pc = "dropped"
  /\ \E e \in BOOLEAN :
       /\ enabled' = e
       /\ CASE ~e -> Fatal("disabled")
            [] keyFd = {} -> Fatal("nokeyfile")
            [] OTHER -> pc' = "enabled" /\ UNCHANGED fatalAt
  /\ UNCHANGED <<uid, keyFd, keys, loadedAs, req, out>>

(***************************************************************************)
(* Lines 207-226: sshkey_load_private_pem on each open descriptor (any of  *)
(* them may fail), which is then closed; at least one key must load.       *)
(***************************************************************************)
LoadKeys ==
  /\ pc = "enabled"
  /\ \E loaded \in SUBSET keyFd :
       /\ keys' = loaded
       /\ IF loaded # {} THEN pc' = "loaded" /\ UNCHANGED fatalAt
                          ELSE Fatal("nohostkey")
  /\ keyFd' = {}
  /\ loadedAs' = uid
  /\ UNCHANGED <<uid, enabled, req, out>>

(***************************************************************************)
(* Lines 228-241: ssh_msg_recv of the request, the version byte, the      *)
(* descriptor number (a u_int32 stored into an int) and its local name.    *)
(***************************************************************************)
ReadRequest ==
  /\ pc = "loaded"
  /\ \E r \in Requests :
       /\ req' = r
       /\ CASE r.version # Version -> Fatal("version")
            [] AsInt(r.fd) < 0 \/ AsInt(r.fd) \in {0, 1} -> Fatal("fd")
            [] get_local_name(AsInt(r.fd)) = <<>> -> Fatal("localname")
            [] OTHER -> pc' = "read" /\ UNCHANGED fatalAt
  /\ UNCHANGED <<uid, enabled, keyFd, keys, loadedAs, out>>

(* Lines 243-247: the signed data, checked by valid_request. *)
Validate ==
  /\ pc = "read"
  /\ CASE req.rest = "short" -> Fatal("buffer")
       [] valid_request(get_local_name(AsInt(req.fd)), req) < 0 -> Fatal("validate")
       [] OTHER -> pc' = "valid" /\ UNCHANGED fatalAt
  /\ UNCHANGED <<uid, enabled, keyFd, keys, loadedAs, req, out>>

(***************************************************************************)
(* Lines 249-258: the first loaded host key equal to the request's key.    *)
(***************************************************************************)
MatchAnyLoaded(key) ==
  {i \in keys : \A j \in keys : j >= i}

MatchingKey(key) ==
  {i \in keys : HostKey(i) = key /\ \A j \in keys : j < i => HostKey(j) # key}

(***************************************************************************)
(* Lines 249-271: select the key, sign the whole signed data with it, and  *)
(* write the reply; sshkey_sign and ssh_msg_send may fail, fatally.        *)
(***************************************************************************)
SignAndReply ==
  /\ pc = "valid"
  /\ IF MatchingKey(req.blob) = {}
       THEN Fatal("nomatch") /\ UNCHANGED out
       ELSE \E i \in MatchingKey(req.blob) :
              \/ Fatal("sign") /\ UNCHANGED out
              \/ Fatal("send") /\ UNCHANGED out
              \/ /\ out' = <<HostKey(i), req>>
                 /\ pc' = "done"
                 /\ UNCHANGED fatalAt
  /\ UNCHANGED <<uid, enabled, keyFd, keys, loadedAs, req>>

(* The process has exited. *)
Exited ==
  /\ pc \in {"done", "fatal"}
  /\ UNCHANGED vars

Next ==
  \/ OpenKeys \/ DropPrivileges \/ CheckEnabled \/ LoadKeys
  \/ ReadRequest \/ Validate \/ SignAndReply \/ Exited

Spec == Init /\ [][Next]_vars
-----------------------------------------------------------------------------
(***************************************************************************)
(* The request conditions of spec section 4.7, stated directly: the       *)
(* session id is 20 or 32 bytes, the message a hostbased USERAUTH_REQUEST  *)
(* for ssh-connection, the key algorithm a known type that is the type of *)
(* the key blob, the client host the local name (in any case) followed by *)
(* ".", the local user the invoking user, and nothing after it.           *)
(***************************************************************************)
SpecValid(host, r) ==
  /\ r.sidLen \in {20, 32}
  /\ r.type = SSH2_MSG_USERAUTH_REQUEST
  /\ r.service = "ssh-connection"
  /\ r.method = "hostbased"
  /\ r.blob # BadBlob
  /\ r.pkalg \in {KeyTypes[i] : i \in 1..NumKeyTypes}
  /\ r.blob[1] = r.pkalg
  /\ Len(r.chost) = Len(host) + 1
  /\ r.chost[Len(r.chost)] = "."
  /\ \A i \in 1..Len(host) : Lower(r.chost[i]) = Lower(host[i])
  /\ r.luser = PwName
  /\ r.rest = "none"

(***************************************************************************)
(* valid_request (fail counting, the size_t length arithmetic of the host  *)
(* name check, the nested pubkey checks) accepts exactly the requests the *)
(* spec's list accepts: a request that got past it satisfies the list,    *)
(* and one it rejected does not.                                           *)
(***************************************************************************)
ValidatorMatchesSpec ==
  LET host == get_local_name(AsInt(req.fd)) IN
  /\ pc \in {"valid", "done"} \/ fatalAt \in {"nomatch", "sign", "send"}
       => SpecValid(host, req)
  /\ fatalAt = "validate" => ~SpecValid(host, req)

(***************************************************************************)
(* The helper writes a signature only when it is enabled, has dropped its  *)
(* privileges, has read a version-2 request naming a socket, the request   *)
(* is valid, and the signature is made with a loaded host key equal to the *)
(* key in the request, over that request's signed data (lines 186-271).   *)
(***************************************************************************)
SignsOnlyValid ==
  out # NoReply =>
    /\ enabled /\ uid = "user"
    /\ out[2] = req
    /\ req.version = Version /\ AsInt(req.fd) \in SocketFds \ {0, 1}
    /\ SpecValid(get_local_name(AsInt(req.fd)), req)
    /\ out[1] = req.blob
    /\ \E i \in keys : HostKey(i) = out[1]

(***************************************************************************)
(* Spec section 5: the helper drops its privileges "immediately after      *)
(* loading the host keys": the keys are loaded while still root.           *)
(***************************************************************************)
KeysLoadedPrivileged == loadedAs # "user"

=============================================================================
