# Verification of the libopenssh core: TLA+ models, TLC runs and TLAPS proofs

This directory holds a TLA+ development for the four programs under
`src/ssh/`: the three that make up the system's core (spec.md sections 1-2)
and the agent client `ssh-add`:

| source | spec component | what it does |
|---|---|---|
| `ssh-proxy.c` | C6, proxy session engine | libevent proxy that terminates two SSH transports per connection and forwards packets between them |
| `kexecdhs.c` | C4, ECDH server state machine | server side of the ECDH key exchange: `KEX_ECDH_INIT` in, `KEX_ECDH_REPLY` out, session id, key derivation |
| `ssh-keysign.c` | C7, keysign validator | set-uid helper that validates one host-based signing request and signs it with a host key |
| `ssh-add.c` | (outside the core of spec section 1) | agent client CLI: adds, deletes and lists keys in `ssh-agent`, locks it |

The transport engine (C5), wire codec (C1), crypto (C2) and KEX hash (C3)
are not in `src/`. The models abstract them to what the callers observe: the
engine is an input buffer and an output buffer of packet fragments, and each
codec or crypto call is reduced to whether it succeeds.

## How the parts interact

A proxy connection runs two transports. `ssh-proxy.c` owns the sockets and
the event loop. The engines inside it run `kexecdh_server`/`input_kex_ecdh_init`
when the upstream client starts a key exchange. The proxy sees only whole
packets coming out of an engine, so `ProxySession` treats a packet as opaque
and `KexEcdhServer` models one connection's exchanges on their own. The two
would compose only through the engine, which is not in this repository.
`ssh-keysign` is a separate one-shot process and interacts with nothing else
modelled here. `ssh-add` is one run of a command-line client against an
agent; the agent is not in `src/`, so its identity table is modelled from
the requests `ssh-add` sends (a key and, separately, its certificate).

## Modules

| module | models | kind |
|---|---|---|
| `ProxySession` | one session of `ssh-proxy.c` (callbacks, teardown, forwarder, endpoints) | component |
| `ProxyChannel` | what a session promises its two endpoints: an in-order channel per direction | abstract spec, refined by `ProxySession` |
| `ProxyOutputLP64` | `output_cb` on an LP64 build, where `olen` is read uninitialised (line 342) | extends `ProxySession` |
| `KexEcdhServer` | `kexecdh_server` and `input_kex_ecdh_init` over a connection with re-keys | component |
| `Keysign` | `main` and `valid_request` of `ssh-keysign.c` | component |
| `SshAdd` | one run of `main` of `ssh-add.c`, with `add_file`, `delete_file`, `delete_all`, `list_identities`, `lock_agent`, `update_card` | component |
| `ProxySessionProofs`, `ProxyChannelProofs`, `KexEcdhServerProofs`, `KeysignProofs`, `SshAddProofs` | TLAPS proofs | proofs |
| `MCProxySession`, `MCProxyOutputLP64`, `MCKexEcdhServer`, `MCKeysign`, `MCSshAdd` | constants for TLC | MC modules |

### ProxySession (ssh-proxy.c)

State:
- `alloc`, `connected`, `linked`: the `struct session` is allocated, its `connected` field, and whether it is on the `sessions` TAILQ.
- `fdState[side]` is `unset` (-1), `open` or `closed`.
- `closes[side]` counts the `close()` calls.
- `engine[side]` is `s->side.ssh != NULL`.
- `pending` is the set of armed libevent events. They are one-shot: a fired event is gone until `event_add` re-arms it.
- `running` is false once `fatal()` has ended the process.
- `keysOk` says whether the key buffers `main` read are accepted by `ssh_add_hostkey`.

The data path uses units `<<sender, packet, fragment>>`:
- `sockIn` holds what an endpoint has sent and the proxy has not read.
- `inBuf` and `outBuf` are the engine buffers.
- `recv` is what the other endpoint received.
- A read takes 1..`ReadMax` units, and a write any prefix of the output buffer. Partial I/O is therefore explored.

Each callback is one atomic step, because the loop is single-threaded (spec section 5). Every branch of a callback is its own action:

| action | code |
|---|---|
| `AcceptOk` / `AcceptFail` / `AcceptFatal` | `accept_cb` success, `goto fail` (fcntl or do_connect), `accept()` fatal |
| `ConnectFail` / `ConnectOk` / `ConnectFatal` | `connect_cb` with SO_ERROR set, success, `ssh_add_hostkey` fatal |
| `InputRetry` / `InputData` / `InputEof` / `InputError` | `input_cb`: EINTR/EAGAIN, `len > 0`, `len == 0`, `len < 0` |
| `OutputRetry` / `OutputData` / `OutputClose` | `output_cb`: EINTR/EAGAIN, partial or full write, write error |
| `Send`, `Shutdown` | the endpoints (environment) |
| `Idle` | process dead, or all `MaxSessions` sessions served |

Each handler ends with the two calls `ssh_packet_fwd(r, w); ssh_packet_fwd(w, r)`, which are part of the action (`FwdBoth`). Each teardown path includes the whole of `session_close`.

### ProxyChannel (abstract) and the refinement

`ProxyChannel` says what a session promises its endpoints, without the proxy:
- `Open` starts a session with nothing sent or received; `Close` ends it at any time, and what was not delivered is gone;
- `Send(s)` adds a packet to what `s` sent;
- `Deliver(s)` hands the other endpoint the next `k` units of what `s` sent, so what it received is always a prefix of what was sent.

`ProxySession` ends with `Chan == INSTANCE ProxyChannel WITH live <- running /\ alloc` (sent and recv are the same variables). `AcceptOk` maps to `Open`, a write of `output_cb` to `Deliver` of the other side, `session_close` and `fatal()` to `Close`, `Send` to `Send`, and every other step to a stutter. `ChannelRefinement == Chan!FairSpec` is checked by TLC, fairness included; the safety part is proved (below).

### KexEcdhServer (kexecdhs.c)

The handler is a chain of 16 checks, each able to `goto out` (`Steps`). `input_kex_ecdh_init` picks the first check that fails (`StopsAt`):
- the inputs decide some of them: KEX name, loaders, point garbled or invalid;
- the environment decides the rest (`EnvFail`: allocation and libcrypto failures).

From where the handler stopped it derives:
- the resources allocated (`AllocAt`);
- what `out:` releases (`ReleasedAtOut`);
- the session id (`NewSessionId`, lines 159-168);
- the messages sent (`Sent`): the DISCONNECT of a failed validation (`DisconnectSent`, lines 118-122), or the REPLY and kex_finish's NEWKEYS (`ReplySent`, lines 179-187).

A failed `sshkey_sign` calls `fatal()` and skips the epilogue. The epilogue clears the ephemeral key, the shared secret and `kbuf` unconditionally, on every path that reaches it, so the model does not track the secrets' contents. `kexecdh_server` starts each exchange, the first one and every re-key. The exchange hash of exchange `r` is the model value `r`.

### Keysign (ssh-keysign.c)

`main` is a straight line of steps: `OpenKeys`, `DropPrivileges`, `CheckEnabled`, `LoadKeys`, `ReadRequest`, `Validate`, `SignAndReply`. Each step may `fatal()`, and `fatalAt` records where it did.

`valid_request` is `FailCount`, the sum of the code's `fail++` checks:
- the host-name check keeps the `size_t` arithmetic `len - 1` modulo `2^SizeBits`;
- the descriptor number is a u_int32 stored into an int (`AsInt`, modulo `2^U32Bits`).

A request is a record of its fields. The client host name is a sequence of characters, because the code checks its length, its last character and a case-insensitive prefix.

### SshAdd (ssh-add.c)

One run of `main` against an agent. A command line (`cmd`) is an operation and its file arguments; the files are model values whose contents (`Info`) say whether the file is missing, has bad permissions, is unreadable or garbled, which key it holds, the passphrase it is encrypted with, and whether a certificate file sits beside it that matches or not.

State:
- `pc` is where `main` is: connecting, dispatching, walking the files, in the passphrase prompt, exited;
- `todo` is the rest of the walk over argv or the default identity files;
- `pass` is the passphrase cached by `add_file` across files (`NoPass` is `NULL`), `tries` the prompt rounds;
- `ret`, `count`, `exitCode` are `main`'s and `do_file`'s results;
- `ids`, `locked`, `lockPw`, `providers` are the agent's state as the requests change it.

| action | code |
|---|---|
| `Connect` | `ssh_get_authentication_connection` failing: exit 2 |
| `ListIdentities`, `LockAgent`, `DeleteAll`, `UpdateCard`, `BadOption` | `-l/-L`, `-x/-X`, `-D`, `-s/-e`, an invalid `-t` or option |
| `StartFiles`, `SkipMissing` | argv or the default files (`getpwuid` may fail); a missing default file is skipped |
| `delete_file` | `-d`: remove the key, then its certificate, with the code's inverted tests |
| `add_file` | open, permissions, load; a cached or empty passphrase, or the prompt |
| `ReadPassphrase` | one round of the prompt loop (empty gives up, wrong is wiped and retried) |
| `FinishFiles`, `Exited` | the end of the walk, `clear_pass` and the exit status |

Every `do_file` result goes through `do_file(ok)`, which sets `ret = 1` on failure. The agent's table holds plain keys and certificates (`Plain(k)`, `Cert(k)`), modelled from the requests because `ssh-agent` is not in `src/`.

## Runs

| run | cfg | expect | checks | shows |
|---|---|---|---|---|
| proxy_session | MCProxySession.cfg | pass (9662 states) | SessionResources, Conservation, Delivery, ChannelRefinement | resources follow the lifecycle; no byte is lost, duplicated or reordered in flight under all interleavings, partial reads and writes, connect failure and fatal(); under libevent's fairness every sent packet reaches the peer unless the session ends; and the session implements `ProxyChannel` |
| proxy_eof | MCProxyEof.cfg | violation | EofDeliversAll | an endpoint that sends then shuts down loses packets the proxy still holds |
| proxy_lp64 | MCProxyOutputLP64.cfg | violation | DeliveredInOrder | on LP64 the garbage upper half of `olen` makes `write()` send bytes past the buffer |
| kex_safety | MCKexEcdhServer.cfg | pass (192 states) | SessionIdBinding | the session id is the H of the first exchange that reached its allocation, a re-key never replaces it, and every exchange derives under it |
| kex_leak | MCKexLeak.cfg | violation | HandlerReleasesAll | `client_public` (line 106) is never freed |
| kex_finish | MCKexFinish.cfg | violation | FinishedKexHasKeys | `kex_derive_keys`/`kex_finish` failures are ignored and the handler returns 0 |
| keysign_request | MCKeysignRequest.cfg | pass (72604 states) | ValidatorMatchesSpec | `valid_request` accepts exactly spec section 4.7's requests |
| keysign_flow | MCKeysignFlow.cfg | pass (1025 states) | SignsOnlyValid | a signature is written only for a valid request, after the config check and the privilege drop, with the host key the request names; with the socket on 0 or 1 the line-238 check is what refuses a request naming that descriptor |
| keysign_priv | MCKeysignPriv.cfg | violation | KeysLoadedPrivileged | keys are loaded after the privilege drop, against spec section 5 |
| sshadd_safety | MCSshAdd.cfg | pass (2169 states) | PassHygiene, ExitStatusHonest | the cached passphrase is only ever one that opened an encrypted file already finished in this walk, is wiped before each prompt and before exit; the exit status is 0 only when every named file was handled and the agent's state agrees |
| sshadd_delete | MCSshAddDelete.cfg | violation | DeleteRemovesCertificates | `ssh-add -d` leaves a matching certificate in the agent, and dies with status 255 when there is none (inverted test, line 119) |
| sshadd_deleteall | MCSshAddDeleteAll.cfg | violation | DeleteAllEmptiesAgent | `ssh-add -D` exits 0 with version 2 identities left when their removal fails (line 153) |

Every property of a passing run has a mutant in `PROJECT.json`: a plausible bug in the mapped definition that TLC then catches.

| mutant | break |
|---|---|
| `ConnectFailNoReset` | no `fd = -1` before `session_close`, so the server fd is closed twice |
| `OutputDataConsumeAll` | consumes the whole buffer on a partial write |
| `OutputDataNoConsume` | writes without consuming, so the next write repeats the units (breaks `ChannelRefinement`) |
| `ssh_packet_fwd_on_packet` | arms output only when a packet moved |
| `NewSessionIdAlways` | overwrites the session id on re-key |
| `HostFailsNoDot` | no trailing-dot check |
| `MatchAnyLoaded` | signs with the first loaded key |
| `ReadPassphraseKeepsWrong` | keeps a mistyped passphrase in the cache, so the next file is tried with a phrase that opened nothing |
| `do_file_ignores_result` | `do_file` does not turn a failure into `ret = 1` |

### Bounds and why they suffice

**Proxy.**
- `NPkt = 2` and `PktLen = 2`: two packets per direction with two fragments each. Reads of up to `ReadMax = 3` units can end mid-packet or span packets, and writes can be partial, so every split of a packet across I/O calls occurs.
- `MaxSessions = 2`: a second session starts after the first one's teardown. This exercises the reset of the per-session state.
- Both endpoints send concurrently, so `FwdBoth` meets data in both directions.

**KEX.** `MaxKex = 3` covers a first exchange and two re-keys. A failed check returns an error and the dispatcher ends the connection, so a re-key follows only a successful exchange: the bound meets a re-key after the first exchange and after a second one, and a failure, `sidalloc`'s included, at each of the three. Every check of the chain fails in some behaviour.

**Keysign.**
- The validator run enumerates every combination of a passing and a failing value of each field. Host names cover every string of length 0-2 over `a`, `A`, `b`, `.`. This includes the empty name, where `len - 1` wraps.
- The flow run varies the version, descriptor numbers (0, 1, 2, a socket, and 255, which has the top bit set in the 8-bit model of u_int32), key types and the set of key files that open. The socket may be on descriptor 0, 1 or 3 (`SocketFds`): when it is on 0 or 1 a request naming that descriptor passes the socket check and only line 238's `fd <= STDERR_FILENO` test refuses it.

**ssh-add.** Five files: one per failure kind that matters (garbled, missing) and three readable keys, one with a matching certificate, one unencrypted, one with a mismatching certificate; two of them share the passphrase `"pw"` so the cached passphrase is reused, the third is encrypted with `"qq"` so a cached `"pw"` is tried on it, fails, and must be cleared before the prompt, and a wrong phrase `"xx"` is offered at the prompt. The prompt loop of the code is unbounded; `MaxTries` caps the wrong answers, and `MaxTries = 1` allows one wrong answer followed by the right or an empty one, which is where a stale phrase would survive. The default files start with a missing one. The command lines cover every operation, with and without `-k`, with no argument (the default files) and with files in an order where the cache is set by one file and tried on the next.

### Fairness

`FairSpec` assumes weak fairness on three things:
- `connect_cb`: a non-blocking connect completes or fails;
- `InputData`: libevent delivers a readable event whose descriptor has data;
- `OutputData`: libevent delivers a writable event whose socket accepts data.

These are the guarantees of the event loop and the kernel. Nothing forces an endpoint to send or close, or a signal to interrupt a call (`InputRetry` and `OutputRetry` are unfair). `ProxyChannel`'s fairness, weak fairness of `Deliver(s)`, follows from the fairness of `OutputData` under the refinement; TLC checks it as part of `ChannelRefinement`. The KEX, keysign and ssh-add models need no fairness: their properties are safety.

## Proofs (TLAPS)

| theorem | module | statement |
|---|---|---|
| `TypeCorrect` | ProxySessionProofs | `Spec => []TypeOK` |
| `ResourcesSafe` | ProxySessionProofs | `Spec => []SessionResources` |
| `KexTypeCorrect` | KexEcdhServerProofs | `Spec => []TypeOK` |
| `SessionIdBound` | KexEcdhServerProofs | `Spec => []SessionIdBinding` |
| `ConservationSafe` | ProxyChannelProofs | `Spec => []Conservation` |
| `ChannelImplementation` | ProxyChannelProofs | `Spec => Chan!Spec` (the proxy implements `ProxyChannel`) |
| `PassHygieneSafe` | SshAddProofs | `Spec => []PassHygiene` |
| `ExitStatusSafe` | SshAddProofs | `Spec => []ExitStatusHonest` |
| `ValidatorSafe` | KeysignProofs | `Spec => []ValidatorMatchesSpec` |
| `SignsOnlyValidSafe` | KeysignProofs | `Spec => []SignsOnlyValid` |

The proofs hold for every value of the constants. They use only the `ASSUME`s of the component modules: the bounds are positive naturals, `NoId` is not a round number, and for ssh-add `NoPass` is not a passphrase and the files, command lines and default files have the shapes `SshAdd` declares. For Keysign three more are needed, each justified by the C types or the code:
- `LocalNameAssumption`: the local name is a sequence of characters with `strlen(host) + 1 <= SIZE_MAX`, since it is a NUL-terminated object in memory;
- `RequestsAssumption`: a client host name's length `len` fits in a `size_t`, being one, and the descriptor number is a u_int32 (`sshbuf_get_u32`, line 236);
- `KeyFileSetsAssumption`: the descriptors opened are among the three key files of lines 177-179.

Without them the modulo-`2^SizeBits` comparison of `len - 1` with `strlen(host)` could match a name of another length.

- **ResourcesSafe.** `SessionResources` is not inductive. A step of `ConnectFail` from a state with a closed but still allocated descriptor would break it, yet no such state is reachable. The proof uses `IInv == TypeOK /\ SessionResources /\ LifecycleInv`. `LifecycleInv` says that connected implies allocated, and that an allocated session has both descriptors open and never closed. With it, each action is shown to keep the `closes[s] <= 1` bound and the event/engine/list links (lemma `CloseLive` for the four paths into `session_close`).
- **SessionIdBound.** The invariant is strengthened (`BindInv`) with two facts:
  - a handler runs only inside a started exchange (`round \in Rounds`);
  - a hash with no session id (`firstH # NoId /\ sessionId = NoId`) happens only when the `malloc` of `kex->session_id` failed, which ends the connection (`phase = "failed"`).

  Without the second fact, a later exchange could set the session id to its own hash. The proof has one case per handler outcome, split on whether the session id was already set and whether the check at `sidalloc` was passed.

- **ConservationSafe.** `Conservation` concatenates four sequences left to right, and a step changes the middle of that chain. The inductive invariant `FlowInv` groups it as `(recv \o Pipe) \o sockIn`, where `Pipe(b, s)` is the receiving engine's output buffer followed by the sending engine's input buffer. The lemmas are:
  - `FwdBothPipe`: the two `ssh_packet_fwd` calls at the end of every callback leave every `Pipe` unchanged (a packet moves from the end of one buffer to the start of the next);
  - `TakeDrop`: a read or a write of `k` units splits a buffer into `SubSeq(q, 1, k) \o Drop(q, k)`;
  - `SentUnitsStep`: a `Send` appends exactly the next packet's units.

  With these each action is one regrouping by associativity (`FlowRead`, `FlowWrite`, `FlowSend`, `FlowFwd`), together with `TypeOK` for the sequence types.
- **ChannelImplementation.** The invariant is `IInv /\ FlowInv`. `LifecycleInv` (inside `IInv`) gives `connected => alloc`, so a callback runs only on a live channel. `FlowInv` shows that the units a write hands endpoint `w` are the next ones the other side sent: what `w` has received followed by the whole pipe and socket is the sender's stream, so the received prefix grows to a longer prefix (`DeliverStep`, with `PrefixCat`). Every other action either maps to `Open`, `Close` or `Send`, or leaves `running /\ alloc`, `sent` and `recv` unchanged.
- **PassHygieneSafe.** `PassHygiene` says that a cached passphrase opens one of the first `NDone` files of the walk (those `do_file` has finished with), that none is cached in the prompt, and none at exit 0 or 1. It is strengthened (`PassInv`) by `ExitInv` (for the suffix shape of `todo`), by: a cached passphrase exists only in the walk of an add; and by: in the prompt the file at the head of the walk is a readable encrypted key file. The last fact is what makes the phrase accepted at the prompt one that opens a file. Lemma `CacheKept` shows that a step which keeps the cache keeps its witness among the finished files (`NDone` only grows, by `SuffixStep`); `CachePrompted` that the phrase accepted at the prompt opens the `NDone'`-th file. There is one lemma per group of actions.

- **ExitStatusSafe.** `ExitStatusHonest` speaks of the whole walk at exit, so the invariant `ExitInv` adds `WalkInv` for the walk in progress: `todo` is the suffix of the walk after the `NDone` files already handled (`SubSeq`), and while `ret = 0` every handled file that existed is in the agent (or out of it, for `-d`) as the command asked (`Done`). Lemma `GoodStable` shows that a later file's request does not undo an earlier file's result, and `AdvanceStep` moves one file from `todo` into `Done`.
- **ValidatorSafe, SignsOnlyValidSafe.** Lemma `ValidRequestSpec` shows `valid_request(host, r) = 0 <=> SpecValid(host, r)`. The host-name step (`LengthCheck`) is where the size_t assumptions enter: `h = (len - 1) % 2^SizeBits` iff `len = h + 1`. The invariant `KInv` records what main has established by each `pc`: root until the drop and the user after it, enabled from the config check, a request past `ReadRequest` is a version-2 one on a socket with a local name, one past `Validate` has `valid_request` 0, one refused by it has -1, and a reply is the request signed with a loaded key equal to its key.

TLC checks the same properties on the small instances. The theorems extend them to all bounds.

Left to TLC: `Delivery` and the fairness part of `ChannelRefinement`, which are liveness under fairness and need `ENABLED`, out of the prover's reach. The properties of the violation runs are false of the code; TLC's counterexamples are what shows it.

Every safety invariant and action property of a passing run is proved.

## Not modelled

- **ssh-agent.** Not in `src/`; the table of identities `ssh-add` changes is modelled from the requests it sends, and each request's success is a free choice.
- **ssh-add's PKCS#11 providers and lifetimes.** `update_card` is modelled as a request that succeeds or fails and changes a set of providers; the lifetime and confirm flags are sent along with each key and change nothing a property distinguishes.
- **Multiple concurrent proxy sessions.** One session is modelled at a time. Sessions share nothing but the list (never read) and the process, so the only cross-session effect is that `fatal()` in `connect_cb` kills all of them. The model shows that fatal() but not the sessions it takes down.
- **Teardown order.** Spec section 3 says deregister, free, close, unlink; the code closes the descriptors first. Within one atomic callback the order is not observable, so no property is stated about it.
- **Byte-level codec, crypto and the exchange hash.** Not in `src/`.

## Plan (later work)

1. State an abstract specification for ssh-add's exit status against the agent's table and prove `SshAdd` implements it.
2. Model the re-key flush rule of spec section 5 if the engine interface exposes it.
