------------------------------- MODULE SshAdd -------------------------------
(***************************************************************************)
(* ssh-add (src/ssh/ssh-add.c): one run of the agent client against the   *)
(* authentication agent.  main() connects, runs one command (list, lock,   *)
(* unlock, delete all, a PKCS#11 provider) or walks a list of key files,   *)
(* adding or deleting each, and exits with 0 or 1 (2 when there is no     *)
(* agent, 255 from fatal()).                                               *)
(*                                                                         *)
(* Files and keys are model values described by constants; an identity in *)
(* the agent is <<key, "plain">> or <<key, "cert">>.  The agent is not in  *)
(* this repository: its answers follow ssh-agent (a locked agent refuses   *)
(* every request but unlock, and lists no identities), and any request   *)
(* may also fail on the socket (the \E ok \in BOOLEAN of each request).    *)
(* A file's passphrase prompt loop is one step per typed passphrase.       *)
(***************************************************************************)
EXTENDS Integers, Sequences

CONSTANTS
  Files,        \* key files the user may name
  Keys,         \* private keys held in those files
  KeyVer,       \* [Keys -> {1, 2}]: protocol version of the key (rsa1 is 1)
  Info,         \* [Files -> [st, key, enc, cert]]: what is on disk
  DefaultFiles, \* default_files[] in $HOME, in order
  Phrases,      \* non-empty passphrases the user may type ("" gives up)
  Cmds,         \* command lines: [op, keyOnly, args]
  InitIds,      \* the possible contents of the agent when ssh-add starts
  MaxTries,     \* wrong passphrases the user types for one file (bounds the loop)
  NoPass        \* pass == NULL

ASSUME MaxTriesAssumption == MaxTries \in Nat
ASSUME NoPassAssumption == NoPass \notin Phrases \cup {""}
ASSUME InfoAssumption ==
  Info \in [Files -> [st : {"missing", "perms", "unreadable", "garbled", "ok"},
                      key : Keys, enc : Phrases \cup {""},
                      cert : {"none", "match", "mismatch"}]]
ASSUME CmdsAssumption ==
  Cmds \subseteq [op : {"add", "delete", "list", "lock", "unlock", "deleteAll",
                        "cardAdd", "cardDel", "badLifetime", "usage"},
                  keyOnly : BOOLEAN, args : Seq(Files)]
ASSUME DefaultFilesAssumption == DefaultFiles \in Seq(Files)

(* Info[f].st: "missing" (stat/open fails), "perms" (sshkey_perm_ok), "unreadable" *)
(* (sshkey_load_file), "garbled" (parse error other than a wrong passphrase),      *)
(* "ok".  enc is the file's passphrase, "" when unencrypted.  cert describes       *)
(* f-cert.pub: "none" (absent), "match", "mismatch" (another key's).               *)
Plain(k) == <<k, "plain">>
Cert(k) == <<k, "cert">>
IdVer(id) == IF id[2] = "cert" THEN 2 ELSE KeyVer[id[1]]
KeyOf(f) == Info[f].key

(* The files main() walks: argv, or the default files; of the default    *)
(* files only those stat() finds reach do_file.                           *)
Exists(f) == Info[f].st # "missing"
Walk(c) == IF c.args = <<>> THEN DefaultFiles ELSE c.args
Walked(c) == {Walk(c)[i] : i \in {j \in DOMAIN Walk(c) : c.args # <<>> \/ Exists(Walk(c)[j])}}

VARIABLES
  cmd,        \* the command line
  pc,         \* "connect", "run", "files", "prompt", "exited"
  todo,       \* files not yet handed to do_file
  tries,      \* wrong passphrases typed for the current file
  pass,       \* the cached passphrase, or NoPass
  ret,        \* main()'s ret
  count,      \* default files do_file succeeded on
  exitCode,   \* the process's exit status once exited, or -1
  ids,        \* identities in the agent
  locked,     \* the agent is locked
  lockPw,     \* the agent's lock password
  providers   \* PKCS#11 providers loaded in the agent

vars == <<cmd, pc, todo, tries, pass, ret, count, exitCode, ids, locked, lockPw,
          providers>>
agentVars == <<ids, locked, lockPw, providers>>

Ids == {Plain(k) : k \in Keys} \cup {Cert(k) : k \in Keys}

TypeOK ==
  /\ cmd \in Cmds
  /\ pc \in {"connect", "run", "files", "prompt", "exited"}
  /\ todo \in Seq(Files)
  /\ tries \in 0..MaxTries
  /\ pass \in Phrases \cup {NoPass}
  /\ ret \in {0, 1}
  /\ count \in Nat
  /\ exitCode \in {-1, 0, 1, 2, 255}
  /\ ids \subseteq Ids
  /\ locked \in BOOLEAN
  /\ lockPw \in Phrases \cup {""}
  /\ providers \subseteq {"pkcs11"}

Init ==
  /\ cmd \in Cmds
  /\ pc = "connect"
  /\ todo = <<>>
  /\ tries = 0
  /\ pass = NoPass
  /\ ret = 0
  /\ count = 0
  /\ exitCode = -1
  /\ ids \in InitIds
  /\ locked \in BOOLEAN
  /\ lockPw \in Phrases
  /\ providers = {}

(* Leave through `done:': close the agent socket, return ret. *)
Exit(r) == /\ pc' = "exited" /\ exitCode' = r

(* fatal(): exit 255 at once. *)
Fatal == /\ pc' = "exited" /\ exitCode' = 255
-----------------------------------------------------------------------------
(***************************************************************************)
(* main, lines 460-529: connect to the agent (exit 2 without one), then    *)
(* the first of -l/-L, -x/-X, -D, a bad -t or a bad option runs and jumps  *)
(* to done; -s/-e run update_card; otherwise the file walk starts.         *)
(***************************************************************************)
Connect ==
  /\ pc = "connect"
  /\ \/ pc' = "run" /\ UNCHANGED exitCode
     \/ Exit(2)
  /\ UNCHANGED <<cmd, todo, tries, pass, ret, count, agentVars>>

(* list_identities (343-386): fetch the version 1, then the version 2     *)
(* list; a failed fetch or an empty list is skipped; 1 if none printed.   *)
ListIdentities ==
  /\ pc = "run" /\ cmd.op = "list"
  /\ \E ok \in [{1, 2} -> BOOLEAN] :
       LET had == \E id \in ids : ok[IdVer(id)] /\ ~locked
       IN  Exit(IF had THEN 0 ELSE 1) /\ ret' = IF had THEN ret ELSE 1
  /\ UNCHANGED <<cmd, todo, tries, pass, count, agentVars>>

(* lock_agent (388-418): read the password (twice to lock); send the      *)
(* request only when both readings agree.                                 *)
LockAgent ==
  /\ pc = "run" /\ cmd.op \in {"lock", "unlock"}
  /\ \E p1, p2 \in Phrases \cup {""}, ok \in BOOLEAN :
       LET lock == cmd.op = "lock"
           passok == ~lock \/ p1 = p2
           granted == passok /\ ok /\ IF lock THEN ~locked ELSE locked /\ p1 = lockPw
       IN  /\ locked' = IF granted THEN lock ELSE locked
           /\ lockPw' = IF granted /\ lock THEN p1 ELSE lockPw
           /\ ret' = IF granted THEN ret ELSE 1
           /\ Exit(IF granted THEN ret ELSE 1)
  /\ UNCHANGED <<cmd, todo, tries, pass, count, ids, providers>>

(* delete_all (144-161): remove every version 1 identity, then every      *)
(* version 2 one; only the first request's result decides the exit code. *)
DeleteAll ==
  /\ pc = "run" /\ cmd.op = "deleteAll"
  /\ \E ok1, ok2 \in BOOLEAN :
       LET r1 == ok1 /\ ~locked
           r2 == ok2 /\ ~locked
       IN  /\ ids' = {id \in ids : ~(r1 /\ IdVer(id) = 1) /\ ~(r2 /\ IdVer(id) = 2)}
           /\ ret' = IF r1 THEN ret ELSE 1
           /\ Exit(IF r1 THEN ret ELSE 1)
  /\ UNCHANGED <<cmd, todo, tries, pass, count, locked, lockPw, providers>>

(* update_card (319-341), reached from -s (add) or -e (remove). *)
UpdateCard ==
  /\ pc = "run" /\ cmd.op \in {"cardAdd", "cardDel"}
  /\ \E ok \in BOOLEAN :
       LET granted == ok /\ ~locked
       IN  /\ providers' = IF ~granted THEN providers
                           ELSE IF cmd.op = "cardAdd" THEN {"pkcs11"} ELSE {}
           /\ ret' = IF granted THEN ret ELSE 1
           /\ Exit(IF granted THEN ret ELSE 1)
  /\ UNCHANGED <<cmd, todo, tries, pass, count, ids, locked, lockPw>>

(* A -t argument convtime() rejects, or an unknown option (usage()). *)
BadOption ==
  /\ pc = "run" /\ cmd.op \in {"badLifetime", "usage"}
  /\ ret' = 1
  /\ Exit(1)
  /\ UNCHANGED <<cmd, todo, tries, pass, count, agentVars>>

(* The file walk (530-561): argv, or the default files stat() finds; with *)
(* no argument getpwuid may fail, which ends the run with 1.               *)
StartFiles ==
  /\ pc = "run" /\ cmd.op \in {"add", "delete"}
  /\ \/ /\ todo' = Walk(cmd)
        /\ pc' = "files"
        /\ UNCHANGED <<ret, exitCode>>
     \/ /\ cmd.args = <<>>
        /\ ret' = 1
        /\ Exit(1)
        /\ UNCHANGED todo
  /\ UNCHANGED <<cmd, tries, pass, count, agentVars>>
(***************************************************************************)
(* do_file (420-431) as main's loops use it (549-559): a file that fails   *)
(* sets ret to 1, one that succeeds counts when the default files are     *)
(* walked; the walk moves to the next file.                                *)
(***************************************************************************)
(* Mutant: main's `ret = 1' dropped, a failing file leaves ret as it was. *)
do_file_ignores_result(ok) ==
  /\ todo' = Tail(todo)
  /\ ret' = ret
  /\ count' = IF ok /\ cmd.args = <<>> THEN count + 1 ELSE count
  /\ tries' = 0
  /\ pc' = "files"
  /\ UNCHANGED exitCode

do_file(ok) ==
  /\ todo' = Tail(todo)
  /\ ret' = IF ok THEN ret ELSE 1
  /\ count' = IF ok /\ cmd.args = <<>> THEN count + 1 ELSE count
  /\ tries' = 0
  /\ pc' = "files"
  /\ UNCHANGED exitCode

(* main's stat() (546-547): a default file that does not exist is skipped. *)
Stat == cmd.args # <<>> \/ Exists(Head(todo))

SkipMissing ==
  /\ pc = "files" /\ todo # <<>> /\ ~Stat
  /\ todo' = Tail(todo)
  /\ UNCHANGED <<cmd, pc, tries, pass, ret, count, exitCode, agentVars>>

(* delete_file (94-141): load f's public half, ask the agent to remove it; *)
(* without -k, a certificate that loads jumps to out (line 119), and when   *)
(* none loads, cert stays NULL, sshkey_equal_public(NULL, public) is false *)
(* and the process dies in fatal() (121-123).                               *)
delete_file ==
  /\ pc = "files" /\ todo # <<>> /\ cmd.op = "delete" /\ Stat
  /\ LET f == Head(todo) IN
     \/ /\ Info[f].st = "missing"
        /\ do_file(FALSE)
        /\ UNCHANGED <<pass, agentVars>>
     \/ /\ Info[f].st # "missing"
        /\ \E ok \in BOOLEAN :
             LET removed == ok /\ ~locked /\ Plain(KeyOf(f)) \in ids
             IN  /\ ids' = IF removed THEN ids \ {Plain(KeyOf(f))} ELSE ids
                 /\ IF cmd.keyOnly \/ Info[f].cert # "none"
                      THEN do_file(removed)
                      ELSE Fatal /\ UNCHANGED <<todo, ret, count, tries>>
        /\ UNCHANGED <<pass, locked, lockPw, providers>>
  /\ UNCHANGED cmd

(* add_file after the key is decrypted (248-316): add it; without -k add   *)
(* the certificate too when f-cert.pub holds f's key.  Only the first      *)
(* request decides the file's result; a failed certificate is logged.      *)
AddIdentities(f) ==
  \E ok1, ok2 \in BOOLEAN :
    LET keyAdded == ok1 /\ ~locked
        certAdded == ~cmd.keyOnly /\ Info[f].cert = "match" /\ ok2 /\ ~locked
    IN  /\ ids' = ids \cup {id \in {Plain(KeyOf(f))} : keyAdded}
                      \cup {id \in {Cert(KeyOf(f))} : certAdded}
        /\ do_file(keyAdded)

(* add_file up to the prompt (163-223): open, permissions and load fail     *)
(* with -1; a parse error clears pass (fail_load); an unencrypted key, or  *)
(* one the cached pass opens, is added; otherwise pass is cleared and the  *)
(* prompt loop starts.                                                     *)
add_file ==
  /\ pc = "files" /\ todo # <<>> /\ cmd.op = "add" /\ Stat
  /\ LET f == Head(todo) IN
     \/ /\ Info[f].st \in {"missing", "perms", "unreadable"}
        /\ do_file(FALSE)
        /\ UNCHANGED <<pass, ids>>
     \/ /\ Info[f].st = "garbled"
        /\ pass' = NoPass
        /\ do_file(FALSE)
        /\ UNCHANGED ids
     \/ /\ Info[f].st = "ok" /\ Info[f].enc \in {"", pass}
        /\ AddIdentities(f)
        /\ UNCHANGED pass
     \/ /\ Info[f].st = "ok" /\ Info[f].enc \notin {"", pass}
        /\ pass' = NoPass
        /\ pc' = "prompt"
        /\ tries' = 0
        /\ UNCHANGED <<todo, ret, count, exitCode, ids>>
  /\ UNCHANGED <<cmd, locked, lockPw, providers>>

(* Mutant: the clear_pass() of line 243 dropped, a wrong passphrase stays. *)
ReadPassphraseKeepsWrong ==
  /\ pc = "prompt"
  /\ LET f == Head(todo) IN
     \/ /\ pass' = NoPass
        /\ do_file(FALSE)
        /\ UNCHANGED ids
     \/ /\ pass' = Info[f].enc
        /\ AddIdentities(f)
     \/ /\ tries < MaxTries
        /\ \E p \in Phrases \ {Info[f].enc} : pass' = p
        /\ tries' = tries + 1
        /\ UNCHANGED <<todo, ret, count, pc, exitCode, ids>>
  /\ UNCHANGED <<cmd, locked, lockPw, providers>>

(* One pass of the prompt loop (224-246): "" gives up (fail_load), the     *)
(* right passphrase stays cached in pass and the key is added, a wrong one *)
(* is cleared (line 243) and the user is asked again.                      *)
ReadPassphrase ==
  /\ pc = "prompt"
  /\ LET f == Head(todo) IN
     \/ /\ pass' = NoPass
        /\ do_file(FALSE)
        /\ UNCHANGED ids
     \/ /\ pass' = Info[f].enc
        /\ AddIdentities(f)
     \/ /\ tries < MaxTries
        /\ \E p \in Phrases \ {Info[f].enc} : pass' = NoPass
        /\ tries' = tries + 1
        /\ UNCHANGED <<todo, ret, count, pc, exitCode, ids>>
  /\ UNCHANGED <<cmd, locked, lockPw, providers>>

(* The end of the walk (549-566): no default file succeeded gives 1;       *)
(* clear_pass(), close the socket, return ret.                             *)
FinishFiles ==
  /\ pc = "files" /\ todo = <<>>
  /\ ret' = IF cmd.args = <<>> /\ count = 0 THEN 1 ELSE ret
  /\ pass' = NoPass
  /\ Exit(ret')
  /\ UNCHANGED <<cmd, todo, tries, count, agentVars>>

(* The process has exited. *)
Exited == pc = "exited" /\ UNCHANGED vars

Next ==
  \/ Connect \/ ListIdentities \/ LockAgent \/ DeleteAll \/ UpdateCard
  \/ BadOption \/ StartFiles
  \/ SkipMissing \/ delete_file \/ add_file \/ ReadPassphrase \/ FinishFiles \/ Exited

Spec == Init /\ [][Next]_vars
-----------------------------------------------------------------------------
(* How many files of the walk do_file has finished with. *)
NDone == Len(Walk(cmd)) - Len(todo)

(* Passphrase p decrypts key file f (an unencrypted file needs none). *)
Unlocks(p, f) == Info[f].st = "ok" /\ Info[f].enc = p /\ p # ""

(***************************************************************************)
(* Passphrase hygiene (the cache tried at 212, clear_pass at 223, at       *)
(* fail_load and 243, and at 562): the cached pass is always a passphrase  *)
(* that decrypted a file this walk has already finished, never one still  *)
(* being tried, a mistyped one or the empty answer; it is cleared while    *)
(* the prompt waits for the user, and when main returns.                   *)
(***************************************************************************)
PassHygiene ==
  /\ pass # NoPass => \E j \in 1..NDone : Unlocks(pass, Walk(cmd)[j])
  /\ pc = "prompt" => pass = NoPass
  /\ exitCode \in {0, 1} => pass = NoPass

(***************************************************************************)
(* The exit status does not lie (main's ret, 476-566): ssh-add exits 0     *)
(* after adding only when every file it walked (at least one) has its key  *)
(* in the agent, after deleting only when none has, after -x/-X only when  *)
(* the agent is locked/unlocked, after -l/-L only when it holds keys.      *)
(***************************************************************************)
ExitStatusHonest ==
  exitCode = 0 =>
    LET keys == {KeyOf(f) : f \in Walked(cmd)}
    IN  /\ cmd.op = "add" => Walked(cmd) # {} /\ \A k \in keys : Plain(k) \in ids
        /\ cmd.op = "delete" => \A k \in keys : Plain(k) \notin ids
        /\ cmd.op = "lock" => locked
        /\ cmd.op = "unlock" => ~locked
        /\ cmd.op = "list" => ids # {} /\ ~locked

(***************************************************************************)
(* delete_all (144-161), spec section 9: "ssh-add -D" exits 0 only when   *)
(* the agent is left with no identity.                                     *)
(***************************************************************************)
DeleteAllEmptiesAgent ==
  cmd.op = "deleteAll" /\ exitCode = 0 => ids = {}

(***************************************************************************)
(* delete_file (94-141), "Now try to delete the corresponding certificate  *)
(* too": "ssh-add -d" without -k does not die, and when it exits 0 none of *)
(* its files' keys or certificates is left in the agent.                   *)
(***************************************************************************)
DeleteRemovesCertificates ==
  cmd.op = "delete" /\ ~cmd.keyOnly /\ pc = "exited" =>
    /\ exitCode # 255
    /\ exitCode = 0 =>
         \A f \in Walked(cmd) : ids \cap {Plain(KeyOf(f)), Cert(KeyOf(f))} = {}
=============================================================================
