---------------------------- MODULE SshAddProofs ----------------------------
(***************************************************************************)
(* Proofs about SshAdd for every set of files, keys, passphrases, command  *)
(* lines and agent contents.                                               *)
(***************************************************************************)
EXTENDS SshAdd, SequenceTheorems, TLAPS

(***************************************************************************)
(* ExitStatusHonest is not inductive by itself: main's ret says nothing   *)
(* about the files already walked unless the walk keeps a record of them. *)
(* WalkInv is that record: todo is what is left of Walk(cmd), while ret   *)
(* is 0 every walked file handed to do_file so far has its key in the     *)
(* agent (ssh-add) or out of it (ssh-add -d), and a default file that     *)
(* counted was one of the walked files.                                    *)
(***************************************************************************)
Good(f) ==
  IF cmd.op = "add" THEN Plain(KeyOf(f)) \in ids ELSE Plain(KeyOf(f)) \notin ids

Done ==
  \A j \in 1..NDone : cmd.args # <<>> \/ Exists(Walk(cmd)[j]) => Good(Walk(cmd)[j])

WalkInv ==
  /\ Len(todo) <= Len(Walk(cmd))
  /\ todo = SubSeq(Walk(cmd), NDone + 1, Len(Walk(cmd)))
  /\ ret = 0 => Done
  /\ count > 0 => Walked(cmd) # {}

ExitInv ==
  /\ pc \in {"connect", "run", "files", "prompt", "exited"}
  /\ cmd \in Cmds
  /\ todo \in Seq(Files)
  /\ ret \in {0, 1}
  /\ count \in Nat
  /\ ExitStatusHonest
  /\ pc \in {"connect", "run"} => ret = 0 /\ count = 0 /\ exitCode = -1
  /\ pc \in {"files", "prompt"} => cmd.op \in {"add", "delete"} /\ exitCode = -1 /\ WalkInv
  /\ pc = "prompt" => todo # <<>> /\ cmd.op = "add" /\ Stat

(* Handing the head of what is left of a walk to do_file leaves the walk's *)
(* next suffix, one file further on.                                      *)
LEMMA SuffixStep ==
  ASSUME NEW W \in Seq(Files), NEW t \in Seq(Files), t # <<>>, Len(t) <= Len(W),
         t = SubSeq(W, Len(W) - Len(t) + 1, Len(W))
  PROVE  /\ Len(W) - Len(t) + 1 \in 1..Len(W)
         /\ Head(t) = W[Len(W) - Len(t) + 1]
         /\ Len(Tail(t)) <= Len(W)
         /\ Len(W) - Len(Tail(t)) = Len(W) - Len(t) + 1
         /\ Tail(t) = SubSeq(W, Len(W) - Len(Tail(t)) + 1, Len(W))
<1> DEFINE m == Len(W) - Len(t) + 1
<1>1. Len(t) \in Nat /\ Len(t) # 0 /\ Len(W) \in Nat
  BY LenProperties, EmptySeq, Zenon
<1>2. Len(Tail(t)) = Len(t) - 1
  BY HeadTailProperties
<1>3. m \in 1..Len(W) /\ Len(W) \in m..Len(W)
  BY <1>1
<1>4. Head(SubSeq(W, m, Len(W))) = W[m] /\ Tail(SubSeq(W, m, Len(W))) = SubSeq(W, m + 1, Len(W))
  BY <1>3, HeadTailOfSubSeq
<1>5. Len(W) - Len(Tail(t)) = m
  BY <1>1, <1>2
<1>6. QED BY <1>1, <1>2, <1>3, <1>4, <1>5

LEMMA WalkType ==
  ASSUME NEW c \in Cmds
  PROVE  Walk(c) \in Seq(Files)
BY DefaultFilesAssumption, CmdsAssumption DEF Walk

LEMMA InitExitInv == Init => ExitInv
BY CmdsAssumption DEF Init, ExitInv, ExitStatusHonest

(* The commands run from "run" exit, and exit 0 only as the agent answers. *)
LEMMA HonestCommandStep ==
  ASSUME ExitInv,
         Connect \/ ListIdentities \/ LockAgent \/ DeleteAll \/ UpdateCard \/ BadOption
  PROVE  ExitInv'
<1>1. CASE Connect
  BY <1>1 DEF Connect, Exit, ExitInv, ExitStatusHonest
<1>2. CASE ListIdentities
  BY <1>2 DEF ListIdentities, Exit, agentVars, ExitInv, ExitStatusHonest
<1>3. CASE LockAgent
  <2>1. pc = "run" /\ cmd.op \in {"lock", "unlock"} /\ ret = 0 /\ UNCHANGED <<cmd, todo, count>>
    BY <1>3 DEF LockAgent, ExitInv
  <2>2. \E g \in BOOLEAN :
          /\ g => locked' = (cmd.op = "lock") /\ ret' = ret
          /\ ~g => ret' = 1
          /\ pc' = "exited" /\ exitCode' = ret'
    BY <1>3, Zenon DEF LockAgent, Exit
  <2>3. PICK g \in BOOLEAN :
          /\ g => locked' = (cmd.op = "lock") /\ ret' = ret
          /\ ~g => ret' = 1
          /\ pc' = "exited" /\ exitCode' = ret'
    BY <2>2
  <2>4. ret' \in {0, 1} /\ (exitCode' = 0 => g)
    BY <2>1, <2>3
  <2>5. cmd.op = "unlock" => cmd.op # "lock"
    OBVIOUS
  <2>6. g => (cmd.op = "lock" => locked') /\ (cmd.op = "unlock" => ~locked')
    BY <2>3, <2>5, Zenon
  <2>7. QED BY <2>1, <2>3, <2>4, <2>6 DEF ExitInv, ExitStatusHonest
<1>4. CASE DeleteAll
  BY <1>4 DEF DeleteAll, Exit, ExitInv, ExitStatusHonest
<1>5. CASE UpdateCard
  BY <1>5 DEF UpdateCard, Exit, ExitInv, ExitStatusHonest
<1>6. CASE BadOption
  BY <1>6 DEF BadOption, Exit, ExitInv, ExitStatusHonest
<1>7. QED BY <1>1, <1>2, <1>3, <1>4, <1>5, <1>6

(* The walk starts with all of Walk(cmd) left and nothing done. *)
LEMMA HonestStartStep ==
  ASSUME ExitInv, StartFiles
  PROVE  ExitInv'
<1>1. cmd \in Cmds /\ pc = "run" /\ ret = 0 /\ count = 0 /\ exitCode = -1 /\ UNCHANGED <<cmd, count>>
  BY DEF StartFiles, ExitInv
<1>2. Walk(cmd) \in Seq(Files)
  BY <1>1, WalkType
<1>3. CASE todo' = Walk(cmd) /\ pc' = "files" /\ UNCHANGED <<ret, exitCode>>
  <2>1. SubSeq(Walk(cmd), 1, Len(Walk(cmd))) = Walk(cmd)
    BY <1>2, SubSeqFull
  <2>2. NDone' = 0
    BY <1>1, <1>3 DEF NDone
  <2>3. Len(Walk(cmd)) \in Nat
    BY <1>2, LenProperties, Zenon
  <2>4. WalkInv'
    BY <1>1, <1>3, <2>1, <2>2, <2>3 DEF WalkInv, Done
  <2>5. QED BY <1>1, <1>2, <1>3, <2>4 DEF StartFiles, ExitInv, ExitStatusHonest
<1>4. CASE cmd.args = <<>> /\ ret' = 1 /\ Exit(1) /\ UNCHANGED todo
  BY <1>1, <1>4 DEF Exit, ExitInv, ExitStatusHonest
<1>5. QED BY <1>3, <1>4 DEF StartFiles

LEMMA HonestExitedStep ==
  ASSUME ExitInv, Exited \/ UNCHANGED vars
  PROVE  ExitInv'
<1>1. UNCHANGED vars
  BY DEF Exited
<1>2. QED BY <1>1, Zenon DEF vars, ExitInv, ExitStatusHonest, WalkInv, Done, NDone, Good, Stat

(* A file's result, once in the agent, survives the later files of the     *)
(* walk: ssh-add only adds identities and ssh-add -d only removes them.    *)
LEMMA GoodStable ==
  ASSUME NEW f, cmd' = cmd, cmd.op \in {"add", "delete"},
         cmd.op = "add" => ids \subseteq ids',
         cmd.op = "delete" => ids' \subseteq ids,
         Good(f)
  PROVE  Good(f)'
BY DEF Good

(* One file of the walk is handed to do_file (or skipped by main's stat): *)
(* the rest of the walk is the next suffix, ret stays 0 only if the file  *)
(* did what was asked, and a count that becomes positive counts a file of *)
(* the walk.                                                              *)
LEMMA AdvanceStep ==
  ASSUME ExitInv, pc \in {"files", "prompt"}, todo # <<>>, NEW hd, hd = Head(todo),
         cmd' = cmd, todo' = Tail(todo), ret' \in {0, 1}, count' \in Nat,
         ret' = 0 => ret = 0 /\ (Stat => Good(hd)'),
         cmd.op = "add" => ids \subseteq ids',
         cmd.op = "delete" => ids' \subseteq ids,
         count' > 0 => count > 0 \/ Stat
  PROVE  WalkInv'
<1> DEFINE W == Walk(cmd)
           n == Len(W) - Len(todo)
<1>1. cmd \in Cmds /\ todo \in Seq(Files) /\ cmd.op \in {"add", "delete"} /\ WalkInv
  BY DEF ExitInv
<1>2. W \in Seq(Files)
  BY <1>1, WalkType
<1>3. /\ n + 1 \in 1..Len(W)
      /\ Head(todo) = W[n + 1]
      /\ Len(Tail(todo)) <= Len(W)
      /\ Len(W) - Len(Tail(todo)) = n + 1
      /\ Tail(todo) = SubSeq(W, Len(W) - Len(Tail(todo)) + 1, Len(W))
  BY <1>1, <1>2, SuffixStep DEF WalkInv, NDone
<1>4. Walk(cmd)' = W /\ NDone' = n + 1
  BY <1>3 DEF NDone
<1>5. Len(todo') <= Len(Walk(cmd))' /\ todo' = SubSeq(Walk(cmd), NDone + 1, Len(Walk(cmd)))'
  BY <1>3, <1>4 DEF NDone
<1>6. ret' = 0 => Done'
  <2> SUFFICES ASSUME ret' = 0, NEW j \in 1..(n + 1),
                      cmd.args # <<>> \/ Exists(W[j])
               PROVE  Good(W[j])'
    BY <1>4 DEF Done
  <2>1. ret = 0 /\ (Stat => Good(hd)')
    OBVIOUS
  <2>2. CASE j \in 1..n
    <3>1. Good(W[j])
      BY <1>1, <2>1, <2>2 DEF WalkInv, Done, NDone
    <3>2. QED BY <1>1, <3>1, GoodStable
  <2>3. CASE j = n + 1
    BY <1>3, <1>4, <2>1, <2>3 DEF Stat
  <2>4. QED BY <2>2, <2>3
<1>7. count' > 0 => Walked(cmd)' # {}
  <2> SUFFICES ASSUME count' > 0 PROVE Walked(cmd) # {}
    OBVIOUS
  <2>1. CASE count > 0
    BY <1>1, <2>1 DEF WalkInv
  <2>2. CASE Stat
    <3>1. n + 1 \in DOMAIN W
      BY <1>2, <1>3
    <3>2. W[n + 1] \in Walked(cmd)
      BY <1>3, <2>2, <3>1 DEF Stat, Walked
    <3>3. QED BY <3>2
  <2>3. QED BY <2>1, <2>2
<1>8. QED BY <1>5, <1>6, <1>7 DEF WalkInv

(* do_file on a file of the walk: ret stays 0 only when the file did what *)
(* was asked of the agent, and the walk goes on.                          *)
LEMMA DoFileHonest ==
  ASSUME ExitInv, pc \in {"files", "prompt"}, todo # <<>>, Stat,
         NEW hd, hd = Head(todo), NEW ok \in BOOLEAN, do_file(ok), cmd' = cmd,
         ok => Good(hd)',
         cmd.op = "add" => ids \subseteq ids',
         cmd.op = "delete" => ids' \subseteq ids
  PROVE  ExitInv'
<1>1. /\ cmd \in Cmds /\ todo \in Seq(Files) /\ ret \in {0, 1} /\ count \in Nat
      /\ cmd.op \in {"add", "delete"} /\ exitCode = -1
  BY DEF ExitInv
<1>2. /\ ok => ret' = ret
      /\ ~ok => ret' = 1
      /\ count' \in {count, count + 1}
      /\ todo' = Tail(todo) /\ pc' = "files" /\ exitCode' = exitCode
  BY Zenon DEF do_file
<1>3. ret' \in {0, 1} /\ (ret' = 0 => ret = 0 /\ ok)
  <2>1. CASE ok
    BY <1>1, <1>2, <2>1
  <2>2. CASE ~ok
    BY <1>2, <2>2
  <2>3. QED BY <2>1, <2>2
<1>4. count' \in Nat
  BY <1>1, <1>2
<1>5. WalkInv'
  BY <1>3, <1>4, <1>2, AdvanceStep
<1>6. todo' \in Seq(Files)
  BY <1>1, <1>2, HeadTailProperties
<1>7. QED BY <1>1, <1>2, <1>3, <1>4, <1>5, <1>6 DEF ExitInv, ExitStatusHonest

(* AddIdentities only adds, and the file succeeds only when its key did. *)
LEMMA AddIdsStep ==
  ASSUME NEW f, AddIdentities(f)
  PROVE  \E ok \in BOOLEAN : do_file(ok) /\ ids \subseteq ids' /\ (ok => Plain(KeyOf(f)) \in ids')
<1>1. PICK ok1 \in BOOLEAN, ok2 \in BOOLEAN :
        /\ ids' = ids \cup {id \in {Plain(KeyOf(f))} : ok1 /\ ~locked}
                      \cup {id \in {Cert(KeyOf(f))} : ~cmd.keyOnly /\ Info[f].cert = "match" /\ ok2 /\ ~locked}
        /\ do_file(ok1 /\ ~locked)
  BY Zenon DEF AddIdentities
<1>2. ids \subseteq ids' /\ ((ok1 /\ ~locked) => Plain(KeyOf(f)) \in ids')
  BY <1>1, Zenon
<1>3. QED BY <1>1, <1>2, Zenon

LEMMA HonestSkipStep ==
  ASSUME ExitInv, SkipMissing
  PROVE  ExitInv'
<1>1. /\ pc = "files" /\ todo # <<>> /\ ~Stat /\ todo' = Tail(todo)
      /\ UNCHANGED <<cmd, pc, ret, count, exitCode, ids>>
  BY DEF SkipMissing, agentVars
<1>2. WalkInv'
  BY <1>1, AdvanceStep DEF ExitInv
<1>3. todo' \in Seq(Files)
  BY <1>1, HeadTailProperties DEF ExitInv
<1>4. QED BY <1>1, <1>2, <1>3 DEF ExitInv, ExitStatusHonest

(* delete_file: the file succeeds only when its key left the agent; the   *)
(* fatal() of a missing certificate exits 255.                            *)
LEMMA HonestDeleteStep ==
  ASSUME ExitInv, delete_file
  PROVE  ExitInv'
<1>0. PICK f : f = Head(todo)
  OBVIOUS
<1>1. pc = "files" /\ todo # <<>> /\ cmd.op = "delete" /\ Stat /\ cmd' = cmd
  BY DEF delete_file
<1>2. CASE Info[f].st = "missing" /\ do_file(FALSE) /\ UNCHANGED <<pass, agentVars>>
  BY <1>0, <1>1, <1>2, DoFileHonest DEF agentVars
<1>3. CASE Info[f].st # "missing" /\
           \E ok \in BOOLEAN :
             LET removed == ok /\ ~locked /\ Plain(KeyOf(f)) \in ids
             IN  /\ ids' = IF removed THEN ids \ {Plain(KeyOf(f))} ELSE ids
                 /\ IF cmd.keyOnly \/ Info[f].cert # "none"
                      THEN do_file(removed)
                      ELSE Fatal /\ UNCHANGED <<todo, ret, count, tries>>
  <2>1. PICK r \in BOOLEAN :
          /\ ids' \subseteq ids
          /\ r => Plain(KeyOf(f)) \notin ids'
          /\ \/ do_file(r)
             \/ Fatal /\ UNCHANGED <<todo, ret, count>>
    BY <1>3, Zenon
  <2>2. CASE do_file(r)
    <3>1. r => Good(f)'
      BY <1>1, <2>1 DEF Good
    <3>2. QED BY <1>0, <1>1, <2>1, <2>2, <3>1, DoFileHonest
  <2>3. CASE Fatal /\ UNCHANGED <<todo, ret, count>>
    BY <1>1, <2>3 DEF Fatal, ExitInv, ExitStatusHonest
  <2>4. QED BY <2>1, <2>2, <2>3
<1>4. QED BY <1>0, <1>2, <1>3 DEF delete_file

(* add_file: a file fails without touching the agent, or its identities    *)
(* are added, or the prompt loop starts on it.                             *)
LEMMA HonestAddStep ==
  ASSUME ExitInv, add_file
  PROVE  ExitInv'
<1>0. PICK f : f = Head(todo)
  OBVIOUS
<1>1. pc = "files" /\ todo # <<>> /\ cmd.op = "add" /\ Stat /\ cmd' = cmd
  BY DEF add_file
<1>2. CASE do_file(FALSE) /\ UNCHANGED ids
  BY <1>0, <1>1, <1>2, DoFileHonest
<1>3. CASE AddIdentities(f)
  <2>1. PICK ok \in BOOLEAN : do_file(ok) /\ ids \subseteq ids' /\ (ok => Plain(KeyOf(f)) \in ids')
    BY <1>3, AddIdsStep
  <2>2. ok => Good(f)'
    BY <1>1, <2>1 DEF Good
  <2>3. QED BY <1>0, <1>1, <2>1, <2>2, DoFileHonest
<1>4. CASE pc' = "prompt" /\ UNCHANGED <<todo, ret, count, exitCode, ids>>
  BY <1>1, <1>4 DEF ExitInv, ExitStatusHonest, WalkInv, Done, NDone, Good, Stat
<1>5. QED BY <1>0, <1>2, <1>3, <1>4 DEF add_file

(* One typed passphrase: give up, add the key, or ask again. *)
LEMMA HonestPromptStep ==
  ASSUME ExitInv, ReadPassphrase
  PROVE  ExitInv'
<1>0. PICK f : f = Head(todo)
  OBVIOUS
<1>1. /\ pc = "prompt" /\ cmd' = cmd
      /\ todo # <<>> /\ cmd.op = "add" /\ Stat
  BY DEF ReadPassphrase, ExitInv
<1>2. CASE do_file(FALSE) /\ UNCHANGED ids
  BY <1>0, <1>1, <1>2, DoFileHonest
<1>3. CASE AddIdentities(f)
  <2>1. PICK ok \in BOOLEAN : do_file(ok) /\ ids \subseteq ids' /\ (ok => Plain(KeyOf(f)) \in ids')
    BY <1>3, AddIdsStep
  <2>2. ok => Good(f)'
    BY <1>1, <2>1 DEF Good
  <2>3. QED BY <1>0, <1>1, <2>1, <2>2, DoFileHonest
<1>4. CASE UNCHANGED <<todo, ret, count, pc, exitCode, ids>>
  BY <1>1, <1>4 DEF ExitInv, ExitStatusHonest, WalkInv, Done, NDone, Good, Stat
<1>5. QED BY <1>0, <1>2, <1>3, <1>4 DEF ReadPassphrase

(* The end of the walk: with all of Walk(cmd) done, ret = 0 is the exit   *)
(* status's promise about every walked file, and a default walk that      *)
(* counted nothing exits 1.                                                *)
LEMMA HonestFinishStep ==
  ASSUME ExitInv, FinishFiles
  PROVE  ExitInv'
<1> DEFINE W == Walk(cmd)
<1>1. /\ pc = "files" /\ todo = <<>> /\ cmd \in Cmds /\ cmd.op \in {"add", "delete"}
      /\ ret \in {0, 1} /\ count \in Nat /\ WalkInv
      /\ UNCHANGED <<cmd, todo, count, ids>> /\ pc' = "exited" /\ exitCode' = ret'
      /\ ret' = IF cmd.args = <<>> /\ count = 0 THEN 1 ELSE ret
  BY DEF FinishFiles, Exit, agentVars, ExitInv
<1>2. W \in Seq(Files) /\ DOMAIN W = 1..Len(W) /\ NDone = Len(W)
  BY <1>1, WalkType DEF NDone
<1>3. ret' \in {0, 1} /\ (ret' = 0 => ret = 0 /\ (cmd.args = <<>> => count > 0))
  BY <1>1
<1>4. ASSUME ret' = 0 PROVE \A g \in Walked(cmd) : Good(g)
  <2> SUFFICES ASSUME NEW j \in DOMAIN W, cmd.args # <<>> \/ Exists(W[j])
               PROVE  Good(W[j])
    BY DEF Walked
  <2>1. Done
    BY <1>1, <1>3, <1>4 DEF WalkInv
  <2>2. QED BY <1>2, <2>1 DEF Done
<1>5. ASSUME ret' = 0 PROVE Walked(cmd) # {}
  <2>1. CASE cmd.args = <<>>
    BY <1>1, <1>3, <1>5, <2>1 DEF WalkInv
  <2>2. CASE cmd.args # <<>>
    <3>1. cmd.args \in Seq(Files)
      BY <1>1, CmdsAssumption
    <3>2. W = cmd.args /\ 1 \in DOMAIN W
      BY <2>2, <3>1, EmptySeq, LenProperties DEF Walk
    <3>3. W[1] \in Walked(cmd)
      BY <2>2, <3>2 DEF Walked
    <3>4. QED BY <3>3
  <2>3. QED BY <2>1, <2>2
<1>6. ExitStatusHonest'
  <2> SUFFICES ASSUME exitCode' = 0 PROVE ExitStatusHonest'
    BY DEF ExitStatusHonest
  <2>1. ret' = 0
    BY <1>1
  <2>2. cmd.op = "add" => Walked(cmd) # {} /\ \A g \in Walked(cmd) : Plain(KeyOf(g)) \in ids
    BY <1>4, <1>5, <2>1 DEF Good
  <2>3. cmd.op = "delete" => \A g \in Walked(cmd) : Plain(KeyOf(g)) \notin ids
    BY <1>4, <2>1 DEF Good
  <2>4. QED BY <1>1, <2>2, <2>3 DEF ExitStatusHonest
<1>7. QED BY <1>1, <1>3, <1>6 DEF ExitInv

LEMMA ExitInvStep == ExitInv /\ [Next]_vars => ExitInv'
<1> SUFFICES ASSUME ExitInv, [Next]_vars PROVE ExitInv'
  OBVIOUS
<1>1. QED BY HonestCommandStep, HonestStartStep, HonestSkipStep, HonestDeleteStep,
             HonestAddStep, HonestPromptStep, HonestFinishStep, HonestExitedStep
          DEF Next

(***************************************************************************)
(* For every configuration: ssh-add's exit status 0 is never a lie.  It    *)
(* exits 0 after adding only when every file it walked (at least one) has  *)
(* its key in the agent, after -d only when none has, after -x/-X only    *)
(* when the agent is locked/unlocked, after -l/-L only when it holds keys  *)
(* (main's ret, 476-566).                                                  *)
(***************************************************************************)
THEOREM ExitStatusSafe == Spec => []ExitStatusHonest
<1>1. Init => ExitInv  BY InitExitInv
<1>2. ExitInv /\ [Next]_vars => ExitInv'  BY ExitInvStep
<1>3. ExitInv => ExitStatusHonest  BY DEF ExitInv
<1>4. QED BY <1>1, <1>2, <1>3, PTL DEF Spec

-----------------------------------------------------------------------------
(***************************************************************************)
(* PassHygiene is not inductive by itself: a step must know where the     *)
(* walk is (ExitInv: todo is the suffix of the walk after the NDone files  *)
(* finished), that a cached pass exists only in an add walk between two    *)
(* files, and that the file being prompted for is an encrypted readable    *)
(* key file, so the phrase that opens it is not the empty one.            *)
(***************************************************************************)
PassRest ==
  /\ PassHygiene
  /\ pass # NoPass => pc = "files" /\ cmd.op = "add"
  /\ pc = "prompt" => Info[Head(todo)].st = "ok" /\ Info[Head(todo)].enc # ""

PassInv == ExitInv /\ PassRest

LEMMA InitPassInv == Init => PassInv
BY InitExitInv DEF Init, PassInv, PassRest, PassHygiene

(* A step of the walk that keeps the cache and hands the head to do_file,  *)
(* or stays on it, keeps the file the cached pass decrypted among the      *)
(* finished ones.                                                          *)
LEMMA CacheKept ==
  ASSUME ExitInv, PassHygiene, pc \in {"files", "prompt"}, todo # <<>>,
         cmd' = cmd, pass' = pass, todo' \in {todo, Tail(todo)}
  PROVE  pass' # NoPass => \E j \in 1..NDone' : Unlocks(pass', Walk(cmd')[j])
<1>1. /\ Walk(cmd) \in Seq(Files) /\ todo \in Seq(Files)
      /\ Len(todo) <= Len(Walk(cmd))
      /\ todo = SubSeq(Walk(cmd), Len(Walk(cmd)) - Len(todo) + 1, Len(Walk(cmd)))
  BY WalkType DEF ExitInv, WalkInv, NDone
<1>2. NDone <= NDone'
  <2>0. Walk(cmd') = Walk(cmd)
    OBVIOUS
  <2>1. CASE todo' = todo
    BY <1>1, <2>0, <2>1, LenProperties DEF NDone
  <2>2. CASE todo' = Tail(todo)
    <3>1. Len(Walk(cmd)) - Len(Tail(todo)) = Len(Walk(cmd)) - Len(todo) + 1
      BY <1>1, SuffixStep
    <3>2. QED BY <2>0, <2>2, <3>1 DEF NDone
  <2>3. QED BY <2>1, <2>2
<1>3. SUFFICES ASSUME pass # NoPass
               PROVE  \E j \in 1..NDone' : Unlocks(pass', Walk(cmd')[j])
  OBVIOUS
<1>4. PICK j \in 1..NDone : Unlocks(pass, Walk(cmd)[j])
  BY <1>3 DEF PassHygiene
<1>5. NDone \in Int /\ NDone' \in Int
  BY <1>1, LenProperties DEF NDone
<1>6. j \in 1..NDone'
  BY <1>2, <1>4, <1>5
<1>7. QED BY <1>4, <1>6

(* An index of a sequence is in the range 1..itself. *)
LEMMA IndexInOwnRange ==
  ASSUME NEW L \in Nat, NEW k \in 1..L
  PROVE  k \in 1..k
OBVIOUS

(* The phrase that opened the prompted file is cached as that file is      *)
(* finished: it decrypts the NDone'-th file of the walk.                   *)
LEMMA CachePrompted ==
  ASSUME ExitInv, pc = "prompt", todo # <<>>, cmd' = cmd, todo' = Tail(todo),
         Info[Head(todo)].st = "ok", Info[Head(todo)].enc # "",
         pass' = Info[Head(todo)].enc
  PROVE  \E j \in 1..NDone' : Unlocks(pass', Walk(cmd')[j])
<1>1. /\ Walk(cmd) \in Seq(Files) /\ todo \in Seq(Files)
      /\ Len(todo) <= Len(Walk(cmd))
      /\ todo = SubSeq(Walk(cmd), Len(Walk(cmd)) - Len(todo) + 1, Len(Walk(cmd)))
  BY WalkType DEF ExitInv, WalkInv, NDone
<1>2. /\ Len(Walk(cmd)) - Len(todo) + 1 \in 1..Len(Walk(cmd))
      /\ Head(todo) = Walk(cmd)[Len(Walk(cmd)) - Len(todo) + 1]
      /\ Len(Walk(cmd)) - Len(Tail(todo)) = Len(Walk(cmd)) - Len(todo) + 1
  BY <1>1, SuffixStep
<1>3. NDone' = Len(Walk(cmd)) - Len(todo) + 1
  BY <1>2 DEF NDone
<1>4. Walk(cmd')[NDone'] = Head(todo)
  <2>1. Walk(cmd') = Walk(cmd)
    OBVIOUS
  <2>2. QED BY <1>2, <1>3, <2>1
<1>5. Unlocks(pass', Head(todo))
  BY DEF Unlocks
<1>6. NDone' \in 1..NDone'
  <2>1. Len(Walk(cmd)) \in Nat
    BY <1>1, LenProperties
  <2>2. QED BY <1>2, <1>3, <2>1, IndexInOwnRange, Zenon
<1>7. QED BY <1>4, <1>5, <1>6

(* Leaving "connect" or "run": pass is still NULL and nothing caches it. *)
LEMMA PassCommandStep ==
  ASSUME PassInv,
         \/ Connect \/ StartFiles \/ ListIdentities \/ LockAgent \/ DeleteAll
         \/ UpdateCard \/ BadOption
  PROVE  PassRest'
<1>1. pc \in {"connect", "run"}
  BY DEF Connect, StartFiles, ListIdentities, LockAgent, DeleteAll, UpdateCard, BadOption
<1>2. pass = NoPass
  BY <1>1 DEF PassInv, PassRest
<1>3. pass' = pass /\ pc' \in {"run", "files", "exited"}
  BY Zenon DEF Connect, StartFiles, ListIdentities, LockAgent, DeleteAll, UpdateCard,
               BadOption, Exit
<1>4. QED BY <1>2, <1>3 DEF PassRest, PassHygiene

(* Skipping a missing default file keeps the cache and the finished files. *)
LEMMA PassSkipStep ==
  ASSUME PassInv, SkipMissing
  PROVE  PassRest'
<1>1. pc = "files" /\ todo # <<>> /\ todo' = Tail(todo)
      /\ UNCHANGED <<cmd, pc, pass, exitCode>>
  BY DEF SkipMissing
<1>2. exitCode = -1
  BY <1>1 DEF PassInv, ExitInv
<1>3. pass' # NoPass => \E j \in 1..NDone' : Unlocks(pass', Walk(cmd')[j])
  BY <1>1, CacheKept DEF PassInv, PassRest
<1>4. QED BY <1>1, <1>2, <1>3 DEF PassInv, PassRest, PassHygiene

(* ssh-add -d never caches a passphrase. *)
LEMMA PassDeleteStep ==
  ASSUME PassInv, delete_file
  PROVE  PassRest'
<1>1. cmd.op = "delete" /\ pass' = pass /\ cmd' = cmd
  BY DEF delete_file
<1>2. pass = NoPass
  BY <1>1 DEF PassInv, PassRest
<1>3. pc' \in {"files", "exited"}
  BY DEF delete_file, do_file, Fatal
<1>4. QED BY <1>1, <1>2, <1>3 DEF PassRest, PassHygiene

(* add_file: a failing file keeps or clears the cache, a file the cache or *)
(* no passphrase opens keeps it, and the prompt starts with it cleared.    *)
LEMMA PassAddStep ==
  ASSUME PassInv, add_file
  PROVE  PassRest'
<1>0. PICK f : f = Head(todo)
  OBVIOUS
<1>1. pc = "files" /\ todo # <<>> /\ cmd.op = "add" /\ cmd' = cmd
  BY DEF add_file
<1>2. exitCode = -1
  BY <1>1 DEF PassInv, ExitInv
<1>3. CASE pass' = pass /\ todo' = Tail(todo) /\ pc' = "files" /\ exitCode' = exitCode
  <2>1. pass' # NoPass => \E j \in 1..NDone' : Unlocks(pass', Walk(cmd')[j])
    BY <1>1, <1>3, CacheKept DEF PassInv, PassRest
  <2>2. QED BY <1>1, <1>2, <1>3, <2>1 DEF PassRest, PassHygiene
<1>4. CASE pass' = NoPass /\ pc' = "files"
  BY <1>4 DEF PassRest, PassHygiene
<1>5. CASE /\ pass' = NoPass /\ pc' = "prompt" /\ todo' = todo
           /\ Info[f].st = "ok" /\ Info[f].enc # ""
  BY <1>0, <1>5 DEF PassRest, PassHygiene
<1>6. \/ pass' = pass /\ todo' = Tail(todo) /\ pc' = "files" /\ exitCode' = exitCode
      \/ pass' = NoPass /\ pc' = "files"
      \/ /\ pass' = NoPass /\ pc' = "prompt" /\ todo' = todo
         /\ Info[f].st = "ok" /\ Info[f].enc # ""
  BY <1>0 DEF add_file, AddIdentities, do_file
<1>7. QED BY <1>3, <1>4, <1>5, <1>6

(* The prompt: giving up or a wrong phrase leaves the cache cleared; the   *)
(* right phrase is cached as its file is finished.                         *)
LEMMA PassPromptStep ==
  ASSUME PassInv, ReadPassphrase
  PROVE  PassRest'
<1>0. PICK f : f = Head(todo)
  OBVIOUS
<1>1. /\ pc = "prompt" /\ todo # <<>> /\ cmd' = cmd
      /\ Info[f].st = "ok" /\ Info[f].enc # ""
  BY <1>0 DEF ReadPassphrase, PassInv, ExitInv, PassRest
<1>2. cmd.op = "add"
  BY <1>1 DEF PassInv, ExitInv
<1>3. CASE pass' = NoPass /\ pc' = "files"
  BY <1>3 DEF PassRest, PassHygiene
<1>4. CASE pass' = NoPass /\ pc' = "prompt" /\ todo' = todo
  BY <1>0, <1>1, <1>4 DEF PassRest, PassHygiene
<1>5. CASE pass' = Info[f].enc /\ pc' = "files" /\ todo' = Tail(todo) /\ exitCode' = exitCode
  <2>1. \E j \in 1..NDone' : Unlocks(pass', Walk(cmd')[j])
    BY <1>0, <1>1, <1>5, CachePrompted DEF PassInv
  <2>2. exitCode = -1
    BY <1>1 DEF PassInv, ExitInv
  <2>3. PassHygiene'
    <3>1. pc' # "prompt" /\ exitCode' \notin {0, 1}
      BY <1>5, <2>2
    <3>2. QED BY <2>1, <3>1 DEF PassHygiene
  <2>4. pass' # NoPass => pc' = "files" /\ cmd'.op = "add"
    BY <1>1, <1>2, <1>5
  <2>5. QED BY <1>5, <2>3, <2>4 DEF PassRest
<1>6. \/ pass' = NoPass /\ pc' = "files"
      \/ pass' = NoPass /\ pc' = "prompt" /\ todo' = todo
      \/ pass' = Info[f].enc /\ pc' = "files" /\ todo' = Tail(todo) /\ exitCode' = exitCode
  BY <1>0 DEF ReadPassphrase, AddIdentities, do_file
<1>7. QED BY <1>3, <1>4, <1>5, <1>6

(* The end of the walk clears the cache; an exited process changes nothing. *)
LEMMA PassFinishStep ==
  ASSUME PassInv, FinishFiles \/ Exited \/ UNCHANGED vars
  PROVE  PassRest'
<1>1. CASE FinishFiles
  BY <1>1 DEF FinishFiles, Exit, PassRest, PassHygiene
<1>2. CASE Exited \/ UNCHANGED vars
  BY <1>2 DEF Exited, vars, PassInv, PassRest, PassHygiene, NDone
<1>3. QED BY <1>1, <1>2

LEMMA PassInvStep == PassInv /\ [Next]_vars => PassInv'
<1> SUFFICES ASSUME PassInv, [Next]_vars PROVE PassInv'
  OBVIOUS
<1>1. ExitInv'
  BY ExitInvStep DEF PassInv
<1>2. PassRest'
  BY PassCommandStep, PassSkipStep, PassDeleteStep, PassAddStep, PassPromptStep,
     PassFinishStep DEF Next
<1>3. QED BY <1>1, <1>2 DEF PassInv

(***************************************************************************)
(* For every configuration: add_file's cached passphrase only ever holds  *)
(* one that decrypted a key file this walk has already finished (never a  *)
(* mistyped phrase, the empty answer, or a cached phrase that failed on    *)
(* the next file), is cleared while the prompt waits, and is wiped by the *)
(* time main() returns 0 or 1.                                             *)
(***************************************************************************)
THEOREM PassHygieneSafe == Spec => []PassHygiene
<1>1. Init => PassInv  BY InitPassInv
<1>2. PassInv /\ [Next]_vars => PassInv'  BY PassInvStep
<1>3. PassInv => PassHygiene  BY DEF PassInv, PassRest
<1>4. QED BY <1>1, <1>2, <1>3, PTL DEF Spec
=============================================================================
