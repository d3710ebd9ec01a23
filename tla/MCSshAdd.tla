------------------------------- MODULE MCSshAdd ------------------------------
(***************************************************************************)
(* Model values for SshAdd.  Three keys: ka (version 2, passphrase "pw",  *)
(* with a matching certificate), kb (version 2, unencrypted), kc (rsa1,   *)
(* passphrase "qq", so the pass cached from ka fails on it and must be    *)
(* cleared before the prompt).  Five files: fa, fb and fc hold them, fg   *)
(* is garbled, fm does not exist.  The user types a right phrase, a wrong *)
(* one or the empty one, at most once wrong per file.                     *)
(***************************************************************************)
EXTENDS SshAdd

MCKeyVer == [k \in Keys |-> IF k = "kc" THEN 1 ELSE 2]

MCInfo ==
  [f \in Files |->
     CASE f = "fa" -> [st |-> "ok", key |-> "ka", enc |-> "pw", cert |-> "match"]
       [] f = "fb" -> [st |-> "ok", key |-> "kb", enc |-> "", cert |-> "none"]
       [] f = "fc" -> [st |-> "ok", key |-> "kc", enc |-> "qq", cert |-> "mismatch"]
       [] f = "fg" -> [st |-> "garbled", key |-> "kb", enc |-> "", cert |-> "none"]
       [] OTHER    -> [st |-> "missing", key |-> "ka", enc |-> "", cert |-> "none"]]

MCDefaultFiles == <<"fm", "fb", "fa">>

Line(op, k, a) == [op |-> op, keyOnly |-> k, args |-> a]

(* Every command ssh-add dispatches on, and file lists that reach the     *)
(* passphrase cache, the retry loop, every failure and the default files. *)
MCCmdsAll ==
  {Line(op, FALSE, <<>>) : op \in {"list", "lock", "unlock", "deleteAll",
                                   "cardAdd", "cardDel", "badLifetime", "usage"}}
  \cup {Line("add", FALSE, <<"fa", "fc">>), Line("add", TRUE, <<"fg", "fa">>),
        Line("add", FALSE, <<>>), Line("add", FALSE, <<"fm", "fb">>),
        Line("delete", FALSE, <<"fa">>), Line("delete", TRUE, <<"fm", "fb", "fc">>),
        Line("delete", TRUE, <<>>), Line("delete", FALSE, <<"fb">>)}

MCCmdsDelete == {Line("delete", FALSE, <<"fa">>), Line("delete", FALSE, <<"fb">>)}

MCCmdsDeleteAll == {Line("deleteAll", FALSE, <<>>)}

MCInitIds == {{}, {<<"ka", "plain">>, <<"ka", "cert">>, <<"kc", "plain">>},
              {<<"kb", "plain">>}}
=============================================================================
