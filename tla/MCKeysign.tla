------------------------------ MODULE MCKeysign -----------------------------
(***************************************************************************)
(* Model values for Keysign.  The local host name is "a"; the caller's    *)
(* client host names are every string of up to two characters over a, A, *)
(* b and the dot.  size_t and u_int32_t are narrowed to 16 and 8 bits: the *)
(* lengths and descriptor numbers of the model are far below both, and    *)
(* what the checks depend on is the wrap of 0 - 1 and of the top bit.     *)
(***************************************************************************)
EXTENDS Keysign

Chars == {"a", "A", "b", "."}
MCCHosts == UNION {[1..n -> Chars] : n \in 0..2}

(* The validator's question: every combination of the signed-data fields. *)
MCRequestsFields ==
  [version : {2}, fd : {3}, sidLen : {20, 32, 0}, type : {50, 0},
   service : {"ssh-connection", "foo"}, method : {"hostbased", "publickey"},
   pkalg : {"ecdsa", "rsa", "foo"},
   blob : {<<"ecdsa", "host">>, <<"rsa", "host">>, <<"ecdsa", "other">>, BadBlob},
   chost : MCCHosts, luser : {"me", "other"}, rest : {"none", "extra", "short"}]

(* The flow's question: the outer message and the choice of host key. *)
MCRequestsFlow ==
  [version : {2, 1}, fd : {0, 1, 2, 3, 255}, sidLen : {20}, type : {50},
   service : {"ssh-connection"}, method : {"hostbased"},
   pkalg : {"dsa", "ecdsa", "rsa"},
   blob : {<<"dsa", "host">>, <<"ecdsa", "host">>, <<"rsa", "host">>, <<"rsa", "other">>},
   chost : {<<"a", ".">>}, luser : {"me"}, rest : {"none"}]

MCLocalName == <<"a">>
MCKeyFilesOne == {{2}}
MCKeyFilesAll == SUBSET {1, 2, 3}
=============================================================================
