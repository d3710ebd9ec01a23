-------------------------- MODULE MCKexEcdhServer --------------------------
(* Model values for KexEcdhServer: three exchanges (the first and two      *)
(* re-keys), one supported curve and one name the code does not map.       *)
EXTENDS KexEcdhServer

MCMaxKex == 3
MCNames == {"ecdh-sha2-nistp256", "ecdh-sha2-foo"}
MCCurves == {"ecdh-sha2-nistp256"}
=============================================================================
