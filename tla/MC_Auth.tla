-------------------------------- MODULE MC_Auth --------------------------------
(* TLC instance of Auth: one active and one disabled user, secrets of a    *)
(* few characters with a minimum length of 2 standing for 32 bytes.        *)
EXTENDS Auth, TLC

CONSTANTS u1, u2

MCUsers == {u1, u2}
MCStatus == (u1 :> "active" @@ u2 :> "disabled")
MCChars == {"a", "d", "x"}
MCDefaultSecret == <<"d", "d", "d">>
MCConfiguredSecret == <<"a">>
MCKnownSecrets == {MCDefaultSecret}
MCUnset == <<>>
=============================================================================
