----------------------------- MODULE DevicesMC -----------------------------
(* Two letters: a string that repeats one, and the other. *)
EXTENDS Devices
TheStrings == {<<"a", "a">>, <<"b">>}
=============================================================================
