------------------------------ MODULE MCSotp -------------------------------
(* Instances of Sotp for TLC.                                              *)
EXTENDS Sotp

CONSTANTS va, vb

\* Three types; one of them is set to two different values.
MCCalls == {<<0, va>>, <<0, vb>>, <<1, va>>, <<2, va>>}
=============================================================================
