----------------------------- MODULE MCDeviceLink -----------------------------
(***************************************************************************)
(* Model-checking instances of DeviceLink.                                 *)
(***************************************************************************)
EXTENDS DeviceLink

CONSTANTS d1, d2, c1, c2, k1

MCConns == {c1, c2}
MCOneCaller == {k1}

FairSpec == Spec /\ InvokeFairness
=============================================================================
