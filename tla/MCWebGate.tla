------------------------------ MODULE MCWebGate ------------------------------
(* Instances of WebGate for TLC: the owner of the sessions, at an address   *)
(* they allow, and a guest at one they do not.                              *)
EXTENDS WebGate

CONSTANTS a, b, owner, guest

TwoIds      == {a, b}
OneId       == {a}
Both        == {owner, guest}
OwnerOnly   == {owner}
AllowA      == {<<owner, a>>}
AllowOwner  == {<<owner, a>>, <<owner, b>>}
=============================================================================
