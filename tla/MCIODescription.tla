---------------------------- MODULE MCIODescription ----------------------------
(***************************************************************************)
(* Small instances of IODescription: two devices of any two classes of one *)
(* protocol.                                                               *)
(***************************************************************************)
EXTENDS IODescription

SameProtocol == {c \in Platform : \A d, e \in Devices : \E p \in Protocols : {c[d], c[e]} \subseteq p}
LeftInitiator == {<<"left", "initiator">>}
TwoElements == {[name |-> "A", mode |-> "IN_MODE"], [name |-> "B", mode |-> "OUT_MODE"]}
==============================================================================
