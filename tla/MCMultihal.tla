---------------------------- MODULE MCMultihal ------------------------------
(* Small instances of Multihal. *)
EXTENDS Multihal, TLC

CONSTANT Unknown

Ordinary(h) == [meta |-> FALSE, handle |-> h]
Meta(h) == [meta |-> TRUE, handle |-> h]

\* Two registered sensors of the one sub-HAL.
OneHalHandles == (<<0, 1>> :> 1) @@ (<<0, 2>> :> 2)
\* Two sub-HALs that use the same local handle for different sensors.
TwoHalHandles == (<<0, 1>> :> 1) @@ (<<1, 1>> :> 2) @@ (<<1, 2>> :> 3)

RingEvents == {Ordinary(1), Ordinary(2), Meta(1)}
MuxEvents == {Ordinary(1), Ordinary(2)}
LiveEvents == {Ordinary(1)}
BadEvents == {Ordinary(1), Ordinary(Unknown), Meta(Unknown)}
=============================================================================
