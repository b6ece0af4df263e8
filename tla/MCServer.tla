------------------------------ MODULE MCServer ------------------------------
(***************************************************************************)
(* The server's own machines, side by side: a behaviour is one of them,    *)
(* chosen at the start, while the others keep their initial state. They    *)
(* share no state in the code either.                                      *)
(***************************************************************************)
EXTENDS Limits, Boot, ContentStore, TLC

VARIABLE part

\* Two bundles of one label and one of another.
MCChecksums == {<<"v1", 1>>, <<"v1", 2>>, <<"v2", 1>>}

vars == <<part, bucket, boot, store>>

Init ==
    /\ part \in {"limits", "boot", "store"}
    /\ LimitsInit /\ BootInit /\ StoreInit
    /\ part # "boot" => \A i \in Instances : bundle[i] = <<"v1", 1>>
    /\ part # "store" => connections = 1

LimitsSteps == part = "limits" /\ LimitsNext /\ UNCHANGED <<part, boot, store>>
BootSteps == part = "boot" /\ BootNext /\ UNCHANGED <<part, bucket, store>>
StoreSteps == part = "store" /\ StoreNext /\ UNCHANGED <<part, bucket, boot>>

Spec == Init /\ [][LimitsSteps \/ BootSteps \/ StoreSteps]_vars /\ StoreFairness
=============================================================================
