-------------------------------- MODULE MCUi --------------------------------
(***************************************************************************)
(* Three parts of the page, side by side: a behaviour is one of them,      *)
(* chosen at the start, while the others keep their initial state.         *)
(***************************************************************************)
EXTENDS Polling, Taps, PriorityList, TLC

VARIABLE part

vars == <<part, polling, crank, priorities>>

\* Power and a row are in sight, a row between them opens with the tier, and a re-pin adds one.
MCUnlock == "power" :> 0 @@ "a" :> 0 @@ "b" :> 1 @@ "n" :> 0

Init ==
    /\ part \in {"polling", "taps", "priority"}
    /\ PollingInit(part = "polling") /\ TapsInit /\ PriorityInit(<<"power", "b", "a">>)

PollingSteps == part = "polling" /\ PollingNext /\ UNCHANGED <<part, crank, priorities>>
TapsSteps == part = "taps" /\ TapsNext /\ UNCHANGED <<part, polling, priorities>>
PrioritySteps == part = "priority" /\ PriorityNext /\ UNCHANGED <<part, polling, crank>>

Next == PollingSteps \/ TapsSteps \/ PrioritySteps

Spec == Init /\ [][Next]_vars
=============================================================================
