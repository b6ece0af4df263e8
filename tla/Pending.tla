------------------------------- MODULE Pending ------------------------------
(***************************************************************************)
(* apps/web/src/ui/use-pending.ts: the registry of the values a control    *)
(* shows while its requests are unsettled. A held value carries the token  *)
(* of the run that asked for it, and only that run's settling releases it. *)
(***************************************************************************)
EXTENDS Naturals

CONSTANT Nobody   \* the token of a key nobody holds

ASSUME NobodyIsNoToken == Nobody \notin Nat

NotHeld == [value |-> Nobody, token |-> Nobody]

HeldKey(held, key) == held[key].token # Nobody

\* shown: the held value, else the server's.
ShownAt(held, key, server) == IF HeldKey(held, key) THEN held[key].value ELSE server

\* run: the newest request of a key takes it over.
Holding(held, key, value, token) == [held EXCEPT ![key] = [value |-> value, token |-> token]]

Releasing(held, key, token) ==
    IF held[key].token = token THEN [held EXCEPT ![key] = NotHeld] ELSE held
=============================================================================
