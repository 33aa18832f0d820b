------------------------------ MODULE MCBroker ------------------------------
(* Two accounts at MetaApi, for TLC. *)
EXTENDS Broker, TLC

CONSTANTS t1, t2, a1, a2

TwoOwners == (t1 :> a1) @@ (t2 :> a2)
BothMeta == (a1 :> "metaapi") @@ (a2 :> "metaapi")
==============================================================================
