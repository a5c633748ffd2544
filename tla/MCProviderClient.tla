---- MODULE MCProviderClient ----
(* Two processes looking one request up. *)
EXTENDS ProviderClient, TLC

MCDelays == {0, 2}
MCVersions == {1, 2}
====
