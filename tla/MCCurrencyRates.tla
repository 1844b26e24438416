-------------------------- MODULE MCCurrencyRates --------------------------
(* Instances of CurrencyRates for TLC. *)
EXTENDS CurrencyRates

CONSTANT server

\* Two threads of one server process, which uses Redis or a store of its own.
\* Two processes either share Redis, like these threads, or share nothing.
MCProcessOf == [w \in Workers |-> server]
=============================================================================
