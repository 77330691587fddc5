----------------------------- MODULE MCLocalApi -----------------------------
(* LocalApi for TLC: a user of the terminal, one key, no admin. *)
EXTENDS LocalApi

PushKey == {[id |-> "push", mode |-> "momentary", channels |-> {2}, users |-> {}]}
=============================================================================
