---------------------------- MODULE MCAdminStore ----------------------------
(* AdminStore for TLC: requests of two users one at a time, hellos among them, while one
   sends audio; and the requests of one user two at a time. *)
EXTENDS AdminStore, TLC

CONSTANTS u1, u2, h1, h2

Ask(ops, users) == ops \X users
OneAtATime ==
  [asked |-> (h1 :> Ask(AllOps, {u1, u2})) @@ (h2 :> {}), heard |-> {u1}]
TwoAtOnce ==
  [asked |-> (h1 :> Ask(AllOps \ {"hello"}, {u1})) @@ (h2 :> Ask({"put", "config"}, {u1})), heard |-> {}]
PutsAtOnce == {[asked |-> [h \in {h1, h2} |-> Ask({"put"}, {u1})], heard |-> {}]}
SomeLoads == {OneAtATime, TwoAtOnce}
=============================================================================
