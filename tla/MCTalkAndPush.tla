---------------------------- MODULE MCTalkAndPush ----------------------------
(* TalkAndPush for TLC: two users, one with a key that calls the other, who calls
   and answers directly; both reconnect while an old connection is still being cleaned up;
   and the pushes to the two connections of one
   user. *)
EXTENDS TalkAndPush, TLC

CONSTANTS u1, u2, b1

Key(mode, users) == [id |-> b1, mode |-> mode, users |-> users]
TalkConfigs == {{}, {Key("latching", <<u2>>)}}
CalledBack == {<<u2, u1>>}

ASSUME P!PushAssumption
=============================================================================
