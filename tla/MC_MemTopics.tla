---------------------------- MODULE MC_MemTopics ----------------------------
(***************************************************************************)
(* An instance of MemTopics for TLC.                                       *)
(***************************************************************************)
EXTENDS MemTopics, TLC

CONSTANTS m1, m2

Sub(topic, id) == [topic |-> topic, id |-> id]

(* Filters above, beside and below each other, with each wildcard, an empty
   first and last level, and two that are refused half way. *)
SomeSubs ==
  { Sub(<<"a">>, 1), Sub(<<"a", "b">>, 1), Sub(<<"a", "b", "">>, 2),
    Sub(<<"", "b">>, 1), Sub(<<"a", "#">>, 1), Sub(<<"#">>, 1),
    Sub(<<"b", "#", "a">>, 1), Sub(<<"b", "a+">>, 1) }

SomeTopicNames ==
  { <<"a">>, <<"a", "b">>, <<"a", "a">>, <<"", "b">>, <<"b", "a", "a+">> }
=============================================================================
