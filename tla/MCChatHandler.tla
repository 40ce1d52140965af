---------------------------- MODULE MCChatHandler ----------------------------
(* A small instance of ChatHandler for TLC.                                *)
EXTENDS ChatHandler

CONSTANTS c1, c2

In(c, kind, names) == [chat |-> c, kind |-> kind, names |-> names]

MCTurns == HandlerTurns

(* Two messages over a long stretch of time: commands and a question that  *)
(* names a pair, a follow-up that does not, or another chat's question.    *)
(* The first update is for somebody else.                                  *)
Spread ==
  LET foreign  == In(c2, "rejected", "")
      commands == {In(c1, kind, "") :
                     kind \in {"start", "reset", "alerts_on", "alerts_off", "other"}}
      question == In(c1, "text", "BTC")
      followUp == In(c1, "text", "")
  IN {<<foreign, a, b>> : a \in commands \cup {question}, b \in commands \cup {followUp}}
       \cup {<<foreign, a, In(c1, "analyze", "")>> : a \in commands}
       \cup {<<foreign, In(c1, "text", ""), In(c2, "analyze", "")>>}

(* One chat: two questions and a command that race near the end of the     *)
(* explored time.                                                          *)
Race ==
  {<<In(c1, "text", ""), In(c1, "text", ""), In(c1, kind, "")>> :
      kind \in {"start", "reset"}}

MCScenarios ==
  [start : {AlertActivityWindow + 1}, inputs : Spread]
    \cup [start : {MaxNow - Budget}, inputs : Race]

=============================================================================
