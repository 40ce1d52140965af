------------------------- MODULE ProgressiveMessage -------------------------
(***************************************************************************)
(* telegram/stream_editor.go: the chat bubble of one reply, sent once and  *)
(* then edited while the LLM streams, driven as HandleMessage drives it    *)
(* (modules/advisor/biz/chat_handler.go:194-245): Start "", Append for     *)
(* every chunk, Finish, then ReplaceWith when there is a trade card; or    *)
(* ReplaceWith alone, the apology, when no chunk came.                     *)
(*                                                                         *)
(* A text is its version, in the order the handler renders them, and       *)
(* whether it has white space for TrimSpace to remove.  An Append of the   *)
(* empty text returns at once and is no step here.                         *)
(*                                                                         *)
(* External: Telegram.  A call succeeds, fails, or is carried out although *)
(* the client is told it failed (its answer is lost).                      *)
(***************************************************************************)
EXTENDS Naturals, Sequences

CONSTANTS
  MaxVersions,   (* bound: how many different texts a reply goes through   *)
  MaxBubbles     (* bound: how many messages Telegram delivers             *)

ASSUME BubbleAssumption == MaxVersions \in Nat /\ MaxBubbles \in Nat \ {0}

Stages   == {"streaming", "finished", "replaced"}
Versions == 0 .. MaxVersions
Texts    == [version: Versions, ragged: BOOLEAN]
Nothing  == [version |-> 0, ragged |-> FALSE]
NoCall   == [method |-> "none", text |-> Nothing]

VARIABLES
  stage,       (* the handler: "streaming", "finished", "replaced"         *)
  versions,    (* history: how many texts the handler has rendered         *)
  buffer, lastSent,
  messageID,   (* 0 until a first send is acknowledged                     *)
  open,        (* time.Since(lastFlush) >= flushEvery                      *)
  call,        (* the request on its way to Telegram                       *)
  screen,      (* Telegram: the version each bubble shows, by message ID   *)
  lost,        (* history: first sends that arrived but reported an error  *)
  failed       (* history: the stage and version of requests that          *)
               (* reported an error                                        *)

vars == <<stage, versions, buffer, lastSent, messageID, open, call, screen,
          lost, failed>>

Init ==
  /\ stage = "streaming" /\ versions = 0
  /\ buffer = Nothing /\ lastSent = Nothing /\ messageID = 0
  /\ open = FALSE /\ call = NoCall
  /\ screen = <<>> /\ lost = 0 /\ failed = {}

Idle == call = NoCall

-----------------------------------------------------------------------------
Trim(text) == [version |-> text.version, ragged |-> FALSE]

(* A text not rendered before.                                             *)
Fresh(text) == text.version = versions + 1

Render(text) ==
  /\ versions' = text.version
  /\ buffer' = text

sendFirst(text) ==
  /\ call' = IF text = Nothing THEN NoCall ELSE [method |-> "send", text |-> text]
  /\ UNCHANGED <<lastSent, open>>

(* lastSent and lastFlush are set before the request is made.              *)
flush(text) ==
  IF text = Nothing \/ text = lastSent
  THEN UNCHANGED <<lastSent, open, call>>
  ELSE /\ lastSent' = text
       /\ open' = FALSE
       /\ call' = [method |-> "edit", text |-> text]

Paint(text) == IF messageID = 0 THEN sendFirst(text) ELSE flush(text)

(* Seeded fault: only what is not painted at once is kept.                 *)
AppendChunkOrPaint ==
  /\ stage = "streaming" /\ Idle
  /\ \E text \in Texts :
       /\ Fresh(text) \/ (text = buffer /\ versions > 0)
       /\ IF open THEN /\ versions' = text.version
                       /\ Paint(text) /\ UNCHANGED buffer
          ELSE Render(text) /\ UNCHANGED <<lastSent, open, call>>
  /\ UNCHANGED <<stage, messageID, screen, lost, failed>>

(* One more chunk: a new text, or one that renders as the last one did.    *)
AppendChunk ==
  /\ stage = "streaming" /\ Idle
  /\ \E text \in Texts :
       /\ Fresh(text) \/ (text = buffer /\ versions > 0)
       /\ Render(text)
       /\ IF open THEN Paint(text) ELSE UNCHANGED <<lastSent, open, call>>
  /\ UNCHANGED <<stage, messageID, screen, lost, failed>>

(* Seeded fault: the last flush is throttled too.                          *)
FinishThrottled ==
  /\ stage = "streaming" /\ Idle
  /\ stage' = "finished"
  /\ IF open THEN Paint(Trim(buffer)) ELSE UNCHANGED <<lastSent, open, call>>
  /\ UNCHANGED <<versions, buffer, messageID, screen, lost, failed>>

Finish ==
  /\ stage = "streaming" /\ Idle
  /\ stage' = "finished"
  /\ Paint(Trim(buffer))
  /\ UNCHANGED <<versions, buffer, messageID, screen, lost, failed>>

(* The trade card after Finish, or the apology instead of a reply.         *)
ReplaceWith ==
  /\ stage = "finished" \/ (stage = "streaming" /\ versions = 0)
  /\ Idle
  /\ \E text \in Texts : Fresh(text) /\ Render(text) /\ Paint(text)
  /\ stage' = "replaced"
  /\ UNCHANGED <<messageID, screen, lost, failed>>

-----------------------------------------------------------------------------
Deliver ==
  IF call.method = "send"
  THEN Len(screen) < MaxBubbles /\ screen' = Append(screen, call.text.version)
  ELSE screen' = [screen EXCEPT ![messageID] = call.text.version]

(* Seeded fault: the message ID is not stored.                             *)
AcknowledgedForgotten ==
  /\ ~Idle /\ call' = NoCall
  /\ Deliver
  /\ IF call.method = "send"
     THEN lastSent' = call.text /\ open' = FALSE
     ELSE UNCHANGED <<lastSent, open>>
  /\ UNCHANGED <<stage, versions, buffer, messageID, lost, failed>>

(* sendFirst stores the message ID, lastSent and lastFlush on success.     *)
Acknowledged ==
  /\ ~Idle /\ call' = NoCall
  /\ Deliver
  /\ IF call.method = "send"
     THEN messageID' = Len(screen') /\ lastSent' = call.text /\ open' = FALSE
     ELSE UNCHANGED <<messageID, lastSent, open>>
  /\ UNCHANGED <<stage, versions, buffer, lost, failed>>

Error ==
  /\ ~Idle /\ call' = NoCall
  /\ failed' = failed \cup {<<stage, call.text.version>>}
  /\ UNCHANGED <<stage, versions, buffer, lastSent, messageID, open>>

Rejected == Error /\ UNCHANGED <<screen, lost>>

AnswerLost ==
  /\ Error
  /\ Deliver
  /\ lost' = IF call.method = "send" THEN lost + 1 ELSE lost

(* The throttle window goes by.                                            *)
Wait ==
  /\ ~open /\ stage = "streaming"
  /\ open' = TRUE
  /\ UNCHANGED <<stage, versions, buffer, lastSent, messageID, call, screen,
                 lost, failed>>

Next ==
  \/ AppendChunk \/ Finish \/ ReplaceWith
  \/ Acknowledged \/ Rejected \/ AnswerLost
  \/ Wait

Spec == Init /\ [][Next]_vars

-----------------------------------------------------------------------------
(* sendFirst, guarded by messageID: a reply is one bubble.  The only way   *)
(* to a second one is a first send whose answer was lost.                  *)
OneBubble == Len(screen) = lost + (IF messageID = 0 THEN 0 ELSE 1)

(* What the newest bubble shows is a text the handler rendered, and it is  *)
(* never put back to an older one by a throttled Append, by Finish or by   *)
(* ReplaceWith.                                                            *)
Shown == IF screen = <<>> THEN 0 ELSE screen[Len(screen)]

Reply == INSTANCE Follower WITH source <- versions, copy <- Shown
ReplyNeverGoesBack == Reply!Spec

(* Finish and ReplaceWith: once the reply is over, the bubble that edits   *)
(* go to shows its last text, whatever the throttle held back before,      *)
(* unless a request for just this text has failed.                         *)
LastTextShown ==
  (/\ Idle /\ stage # "streaming" /\ buffer # Nothing
   /\ \A s \in Stages : <<s, buffer.version>> \notin failed)
    => messageID # 0 /\ screen[messageID] = buffer.version

(* The comment on Finish (stream_editor.go:110-111): it forces a final     *)
(* flush so that the user sees the full reply.  If Telegram carries out    *)
(* every request made from Finish on, the reply should be shown in full.   *)
FinishShowsReply ==
  (/\ Idle /\ stage = "finished" /\ buffer # Nothing
   /\ \A v \in Versions : <<"finished", v>> \notin failed)
    => messageID # 0 /\ screen[messageID] = buffer.version

=============================================================================
