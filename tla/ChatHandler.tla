----------------------------- MODULE ChatHandler -----------------------------
(***************************************************************************)
(* modules/advisor/biz/chat_handler.go over the session store.  Run takes  *)
(* the messages of the transport in their order and starts one goroutine   *)
(* per accepted message; the goroutines of one chat then run side by side. *)
(* Message m is the m-th update of the transport; handlers[m] is the local *)
(* state of its goroutine.  A step ends where the goroutine next touches   *)
(* state shared with another one, or waits for the network.                *)
(*                                                                         *)
(* External: the LLM, the candle fetcher and Telegram.  The LLM's text is  *)
(* abstracted to the classes the handler tells apart:                      *)
(*   none   nothing yet               blank  white space only              *)
(*   dump   only echoed market data   prose  ordinary text                 *)
(*   fence  a ```json fence that does not parse to a valid decision        *)
(*   trade  a fence that does                                              *)
(***************************************************************************)
EXTENDS SessionStore, FiniteSets

CONSTANTS
  NumMsgs,        (* how many updates the transport delivers               *)
  Scenarios,      (* when the process starts, and the updates that follow  *)
  Replies,        (* classes of text the LLM produces                      *)
  DefaultSymbol,  (* the pair analysed when nothing names another          *)
  Budget          (* context.WithTimeout of one handler (90 s)             *)

Msgs   == 1 .. NumMsgs
Kinds  == {"rejected", "start", "reset", "alerts_on", "alerts_off", "other",
           "text", "analyze"}
Texts  == {"none", "blank", "dump", "prose", "fence", "trade"}
Bodies == {"said", "empty", "prose", "fence", "card"}

Messages == [chat: Chats, kind: Kinds, names: Symbols \cup {NoSymbol}]

HandlerTurns ==
  [role: {"user", "assistant"}, msg: Msgs, body: Bodies, at: 0 .. MaxNow]

ASSUME HandlerAssumption ==
  /\ NumMsgs \in Nat
  /\ Budget \in Nat
  /\ DefaultSymbol \in Symbols
  /\ \A s \in Scenarios : s.start \in Nat /\ s.inputs \in [Msgs -> Messages]
  /\ HandlerTurns \subseteq Turns
  /\ Replies \subseteq Texts \ {"none"}
  /\ AlertActivityWindow < MaxNow
  /\ NoSymbol \notin Symbols

VARIABLES
  handlers,   (* per message: the goroutine's locals and what it produced  *)
  welcomes,   (* history: when the chat got its automatic welcomes         *)
  spokeAt     (* history: when the chat's last user turn was stored        *)

handlerVars == <<handlers, welcomes, spokeAt>>
vars == <<now, chats, handlers, welcomes, spokeAt>>

PCs == {"new", "spawned", "mark", "load", "hint", "fetch", "stream", "save",
        "card", "persist", "persistReply", "done"}

Handler ==
  [pc: PCs, input: Messages, deadline: Nat, hint: Symbols \cup {NoSymbol},
   symbol: Symbols \cup {NoSymbol}, full: Texts, rows: Nat, stamp: Nat,
   sequential: BOOLEAN]

NewHandler(i) ==
  [pc |-> "new", input |-> i, deadline |-> ZeroTime, hint |-> NoSymbol,
   symbol |-> NoSymbol, full |-> "none", rows |-> 0, stamp |-> ZeroTime,
   sequential |-> FALSE]

Init ==
  /\ StoreInit
  /\ \E s \in Scenarios :
       /\ now = s.start
       /\ handlers = [m \in Msgs |-> NewHandler(s.inputs[m])]
  /\ welcomes   = [c \in Chats |-> <<>>]
  /\ spokeAt    = [c \in Chats |-> ZeroTime]

-----------------------------------------------------------------------------
ChatOf(m)   == handlers[m].input.chat
At(m, pc)   == handlers[m].pc = pc
Running(m)  == handlers[m].pc \notin {"new", "done"}
CtxDone(m)  == now >= handlers[m].deadline
Kind(m)     == handlers[m].input.kind
IsChat(m)   == Kind(m) \in {"text", "analyze"}

Goto(m, pc) == handlers' = [handlers EXCEPT ![m].pc = pc]

(* StripMarketDataDump then StripLLMEmphasis, on the classes above.        *)
Visible(text) ==
  CASE text \in {"none", "blank", "dump"} -> ""
    [] text = "prose"                     -> "prose"
    [] text \in {"fence", "trade"}        -> "fence"

(* The classes the accumulated text can move to with one more chunk: a     *)
(* line of prose can turn out to be a digest row, a fence can be closed.   *)
Grown(text) ==
  CASE text = "none"  -> Texts \ {"none"}
    [] text = "blank" -> {"dump", "prose", "fence", "trade"}
    [] text = "dump"  -> {"prose", "fence", "trade"}
    [] text = "prose" -> {"dump", "fence", "trade"}
    [] text = "fence" -> {"trade"}
    [] text = "trade" -> {}

(* Analyzer.resolveIntent: a command ignores the pinned symbol.            *)
Resolved(m) ==
  LET i == handlers[m].input IN
  CASE i.names # NoSymbol                                  -> i.names
    [] i.kind = "text" /\ handlers[m].hint # NoSymbol      -> handlers[m].hint
    [] OTHER                                               -> DefaultSymbol

-----------------------------------------------------------------------------
(* An earlier message of the same chat is still being handled.             *)
Overlaps(m) ==
  \E n \in 1 .. m - 1 : ChatOf(n) = ChatOf(m) /\ ~At(n, "done")

(* Seeded fault: no timeout.                                               *)
ReceiveWithoutTimeout(m) ==
  /\ At(m, "new")
  /\ \A n \in 1 .. m - 1 : ~At(n, "new")
  /\ now + Budget <= MaxNow
  /\ IF Kind(m) = "rejected"
     THEN Goto(m, "done")
     ELSE handlers' = [handlers EXCEPT ![m].pc = "spawned",
                                       ![m].deadline = MaxNow + 1,
                                       ![m].sequential = ~Overlaps(m)]
  /\ UNCHANGED <<now, chats, welcomes, spokeAt>>

(* Run: the next update, through the filter, into a goroutine of its own.  *)
Receive(m) ==
  /\ At(m, "new")
  /\ \A n \in 1 .. m - 1 : ~At(n, "new")
  /\ now + Budget <= MaxNow
  /\ IF Kind(m) = "rejected"
     THEN Goto(m, "done")
     ELSE handlers' = [handlers EXCEPT ![m].pc = "spawned",
                                       ![m].deadline = now + Budget,
                                       ![m].sequential = ~Overlaps(m)]
  /\ UNCHANGED <<now, chats, welcomes, spokeAt>>

(* /start sends the welcome first and marks the chat afterwards.           *)
Start(m) ==
  /\ At(m, "spawned") /\ Kind(m) = "start"
  /\ Goto(m, "mark")
  /\ UNCHANGED <<now, chats, welcomes, spokeAt>>

StartMark(m) ==
  /\ At(m, "mark")
  /\ MarkGreeted(ChatOf(m))
  /\ Goto(m, "done")
  /\ UNCHANGED <<now, welcomes, spokeAt>>

Reset(m) ==
  /\ At(m, "spawned") /\ Kind(m) = "reset"
  /\ Clear(ChatOf(m))
  /\ Goto(m, "done")
  /\ UNCHANGED <<now, welcomes, spokeAt>>

Alerts(m) ==
  /\ At(m, "spawned") /\ Kind(m) \in {"alerts_on", "alerts_off"}
  /\ SetAlertsEnabled(ChatOf(m), Kind(m) = "alerts_on")
  /\ Goto(m, "done")
  /\ UNCHANGED <<now, welcomes, spokeAt>>

(* /help, the status form of /alerts, and text that trims to nothing.      *)
Other(m) ==
  /\ At(m, "spawned") /\ Kind(m) = "other"
  /\ Goto(m, "done")
  /\ UNCHANGED <<now, chats, welcomes, spokeAt>>

MaybeGreet(m) ==
  /\ At(m, "spawned") /\ IsChat(m)
  /\ \/ /\ TryGreet(ChatOf(m))
        /\ welcomes' = [welcomes EXCEPT ![ChatOf(m)] = Append(@, now)]
     \/ /\ ~MayGreet(ChatOf(m))
        /\ UNCHANGED <<chats, welcomes>>
  /\ Goto(m, "load")
  /\ UNCHANGED <<now, spokeAt>>

LoadHistory(m) ==
  /\ At(m, "load")
  /\ Load(ChatOf(m))
  /\ Goto(m, "hint")
  /\ UNCHANGED <<now, welcomes, spokeAt>>

ReadHint(m) ==
  /\ At(m, "hint")
  /\ handlers' = [handlers EXCEPT ![m].pc = "fetch",
                                  ![m].hint = GetLastSymbol(ChatOf(m))]
  /\ UNCHANGED <<now, chats, welcomes, spokeAt>>

(* MaybeEnrich: the symbol of its result, NoSymbol when the market could   *)
(* not be read.  It reports no error: whatever fails, the chat goes on     *)
(* without a digest.                                                       *)
MaybeEnrich(m) == {NoSymbol} \cup (IF CtxDone(m) THEN {} ELSE {Resolved(m)})

(* Seeded fault: what the message names is pinned, not what it is about.   *)
EnrichPinsName(m) ==
  /\ At(m, "fetch")
  /\ \E symbol \in MaybeEnrich(m) :
       /\ handlers' = [handlers EXCEPT ![m].pc = "stream", ![m].symbol = symbol]
       /\ IF symbol = NoSymbol THEN UNCHANGED chats
          ELSE SetLastSymbol(ChatOf(m), handlers[m].input.names)
  /\ UNCHANGED <<now, welcomes, spokeAt>>

(* A digest's symbol is pinned; without a digest the pin stays.            *)
Enrich(m) ==
  /\ At(m, "fetch")
  /\ \E symbol \in MaybeEnrich(m) :
       /\ handlers' = [handlers EXCEPT ![m].pc = "stream", ![m].symbol = symbol]
       /\ IF symbol = NoSymbol THEN UNCHANGED chats
          ELSE SetLastSymbol(ChatOf(m), symbol)
  /\ UNCHANGED <<now, welcomes, spokeAt>>

(* One chunk of the stream, handed to the bubble as it stands.  Chunks the *)
(* channel still holds when the context expires count as consumed just     *)
(* before: nothing but this handler sees the difference.                   *)
Chunk(m) ==
  /\ At(m, "stream") /\ ~CtxDone(m)
  /\ \E text \in Grown(handlers[m].full) \cap Replies :
       handlers' = [handlers EXCEPT ![m].full = text]
  /\ UNCHANGED <<now, chats, welcomes, spokeAt>>

(* Seeded fault: white space counts as a reply.                            *)
EndStreamBlankToo(m) ==
  /\ At(m, "stream")
  /\ Goto(m, CASE handlers[m].full = "none"  -> "done"
               [] handlers[m].full = "trade" -> "save"
               [] OTHER                      -> "persist")
  /\ UNCHANGED <<now, chats, welcomes, spokeAt>>

(* The stream ended, with or without an error.  An error before the first  *)
(* byte is apologised for and forgotten; otherwise the bubble is finished, *)
(* white space is dropped, and a decision takes the long way.              *)
EndStream(m) ==
  /\ At(m, "stream")
  /\ Goto(m, CASE handlers[m].full \in {"none", "blank"} -> "done"
               [] handlers[m].full = "trade"             -> "save"
               [] OTHER                                  -> "persist")
  /\ UNCHANGED <<now, chats, welcomes, spokeAt>>

(* recordDecision: one row, or a failed write that is only logged.         *)
RecordDecision(m) ==
  /\ At(m, "save")
  /\ \E written \in {0, 1} :
       handlers' = [handlers EXCEPT ![m].pc = "card",
                                    ![m].rows = @ + written]
  /\ UNCHANGED <<now, chats, welcomes, spokeAt>>

(* The reply becomes a trade card, and the bubble with it.                 *)
ShowCard(m) ==
  /\ At(m, "card")
  /\ Goto(m, "persist")
  /\ UNCHANGED <<now, chats, welcomes, spokeAt>>

UserTurn(m, at) == [role |-> "user", msg |-> m, body |-> "said", at |-> at]

ReplyBody(m) ==
  CASE handlers[m].full = "trade"       -> "card"
    [] Visible(handlers[m].full) = ""   -> "empty"
    [] OTHER                            -> Visible(handlers[m].full)

ReplyTurn(m, at) ==
  [role |-> "assistant", msg |-> m, body |-> ReplyBody(m), at |-> at]

(* persistTurns: two store calls that share one timestamp.                 *)
PersistUser(m) ==
  /\ At(m, "persist")
  /\ AppendTurn(ChatOf(m), UserTurn(m, now))
  /\ spokeAt' = [spokeAt EXCEPT ![ChatOf(m)] = now]
  /\ handlers' = [handlers EXCEPT ![m].pc = "persistReply", ![m].stamp = now]
  /\ UNCHANGED <<now, welcomes>>

PersistReply(m) ==
  /\ At(m, "persistReply")
  /\ AppendTurn(ChatOf(m), ReplyTurn(m, handlers[m].stamp))
  /\ Goto(m, "done")
  /\ UNCHANGED <<now, welcomes, spokeAt>>

(* Time passes.  Every wait of a handler is bounded by its context, so a   *)
(* handler is over within its budget: the clock does not leave it behind.  *)
Clock ==
  /\ \A m \in Msgs : Running(m) => ~CtxDone(m)
  /\ Tick
  /\ UNCHANGED handlerVars

-----------------------------------------------------------------------------
HandlerStep(m) ==
  \/ Start(m) \/ StartMark(m) \/ Reset(m) \/ Alerts(m) \/ Other(m)
  \/ MaybeGreet(m) \/ LoadHistory(m) \/ ReadHint(m) \/ Enrich(m)
  \/ Chunk(m) \/ EndStream(m)
  \/ RecordDecision(m) \/ ShowCard(m) \/ PersistUser(m) \/ PersistReply(m)

Next ==
  \/ \E m \in Msgs : Receive(m) \/ HandlerStep(m)
  \/ Clock

Spec == Init /\ [][Next]_vars

(* A goroutine that can move does, and time goes on.  A network call need  *)
(* not answer; what is certain is that it returns once its context is done.*)
AwaitsNetwork(m) == handlers[m].pc \in {"fetch", "stream", "save", "card"}

Due(m) == (AwaitsNetwork(m) => CtxDone(m)) /\ HandlerStep(m)

Fairness ==
  /\ \A m \in Msgs : WF_vars(Due(m))
  /\ WF_vars(Clock)

FairSpec == Spec /\ Fairness

-----------------------------------------------------------------------------
(* Correctness.                                                            *)

History(c) == chats[c].turns

TypeOK ==
  /\ StoreTypeOK
  /\ handlers \in [Msgs -> Handler]
  /\ welcomes \in [Chats -> Seq(Nat)]
  /\ spokeAt \in [Chats -> Nat]

(* However many messages of a chat are handled side by side, two automatic *)
(* welcomes are a full GreetedTTL apart (biz/session_store.go: "at most    *)
(* one receives true, avoiding duplicate welcomes").                       *)
WelcomesApart ==
  \A c \in Chats : \A i, j \in DOMAIN welcomes[c] :
    i < j => welcomes[c][j] - welcomes[c][i] >= GreetedTTL

(* However handlers interleave, no turn is stored twice nor in another     *)
(* chat, no answer stands before its question, and the question of a       *)
(* finished handler that is still remembered is remembered with its        *)
(* answer: trimming between the two turns of a pair, and /reset, never     *)
(* leave a dangling question (persistTurns, Append).                       *)
HistoryWellFormed ==
  \A c \in Chats : \A i \in DOMAIN History(c) :
    LET t == History(c)[i]
        later == {History(c)[j] : j \in {j \in DOMAIN History(c) : j > i}}
    IN /\ ChatOf(t.msg) = c
       /\ \A u \in later : t.msg = u.msg => t.role = "user" /\ u.role = "assistant"
       /\ t.role = "user" /\ At(t.msg, "done") =>
            \E u \in later : u.msg = t.msg /\ u.role = "assistant"

(* A stream that delivered nothing, or nothing but white space, leaves no  *)
(* turn behind, whether it ended well or broke off; one that breaks off    *)
(* after its first byte leaves what it said, and a reply of echoed market  *)
(* data an empty turn (ReplyBody).  A decision row is written at most      *)
(* once, and only for a reply that carries a decision.                     *)
SilenceLeavesNoTrace ==
  /\ \A c \in Chats : \A i \in DOMAIN History(c) :
       handlers[History(c)[i].msg].full \notin {"none", "blank"}
  /\ \A m \in Msgs :
       /\ handlers[m].rows <= 1
       /\ handlers[m].rows = 1 => handlers[m].full = "trade"

(* What Load would hand to the LLM is one conversation: no two turns in a  *)
(* row are further apart than the idle expiry plus what two handlers can   *)
(* add to it, although Append revives turns that Load would have dropped.  *)
HistoryIsOneConversation ==
  \A c \in Chats :
    LET h == LiveTurns(c) IN
    \A i \in 1 .. Len(h) - 1 : h[i + 1].at - h[i].at <= SessionTTL + 2 * Budget

(* A message took effect last: its chat had nothing else in flight when it *)
(* came, and none of these later messages has come yet.                    *)
LastWord(m, later) ==
  /\ At(m, "done") /\ handlers[m].sequential
  /\ \A n \in later : n > m /\ ChatOf(n) = ChatOf(m) => At(n, "new")

(* After a /reset that overlapped no other message nothing of the          *)
(* conversation comes back before the user writes again.                   *)
ResetHolds ==
  \A m \in Msgs :
    Kind(m) = "reset" /\ LastWord(m, {n \in Msgs : IsChat(n)}) =>
      /\ History(ChatOf(m)) = <<>>
      /\ GetLastSymbol(ChatOf(m)) = NoSymbol

(* After such an /alerts off no news alert goes to the chat, whatever else *)
(* is said there, until it asks for alerts again.                          *)
OptOutHolds ==
  \A m \in Msgs :
    Kind(m) = "alerts_off" /\ LastWord(m, {n \in Msgs : Kind(n) = "alerts_on"}) =>
      ChatOf(m) \notin ListAlertSubscribers

(* A follow-up that names no symbol, sent once the previous message of the *)
(* chat is dealt with and before its pin expires, is about the symbol that *)
(* message analysed, if that one overtook no other: of two questions that  *)
(* are handled side by side, whichever is enriched last leaves its pin.    *)
FollowsUp(m) ==
  LET prev == handlers[m - 1]  this == handlers[m] IN
  /\ prev.input.chat = this.input.chat /\ prev.symbol # NoSymbol
  /\ prev.sequential /\ this.sequential /\ \A n \in m + 1 .. NumMsgs : At(n, "new")
  /\ this.deadline - prev.deadline + Budget <= SessionTTL

FollowUpKeepsSymbol ==
  [][\A m \in Msgs \ {1} :
       (At(m, "hint") /\ ~At(m, "hint")' /\ FollowsUp(m))
         => handlers'[m].hint = handlers[m - 1].symbol]_vars

(* News alerts go only to chats whose user had an answered message within  *)
(* the activity window; what the bot says does not keep a chat alive.      *)
SubscribersSpoke ==
  \A c \in ListAlertSubscribers :
    /\ spokeAt[c] # ZeroTime
    /\ now - spokeAt[c] <= AlertActivityWindow

(* Every accepted message is dealt with: the context bounds every wait.    *)
EveryMessageHandled ==
  \A m \in Msgs : At(m, "spawned") ~> At(m, "done")

=============================================================================
