-------------------------- MODULE ChatHandlerProofs --------------------------
(***************************************************************************)
(* Proofs about the session store, and about the chat handlers that share  *)
(* it, for any number of messages, chats and handlers side by side.        *)
(* Timely holds the types and the deadlines; each of the other invariants  *)
(* is inductive given Timely.                                              *)
(***************************************************************************)
EXTENDS ChatHandler, TLAPS

-----------------------------------------------------------------------------
(* The session store, under any client.                                    *)

(* The rolling history keeps the newest turns, in their order: t is s      *)
(* without its first k elements.                                           *)
IsTail(t, s, k) ==
  /\ Len(t) = Len(s) - k
  /\ k = 0 \/ Len(t) = MaxTurns
  /\ \A i \in 1 .. Len(t) : i + k \in 1 .. Len(s) /\ t[i] = s[i + k]

LEMMA LastTurnsKeepsTail ==
  ASSUME NEW T, NEW s \in Seq(T)
  PROVE  /\ LastTurns(s) \in Seq(T) /\ Len(LastTurns(s)) <= MaxTurns
         /\ \E k \in Nat : IsTail(LastTurns(s), s, k)
<1>0. MaxTurns \in Nat \ {0} /\ Len(s) \in Nat
  BY StoreAssumption
<1>1. CASE Len(s) > MaxTurns
  <2> DEFINE k == Len(s) - MaxTurns
  <2>1. LastTurns(s) = SubSeq(s, k + 1, Len(s))
    BY <1>1 DEF LastTurns
  <2>2. k \in Nat /\ k + 1 \in 1 .. Len(s)
    BY <1>0, <1>1
  <2>3. /\ LastTurns(s) \in Seq(T) /\ Len(LastTurns(s)) = MaxTurns
        /\ \A i \in 1 .. MaxTurns : LastTurns(s)[i] = s[i + k]
    BY <1>0, <2>1, <2>2
  <2>4. IsTail(LastTurns(s), s, k)
    BY <1>0, <1>1, <2>3 DEF IsTail
  <2> HIDE DEF k
  <2> QED BY <1>0, <2>2, <2>3, <2>4
<1>2. CASE ~(Len(s) > MaxTurns)
  <2>1. LastTurns(s) = s
    BY <1>2 DEF LastTurns
  <2>2. IsTail(LastTurns(s), s, 0)
    BY <1>0, <2>1 DEF IsTail
  <2> QED BY <1>0, <1>2, <2>1, <2>2
<1> QED BY <1>1, <1>2

LEMMA ZeroChatTyped == ZeroChat \in ChatState
  BY DEF ZeroChat, ChatState, ZeroTime

LEMMA StoreInitTyped == StoreInit => StoreTypeOK
  BY StoreAssumption, ZeroChatTyped DEF StoreInit, StoreTypeOK, ZeroChat

(* One chat's record is replaced.                                          *)
LEMMA StoreUpdate ==
  ASSUME StoreTypeOK, UNCHANGED now, NEW c \in Chats, NEW s \in ChatState,
         chats' = [chats EXCEPT ![c] = s], Len(s.turns) <= MaxTurns
  PROVE  StoreTypeOK'
  BY DEF StoreTypeOK

LEMMA OperationTyped ==
  ASSUME StoreTypeOK, UNCHANGED now, NEW c \in Chats, Operation(c)
  PROVE  StoreTypeOK'
<1>0. /\ chats \in [Chats -> ChatState] /\ now \in Nat
      /\ chats[c] \in ChatState /\ Len(chats[c].turns) <= MaxTurns
      /\ now + SessionTTL \in Nat /\ now + GreetedTTL \in Nat
      /\ MaxTurns \in Nat
  BY StoreAssumption DEF StoreTypeOK
<1>1. CASE Load(c)
  <2>1. LiveTurns(c) \in Seq(Turns) /\ Len(LiveTurns(c)) <= MaxTurns
    BY <1>0 DEF LiveTurns, ChatState
  <2>2. chats' = [chats EXCEPT ![c] = [chats[c] EXCEPT !.turns = LiveTurns(c)]]
    BY <1>1 DEF Load
  <2> QED BY <1>0, <2>1, <2>2, StoreUpdate DEF ChatState
<1>2. ASSUME NEW t \in Turns, AppendTurn(c, t) PROVE StoreTypeOK'
  <2> DEFINE h == LastTurns(Append(chats[c].turns, t))
  <2>1. Append(chats[c].turns, t) \in Seq(Turns)
    BY <1>0 DEF ChatState
  <2>2. h \in Seq(Turns) /\ Len(h) <= MaxTurns
    BY <2>1, LastTurnsKeepsTail
  <2>3. chats' = [chats EXCEPT ![c] =
                   [chats[c] EXCEPT !.turns = h, !.turnExpire = now + SessionTTL,
                      !.lastActive = IF t.role = "user" THEN now ELSE @]]
    BY <1>2 DEF AppendTurn
  <2> HIDE DEF h
  <2> QED BY <1>0, <2>2, <2>3, StoreUpdate DEF ChatState
<1>3. CASE Clear(c)
  <2>1. chats' = [chats EXCEPT ![c] =
                   [chats[c] EXCEPT !.turns = <<>>, !.turnExpire = ZeroTime,
                      !.lastSymbol = NoSymbol, !.symExpire = ZeroTime]]
    BY <1>3 DEF Clear
  <2> DEFINE s == [chats[c] EXCEPT !.turns = <<>>, !.turnExpire = ZeroTime,
                       !.lastSymbol = NoSymbol, !.symExpire = ZeroTime]
  <2>2. <<>> \in Seq(Turns) /\ ZeroTime \in Nat
    BY DEF ZeroTime
  <2>3. NoSymbol \in Symbols \cup {NoSymbol}
    OBVIOUS
  <2>4. s \in ChatState
    BY <1>0, <2>2, <2>3 DEF ChatState
  <2>5. s.turns = <<>>
    BY <1>0 DEF ChatState
  <2>6. Len(s.turns) <= MaxTurns
    BY <1>0, <2>5
  <2> HIDE DEF s
  <2> QED BY <1>0, <2>1, <2>4, <2>6, StoreUpdate DEF s
<1>4. CASE TryGreet(c) \/ MarkGreeted(c)
  <2>1. chats' = [chats EXCEPT ![c] =
                   [chats[c] EXCEPT !.greetExpire = now + GreetedTTL]]
    BY <1>4 DEF TryGreet, MarkGreeted
  <2> QED BY <1>0, <2>1, StoreUpdate DEF ChatState
<1>5. ASSUME NEW y \in Symbols \cup {NoSymbol}, SetLastSymbol(c, y)
      PROVE  StoreTypeOK'
  <2> DEFINE expire == IF y = NoSymbol THEN ZeroTime ELSE now + SessionTTL
  <2>1. chats' = [chats EXCEPT ![c] =
                   [chats[c] EXCEPT !.lastSymbol = y, !.symExpire = expire]]
    BY <1>5 DEF SetLastSymbol
  <2>2. expire \in Nat
    BY <1>0 DEF ZeroTime
  <2> HIDE DEF expire
  <2> DEFINE s == [chats[c] EXCEPT !.lastSymbol = y, !.symExpire = expire]
  <2>3. s \in ChatState
    <3>1. y \in Symbols \cup {NoSymbol}
      OBVIOUS
    <3> HIDE DEF NoSymbol
    <3> QED BY <1>0, <2>2, <3>1 DEF ChatState
  <2>4. s.turns = chats[c].turns
    BY <1>0 DEF ChatState
  <2>5. Len(s.turns) <= MaxTurns
    BY <1>0, <2>4
  <2> HIDE DEF s
  <2> QED BY <1>0, <2>1, <2>3, <2>5, StoreUpdate DEF s
<1>6. ASSUME NEW b \in BOOLEAN, SetAlertsEnabled(c, b) PROVE StoreTypeOK'
  <2> DEFINE disabled == ~b
  <2>1. chats' = [chats EXCEPT ![c] =
                   [chats[c] EXCEPT !.alertsExplicitlyDisabled = disabled]]
    BY <1>6 DEF SetAlertsEnabled
  <2>2. disabled \in BOOLEAN
    OBVIOUS
  <2> HIDE DEF disabled
  <2> QED BY <1>0, <2>1, <2>2, StoreUpdate DEF ChatState
<1> QED BY <1>1, <1>2, <1>3, <1>4, <1>5, <1>6 DEF Operation

LEMMA TickTyped == StoreTypeOK /\ Tick => StoreTypeOK'
  BY DEF StoreTypeOK, Tick

(* Types, and the cap of the rolling history, whoever calls the store and  *)
(* in whatever order (memory/session_store.go).                            *)
THEOREM StoreTypes == StoreSpec => []StoreTypeOK
<1>1. StoreTypeOK /\ [StoreNext]_storeVars => StoreTypeOK'
  <2> SUFFICES ASSUME StoreTypeOK, [StoreNext]_storeVars PROVE StoreTypeOK'
    OBVIOUS
  <2>1. CASE UNCHANGED storeVars
    BY <2>1 DEF StoreTypeOK, storeVars
  <2> QED BY <2>1, OperationTyped, TickTyped DEF StoreNext
<1> QED BY StoreInitTyped, <1>1, PTL DEF StoreSpec

-----------------------------------------------------------------------------
(* The chat handlers.                                                      *)

(* A running handler is within its context, and a reply is stored with a   *)
(* time stamp of its own handler.                                          *)
Timely ==
  /\ TypeOK
  /\ AlertActivityWindow < now /\ now <= MaxNow
  /\ \A m \in Msgs :
       /\ Running(m) => now <= handlers[m].deadline /\ handlers[m].deadline <= now + Budget
       /\ At(m, "persistReply") => /\ handlers[m].stamp <= now
                                   /\ handlers[m].deadline <= handlers[m].stamp + Budget

(* A welcome is in force until greetExpire, which no one turns back. *)
Welcomed ==
  \A c \in Chats :
    /\ \A i \in DOMAIN welcomes[c] :
         /\ welcomes[c][i] <= now
         /\ welcomes[c][i] + GreetedTTL <= chats[c].greetExpire
    /\ \A i, j \in DOMAIN welcomes[c] :
         i < j => welcomes[c][j] - welcomes[c][i] >= GreetedTTL

Active == \A c \in Chats : chats[c].lastActive = spokeAt[c]

(* What is stored was a reply, and a row belongs to a decision. *)
Replied ==
  /\ \A m \in Msgs :
       LET h == handlers[m] IN
       /\ h.pc \in {"save", "card", "persist", "persistReply"} => h.full \notin {"none", "blank"}
       /\ h.pc \in {"save", "card"} => h.full = "trade"
       /\ h.pc \in {"new", "spawned", "mark", "load", "hint", "fetch", "stream", "save"} => h.rows = 0
       /\ h.rows <= 1 /\ (h.rows = 1 => h.full = "trade")
  /\ \A c \in Chats : \A i \in DOMAIN History(c) :
       LET h == handlers[History(c)[i].msg] IN
       h.pc \in {"persistReply", "done"} /\ h.full \notin {"none", "blank"}

(* A question is there from PersistUser on, its answer from PersistReply.  *)
WellFormed ==
  \A c \in Chats : \A i \in DOMAIN History(c) :
    LET t == History(c)[i] IN
    /\ t \in HandlerTurns /\ ChatOf(t.msg) = c
    /\ t.role = "user" => handlers[t.msg].pc \in {"persistReply", "done"}
    /\ t.role = "assistant" => At(t.msg, "done")
    /\ \A j \in DOMAIN History(c) :
         i < j /\ History(c)[j].msg = t.msg => t.role = "user" /\ History(c)[j].role = "assistant"
    /\ t.role = "user" /\ At(t.msg, "done") =>
         \E j \in DOMAIN History(c) :
           i < j /\ History(c)[j].msg = t.msg /\ History(c)[j].role = "assistant"

(* A handler that has loaded its history found it alive or left it empty,  *)
(* and the history dies SessionTTL after its last turn.                    *)
Loaded(m) ==
  handlers[m].pc \in {"hint", "fetch", "stream", "save", "card", "persist", "persistReply"}

OneConversation ==
  \A c \in Chats :
    LET h == History(c) IN
    h # <<>> =>
      /\ chats[c].turnExpire # ZeroTime
      /\ chats[c].turnExpire <= h[Len(h)].at + SessionTTL + Budget
      /\ \A m \in Msgs : Loaded(m) /\ ChatOf(m) = c =>
           handlers[m].deadline <= chats[c].turnExpire + Budget
      /\ \A i \in 1 .. Len(h) - 1 : h[i + 1].at - h[i].at <= SessionTTL + 2 * Budget

(* A message that came alone finds every earlier one of its chat done. *)
Alone ==
  \A m \in Msgs : handlers[m].sequential =>
    ~At(m, "new") /\ \A n \in 1 .. m - 1 : ChatOf(n) = ChatOf(m) => At(n, "done")

(* A command never takes the way of a question, nor the other way about.   *)
Routed ==
  \A m \in Msgs :
    /\ At(m, "mark") => Kind(m) = "start"
    /\ handlers[m].pc \in {"load", "hint", "fetch", "stream", "save", "card", "persist",
                           "persistReply"} => IsChat(m)

ResetInForce ==
  \A m \in Msgs :
    Kind(m) = "reset" /\ LastWord(m, {n \in Msgs : IsChat(n)}) =>
      History(ChatOf(m)) = <<>> /\ chats[ChatOf(m)].lastSymbol = NoSymbol

OptOutInForce ==
  \A m \in Msgs :
    Kind(m) = "alerts_off" /\ LastWord(m, {n \in Msgs : Kind(n) = "alerts_on"}) =>
      chats[ChatOf(m)].alertsExplicitlyDisabled

(* The pin of a message that came alone stays while no later message of    *)
(* its chat has got as far as to change it.                                *)
Pinned ==
  \A m \in Msgs :
    /\ handlers[m].symbol # NoSymbol =>
         handlers[m].pc \in {"stream", "save", "card", "persist", "persistReply", "done"}
    /\ /\ handlers[m].sequential /\ handlers[m].symbol # NoSymbol
       /\ \A n \in Msgs : n > m /\ ChatOf(n) = ChatOf(m) =>
            handlers[n].pc \in {"new", "spawned", "load", "hint"}
       => /\ chats[ChatOf(m)].lastSymbol = handlers[m].symbol
          /\ handlers[m].deadline + SessionTTL <= chats[ChatOf(m)].symExpire + Budget

-----------------------------------------------------------------------------
(* What a step of a handler does to its own locals and to the store.       *)

LEMMA HandlerFacts ==
  ASSUME Timely, NEW m \in Msgs
  PROVE  /\ handlers[m] \in Handler /\ ChatOf(m) \in Chats /\ handlers[m].input \in Messages
         /\ Kind(m) \in Kinds /\ handlers[m].full \in Texts /\ handlers[m].deadline \in Nat
         /\ handlers[m].stamp \in Nat /\ handlers[m].symbol \in Symbols \cup {NoSymbol}
         /\ handlers[m].pc \in PCs /\ handlers[m].rows \in Nat
<1>1. handlers[m] \in Handler
  BY DEF Timely, TypeOK
<1>2. handlers[m].input \in Messages
  BY <1>1 DEF Handler
<1> QED  BY <1>1, <1>2 DEF Handler, Messages, ChatOf, Kind

LEMMA ResolvedSymbol ==
  ASSUME Timely, NEW m \in Msgs
  PROVE  Resolved(m) \in Symbols
<1>1. /\ handlers[m].input.names \in Symbols \cup {NoSymbol}
      /\ handlers[m].hint \in Symbols \cup {NoSymbol}
      /\ DefaultSymbol \in Symbols
  BY HandlerFacts, HandlerAssumption DEF Handler, Messages
<1> QED  BY <1>1 DEF Resolved

LEMMA StoredTurns ==
  ASSUME Timely, NEW m \in Msgs
  PROVE  /\ UserTurn(m, now) \in HandlerTurns
         /\ At(m, "persistReply") => ReplyTurn(m, handlers[m].stamp) \in HandlerTurns
         /\ HandlerTurns \subseteq Turns
<1>1. now \in 0 .. MaxNow /\ handlers[m].stamp \in Nat /\ MaxNow \in Nat
  BY HandlerFacts, StoreAssumption DEF Timely, TypeOK, StoreTypeOK
<1>2. ReplyBody(m) \in Bodies
  BY HandlerFacts DEF ReplyBody, Visible, Texts, Bodies
<1>3. At(m, "persistReply") => handlers[m].stamp \in 0 .. MaxNow
  BY <1>1 DEF Timely
<1> QED  BY <1>1, <1>2, <1>3, HandlerAssumption DEF UserTurn, ReplyTurn, HandlerTurns, Bodies

(* A step is one call of the store at most. *)
LEMMA StepCallsStore ==
  ASSUME Timely, NEW m \in Msgs, HandlerStep(m)
  PROVE  UNCHANGED now /\ (UNCHANGED chats \/ Operation(ChatOf(m)))
<1> USE DEF Operation
<1>1. CASE Start(m) \/ Other(m) \/ ReadHint(m) \/ Chunk(m) \/ EndStream(m)
           \/ RecordDecision(m) \/ ShowCard(m)
  BY <1>1 DEF Start, Other, ReadHint, Chunk, EndStream, RecordDecision, ShowCard
<1>2. CASE StartMark(m) \/ Reset(m) \/ LoadHistory(m) \/ MaybeGreet(m)
  BY <1>2 DEF StartMark, Reset, LoadHistory, MaybeGreet
<1>3. CASE Alerts(m)
  <2>1. (Kind(m) = "alerts_on") \in BOOLEAN
    OBVIOUS
  <2> QED  BY <1>3, <2>1 DEF Alerts
<1>4. CASE Enrich(m)
  <2>1. PICK symbol \in MaybeEnrich(m) :
          IF symbol = NoSymbol THEN UNCHANGED chats ELSE SetLastSymbol(ChatOf(m), symbol)
    BY <1>4 DEF Enrich
  <2>2. symbol \in Symbols \cup {NoSymbol}
    BY ResolvedSymbol DEF MaybeEnrich
  <2> QED  BY <1>4, <2>1, <2>2 DEF Enrich
<1>5. CASE PersistUser(m)
  BY <1>5, StoredTurns DEF PersistUser
<1>6. CASE PersistReply(m)
  BY <1>6, StoredTurns DEF PersistReply
<1> QED  BY <1>1, <1>2, <1>3, <1>4, <1>5, <1>6 DEF HandlerStep

(* Where a handler is after a step. *)
GoesTo(from, to) ==
  /\ from = "spawned"      => to \in {"mark", "load", "done"}
  /\ from = "mark"         => to = "done"
  /\ from = "load"         => to = "hint"
  /\ from = "hint"         => to = "fetch"
  /\ from = "fetch"        => to = "stream"
  /\ from = "stream"       => to \in {"stream", "save", "persist", "done"}
  /\ from = "save"         => to = "card"
  /\ from = "card"         => to = "persist"
  /\ from = "persist"      => to = "persistReply"
  /\ from = "persistReply" => to = "done"
  /\ from \notin {"new", "done"}

(* The locals after a step of m: whose they are and when they end stays. *)
Moved(m, h) ==
  LET old == handlers[m] IN
  /\ h \in Handler /\ h.pc # "new" /\ handlers' = [handlers EXCEPT ![m] = h]
  /\ h.input = old.input /\ h.deadline = old.deadline /\ h.sequential = old.sequential
  /\ \/ h.full = old.full
     \/ old.pc = "stream" /\ h.pc = "stream" /\ h.full \in Texts \ {"none"}
  /\ h.symbol = old.symbol \/ old.pc = "fetch"
  /\ \/ h.rows = old.rows
     \/ old.pc = "save" /\ h.rows = old.rows + 1
  /\ h.pc = "persistReply" => h.stamp = now
  /\ GoesTo(old.pc, h.pc)

LEMMA StepMoves ==
  ASSUME Timely, NEW m \in Msgs, HandlerStep(m)
  PROVE  \E h : Moved(m, h)
<1> DEFINE old == handlers[m]
<1>0. old \in Handler /\ old = handlers[m] /\ handlers \in [Msgs -> Handler]
  BY DEF Timely, TypeOK
<1>1. ASSUME NEW pc \in PCs, Goto(m, pc), pc # "new", pc # "persistReply",
             GoesTo(old.pc, pc)
      PROVE  \E h : Moved(m, h)
  <2> DEFINE h == [old EXCEPT !.pc = pc]
  <2>1. /\ h \in Handler /\ h.pc = pc /\ h.input = old.input /\ h.deadline = old.deadline
        /\ h.sequential = old.sequential /\ h.full = old.full /\ h.symbol = old.symbol
        /\ h.rows = old.rows
    BY <1>0, <1>1 DEF Handler
  <2>2. handlers' = [handlers EXCEPT ![m] = h]
    BY <1>0, <1>1 DEF Goto
  <2> HIDE DEF h
  <2>3. Moved(m, h)
    BY <1>1, <2>1, <2>2 DEF Moved
  <2> QED  BY <2>3
<1>2. CASE Start(m) \/ StartMark(m) \/ Reset(m) \/ Alerts(m) \/ Other(m) \/ MaybeGreet(m)
           \/ LoadHistory(m) \/ ShowCard(m) \/ PersistReply(m)
  BY <1>1, <1>2 DEF Start, StartMark, Reset, Alerts, Other, MaybeGreet, LoadHistory, ShowCard,
                    PersistReply, At, PCs, GoesTo
<1>3. CASE EndStream(m)
  <2> DEFINE pc == CASE handlers[m].full \in {"none", "blank"} -> "done"
                     [] handlers[m].full = "trade"             -> "save"
                     [] OTHER                                  -> "persist"
  <2>1. Goto(m, pc) /\ old.pc = "stream"
    BY <1>3 DEF EndStream, At
  <2>2. pc \in {"done", "save", "persist"}
    OBVIOUS
  <2> HIDE DEF pc
  <2> QED  BY <1>1, <2>1, <2>2 DEF PCs, GoesTo
<1>4. CASE ReadHint(m)
  <2> DEFINE y == GetLastSymbol(ChatOf(m))
             h == [old EXCEPT !.pc = "fetch", !.hint = y]
  <2>1. y \in Symbols \cup {NoSymbol}
    <3>1. chats[ChatOf(m)] \in ChatState
      BY HandlerFacts DEF Timely, TypeOK, StoreTypeOK
    <3> QED  BY <3>1 DEF ChatState, GetLastSymbol
  <2>2. old.pc = "hint" /\ handlers' = [handlers EXCEPT ![m] = h]
    BY <1>0, <1>4 DEF ReadHint, At
  <2> HIDE DEF y
  <2>3. /\ h \in Handler /\ h.pc = "fetch" /\ h.input = old.input /\ h.deadline = old.deadline
        /\ h.sequential = old.sequential /\ h.full = old.full /\ h.symbol = old.symbol
        /\ h.rows = old.rows
    <3> HIDE DEF NoSymbol
    <3> QED  BY <1>0, <2>1 DEF Handler, PCs
  <2> HIDE DEF h
  <2>4. Moved(m, h)
    BY <2>2, <2>3 DEF Moved, GoesTo
  <2> QED  BY <2>4
<1>5. CASE Enrich(m)
  <2>1. PICK y \in MaybeEnrich(m) :
          handlers' = [handlers EXCEPT ![m].pc = "stream", ![m].symbol = y]
    BY <1>5 DEF Enrich
  <2>2. y \in Symbols \cup {NoSymbol} /\ old.pc = "fetch"
    BY <1>5, ResolvedSymbol DEF MaybeEnrich, Enrich, At
  <2> DEFINE h == [old EXCEPT !.pc = "stream", !.symbol = y]
  <2>3. /\ h \in Handler /\ h.pc = "stream" /\ h.input = old.input /\ h.deadline = old.deadline
        /\ h.sequential = old.sequential /\ h.full = old.full /\ h.rows = old.rows
    <3> HIDE DEF NoSymbol
    <3> QED  BY <1>0, <2>2 DEF Handler, PCs
  <2>4. handlers' = [handlers EXCEPT ![m] = h]
    BY <1>0, <2>1
  <2> HIDE DEF h
  <2>5. Moved(m, h)
    BY <2>2, <2>3, <2>4 DEF Moved, GoesTo
  <2> QED  BY <2>5
<1>6. CASE Chunk(m)
  <2>1. PICK text \in Grown(handlers[m].full) \cap Replies :
          handlers' = [handlers EXCEPT ![m].full = text]
    BY <1>6 DEF Chunk
  <2>2. text \in Texts \ {"none"} /\ old.pc = "stream"
    BY <1>6, HandlerAssumption DEF Chunk, At
  <2> DEFINE h == [old EXCEPT !.full = text]
  <2>3. /\ h \in Handler /\ h.pc = "stream" /\ h.input = old.input /\ h.deadline = old.deadline
        /\ h.sequential = old.sequential /\ h.full = text /\ h.rows = old.rows
        /\ h.symbol = old.symbol
    BY <1>0, <2>2 DEF Handler
  <2>4. handlers' = [handlers EXCEPT ![m] = h]
    BY <1>0, <2>1
  <2> HIDE DEF h
  <2>5. Moved(m, h)
    BY <2>2, <2>3, <2>4 DEF Moved, GoesTo
  <2> QED  BY <2>5
<1>7. CASE RecordDecision(m)
  <2>1. PICK written \in {0, 1} :
          handlers' = [handlers EXCEPT ![m].pc = "card", ![m].rows = @ + written]
    BY <1>7 DEF RecordDecision
  <2> DEFINE n == old.rows + written
             h == [old EXCEPT !.pc = "card", !.rows = n]
  <2>2. n \in Nat /\ old.pc = "save" /\ (n = old.rows \/ n = old.rows + 1)
    BY <1>0, <1>7 DEF RecordDecision, At, Handler
  <2>3. handlers' = [handlers EXCEPT ![m] = h]
    BY <1>0, <2>1
  <2> HIDE DEF n
  <2>4. /\ h \in Handler /\ h.pc = "card" /\ h.input = old.input /\ h.deadline = old.deadline
        /\ h.sequential = old.sequential /\ h.full = old.full /\ h.rows = n
        /\ h.symbol = old.symbol
    BY <1>0, <2>2 DEF Handler, PCs
  <2> HIDE DEF h
  <2>5. Moved(m, h)
    BY <2>2, <2>3, <2>4 DEF Moved, GoesTo
  <2> QED  BY <2>5
<1>8. CASE PersistUser(m)
  <2> DEFINE h == [old EXCEPT !.pc = "persistReply", !.stamp = now]
  <2>1. old.pc = "persist" /\ now \in Nat
    BY <1>8 DEF PersistUser, At, Timely, TypeOK, StoreTypeOK
  <2>2. handlers' = [handlers EXCEPT ![m] = h]
    BY <1>0, <1>8 DEF PersistUser
  <2>3. /\ h \in Handler /\ h.pc = "persistReply" /\ h.input = old.input
        /\ h.deadline = old.deadline /\ h.sequential = old.sequential /\ h.full = old.full
        /\ h.rows = old.rows /\ h.symbol = old.symbol /\ h.stamp = now
    BY <1>0, <2>1 DEF Handler, PCs
  <2> HIDE DEF h
  <2>4. Moved(m, h)
    BY <2>1, <2>2, <2>3 DEF Moved, GoesTo
  <2> QED  BY <2>4
<1> QED  BY <1>2, <1>3, <1>4, <1>5, <1>6, <1>7, <1>8 DEF HandlerStep

(* What a step of m leaves as it was, and what it puts in its place.       *)
OwnLocals(m) ==
  /\ \A n \in Msgs : /\ handlers'[n].input = handlers[n].input
                     /\ handlers'[n].sequential = handlers[n].sequential
                     /\ handlers'[n].deadline = handlers[n].deadline
                     /\ handlers'[n] \in Handler
  /\ \A n \in Msgs \ {m} : handlers'[n] = handlers[n]
  /\ Moved(m, handlers'[m])

OwnChat(m) ==
  LET c == ChatOf(m)  old == chats[c]  s == chats'[c] IN
  /\ \A d \in Chats \ {c} : chats'[d] = chats[d]
  /\ \/ s.turns = old.turns /\ s.turnExpire = old.turnExpire
     \/ Reset(m) /\ s.turns = <<>> /\ s.turnExpire = ZeroTime
     \/ LoadHistory(m) /\ s.turns = LiveTurns(c) /\ s.turnExpire = old.turnExpire
     \/ /\ PersistUser(m) /\ s.turnExpire = now + SessionTTL
        /\ s.turns = LastTurns(Append(old.turns, UserTurn(m, now)))
     \/ /\ PersistReply(m) /\ s.turnExpire = now + SessionTTL
        /\ s.turns = LastTurns(Append(old.turns, ReplyTurn(m, handlers[m].stamp)))
  /\ \/ s.lastSymbol = old.lastSymbol /\ s.symExpire = old.symExpire
     \/ Reset(m) /\ s.lastSymbol = NoSymbol /\ s.symExpire = ZeroTime
     \/ /\ Enrich(m) /\ handlers'[m].symbol \in Symbols
        /\ s.lastSymbol = handlers'[m].symbol /\ s.symExpire = now + SessionTTL
  /\ \/ s.greetExpire = old.greetExpire
     \/ StartMark(m) /\ s.greetExpire = now + GreetedTTL
     \/ MaybeGreet(m) /\ TryGreet(c) /\ s.greetExpire = now + GreetedTTL
  /\ \/ s.lastActive = old.lastActive
     \/ PersistUser(m) /\ s.lastActive = now
  /\ \/ s.alertsExplicitlyDisabled = old.alertsExplicitlyDisabled
     \/ Alerts(m) /\ s.alertsExplicitlyDisabled = (Kind(m) = "alerts_off")

LEMMA StepLocals ==
  ASSUME Timely, NEW m \in Msgs, HandlerStep(m)
  PROVE  OwnLocals(m)
<1>1. PICK h : Moved(m, h)
  BY StepMoves
<1>2. handlers \in [Msgs -> Handler]
  BY DEF Timely, TypeOK
<1>3. /\ handlers' = [handlers EXCEPT ![m] = h] /\ h \in Handler
      /\ h.input = handlers[m].input /\ h.sequential = handlers[m].sequential
      /\ h.deadline = handlers[m].deadline
  BY <1>1 DEF Moved
<1>4. handlers'[m] = h /\ \A n \in Msgs \ {m} : handlers'[n] = handlers[n]
  BY <1>2, <1>3
<1> QED  BY <1>1, <1>2, <1>3, <1>4 DEF OwnLocals

LEMMA StepChat ==
  ASSUME Timely, NEW m \in Msgs, HandlerStep(m)
  PROVE  OwnChat(m)
<1> DEFINE c == ChatOf(m)
           old == chats[c]
<1>0. /\ c \in Chats /\ c = ChatOf(m) /\ old = chats[c] /\ chats \in [Chats -> ChatState]
      /\ old \in ChatState
  BY HandlerFacts DEF Timely, TypeOK, StoreTypeOK
<1>1. ASSUME NEW s, chats' = [chats EXCEPT ![c] = s]
      PROVE  chats'[c] = s /\ \A d \in Chats \ {c} : chats'[d] = chats[d]
  BY <1>0, <1>1
<1> HIDE DEF c, old
<1>2. CASE UNCHANGED chats
  BY <1>0, <1>2 DEF OwnChat
<1>3. CASE Reset(m)
  <2>1. chats' = [chats EXCEPT ![c] =
                   [old EXCEPT !.turns = <<>>, !.turnExpire = ZeroTime,
                               !.lastSymbol = NoSymbol, !.symExpire = ZeroTime]]
    BY <1>0, <1>3 DEF Reset, Clear
  <2> QED  BY <1>0, <1>1, <1>3, <2>1 DEF OwnChat, ChatState
<1>4. CASE LoadHistory(m)
  <2>1. chats' = [chats EXCEPT ![c] = [old EXCEPT !.turns = LiveTurns(c)]]
    BY <1>0, <1>4 DEF LoadHistory, Load
  <2> QED  BY <1>0, <1>1, <1>4, <2>1 DEF OwnChat, ChatState
<1>5. CASE StartMark(m) \/ (MaybeGreet(m) /\ TryGreet(c))
  <2>1. chats' = [chats EXCEPT ![c] = [old EXCEPT !.greetExpire = now + GreetedTTL]]
    BY <1>0, <1>5 DEF StartMark, MarkGreeted, TryGreet
  <2> QED  BY <1>0, <1>1, <1>5, <2>1 DEF OwnChat, ChatState
<1>6. CASE Alerts(m)
  <2> DEFINE off == ~(Kind(m) = "alerts_on")
  <2>1. chats' = [chats EXCEPT ![c] = [old EXCEPT !.alertsExplicitlyDisabled = off]]
    BY <1>0, <1>6 DEF Alerts, SetAlertsEnabled
  <2>2. off = (Kind(m) = "alerts_off")
    BY <1>6 DEF Alerts
  <2> HIDE DEF off
  <2> QED  BY <1>0, <1>1, <1>6, <2>1, <2>2 DEF OwnChat, ChatState
<1>7. CASE Enrich(m)
  <2>1. PICK y \in MaybeEnrich(m) :
          /\ handlers' = [handlers EXCEPT ![m].pc = "stream", ![m].symbol = y]
          /\ IF y = NoSymbol THEN UNCHANGED chats ELSE SetLastSymbol(c, y)
    BY <1>0, <1>7 DEF Enrich
  <2>2. CASE y = NoSymbol
    BY <1>2, <2>1, <2>2
  <2>3. CASE y # NoSymbol
    <3>1. y \in Symbols
      BY <2>3, ResolvedSymbol DEF MaybeEnrich
    <3>2. handlers'[m].symbol = y
      BY <2>1 DEF Timely, TypeOK, Handler
    <3>3. chats' = [chats EXCEPT ![c] = [old EXCEPT !.lastSymbol = y,
                                                    !.symExpire = now + SessionTTL]]
      BY <1>0, <2>1, <2>3 DEF SetLastSymbol
    <3> QED  BY <1>0, <1>1, <1>7, <3>1, <3>2, <3>3 DEF OwnChat, ChatState
  <2> QED  BY <2>2, <2>3
<1>8. CASE PersistUser(m)
  <2> DEFINE t == UserTurn(m, now)
             trimmed == LastTurns(Append(old.turns, t))
  <2>1. chats' = [chats EXCEPT ![c] =
                   [old EXCEPT !.turns = trimmed, !.turnExpire = now + SessionTTL,
                               !.lastActive = now]]
    BY <1>0, <1>8 DEF PersistUser, AppendTurn, UserTurn
  <2>2. trimmed = LastTurns(Append(old.turns, UserTurn(m, now)))
    OBVIOUS
  <2> HIDE DEF trimmed
  <2> QED  BY <1>0, <1>1, <1>8, <2>1, <2>2 DEF OwnChat, ChatState
<1>9. CASE PersistReply(m)
  <2> DEFINE t == ReplyTurn(m, handlers[m].stamp)
             trimmed == LastTurns(Append(old.turns, t))
  <2>1. chats' = [chats EXCEPT ![c] =
                   [old EXCEPT !.turns = trimmed, !.turnExpire = now + SessionTTL]]
    BY <1>0, <1>9 DEF PersistReply, AppendTurn, ReplyTurn
  <2>2. trimmed = LastTurns(Append(old.turns, ReplyTurn(m, handlers[m].stamp)))
    OBVIOUS
  <2> HIDE DEF trimmed
  <2> QED  BY <1>0, <1>1, <1>9, <2>1, <2>2 DEF OwnChat, ChatState
<1>10. CASE Start(m) \/ Other(m) \/ ReadHint(m) \/ Chunk(m) \/ EndStream(m)
            \/ RecordDecision(m) \/ ShowCard(m) \/ (MaybeGreet(m) /\ ~TryGreet(c))
  BY <1>0, <1>2, <1>10 DEF Start, Other, ReadHint, Chunk, EndStream, RecordDecision, ShowCard,
                           MaybeGreet
<1> QED  BY <1>3, <1>4, <1>5, <1>6, <1>7, <1>8, <1>9, <1>10 DEF HandlerStep

LEMMA StepHistory ==
  ASSUME NEW m \in Msgs, HandlerStep(m)
  PROVE  /\ \/ welcomes' = welcomes
            \/ /\ MaybeGreet(m) /\ TryGreet(ChatOf(m))
               /\ welcomes' = [welcomes EXCEPT ![ChatOf(m)] = Append(@, now)]
         /\ \/ spokeAt' = spokeAt
            \/ PersistUser(m) /\ spokeAt' = [spokeAt EXCEPT ![ChatOf(m)] = now]
  BY DEF HandlerStep, Start, StartMark, Reset, Alerts, Other, MaybeGreet, LoadHistory, ReadHint,
         Enrich, Chunk, EndStream, RecordDecision, ShowCard, PersistUser, PersistReply

(* An update is taken: a goroutine starts, or the filter drops it.         *)
Taken(m) ==
  LET old == handlers[m]  h == handlers'[m] IN
  /\ UNCHANGED <<now, chats, welcomes, spokeAt>>
  /\ handlers' \in [Msgs -> Handler]
  /\ \A n \in Msgs \ {m} : handlers'[n] = handlers[n]
  /\ \A n \in Msgs : handlers'[n].input = handlers[n].input
  /\ h.full = old.full /\ h.rows = old.rows /\ h.symbol = old.symbol
  /\ At(m, "new") /\ \A n \in 1 .. m - 1 : ~At(n, "new")
  /\ \/ h.pc = "done" /\ h.deadline = old.deadline /\ h.sequential = old.sequential
     \/ h.pc = "spawned" /\ h.deadline = now + Budget /\ h.sequential = ~Overlaps(m)

LEMMA ReceiveTakes ==
  ASSUME Timely, NEW m \in Msgs, Receive(m)
  PROVE  Taken(m)
<1> DEFINE old == handlers[m]
           alone == ~Overlaps(m)
<1>0. /\ handlers \in [Msgs -> Handler] /\ old \in Handler /\ old = handlers[m]
      /\ now + Budget \in Nat /\ alone \in BOOLEAN /\ alone = ~Overlaps(m)
  BY HandlerAssumption DEF Timely, TypeOK, StoreTypeOK
<1>1. ASSUME NEW h \in Handler, handlers' = [handlers EXCEPT ![m] = h], h.input = old.input
      PROVE  /\ handlers' \in [Msgs -> Handler] /\ handlers'[m] = h
             /\ \A n \in Msgs \ {m} : handlers'[n] = handlers[n]
             /\ \A n \in Msgs : handlers'[n].input = handlers[n].input
  BY <1>0, <1>1
<1>2. /\ UNCHANGED <<now, chats, welcomes, spokeAt>>
      /\ At(m, "new") /\ \A n \in 1 .. m - 1 : ~At(n, "new")
  BY DEF Receive
<1> HIDE DEF old, alone
<1>3. CASE Kind(m) = "rejected"
  <2> DEFINE h == [old EXCEPT !.pc = "done"]
  <2>1. handlers' = [handlers EXCEPT ![m] = h]
    BY <1>0, <1>3 DEF Receive, Goto
  <2>2. /\ h \in Handler /\ h.input = old.input /\ h.full = old.full /\ h.rows = old.rows
        /\ h.symbol = old.symbol /\ h.pc = "done" /\ h.deadline = old.deadline
        /\ h.sequential = old.sequential
    BY <1>0 DEF Handler, PCs
  <2> HIDE DEF h
  <2> QED  BY <1>0, <1>1, <1>2, <2>1, <2>2 DEF Taken
<1>4. CASE Kind(m) # "rejected"
  <2> DEFINE due == now + Budget
             h == [old EXCEPT !.pc = "spawned", !.deadline = due, !.sequential = alone]
  <2>1. handlers' = [handlers EXCEPT ![m] = h]
    BY <1>0, <1>4 DEF Receive
  <2>2. due \in Nat /\ due = now + Budget
    BY <1>0
  <2> HIDE DEF due
  <2>3. /\ h \in Handler /\ h.input = old.input /\ h.full = old.full /\ h.rows = old.rows
        /\ h.symbol = old.symbol /\ h.pc = "spawned" /\ h.deadline = due
        /\ h.sequential = alone
    BY <1>0, <2>2 DEF Handler, PCs
  <2> HIDE DEF h
  <2> QED  BY <1>0, <1>1, <1>2, <2>1, <2>2, <2>3 DEF Taken
<1> QED  BY <1>3, <1>4

-----------------------------------------------------------------------------
(* Types and deadlines. *)

LEMMA InitTimely == Init => Timely
<1> SUFFICES ASSUME Init PROVE Timely
  OBVIOUS
<1>1. PICK s \in Scenarios :
        now = s.start /\ handlers = [m \in Msgs |-> NewHandler(s.inputs[m])]
  BY DEF Init
<1>2. StoreTypeOK /\ AlertActivityWindow < now /\ now <= MaxNow
  BY StoreInitTyped, StoreAssumption DEF Init, StoreInit, StoreTypeOK
<1>3. ASSUME NEW m \in Msgs PROVE handlers[m] \in Handler /\ handlers[m].pc = "new"
  <2>1. handlers[m] = NewHandler(s.inputs[m]) /\ s.inputs[m] \in Messages
    BY <1>1, HandlerAssumption
  <2>2. NoSymbol \in Symbols \cup {NoSymbol} /\ ZeroTime \in Nat
    BY DEF ZeroTime
  <2> HIDE DEF NoSymbol, ZeroTime
  <2> QED  BY <2>1, <2>2 DEF NewHandler, Handler, PCs, Texts
<1>4. handlers \in [Msgs -> Handler]
  BY <1>1, <1>3
<1>5. welcomes \in [Chats -> Seq(Nat)]
  BY DEF Init
<1>6. spokeAt \in [Chats -> Nat]
  BY DEF Init, ZeroTime
<1> QED  BY <1>2, <1>3, <1>4, <1>5, <1>6 DEF Timely, TypeOK, Running, At

LEMMA StepTimely ==
  ASSUME Timely, NEW m \in Msgs, HandlerStep(m)
  PROVE  Timely'
<1>1. UNCHANGED now /\ now \in Nat /\ Budget \in Nat
  BY StepCallsStore, HandlerAssumption DEF Timely, TypeOK, StoreTypeOK
<1>2. StoreTypeOK'
  <2>1. CASE UNCHANGED chats
    BY <1>1, <2>1 DEF Timely, TypeOK, StoreTypeOK
  <2>2. CASE Operation(ChatOf(m))
    BY <1>1, <2>2, HandlerFacts, OperationTyped DEF Timely, TypeOK
  <2> QED  BY <2>1, <2>2, StepCallsStore
<1>3. OwnLocals(m)
  BY StepLocals
<1>4. handlers' \in [Msgs -> Handler]
  <2>1. PICK h : handlers' = [handlers EXCEPT ![m] = h] /\ h \in Handler
    BY StepMoves DEF Moved
  <2> QED  BY <2>1 DEF Timely, TypeOK
<1>5. welcomes' \in [Chats -> Seq(Nat)]
  <2>1. welcomes \in [Chats -> Seq(Nat)]
    BY DEF Timely, TypeOK
  <2>2. CASE welcomes' = welcomes
    BY <2>1, <2>2
  <2>3. CASE welcomes' = [welcomes EXCEPT ![ChatOf(m)] = Append(@, now)]
    <3>1. ChatOf(m) \in Chats
      BY HandlerFacts
    <3>2. Append(welcomes[ChatOf(m)], now) \in Seq(Nat)
      BY <1>1, <2>1, <3>1
    <3> QED  BY <2>1, <2>3, <3>2
  <2> QED  BY <2>2, <2>3, StepHistory
<1>6. spokeAt' \in [Chats -> Nat]
  BY <1>1, StepHistory DEF Timely, TypeOK
<1>7. ASSUME NEW n \in Msgs
      PROVE  /\ Running(n)' => now' <= handlers'[n].deadline /\ handlers'[n].deadline <= now' + Budget
             /\ At(n, "persistReply")' =>
                  handlers'[n].stamp <= now' /\ handlers'[n].deadline <= handlers'[n].stamp + Budget
  <2>1. CASE n # m
    BY <1>1, <1>3, <2>1 DEF OwnLocals, Timely, Running, At
  <2>2. CASE n = m
    <3>1. Running(m)
      BY <1>3 DEF OwnLocals, Moved, GoesTo, Running
    <3>2. now <= handlers'[m].deadline /\ handlers'[m].deadline <= now + Budget
      BY <1>3, <3>1 DEF OwnLocals, Timely
    <3>3. handlers'[m].pc = "persistReply" => handlers'[m].stamp = now
      BY <1>3 DEF OwnLocals, Moved
    <3> QED  BY <1>1, <2>2, <3>2, <3>3 DEF At
  <2> QED  BY <2>1, <2>2
<1> QED  BY <1>1, <1>2, <1>4, <1>5, <1>6, <1>7 DEF Timely, TypeOK

LEMMA ReceiveTimely ==
  ASSUME Timely, NEW m \in Msgs, Receive(m)
  PROVE  Timely'
<1>1. Taken(m) /\ now \in Nat /\ Budget \in Nat
  BY ReceiveTakes, HandlerAssumption DEF Timely, TypeOK, StoreTypeOK
<1>2. TypeOK' /\ UNCHANGED now
  BY <1>1 DEF Taken, Timely, TypeOK, StoreTypeOK
<1>3. ASSUME NEW n \in Msgs
      PROVE  /\ Running(n)' => now' <= handlers'[n].deadline /\ handlers'[n].deadline <= now' + Budget
             /\ At(n, "persistReply")' =>
                  handlers'[n].stamp <= now' /\ handlers'[n].deadline <= handlers'[n].stamp + Budget
  <2>1. CASE n # m
    BY <1>1, <2>1 DEF Taken, Timely, Running, At
  <2>2. CASE n = m
    BY <1>1, <2>2 DEF Taken, Running, At
  <2> QED  BY <2>1, <2>2
<1> QED  BY <1>2, <1>3 DEF Timely

LEMMA ClockTimely == Timely /\ Clock => Timely'
<1> SUFFICES ASSUME Timely, Clock PROVE Timely'
  OBVIOUS
<1>1. /\ now \in Nat /\ now < MaxNow /\ now' = now + 1 /\ handlers' = handlers
      /\ MaxNow \in Nat /\ Budget \in Nat /\ AlertActivityWindow \in Nat
  BY StoreAssumption, HandlerAssumption DEF Clock, Tick, Timely, TypeOK, StoreTypeOK, handlerVars
<1>2. TypeOK'
  BY TickTyped DEF Clock, Timely, TypeOK, handlerVars
<1>3. ASSUME NEW n \in Msgs
      PROVE  /\ Running(n)' => now' <= handlers'[n].deadline /\ handlers'[n].deadline <= now' + Budget
             /\ At(n, "persistReply")' =>
                  handlers'[n].stamp <= now' /\ handlers'[n].deadline <= handlers'[n].stamp + Budget
  <2>1. handlers[n].deadline \in Nat /\ handlers[n].stamp \in Nat
    BY HandlerFacts
  <2>2. Running(n) => now < handlers[n].deadline
    BY <1>1, <2>1 DEF Clock, CtxDone
  <2> QED  BY <1>1, <2>1, <2>2 DEF Timely, Running, At
<1> QED  BY <1>1, <1>2, <1>3 DEF Timely

LEMMA NextTimely == Timely /\ [Next]_vars => Timely'
<1>1. Timely /\ UNCHANGED vars => Timely'
  BY DEF vars, Timely, TypeOK, StoreTypeOK, Running, At
<1> QED  BY <1>1, StepTimely, ReceiveTimely, ClockTimely DEF Next

THEOREM AlwaysTimely == Spec => []Timely
  BY InitTimely, NextTimely, PTL DEF Spec

(* However the handlers interleave, their locals and the store keep their  *)
(* types, and the rolling history its cap (biz/chat_handler.go).           *)
THEOREM HandlerTypes == Spec => []TypeOK
<1>1. Timely => TypeOK
  BY DEF Timely
<1> QED  BY <1>1, AlwaysTimely, PTL

-----------------------------------------------------------------------------
(* Welcomes and subscriptions. *)

LEMMA StepWelcomed ==
  ASSUME Timely, Welcomed, NEW m \in Msgs, HandlerStep(m)
  PROVE  Welcomed'
<1>0. /\ now \in Nat /\ now' = now /\ GreetedTTL \in Nat \ {0} /\ ChatOf(m) \in Chats
      /\ welcomes \in [Chats -> Seq(Nat)]
  BY StepCallsStore, StoreAssumption, HandlerFacts DEF Timely, TypeOK, StoreTypeOK
<1>1. ASSUME NEW c \in Chats
      PROVE  /\ chats[c].greetExpire \in Nat /\ chats'[c].greetExpire \in Nat
             /\ \A i \in DOMAIN welcomes[c] : welcomes[c][i] \in Nat
             /\ welcomes[c] \in Seq(Nat)
  <2>1. chats[c] \in ChatState /\ chats'[c] \in ChatState
    BY StepTimely DEF Timely, TypeOK, StoreTypeOK
  <2>2. welcomes[c] \in Seq(Nat)
    BY <1>0
  <2>3. \A i \in DOMAIN welcomes[c] : welcomes[c][i] \in Nat
    BY <2>2
  <2> QED  BY <2>1, <2>2, <2>3 DEF ChatState
<1>2. ASSUME NEW c \in Chats
      PROVE  \/ chats'[c].greetExpire = chats[c].greetExpire
             \/ chats'[c].greetExpire = now + GreetedTTL
  BY <1>0, StepChat DEF OwnChat
<1>3. CASE welcomes' = welcomes
  <2>1. ASSUME NEW c \in Chats, NEW i \in DOMAIN welcomes[c]
        PROVE  welcomes[c][i] <= now /\ welcomes[c][i] + GreetedTTL <= chats'[c].greetExpire
    <3>1. welcomes[c][i] <= now /\ welcomes[c][i] + GreetedTTL <= chats[c].greetExpire
      BY DEF Welcomed
    <3> DEFINE w == welcomes[c][i]
               g == chats[c].greetExpire
               h == chats'[c].greetExpire
    <3>2. w \in Nat /\ g \in Nat /\ h \in Nat /\ (h = g \/ h = now + GreetedTTL)
      BY <1>1, <1>2
    <3> HIDE DEF w, g, h
    <3>3. w <= now /\ w + GreetedTTL <= g
      BY <3>1 DEF w, g
    <3>4. w + GreetedTTL <= h
      BY <1>0, <3>2, <3>3
    <3> QED  BY <3>3, <3>4 DEF w, h
  <2>2. \A c \in Chats : \A i, j \in DOMAIN welcomes[c] :
          i < j => welcomes[c][j] - welcomes[c][i] >= GreetedTTL
    BY DEF Welcomed
  <2> QED  BY <1>0, <1>3, <2>1, <2>2 DEF Welcomed
<1>4. CASE /\ TryGreet(ChatOf(m))
           /\ welcomes' = [welcomes EXCEPT ![ChatOf(m)] = Append(@, now)]
  <2> DEFINE w == welcomes[ChatOf(m)]
  <2>1. /\ welcomes'[ChatOf(m)] = Append(w, now) /\ w \in Seq(Nat)
        /\ \A c \in Chats \ {ChatOf(m)} :
             welcomes'[c] = welcomes[c] /\ chats'[c].greetExpire = chats[c].greetExpire
    BY <1>0, <1>1, <1>4, StepChat DEF OwnChat
  <2>2. chats'[ChatOf(m)].greetExpire = now + GreetedTTL
    BY <1>0, <1>4 DEF TryGreet, Timely, TypeOK, StoreTypeOK, ChatState
  <2>3. \A i \in DOMAIN w : now - w[i] >= GreetedTTL
    <3>1. ASSUME NEW i \in DOMAIN w PROVE now - w[i] >= GreetedTTL
      <4>1. w[i] \in Nat /\ w[i] + GreetedTTL <= chats[ChatOf(m)].greetExpire
        BY <1>0, <1>1 DEF Welcomed
      <4>2. chats[ChatOf(m)].greetExpire = 0 \/ now >= chats[ChatOf(m)].greetExpire
        BY <1>4 DEF TryGreet, MayGreet, ZeroTime
      <4> QED  BY <1>0, <1>1, <4>1, <4>2
    <3> QED  BY <3>1
  <2>4. ASSUME NEW c \in Chats
        PROVE  /\ \A i \in DOMAIN welcomes'[c] :
                     /\ welcomes'[c][i] <= now
                     /\ welcomes'[c][i] + GreetedTTL <= chats'[c].greetExpire
               /\ \A i, j \in DOMAIN welcomes'[c] :
                     i < j => welcomes'[c][j] - welcomes'[c][i] >= GreetedTTL
    <3>1. CASE c # ChatOf(m)
      BY <2>1, <3>1 DEF Welcomed
    <3>2. CASE c = ChatOf(m)
      <4>1. /\ \A i \in DOMAIN w : w[i] \in Nat /\ w[i] <= now
            /\ \A i, j \in DOMAIN w : i < j => w[j] - w[i] >= GreetedTTL
        BY <1>0, <1>1 DEF Welcomed
      <4>2. /\ DOMAIN Append(w, now) = 1 .. Len(w) + 1 /\ DOMAIN w = 1 .. Len(w)
            /\ Append(w, now)[Len(w) + 1] = now /\ Len(w) \in Nat
            /\ \A i \in 1 .. Len(w) : Append(w, now)[i] = w[i]
        BY <1>0, <2>1
      <4> HIDE DEF w
      <4>3. \A i \in DOMAIN Append(w, now) :
               /\ Append(w, now)[i] <= now
               /\ Append(w, now)[i] + GreetedTTL <= now + GreetedTTL
        BY <1>0, <4>1, <4>2
      <4>4. \A i, j \in DOMAIN Append(w, now) :
              i < j => Append(w, now)[j] - Append(w, now)[i] >= GreetedTTL
        BY <1>0, <2>3, <4>1, <4>2
      <4> QED  BY <2>1, <2>2, <3>2, <4>3, <4>4
    <3> QED  BY <3>1, <3>2
  <2> QED  BY <1>0, <2>4 DEF Welcomed
<1> QED  BY <1>3, <1>4, StepHistory

(* However many messages of a chat are handled side by side, two automatic *)
(* welcomes are a full GreetedTTL apart (biz/session_store.go, TryGreet).  *)
THEOREM WelcomesAreApart == Spec => []WelcomesApart
<1>1. Init => Welcomed
  <2>1. Init => \A c \in Chats : welcomes[c] = <<>>
    BY DEF Init
  <2>2. DOMAIN <<>> = {}
    OBVIOUS
  <2> QED  BY <2>1, <2>2 DEF Welcomed
<1>2. Timely /\ Welcomed /\ [Next]_vars => Welcomed'
  <2> SUFFICES ASSUME Timely, Welcomed, [Next]_vars PROVE Welcomed'
    OBVIOUS
  <2>1. ASSUME NEW m \in Msgs, Receive(m) PROVE Welcomed'
    BY <2>1 DEF Receive, Welcomed
  <2>2. CASE Clock
    <3>1. /\ now' = now + 1 /\ chats' = chats /\ welcomes' = welcomes /\ now \in Nat
          /\ \A c \in Chats : \A i \in DOMAIN welcomes[c] : welcomes[c][i] \in Nat
      BY <2>2 DEF Clock, Tick, handlerVars, Timely, TypeOK, StoreTypeOK
    <3> QED  BY <3>1 DEF Welcomed
  <2>3. CASE UNCHANGED vars
    BY <2>3 DEF vars, Welcomed
  <2> QED  BY <2>1, <2>2, <2>3, StepWelcomed DEF Next
<1>3. Welcomed => WelcomesApart
  BY DEF Welcomed, WelcomesApart
<1> QED  BY <1>1, <1>2, <1>3, AlwaysTimely, PTL DEF Spec

LEMMA StepActive ==
  ASSUME Timely, Active, NEW m \in Msgs, HandlerStep(m)
  PROVE  Active'
<1>0. /\ ChatOf(m) \in Chats /\ spokeAt \in [Chats -> Nat]
      /\ chats \in [Chats -> ChatState]
  BY HandlerFacts DEF Timely, TypeOK, StoreTypeOK
<1>1. CASE PersistUser(m)
  <2>1. /\ chats'[ChatOf(m)].lastActive = now
        /\ \A c \in Chats \ {ChatOf(m)} : chats'[c] = chats[c]
    BY <1>0, <1>1 DEF PersistUser, AppendTurn, UserTurn, ChatState
  <2>2. spokeAt' = [spokeAt EXCEPT ![ChatOf(m)] = now]
    BY <1>1 DEF PersistUser
  <2> QED  BY <1>0, <2>1, <2>2 DEF Active
<1>2. CASE ~PersistUser(m)
  <2>1. \A c \in Chats : chats'[c].lastActive = chats[c].lastActive
    BY <1>2, StepChat DEF OwnChat
  <2>2. spokeAt' = spokeAt
    BY <1>2, StepHistory
  <2> QED  BY <2>1, <2>2 DEF Active
<1> QED  BY <1>1, <1>2

(* A chat that gets news alerts had a message answered within the activity *)
(* window (ListAlertSubscribers, touchActivity by user turns alone).       *)
THEOREM SubscribersHaveSpoken == Spec => []SubscribersSpoke
<1>1. Init => Active
  <2>1. Init => \A c \in Chats : chats[c] = ZeroChat /\ spokeAt[c] = ZeroTime
    BY DEF Init, StoreInit
  <2>2. ZeroChat.lastActive = ZeroTime
    BY DEF ZeroChat
  <2> QED  BY <2>1, <2>2 DEF Active
<1>2. Timely /\ Active /\ [Next]_vars => Active'
  <2> SUFFICES ASSUME Timely, Active, [Next]_vars PROVE Active'
    OBVIOUS
  <2>1. ASSUME NEW m \in Msgs, Receive(m) PROVE Active'
    BY <2>1 DEF Receive, Active
  <2>2. CASE Clock \/ UNCHANGED vars
    BY <2>2 DEF Clock, Tick, handlerVars, vars, Active
  <2> QED  BY <2>1, <2>2, StepActive DEF Next
<1>3. Timely /\ Active => SubscribersSpoke
  <2> SUFFICES ASSUME Timely, Active, NEW c \in ListAlertSubscribers
               PROVE  spokeAt[c] # ZeroTime /\ now - spokeAt[c] <= AlertActivityWindow
    BY DEF SubscribersSpoke
  <2>1. /\ c \in Chats /\ chats[c].lastActive >= now - AlertActivityWindow
        /\ spokeAt[c] \in Nat /\ now \in Nat /\ AlertActivityWindow < now
        /\ AlertActivityWindow \in Nat /\ chats[c].lastActive = spokeAt[c]
    BY StoreAssumption DEF ListAlertSubscribers, Timely, TypeOK, StoreTypeOK, Active
  <2> QED  BY <2>1 DEF ZeroTime
<1> QED  BY <1>1, <1>2, <1>3, AlwaysTimely, PTL DEF Spec

-----------------------------------------------------------------------------
(* The last word of a chat. *)

LEMMA AlwaysRouted == Spec => []Routed
<1>1. Init => Routed
  BY DEF Init, Routed, NewHandler, At
<1>2. Timely /\ Routed /\ [Next]_vars => Routed'
  <2> SUFFICES ASSUME Timely, Routed, [Next]_vars PROVE Routed'
    OBVIOUS
  <2>1. ASSUME NEW m \in Msgs, Receive(m) PROVE Routed'
    BY <2>1, ReceiveTakes DEF Taken, Routed, At, Kind, IsChat
  <2>2. ASSUME NEW m \in Msgs, HandlerStep(m) PROVE Routed'
    <3>1. OwnLocals(m)
      BY <2>2, StepLocals
    <3>2. /\ At(m, "mark")' => Kind(m) = "start"
          /\ handlers'[m].pc = "load" => IsChat(m)
      <4>1. CASE At(m, "spawned")
        <5>1. Start(m) \/ Reset(m) \/ Alerts(m) \/ Other(m) \/ MaybeGreet(m)
          BY <2>2, <4>1 DEF HandlerStep, StartMark, LoadHistory, ReadHint, Enrich, Chunk,
               EndStream, RecordDecision, ShowCard, PersistUser, PersistReply, At
        <5>2. \A pc : Goto(m, pc) => handlers'[m].pc = pc
          BY DEF Goto, Timely, TypeOK, Handler
        <5>3. CASE Start(m)
          BY <5>2, <5>3 DEF Start, At
        <5>4. CASE Reset(m) \/ Alerts(m) \/ Other(m)
          <6>1. Goto(m, "done")
            BY <5>4 DEF Reset, Alerts, Other
          <6> QED  BY <5>2, <6>1 DEF At
        <5>5. CASE MaybeGreet(m)
          <6>1. Goto(m, "load") /\ IsChat(m)
            BY <5>5 DEF MaybeGreet
          <6> QED  BY <5>2, <6>1 DEF At
        <5> QED  BY <5>1, <5>3, <5>4, <5>5
      <4>2. CASE ~At(m, "spawned")
        BY <3>1, <4>2, HandlerFacts DEF OwnLocals, Moved, GoesTo, At, PCs
      <4> QED  BY <4>1, <4>2
    <3>3. handlers'[m].pc \in {"hint", "fetch", "stream", "save", "card", "persist",
                               "persistReply"} => IsChat(m)
      <4>1. handlers[m].pc \in PCs
        BY HandlerFacts
      <4> QED  BY <3>1, <4>1 DEF OwnLocals, Moved, GoesTo, Routed, PCs
    <3> QED  BY <3>1, <3>2, <3>3 DEF OwnLocals, Routed, At, Kind, IsChat
  <2>3. CASE Clock \/ UNCHANGED vars
    BY <2>3 DEF Clock, handlerVars, vars, Routed, At, Kind, IsChat
  <2> QED  BY <2>1, <2>2, <2>3 DEF Next
<1> QED  BY <1>1, <1>2, AlwaysTimely, PTL DEF Spec

LEMMA AlwaysAlone == Spec => []Alone
<1>1. Init => Alone
  BY DEF Init, Alone, NewHandler
<1>2. Timely /\ Alone /\ [Next]_vars => Alone'
  <2> SUFFICES ASSUME Timely, Alone, [Next]_vars PROVE Alone'
    OBVIOUS
  <2>0. \A m \in Msgs : 1 .. m - 1 \subseteq Msgs
    BY HandlerAssumption DEF Msgs
  <2>1. ASSUME NEW m \in Msgs, Receive(m) PROVE Alone'
    <3>1. Taken(m)
      BY <2>1, ReceiveTakes
    <3>2. ASSUME NEW k \in Msgs, handlers'[k].sequential
          PROVE  /\ handlers'[k].pc # "new"
                 /\ \A n \in 1 .. k - 1 : ChatOf(n) = ChatOf(k) => handlers[n].pc = "done"
      <4>1. CASE k = m
        BY <3>1, <3>2, <4>1 DEF Taken, Alone, Overlaps, At
      <4>2. CASE k # m
        BY <3>1, <3>2, <4>2 DEF Taken, Alone, At
      <4> QED  BY <4>1, <4>2
    <3>3. \A n \in Msgs : handlers[n].pc = "done" => handlers'[n].pc = "done"
      BY <3>1 DEF Taken, At
    <3> QED  BY <2>0, <3>1, <3>2, <3>3 DEF Taken, Alone, At, ChatOf
  <2>2. ASSUME NEW m \in Msgs, HandlerStep(m) PROVE Alone'
    <3>1. OwnLocals(m) /\ handlers[m].pc # "done" /\ handlers'[m].pc # "new"
      BY <2>2, StepLocals DEF OwnLocals, Moved, GoesTo
    <3> QED  BY <2>0, <3>1 DEF OwnLocals, Alone, At, ChatOf
  <2>3. CASE Clock \/ UNCHANGED vars
    BY <2>3 DEF Clock, handlerVars, vars, Alone, At, ChatOf
  <2> QED  BY <2>1, <2>2, <2>3 DEF Next
<1> QED  BY <1>1, <1>2, AlwaysTimely, PTL DEF Spec

(* Where m has the last word, a step of its chat is that of m itself, or   *)
(* of a later message that may speak.                                      *)
LEMMA LastWordStays ==
  ASSUME Timely, Alone, NEW k \in Msgs, HandlerStep(k),
         NEW m \in Msgs, NEW later \in SUBSET Msgs, LastWord(m, later)', ChatOf(k) = ChatOf(m)
  PROVE  k = m \/ (k \notin later /\ k > m /\ LastWord(m, later))
<1>1. OwnLocals(k) /\ k \in Nat /\ m \in Nat /\ 1 .. m - 1 \subseteq Msgs
  BY StepLocals, HandlerAssumption DEF Msgs
<1>2. /\ handlers'[k].pc # "new" /\ handlers[k].pc # "done" /\ handlers[m].sequential
      /\ handlers'[m].pc = "done" /\ ChatOf(k)' = ChatOf(m)'
      /\ \A n \in later : n > m /\ ChatOf(n)' = ChatOf(m)' => handlers'[n].pc = "new"
  BY <1>1 DEF OwnLocals, Moved, GoesTo, LastWord, At, ChatOf
<1>3. ~(k < m)
  BY <1>1, <1>2 DEF Alone, At, Msgs
<1>4. CASE k = m
  BY <1>2, <1>4
<1>5. CASE k > m
  <2>1. k \notin later
    BY <1>2, <1>5
  <2>2. \A n \in later : handlers'[n] = handlers[n]
    BY <1>1, <2>1 DEF OwnLocals
  <2>3. handlers'[m] = handlers[m]
    BY <1>1, <1>5 DEF OwnLocals
  <2>4. LastWord(m, later)
    BY <2>2, <2>3 DEF LastWord, At, ChatOf
  <2> QED  BY <1>5, <2>1, <2>4
<1> QED  BY <1>1, <1>3, <1>4, <1>5

(* The commands, told from where their handler stands. *)
LEMMA CommandSteps ==
  ASSUME Timely, Routed, NEW m \in Msgs, HandlerStep(m)
  PROVE  /\ Kind(m) = "reset" => Reset(m)
         /\ Kind(m) \in {"alerts_on", "alerts_off"} => Alerts(m)
         /\ ~IsChat(m) => Start(m) \/ StartMark(m) \/ Reset(m) \/ Alerts(m) \/ Other(m)
<1>1. ~IsChat(m) => Start(m) \/ StartMark(m) \/ Reset(m) \/ Alerts(m) \/ Other(m)
  BY DEF HandlerStep, MaybeGreet, LoadHistory, ReadHint, Enrich, Chunk, EndStream,
         RecordDecision, ShowCard, PersistUser, PersistReply, At, Routed
<1>2. Kind(m) \in {"reset", "alerts_on", "alerts_off"} => ~IsChat(m)
  BY DEF IsChat
<1>3. StartMark(m) => Kind(m) = "start"
  BY DEF StartMark, Routed
<1> QED  BY <1>1, <1>2, <1>3 DEF Start, Reset, Alerts, Other

LEMMA StepOptOut ==
  ASSUME Timely, Alone, Routed, OptOutInForce, NEW k \in Msgs, HandlerStep(k)
  PROVE  OptOutInForce'
<1>1. /\ OwnLocals(k) /\ OwnChat(k) /\ ChatOf(k) \in Chats
      /\ \A n \in Msgs : handlers'[n].input = handlers[n].input
  BY StepLocals, StepChat, HandlerFacts DEF OwnLocals
<1>2. PICK later \in SUBSET Msgs : later = {n \in Msgs : Kind(n) = "alerts_on"}
  OBVIOUS
<1>3. SUFFICES ASSUME NEW m \in Msgs, Kind(m) = "alerts_off", LastWord(m, later)'
               PROVE  chats'[ChatOf(m)].alertsExplicitlyDisabled
  BY <1>1, <1>2 DEF OptOutInForce, LastWord, At, ChatOf, Kind
<1>4. ChatOf(m) \in Chats
  BY HandlerFacts
<1>5. CASE ChatOf(k) # ChatOf(m)
  <2>1. k # m
    BY <1>5
  <2>2. LastWord(m, later)
    <3>1. handlers'[m] = handlers[m]
      BY <1>1, <2>1 DEF OwnLocals
    <3>2. \A n \in later : ChatOf(n) = ChatOf(m) => handlers'[n] = handlers[n]
      BY <1>1, <1>2, <1>5 DEF OwnLocals
    <3> QED  BY <1>1, <1>2, <1>3, <3>1, <3>2 DEF LastWord, At, ChatOf
  <2>3. chats'[ChatOf(m)] = chats[ChatOf(m)]
    BY <1>1, <1>4, <1>5 DEF OwnChat
  <2> QED  BY <1>2, <1>3, <2>2, <2>3 DEF OptOutInForce
<1>6. CASE k = m
  <2>1. Alerts(m)
    BY <1>3, <1>6, CommandSteps
  <2>2. chats' = [chats EXCEPT ![ChatOf(m)].alertsExplicitlyDisabled = TRUE]
    BY <1>3, <2>1 DEF Alerts, SetAlertsEnabled
  <2> QED  BY <1>4, <2>2 DEF Timely, TypeOK, StoreTypeOK, ChatState
<1>7. CASE ChatOf(k) = ChatOf(m) /\ k # m
  <2>1. k \notin later /\ LastWord(m, later)
    BY <1>2, <1>3, <1>7, LastWordStays
  <2>2. chats[ChatOf(m)].alertsExplicitlyDisabled
    BY <1>2, <1>3, <2>1 DEF OptOutInForce
  <2>3. Alerts(k) => Kind(k) = "alerts_off"
    BY <1>2, <2>1 DEF Alerts
  <2> QED  BY <1>1, <1>7, <2>2, <2>3 DEF OwnChat
<1> QED  BY <1>5, <1>6, <1>7

(* Taking an update gives no one the last word but a message of its own.   *)
LEMMA ReceiveLastWord ==
  ASSUME Timely, NEW k \in Msgs, Receive(k),
         NEW m \in Msgs, NEW later \in SUBSET Msgs, LastWord(m, later)', Kind(m) # "rejected"
  PROVE  LastWord(m, later)
<1>1. Taken(k)
  BY ReceiveTakes
<1>2. k # m
  <2>1. SUFFICES ASSUME k = m PROVE FALSE
    OBVIOUS
  <2>2. handlers'[m].pc = "spawned"
    BY <2>1 DEF Receive, Timely, TypeOK, Handler
  <2> QED  BY <2>2 DEF LastWord, At
<1>3. handlers'[m] = handlers[m] /\ ChatOf(m)' = ChatOf(m)
  BY <1>1, <1>2 DEF Taken, ChatOf
<1>4. \A n \in later : At(n, "new")' => At(n, "new")
  BY <1>1 DEF Taken, At
<1>5. \A n \in later : ChatOf(n)' = ChatOf(n)
  BY <1>1 DEF Taken, ChatOf
<1> QED  BY <1>3, <1>4, <1>5 DEF LastWord, At

LEMMA AlwaysOptOutInForce == Spec => []OptOutInForce
<1>1. Init => OptOutInForce
  BY DEF Init, OptOutInForce, LastWord, At, NewHandler
<1>2. Timely /\ Alone /\ Routed /\ OptOutInForce /\ [Next]_vars => OptOutInForce'
  <2> SUFFICES ASSUME Timely, Alone, Routed, OptOutInForce, [Next]_vars PROVE OptOutInForce'
    OBVIOUS
  <2>1. ASSUME NEW k \in Msgs, Receive(k) PROVE OptOutInForce'
    <3>1. /\ UNCHANGED chats /\ \A n \in Msgs : handlers'[n].input = handlers[n].input
      BY <2>1, ReceiveTakes DEF Taken
    <3>2. PICK later \in SUBSET Msgs : later = {n \in Msgs : Kind(n) = "alerts_on"}
      OBVIOUS
    <3>3. SUFFICES ASSUME NEW m \in Msgs, Kind(m) = "alerts_off", LastWord(m, later)'
                   PROVE  chats[ChatOf(m)].alertsExplicitlyDisabled
      BY <3>1, <3>2 DEF OptOutInForce, LastWord, At, ChatOf, Kind
    <3>4. LastWord(m, later)
      BY <2>1, <3>3, ReceiveLastWord
    <3> QED  BY <3>2, <3>3, <3>4 DEF OptOutInForce
  <2>2. CASE Clock \/ UNCHANGED vars
    BY <2>2 DEF Clock, Tick, handlerVars, vars, OptOutInForce, LastWord, At, ChatOf, Kind
  <2> QED  BY <2>1, <2>2, StepOptOut DEF Next
<1> QED  BY <1>1, <1>2, AlwaysTimely, AlwaysAlone, AlwaysRouted, PTL DEF Spec

(* After /alerts off no news alert goes to the chat, whatever else is said *)
(* or runs there, until it asks for alerts again (ListAlertSubscribers).   *)
THEOREM OptOutIsKept == Spec => []OptOutHolds
<1>1. OptOutInForce => OptOutHolds
  BY DEF OptOutInForce, OptOutHolds, ListAlertSubscribers
<1> QED  BY <1>1, AlwaysOptOutInForce, PTL

LEMMA StepReset ==
  ASSUME Timely, Alone, Routed, ResetInForce, NEW k \in Msgs, HandlerStep(k)
  PROVE  ResetInForce'
<1>1. /\ OwnLocals(k) /\ OwnChat(k) /\ ChatOf(k) \in Chats
      /\ \A n \in Msgs : handlers'[n].input = handlers[n].input
  BY StepLocals, StepChat, HandlerFacts DEF OwnLocals
<1>2. PICK later \in SUBSET Msgs : later = {n \in Msgs : IsChat(n)}
  OBVIOUS
<1>3. SUFFICES ASSUME NEW m \in Msgs, Kind(m) = "reset", LastWord(m, later)'
               PROVE  chats'[ChatOf(m)].turns = <<>> /\ chats'[ChatOf(m)].lastSymbol = NoSymbol
  BY <1>1, <1>2 DEF ResetInForce, LastWord, At, ChatOf, Kind, IsChat, History
<1>4. ChatOf(m) \in Chats
  BY HandlerFacts
<1>5. CASE ChatOf(k) # ChatOf(m)
  <2>1. k # m
    BY <1>5
  <2>2. LastWord(m, later)
    <3>1. handlers'[m] = handlers[m]
      BY <1>1, <2>1 DEF OwnLocals
    <3>2. \A n \in later : ChatOf(n) = ChatOf(m) => handlers'[n] = handlers[n]
      BY <1>1, <1>2, <1>5 DEF OwnLocals
    <3> QED  BY <1>1, <1>2, <1>3, <3>1, <3>2 DEF LastWord, At, ChatOf
  <2>3. chats'[ChatOf(m)] = chats[ChatOf(m)]
    BY <1>1, <1>4, <1>5 DEF OwnChat
  <2> QED  BY <1>2, <1>3, <2>2, <2>3 DEF ResetInForce, History
<1>6. CASE k = m
  <2>1. Reset(m)
    BY <1>3, <1>6, CommandSteps
  <2>2. chats' = [chats EXCEPT ![ChatOf(m)].turns = <<>>, ![ChatOf(m)].turnExpire = ZeroTime,
                               ![ChatOf(m)].lastSymbol = NoSymbol,
                               ![ChatOf(m)].symExpire = ZeroTime]
    BY <2>1 DEF Reset, Clear
  <2> QED  BY <1>4, <2>2 DEF Timely, TypeOK, StoreTypeOK, ChatState
<1>7. CASE ChatOf(k) = ChatOf(m) /\ k # m
  <2>1. k \notin later /\ LastWord(m, later)
    BY <1>2, <1>3, <1>7, LastWordStays
  <2>2. chats[ChatOf(m)].turns = <<>> /\ chats[ChatOf(m)].lastSymbol = NoSymbol
    BY <1>2, <1>3, <2>1 DEF ResetInForce, History
  <2>3. ~LoadHistory(k) /\ ~Enrich(k) /\ ~PersistUser(k) /\ ~PersistReply(k)
    BY <1>2, <2>1 DEF LoadHistory, Enrich, PersistUser, PersistReply, At, Routed
  <2> QED  BY <1>1, <1>7, <2>2, <2>3 DEF OwnChat
<1> QED  BY <1>5, <1>6, <1>7

LEMMA AlwaysResetInForce == Spec => []ResetInForce
<1>1. Init => ResetInForce
  BY DEF Init, ResetInForce, LastWord, At, NewHandler
<1>2. Timely /\ Alone /\ Routed /\ ResetInForce /\ [Next]_vars => ResetInForce'
  <2> SUFFICES ASSUME Timely, Alone, Routed, ResetInForce, [Next]_vars PROVE ResetInForce'
    OBVIOUS
  <2>1. ASSUME NEW k \in Msgs, Receive(k) PROVE ResetInForce'
    <3>1. /\ UNCHANGED chats /\ \A n \in Msgs : handlers'[n].input = handlers[n].input
      BY <2>1, ReceiveTakes DEF Taken
    <3>2. PICK later \in SUBSET Msgs : later = {n \in Msgs : IsChat(n)}
      OBVIOUS
    <3>3. SUFFICES ASSUME NEW m \in Msgs, Kind(m) = "reset", LastWord(m, later)'
                   PROVE  /\ chats[ChatOf(m)].turns = <<>>
                          /\ chats[ChatOf(m)].lastSymbol = NoSymbol
      BY <3>1, <3>2 DEF ResetInForce, LastWord, At, ChatOf, Kind, IsChat, History
    <3>4. LastWord(m, later)
      BY <2>1, <3>3, ReceiveLastWord
    <3> QED  BY <3>2, <3>3, <3>4 DEF ResetInForce, History
  <2>2. CASE Clock \/ UNCHANGED vars
    BY <2>2 DEF Clock, Tick, handlerVars, vars, ResetInForce, LastWord, At, ChatOf, Kind, IsChat,
                History
  <2> QED  BY <2>1, <2>2, StepReset DEF Next
<1> QED  BY <1>1, <1>2, AlwaysTimely, AlwaysAlone, AlwaysRouted, PTL DEF Spec

(* After a /reset that overlapped no other message nothing of the          *)
(* conversation comes back before the user writes again (Clear).           *)
THEOREM ResetIsKept == Spec => []ResetHolds
<1>1. ResetInForce => ResetHolds
  BY DEF ResetInForce, ResetHolds, GetLastSymbol, NoSymbol
<1> QED  BY <1>1, AlwaysResetInForce, PTL

-----------------------------------------------------------------------------
(* The pinned symbol. *)

LEMMA StepPinned ==
  ASSUME Timely, Alone, Pinned, NEW k \in Msgs, HandlerStep(k)
  PROVE  Pinned'
<1>1. /\ OwnLocals(k) /\ OwnChat(k) /\ ChatOf(k) \in Chats
      /\ \A n \in Msgs : handlers'[n].input = handlers[n].input
      /\ handlers[k].pc \in PCs /\ now' = now /\ now \in Nat
      /\ SessionTTL \in Nat /\ Budget \in Nat
  BY StepLocals, StepChat, StepCallsStore, HandlerFacts, StoreAssumption, HandlerAssumption
     DEF OwnLocals, Timely, TypeOK, StoreTypeOK
<1>2. ASSUME NEW m \in Msgs, handlers'[m].symbol # NoSymbol
      PROVE  handlers'[m].pc \in {"stream", "save", "card", "persist", "persistReply", "done"}
  <2>1. CASE k # m
    BY <1>1, <1>2, <2>1 DEF OwnLocals, Pinned
  <2>2. CASE k = m
    BY <1>1, <1>2, <2>2 DEF OwnLocals, Moved, GoesTo, Pinned
  <2> QED  BY <2>1, <2>2
<1>3. ASSUME NEW m \in Msgs, handlers'[m].sequential, handlers'[m].symbol # NoSymbol,
             \A n \in Msgs : n > m /\ ChatOf(n) = ChatOf(m) =>
               handlers'[n].pc \in {"new", "spawned", "load", "hint"}
      PROVE  /\ chats'[ChatOf(m)].lastSymbol = handlers'[m].symbol
             /\ handlers'[m].deadline + SessionTTL <= chats'[ChatOf(m)].symExpire + Budget
  <2>0. ChatOf(m) \in Chats /\ handlers[m].sequential
    BY <1>1, <1>3, HandlerFacts DEF OwnLocals
  <2>1. ASSUME NEW n \in Msgs, n > m, ChatOf(n) = ChatOf(m)
        PROVE  handlers[n].pc \in {"new", "spawned", "load", "hint"}
    <3>1. CASE n # k
      BY <1>1, <1>3, <2>1, <3>1 DEF OwnLocals
    <3>2. CASE n = k
      <4>1. handlers'[k].pc \in {"new", "spawned", "load", "hint"}
        BY <1>3, <2>1, <3>2
      <4> QED  BY <1>1, <3>2, <4>1 DEF OwnLocals, Moved, GoesTo, PCs
    <3> QED  BY <3>1, <3>2
  <2>2. CASE Enrich(k) /\ k = m
    <3>1. PICK y \in MaybeEnrich(k) :
            /\ handlers' = [handlers EXCEPT ![k].pc = "stream", ![k].symbol = y]
            /\ IF y = NoSymbol THEN UNCHANGED chats ELSE SetLastSymbol(ChatOf(k), y)
      BY <2>2 DEF Enrich
    <3>2. handlers'[m].symbol = y /\ y # NoSymbol
      BY <1>3, <2>2, <3>1 DEF Timely, TypeOK, Handler
    <3>3. chats'[ChatOf(m)].lastSymbol = y /\ chats'[ChatOf(m)].symExpire = now + SessionTTL
      BY <1>1, <2>2, <3>1, <3>2 DEF SetLastSymbol, Timely, TypeOK, StoreTypeOK, ChatState
    <3>4. handlers'[m].deadline = handlers[m].deadline /\ handlers[m].deadline \in Nat
      BY <1>1, HandlerFacts DEF OwnLocals
    <3>5. handlers[m].deadline <= now + Budget
      BY <2>2 DEF Enrich, At, Running, Timely
    <3> QED  BY <1>1, <3>2, <3>3, <3>4, <3>5
  <2>3. CASE ~(Enrich(k) /\ k = m)
    <3>1. /\ handlers'[m].symbol = handlers[m].symbol
          /\ handlers'[m].deadline = handlers[m].deadline
      <4>1. CASE k # m
        BY <1>1, <4>1 DEF OwnLocals
      <4>2. CASE k = m
        <5>1. handlers[k].pc # "fetch"
          BY <2>3, <4>2 DEF HandlerStep, Start, StartMark, Reset, Alerts, Other, MaybeGreet,
             LoadHistory, ReadHint, Chunk, EndStream, RecordDecision, ShowCard,
             PersistUser, PersistReply, At
        <5> QED  BY <1>1, <4>2, <5>1 DEF OwnLocals, Moved
      <4> QED  BY <4>1, <4>2
    <3>2. /\ chats[ChatOf(m)].lastSymbol = handlers[m].symbol
          /\ handlers[m].deadline + SessionTTL <= chats[ChatOf(m)].symExpire + Budget
      BY <1>3, <2>0, <2>1, <3>1 DEF Pinned
    <3>3. /\ chats'[ChatOf(m)].lastSymbol = chats[ChatOf(m)].lastSymbol
          /\ chats'[ChatOf(m)].symExpire = chats[ChatOf(m)].symExpire
      <4>1. CASE ChatOf(k) # ChatOf(m)
        BY <1>1, <2>0, <4>1 DEF OwnChat
      <4>2. CASE ChatOf(k) = ChatOf(m)
        <5>1. ~Reset(k) /\ ~Enrich(k)
          <6>1. CASE k = m
            <7>1. handlers[m].pc # "spawned"
              BY <1>3, <3>1 DEF Pinned
            <7> QED  BY <2>3, <6>1, <7>1 DEF Reset, At
          <6>2. CASE k # m
            <7>1. k \in Nat /\ m \in Nat
              BY HandlerAssumption DEF Msgs
            <7>2. ~(k < m)
              <8>1. handlers[k].pc # "done"
                BY <1>1 DEF OwnLocals, Moved, GoesTo
              <8> QED  BY <2>0, <4>2, <7>1, <8>1 DEF Alone, At, Msgs
            <7>3. handlers'[k].pc \in {"new", "spawned", "load", "hint"}
              BY <1>3, <4>2, <6>2, <7>1, <7>2
            <7>4. \A pc : Goto(k, pc) => handlers'[k].pc = pc
              BY DEF Goto, Timely, TypeOK, Handler
            <7>5. ~Reset(k)
              BY <7>3, <7>4 DEF Reset
            <7>6. ~Enrich(k)
              BY <1>1, <7>3 DEF Enrich, At, OwnLocals, Moved, GoesTo
            <7> QED  BY <7>5, <7>6
          <6> QED  BY <6>1, <6>2
        <5> QED  BY <1>1, <4>2, <5>1 DEF OwnChat
      <4> QED  BY <4>1, <4>2
    <3> QED  BY <3>1, <3>2, <3>3
  <2> QED  BY <2>2, <2>3
<1>4. \A n \in Msgs : ChatOf(n)' = ChatOf(n)
  BY <1>1 DEF ChatOf
<1> QED  BY <1>2, <1>3, <1>4 DEF Pinned

LEMMA AlwaysPinned == Spec => []Pinned
<1>1. Init => Pinned
  <2> SUFFICES ASSUME Init PROVE Pinned
    OBVIOUS
  <2>1. \A m \in Msgs : handlers[m].symbol = NoSymbol
    BY DEF Init, NewHandler
  <2> QED  BY <2>1 DEF Pinned
<1>2. Timely /\ Alone /\ Pinned /\ [Next]_vars => Pinned'
  <2> SUFFICES ASSUME Timely, Alone, Pinned, [Next]_vars PROVE Pinned'
    OBVIOUS
  <2>1. ASSUME NEW k \in Msgs, Receive(k) PROVE Pinned'
    <3>1. Taken(k)
      BY <2>1, ReceiveTakes
    <3>2. handlers[k].symbol = NoSymbol /\ handlers'[k].symbol = NoSymbol
      BY <3>1 DEF Taken, At, Pinned
    <3>3. \A m \in Msgs \ {k} : handlers'[m] = handlers[m]
      BY <3>1 DEF Taken
    <3>4. \A n \in Msgs : /\ ChatOf(n)' = ChatOf(n)
                          /\ handlers'[n].pc \in {"new", "spawned", "load", "hint"} =>
                               handlers[n].pc \in {"new", "spawned", "load", "hint"}
      BY <3>1 DEF Taken, ChatOf, At
    <3> QED  BY <3>1, <3>2, <3>3, <3>4 DEF Pinned, Taken
  <2>2. CASE Clock \/ UNCHANGED vars
    BY <2>2 DEF Clock, Tick, handlerVars, vars, Pinned, ChatOf
  <2> QED  BY <2>1, <2>2, StepPinned DEF Next
<1> QED  BY <1>1, <1>2, AlwaysTimely, AlwaysAlone, PTL DEF Spec

(* A follow-up that names no symbol is about the symbol the message before *)
(* it analysed (lastSymbolForChat, SetLastSymbol).                         *)
THEOREM FollowUpsKeepSymbol == Spec => FollowUpKeepsSymbol
<1>1. ASSUME Timely, Pinned, [Next]_vars,
             NEW m \in Msgs \ {1}, At(m, "hint"), ~At(m, "hint")', FollowsUp(m)
      PROVE  handlers'[m].hint = handlers[m - 1].symbol
  <2>1. ReadHint(m)
    <3>1. ~Clock /\ ~UNCHANGED vars
      BY <1>1 DEF Clock, handlerVars, vars, At
    <3>2. \A n \in Msgs : ~Receive(n)
      <4>1. \A n \in Msgs : Taken(n) => n # m /\ handlers'[m] = handlers[m]
        BY <1>1 DEF Taken, At
      <4> QED  BY <1>1, <4>1, ReceiveTakes DEF At
    <3>3. PICK n \in Msgs : HandlerStep(n)
      BY <1>1, <3>1, <3>2 DEF Next
    <3>4. n = m
      BY <1>1, <3>3, StepLocals DEF OwnLocals, At
    <3> QED  BY <1>1, <3>3, <3>4 DEF HandlerStep, Start, StartMark, Reset, Alerts, Other,
           MaybeGreet, LoadHistory, Enrich, Chunk, EndStream, RecordDecision, ShowCard,
           PersistUser, PersistReply, At
  <2> DEFINE c == ChatOf(m)
             prev == handlers[m - 1]
  <2>2. m - 1 \in Msgs /\ m \in Nat /\ NumMsgs \in Nat
    BY HandlerAssumption DEF Msgs
  <2>3. /\ chats[c].lastSymbol = prev.symbol
        /\ prev.deadline + SessionTTL <= chats[c].symExpire + Budget
    <3>1. /\ prev.input.chat = handlers[m].input.chat /\ prev.symbol # NoSymbol
          /\ prev.sequential /\ \A n \in m + 1 .. NumMsgs : handlers[n].pc = "new"
      BY <1>1 DEF FollowsUp, At
    <3>2. \A n \in Msgs : n > m - 1 => n = m \/ n \in m + 1 .. NumMsgs
      BY <2>2 DEF Msgs
    <3>3. \A n \in Msgs : n > m - 1 => handlers[n].pc \in {"new", "spawned", "load", "hint"}
      BY <1>1, <3>1, <3>2 DEF At
    <3> QED  BY <1>1, <2>2, <3>1, <3>3 DEF Pinned, ChatOf
  <2>4. ~Expired(chats[c].symExpire)
    <3>1. /\ now <= handlers[m].deadline /\ handlers[m].deadline - prev.deadline + Budget <= SessionTTL
      BY <1>1 DEF Timely, Running, At, FollowsUp
    <3>2. /\ now \in Nat /\ handlers[m].deadline \in Nat /\ prev.deadline \in Nat
          /\ SessionTTL \in Nat /\ Budget \in Nat /\ chats[c].symExpire \in Nat
      <4>1. handlers[m] \in Handler /\ prev \in Handler /\ chats[c] \in ChatState
        BY <1>1, <2>2, HandlerFacts DEF Timely, TypeOK, StoreTypeOK
      <4> QED  BY <1>1, <4>1, StoreAssumption, HandlerAssumption
               DEF Timely, TypeOK, StoreTypeOK, Handler, ChatState
    <3> QED  BY <2>3, <3>1, <3>2 DEF Expired
  <2>5. handlers'[m].hint = GetLastSymbol(c)
    BY <1>1, <2>1 DEF ReadHint, Timely, TypeOK, Handler
  <2> QED  BY <2>3, <2>4, <2>5 DEF GetLastSymbol
<1>2. Timely /\ Pinned /\ [Next]_vars =>
        [\A m \in Msgs \ {1} :
           (At(m, "hint") /\ ~At(m, "hint")' /\ FollowsUp(m))
             => handlers'[m].hint = handlers[m - 1].symbol]_vars
  BY <1>1
<1> QED  BY <1>2, AlwaysTimely, AlwaysPinned, PTL DEF Spec, FollowUpKeepsSymbol

-----------------------------------------------------------------------------
(* The rolling history. *)

(* The turn t has been appended to the history of c, and k old ones fell   *)
(* off the other end.                                                      *)
Appended(c, t, k) ==
  LET old == History(c)  new == chats'[c].turns IN
  /\ new \in Seq(Turns) /\ Len(new) \in Nat \ {0} /\ Len(old) \in Nat
  /\ Len(new) = Len(old) + 1 - k
  /\ new[Len(new)] = t
  /\ \A i \in 1 .. Len(new) - 1 : i + k \in 1 .. Len(old) /\ new[i] = old[i + k]

LEMMA AppendKeepsTail ==
  ASSUME NEW s \in Seq(Turns), NEW t \in Turns
  PROVE  LET new == LastTurns(Append(s, t)) IN
         /\ new \in Seq(Turns) /\ Len(new) \in Nat \ {0}
         /\ \E k \in Nat :
              /\ Len(new) = Len(s) + 1 - k /\ new[Len(new)] = t
              /\ \A i \in 1 .. Len(new) - 1 : i + k \in 1 .. Len(s) /\ new[i] = s[i + k]
<1> DEFINE all == Append(s, t)
           new == LastTurns(all)
<1>1. /\ all \in Seq(Turns) /\ Len(all) = Len(s) + 1 /\ Len(s) \in Nat
      /\ all[Len(s) + 1] = t /\ \A i \in 1 .. Len(s) : all[i] = s[i]
  OBVIOUS
<1>2. MaxTurns \in Nat \ {0}
  BY StoreAssumption
<1> HIDE DEF all
<1>3. new \in Seq(Turns) /\ Len(new) \in Nat
  BY <1>1, LastTurnsKeepsTail
<1>4. PICK k \in Nat : IsTail(new, all, k)
  BY <1>1, LastTurnsKeepsTail
<1> HIDE DEF new
<1>5. /\ Len(new) = Len(s) + 1 - k /\ Len(new) \in Nat \ {0}
  BY <1>1, <1>2, <1>3, <1>4 DEF IsTail
<1>6. new[Len(new)] = t
  BY <1>1, <1>4, <1>5 DEF IsTail
<1>7. \A i \in 1 .. Len(new) - 1 : i + k \in 1 .. Len(s) /\ new[i] = s[i + k]
  BY <1>1, <1>4, <1>5 DEF IsTail
<1> QED  BY <1>3, <1>5, <1>6, <1>7 DEF new, all

LEMMA PersistAppends ==
  ASSUME Timely, NEW m \in Msgs
  PROVE  /\ PersistUser(m) => \E k \in Nat : Appended(ChatOf(m), UserTurn(m, now), k)
         /\ PersistReply(m) =>
              \E k \in Nat : Appended(ChatOf(m), ReplyTurn(m, handlers[m].stamp), k)
<1> DEFINE c == ChatOf(m)
<1>1. ASSUME NEW t \in Turns, AppendTurn(c, t) PROVE \E k \in Nat : Appended(c, t, k)
  <2>1. c \in Chats /\ chats[c].turns \in Seq(Turns)
    BY HandlerFacts DEF Timely, TypeOK, StoreTypeOK, ChatState
  <2>2. chats'[c].turns = LastTurns(Append(chats[c].turns, t))
    BY <1>1, <2>1 DEF AppendTurn, Timely, TypeOK, StoreTypeOK, ChatState
  <2>3. Len(chats[c].turns) \in Nat
    BY <2>1
  <2> DEFINE old == chats[c].turns
             new == LastTurns(Append(old, t))
  <2>4. new \in Seq(Turns) /\ Len(new) \in Nat \ {0}
    BY <2>1, AppendKeepsTail
  <2>5. PICK k \in Nat :
          /\ Len(new) = Len(old) + 1 - k /\ new[Len(new)] = t
          /\ \A i \in 1 .. Len(new) - 1 : i + k \in 1 .. Len(old) /\ new[i] = old[i + k]
    BY <2>1, AppendKeepsTail
  <2> HIDE DEF new
  <2>6. Appended(c, t, k)
    BY <2>2, <2>3, <2>4, <2>5 DEF Appended, History, new
  <2> QED  BY <2>6
<1> HIDE DEF c
<1>2. UserTurn(m, now) \in Turns /\ (At(m, "persistReply") => ReplyTurn(m, handlers[m].stamp) \in Turns)
  BY StoredTurns
<1> QED  BY <1>1, <1>2 DEF PersistUser, PersistReply, c

(* A step leaves a history alone, empties it, or is one of the two that    *)
(* persist a pair.                                                         *)
LEMMA HistoryStep ==
  ASSUME Timely, NEW m \in Msgs, HandlerStep(m), NEW c \in Chats
  PROVE  \/ c = ChatOf(m) /\ (PersistUser(m) \/ PersistReply(m))
         \/ /\ c # ChatOf(m) \/ handlers[m].pc \notin {"persist", "persistReply"}
            /\ \/ /\ chats'[c].turns = chats[c].turns
                  /\ chats'[c].turnExpire = chats[c].turnExpire
               \/ chats'[c].turns = <<>>
<1>1. CASE c # ChatOf(m)
  BY <1>1, StepChat DEF OwnChat
<1>2. CASE c = ChatOf(m) /\ handlers[m].pc \in {"persist", "persistReply"}
  BY <1>2 DEF HandlerStep, Start, StartMark, Reset, Alerts, Other, MaybeGreet, LoadHistory,
     ReadHint, Enrich, Chunk, EndStream, RecordDecision, ShowCard, At
<1>3. CASE c = ChatOf(m) /\ handlers[m].pc \notin {"persist", "persistReply"}
  <2>1. ~PersistUser(m) /\ ~PersistReply(m)
    BY <1>3 DEF PersistUser, PersistReply, At
  <2> QED  BY <1>3, <2>1, StepChat DEF OwnChat, LiveTurns
<1> QED  BY <1>1, <1>2, <1>3

(* WellFormed of one chat and one turn of it, its message m. *)
TurnFits(c, i) ==
  LET t == History(c)[i] IN
  /\ t \in HandlerTurns /\ ChatOf(t.msg) = c
  /\ t.role = "user" => handlers[t.msg].pc \in {"persistReply", "done"}
  /\ t.role = "assistant" => handlers[t.msg].pc = "done"
  /\ \A j \in DOMAIN History(c) :
       i < j /\ History(c)[j].msg = t.msg => t.role = "user" /\ History(c)[j].role = "assistant"
  /\ t.role = "user" /\ handlers[t.msg].pc = "done" =>
       \E j \in DOMAIN History(c) :
         i < j /\ History(c)[j].msg = t.msg /\ History(c)[j].role = "assistant"

LEMMA WellFormedByTurn ==
  WellFormed <=> \A c \in Chats : \A i \in DOMAIN History(c) : TurnFits(c, i)
BY DEF WellFormed, TurnFits, At

LEMMA StepWellFormed ==
  ASSUME Timely, WellFormed, NEW m \in Msgs, HandlerStep(m)
  PROVE  WellFormed'
<1>1. /\ OwnLocals(m) /\ ChatOf(m) \in Chats /\ ChatOf(m) = handlers[m].input.chat
      /\ \A n \in Msgs : handlers'[n].input = handlers[n].input
  BY StepLocals, HandlerFacts DEF OwnLocals, ChatOf
<1>2. SUFFICES ASSUME NEW c \in Chats, NEW i \in DOMAIN chats'[c].turns
               PROVE  TurnFits(c, i)'
  BY WellFormedByTurn DEF WellFormed, TurnFits, At, History
<1>3. ASSUME NEW j \in DOMAIN History(c)
      PROVE  /\ TurnFits(c, j) /\ History(c)[j].msg \in Msgs
             /\ History(c)[j].role \in {"user", "assistant"}
             /\ handlers'[History(c)[j].msg].input.chat = c
  <2>1. TurnFits(c, j)
    BY <1>3, WellFormedByTurn
  <2>2. History(c)[j] \in HandlerTurns
    BY <2>1 DEF TurnFits
  <2> QED  BY <1>1, <2>1, <2>2 DEF TurnFits, HandlerTurns, ChatOf
<1>4. CASE /\ c # ChatOf(m) \/ handlers[m].pc \notin {"persist", "persistReply"}
           /\ chats'[c].turns = chats[c].turns
  <2>1. ASSUME NEW j \in DOMAIN History(c)
        PROVE  handlers'[History(c)[j].msg] = handlers[History(c)[j].msg]
    <3>1. History(c)[j].msg # m
      <4>1. CASE c # ChatOf(m)
        BY <1>1, <1>3, <2>1, <4>1
      <4>2. CASE handlers[m].pc \notin {"persist", "persistReply"}
        <5>1. History(c)[j].msg = m => handlers[m].pc = "done"
          BY <1>3, <2>1, <4>2 DEF TurnFits
        <5> QED  BY <1>1, <5>1 DEF OwnLocals, Moved, GoesTo
      <4> QED  BY <1>4, <4>1, <4>2
    <3> QED  BY <1>1, <1>3, <2>1, <3>1 DEF OwnLocals
  <2>2. History(c)' = History(c) /\ i \in DOMAIN History(c)
    BY <1>4 DEF History
  <2> QED  BY <1>3, <2>1, <2>2 DEF TurnFits, ChatOf
<1>5. CASE chats'[c].turns = <<>>
  BY <1>5
<1>6. ASSUME NEW t \in HandlerTurns, NEW k \in Nat, Appended(c, t, k), t.msg = m, c = ChatOf(m),
             \/ t.role = "user" /\ handlers[m].pc = "persist" /\ handlers'[m].pc = "persistReply"
             \/ t.role = "assistant" /\ handlers[m].pc = "persistReply" /\ handlers'[m].pc = "done"
      PROVE  TurnFits(c, i)'
  <2> DEFINE old == History(c)
             new == chats'[c].turns
  <2>1. /\ DOMAIN new = 1 .. Len(new) /\ Len(new) \in Nat \ {0} /\ new[Len(new)] = t
        /\ Len(new) = Len(old) + 1 - k /\ Len(old) \in Nat
        /\ \A j \in 1 .. Len(new) - 1 : j + k \in 1 .. Len(old) /\ new[j] = old[j + k]
        /\ i \in 1 .. Len(new)
    <3>1. /\ new \in Seq(Turns) /\ Len(new) \in Nat \ {0} /\ new[Len(new)] = t
          /\ Len(new) = Len(old) + 1 - k /\ Len(old) \in Nat
          /\ \A j \in 1 .. Len(new) - 1 : j + k \in 1 .. Len(old) /\ new[j] = old[j + k]
      BY <1>6 DEF Appended
    <3>2. i \in DOMAIN new
      OBVIOUS
    <3> HIDE DEF new, old
    <3>3. DOMAIN new = 1 .. Len(new)
      BY <3>1
    <3> QED  BY <3>1, <3>2, <3>3
  <2>2. DOMAIN old = 1 .. Len(old)
    <3>1. chats[c] \in ChatState
      BY DEF Timely, TypeOK, StoreTypeOK
    <3>2. old \in Seq(Turns)
      BY <3>1 DEF ChatState, History
    <3> QED  BY <3>2
  <2>3. \A j \in DOMAIN old : /\ TurnFits(c, j) /\ old[j].msg \in Msgs
                              /\ old[j].role \in {"user", "assistant"}
                              /\ handlers'[old[j].msg].input.chat = c
    BY <1>3
  <2>4. \A n \in Msgs \ {m} : handlers'[n] = handlers[n]
    BY <1>1 DEF OwnLocals
  <2>5. handlers'[m].input.chat = c
    BY <1>1, <1>6
  <2> HIDE DEF new, old
  <2>6. CASE i = Len(new)
    <3>1. \A j \in 1 .. Len(new) : ~(i < j)
      BY <2>1, <2>6
    <3>2. /\ new[i] \in HandlerTurns /\ handlers'[new[i].msg].input.chat = c
          /\ new[i].role = "user" => handlers'[new[i].msg].pc = "persistReply"
          /\ new[i].role = "assistant" => handlers'[new[i].msg].pc = "done"
      BY <1>6, <2>1, <2>5, <2>6
    <3> QED  BY <2>1, <3>1, <3>2 DEF TurnFits, ChatOf, History, new
  <2>7. CASE i # Len(new)
    <3> DEFINE u == old[i + k]
    <3>1. /\ i \in 1 .. Len(new) - 1 /\ i \in Nat /\ new[i] = u /\ i + k \in DOMAIN old
      <4>1. PICK l \in Nat : l = Len(new)
        BY <2>1
      <4>2. i \in 1 .. l /\ i # l
        BY <2>1, <2>7, <4>1
      <4>3. i \in 1 .. l - 1 /\ i \in Nat
        BY <4>2
      <4> QED  BY <2>1, <4>1, <4>3
    <3>2. /\ u \in HandlerTurns /\ u.msg \in Msgs /\ handlers'[u.msg].input.chat = c
          /\ u.role \in {"user", "assistant"}
          /\ u.role = "user" => handlers[u.msg].pc \in {"persistReply", "done"}
          /\ u.role = "assistant" => handlers[u.msg].pc = "done"
          /\ \A j \in DOMAIN old : i + k < j /\ old[j].msg = u.msg =>
               u.role = "user" /\ old[j].role = "assistant"
          /\ u.role = "user" /\ handlers[u.msg].pc = "done" =>
               \E j \in DOMAIN old : i + k < j /\ old[j].msg = u.msg /\ old[j].role = "assistant"
      BY <2>3, <3>1 DEF TurnFits, old
    <3> HIDE DEF u
    <3>3. u.msg = m => u.role = "user" /\ t.role = "assistant"
      BY <1>6, <3>2
    <3>4. /\ u.role = "user" => handlers'[u.msg].pc \in {"persistReply", "done"}
          /\ u.role = "assistant" => handlers'[u.msg].pc = "done"
      BY <1>6, <2>4, <3>2, <3>3
    <3>5. ASSUME NEW j \in DOMAIN new, i < j, new[j].msg = u.msg
          PROVE  u.role = "user" /\ new[j].role = "assistant"
      <4>1. CASE j = Len(new)
        BY <1>6, <2>1, <3>3, <3>5, <4>1
      <4>2. CASE j # Len(new)
        <5>1. j \in 1 .. Len(new) - 1 /\ i + k < j + k /\ j + k \in DOMAIN old
          <6>1. PICK l \in Nat : l = Len(new)
            BY <2>1
          <6>2. j \in 1 .. l /\ j # l /\ i \in Nat /\ i < j
            BY <2>1, <3>1, <3>5, <4>2, <6>1
          <6>3. j \in 1 .. l - 1 /\ j \in Nat
            BY <6>2
          <6>4. j + k \in DOMAIN old
            BY <2>1, <6>1, <6>3
          <6>5. i + k < j + k
            BY <2>1, <6>2, <6>3
          <6> QED  BY <6>1, <6>3, <6>4, <6>5
        <5> QED  BY <2>1, <3>2, <3>5, <5>1
      <4> QED  BY <4>1, <4>2
    <3>6. ASSUME u.role = "user", handlers'[u.msg].pc = "done"
          PROVE  \E j \in DOMAIN new : i < j /\ new[j].msg = u.msg /\ new[j].role = "assistant"
      <4>1. CASE u.msg = m
        <5>1. Len(new) \in DOMAIN new /\ i < Len(new)
          BY <2>1, <3>1
        <5> QED  BY <1>6, <2>1, <3>3, <4>1, <5>1
      <4>2. CASE u.msg # m
        <5>1. PICK j \in DOMAIN old :
                i + k < j /\ old[j].msg = u.msg /\ old[j].role = "assistant"
          BY <2>4, <3>2, <3>6, <4>2
        <5>2. /\ j - k \in 1 .. Len(new) - 1 /\ i < j - k /\ (j - k) + k = j
          BY <2>1, <2>2, <3>1, <5>1
        <5>3. new[j - k] = old[j]
          BY <2>1, <5>2
        <5> QED  BY <2>1, <5>1, <5>2, <5>3
      <4> QED  BY <4>1, <4>2
    <3> QED  BY <3>1, <3>2, <3>4, <3>5, <3>6 DEF TurnFits, ChatOf, History, new
  <2> QED  BY <2>6, <2>7
<1>7. CASE c = ChatOf(m) /\ (PersistUser(m) \/ PersistReply(m))
  <2>1. CASE PersistUser(m)
    <3>1. PICK k \in Nat : Appended(c, UserTurn(m, now), k)
      BY <1>7, <2>1, PersistAppends
    <3>2. handlers[m].pc = "persist" /\ handlers'[m].pc = "persistReply"
      BY <1>1, <2>1 DEF PersistUser, At, OwnLocals, Moved, GoesTo
    <3>3. UserTurn(m, now).role = "user" /\ UserTurn(m, now).msg = m
      BY DEF UserTurn
    <3> QED  BY <1>6, <1>7, <3>1, <3>2, <3>3, StoredTurns
  <2>2. CASE PersistReply(m)
    <3> DEFINE t == ReplyTurn(m, handlers[m].stamp)
    <3>1. PICK k \in Nat : Appended(c, t, k)
      BY <1>7, <2>2, PersistAppends
    <3>2. handlers[m].pc = "persistReply" /\ handlers'[m].pc = "done"
      BY <1>1, <2>2 DEF PersistReply, At, OwnLocals, Moved, GoesTo
    <3>3. t.role = "assistant" /\ t.msg = m
      BY DEF ReplyTurn
    <3>4. t \in HandlerTurns
      BY <3>2, StoredTurns DEF At
    <3> QED  BY <1>6, <1>7, <3>1, <3>2, <3>3, <3>4
  <2> QED  BY <1>7, <2>1, <2>2
<1> QED  BY <1>4, <1>5, <1>7, HistoryStep

LEMMA AlwaysWellFormed == Spec => []WellFormed
<1>1. Init => WellFormed
  <2> SUFFICES ASSUME Init, NEW c \in Chats PROVE DOMAIN History(c) = {}
    BY DEF WellFormed
  <2>1. History(c) = <<>>
    BY DEF Init, StoreInit, ZeroChat, History
  <2> QED  BY <2>1
<1>2. Timely /\ WellFormed /\ [Next]_vars => WellFormed'
  <2> SUFFICES ASSUME Timely, WellFormed, [Next]_vars PROVE WellFormed'
    OBVIOUS
  <2>1. ASSUME NEW k \in Msgs, Receive(k) PROVE WellFormed'
    <3>1. Taken(k)
      BY <2>1, ReceiveTakes
    <3>2. ASSUME NEW c \in Chats, NEW i \in DOMAIN History(c)
          PROVE  TurnFits(c, i)'
      <4>1. \A j \in DOMAIN History(c) :
              /\ TurnFits(c, j) /\ History(c)[j].msg \in Msgs
              /\ History(c)[j].role \in {"user", "assistant"}
        BY WellFormedByTurn DEF TurnFits, HandlerTurns
      <4>2. \A j \in DOMAIN History(c) : History(c)[j].msg # k
        BY <3>1, <4>1 DEF TurnFits, Taken, At
      <4>3. \A j \in DOMAIN History(c) :
              handlers'[History(c)[j].msg] = handlers[History(c)[j].msg]
        BY <3>1, <4>1, <4>2 DEF Taken
      <4>4. History(c)' = History(c)
        BY <3>1 DEF Taken, History
      <4> QED  BY <4>1, <4>3, <4>4 DEF TurnFits, ChatOf
    <3>3. \A c \in Chats : History(c)' = History(c)
      BY <3>1 DEF Taken, History
    <3>4. \A c \in Chats : \A i \in DOMAIN History(c)' : TurnFits(c, i)'
      BY <3>2, <3>3
    <3> QED  BY <3>4, WellFormedByTurn DEF WellFormed, TurnFits, At
  <2>2. CASE Clock \/ UNCHANGED vars
    BY <2>2 DEF Clock, Tick, handlerVars, vars, WellFormed, History, At, ChatOf
  <2> QED  BY <2>1, <2>2, StepWellFormed DEF Next
<1> QED  BY <1>1, <1>2, AlwaysTimely, PTL DEF Spec

(* However handlers interleave, trimming and /reset leave no dangling      *)
(* question and no turn in a wrong place (persistTurns, Append).           *)
THEOREM HistoryStaysWellFormed == Spec => []HistoryWellFormed
<1>1. WellFormed => HistoryWellFormed
  BY DEF WellFormed, HistoryWellFormed
<1> QED  BY <1>1, AlwaysWellFormed, PTL

LEMMA StreamEnds ==
  ASSUME Timely, NEW m \in Msgs, HandlerStep(m), At(m, "stream")
  PROVE  /\ handlers'[m].pc = "save" => handlers[m].full = "trade"
         /\ handlers'[m].pc = "persist" => handlers[m].full \notin {"none", "blank", "trade"}
<1>1. Chunk(m) \/ EndStream(m)
  BY DEF HandlerStep, Start, StartMark, Reset, Alerts, Other, MaybeGreet, LoadHistory, ReadHint,
         Enrich, RecordDecision, ShowCard, PersistUser, PersistReply, At
<1>2. CASE Chunk(m)
  BY <1>2 DEF Chunk, At, Timely, TypeOK, Handler
<1>3. CASE EndStream(m)
  BY <1>3 DEF EndStream, Goto, Timely, TypeOK, Handler
<1> QED  BY <1>1, <1>2, <1>3

LEMMA StepReplied ==
  ASSUME Timely, WellFormed, Replied, NEW m \in Msgs, HandlerStep(m)
  PROVE  Replied'
<1>1. OwnLocals(m) /\ handlers[m].pc \in PCs /\ Moved(m, handlers'[m]) /\ handlers[m].rows \in Nat
  BY StepLocals, HandlerFacts DEF OwnLocals
<1>2. ASSUME NEW n \in Msgs
      PROVE  LET h == handlers'[n] IN
             /\ h.pc \in {"save", "card", "persist", "persistReply"} => h.full \notin {"none", "blank"}
             /\ h.pc \in {"save", "card"} => h.full = "trade"
             /\ h.pc \in {"new", "spawned", "mark", "load", "hint", "fetch", "stream", "save"} => h.rows = 0
             /\ h.rows <= 1 /\ (h.rows = 1 => h.full = "trade")
  <2>1. CASE n # m
    BY <1>1, <2>1 DEF OwnLocals, Replied
  <2>2. CASE n = m
    <3> DEFINE h == handlers'[m]
               old == handlers[m]
    <3>1. /\ old.pc \in {"save", "card", "persist", "persistReply"} => old.full \notin {"none", "blank"}
          /\ old.pc \in {"save", "card"} => old.full = "trade"
          /\ old.pc \in {"new", "spawned", "mark", "load", "hint", "fetch", "stream", "save"} => old.rows = 0
          /\ old.rows <= 1 /\ (old.rows = 1 => old.full = "trade")
      BY DEF Replied
    <3>2. /\ \/ h.full = old.full
             \/ old.pc = "stream" /\ h.pc = "stream" /\ h.full \in Texts \ {"none"}
          /\ \/ h.rows = old.rows
             \/ old.pc = "save" /\ h.rows = old.rows + 1
          /\ GoesTo(old.pc, h.pc)
      BY <1>1 DEF Moved
    <3>3. /\ old.pc = "stream" /\ h.pc = "save" => old.full = "trade"
          /\ old.pc = "stream" /\ h.pc = "persist" => old.full \notin {"none", "blank"}
      BY StreamEnds DEF At
    <3>4. old.pc \in PCs /\ old.rows \in Nat
      BY <1>1
    <3> HIDE DEF h, old
    <3>5. h.pc \in {"new", "spawned", "mark", "load", "hint", "fetch", "stream", "save"} => h.rows = 0
      BY <3>1, <3>2, <3>4 DEF GoesTo, PCs
    <3>6. h.pc \in {"save", "card"} => h.full = "trade"
      BY <3>1, <3>2, <3>3, <3>4 DEF GoesTo, PCs
    <3>7. h.pc \in {"save", "card", "persist", "persistReply"} => h.full \notin {"none", "blank"}
      BY <3>1, <3>2, <3>3, <3>4 DEF GoesTo, PCs
    <3>8. h.rows <= 1 /\ (h.rows = 1 => h.full = "trade")
      BY <3>1, <3>2, <3>4 DEF GoesTo
    <3> QED  BY <2>2, <3>5, <3>6, <3>7, <3>8 DEF h
  <2> QED  BY <2>1, <2>2
<1>3. ASSUME NEW n \in Msgs,
             handlers[n].pc \in {"persistReply", "done"} \/ (n = m /\ handlers[n].pc = "persist"),
             handlers[n].full \notin {"none", "blank"}
      PROVE  handlers'[n].pc \in {"persistReply", "done"} /\ handlers'[n].full \notin {"none", "blank"}
  BY <1>1, <1>3 DEF OwnLocals, Moved, GoesTo
<1>4. ASSUME NEW c \in Chats, NEW i \in DOMAIN chats'[c].turns
      PROVE  LET h == handlers'[chats'[c].turns[i].msg] IN
             h.pc \in {"persistReply", "done"} /\ h.full \notin {"none", "blank"}
  <2>1. \A j \in DOMAIN History(c) :
          /\ History(c)[j].msg \in Msgs
          /\ handlers'[History(c)[j].msg].pc \in {"persistReply", "done"}
          /\ handlers'[History(c)[j].msg].full \notin {"none", "blank"}
    <3> SUFFICES ASSUME NEW j \in DOMAIN History(c)
                 PROVE  /\ History(c)[j].msg \in Msgs
                        /\ handlers'[History(c)[j].msg].pc \in {"persistReply", "done"}
                        /\ handlers'[History(c)[j].msg].full \notin {"none", "blank"}
      OBVIOUS
    <3> DEFINE n == History(c)[j].msg
    <3>1. n \in Msgs
      BY DEF WellFormed, HandlerTurns
    <3>2. handlers[n].pc \in {"persistReply", "done"} /\ handlers[n].full \notin {"none", "blank"}
      BY DEF Replied
    <3> HIDE DEF n
    <3>3. handlers'[n].pc \in {"persistReply", "done"} /\ handlers'[n].full \notin {"none", "blank"}
      BY <1>3, <3>1, <3>2
    <3> QED  BY <3>1, <3>3 DEF n
  <2>2. ASSUME NEW t, NEW k \in Nat, Appended(c, t, k), t.msg = m,
               handlers[m].pc \in {"persist", "persistReply"}
        PROVE  LET h == handlers'[chats'[c].turns[i].msg] IN
               h.pc \in {"persistReply", "done"} /\ h.full \notin {"none", "blank"}
    <3> DEFINE new == chats'[c].turns
               old == History(c)
    <3>1. /\ new \in Seq(Turns) /\ Len(new) \in Nat \ {0} /\ new[Len(new)] = t
          /\ \A j \in 1 .. Len(new) - 1 : j + k \in 1 .. Len(old) /\ new[j] = old[j + k]
      BY <2>2 DEF Appended
    <3>2. i \in DOMAIN new
      OBVIOUS
    <3>3. old \in Seq(Turns)
      <4>1. chats[c] \in ChatState
        BY DEF Timely, TypeOK, StoreTypeOK
      <4> QED  BY <4>1 DEF ChatState, History
    <3>4. handlers'[m].pc \in {"persistReply", "done"} /\ handlers'[m].full \notin {"none", "blank"}
      <4>1. handlers[m].full \notin {"none", "blank"}
        BY <2>2 DEF Replied
      <4> QED  BY <1>3, <2>2, <4>1
    <3> HIDE DEF new, old
    <3>5. CASE i = Len(new)
      BY <2>2, <3>1, <3>4, <3>5 DEF new
    <3>6. CASE i # Len(new)
      <4>1. i \in 1 .. Len(new) - 1 /\ DOMAIN old = 1 .. Len(old)
        BY <3>1, <3>2, <3>3, <3>6
      <4>2. new[i] = old[i + k] /\ i + k \in DOMAIN old
        BY <3>1, <4>1
      <4> QED  BY <2>1, <4>2 DEF new, old
    <3> QED  BY <3>5, <3>6
  <2>3. CASE PersistUser(m) /\ c = ChatOf(m)
    <3>1. UserTurn(m, now).msg = m /\ handlers[m].pc = "persist"
      BY <2>3 DEF UserTurn, PersistUser, At
    <3> QED  BY <2>2, <2>3, <3>1, PersistAppends
  <2>4. CASE PersistReply(m) /\ c = ChatOf(m)
    <3>1. ReplyTurn(m, handlers[m].stamp).msg = m /\ handlers[m].pc = "persistReply"
      BY <2>4 DEF ReplyTurn, PersistReply, At
    <3> QED  BY <2>2, <2>4, <3>1, PersistAppends
  <2>5. CASE chats'[c].turns = chats[c].turns
    BY <2>1, <2>5 DEF History
  <2>6. CASE chats'[c].turns = <<>>
    BY <2>6
  <2> QED  BY <2>3, <2>4, <2>5, <2>6, HistoryStep
<1> QED  BY <1>2, <1>4 DEF Replied, History

(* A stream that delivered nothing but white space leaves no turn behind,  *)
(* however it ended, and a decision row is written at most once and only   *)
(* for a reply that carries a decision (handleMessage, recordDecision).    *)
THEOREM SilenceIsForgotten == Spec => []SilenceLeavesNoTrace
<1>1. Init => Replied
  <2> SUFFICES ASSUME Init PROVE Replied
    OBVIOUS
  <2>1. \A c \in Chats : History(c) = <<>>
    BY DEF Init, StoreInit, ZeroChat, History
  <2>2. \A m \in Msgs : handlers[m].pc = "new" /\ handlers[m].rows = 0
    BY DEF Init, NewHandler
  <2>3. DOMAIN <<>> = {}
    OBVIOUS
  <2> QED  BY <2>1, <2>2, <2>3 DEF Replied
<1>2. Timely /\ WellFormed /\ Replied /\ [Next]_vars => Replied'
  <2> SUFFICES ASSUME Timely, WellFormed, Replied, [Next]_vars PROVE Replied'
    OBVIOUS
  <2>1. ASSUME NEW k \in Msgs, Receive(k) PROVE Replied'
    <3>1. Taken(k)
      BY <2>1, ReceiveTakes
    <3>2. \A c \in Chats : \A i \in DOMAIN History(c) :
            /\ History(c)[i].msg \in Msgs /\ History(c)[i].msg # k
      BY <3>1 DEF Replied, WellFormed, HandlerTurns, Taken, At
    <3>3. /\ handlers[k].rows = 0 /\ handlers'[k].rows = 0
          /\ handlers'[k].pc \in {"spawned", "done"}
      BY <3>1 DEF Taken, At, Replied
    <3> QED  BY <3>1, <3>2, <3>3 DEF Replied, Taken, History
  <2>2. CASE Clock \/ UNCHANGED vars
    BY <2>2 DEF Clock, Tick, handlerVars, vars, Replied, History
  <2> QED  BY <2>1, <2>2, StepReplied DEF Next
<1>3. Replied => SilenceLeavesNoTrace
  BY DEF Replied, SilenceLeavesNoTrace
<1> QED  BY <1>1, <1>2, <1>3, AlwaysTimely, AlwaysWellFormed, PTL DEF Spec

(* OneConversation of a history and the time at which it dies. *)
Together(h, expire) ==
  /\ expire # ZeroTime
  /\ expire <= h[Len(h)].at + SessionTTL + Budget
  /\ \A i \in 1 .. Len(h) - 1 : h[i + 1].at - h[i].at <= SessionTTL + 2 * Budget

LEMMA LoadFindsAlive ==
  ASSUME Timely, NEW m \in Msgs, LoadHistory(m), chats'[ChatOf(m)].turns # <<>>,
         chats[ChatOf(m)].turnExpire # ZeroTime
  PROVE  now <= chats[ChatOf(m)].turnExpire
<1>1. /\ ChatOf(m) \in Chats /\ chats[ChatOf(m)] \in ChatState /\ now \in Nat
      /\ chats \in [Chats -> ChatState]
  BY HandlerFacts DEF Timely, TypeOK, StoreTypeOK
<1>2. chats'[ChatOf(m)].turns = LiveTurns(ChatOf(m))
  BY <1>1 DEF LoadHistory, Load, ChatState
<1>3. ~Expired(chats[ChatOf(m)].turnExpire)
  BY <1>2 DEF LiveTurns
<1>4. chats[ChatOf(m)].turnExpire \in Nat
  BY <1>1 DEF ChatState
<1> QED  BY <1>1, <1>3, <1>4 DEF Expired

LEMMA AppendStaysTogether ==
  ASSUME Timely, WellFormed, NEW m \in Msgs, Running(m), NEW t \in HandlerTurns, NEW k \in Nat,
         Appended(ChatOf(m), t, k), chats'[ChatOf(m)].turnExpire = now + SessionTTL,
         t.at <= now, now <= t.at + Budget,
         History(ChatOf(m)) # <<>> =>
           /\ Together(History(ChatOf(m)), chats[ChatOf(m)].turnExpire)
           /\ handlers[m].deadline <= chats[ChatOf(m)].turnExpire + Budget
  PROVE  Together(chats'[ChatOf(m)].turns, chats'[ChatOf(m)].turnExpire)
<1> DEFINE c == ChatOf(m)
           old == History(c)
           new == chats'[c].turns
           expire == chats[c].turnExpire
           n == Len(old)
<1>1. /\ now \in Nat /\ SessionTTL \in Nat \ {0} /\ Budget \in Nat /\ t.at \in Nat
      /\ handlers[m].deadline \in Nat /\ now <= handlers[m].deadline
  BY StoreAssumption, HandlerAssumption, HandlerFacts
     DEF Timely, TypeOK, StoreTypeOK, HandlerTurns, Running
<1>2. /\ new \in Seq(Turns) /\ Len(new) \in Nat \ {0} /\ n \in Nat /\ Len(new) = n + 1 - k
      /\ new[Len(new)] = t
      /\ \A i \in 1 .. Len(new) - 1 : i + k \in 1 .. n /\ new[i] = old[i + k]
  BY DEF Appended
<1>3. chats'[c].turnExpire = now + SessionTTL
  OBVIOUS
<1>4. expire \in Nat /\ old \in Seq(Turns)
  <2>1. chats[c] \in ChatState
    BY HandlerFacts DEF Timely, TypeOK, StoreTypeOK
  <2> QED  BY <2>1 DEF ChatState, History
<1>5. old # <<>> => /\ expire <= old[n].at + SessionTTL + Budget
                    /\ \A i \in 1 .. n - 1 : old[i + 1].at - old[i].at <= SessionTTL + 2 * Budget
                    /\ handlers[m].deadline <= expire + Budget
  BY DEF Together
<1>6. Together(new, now + SessionTTL) = 
        (/\ now + SessionTTL # ZeroTime
         /\ now + SessionTTL <= new[Len(new)].at + SessionTTL + Budget
         /\ \A i \in 1 .. Len(new) - 1 : new[i + 1].at - new[i].at <= SessionTTL + 2 * Budget)
  BY DEF Together
<1>0. \A i \in 1 .. n : old[i].at \in Nat
  <2>1. \A i \in DOMAIN old : old[i] \in HandlerTurns
    BY HandlerFacts DEF WellFormed
  <2>2. \A i \in DOMAIN old : old[i].at \in Nat
    BY <2>1, StoreAssumption DEF HandlerTurns
  <2> HIDE DEF old
  <2> QED  BY <1>4, <2>2
<1> HIDE DEF c, old, new, expire, n
<1>7. now + SessionTTL # ZeroTime /\ now + SessionTTL <= new[Len(new)].at + SessionTTL + Budget
  BY <1>1, <1>2 DEF ZeroTime
<1>8. ASSUME NEW i \in 1 .. Len(new) - 1
      PROVE  new[i + 1].at - new[i].at <= SessionTTL + 2 * Budget
  <2>1. /\ i + k \in 1 .. n /\ new[i] = old[i + k] /\ n # 0 /\ i \in Nat /\ old # <<>>
    BY <1>2, <1>4 DEF n
  <2>2. CASE i = Len(new) - 1
    <3>1. i + k = n /\ new[i + 1] = t
      BY <1>2, <2>1, <2>2
    <3> DEFINE a == old[n].at
    <3>2. new[i + 1].at = t.at /\ new[i].at = a
      BY <2>1, <3>1
    <3>3. expire <= a + SessionTTL + Budget /\ handlers[m].deadline <= expire + Budget
      BY <1>5, <2>1
    <3>4. a \in Nat
      BY <1>0, <2>1, <3>1
    <3> HIDE DEF a
    <3>5. PICK x \in Nat : x = t.at
      BY <1>1
    <3>6. PICK d \in Nat : d = handlers[m].deadline
      BY <1>1
    <3>7. PICK e \in Nat : e = expire
      BY <1>4
    <3>8. x <= now /\ now <= d /\ d <= e + Budget /\ e <= a + SessionTTL + Budget
      BY <1>1, <3>3, <3>5, <3>6, <3>7
    <3>9. x - a <= SessionTTL + 2 * Budget
      BY <1>1, <3>4, <3>8
    <3> QED  BY <3>2, <3>5, <3>9
  <2>3. CASE i # Len(new) - 1
    <3>1. i + 1 \in 1 .. Len(new) - 1 /\ (i + 1) + k = (i + k) + 1
      BY <1>2, <2>1, <2>3
    <3>2. new[i + 1] = old[(i + k) + 1] /\ (i + k) + 1 \in 1 .. n
      BY <1>2, <3>1
    <3>3. i + k \in 1 .. n - 1
      BY <1>2, <2>1, <3>2
    <3> QED  BY <1>5, <2>1, <3>2, <3>3
  <2> QED  BY <2>2, <2>3
<1> QED  BY <1>3, <1>6, <1>7, <1>8 DEF new, c

LEMMA StepOneConversation ==
  ASSUME Timely, WellFormed, OneConversation, NEW k \in Msgs, HandlerStep(k)
  PROVE  OneConversation'
<1>1. /\ OwnLocals(k) /\ OwnChat(k) /\ ChatOf(k) \in Chats /\ Running(k) /\ now' = now
      /\ \A n \in Msgs : handlers'[n].deadline = handlers[n].deadline /\ ChatOf(n)' = ChatOf(n)
      /\ now \in Nat /\ SessionTTL \in Nat \ {0} /\ Budget \in Nat /\ handlers[k].pc \in PCs
  BY StepLocals, StepChat, HandlerFacts, StepCallsStore, StoreAssumption, HandlerAssumption
     DEF OwnLocals, Moved, GoesTo, ChatOf, Running, Timely, TypeOK, StoreTypeOK
<1>2. \A c \in Chats : History(c) # <<>> =>
        /\ Together(History(c), chats[c].turnExpire)
        /\ \A m \in Msgs : Loaded(m) /\ ChatOf(m) = c =>
             handlers[m].deadline <= chats[c].turnExpire + Budget
  BY DEF OneConversation, Together
<1>3. SUFFICES ASSUME NEW c \in Chats, chats'[c].turns # <<>>
               PROVE  /\ Together(chats'[c].turns, chats'[c].turnExpire)
                      /\ \A m \in Msgs : Loaded(m)' /\ ChatOf(m) = c =>
                           handlers[m].deadline <= chats'[c].turnExpire + Budget
  BY <1>1 DEF OneConversation, Together, History
<1>4. \A n \in Msgs : Loaded(n)' => Loaded(n) \/ (n = k /\ handlers[k].pc = "load")
  BY <1>1 DEF OwnLocals, Moved, GoesTo, Loaded, PCs
<1>5. CASE /\ c # ChatOf(k) \/ handlers[k].pc \notin {"persist", "persistReply"}
           /\ chats'[c].turns = chats[c].turns /\ chats'[c].turnExpire = chats[c].turnExpire
  <2>1. Together(History(c), chats[c].turnExpire)
    BY <1>2, <1>3, <1>5 DEF History
  <2>2. ASSUME NEW m \in Msgs, Loaded(m)', ChatOf(m) = c
        PROVE  handlers[m].deadline <= chats[c].turnExpire + Budget
    <3>1. CASE Loaded(m)
      BY <1>2, <1>3, <1>5, <2>2, <3>1 DEF History
    <3>2. CASE m = k /\ handlers[k].pc = "load"
      <4>1. LoadHistory(k)
        BY <3>2 DEF HandlerStep, Start, StartMark, Reset, Alerts, Other, MaybeGreet, ReadHint,
           Enrich, Chunk, EndStream, RecordDecision, ShowCard, PersistUser, PersistReply, At
      <4>2. now <= chats[c].turnExpire
        BY <1>3, <2>1, <2>2, <3>2, <4>1, LoadFindsAlive DEF Together
      <4>3. handlers[k].deadline <= now + Budget
        BY <1>1 DEF Timely
      <4>4. handlers[k].deadline \in Nat /\ chats[c].turnExpire \in Nat
        <5>1. chats[c] \in ChatState
          BY DEF Timely, TypeOK, StoreTypeOK
        <5> QED  BY <5>1, HandlerFacts DEF ChatState
      <4> QED  BY <1>1, <3>2, <4>2, <4>3, <4>4
    <3> QED  BY <1>4, <2>2, <3>1, <3>2
  <2> QED  BY <1>5, <2>1, <2>2 DEF History
<1>6. ASSUME NEW t \in HandlerTurns, NEW n \in Nat, c = ChatOf(k), Appended(c, t, n), Loaded(k),
             chats'[c].turnExpire = now + SessionTTL, t.at <= now, now <= t.at + Budget
      PROVE  /\ Together(chats'[c].turns, chats'[c].turnExpire)
             /\ \A m \in Msgs : Loaded(m)' /\ ChatOf(m) = c =>
                  handlers[m].deadline <= chats'[c].turnExpire + Budget
  <2>1. History(c) # <<>> => /\ Together(History(c), chats[c].turnExpire)
                             /\ handlers[k].deadline <= chats[c].turnExpire + Budget
    BY <1>2, <1>6
  <2>2. Together(chats'[c].turns, chats'[c].turnExpire)
    BY <1>1, <1>6, <2>1, AppendStaysTogether
  <2>3. ASSUME NEW m \in Msgs, Loaded(m)'
        PROVE  handlers[m].deadline <= now + SessionTTL + Budget
    <3>1. Running(m) /\ handlers[m].deadline \in Nat
      BY <1>1, <1>4, <2>3, HandlerFacts DEF Loaded, Running
    <3>2. handlers[m].deadline <= now + Budget
      BY <3>1 DEF Timely
    <3> QED  BY <1>1, <3>1, <3>2
  <2> QED  BY <1>6, <2>2, <2>3
<1>7. CASE c = ChatOf(k) /\ PersistUser(k)
  <2> DEFINE t == UserTurn(k, now)
  <2>1. PICK n \in Nat : Appended(c, t, n)
    BY <1>7, PersistAppends
  <2>2. chats'[c].turnExpire = now + SessionTTL
    BY <1>7 DEF PersistUser, AppendTurn, Timely, TypeOK, StoreTypeOK, ChatState
  <2>3. t \in HandlerTurns /\ t.at = now /\ Loaded(k)
    BY <1>7, StoredTurns DEF UserTurn, PersistUser, At, Loaded
  <2> HIDE DEF t
  <2>4. t.at <= now /\ now <= t.at + Budget
    BY <1>1, <2>3
  <2> QED  BY <1>6, <1>7, <2>1, <2>2, <2>3, <2>4
<1>8. CASE c = ChatOf(k) /\ PersistReply(k)
  <2> DEFINE t == ReplyTurn(k, handlers[k].stamp)
  <2>1. PICK n \in Nat : Appended(c, t, n)
    BY <1>8, PersistAppends
  <2>2. chats'[c].turnExpire = now + SessionTTL
    BY <1>8 DEF PersistReply, AppendTurn, Timely, TypeOK, StoreTypeOK, ChatState
  <2>3. t \in HandlerTurns /\ t.at = handlers[k].stamp /\ Loaded(k)
    BY <1>8, StoredTurns DEF ReplyTurn, PersistReply, At, Loaded
  <2> HIDE DEF t
  <2>4. t.at <= now /\ now <= t.at + Budget
    <3>1. /\ handlers[k].stamp <= now /\ handlers[k].deadline <= handlers[k].stamp + Budget
          /\ now <= handlers[k].deadline
      BY <1>1, <1>8 DEF PersistReply, Timely
    <3> QED  BY <1>1, <2>3, <3>1, HandlerFacts
  <2> QED  BY <1>6, <1>8, <2>1, <2>2, <2>3, <2>4
<1> QED  BY <1>3, <1>5, <1>7, <1>8, HistoryStep

(* What Load would hand to the LLM is one conversation, although Append    *)
(* revives turns that Load would have dropped (session_store.go).          *)
THEOREM OneConversationRemembered == Spec => []HistoryIsOneConversation
<1>1. Init => OneConversation
  <2> SUFFICES ASSUME Init, NEW c \in Chats PROVE History(c) = <<>>
    BY DEF OneConversation
  <2> QED  BY DEF Init, StoreInit, ZeroChat, History
<1>2. Timely /\ WellFormed /\ OneConversation /\ [Next]_vars => OneConversation'
  <2> SUFFICES ASSUME Timely, WellFormed, OneConversation, [Next]_vars PROVE OneConversation'
    OBVIOUS
  <2>1. ASSUME NEW k \in Msgs, Receive(k) PROVE OneConversation'
    <3>1. Taken(k)
      BY <2>1, ReceiveTakes
    <3>2. \A m \in Msgs : /\ Loaded(m)' => Loaded(m) /\ handlers'[m] = handlers[m]
                          /\ ChatOf(m)' = ChatOf(m)
      BY <3>1 DEF Taken, Loaded, ChatOf
    <3>3. \A c \in Chats : chats'[c] = chats[c] /\ History(c)' = History(c)
      BY <3>1 DEF Taken, History
    <3> QED  BY <3>2, <3>3 DEF OneConversation
  <2>2. CASE Clock \/ UNCHANGED vars
    BY <2>2 DEF Clock, Tick, handlerVars, vars, OneConversation, History, Loaded, ChatOf
  <2> QED  BY <2>1, <2>2, StepOneConversation DEF Next
<1>3. OneConversation => HistoryIsOneConversation
  <2> SUFFICES ASSUME OneConversation, NEW c \in Chats,
                      NEW i \in 1 .. Len(LiveTurns(c)) - 1
               PROVE  LiveTurns(c)[i + 1].at - LiveTurns(c)[i].at <= SessionTTL + 2 * Budget
    BY DEF HistoryIsOneConversation
  <2>1. LiveTurns(c) # <<>>
    OBVIOUS
  <2>2. LiveTurns(c) = History(c)
    BY <2>1 DEF LiveTurns, History
  <2> QED  BY <2>1, <2>2 DEF OneConversation
<1> QED  BY <1>1, <1>2, <1>3, AlwaysTimely, AlwaysWellFormed, PTL DEF Spec

=============================================================================
