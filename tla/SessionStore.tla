---------------------------- MODULE SessionStore ----------------------------
(***************************************************************************)
(* modules/advisor/storage/memory/session_store.go: the in-process state   *)
(* of every chat.  Each method of the Go type takes the store's mutex for  *)
(* its whole body, so a method is one action here.  The clock now stands   *)
(* for time.Now(); the zero time.Time is ZeroTime.  A chat that is absent  *)
(* from the Go map behaves in every method like the zero chatState, so     *)
(* chats is a total function that starts at zero.                          *)
(***************************************************************************)
EXTENDS Integers, Sequences

CONSTANTS
  Chats,                (* chat identifiers                                *)
  Turns,                (* model.Turn values: records with a field role    *)
  Symbols,              (* trading pairs a chat can be pinned to           *)
  MaxTurns,             (* cap of the rolling history                      *)
  SessionTTL,           (* idle expiry of turns and of the pinned symbol   *)
  GreetedTTL,           (* how long a second welcome is suppressed         *)
  AlertActivityWindow,  (* how long a silent chat keeps its news alerts    *)
  MaxNow                (* bound: the clock stops here                     *)

ASSUME StoreAssumption ==
  /\ MaxTurns \in Nat \ {0}
  /\ SessionTTL \in Nat \ {0}
  /\ GreetedTTL \in Nat \ {0}
  /\ AlertActivityWindow \in Nat \ {0}
  /\ MaxNow \in Nat

VARIABLES now, chats

storeVars == <<now, chats>>

ZeroTime == 0
NoSymbol == ""

(* A turn is stored by value; only its role matters to the store.          *)
ChatState ==
  [turns: Seq(Turns), turnExpire: Nat,
   lastSymbol: Symbols \cup {NoSymbol}, symExpire: Nat,
   greetExpire: Nat, lastActive: Nat, alertsExplicitlyDisabled: BOOLEAN]

ZeroChat ==
  [turns |-> <<>>, turnExpire |-> ZeroTime,
   lastSymbol |-> NoSymbol, symExpire |-> ZeroTime,
   greetExpire |-> ZeroTime, lastActive |-> ZeroTime,
   alertsExplicitlyDisabled |-> FALSE]

(* The wall clock is further from the zero time than any window, which is  *)
(* what makes a zero lastActive read as "never active".                    *)
StoreInit ==
  /\ now \in AlertActivityWindow + 1 .. MaxNow
  /\ chats = [c \in Chats |-> ZeroChat]

-----------------------------------------------------------------------------
(* Results of the reading methods.                                         *)

Expired(deadline) == deadline # ZeroTime /\ now > deadline

(* Seeded fault: Load hands out turns that have expired.                   *)
LiveTurnsUnexpiring(c) == chats[c].turns

(* What Load returns, and what it leaves behind.                           *)
LiveTurns(c) ==
  IF Expired(chats[c].turnExpire) THEN <<>> ELSE chats[c].turns

GetLastSymbol(c) ==
  IF Expired(chats[c].symExpire) THEN NoSymbol ELSE chats[c].lastSymbol

AreAlertsEnabled(c) == ~chats[c].alertsExplicitlyDisabled

ListAlertSubscribers ==
  {c \in Chats : /\ ~chats[c].alertsExplicitlyDisabled
                 /\ chats[c].lastActive >= now - AlertActivityWindow}

(* TryGreet answers TRUE exactly when no welcome is still in force.        *)
MayGreet(c) ==
  chats[c].greetExpire = ZeroTime \/ now >= chats[c].greetExpire

-----------------------------------------------------------------------------
(* The writing methods.                                                    *)

(* Seeded faults: the history is not trimmed, or trimmed at the wrong end. *)
LastTurnsUntrimmed(s) == s
LastTurnsOldest(s)    == IF Len(s) > MaxTurns THEN SubSeq(s, 1, MaxTurns) ELSE s

LastTurns(s) ==
  IF Len(s) > MaxTurns THEN SubSeq(s, Len(s) - MaxTurns + 1, Len(s)) ELSE s

Load(c) ==
  chats' = [chats EXCEPT ![c].turns = LiveTurns(c)]

(* Seeded fault: what the bot says keeps the chat active.                  *)
AppendTurnAnyRole(c, turn) ==
  chats' = [chats EXCEPT
              ![c].turns      = LastTurns(Append(@, turn)),
              ![c].turnExpire = now + SessionTTL,
              ![c].lastActive = now]

AppendTurn(c, turn) ==
  chats' = [chats EXCEPT
              ![c].turns      = LastTurns(Append(@, turn)),
              ![c].turnExpire = now + SessionTTL,
              ![c].lastActive = IF turn.role = "user" THEN now ELSE @]

(* Seeded fault: the pinned symbol survives.                               *)
ClearTurnsOnly(c) ==
  chats' = [chats EXCEPT ![c].turns = <<>>, ![c].turnExpire = ZeroTime]

Clear(c) ==
  chats' = [chats EXCEPT
              ![c].turns = <<>>, ![c].turnExpire = ZeroTime,
              ![c].lastSymbol = NoSymbol, ![c].symExpire = ZeroTime]

(* Seeded fault: the wrong one of the two lifetimes.                       *)
TryGreetSessionTTL(c) ==
  /\ MayGreet(c)
  /\ chats' = [chats EXCEPT ![c].greetExpire = now + SessionTTL]

(* TryGreet when it answers TRUE; a FALSE answer changes nothing.          *)
TryGreet(c) ==
  /\ MayGreet(c)
  /\ chats' = [chats EXCEPT ![c].greetExpire = now + GreetedTTL]

MarkGreeted(c) ==
  chats' = [chats EXCEPT ![c].greetExpire = now + GreetedTTL]

SetLastSymbol(c, symbol) ==
  chats' = [chats EXCEPT
              ![c].lastSymbol = symbol,
              ![c].symExpire  = IF symbol = NoSymbol THEN ZeroTime
                                ELSE now + SessionTTL]

(* Seeded fault: the flag is stored the wrong way round.                   *)
SetAlertsInverted(c, enabled) ==
  chats' = [chats EXCEPT ![c].alertsExplicitlyDisabled = enabled]

SetAlertsEnabled(c, enabled) ==
  chats' = [chats EXCEPT ![c].alertsExplicitlyDisabled = ~enabled]

Tick ==
  /\ now < MaxNow
  /\ now' = now + 1
  /\ UNCHANGED chats

-----------------------------------------------------------------------------
(* The store under any client at all.                                      *)

Operation(c) ==
  \/ Load(c)
  \/ \E t \in Turns : AppendTurn(c, t)
  \/ Clear(c)
  \/ TryGreet(c)
  \/ MarkGreeted(c)
  \/ \E s \in Symbols \cup {NoSymbol} : SetLastSymbol(c, s)
  \/ \E b \in BOOLEAN : SetAlertsEnabled(c, b)

StoreNext ==
  \/ \E c \in Chats : Operation(c) /\ UNCHANGED now
  \/ Tick

StoreSpec == StoreInit /\ [][StoreNext]_storeVars

(* Types, and the cap on the rolling history.                              *)
StoreTypeOK ==
  /\ now \in Nat
  /\ chats \in [Chats -> ChatState]
  /\ \A c \in Chats : Len(chats[c].turns) <= MaxTurns

=============================================================================
