------------------------------ MODULE Listener ------------------------------
(***************************************************************************)
(* How an update gets from Telegram to a handler: the long-polling loop of *)
(* telegram/listener.go, the pump of                                       *)
(* modules/advisor/transport/telegram/transport.go and the dispatching     *)
(* loop ChatHandler.Run, joined by two buffered channels.                  *)
(*                                                                         *)
(* External: the Bot API.  Updates are numbered in their order.  A request *)
(* with an offset confirms every earlier update, and the API answers with  *)
(* what is not confirmed, again and again if need be.  Requests and        *)
(* answers may be lost.                                                    *)
(***************************************************************************)
EXTENDS Naturals, Sequences, SequencesExt

CONSTANTS
  NumUpdates,   (* bound: how many updates ever come                       *)
  Silent,       (* the updates that carry no message                       *)
  Cap,          (* capacity of both channels                               *)
  BatchSize,    (* the API's limit for one answer                          *)
  MaxBackoff,   (* maxBackoff, in seconds                                  *)
  MaxCrashes    (* bound                                                   *)

Updates == 1 .. NumUpdates

ASSUME ListenerAssumption ==
  /\ NumUpdates \in Nat /\ Silent \subseteq Updates
  /\ Cap \in Nat \ {0} /\ BatchSize \in Nat \ {0}
  /\ MaxBackoff \in Nat \ {0} /\ MaxCrashes \in Nat

VARIABLES
  arrived, confirmed,  (* the API: updates 1 .. arrived, 1 .. confirmed    *)
  pc,                  (* the loop: "poll", "waiting", "push", "backoff"   *)
  offset, backoff,
  batch,               (* the received updates not yet pushed              *)
  raw,                 (* channel of the listener                          *)
  hand,                (* the update the pump holds, <<>> or <<u>>         *)
  out,                 (* channel of the transport                         *)
  handled,             (* history: what Run has taken, since the start     *)
  times,               (* history: update -> how often handled in all      *)
  dropped,             (* history: confirmed, and in memory at a crash     *)
  base,                (* history: confirmed when the process started      *)
  crashes

process == <<pc, offset, backoff, batch, raw, hand, out, handled, base>>
vars == <<arrived, confirmed, process, times, dropped, crashes>>

Init ==
  /\ arrived = 0 /\ confirmed = 0
  /\ pc = "poll" /\ offset = 0 /\ backoff = 1
  /\ batch = <<>> /\ raw = <<>> /\ hand = <<>> /\ out = <<>>
  /\ handled = <<>> /\ base = 0
  /\ times = [u \in Updates |-> 0]
  /\ dropped = {} /\ crashes = 0

-----------------------------------------------------------------------------
Arrive ==
  /\ arrived < NumUpdates
  /\ arrived' = arrived + 1
  /\ UNCHANGED <<confirmed, process, times, dropped, crashes>>

(* GetUpdates: the request reaches the API.                                *)
Poll ==
  /\ pc = "poll" /\ pc' = "waiting"
  /\ confirmed' = IF offset > confirmed + 1 THEN offset - 1 ELSE confirmed
  /\ UNCHANGED <<arrived, offset, backoff, batch, raw, hand, out, handled, base,
                 times, dropped, crashes>>

Pending == IF arrived - confirmed > BatchSize THEN confirmed + BatchSize ELSE arrived

(* The answer, an empty one if nothing came within the poll's timeout.     *)
Answer ==
  /\ pc = "waiting" /\ pc' = "push"
  /\ batch' = [i \in 1 .. Pending - confirmed |-> confirmed + i]
  /\ backoff' = 1
  /\ UNCHANGED <<arrived, confirmed, offset, raw, hand, out, handled, base, times,
                 dropped, crashes>>

PollFails ==
  /\ pc \in {"poll", "waiting"} /\ pc' = "backoff"
  /\ UNCHANGED <<arrived, confirmed, offset, backoff, batch, raw, hand, out,
                 handled, base, times, dropped, crashes>>

(* Seeded fault: the loop gives up.                                        *)
RetryGivesUp ==
  /\ pc = "backoff" /\ backoff < MaxBackoff /\ pc' = "poll"
  /\ backoff' = IF 2 * backoff > MaxBackoff THEN MaxBackoff ELSE 2 * backoff
  /\ UNCHANGED <<arrived, confirmed, offset, batch, raw, hand, out, handled, base,
                 times, dropped, crashes>>

Retry ==
  /\ pc = "backoff" /\ pc' = "poll"
  /\ backoff' = IF 2 * backoff > MaxBackoff THEN MaxBackoff ELSE 2 * backoff
  /\ UNCHANGED <<arrived, confirmed, offset, batch, raw, hand, out, handled, base,
                 times, dropped, crashes>>

(* Seeded faults: the offset stays at the update; a full channel drops it. *)
PushOffsetBehind ==
  /\ pc = "push" /\ batch # <<>>
  /\ offset' = IF Head(batch) >= offset THEN Head(batch) ELSE offset
  /\ batch' = Tail(batch)
  /\ IF Head(batch) \in Silent
     THEN UNCHANGED raw
     ELSE Len(raw) < Cap /\ raw' = Append(raw, Head(batch))
  /\ UNCHANGED <<arrived, confirmed, pc, backoff, hand, out, handled, base, times,
                 dropped, crashes>>

PushOrDrop ==
  /\ pc = "push" /\ batch # <<>>
  /\ offset' = IF Head(batch) >= offset THEN Head(batch) + 1 ELSE offset
  /\ batch' = Tail(batch)
  /\ raw' = IF Head(batch) \in Silent \/ Len(raw) = Cap THEN raw
            ELSE Append(raw, Head(batch))
  /\ UNCHANGED <<arrived, confirmed, pc, backoff, hand, out, handled, base, times,
                 dropped, crashes>>

(* The loop over the answer: blocked while the channel is full.            *)
Push ==
  /\ pc = "push" /\ batch # <<>>
  /\ offset' = IF Head(batch) >= offset THEN Head(batch) + 1 ELSE offset
  /\ batch' = Tail(batch)
  /\ IF Head(batch) \in Silent
     THEN UNCHANGED raw
     ELSE Len(raw) < Cap /\ raw' = Append(raw, Head(batch))
  /\ UNCHANGED <<arrived, confirmed, pc, backoff, hand, out, handled, base, times,
                 dropped, crashes>>

Pushed ==
  /\ pc = "push" /\ batch = <<>> /\ pc' = "poll"
  /\ UNCHANGED <<arrived, confirmed, offset, backoff, batch, raw, hand, out,
                 handled, base, times, dropped, crashes>>

(* The pump of NewTransport.                                               *)
PumpTakes ==
  /\ hand = <<>> /\ raw # <<>>
  /\ hand' = <<Head(raw)>> /\ raw' = Tail(raw)
  /\ UNCHANGED <<arrived, confirmed, pc, offset, backoff, batch, out, handled, base,
                 times, dropped, crashes>>

PumpGives ==
  /\ hand # <<>> /\ Len(out) < Cap
  /\ out' = out \o hand /\ hand' = <<>>
  /\ UNCHANGED <<arrived, confirmed, pc, offset, backoff, batch, raw, handled, base,
                 times, dropped, crashes>>

(* ChatHandler.Run: a goroutine per message, so it never blocks.           *)
Dispatch ==
  /\ out # <<>>
  /\ out' = Tail(out) /\ handled' = Append(handled, Head(out))
  /\ times' = [times EXCEPT ![Head(out)] = @ + 1]
  /\ UNCHANGED <<arrived, confirmed, pc, offset, backoff, batch, raw, hand, base,
                 dropped, crashes>>

InMemory == out \o hand \o raw \o batch

(* The process dies, or is shut down, and starts anew: the offset too is   *)
(* only in memory.                                                         *)
Crash ==
  /\ crashes < MaxCrashes /\ crashes' = crashes + 1
  /\ dropped' = dropped \cup {u \in ToSet(InMemory) : u <= confirmed}
  /\ pc' = "poll" /\ offset' = 0 /\ backoff' = 1
  /\ batch' = <<>> /\ raw' = <<>> /\ hand' = <<>> /\ out' = <<>>
  /\ handled' = <<>> /\ base' = confirmed
  /\ UNCHANGED <<arrived, confirmed, times>>

Next ==
  \/ Arrive \/ Poll \/ Answer \/ PollFails \/ Retry \/ Push \/ Pushed
  \/ PumpTakes \/ PumpGives \/ Dispatch
  \/ Crash

Spec == Init /\ [][Next]_vars

(* Goroutines that can go on do; polls cannot fail for ever.               *)
Fairness ==
  /\ WF_vars(Poll \/ PollFails) /\ WF_vars(Retry)
  /\ SF_vars(Poll) /\ SF_vars(Answer)
  /\ WF_vars(Push \/ Pushed)
  /\ WF_vars(PumpTakes) /\ WF_vars(PumpGives) /\ WF_vars(Dispatch)

FairSpec == Spec /\ Fairness

-----------------------------------------------------------------------------
(* The offset of the polling loop, both channels and the pump: since the   *)
(* process started, the messages handled and those on their way are the    *)
(* messages after its base, each once and in the order they came, and what *)
(* is left of the answer comes next, although an answer may repeat updates *)
(* and channels fill up; so a message is handled again only after a        *)
(* restart, and once per restart.                                          *)
Delivered == handled \o out \o hand \o raw

Reached == IF offset = 0 THEN base ELSE offset - 1

InOrderOnce ==
  /\ \A i, j \in DOMAIN Delivered : i < j => Delivered[i] < Delivered[j]
  /\ ToSet(Delivered) = (base + 1 .. Reached) \ Silent
  /\ \A i \in DOMAIN batch : batch[i] = Reached + i
  /\ \A u \in Updates : times[u] <= 1 + crashes

(* The confirming offset: an update the API will not send again has been   *)
(* handled, is on its way in memory, or was lost there at a crash.  Taken  *)
(* the other way round: a crash loses nothing that was not yet confirmed.  *)
ConfirmedIsAccountedFor ==
  \A u \in 1 .. confirmed :
    u \in Silent \cup ToSet(InMemory) \cup dropped \/ times[u] > 0

(* The comment on StartAdvisorListener: it retries for ever.  Every        *)
(* message is handled in the end, unless a crash has lost it.              *)
EveryUpdateHandled ==
  \A u \in Updates \ Silent : (arrived >= u) ~> (times[u] > 0 \/ u \in dropped)

=============================================================================
