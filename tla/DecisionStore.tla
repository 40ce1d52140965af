---------------------------- MODULE DecisionStore ----------------------------
(***************************************************************************)
(* agent_decision/storage/firestore/store.go and the pruner of main.go.    *)
(* A row is a document of the collection; only its creation time matters.  *)
(* `now` is the clock of whoever composes this module.                     *)
(*                                                                         *)
(* External: Firestore.  A Create may fail, or be carried out although its *)
(* caller sees an error; a query may fail in the middle, and so may a      *)
(* commit, which is carried out as a whole or not at all.                  *)
(***************************************************************************)
EXTENDS Integers, FiniteSets

CONSTANTS
  Retention,   (* age from which a row is purged (7 days)                  *)
  PruneEvery,  (* the pruner's ticker (7 days)                             *)
  BatchSize,   (* deletes per commit (400)                                 *)
  MaxRows,     (* bounds the rows created                                  *)
  MaxPurgeFailures  (* bounds the purges that fail                         *)

ASSUME StoreAssumption ==
  /\ Retention \in Nat /\ PruneEvery \in Nat \ {0} /\ BatchSize \in Nat \ {0}
  /\ MaxRows \in Nat /\ MaxPurgeFailures \in Nat

VARIABLES
  now,
  rows,        (* the collection                                           *)
  created,     (* history: how many rows have been created                 *)
  pruner,      (* "down", "wait" for the ticker, or "purge"                *)
  nextPrune,   (* when the ticker fires next                               *)
  found,       (* what the iterator has left to return                     *)
  batch,       (* deletes not yet committed                                *)
  cutoff,      (* `before` of the purge                                    *)
  purgedTo,    (* history: cutoff of the last purge that succeeded         *)
  young,       (* history: rows deleted before their time                  *)
  failures     (* history: purges that failed                              *)

prunerVars == <<pruner, nextPrune, found, batch, cutoff>>
storeVars  == <<rows, created, prunerVars, purgedTo, young, failures>>

StoreInit ==
  /\ rows = {} /\ created = 0
  /\ pruner = "down" /\ nextPrune = 0
  /\ found = {} /\ batch = {} /\ cutoff = 0 - Retention
  /\ purgedTo = 0 - Retention
  /\ young = {} /\ failures = 0

(* Save: Create under a fresh UUID. *)
Save ==
  /\ created < MaxRows
  /\ created' = created + 1
  /\ rows' = rows \cup {[id |-> created + 1, at |-> now]}

(* A purge: the cutoff and the query. *)
Purge ==
  /\ pruner' = "purge"
  /\ cutoff' = now - Retention
  /\ found' = {row \in rows : row.at < cutoff'}
  /\ batch' = {}

(* startDecisionPruner: once at startup, then with every tick. *)
StartPruner ==
  /\ Purge
  /\ nextPrune' = now + PruneEvery

PruneTick ==
  /\ pruner = "wait" /\ now = nextPrune
  /\ Purge
  /\ nextPrune' = nextPrune + PruneEvery
  /\ UNCHANGED <<rows, created, purgedTo, young, failures>>

(* batch.Commit *)
Commit(docs) ==
  /\ rows' = rows \ docs
  /\ young' = young \cup {row \in docs : now - row.at <= Retention}

(* iter.Next: the row joins the batch, which is committed when it is full. *)
PurgeNext ==
  /\ pruner = "purge"
  /\ \E row \in found :
       LET docs == batch \cup {row}
           full == Cardinality(docs) >= BatchSize
       IN /\ found' = found \ {row}
          /\ IF full THEN Commit(docs) /\ batch' = {}
             ELSE batch' = docs /\ UNCHANGED <<rows, young>>
  /\ UNCHANGED <<created, pruner, nextPrune, cutoff, purgedTo, failures>>

(* Seeded fault: the rows of the last, partial batch are forgotten. *)
PurgeDoneUnflushed ==
  /\ pruner = "purge" /\ found = {}
  /\ batch' = {}
  /\ pruner' = "wait" /\ purgedTo' = cutoff
  /\ UNCHANGED <<rows, young, created, nextPrune, found, cutoff, failures>>

(* iterator.Done: the last flush, and the purge has succeeded. *)
PurgeDone ==
  /\ pruner = "purge" /\ found = {}
  /\ Commit(batch) /\ batch' = {}
  /\ pruner' = "wait" /\ purgedTo' = cutoff
  /\ UNCHANGED <<created, nextPrune, found, cutoff, failures>>

(* The query or a commit fails: what was committed stays deleted, the rest *)
(* is left to the purge of the next tick.                                  *)
PurgeFails ==
  /\ pruner = "purge" /\ failures < MaxPurgeFailures
  /\ failures' = failures + 1
  /\ pruner' = "wait" /\ found' = {} /\ batch' = {}
  /\ UNCHANGED <<rows, created, nextPrune, cutoff, purgedTo, young>>

PrunerStep == PruneTick \/ PurgeNext \/ PurgeDone \/ PurgeFails

(* The process is gone. *)
StopPruner ==
  /\ pruner' = "down" /\ found' = {} /\ batch' = {}
  /\ nextPrune' = 0 /\ cutoff' = 0 - Retention

(* The pruner has nothing to do at this moment. *)
PrunerIdle == pruner = "down" \/ (pruner = "wait" /\ now < nextPrune)

-----------------------------------------------------------------------------
(* The pruner deletes nothing younger than Retention and, between purges   *)
(* that succeed, leaves nothing older than Retention and one period of its *)
(* ticker, however the rows fall into batches and wherever an earlier      *)
(* purge broke off (PurgeOlderThan, startDecisionPruner).                  *)
RetentionHolds ==
  /\ young = {}
  /\ \A row \in rows : row.at >= purgedTo
  /\ pruner = "wait" /\ failures = 0 =>
       \A row \in rows : now - row.at <= Retention + PruneEvery
=============================================================================
