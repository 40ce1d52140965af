------------------------------ MODULE Follower ------------------------------
(***************************************************************************)
(* A copy that follows a source: what the news calendar promises of its    *)
(* cache, and the reply bubble of what the user sees.  The source's        *)
(* versions are numbered in their order, 0 being nothing yet; the copy is  *)
(* always a version the source really had, and never goes back to an       *)
(* older one, however updates fail, are throttled or overlap.              *)
(***************************************************************************)
EXTENDS Naturals

VARIABLES source, copy

Init == source = 0 /\ copy = 0

Advance == source' = source + 1 /\ UNCHANGED copy

Catch == copy' \in copy .. source /\ UNCHANGED source

Next == Advance \/ Catch

Spec == Init /\ [][Next]_<<source, copy>>

=============================================================================
