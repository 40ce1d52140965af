--------------------------- MODULE ListenerProofs ---------------------------
(***************************************************************************)
(* Proofs about the way of an update to its handler, for any number of     *)
(* updates and crashes, any capacity and any limit of an answer.           *)
(***************************************************************************)
EXTENDS Listener, SequenceTheorems, TLAPS

Ordered(s) == \A i, j \in DOMAIN s : i < j => s[i] < s[j]

(* Lemmas about the queues.                                                *)

LEMMA ToSetConcat ==
  ASSUME NEW S, NEW s \in Seq(S), NEW t \in Seq(S)
  PROVE  ToSet(s \o t) = ToSet(s) \cup ToSet(t)
<1>1. /\ DOMAIN (s \o t) = 1 .. Len(s) + Len(t) /\ Len(s) \in Nat /\ Len(t) \in Nat
      /\ \A i \in 1 .. Len(s) + Len(t) :
           (s \o t)[i] = IF i <= Len(s) THEN s[i] ELSE t[i - Len(s)]
  BY ConcatProperties, LenProperties
<1>2. DOMAIN s = 1 .. Len(s) /\ DOMAIN t = 1 .. Len(t)
  BY LenProperties
<1>3. ASSUME NEW i \in 1 .. Len(t) PROVE (s \o t)[i + Len(s)] = t[i]
  BY <1>1
<1>4. ASSUME NEW i \in 1 .. Len(s) PROVE (s \o t)[i] = s[i]
  BY <1>1
<1>5. ToSet(s \o t) \subseteq ToSet(s) \cup ToSet(t)
  <2> SUFFICES ASSUME NEW i \in 1 .. Len(s) + Len(t)
               PROVE  (s \o t)[i] \in ToSet(s) \cup ToSet(t)
    BY <1>1 DEF ToSet
  <2>1. CASE i <= Len(s)
    BY <1>1, <1>2, <2>1 DEF ToSet
  <2>2. CASE ~(i <= Len(s))
    <3>1. i - Len(s) \in 1 .. Len(t)
      BY <1>1, <2>2
    <3> QED  BY <1>1, <1>2, <2>2, <3>1 DEF ToSet
  <2> QED  BY <2>1, <2>2
<1>6. ASSUME NEW i \in 1 .. Len(s) PROVE s[i] \in ToSet(s \o t)
  <2>1. i \in 1 .. Len(s) + Len(t)
    BY <1>1
  <2> QED  BY <1>1, <1>4, <2>1 DEF ToSet
<1>7. ASSUME NEW i \in 1 .. Len(t) PROVE t[i] \in ToSet(s \o t)
  <2>1. i + Len(s) \in 1 .. Len(s) + Len(t)
    BY <1>1
  <2> QED  BY <1>1, <1>3, <2>1 DEF ToSet
<1>8. ToSet(s) \subseteq ToSet(s \o t) /\ ToSet(t) \subseteq ToSet(s \o t)
  BY <1>2, <1>6, <1>7 DEF ToSet
<1> QED  BY <1>5, <1>8

LEMMA ToSetOne ==
  ASSUME NEW x PROVE ToSet(<<x>>) = {x} /\ ToSet(<<>>) = {}
<1>1. DOMAIN <<x>> = {1} /\ <<x>>[1] = x /\ DOMAIN <<>> = {}
  OBVIOUS
<1> QED  BY <1>1 DEF ToSet

LEMMA ToSetAppend ==
  ASSUME NEW S, NEW s \in Seq(S), NEW e \in S
  PROVE  ToSet(Append(s, e)) = ToSet(s) \cup {e}
<1>0. Append(s, e) = s \o <<e>>
  BY AppendIsConcat, Zenon
<1>1. Append(s, e) = s \o <<e>> /\ <<e>> \in Seq(S)
  BY <1>0
<1>2. ToSet(<<e>>) = {e}
  BY ToSetOne
<1>3. ToSet(s \o <<e>>) = ToSet(s) \cup ToSet(<<e>>)
  <2>1. PICK t \in Seq(S) : t = <<e>>
    BY <1>1, Zenon
  <2>2. ToSet(s \o t) = ToSet(s) \cup ToSet(t)
    BY ToSetConcat
  <2> QED  BY <2>1, <2>2, Zenon
<1> QED  BY <1>1, <1>2, <1>3, Zenon

LEMMA ToSetMember ==
  ASSUME NEW S, NEW s \in Seq(S)
  PROVE  ToSet(s) \subseteq S
  BY DEF ToSet

LEMMA HeadFirst ==
  ASSUME NEW S, NEW s \in Seq(S), s # <<>>
  PROVE  /\ Head(s) \in S /\ Tail(s) \in Seq(S) /\ <<Head(s)>> \in Seq(S)
         /\ <<Head(s)>> \o Tail(s) = s
         /\ Head(s) \in ToSet(s) /\ Head(s) = s[1]
<1>1. Head(s) \in S /\ Tail(s) \in Seq(S) /\ <<Head(s)>> \in Seq(S) /\ Head(s) = s[1]
  OBVIOUS
<1>2. 1 \in DOMAIN s
  OBVIOUS
<1>3. <<Head(s)>> \o Tail(s) = s
  BY <1>1
<1> QED  BY <1>1, <1>2, <1>3 DEF ToSet

(* A message moves from the head of one queue to the end of the one before.*)
LEMMA MoveHead ==
  ASSUME NEW S, NEW s \in Seq(S), NEW t \in Seq(S), t # <<>>
  PROVE  Append(s, Head(t)) \o Tail(t) = s \o t
<1>1. Append(s, Head(t)) = s \o <<Head(t)>>
  BY HeadFirst, AppendIsConcat
<1>2. (s \o <<Head(t)>>) \o Tail(t) = s \o (<<Head(t)>> \o Tail(t))
  BY HeadFirst, ConcatAssociative
<1> QED  BY <1>1, <1>2, HeadFirst

LEMMA OrderedPrefix ==
  ASSUME NEW s \in Seq(Nat), NEW t \in Seq(Nat), Ordered(s \o t)
  PROVE  /\ Ordered(s)
         /\ \A x \in ToSet(s), y \in ToSet(t) : x < y
<1>1. /\ DOMAIN (s \o t) = 1 .. Len(s) + Len(t) /\ Len(s) \in Nat /\ Len(t) \in Nat
      /\ DOMAIN s = 1 .. Len(s) /\ DOMAIN t = 1 .. Len(t)
      /\ \A i \in 1 .. Len(s) + Len(t) :
           (s \o t)[i] = IF i <= Len(s) THEN s[i] ELSE t[i - Len(s)]
  BY ConcatProperties, LenProperties
<1>2. \A i \in 1 .. Len(s) : i \in 1 .. Len(s) + Len(t) /\ (s \o t)[i] = s[i]
  BY <1>1
<1>3. \A i \in 1 .. Len(t) : i + Len(s) \in 1 .. Len(s) + Len(t) /\ (s \o t)[i + Len(s)] = t[i]
  BY <1>1
<1>4. Ordered(s)
  BY <1>1, <1>2 DEF Ordered
<1>5. ASSUME NEW i \in 1 .. Len(s), NEW j \in 1 .. Len(t) PROVE s[i] < t[j]
  <2>1. i < j + Len(s)
    BY <1>1
  <2> QED  BY <1>1, <1>2, <1>3, <2>1 DEF Ordered
<1> QED  BY <1>1, <1>4, <1>5 DEF ToSet

LEMMA OrderedAppend ==
  ASSUME NEW s \in Seq(Nat), NEW e \in Nat, Ordered(s), \A x \in ToSet(s) : x < e
  PROVE  Ordered(Append(s, e))
<1>1. /\ DOMAIN Append(s, e) = 1 .. Len(s) + 1 /\ Len(s) \in Nat
      /\ \A i \in 1 .. Len(s) : Append(s, e)[i] = s[i] /\ i \in DOMAIN s
      /\ Append(s, e)[Len(s) + 1] = e
  BY AppendProperties, LenProperties
<1>2. \A i \in 1 .. Len(s) : s[i] < e
  BY <1>1 DEF ToSet
<1>3. ASSUME NEW i \in 1 .. Len(s) + 1, NEW j \in 1 .. Len(s) + 1, i < j
      PROVE  Append(s, e)[i] < Append(s, e)[j]
  <2>1. i \in 1 .. Len(s) /\ (j \in 1 .. Len(s) \/ j = Len(s) + 1)
    BY <1>1, <1>3
  <2> QED  BY <1>1, <1>2, <1>3, <2>1 DEF Ordered
<1> QED  BY <1>1, <1>3 DEF Ordered

-----------------------------------------------------------------------------
(* The loop's offset is past what it pushed, the API has confirmed no more *)
(* than that, and what is left of an answer begins there.                  *)
Types ==
  /\ arrived \in Nat /\ arrived <= NumUpdates /\ confirmed \in Nat
  /\ base \in Nat /\ offset \in Nat /\ crashes \in Nat
  /\ handled \in Seq(Updates) /\ out \in Seq(Updates)
  /\ hand \in Seq(Updates) /\ raw \in Seq(Updates)
  /\ hand = <<>> \/ \E u \in Updates : hand = <<u>>
  /\ batch \in Seq(Updates)
  /\ times \in [Updates -> Nat]

Polled ==
  /\ offset = 0 \/ base < offset
  /\ confirmed <= Reached /\ base <= confirmed
  /\ Reached + Len(batch) <= arrived
  /\ pc = "waiting" => confirmed = Reached
  /\ pc # "push" => batch = <<>>

Queued ==
  /\ Ordered(Delivered)
  /\ ToSet(Delivered) = (base + 1 .. Reached) \ Silent
  /\ \A i \in DOMAIN batch : batch[i] = Reached + i

(* A message was handled once per crash at most, and once since.           *)
Counted ==
  \A u \in Updates :
    /\ times[u] <= 1 + crashes
    /\ u \notin ToSet(handled) => times[u] <= crashes
    /\ u \in ToSet(handled) => times[u] > 0

(* What a process does not see again was handled, or lost, before it.      *)
Settled ==
  \A u \in 1 .. base : u \in Silent \cup dropped \/ times[u] > 0

IInv == Types /\ Polled /\ Queued /\ Counted /\ Settled

LEMMA UpdatesAreNumbers == Updates \subseteq Nat /\ Seq(Updates) \subseteq Seq(Nat)
<1>1. Updates \subseteq Nat
  BY ListenerAssumption DEF Updates
<1> QED  BY <1>1, SeqMonotonic

LEMMA QueuesAreOne ==
  ASSUME Types
  PROVE  /\ Delivered \in Seq(Updates) /\ InMemory \in Seq(Updates)
         /\ ToSet(Delivered) = ToSet(handled) \cup ToSet(out) \cup ToSet(hand) \cup ToSet(raw)
         /\ ToSet(InMemory) = ToSet(out) \cup ToSet(hand) \cup ToSet(raw) \cup ToSet(batch)
<1>0. /\ handled \in Seq(Updates) /\ out \in Seq(Updates) /\ hand \in Seq(Updates)
      /\ raw \in Seq(Updates) /\ batch \in Seq(Updates)
  BY DEF Types
<1>1. ASSUME NEW s \in Seq(Updates), NEW t \in Seq(Updates)
      PROVE  s \o t \in Seq(Updates) /\ ToSet(s \o t) = ToSet(s) \cup ToSet(t)
  BY ToSetConcat, ConcatProperties
<1> DEFINE a == handled \o out
           b == a \o hand
           d == out \o hand
           e == d \o raw
<1>2. a \in Seq(Updates) /\ ToSet(a) = ToSet(handled) \cup ToSet(out)
  BY <1>0, <1>1
<1>3. b \in Seq(Updates) /\ ToSet(b) = ToSet(a) \cup ToSet(hand)
  <2> HIDE DEF a
  <2> QED  BY <1>0, <1>1, <1>2
<1>4. b \o raw \in Seq(Updates) /\ ToSet(b \o raw) = ToSet(b) \cup ToSet(raw)
  <2> HIDE DEF b
  <2> QED  BY <1>0, <1>1, <1>3
<1>5. d \in Seq(Updates) /\ ToSet(d) = ToSet(out) \cup ToSet(hand)
  BY <1>0, <1>1
<1>6. e \in Seq(Updates) /\ ToSet(e) = ToSet(d) \cup ToSet(raw)
  <2> HIDE DEF d
  <2> QED  BY <1>0, <1>1, <1>5
<1>7. e \o batch \in Seq(Updates) /\ ToSet(e \o batch) = ToSet(e) \cup ToSet(batch)
  <2> HIDE DEF e
  <2> QED  BY <1>0, <1>1, <1>6
<1>8. Delivered = b \o raw /\ InMemory = e \o batch
  BY DEF Delivered, InMemory
<1> HIDE DEF a, b, d, e
<1> QED  BY <1>2, <1>3, <1>4, <1>5, <1>6, <1>7, <1>8

(* What the API has confirmed is accounted for.                            *)
LEMMA Accounted == IInv => ConfirmedIsAccountedFor
<1> SUFFICES ASSUME IInv, NEW u \in 1 .. confirmed
             PROVE  u \in Silent \cup ToSet(InMemory) \cup dropped \/ times[u] > 0
  BY DEF ConfirmedIsAccountedFor
<1>1. /\ base \in Nat /\ confirmed \in Nat /\ Reached \in Nat /\ confirmed <= Reached
  BY DEF IInv, Types, Polled, Reached
<1>2. CASE u <= base
  BY <1>1, <1>2 DEF IInv, Settled
<1>3. CASE ~(u <= base)
  <2>1. u \in base + 1 .. Reached
    BY <1>1, <1>3
  <2>2. u \in Silent \cup ToSet(Delivered)
    BY <2>1 DEF IInv, Queued
  <2>3. ToSet(handled) \subseteq Updates
    BY ToSetMember DEF IInv, Types
  <2> QED  BY <2>2, <2>3, QueuesAreOne DEF IInv, Counted
<1> QED  BY <1>2, <1>3

LEMMA InitIInv == Init => IInv
<1> SUFFICES ASSUME Init PROVE IInv
  OBVIOUS
<1>0. <<>> \in Seq(Updates) /\ ToSet(<<>>) = {} /\ NumUpdates \in Nat /\ Len(<<>>) = 0
  <2>1. ToSet(<<>>) = {}
    BY ToSetOne
  <2> QED  BY <2>1, ListenerAssumption
<1>1. Types
  BY <1>0 DEF Init, Types
<1>2. Reached = 0
  BY DEF Init, Reached
<1>3. Polled
  BY <1>0, <1>2 DEF Init, Polled
<1>4. ToSet(handled) = {} /\ ToSet(out) = {} /\ ToSet(hand) = {} /\ ToSet(raw) = {}
  BY <1>0 DEF Init
<1>5. Delivered \in Seq(Updates) /\ ToSet(Delivered) = {}
  BY <1>1, <1>4, QueuesAreOne
<1>6. \A i \in DOMAIN Delivered : Delivered[i] \in ToSet(Delivered)
  BY DEF ToSet
<1>7. Ordered(Delivered)
  BY <1>5, <1>6 DEF Ordered
<1>8. Queued
  BY <1>2, <1>5, <1>7 DEF Init, Queued
<1>9. Counted
  BY <1>4 DEF Init, Counted
<1>10. Settled
  BY DEF Init, Settled
<1> QED  BY <1>1, <1>3, <1>8, <1>9, <1>10 DEF IInv

(* The queues as a whole are as they were.                                 *)
LEMMA SameQueues ==
  ASSUME IInv, Types', Polled', Delivered' = Delivered,
         UNCHANGED <<batch, offset, base, dropped, handled, times, crashes>>
  PROVE  IInv'
<1>1. Reached' = Reached
  BY DEF Reached
<1>2. Queued'
  BY <1>1 DEF IInv, Queued
<1> QED  BY <1>2 DEF IInv, Counted, Settled

LEMMA CalmStep ==
  ASSUME IInv, Arrive \/ Poll \/ PollFails \/ Retry \/ Pushed \/ UNCHANGED vars
  PROVE  IInv'
<1>1. /\ UNCHANGED <<batch, offset, base, dropped, handled, times, crashes>>
      /\ UNCHANGED <<out, hand, raw>>
      /\ arrived' = arrived \/ (arrived < NumUpdates /\ arrived' = arrived + 1)
      /\ \/ confirmed' = confirmed /\ (pc' = "waiting" => pc = "waiting")
         \/ confirmed' = IF offset > confirmed + 1 THEN offset - 1 ELSE confirmed
      /\ pc' # "push" => pc # "push" \/ batch = <<>>
  BY DEF Arrive, Poll, PollFails, Retry, Pushed, vars, process
<1>2. /\ confirmed' \in Nat /\ NumUpdates \in Nat
      /\ arrived' \in Nat /\ arrived' <= NumUpdates /\ arrived <= arrived'
  BY <1>1, ListenerAssumption DEF IInv, Types
<1>3. Types'
  BY <1>1, <1>2 DEF IInv, Types
<1>4. Reached' = Reached
  BY <1>1 DEF Reached
<1>5. confirmed' <= Reached /\ base <= confirmed' /\ (pc' = "waiting" => confirmed' = Reached)
  <2>1. /\ confirmed <= Reached /\ base <= confirmed /\ (pc = "waiting" => confirmed = Reached)
        /\ base \in Nat /\ confirmed \in Nat /\ offset \in Nat
    BY DEF IInv, Types, Polled
  <2>2. CASE confirmed' = confirmed /\ (pc' = "waiting" => pc = "waiting")
    BY <2>1, <2>2
  <2>3. CASE confirmed' = IF offset > confirmed + 1 THEN offset - 1 ELSE confirmed
    <3>1. CASE offset = 0
      BY <2>1, <2>3, <3>1 DEF Reached
    <3>2. CASE offset # 0
      BY <2>1, <2>3, <3>2 DEF Reached
    <3> QED  BY <3>1, <3>2
  <2> QED  BY <1>1, <2>2, <2>3
<1>6. Reached + Len(batch) <= arrived'
  BY <1>1 DEF IInv, Types, Polled, Reached
<1>7. Polled'
  BY <1>1, <1>4, <1>5, <1>6 DEF IInv, Polled
<1>8. Delivered' = Delivered
  BY <1>1 DEF Delivered
<1> QED  BY <1>1, <1>3, <1>7, <1>8, SameQueues

LEMMA AnswerStep ==
  ASSUME IInv, Answer
  PROVE  IInv'
<1>1. /\ pc' = "push" /\ batch' = [i \in 1 .. Pending - confirmed |-> confirmed + i]
      /\ UNCHANGED <<arrived, confirmed, offset, raw, hand, out, handled, base, times, dropped, crashes>>
      /\ confirmed = Reached
  BY DEF Answer, IInv, Polled
<1>2. /\ arrived \in Nat /\ confirmed \in Nat /\ confirmed <= arrived /\ arrived <= NumUpdates
      /\ NumUpdates \in Nat /\ BatchSize \in Nat
  <2>1. batch \in Seq(Updates) /\ Len(batch) \in Nat
    BY DEF IInv, Types
  <2> QED  BY <1>1, <2>1, ListenerAssumption DEF IInv, Types, Polled
<1>3. Pending - confirmed \in Nat /\ Pending <= arrived
  BY <1>2 DEF Pending
<1>4. PICK n \in Nat : n = Pending - confirmed
  BY <1>3
<1>5. confirmed + n <= arrived /\ batch' = [i \in 1 .. n |-> confirmed + i]
  <2>1. Pending \in Int
    BY <1>2 DEF Pending
  <2> QED  BY <1>1, <1>2, <1>3, <1>4, <2>1
<1>t. \A i \in 1 .. n : confirmed + i \in Updates
  BY <1>2, <1>5 DEF Updates
<1>6. batch' \in Seq(Updates) /\ Len(batch') = n /\ DOMAIN batch' = 1 .. n
  BY <1>5, <1>t
<1>7. Types'
  BY <1>1, <1>6 DEF IInv, Types
<1>8. Reached' = Reached /\ Delivered' = Delivered
  BY <1>1 DEF Reached, Delivered
<1>9. Polled'
  BY <1>1, <1>5, <1>6, <1>8 DEF IInv, Polled
<1>10. Queued'
  BY <1>1, <1>5, <1>6, <1>8 DEF IInv, Queued
<1> QED  BY <1>1, <1>7, <1>9, <1>10 DEF IInv, Counted, Settled

LEMMA PushStep ==
  ASSUME IInv, Push
  PROVE  IInv'
<1> DEFINE u == Head(batch)
<1>1. /\ pc = "push" /\ batch # <<>> /\ batch' = Tail(batch)
      /\ offset' = IF u >= offset THEN u + 1 ELSE offset
      /\ IF u \in Silent THEN raw' = raw ELSE raw' = Append(raw, u)
      /\ UNCHANGED <<arrived, confirmed, pc, hand, out, handled, base, times, dropped, crashes>>
  BY DEF Push
<1>2. /\ batch \in Seq(Updates) /\ raw \in Seq(Updates) /\ Updates \subseteq Nat
      /\ offset \in Nat /\ base \in Nat /\ confirmed \in Nat /\ arrived \in Nat
      /\ offset = 0 \/ base < offset
  BY UpdatesAreNumbers DEF IInv, Types, Polled
<1>3. /\ u \in Updates /\ u = batch[1] /\ Tail(batch) \in Seq(Updates)
      /\ Len(batch) \in Nat /\ Len(Tail(batch)) = Len(batch) - 1 /\ 1 \in DOMAIN batch
      /\ \A i \in DOMAIN Tail(batch) : i \in Nat /\ i + 1 \in DOMAIN batch /\ Tail(batch)[i] = batch[i + 1]
  BY <1>1, <1>2
<1>4. u = Reached + 1 /\ Reached \in Nat /\ offset <= Reached + 1
  BY <1>2, <1>3 DEF IInv, Queued, Reached
<1> HIDE DEF u
<1>5. Reached' = u /\ offset' = u + 1
  BY <1>1, <1>2, <1>4 DEF Reached
<1>6. raw' \in Seq(Updates)
  <2>1. CASE u \in Silent
    BY <1>1, <1>2, <2>1
  <2>2. CASE u \notin Silent
    <3>1. raw' = Append(raw, u)
      BY <1>1, <2>2
    <3> QED  BY <1>2, <1>3, <3>1, AppendProperties, Zenon
  <2> QED  BY <2>1, <2>2
<1>7. Types'
  <2>1. batch' \in Seq(Updates)
    BY <1>1, <1>3, Zenon
  <2>2. offset' \in Nat
    BY <1>4, <1>5
  <2> QED  BY <1>1, <1>6, <2>1, <2>2, Zenon DEF IInv, Types
<1>8. Polled'
  <2>1. base < offset' /\ base <= Reached
    BY <1>2, <1>4, <1>5 DEF IInv, Polled
  <2>2. Reached' + Len(batch') <= arrived'
    BY <1>1, <1>2, <1>3, <1>4, <1>5 DEF IInv, Polled
  <2> QED  BY <1>1, <1>2, <1>4, <1>5, <2>1, <2>2 DEF IInv, Polled
<1>9. base < u /\ base + 1 \in Nat
  BY <1>2, <1>4 DEF IInv, Polled
<1>10. Ordered(Delivered') /\ ToSet(Delivered') = (base + 1 .. u) \ Silent
  <2>1. /\ Delivered \in Seq(Updates) /\ Ordered(Delivered)
        /\ ToSet(Delivered) = (base + 1 .. Reached) \ Silent
    BY QueuesAreOne DEF IInv, Queued
  <2>2. CASE u \in Silent
    <3>1. Delivered' = Delivered
      BY <1>1, <2>2 DEF Delivered
    <3>2. (base + 1 .. Reached) \ Silent = (base + 1 .. u) \ Silent
      BY <1>4, <1>9, <2>2
    <3> QED  BY <2>1, <3>1, <3>2
  <2>3. CASE u \notin Silent
    <3> DEFINE front == (handled \o out) \o hand
    <3>1. front \in Seq(Updates)
      BY DEF IInv, Types
    <3>2. Delivered' = front \o Append(raw, u) /\ Delivered = front \o raw
      BY <1>1, <2>3 DEF Delivered
    <3> HIDE DEF front
    <3>3. front \o Append(raw, u) = Append(front \o raw, u)
      <4>1. Append(raw, u) = raw \o <<u>> /\ <<u>> \in Seq(Updates)
        BY <1>2, <1>3, AppendIsConcat
      <4>2. (front \o raw) \o <<u>> = front \o (raw \o <<u>>)
        BY <1>2, <3>1, <4>1, ConcatAssociative
      <4>3. Append(front \o raw, u) = (front \o raw) \o <<u>>
        BY <1>3, <2>1, <3>2, AppendIsConcat
      <4> QED  BY <4>1, <4>2, <4>3
    <3>4. Delivered' = Append(Delivered, u)
      BY <3>2, <3>3
    <3>5. ToSet(Delivered') = ToSet(Delivered) \cup {u}
      BY <1>3, <2>1, <3>4, ToSetAppend
    <3>6. \A x \in ToSet(Delivered) : x < u
      BY <1>4, <1>9, <2>1
    <3>7. Delivered \in Seq(Nat) /\ u \in Nat
      BY <1>2, <1>3, <2>1, UpdatesAreNumbers
    <3>8. Ordered(Delivered')
      BY <2>1, <3>4, <3>6, <3>7, OrderedAppend
    <3>9. ((base + 1 .. Reached) \ Silent) \cup {u} = (base + 1 .. u) \ Silent
      <4>1. base \in Nat /\ Reached \in Nat /\ u = Reached + 1 /\ base < u
        BY <1>2, <1>4, <1>9
      <4>2. (base + 1 .. Reached) \cup {u} = base + 1 .. u
        BY <4>1
      <4> QED  BY <2>3, <4>2
    <3> QED  BY <2>1, <3>5, <3>8, <3>9
  <2> QED  BY <2>2, <2>3
<1>11. \A i \in DOMAIN batch' : batch'[i] = Reached' + i
  BY <1>1, <1>3, <1>4, <1>5 DEF IInv, Queued
<1>12. Queued'
  BY <1>1, <1>5, <1>10, <1>11 DEF Queued, Ordered
<1> QED  BY <1>1, <1>7, <1>8, <1>12 DEF IInv, Counted, Settled

LEMMA PumpStep ==
  ASSUME IInv, PumpTakes \/ PumpGives
  PROVE  IInv'
<1>0. /\ handled \in Seq(Updates) /\ out \in Seq(Updates) /\ raw \in Seq(Updates)
      /\ handled \o out \in Seq(Updates)
  BY DEF IInv, Types
<1>1. UNCHANGED <<arrived, confirmed, pc, batch, offset, base, dropped, handled, times, crashes>>
  BY DEF PumpTakes, PumpGives
<1>2. Reached' = Reached
  BY <1>1 DEF Reached
<1>3. Polled'
  BY <1>1, <1>2 DEF IInv, Polled
<1>4. CASE PumpTakes
  <2>1. hand = <<>> /\ raw # <<>> /\ hand' = <<Head(raw)>> /\ raw' = Tail(raw) /\ out' = out
    BY <1>4 DEF PumpTakes
  <2>2. Head(raw) \in Updates /\ raw' \in Seq(Updates) /\ hand' \in Seq(Updates)
    BY <1>0, <2>1, HeadFirst
  <2>3. Types'
    BY <1>1, <2>1, <2>2 DEF IInv, Types
  <2> DEFINE front == handled \o out
  <2>4. Delivered = (front \o <<>>) \o raw /\ Delivered' = (front \o hand') \o raw'
    BY <1>1, <2>1 DEF Delivered
  <2>5. front \in Seq(Updates)
    BY <1>0
  <2> HIDE DEF front
  <2>6. front \o <<>> = front
    BY <2>5, ConcatEmptySeq
  <2>7. (front \o hand') \o raw' = front \o (hand' \o raw')
    BY <2>2, <2>5, ConcatAssociative
  <2>8. hand' \o raw' = raw
    BY <1>0, <2>1, HeadFirst
  <2>9. Delivered' = Delivered
    BY <2>4, <2>6, <2>7, <2>8
  <2> QED  BY <1>1, <1>3, <2>3, <2>9, SameQueues
<1>5. CASE PumpGives
  <2>1. hand # <<>> /\ out' = out \o hand /\ hand' = <<>> /\ raw' = raw
    BY <1>5 DEF PumpGives
  <2>2. hand \in Seq(Updates) /\ <<>> \in Seq(Updates)
    BY DEF IInv, Types
  <2>3. out' \in Seq(Updates)
    BY <1>0, <2>1, <2>2, ConcatProperties
  <2>4. Types'
    BY <1>1, <2>1, <2>2, <2>3 DEF IInv, Types
  <2>5. handled \o (out \o hand) = (handled \o out) \o hand
    <3>1. PICK h \in Seq(Updates) : h = hand
      BY <2>2
    <3>2. PICK o \in Seq(Updates) : o = out
      BY <1>0
    <3>3. PICK g \in Seq(Updates) : g = handled
      BY <1>0
    <3>4. (g \o o) \o h = g \o (o \o h)
      BY ConcatAssociative
    <3> QED  BY <3>1, <3>2, <3>3, <3>4, Zenon
  <2>6. (handled \o out') \o <<>> = handled \o out'
    BY <1>0, <2>3, ConcatProperties, ConcatEmptySeq
  <2>7. Delivered' = ((handled \o out') \o <<>>) \o raw
    BY <1>1, <2>1 DEF Delivered
  <2>8. Delivered' = Delivered
    BY <2>1, <2>5, <2>6, <2>7 DEF Delivered
  <2> QED  BY <1>1, <1>3, <2>4, <2>8, SameQueues
<1> QED  BY <1>4, <1>5

LEMMA DispatchStep ==
  ASSUME IInv, Dispatch
  PROVE  IInv'
<1> DEFINE u == Head(out)
<1>0. /\ handled \in Seq(Updates) /\ out \in Seq(Updates) /\ hand \in Seq(Updates)
      /\ raw \in Seq(Updates) /\ times \in [Updates -> Nat] /\ crashes \in Nat
  BY DEF IInv, Types
<1>1. /\ out # <<>> /\ out' = Tail(out) /\ handled' = Append(handled, u)
      /\ times' = [times EXCEPT ![u] = @ + 1]
      /\ UNCHANGED <<arrived, confirmed, pc, offset, batch, hand, raw, base, dropped, crashes>>
  BY DEF Dispatch
<1>2. u \in Updates /\ out' \in Seq(Updates) /\ u \in ToSet(out)
  BY <1>0, <1>1, HeadFirst
<1>3. Append(handled, u) \o Tail(out) = handled \o out
  BY <1>0, <1>1, MoveHead
<1> HIDE DEF u
<1>4. handled' \in Seq(Updates) /\ ToSet(handled') = ToSet(handled) \cup {u}
  BY <1>0, <1>1, <1>2, ToSetAppend, AppendProperties
<1>5. Types'
  <2>1. times' \in [Updates -> Nat]
    BY <1>0, <1>1, <1>2
  <2> QED  BY <1>1, <1>2, <1>4, <2>1, Zenon DEF IInv, Types
<1>6. Reached' = Reached
  BY <1>1 DEF Reached
<1>7. Polled'
  BY <1>1, <1>6 DEF IInv, Polled
<1>8. Delivered' = Delivered
  BY <1>1, <1>3 DEF Delivered, u
<1>9. Queued'
  BY <1>1, <1>6, <1>8 DEF IInv, Queued
(* It was not handled before: it stands behind what was.                   *)
<1>10. u \notin ToSet(handled)
  <2> DEFINE a == handled \o out
             b == a \o hand
  <2>1. Ordered(b \o raw)
    BY DEF IInv, Queued, Delivered
  <2>2. a \in Seq(Updates)
    BY <1>0, ConcatProperties
  <2>3. b \in Seq(Updates)
    <3> HIDE DEF a
    <3> QED  BY <1>0, <2>2, ConcatProperties
  <2>4. Ordered(b)
    <3> HIDE DEF b
    <3> QED  BY <1>0, <2>1, <2>3, UpdatesAreNumbers, OrderedPrefix
  <2>5. Ordered(a)
    <3> HIDE DEF a
    <3> QED  BY <1>0, <2>2, <2>4, UpdatesAreNumbers, OrderedPrefix
  <2>6. \A x \in ToSet(handled), y \in ToSet(out) : x < y
    <3>1. handled \in Seq(Nat) /\ out \in Seq(Nat)
      BY <1>0, UpdatesAreNumbers
    <3> QED  BY <2>5, <3>1, OrderedPrefix
  <2>7. u \in Nat
    BY <1>2, UpdatesAreNumbers
  <2> HIDE DEF a, b
  <2>8. u \in ToSet(handled) => u < u
    BY <1>2, <2>6
  <2> QED  BY <2>7, <2>8
<1>11. Counted'
  <2> SUFFICES ASSUME NEW v \in Updates
               PROVE  /\ times'[v] <= 1 + crashes
                      /\ v \notin ToSet(handled') => times'[v] <= crashes
                      /\ v \in ToSet(handled') => times'[v] > 0
    BY <1>1 DEF Counted
  <2>1. CASE v = u
    BY <1>0, <1>1, <1>2, <1>4, <1>10, <2>1 DEF IInv, Counted
  <2>2. CASE v # u
    BY <1>0, <1>1, <1>2, <1>4, <2>2 DEF IInv, Counted
  <2> QED  BY <2>1, <2>2
<1>12. Settled'
  <2> SUFFICES ASSUME NEW v \in 1 .. base, v \notin Silent \cup dropped
               PROVE  times'[v] > 0
    BY <1>1 DEF Settled
  <2>1. times[v] > 0
    BY DEF IInv, Settled
  <2>2. v \in Updates
    <3>1. /\ base \in Nat /\ confirmed \in Nat /\ arrived \in Nat /\ NumUpdates \in Nat
          /\ Len(batch) \in Nat /\ Reached \in Nat /\ base <= confirmed
          /\ confirmed <= Reached /\ Reached + Len(batch) <= arrived /\ arrived <= NumUpdates
      BY ListenerAssumption DEF IInv, Types, Polled, Reached
    <3> QED  BY <3>1 DEF Updates
  <2> QED  BY <1>0, <1>1, <1>2, <2>1, <2>2
<1> QED  BY <1>5, <1>7, <1>9, <1>11, <1>12 DEF IInv

LEMMA CrashStep ==
  ASSUME IInv, Crash
  PROVE  IInv'
<1>1. /\ crashes' = crashes + 1 /\ pc' = "poll" /\ offset' = 0
      /\ dropped' = dropped \cup {u \in ToSet(InMemory) : u <= confirmed}
      /\ batch' = <<>> /\ raw' = <<>> /\ hand' = <<>> /\ out' = <<>>
      /\ handled' = <<>> /\ base' = confirmed
      /\ UNCHANGED <<arrived, confirmed, times>>
  BY DEF Crash
<1>2. <<>> \in Seq(Updates) /\ Len(<<>>) = 0 /\ DOMAIN <<>> = {}
  OBVIOUS
<1>3. ToSet(<<>>) = {}
  BY ToSetOne
<1>4. /\ base \in Nat /\ confirmed \in Nat /\ arrived \in Nat /\ arrived <= NumUpdates
      /\ Len(batch) \in Nat /\ Reached \in Nat /\ confirmed <= Reached
      /\ Reached + Len(batch) <= arrived /\ crashes \in Nat
      /\ times \in [Updates -> Nat]
  BY DEF IInv, Types, Polled, Reached
<1>5. Types'
  BY <1>1, <1>2, <1>4 DEF Types
<1>6. Reached' = confirmed
  BY <1>1 DEF Reached
<1>7. Polled'
  BY <1>1, <1>2, <1>4, <1>6 DEF Polled
<1>8. ToSet(handled') = {} /\ ToSet(out') = {} /\ ToSet(hand') = {} /\ ToSet(raw') = {}
  BY <1>1, <1>3
<1>9. Delivered' \in Seq(Updates) /\ ToSet(Delivered') = {}
  <2>1. <<>> \o <<>> = <<>>
    BY <1>2, ConcatEmptySeq
  <2>2. Delivered' = ((<<>> \o <<>>) \o <<>>) \o <<>>
    BY <1>1 DEF Delivered
  <2>3. Delivered' = <<>>
    BY <2>1, <2>2
  <2> QED  BY <1>2, <1>3, <2>3
<1>10. Ordered(Delivered')
  BY <1>9 DEF Ordered, ToSet
<1>11. Queued'
  BY <1>1, <1>2, <1>4, <1>6, <1>9, <1>10 DEF Queued, Ordered
<1>12. Counted'
  BY <1>1, <1>4, <1>8 DEF IInv, Counted
<1>13. Settled'
  BY <1>1, Accounted DEF ConfirmedIsAccountedFor, Settled
<1> QED  BY <1>5, <1>7, <1>11, <1>12, <1>13 DEF IInv

LEMMA AlwaysIInv == Spec => []IInv
<1>1. IInv /\ [Next]_vars => IInv'
  BY CalmStep, AnswerStep, PushStep, PumpStep, DispatchStep, CrashStep DEF Next
<1> QED  BY InitIInv, <1>1, PTL DEF Spec

(* Whatever is lost between the loop and the API and however full the      *)
(* channels are, every message is handled once per start of the process    *)
(* at most, and in the order in which the messages came                    *)
(* (StartAdvisorListener, NewTransport, Run).                              *)
THEOREM InOrderOnceAlways == Spec => []InOrderOnce
<1>1. IInv => InOrderOnce
  BY DEF IInv, Queued, Ordered, Counted, InOrderOnce
<1> QED  BY AlwaysIInv, <1>1, PTL

(* What the loop's offset has told the API to forget was handled, is on    *)
(* its way in memory, or was there at a crash (StartAdvisorListener).      *)
THEOREM ConfirmedIsAccountedForAlways == Spec => []ConfirmedIsAccountedFor
<1> QED  BY AlwaysIInv, Accounted, PTL

=============================================================================
