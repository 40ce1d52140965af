----------------------------- MODULE Structure ------------------------------
(***************************************************************************)
(* Breaks of structure, failed breakouts and fair value gaps:              *)
(* modules/advisor/biz/market/structure.go.  Each detector returns the     *)
(* event it reports to the model, or a record whose direction is "".       *)
(* The loops of the code run from the newest pivot or bar to the oldest    *)
(* and keep the first best answer; here the answer is chosen from the set  *)
(* of candidates by the same preference.  Volumes are left out.            *)
(***************************************************************************)
EXTENDS Pivots

(* Bar j closed beyond the pivot, and back on its original side. *)
ClosedThrough(closed, p, j) ==
    IF p.type = "SH" THEN closed[j].close > p.price ELSE closed[j].close < p.price

ClosedBack(closed, p, j) ==
    IF p.type = "SH" THEN closed[j].close < p.price ELSE closed[j].close > p.price

(* Seeded fault: one bar too many. *)
WindowStartEarly(closed, maxAge) == Max({1, Len(closed) - maxAge})

(* First index of the last maxAge bars. *)
WindowStart(closed, maxAge) == Max({1, Len(closed) - maxAge + 1})

(* Of the pivots in the domain of `at`, which maps each to the bar of its  *)
(* event, the one whose event is youngest; of two events on the same bar,  *)
(* the one of the later pivot in the list.                                 *)
Freshest(at) ==
    CHOOSE k \in DOMAIN at : \A m \in DOMAIN at : \/ at[m] < at[k]
                                                  \/ at[m] = at[k] /\ m <= k
-----------------------------------------------------------------------------
NoBOS == [direction |-> "", level |-> 0, age |-> 0, state |-> ""]

(* Seeded fault: from below, the level has to be reached exactly. *)
TouchesFromAboveOnly(closed, p, j, atr) ==
    IF p.type = "SH" THEN WithinTolerance(closed[j].low - p.price, atr)
                     ELSE closed[j].high >= p.price

(* The wick of bar j came within the tolerance of the broken level. *)
Touches(closed, p, j, atr) ==
    IF p.type = "SH" THEN WithinTolerance(closed[j].low - p.price, atr)
                     ELSE WithinTolerance(p.price - closed[j].high, atr)

(* Seeded fault: a retest is judged by the newest bar alone. *)
RetestStateNow(closed, p, b, atr) ==
    IF Touches(closed, p, Len(closed), atr)
      THEN IF ClosedThrough(closed, p, Len(closed)) THEN "confirmed" ELSE "retesting"
      ELSE "pending"

(* What happened since the break at index b.  The newest bar counts as a   *)
(* retest even when it is the breaking bar itself.                         *)
RetestState(closed, p, b, atr) ==
    LET n       == Len(closed)
        touched == {j \in (b + 1)..n : Touches(closed, p, j, atr)}
    IN  IF \E t \in touched : \E j \in t..n : ClosedThrough(closed, p, j)
          THEN "confirmed"
        ELSE IF touched # {} \/ Touches(closed, p, n, atr) THEN "retesting"
        ELSE "pending"

DetectBOSRetest(closed, pivots, atr, maxAge) ==
    LET n          == Len(closed)
        origin(k)  == CHOOSE i \in 1..n : closed[i].time = pivots[k].time
        breaks(k)  == {j \in (origin(k) + 1)..n : ClosedThrough(closed, pivots[k], j)}
        breakIdx(k) == Min(breaks(k))
        found      == {k \in DOMAIN pivots :
                          /\ breaks(k) # {}
                          /\ breakIdx(k) >= WindowStart(closed, maxAge)}
        best       == Freshest([k \in found |-> breakIdx(k)])
    IN  IF atr <= 0 \/ n < 3 \/ found = {} THEN NoBOS
        ELSE [direction |-> IF pivots[best].type = "SL" THEN "down" ELSE "up",
              level     |-> pivots[best].price,
              age       |-> n - breakIdx(best),
              state     |-> RetestState(closed, pivots[best], breakIdx(best), atr)]
-----------------------------------------------------------------------------
NoFailure == [direction |-> "", level |-> 0, age |-> 0]

(* The first close through the level inside the window, whatever the age   *)
(* of the pivot, then the first close back.                                *)
DetectFailedBreakout(closed, pivots, maxAge) ==
    LET n         == Len(closed)
        breaks(k) == {j \in WindowStart(closed, maxAge)..n :
                          ClosedThrough(closed, pivots[k], j)}
        backs(k)  == {j \in (Min(breaks(k)) + 1)..n : ClosedBack(closed, pivots[k], j)}
        failIdx(k) == Min(backs(k))
        found     == {k \in DOMAIN pivots : breaks(k) # {} /\ backs(k) # {}}
        best      == Freshest([k \in found |-> failIdx(k)])
    IN  IF n < 3 \/ found = {} THEN NoFailure
        ELSE [direction |-> IF pivots[best].type = "SH" THEN "failed_up" ELSE "failed_down",
              level     |-> pivots[best].price,
              age       |-> n - failIdx(best)]
-----------------------------------------------------------------------------
NoGap == [direction |-> "", top |-> 0, bottom |-> 0, age |-> 0, state |-> ""]

BullGap(closed, i) == closed[i].low > closed[i - 2].high
BearGap(closed, i) == closed[i].high < closed[i - 2].low

(* The gap that bar i completed, as it stands at the end of the series.    *)
GapAt(closed, i) ==
    LET n    == Len(closed)
        bull == BullGap(closed, i)
        top  == IF bull THEN closed[i].low ELSE closed[i - 2].low
        bot  == IF bull THEN closed[i - 2].high ELSE closed[i].high
        inside(j) == IF bull THEN closed[j].low < top /\ closed[j].low > bot
                             ELSE closed[j].high > bot /\ closed[j].high < top
    IN  [direction |-> IF bull THEN "bull" ELSE "bear",
         top       |-> top,
         bottom    |-> bot,
         age       |-> n - i,
         state     |-> IF \E j \in (i + 1)..n : inside(j) THEN "filling" ELSE "open"]

(* A later bar crossed the whole gap of bar i. *)
GapFilled(closed, i) ==
    \E j \in (i + 1)..Len(closed) :
        IF BullGap(closed, i) THEN closed[j].low <= closed[i - 2].high
                              ELSE closed[j].high >= closed[i - 2].low

(* The freshest gap being filled; failing that, the freshest open one. *)
DetectRecentFVG(closed, maxAge) ==
    LET n       == Len(closed)
        gaps    == {i \in Max({3, WindowStart(closed, maxAge)})..n :
                        /\ BullGap(closed, i) \/ BearGap(closed, i)
                        /\ ~GapFilled(closed, i)}
        filling == {i \in gaps : GapAt(closed, i).state = "filling"}
    IN  IF n < 3 \/ maxAge < 3 \/ gaps = {} THEN NoGap
        ELSE GapAt(closed, Max(IF filling # {} THEN filling ELSE gaps))
=============================================================================
