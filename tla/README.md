# Formal verification of the Telegram trading advisor

TLA+ modules that model the concurrent core of this repository and its market
reading, TLC
configurations that check them on small instances, and proofs, checked by TLAPS,
that the most important properties hold for every value of the constants. Paths
are relative to the root of the repository; `biz/` is `modules/advisor/biz/`.

## 1. The system

The process long-polls Telegram, handles each message in a goroutine, asks an LLM
with a digest of market data, edits one bubble while the answer streams, and
pushes warnings before economic events.

```
Bot API -> listener -> pump -> ChatHandler.Run -> goroutine per message
                                  |   |   |            |
                         SessionStore |  Analyzer    LLM stream -> ProgressiveMessage -> Bot API
                              |       |     |
                              |   DecisionStore
                              |             |
                        AlertWorker <- Calendar <- feed
                                          |
            candles -> digest, verdict <- Gate
```

| Component | State | Operations | Interacts by | What is hard |
| --- | --- | --- | --- | --- |
| `telegram/listener.go`, `transport/telegram/transport.go` | offset, backoff, two channels | poll, push, pump | channels | confirmation before handling, crashes, full channels |
| `biz/chat_handler.go` | locals of one goroutine per message | commands, greet, load, enrich, stream, save, store turns | calls on the store, the LLM, the bubble | handlers of one chat interleave; a shared 90 s deadline; broken streams |
| `storage/memory/session_store.go` | per chat: turns, pinned symbol, welcome, activity, opt-out, four deadlines | nine methods under one mutex | called by handlers and the alert worker | expiries, trimming in the middle of a pair |
| `telegram/stream_editor.go` | buffer, last sent text, message ID, throttle | Start, Append, Finish, ReplaceWith | HTTP requests | failed and unacknowledged requests |
| `biz/market/news/calendar.go` | events, fetch time, failures, single-flight flag | reads, refresh, poller | called by gate and alert worker, calls the feed | who refreshes when, outages, slow fetches |
| `biz/market/news/alert_worker.go` | dedupe table | scan, collect | reads calendar and store, pushes | overrun ticks, lost answers, restarts |
| `biz/market/news/gate.go`, `feed.go` | none | classify, choose the event to show; decode | read the calendar, feed the digest | boundaries of windows, several events at once |
| `biz/market/*.go` | none; the market moves under it | pivots, structure, patterns, regime verdict, nearest levels, digest | candles from the fetcher, digest to the prompt | a forming bar, a sliding window, twin rules written by hand, precedence of cases |
| `biz/decision_parser.go` | none | extract, validate, normalise, size, render | calls | numeric edges, stops on the wrong side |
| `biz/scan_worker.go` (not wired), `biz/user_filter.go` | ticker, allowlist | scan, broadcast | analyzer, LLM, store, transport | alignment, ticks that come late, partial failure |
| `agent_decision/`, `main.go` | rows, the pruner's ticker | save, purge weekly in batches | calls | a purge that breaks off, restarts |
| `provider/*` | a goroutine and two channels per call | stream | channels, context | the error against the end of the chunks, cancellation while blocked |
| `cmd/backtest/` | cache files | sample, fetch the past, ask, walk | sequential; the stream of a provider | look-ahead, half replies, kills and interrupts |

What makes them correct is stated property by property in section 4; the hazards
are listed with their lines in `PROJECT.json`.

## 2. Modules

`Follower` is the abstract specification two components implement: a copy that
only ever takes over values its source has had, and never goes back.

* **`SessionStore`** is the store under any client. `now` is `time.Now()`,
  `chats[c]` is the `chatState` of chat c with all seven fields. A method is one
  action because it holds the mutex from end to end; a chat absent from the Go
  map acts in every method like the zero state. `Turns` is a parameter: the
  store looks at the role only.
* **`ChatHandler`** extends it. `handlers[m]` holds the locals of the goroutine of
  message m and a program counter that names the next step that touches shared
  state or waits for the network. `Receive` is `Run` with the filter; `Start`,
  `StartMark`, `Reset`, `Alerts`, `Other` are the commands; `MaybeGreet`,
  `LoadHistory`, `ReadHint`, `Enrich`, `Chunk`, `EndStream`, `RecordDecision`,
  `ShowCard`, `PersistUser`, `PersistReply` are the message path in the order of
  `handleMessage`. `persistTurns` is two steps since it calls the store twice.
  A text is one of six classes, told apart by what the handler does with it.
  `welcomes` and `spokeAt` are history variables.
* **`Calendar`** has the cache (`cached` is the snapshot, `fetchedAt`,
  `consecutiveFailures`), the flag `refreshing` and a program counter for each
  goroutine that runs `Refresh`: the poller, and the ones readers start. A reader
  never waits (`Read`). The worker's scans are the reader `Scanner`, which reads
  at least once per unit of time.
* **`AlertWorker`**: `todo` is what the running scan has left to send, fixed with its
  clock, its events and its subscribers when it begins, as in `scan`.
  `ticked` is the ticker's channel, which holds one tick. The calendar and the
  subscriptions are external to it and change at any time.
* **`Gate`** is the news window of a moment: `EventsAround`, `classify`, `better`, `WindowAt`.
  `AlertWorker` extends it, so that the two readers of the calendar, one that
  warns chats and one that tells the model what to advise, are checked together.
* **`ProgressiveMessage`**: a text is the number of the rendering and whether
  `TrimSpace` changes it; `call` is the request in flight; Telegram carries it
  out, refuses it, or carries it out while the client sees an error. The driver
  is `handleMessage`, which is sequential: one call at a time.
* **`Listener`**: the polling loop, both channels, the pump and `Run`, with the Bot
  API as a numbered sequence of updates and a confirming offset.

* **`MarketDigest`** composes the market reading. The program keeps nothing between two
  digests; the state is the market's. `bars` is the exchange's history of one
  timeframe, its last bar forming; `reading` holds the indicators that need more
  bars than are explored (ATR, bands, Donchian channel, round numbers), which may
  be anything in `Readings`; `summary` is each bias timeframe's regime. `Tick` moves
  the forming bar, `CloseBar` closes it and opens the next, `Reclassify` changes a
  regime. `digest` and `verdict` are what the code would answer now: `Build` and
  `ComputeRegimeVerdict`. Its parts are modules of operators, one per file:
  `Pivots` (with the swing levels of `indicators.go`), `Structure`, `Patterns`,
  `Regime`, and `Outcome`, the backtest's walkers over the same candles. Prices are
  integers, 0 is an absent level, and the ATR fractions are compared after
  multiplying both sides. A loop that keeps its first best hit is a choice from the
  set of hits by the same preference. Bullish and bearish rules are written
  out apart, as in the code, since `Mirrored` is about their agreement.

* **`LLMStream`** is one call of a provider: its goroutine (`Request`, `ReadDelta`, `Send`,
  `ReportError`, the deferred `CloseErrs` and `CloseChunks`), the two channels with
  their capacities, and the reader all callers are: range over the chunks, then
  receive from the error channel. The two providers differ in what a line of the
  response looks like only. `SendCancelled` is the second case of the `select`.
* **`Replay`** is what the backtest is given to see, as operators over minutes: a candle is
  the stretch of the market it covers, so that looking ahead is a comparison of
  numbers. The repository says both that an `endTime` bounds the close of a candle and that
  the one that opens then may come along; `rule` is which, and every property is
  stated for both.
* **`Backtest`** composes the two: the loop of `main`, `runOneSample`, `llmRunner.Run` and the
  file cache, run after run over one directory. Interrupts cancel the context and let the loop go
  on, as in the code; a kill leaves the files only. `paid` and `excused` are history.
* **`Decision`** has the operators of `decision_parser.go`, over integer prices and exact
  fractions. **`DecisionStore`** is Firestore's collection and the weekly pruner, one action per
  row of the query, with the batch and its commits.
* **`ScanWorker`** extends both with `Run`, `runOnce`, the ticker's channel and the deadline of
  the call that is out. Time passes only while a call is out or nothing is to be
  done. The chat handlers appear as `ChatSave`.

`MC*` modules give constants their values. Operators marked *Seeded fault* are
mutations of one definition each; every checked property is shown to fail under
one of them, which is how we know it can.

## 3. Bounds

Times are in small units with the order and the gaps of the real constants kept
where they matter. All bounds are constants of the modules or named in them.

* chat: three messages; either two of them over a stretch of time in which every lifetime
  passes, or three that race near its end. A history cap of 3 turns rather than
  12, so that two pairs overflow it by one and cut a pair in half. Replies are blank,
  echoed data that is stripped to nothing, or carry a decision: the three ways a
  handler ends. The clock runs past the largest of the expiries.
* calendar: `RefreshTTL` 5, `HotRefreshTTL` 2, `HotWindow` 5, so that the steady interval
  outlasts the hot one and the doubled hot one, and the uncapped
  backoff would outlast the run; three snapshots, one of which moves an event. The unit is at
  most half of `HotRefreshTTL` (`CalendarAssumption`): in one as long as it, the rounding alone
  would let two readers that race for the flag miss the bound of `RunUpFresh`.
  `consecutiveFailures` saturates at 4, from where the code acts alike.
* alerts: two chats; an event, its postponed successor, a third that is half an hour
  away while the blackout of the first still lasts, and one of medium impact.
  The unit is seven and a half minutes: tiers and windows keep the code's
  proportions (15, 30, 30, 60 minutes are 2, 4, 4, 8), lookahead 5. One fault and
  one change of calendar or subscriptions; scans may overrun one tick. The
  proofs remove these bounds.
* digest: seven bar shapes (a strong bar, a hammer and a bar that leaves a gap, each with its
  mirror image, and a wide bar), four histories that put a swing or a gap in reach, and up to four
  bars closed after them, so that a level is formed, broken, retested and lost again.
  A pivot is confirmed by one bar on each side instead of three, windows are
  3 and 4 bars instead of 5 to 60, and the fetch holds 7, so that bars leave
  every window. Regimes are explored before the second bar opens: bars
  and regimes are independent, and `OneAtATime` explores them along their own axes.
  All of `Summaries` is reached, for all three timeframes. The third trade has its stop on the
  wrong side of the entry, which the parser lets through. The wide bar is a high and a low at once; wide bars are
  explored after one in the history and for one bar less, which is enough for a list of three pivots to be full
  and whole, and to be cut in such a bar, each with breaks.
* backtest: two runs over one cache, two models, two samples that fall on one time or two
  as the clock moves on; answers of none, one or two deltas through a chunk
  channel of capacity one, so that a sender blocks; one refusal of the disk. The
  candle budget is 2 instead of 200, the walk 4 bars instead of 240.
* scan: an M5 bar is five units, every call may take one; two subscribers, three rows,
  batches of two, one purge that fails and one kill, over four bars. `OneAtATime`
  explores the ages of rows and failing purges where nobody is scanned for:
  the pruner and the scans share nothing but the rows.
* bubble: five renderings, three bubbles. The proofs remove this bound.
* listener: channels of capacity 1, answers of two updates, five updates one of
  which has no message, one crash. Capacity 1 blocks the loop inside an answer.

## 4. Runs

| Run | Shows |
| --- | --- |
| `chat` | Interleaved handlers: `HistoryWellFormed` (a remembered question keeps its answer, no turn twice or in another chat), `HistoryIsOneConversation` (what the LLM is given spans no idle gap beyond the expiry and two budgets), `SilenceLeavesNoTrace` (a stream that delivered nothing but white space leaves no turn, however it ended; at most one decision row, and of a reply that carries one only. What a stream said before it broke off is kept, as the code means it), `ResetHolds`, `OptOutHolds`, `WelcomesApart`, `SubscribersSpoke`, `FollowUpKeepsSymbol`, and, with fairness, `EveryMessageHandled` |
| `calendar` | `SingleFlight`, `PollNeverSilent`, `RunUpFresh`, and `NeverGoesBack`: the calendar implements `Follower` |
| `bubble` | `OneBubble`, `LastTextShown`, and `ReplyNeverGoesBack`: the bubble implements `Follower` |
| `alerts` | `PushedOnce`, `NobodyIsMissed`, `SentBounded`, `WarningsTighten`, and `WarnedMeansPaused` (what a warning promises about recommendations, the gate keeps) |
| `listener` | `InOrderOnce` (each message once and in order, again only after a restart), `ConfirmedIsAccountedFor`, and, with fairness, `EveryUpdateHandled` |
| `digest` | `NeverRepaints` and `StructureNeverRegresses` (a later digest does not take back what an earlier one said of closed bars), `SwingsAgree` (after each bar the two rules for a swing confirm the same newest pivots), `Mirrored` (a market turned upside down is read as the market is, also where pivot lists are full and where a bar is a high and a low at once; two exceptions, section 6), `VerdictIsFinal` (the backtest; that a win cost less than the risk is said of stops on the losing side of the entry only, since no one checks that), `NeverAgainstTheBias` |
| `backtest` | `StreamContract` (the two channels lose, double and reorder nothing, and an error reaches the reader after all that came before it), `CacheStandsIn` (a file answers its own prompt only, and a whole reply is paid for once unless the disk or a kill is to blame), `NoHindsight` (no closed candle shown ends after the sample, no candle judged by begins before it), and, with fairness, `RunEnds` |
| `scan` | `EveryBarScannedOnce` (fires do not drift over a bar, nor does a restart repeat one), `EachCardOnce`, `CardRiskIsTheBudget`, `RetentionHolds` (the pruner deletes nothing young and leaves nothing old, wherever a purge broke off) |
| `bubble_finish`, `digest_rangeage`, `backtest_cut`, `backtest_parity` | Four statements of comments that the code does not keep; see section 7 |

Deadlock is checked where the system never stops (calendar, listener). The reply
of `ProgressiveMessage` ends, the messages of `ChatHandler` are finitely many, and
the clocks of `AlertWorker` and `ScanWorker`, the bars of `MarketDigest` and the runs of `Backtest`
are bounded, so these runs do without.

**Fairness.** `ChatHandler`: a goroutine that can step does; a network call need not
return before its context is done, but returns then, since every call takes the
context; the clock goes on. `Listener`: its goroutines step when they can, and a
poll that is tried for ever succeeds in the end (strong fairness of `Poll` and
`Answer`); nothing else about the network. `Backtest`: the loop and the provider's goroutine
step when they can; a read of the vendor returns within the 120 s of its HTTP client, so the stream
is fair; the client of the exchange has no timeout (`binance_repository_impl.go:26`), so a fetch is
sure to return only once the run is interrupted, and `RunEnds` promises no more. The other modules are checked for safety.

## 5. Proofs

TLAPS checks the following for all values of the constants that the named assumptions allow. Every safety
invariant and every action property the passing runs check is proved. `Calendar`,
`AlertWorker`, `ProgressiveMessage`, `Listener`, `Backtest` and `ScanWorker` have their types as a part of
their inductive invariants and no run of their own for them.

* `ChatHandlerProofs`. `StoreTypes`: the store under any client; the cap of the history rests on
  `LastTurnsKeepsTail`. Then the handlers, for any number of messages, side by side in any order. A step is one call
  of the store at most (`StepCallsStore`) and changes its own locals and its own chat only (`StepLocals`, `StepChat`), which
  is what the other handlers of the chat rely on. `Timely` (types; a running handler is within its deadline, and
  each lifetime in the store ends that long after something that happened) carries the rest. `HistoryWellFormed`
  needs `WellFormed`, which says of each program counter which of the two turns is out already, so that
  whatever is dropped from the front is dropped oldest first. `HistoryIsOneConversation` needs the
  date of death of a history that a handler has loaded and not yet appended to. `ResetHolds`, `OptOutHolds` and
  `FollowUpKeepsSymbol` need `Alone` (a message that came alone finds the earlier ones of its chat done) and `Routed` (which
  steps a kind of message can reach); `Pinned` holds the pin from `Enrich` to the follow-up.
* `CalendarProofs`: `SingleFlightAlways`, `CacheFollowsFeed`, `PollNeverSilentAlways`, `RunUpFreshAlways`. The
  inductive invariant of the first two says that the flag is set exactly
  while one refresher is between its compare-and-swap and its release, and
  that what that refresher holds lies between the cache and the feed; without the
  second part a slow fetch could carry anything. For the third, the poller's
  timer, the last attempt and the lateness of running refreshes bound each other. For the fourth, `RunUp`
  tells the time before the window, which the poller sleeps through, from the time in it, when the
  worker's scan has to lose the flag to someone who brings what it wanted.
* `AlertWorkerProofs`: `PushedOnceAlways` relates pushes to the table and the clock: a key
  that is pushed and not excused is in the table, and can only be collected once
  its event is over, since `SentTTL` is at least every tier
  (`AlertAssumption`). `WarningsOnlyTighten` needs that the sends of
  a running scan carry the tier picked at its start. `WarnedMeansPausedAlways` takes
  from the same invariant that whatever was pushed lies within its tier, and from
  `SeverestShown` that the gate's choice is as severe as any event asks for,
  which needs that its comparison has a greatest candidate. `SentBoundedAlways` needs `Paced`: a tick waits, or a scan
  runs, or the last one began less than a tick ago. `NobodyIsMissedAlways` needs `Covered`: whatever entered its tightest tier before the last
  scan began is pushed, failed, or still to be sent. It assumes `ScansFitTiers`, that a scan is
  shorter than the tightest tier: a send gives up after 5 s and that tier is 5 minutes, so there may be 59
  sends that all time out.
* `ListenerProofs`: `InOrderOnceAlways`, `ConfirmedIsAccountedForAlways`. What is handled, in either channel, in the hand of
  the pump and left of the answer is one increasing sequence from the base of the process to the offset (`Queued`), and the
  API has confirmed no more than that (`Polled`); a crash empties the middle into `dropped` (`Settled`).
* `BacktestProofs`: `StreamContractAlways` for replies of any length and channels of any capacity, of which that for errors
  may be 0: what the reader has and what is buffered are together the deltas sent (`InOrder`),
  and why a provider has stopped tells which are missing (`NothingLost`). `CacheStandsInAlways`: every reply paid for
  is on the disk, on its way there, or excused (`Accounted`). `NoHindsightAlways`, from the arithmetic of bars and samples
  (`SampleLeavesWalk`, `ShownEndInTime`, `WalkFollowsSample`) and under either rule of the exchange.
* `ScanWorkerProofs`: `RetentionAlways` (what a purge holds is old, and is everything old: `Retained`), `EachCardOnceAlways`
  (who has been tried is told by where the scan is: `Carded`), `CardRiskAlways` (in exact fractions, for any contract), `EveryBarAlways`: a scan is over before its budget is
  spent, `ScanAssumption` lets the budget fit between two ticks, so the ticker always finds the worker idle and keeps
  the phase of its start (`Scanned`).
* `MarketDigestProofs`: `VerdictFollowsBias` and `M15NeverOverrides` over every
  triple of regimes, and `ModeFollowsBias`, which carries them to every behaviour. The
  argument goes from a vote to the regimes it can come from (`VoteDirection`), and
  from a mode to the votes it can come from (`ModeFromVotes`). `SwingsAlwaysAgree`, for any number of bars on each side,
  window and limit: after each bar the newest pivot of a kind is that of the newest bar that confirms one
  (`NewestAfterABar`), which `SwingHighLow` finds as a maximum; `DigestCurrent` carries it to every
  behaviour. `OutcomeIsFinal`: the walk over more bars ends where it ended, or goes on from there (`OneMore`). The
  recursion of `FlattenSeq`, and every search for a least or greatest element, is by a least
  counterexample (`HasLeast`), since the induction theorems of the library cannot be instantiated.
  `DigestsNeverRepaint`, `StructureIsKept` and `TypesHold` rest on `History` (the bars are in time order, one per unit, and their
  prices in order), so that the time of a bar says where two digests have it: in the same place, or one further
  down when the window slides (`Continues`, `SeenContinues`). From there one lemma per detector: a pivot needs its neighbours, which
  both digests see if both show it (`ConfirmedAlike`), and its label the newest pivot of its kind before it, which is
  told by bars alone (`LabelAt`) and can only be lost (`PivotKept`); a pattern lies at most `PatternLookback` bars back, so the three bars it
  is read off are still fetched (`PatternKept`, from `FetchLimit > PatternLookback + 2`); the state of a retest and of a gap is a question
  about all bars since, which more bars and a wider tolerance can only answer with yes (`RetestKept`, `GapKept`); an age is counted from a bar inside
  the window (`AgeInWindow`). They assume of the constants that shapes have their prices in order
  (`DigestConstants`) and that readings are natural numbers (`ReadingConstants`).

  `ReadAlike` is the proof of `Mirrored`, for any bars with prices below `MirrorPrice` (`MirrorConstants`). The two series
  are related by `Reflects`: the prices of a bar and of its image add up to `MirrorPrice`. The relation is symmetric, so
  what a detector finds in one series need be shown to be found in the other in one direction only. Each detector is first put as one
  expression over named parts (`BreakDetected`, `GapDetected`, `RangeDetected`, `TwoOf`, ...), then its parts are
  compared. A pivot list is everything confirmed from some bar on (`Listing`), but for the limit,
  which may leave the low alone of a bar that has both (`CutInABar`, `StartsAt`). The lists of a market and of its image
  have one length and so begin at one bar: if one began earlier, it would hold an image of each pivot of the other and
  one more (`NoEarlier`, from `FewerImages`). Hence both are cut in that bar or neither is (`CutFacing`), and without a cut pivot
  they hold images of each other (`AlikeListings`). For breaks and failed breakouts, every candidate has its image among the candidates of the other series, at the same bar
  (`BrokenPaired`, `FailedPaired`), and no two pivots of one bar compete at one bar (`BrokenApart`, `FailedApart`), so that the
  freshest is the same in both (`SameChoice`) although the tie-break is by position in a list which orders the two
  pivots of a bar the other way. For candle patterns, a list of rules returns the first that holds, so the
  bearish copy of a rule must neither be shadowed by, nor shadow, a rule its bullish copy does not (`SingleTwin`,
  `TwoFacing`, `ThreeFacing`). For the trend, the closes and their images have slopes that add up to 0, from their partial
  sums (`SumsFacing`). For a trade, a bar stops and fills it as its image does the mirrored trade (`BarOutcome`).
  `DigestsFacing` puts the parts together for one digest, and `History` carries it to every behaviour.
* `ProgressiveMessageProofs`: `OneBubbleAlways`, `LastTextShownAlways`, `ReplyFollows`. The invariant
  relates what is on the screen, what is in flight and what `lastSent` claims;
  `lastSent` is believed only if no request with that text failed.

Two properties and an assumption were corrected on the way. `FollowUpKeepsSymbol` did not hold of three
questions that overtake each other, more than the run `chat` races (the pin the follow-up finds is that of whichever was enriched
last; the property now asks that the message before it came alone too); `VerdictIsFinal` did not hold of a winning trade with its stop on the
wrong side (now the third trade of `digest`); and `RunUpFresh` needs a unit shorter than
`HotRefreshTTL`.

Only model-checked: the liveness properties `EveryMessageHandled`, `EveryUpdateHandled` and `RunEnds`, since TLAPS has no
rule for fairness here. What each theorem says is said of the models and their constants; that the runs' constants satisfy the
assumptions is evaluated by TLC on every run.

## 6. Not modelled

HTTP, JSON, XML and SSE decoding; formatting and prompts; floating-point
indicators, and with them the rounding at a boundary; volumes and ratios, which
the digest prints and never compares; configuration; the health server. `Mirrored` makes two exceptions,
since the code does. A flat bar counts as bearish, so names of patterns are compared only while no bar is
flat. And of a bar that is both a high and a low, the high is listed first: when the limit falls between the
two, the list keeps the low, and in the mirrored market the high. Then, and only then, that one pivot is left out of the
comparison, and so are the break and the failed breakout, which may be of its level; the rest of the list is compared,
full or not. Also left out: the decoding of the feed and the choice of relevant events, the indicators' scalars of
`enrichment.go` and the text of the digest, the matching of words to symbols, the statistics of
the backtest's report, and which provider is configured. The typing indicator has no effect on
other state. Of two chats only the store's mutex is shared, so the races are those of one chat.

## 7. Where the code and its comments disagree

* `telegram/stream_editor.go:110`: Finish forces a final flush. Not after a failed edit
  of the same text (`bubble_finish`).
* `biz/market/pivots.go:180`: a short age of a range means a fresh consolidation. The age is
  measured against boundaries that contain every bar of the window, so it is
  always the whole window (`digest_rangeage`), and the rules of
  `biz/prompt_builder.go:58` and `:118` that ask for an age above 15 always apply.
* `cmd/backtest/llm.go:36`: Run caches the full reply text. A stream that is cancelled while the provider
  waits to hand over a delta ends without an error, and what had come is cached as the reply, for
  every later run with that prompt (`backtest_cut`).
* `cmd/backtest/main.go:7`: samples build the same digest production sees. `Build` drops the last
  candle as forming, but in the past it is final: its close, which becomes the current
  price, lies up to five minutes after the sample, or a closed candle is missing, depending on what the exchange makes of
  `endTime` (`backtest_parity`). Besides, `runOneSample` asks for M1, M5, H1 and H4 only, and production has M15 and
  D1 too.

Seen while modelling and not given a run, the weightier first. `chat_handler.go:225` persists the turn pair only for a
non-empty assistant reply, but the test is made before the echoed market data is stripped (lines 227 and 239): a reply of
nothing else is remembered as an empty turn (`ReplyBody` in `ChatHandler`) and sent to the LLM with the next question. A decision block that does not validate is kept in the
history (`biz/decision_parser.go:121` says JSON is not). During an outage every reader of a cold or stale calendar starts
another fetch, since only the poller is slowed (`calendar.go:285` promises no tight retry loop); no property covers their spacing, since
`SingleFlight` only keeps them one at a time. A push whose answer is lost is repeated at the
next tick (`README.md:120`: it cannot double-push); `PushedOnce` counts such repetitions. The cache makes
re-runs of the backtest cost nothing (`README.md:99`) only if they fall on the same five-minute slots, since
the samples move with the clock. The walk forward leaves out the minute after the sample and returns up to five bars more than
asked (`historical.go:51`). `break` in `main.go:93` leaves the `select` and not the loop: an interrupted run goes through all remaining
samples, failing each. `PurgeOlderThan` returns rows it counted before their commit failed (`store.go:89`). `scan_worker.go:121` says a
missed tick is dropped: the ticker's channel keeps one; scans after the first are a whole interval after the end of the
first, not on the boundary (line 119). A symbol of spaces passes `valid`. The saved row of a scan has
the LLM's lot while its card shows the resized one. `APICallsMade` leaves out calls whose sample failed later. A stop on the wrong side of the entry is shown as a gain.
Further, `telegram/listener.go:15` speaks of linear
backoff, the code doubles; `telegram/stream_editor.go:87` says Append may be called from
any goroutine, but the mutex is released around requests and two concurrent
first calls would send two bubbles (the program has one caller); README line 21
gives the sessions seven days, the store 30 minutes; `/start` can be followed by a
second, automatic welcome; the pin of a follow-up sent during the fetch is the
older one, and of questions handled side by side the one enriched last leaves its pin. `biz/market/digest.go:96` says that the age of a range is set only
inside one; it is set whenever there are boundaries. `biz/market/digest.go:397` wants the gaps of
H4, which the loop has skipped before. A break is reported as being retested by the
breaking bar itself and as pending one bar later; a failed breakout may be older
than the pivot it is measured against. A pivot list that its limit cuts in a bar that is both a high and a low
keeps the low only (`pivots.go:37`, `:82`), so a break or a failed breakout of that bar's high is missed and one of its low is not.

## 8. Plan

Done, in this order: store and handlers, calendar, alert worker, bubble, listener, market digest, news
gate, provider streams, backtest, decisions and their stores, scan worker; and the proofs of section 5. Next:
the feed's choice of relevant events, and the scalars of `enrichment.go` where they hold boundaries.
