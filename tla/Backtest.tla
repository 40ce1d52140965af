------------------------------ MODULE Backtest -------------------------------
(***************************************************************************)
(* cmd/backtest: the loop over the samples, the response cache and the     *)
(* call of the LLM, run after run over one cache directory.  A run may be  *)
(* interrupted (Ctrl-C cancels the context and lets the loop go on) or     *)
(* killed at any step; the files are all that is left then.                *)
(*                                                                         *)
(* What a sample asks is identified by its time, which its digest carries. *)
(* External: the exchange, the disk and the vendor, whose answers have     *)
(* some number of deltas; an answer of TradeLength deltas ends with a      *)
(* decision block in the last one.                                         *)
(***************************************************************************)
EXTENDS Replay, LLMStream, FiniteSets

CONSTANTS
  Models,         (* model names; the name is part of the key of an answer *)
  AnswerLengths,  (* bounds the deltas of an answer                        *)
  TradeLength,
  Nows,           (* when runs may begin                                   *)
  MaxRuns,        (* bounds the runs explored                              *)
  MaxFaults       (* bounds the reads and writes the disk refuses          *)

ASSUME BacktestAssumption ==
  /\ AnswerLengths \subseteq Nat /\ Nows \subseteq Nat
  /\ MaxRuns \in Nat /\ MaxFaults \in Nat

VARIABLES
  run,       (* how many runs have begun                                   *)
  now,       (* when the running one began                                 *)
  model,     (* llm.Name(), while a run is on                              *)
  times,     (* timestamps                                                 *)
  pc,        (* where the loop is; "off" when no run is                    *)
  index,     (* the sample the loop is at                                  *)
  reply,     (* the reply it has got                                       *)
  files,     (* the cache directory: per key, the file of that name        *)
  faults,    (* history: reads and writes refused so far                   *)
  paid,      (* history: per prompt, whole calls of the vendor            *)
  excused    (* history: per prompt, the answers that could not be kept   *)

runVars  == <<run, now, model, times, index>>
history  == <<faults, paid, excused>>
vars == <<streamVars, runVars, pc, reply, files, history>>

AllTimes == UNION {ToSet(sampleTimestamps(n)) : n \in Nows}
Prompts == Models \X AllTimes
Prompt == <<model, times[index]>>

(* SHA-256 over the model and the turns; no two prompts share a key. *)
keyFor(prompt) == prompt

Absent == [state |-> "absent"]
Torn   == [state |-> "torn"]
Answer(prompt, n, text) ==
  [state |-> "whole", of |-> prompt, length |-> n, text |-> text]
NoReply == [state |-> "none"]
NoModel == "none"
Readable(file) == file.state = "whole"

Init ==
  /\ NoStream /\ ctxDone = FALSE
  /\ run = 0 /\ now = 0 /\ model = NoModel
  /\ times = <<>> /\ index = 0
  /\ pc = "off" /\ reply = NoReply
  /\ files = [k \in Prompts |-> Absent]
  /\ faults = 0
  /\ paid    = [r \in Prompts |-> 0]
  /\ excused = [r \in Prompts |-> 0]

(* The process ends; only files remain. *)
Exit ==
  /\ pc' = "off" /\ reply' = NoReply
  /\ model' = NoModel /\ times' = <<>> /\ index' = 0
  /\ Forget /\ ctxDone' = FALSE
  /\ UNCHANGED <<run, now>>

Excuse == excused' = [excused EXCEPT ![Prompt] = @ + 1]
Fault  == faults < MaxFaults /\ faults' = faults + 1

-----------------------------------------------------------------------------
(* main: flags, the configured provider and the samples.                   *)
Begin ==
  /\ pc = "off" /\ run < MaxRuns
  /\ run' = run + 1
  /\ now' \in {n \in Nows : n >= now}
  /\ model' \in Models
  /\ times' = sampleTimestamps(now')
  /\ index' = 1
  /\ pc' = "sample"
  /\ Forget /\ ctxDone' = FALSE
  /\ UNCHANGED <<reply, files, history>>

(* The loop has recorded the result of a sample, whatever it was.  The     *)
(* `break` of an interrupt leaves the select and not the loop.             *)
NextSample ==
  /\ reply' = NoReply
  /\ IF index < Len(times)
     THEN index' = index + 1 /\ pc' = "sample"
     ELSE index' = index /\ pc' = "report"
  /\ UNCHANGED <<run, now, model, times>>

(* runOneSample.  A fetch fails once the context is done, and may before.  *)
FetchSnapshot ==
  /\ pc = "sample"
  /\ \/ /\ ~ctxDone
        /\ pc' = "lookup"
        /\ UNCHANGED <<runVars, reply>>
     \/ NextSample
  /\ UNCHANGED <<streamVars, files, history>>

(* llmRunner.Run: a file that is absent, torn or refused is a miss. *)
Hit ==
  /\ pc = "lookup" /\ Readable(files[keyFor(Prompt)])
  /\ reply' = files[keyFor(Prompt)]
  /\ pc' = "parse"
  /\ UNCHANGED <<streamVars, runVars, files, history>>

Miss ==
  /\ pc = "lookup"
  /\ \/ ~Readable(files[keyFor(Prompt)]) /\ UNCHANGED <<faults, excused>>
     \/ Readable(files[keyFor(Prompt)]) /\ Fault /\ Excuse
  /\ \E n \in AnswerLengths : Open(n)
  /\ pc' = "stream"
  /\ UNCHANGED <<runVars, reply, files, paid>>

(* The stream has ended with an error, or what came is the reply. *)
StreamFailed ==
  /\ pc = "stream" /\ reader = "error"
  /\ Forget /\ NextSample
  /\ UNCHANGED <<ctxDone, files, history>>

StreamDone ==
  /\ pc = "stream" /\ reader = "ok"
  /\ reply' = Answer(Prompt, length, got)
  /\ paid' = [paid EXCEPT ![Prompt] = @ + 1]
  /\ Forget
  /\ pc' = "create"
  /\ UNCHANGED <<ctxDone, runVars, files, faults, excused>>

(* fileCache.Put: WriteFile truncates or creates the temporary file, then  *)
(* writes it; Rename gives it its name.  One left behind is never read and *)
(* is truncated by the next Put of its key.                                *)
Tmp == IF pc = "rename" THEN reply ELSE Torn

CreateTmp ==
  /\ pc = "create"
  /\ pc' = "write"
  /\ UNCHANGED <<streamVars, runVars, reply, files, history>>

WriteTmp ==
  /\ pc = "write"
  /\ pc' = "rename"
  /\ UNCHANGED <<streamVars, runVars, reply, files, history>>

(* Seeded fault: the file has its name before it is written. *)
RenameEarly ==
  /\ pc \in {"write", "rename"}
  /\ files' = [files EXCEPT ![keyFor(Prompt)] = Tmp]
  /\ pc' = "parse"
  /\ UNCHANGED <<streamVars, runVars, reply, history>>

Rename ==
  /\ pc = "rename"
  /\ files' = [files EXCEPT ![keyFor(Prompt)] = Tmp]
  /\ pc' = "parse"
  /\ UNCHANGED <<streamVars, runVars, reply, history>>

(* A cache failure is not fatal: the reply is in hand. *)
PutFails ==
  /\ pc \in {"create", "write", "rename"}
  /\ Fault /\ Excuse
  /\ pc' = "parse"
  /\ UNCHANGED <<streamVars, runVars, reply, files, paid>>

(* ExtractDecision, and the walk forward when there is one to judge. *)
HasDecision(r) == Len(r.text) = TradeLength

ParseReply ==
  /\ pc = "parse"
  /\ \/ HasDecision(reply) /\ pc' = "forward" /\ UNCHANGED <<runVars, reply>>
     \/ ~HasDecision(reply) /\ NextSample
  /\ UNCHANGED <<streamVars, files, history>>

(* Whether the fetch fails or the walk resolves, the sample is over. *)
FetchForward ==
  /\ pc = "forward"
  /\ NextSample
  /\ UNCHANGED <<streamVars, files, history>>

WriteReport ==
  /\ pc = "report"
  /\ Exit
  /\ UNCHANGED <<files, history>>

Loop ==
  \/ FetchSnapshot \/ Hit \/ Miss \/ StreamFailed \/ StreamDone
  \/ CreateTmp \/ WriteTmp \/ Rename \/ PutFails
  \/ ParseReply \/ FetchForward \/ WriteReport

-----------------------------------------------------------------------------
NoChangeOutsideStream == UNCHANGED <<runVars, pc, reply, files, history>>

Stream == pc = "stream" /\ StreamStep /\ NoChangeOutsideStream

(* SIGINT or SIGTERM. *)
Interrupt == pc # "off" /\ Cancel /\ NoChangeOutsideStream

(* The process is killed.  An answer on its way to the disk is lost. *)
Kill ==
  /\ pc # "off"
  /\ Exit
  /\ IF pc \in {"create", "write", "rename"} THEN Excuse ELSE UNCHANGED excused
  /\ UNCHANGED <<files, faults, paid>>

Next == Begin \/ Loop \/ Stream \/ Interrupt \/ Kill

Spec == Init /\ [][Next]_vars

(* The loop and the goroutine of the provider go on, and every read of the *)
(* vendor returns within the 120 s of its HTTP client.  The client of the  *)
(* exchange has no timeout: its fetches need return only once interrupted. *)
Fetching == pc \in {"sample", "forward"}
Fairness ==
  /\ WF_vars(~Fetching /\ Loop)
  /\ WF_vars(Fetching /\ ctxDone /\ Loop)
  /\ WF_vars(Stream /\ ProviderStep)
  /\ WF_vars(Stream /\ ReaderStep)

FairSpec == Spec /\ Fairness

-----------------------------------------------------------------------------
(* Properties.                                                             *)

(* A file of the cache stands in for a call of the vendor (fileCache).     *)
(* Only for the same prompt to the same model: the reply a sample is       *)
(* judged by was given to that very prompt, now or in an earlier run.  And *)
(* from then on: "Don't repay for the same prompt across runs".  Every     *)
(* reply received beyond the first is owed to a disk that refused or to a  *)
(* kill in the middle of Put; an interrupt, and a sample that falls on the *)
(* time of another, cost nothing.                                          *)
CacheStandsIn ==
  /\ pc \in {"create", "write", "rename", "parse", "forward"} => reply.of = Prompt
  /\ \A p \in Prompts : paid[p] <= 1 + excused[p]

(* No look-ahead among closed candles, and a fair judge: every closed      *)
(* candle shown ends by the time of the sample, and the first WalkBars     *)
(* candles that judge the decision begin after it, one per minute without  *)
(* a gap, and are final (historicalFetcher, ClosedCandles, sampleTimestamps). *)
NoHindsight ==
  pc \in {"lookup", "forward"} =>
    LET t == times[index]
    IN \A rule \in Rules :
         LET shown   == Digest(FetchSnapshotAt(t, rule, now)).closed
             forward == FetchM1Forward(t, WalkBars, rule, now)
         IN /\ \A tf \in DOMAIN shown : \A i \in DOMAIN shown[tf] : shown[tf][i].upTo <= t
            /\ \A i \in 1 .. WalkBars : forward[i] = [open |-> t + i, upTo |-> t + i + 1]

(* A call of the LLM comes to an end, however it fails and whenever it is  *)
(* cancelled, and an interrupted run reaches its report even if the        *)
(* exchange is silent (Run, the two channels of Stream, the loop of main). *)
RunEnds ==
  /\ (pc = "stream") ~> (pc # "stream")
  /\ ctxDone ~> (pc = "off")

-----------------------------------------------------------------------------
(* Statements of comments that the code does not keep.                     *)

(* llm.go:34: "caches the full reply text".  A cancelled send ends the     *)
(* stream without an error, and what had come is cached for good.          *)
CachedRepliesAreWhole ==
  \A k \in Prompts : Readable(files[k]) => files[k].text = Upto(files[k].length)

(* main.go:6: the samples "build the SAME digest production sees".  The    *)
(* last candle is dropped as still forming, but it is final: its close,    *)
(* taken for the current price, lies in the future of the sample; or, if   *)
(* endTime bounds the close of a candle, a closed one goes missing.  So it *)
(* is another digest whatever the exchange makes of endTime.               *)
SameDigestAsProduction ==
  pc = "lookup" =>
    LET t == times[index]
    IN \E rule \in Rules : Digest(FetchSnapshotAt(t, rule, now)) = Digest(FetchLive(t))
=============================================================================
