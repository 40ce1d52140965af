--------------------------- MODULE BacktestProofs ---------------------------
(***************************************************************************)
(* The contract of the stream and the cost of the cache, for any number of *)
(* runs, models, samples, deltas and capacities.                           *)
(***************************************************************************)
EXTENDS Backtest, SequenceTheorems, FiniteSetTheorems, WellFoundedInduction, TLAPS

-----------------------------------------------------------------------------
(* The stream of one call.                                                 *)

Channel(T) == [buffer : Seq(T), open : BOOLEAN]

StreamTypes ==
  /\ ctxDone \in BOOLEAN
  /\ provider \in {"none", "request", "read", "send", "fail", "closeErrs",
                   "closeChunks", "gone"}
  /\ reader \in {"none", "range", "drain", "ok", "error"}
  /\ length \in Nat /\ held \in 0 .. length
  /\ got \in Seq(Nat)
  /\ chunks \in Channel(Nat)
  /\ errs \in Channel({"error"})

(* What the reader has and what waits for it are consecutive deltas. *)
InOrder ==
  /\ \A i \in 1 .. Len(got) : got[i] = i
  /\ \A i \in 1 .. Len(chunks.buffer) : chunks.buffer[i] = Len(got) + i

Sent == Len(got) + Len(chunks.buffer)

(* Of the deltas read so far all are sent, but the one in the hand of the  *)
(* provider; and why the provider has stopped.                             *)
NothingLost ==
  /\ provider \in {"request", "read", "fail"} => Sent = held /\ errs.buffer = <<>>
  /\ provider = "send" => Sent = held - 1 /\ errs.buffer = <<>>
  /\ provider \in {"closeErrs", "closeChunks", "gone"} =>
       \/ errs.buffer = <<>> /\ (Sent = length \/ ctxDone)
       \/ errs.buffer # <<>> /\ Sent = held

(* Who has closed what, and what the reader has seen of it. *)
Closing ==
  /\ ~chunks.open => provider = "gone"
  /\ ~errs.open => provider \in {"closeChunks", "gone"}
  /\ reader \in {"drain", "ok", "error"} => provider = "gone" /\ chunks.buffer = <<>>
  /\ reader = "ok" => errs.buffer = <<>>
  /\ reader = "error" => errs.buffer # <<>>

StreamInv == StreamTypes /\ InOrder /\ NothingLost /\ Closing

LEMMA StreamInvSuffices == StreamInv => StreamContract
<1> SUFFICES ASSUME StreamInv PROVE StreamContract
  OBVIOUS
<1>1. got \in Seq(Nat) /\ \A i \in 1 .. Len(got) : got[i] = i
  BY DEF StreamInv, StreamTypes, InOrder
<1>2. got = Upto(Len(got))
  BY <1>1 DEF Upto
<1>3. reader \in {"ok", "error"} => Sent = Len(got)
  BY <1>1 DEF StreamInv, Closing, Sent
<1> QED  BY <1>2, <1>3 DEF StreamInv, Closing, NothingLost, StreamContract

(* A call that begins, and one that is forgotten. *)
LEMMA OpenStream ==
  ASSUME StreamInv, NEW n \in Nat, Open(n)
  PROVE  StreamInv'
  BY DEF StreamInv, StreamTypes, InOrder, NothingLost, Closing, Sent, Open, OpenChannel,
         Channel

LEMMA ForgetStream ==
  ASSUME StreamInv, Forget, ctxDone' \in BOOLEAN
  PROVE  StreamInv'
  BY DEF StreamInv, StreamTypes, InOrder, NothingLost, Closing, Sent, Forget, OpenChannel,
         Channel

LEMMA CancelStream ==
  ASSUME StreamInv, Cancel
  PROVE  StreamInv'
  BY DEF StreamInv, StreamTypes, InOrder, NothingLost, Closing, Sent, Cancel

(* A value that goes into a channel goes behind the others. *)
LEMMA Buffered ==
  ASSUME NEW T, NEW channel \in Channel(T), NEW value \in T
  PROVE  /\ Buffer(channel, value) \in Channel(T)
         /\ Buffer(channel, value).open = channel.open
         /\ Buffer(channel, value).buffer = Append(channel.buffer, value)
         /\ Len(channel.buffer) \in Nat
         /\ Len(Buffer(channel, value).buffer) = Len(channel.buffer) + 1
         /\ Buffer(channel, value).buffer # <<>>
<1>1. channel.buffer \in Seq(T)
  BY DEF Channel
<1>2. /\ Append(channel.buffer, value) \in Seq(T)
      /\ Len(channel.buffer) \in Nat
      /\ Len(Append(channel.buffer, value)) = Len(channel.buffer) + 1
      /\ Append(channel.buffer, value) # <<>>
  BY <1>1, AppendProperties, LenProperties, EmptySeq
<1>3. /\ Buffer(channel, value) \in Channel(T)
      /\ Buffer(channel, value).open = channel.open
      /\ Buffer(channel, value).buffer = Append(channel.buffer, value)
  BY <1>2 DEF Buffer, Channel
<1> QED  BY <1>2, <1>3

LEMMA ProviderKeeps ==
  ASSUME StreamInv, ProviderStep
  PROVE  StreamInv'
<1> USE DEF ProviderAt, ReaderUnchanged
<1>0. StreamTypes /\ InOrder /\ NothingLost /\ Closing
  BY DEF StreamInv
<1>1. CASE Request \/ ReadEnd \/ ReadFails
  BY <1>0, <1>1 DEF Request, ReadEnd, ReadFails, StreamInv, StreamTypes, InOrder,
                    NothingLost, Closing, Sent
<1>6. CASE ReadDelta
  <2>1. held' \in 0 .. length'
    BY <1>0, <1>6 DEF ReadDelta, StreamTypes
  <2> QED  BY <1>0, <1>6, <2>1 DEF ReadDelta, StreamInv, StreamTypes, InOrder,
                                    NothingLost, Closing, Sent
<1>2. CASE Send
  <2> DEFINE b == chunks.buffer
  <2>1. /\ chunks' = Buffer(chunks, held) /\ provider = "send" /\ provider' = "read"
        /\ UNCHANGED <<held, errs, ctxDone, length, reader, got>>
    BY <1>2 DEF Send
  <2>2. held \in Nat /\ got \in Seq(Nat) /\ Len(got) \in Nat /\ b \in Seq(Nat)
    BY <1>0 DEF StreamTypes, Channel
  <2>3. /\ chunks' \in Channel(Nat) /\ chunks'.open = chunks.open
        /\ chunks'.buffer = Append(b, held)
        /\ Len(b) \in Nat /\ Len(chunks'.buffer) = Len(b) + 1
    <3>1. chunks \in Channel(Nat)
      BY <1>0 DEF StreamTypes
    <3>2. PICK e : e = Buffer(chunks, held)
      OBVIOUS
    <3>3. /\ e \in Channel(Nat) /\ e.open = chunks.open
          /\ e.buffer = Append(b, held)
          /\ Len(b) \in Nat /\ Len(e.buffer) = Len(b) + 1
      BY <2>2, <3>1, <3>2, Buffered, Zenon
    <3> QED  BY <2>1, <3>2, <3>3
  <2>4. held = Len(got) + Len(b) + 1
    BY <1>0, <2>1, <2>2, <2>3 DEF NothingLost, Sent
  <2>5. \A i \in 1 .. Len(b) + 1 : Append(b, held)[i] = Len(got) + i
    <3> SUFFICES ASSUME NEW i \in 1 .. Len(b) + 1 PROVE Append(b, held)[i] = Len(got) + i
      OBVIOUS
    <3>1. CASE i = Len(b) + 1
      <4>1. Append(b, held)[Len(b) + 1] = held
        BY <2>2, AppendProperties
      <4> QED  BY <2>2, <2>3, <2>4, <3>1, <4>1
    <3>2. CASE i # Len(b) + 1
      <4>1. i \in 1 .. Len(b)
        BY <2>3, <3>2
      <4>2. Append(b, held)[i] = b[i]
        BY <2>2, <4>1, AppendProperties
      <4>3. b[i] = Len(got) + i
        BY <1>0, <4>1 DEF InOrder
      <4> QED  BY <4>2, <4>3
    <3> QED  BY <3>1, <3>2
  <2>6. InOrder'
    <3>1. got' = got /\ chunks'.buffer = Append(b, held) /\ Len(chunks'.buffer) = Len(b) + 1
      BY <2>1, <2>3
    <3> HIDE DEF b
    <3> QED  BY <1>0, <2>5, <3>1 DEF InOrder
  <2>7. Sent' = held
    <3>1. Len(got') = Len(got) /\ Len(chunks'.buffer) = Len(b) + 1
      BY <2>1, <2>3
    <3> HIDE DEF b
    <3> QED  BY <2>2, <2>3, <2>4, <3>1 DEF Sent
  <2> HIDE DEF b
  <2> QED  BY <1>0, <2>1, <2>3, <2>6, <2>7 DEF StreamInv, StreamTypes, NothingLost, Closing
<1>3. CASE SendCancelled
  BY <1>0, <1>3 DEF SendCancelled, StreamInv, StreamTypes, InOrder, NothingLost, Closing, Sent
<1>4. CASE ReportError
  <2>1. /\ errs' \in Channel({"error"}) /\ errs'.open = errs.open
        /\ errs'.buffer # <<>>
    BY <1>0, <1>4, Buffered DEF ReportError, StreamTypes
  <2> QED  BY <1>0, <1>4, <2>1
           DEF ReportError, StreamInv, StreamTypes, InOrder, NothingLost, Closing, Sent
<1>5. CASE CloseErrs
  <2>1. errs' \in Channel({"error"}) /\ ~errs'.open /\ errs'.buffer = errs.buffer
    BY <1>0, <1>5 DEF CloseErrs, Shut, StreamTypes, Channel
  <2> QED  BY <1>0, <1>5, <2>1 DEF CloseErrs, StreamInv, StreamTypes, InOrder,
                                    NothingLost, Closing, Sent
<1>7. CASE CloseChunks
  <2>1. chunks' \in Channel(Nat) /\ ~chunks'.open /\ chunks'.buffer = chunks.buffer
    BY <1>0, <1>7 DEF CloseChunks, Shut, StreamTypes, Channel
  <2> QED  BY <1>0, <1>7, <2>1 DEF CloseChunks, StreamInv, StreamTypes, InOrder,
                                    NothingLost, Closing, Sent
<1> QED  BY <1>1, <1>2, <1>3, <1>4, <1>5, <1>6, <1>7 DEF ProviderStep

LEMMA ReaderKeeps ==
  ASSUME StreamInv, ReaderStep
  PROVE  StreamInv'
<1> USE DEF ProviderUnchanged
<1>0. StreamTypes /\ InOrder /\ NothingLost /\ Closing
  BY DEF StreamInv
<1>1. CASE Receive
  <2> DEFINE b == chunks.buffer
  <2>1. b \in Seq(Nat) /\ b # <<>> /\ got \in Seq(Nat)
    BY <1>0, <1>1 DEF Receive, StreamTypes, Channel
  <2>2. /\ chunks'.buffer = Tail(b) /\ chunks'.open = chunks.open
        /\ chunks' \in Channel(Nat)
        /\ got' = Append(got, b[1]) /\ got' \in Seq(Nat)
    <3>1. Tail(b) \in Seq(Nat) /\ b[1] \in Nat /\ Head(b) = b[1]
      BY <2>1
    <3>2. Append(got, b[1]) \in Seq(Nat)
      BY <2>1, <3>1
    <3>3. chunks' = [chunks EXCEPT !.buffer = Tail(b)] /\ got' = Append(got, Head(b))
      BY <1>1 DEF Receive
    <3> HIDE DEF b
    <3> QED  BY <1>0, <3>1, <3>2, <3>3 DEF StreamTypes, Channel
  <2>3. /\ Len(chunks'.buffer) = Len(b) - 1 /\ Len(got') = Len(got) + 1 /\ Len(got) \in Nat
        /\ Len(b) \in Nat \ {0}
        /\ \A i \in 1 .. Len(b) - 1 : chunks'.buffer[i] = b[i + 1]
    BY <2>1, <2>2
  <2>4. b[1] = Len(got) + 1
    BY <1>0, <2>1, <2>3 DEF InOrder
  <2>5. InOrder'
    BY <1>0, <2>1, <2>2, <2>3, <2>4 DEF InOrder
  <2>6. Sent' = Sent
    <3> HIDE DEF b
    <3>1. Len(got') + Len(chunks'.buffer) = Len(got) + Len(b)
      BY <2>3
    <3> QED  BY <3>1 DEF Sent, b
  <2> HIDE DEF b
  <2> QED  BY <1>0, <1>1, <2>2, <2>5, <2>6
           DEF Receive, StreamInv, StreamTypes, NothingLost, Closing
<1>2. CASE RangeEnds \/ Drain
  BY <1>0, <1>2 DEF RangeEnds, Drain, StreamInv, StreamTypes, InOrder, NothingLost,
                    Closing, Sent
<1> QED  BY <1>1, <1>2 DEF ReaderStep

(* Whatever the program does, it does one of these to the stream. *)
LEMMA NextKeepsStream ==
  ASSUME StreamInv, [Next]_vars
  PROVE  StreamInv'
<1>1. CASE UNCHANGED streamVars
  BY <1>1 DEF streamVars, StreamInv, StreamTypes, InOrder, NothingLost, Closing, Sent
<1>2. CASE \E n \in AnswerLengths : Open(n)
  BY <1>2, OpenStream, BacktestAssumption
<1>3. CASE Forget /\ ctxDone' \in {FALSE, ctxDone}
  BY <1>3, ForgetStream DEF StreamInv, StreamTypes
<1>4. CASE Cancel
  BY <1>4, CancelStream
<1>5. CASE StreamStep
  BY <1>5, ProviderKeeps, ReaderKeeps DEF StreamStep
<1>6. \/ UNCHANGED streamVars
      \/ \E n \in AnswerLengths : Open(n)
      \/ Forget /\ ctxDone' \in {FALSE, ctxDone}
      \/ Cancel
      \/ StreamStep
  <2>1. CASE UNCHANGED vars
    BY <2>1 DEF vars
  <2>2. CASE Begin \/ Stream \/ Interrupt \/ Kill
    BY <2>2 DEF Begin, Stream, Interrupt, Kill, Exit
  <2>3. CASE FetchSnapshot \/ Hit \/ Miss \/ StreamFailed \/ StreamDone
    BY <2>3 DEF FetchSnapshot, Hit, Miss, StreamFailed, StreamDone
  <2>4. CASE CreateTmp \/ WriteTmp \/ Rename \/ PutFails
    BY <2>4 DEF CreateTmp, WriteTmp, Rename, PutFails
  <2>5. CASE ParseReply \/ FetchForward \/ WriteReport
    BY <2>5 DEF ParseReply, FetchForward, WriteReport, Exit
  <2> QED  BY <2>1, <2>2, <2>3, <2>4, <2>5 DEF Next, Loop
<1> QED  BY <1>1, <1>2, <1>3, <1>4, <1>5, <1>6

(* The two channels lose, double and reorder nothing, for answers of any   *)
(* length and channels of any capacity, wherever the program calls a       *)
(* provider, is interrupted or killed (LLMProvider.Stream).                *)
THEOREM StreamContractAlways == Spec => []StreamContract
<1>1. Init => StreamInv
  <2> SUFFICES ASSUME Init PROVE StreamInv
    OBVIOUS
  <2>1. /\ got = <<>> /\ chunks.buffer = <<>> /\ chunks.open /\ errs.open
        /\ chunks \in Channel(Nat) /\ errs \in Channel({"error"}) /\ got \in Seq(Nat)
    BY DEF Init, NoStream, OpenChannel, Channel
  <2>2. /\ provider = "none" /\ reader = "none" /\ length = 0 /\ held = 0
        /\ ctxDone \in BOOLEAN
    BY DEF Init, NoStream
  <2>3. StreamTypes
    BY <2>1, <2>2 DEF StreamTypes
  <2>4. NothingLost /\ Closing
    BY <2>1, <2>2 DEF NothingLost, Closing
  <2>5. InOrder
    BY <2>1 DEF InOrder
  <2> QED  BY <2>3, <2>4, <2>5 DEF StreamInv
<1>2. StreamInv /\ [Next]_vars => StreamInv'
  BY NextKeepsStream
<1> QED  BY <1>1, <1>2, StreamInvSuffices, PTL DEF Spec

-----------------------------------------------------------------------------
(* The cache.                                                              *)

PCs == {"off", "sample", "lookup", "stream", "create", "write", "rename", "parse",
        "forward", "report"}

Pending(p) == pc \in {"create", "write", "rename"} /\ Prompt = p

CacheTypes ==
  /\ pc \in PCs
  /\ DOMAIN files = Prompts
  /\ paid \in [Prompts -> Nat] /\ excused \in [Prompts -> Nat]
  /\ pc # "off" => /\ model \in Models /\ now \in Nows
                   /\ times = sampleTimestamps(now) /\ index \in 1 .. Len(times)

(* A reply in hand, and one on the disk, is a reply to its own prompt. *)
RightReply ==
  /\ pc \in {"create", "write", "rename", "parse", "forward"} =>
       Readable(reply) /\ reply.of = Prompt
  /\ \A p \in Prompts : Readable(files[p]) => files[p].of = p

(* Replies that are neither on the disk nor on their way to it have an     *)
(* excuse; and so does a call that is made although the reply was there.   *)
Accounted ==
  \A p \in Prompts :
    /\ paid[p] <= 1 + excused[p]
    /\ ~Readable(files[p]) /\ ~Pending(p) => paid[p] <= excused[p]
    /\ pc = "stream" /\ Prompt = p => paid[p] <= excused[p]

CacheInv == CacheTypes /\ RightReply /\ Accounted

(* There are as many samples as draws. *)
LEMMA SamplesFit ==
  ASSUME NEW n
  PROVE  /\ Len(sampleTimestamps(n)) \in Nat \ {0}
         /\ DOMAIN sampleTimestamps(n) = 1 .. Len(sampleTimestamps(n))
<1>1. Len(Offsets) \in Nat \ {0} /\ DOMAIN Offsets = 1 .. Len(Offsets)
  BY ReplayAssumption, LenProperties, EmptySeq
<1> DEFINE f == sampleTimestamps(n)
<1>2. f = [i \in DOMAIN Offsets |-> f[i]]
  BY DEF sampleTimestamps
<1> HIDE DEF f
<1>3. f = [i \in 1 .. Len(Offsets) |-> f[i]]
  BY <1>1, <1>2
<1>4. Len(f) = Len(Offsets) /\ DOMAIN f = 1 .. Len(Offsets)
  BY <1>1, <1>3
<1> QED  BY <1>1, <1>4 DEF f

LEMMA PromptAsked ==
  ASSUME CacheTypes, pc # "off"
  PROVE  Prompt \in Prompts
<1>1. /\ model \in Models /\ now \in Nows /\ times = sampleTimestamps(now)
      /\ index \in DOMAIN times
  BY SamplesFit DEF CacheTypes
<1>2. times[index] \in ToSet(sampleTimestamps(now))
  BY <1>1 DEF ToSet
<1>3. times[index] \in AllTimes
  BY <1>1, <1>2 DEF AllTimes
<1> QED  BY <1>1, <1>3 DEF Prompt, Prompts

(* The loop goes on to another sample, or to the report. *)
LEMMA NextSampleKeeps ==
  ASSUME CacheInv, NextSample, UNCHANGED <<files, paid, excused>>,
         pc \in {"sample", "stream", "parse", "forward"}
  PROVE  CacheInv'
<1>1. pc' \in {"sample", "report"} /\ index' \in 1 .. Len(times)
  BY DEF NextSample, CacheInv, CacheTypes
<1>2. CacheTypes'
  BY <1>1 DEF NextSample, CacheInv, CacheTypes, PCs
<1>3. RightReply'
  BY <1>1 DEF CacheInv, RightReply
<1>4. Accounted'
  BY <1>1 DEF CacheInv, Accounted, Pending
<1> QED  BY <1>2, <1>3, <1>4 DEF CacheInv

(* The loop goes on with the sample it is at, and has paid for nothing. *)
LEMMA SameSampleKeeps ==
  ASSUME CacheInv, UNCHANGED <<runVars, reply, files, paid, excused>>,
         \/ UNCHANGED pc
         \/ pc = "sample" /\ pc' = "lookup"
         \/ pc = "create" /\ pc' = "write"
         \/ pc = "write" /\ pc' = "rename"
         \/ pc = "parse" /\ pc' = "forward"
  PROVE  CacheInv'
<1>1. UNCHANGED <<Prompt, model, now, times, index>>
  BY DEF runVars, Prompt
<1>2. CacheTypes'
  BY <1>1 DEF CacheInv, CacheTypes, PCs
<1>3. RightReply'
  BY <1>1 DEF CacheInv, RightReply
<1>4. Accounted'
  BY <1>1 DEF CacheInv, Accounted, Pending
<1> QED  BY <1>2, <1>3, <1>4 DEF CacheInv

LEMMA BeginKeeps ==
  ASSUME CacheInv, Begin
  PROVE  CacheInv'
<1>1. CacheTypes'
  BY SamplesFit DEF Begin, history, CacheInv, CacheTypes, PCs
<1>2. RightReply'
  BY DEF Begin, CacheInv, RightReply
<1>3. Accounted'
  BY DEF Begin, history, CacheInv, Accounted, Pending
<1> QED  BY <1>1, <1>2, <1>3 DEF CacheInv

LEMMA HitKeeps ==
  ASSUME CacheInv, Hit
  PROVE  CacheInv'
<1>0. Prompt \in Prompts
  BY PromptAsked DEF Hit, CacheInv
<1>1. UNCHANGED <<Prompt, model, now, times, index>>
  BY DEF Hit, runVars, Prompt
<1>2. CacheTypes'
  BY <1>1 DEF Hit, history, CacheInv, CacheTypes, PCs
<1>3. RightReply'
  BY <1>0, <1>1 DEF Hit, keyFor, CacheInv, RightReply
<1>4. Accounted'
  BY <1>1 DEF Hit, history, CacheInv, Accounted, Pending
<1> QED  BY <1>2, <1>3, <1>4 DEF CacheInv

(* An answer that cannot be kept, or is there and not read. *)
LEMMA ExcuseAdds ==
  ASSUME CacheTypes, pc # "off", Excuse
  PROVE  /\ excused' \in [Prompts -> Nat]
         /\ \A p \in Prompts : excused'[p] = IF p = Prompt THEN excused[p] + 1 ELSE excused[p]
  BY PromptAsked DEF Excuse, CacheTypes

LEMMA MissKeeps ==
  ASSUME CacheInv, Miss
  PROVE  CacheInv'
<1>0. Prompt \in Prompts /\ CacheTypes /\ pc = "lookup" /\ pc' = "stream"
  BY PromptAsked DEF Miss, CacheInv
<1>1. UNCHANGED <<Prompt, model, now, times, index, files, reply, paid>>
  BY DEF Miss, runVars, Prompt
<1>2. \/ ~Readable(files[Prompt]) /\ UNCHANGED excused
      \/ Excuse
  BY DEF Miss, keyFor
<1>3. /\ excused' \in [Prompts -> Nat]
      /\ \A p \in Prompts : /\ excused[p] <= excused'[p]
                            /\ p = Prompt /\ Readable(files[p]) => excused'[p] = excused[p] + 1
  BY <1>0, <1>2, ExcuseAdds DEF CacheTypes
<1>4. CacheTypes'
  BY <1>0, <1>1, <1>3 DEF CacheTypes, PCs
<1>5. RightReply'
  BY <1>0, <1>1 DEF CacheInv, RightReply
<1>6. Accounted'
  <2> SUFFICES ASSUME NEW p \in Prompts
               PROVE  /\ paid[p] <= 1 + excused'[p]
                      /\ ~Readable(files[p]) => paid[p] <= excused'[p]
                      /\ p = Prompt => paid[p] <= excused'[p]
    BY <1>0, <1>1 DEF Accounted, Pending
  <2>1. /\ paid[p] \in Nat /\ excused[p] \in Nat /\ excused'[p] \in Nat
        /\ excused[p] <= excused'[p]
        /\ paid[p] <= 1 + excused[p]
        /\ ~Readable(files[p]) => paid[p] <= excused[p]
    BY <1>0, <1>3 DEF CacheInv, CacheTypes, Accounted, Pending
  <2> QED  BY <2>1, <1>3
<1> QED  BY <1>4, <1>5, <1>6 DEF CacheInv

LEMMA StreamDoneKeeps ==
  ASSUME CacheInv, StreamDone
  PROVE  CacheInv'
<1>0. /\ Prompt \in Prompts /\ CacheTypes /\ pc = "stream" /\ pc' = "create"
      /\ UNCHANGED <<Prompt, model, now, times, index, files, excused>>
  BY PromptAsked DEF StreamDone, CacheInv, runVars, Prompt
<1>1. /\ paid' \in [Prompts -> Nat]
      /\ \A p \in Prompts : paid'[p] = IF p = Prompt THEN paid[p] + 1 ELSE paid[p]
  BY <1>0 DEF StreamDone, CacheTypes
<1>2. CacheTypes'
  BY <1>0, <1>1 DEF CacheTypes, PCs
<1>3. RightReply'
  BY <1>0 DEF StreamDone, Answer, Readable, CacheInv, RightReply
<1>4. Accounted'
  BY <1>0, <1>1 DEF CacheInv, CacheTypes, Accounted, Pending
<1> QED  BY <1>2, <1>3, <1>4 DEF CacheInv

LEMMA RenameKeeps ==
  ASSUME CacheInv, Rename
  PROVE  CacheInv'
<1>0. /\ Prompt \in Prompts /\ CacheTypes /\ pc = "rename" /\ pc' = "parse"
      /\ UNCHANGED <<Prompt, model, now, times, index, reply, paid, excused>>
      /\ files' = [files EXCEPT ![Prompt] = reply]
  BY PromptAsked DEF Rename, keyFor, Tmp, CacheInv, runVars, history, Prompt
<1>1. CacheTypes'
  BY <1>0 DEF CacheTypes, PCs
<1>2. RightReply'
  BY <1>0 DEF CacheInv, CacheTypes, RightReply
<1>3. Accounted'
  BY <1>0 DEF CacheInv, CacheTypes, RightReply, Accounted, Pending
<1> QED  BY <1>1, <1>2, <1>3 DEF CacheInv

LEMMA PutFailsKeeps ==
  ASSUME CacheInv, PutFails
  PROVE  CacheInv'
<1>0. /\ CacheTypes /\ pc \in {"create", "write", "rename"} /\ pc' = "parse"
      /\ UNCHANGED <<Prompt, model, now, times, index, reply, files, paid>> /\ Excuse
  BY DEF PutFails, CacheInv, runVars, Prompt
<1>1. /\ excused' \in [Prompts -> Nat]
      /\ \A p \in Prompts : excused'[p] = IF p = Prompt THEN excused[p] + 1 ELSE excused[p]
  BY <1>0, ExcuseAdds
<1>2. CacheTypes'
  BY <1>0, <1>1 DEF CacheTypes, PCs
<1>3. RightReply'
  BY <1>0 DEF CacheInv, RightReply
<1>4. Accounted'
  BY <1>0, <1>1 DEF CacheInv, CacheTypes, Accounted, Pending
<1> QED  BY <1>2, <1>3, <1>4 DEF CacheInv

(* The process ends by itself or is killed. *)
LEMMA ExitKeeps ==
  ASSUME CacheInv, WriteReport \/ Kill
  PROVE  CacheInv'
<1>0. CacheTypes /\ pc # "off" /\ pc' = "off" /\ UNCHANGED <<files, paid>>
  BY DEF WriteReport, Kill, Exit, history, CacheInv
<1>1. /\ excused' \in [Prompts -> Nat]
      /\ \A p \in Prompts : /\ excused'[p] \in Nat /\ excused[p] <= excused'[p]
                            /\ Pending(p) => excused'[p] = excused[p] + 1
  BY <1>0, ExcuseAdds DEF WriteReport, Kill, history, CacheTypes, Pending
<1>2. CacheTypes'
  BY <1>0, <1>1 DEF CacheTypes, PCs
<1>3. RightReply'
  BY <1>0 DEF CacheInv, RightReply
<1>4. Accounted'
  BY <1>0, <1>1 DEF CacheInv, CacheTypes, Accounted, Pending
<1> QED  BY <1>2, <1>3, <1>4 DEF CacheInv

LEMMA NextKeepsCache ==
  ASSUME CacheInv, [Next]_vars
  PROVE  CacheInv'
<1>1. CASE UNCHANGED vars
  BY <1>1, SameSampleKeeps DEF vars, history
<1>2. CASE Begin
  BY <1>2, BeginKeeps
<1>3. CASE FetchSnapshot \/ ParseReply
  <2>1. CASE NextSample
    BY <1>3, <2>1, NextSampleKeeps DEF FetchSnapshot, ParseReply, history
  <2>2. CASE pc' \in {"lookup", "forward"} /\ UNCHANGED <<runVars, reply>>
    BY <1>3, <2>2, SameSampleKeeps DEF FetchSnapshot, ParseReply, history, NextSample
  <2> QED  BY <1>3, <2>1, <2>2 DEF FetchSnapshot, ParseReply
<1>4. CASE StreamFailed \/ FetchForward
  BY <1>4, NextSampleKeeps DEF StreamFailed, FetchForward, history
<1>5. CASE CreateTmp \/ WriteTmp
  BY <1>5, SameSampleKeeps DEF CreateTmp, WriteTmp, history
<1>6. CASE Stream \/ Interrupt
  BY <1>6, SameSampleKeeps DEF Stream, Interrupt, NoChangeOutsideStream, history
<1>7. CASE Hit \/ Miss \/ StreamDone \/ Rename \/ PutFails \/ WriteReport \/ Kill
  BY <1>7, HitKeeps, MissKeeps, StreamDoneKeeps, RenameKeeps, PutFailsKeeps, ExitKeeps
<1> QED  BY <1>1, <1>2, <1>3, <1>4, <1>5, <1>6, <1>7 DEF Next, Loop

(* Whatever runs share a cache directory, a file stands in for a call of   *)
(* its own prompt only, and no reply is paid for twice but for a disk that *)
(* refused or a kill in the middle of Put (fileCache, llmRunner.Run).      *)
THEOREM CacheStandsInAlways == Spec => []CacheStandsIn
<1>1. Init => CacheInv
  BY DEF Init, CacheInv, CacheTypes, PCs, RightReply, Accounted, Readable, Absent
<1>2. CacheInv /\ [Next]_vars => CacheInv'
  BY NextKeepsCache
<1>3. CacheInv => CacheStandsIn
  BY DEF CacheInv, RightReply, Accounted, CacheStandsIn
<1> QED  BY <1>1, <1>2, <1>3, PTL DEF Spec

-----------------------------------------------------------------------------
(* The samples and the candles.                                            *)

LEMMA LeastNatural ==
  ASSUME NEW S, S \subseteq Nat, S # {}
  PROVE  \E x \in S : \A y \in S : x <= y
<1>1. IsWellFoundedOn(OpToRel(<, Nat), Nat)
  BY NatLessThanWellFounded, Zenon
<1>2. PICK x \in S : \A y \in S : ~(<<y, x>> \in OpToRel(<, Nat))
  BY <1>1, WFMin
<1>3. \A y \in S : ~(y < x)
  BY <1>2 DEF OpToRel
<1> QED  BY <1>3

LEMMA LeastInteger ==
  ASSUME NEW S, S \subseteq Int, S # {}, NEW low \in Int, \A x \in S : low <= x
  PROVE  \E x \in S : \A y \in S : x <= y
<1> DEFINE T == {x - low : x \in S}
<1>0. PICK s \in S : TRUE
  OBVIOUS
<1>1. T \subseteq Nat /\ s - low \in T
  BY <1>0
<1>2. PICK u \in T : \A v \in T : u <= v
  <2> HIDE DEF T
  <2> QED  BY <1>1, LeastNatural
<1>3. PICK x \in S : u = x - low
  OBVIOUS
<1>4. \A y \in S : y - low \in T
  OBVIOUS
<1> HIDE DEF T
<1> QED  BY <1>2, <1>3, <1>4

LEMMA GreatestInteger ==
  ASSUME NEW S, S \subseteq Int, S # {}, NEW high \in Int, \A x \in S : x <= high
  PROVE  \E x \in S : \A y \in S : y <= x
<1> DEFINE T == {high - x : x \in S}
<1>0. PICK s \in S : TRUE
  OBVIOUS
<1>1. T \subseteq Nat /\ high - s \in T
  BY <1>0
<1>2. PICK u \in T : \A v \in T : u <= v
  <2> HIDE DEF T
  <2> QED  BY <1>1, LeastNatural
<1>3. PICK x \in S : u = high - x
  OBVIOUS
<1>4. \A y \in S : high - y \in T
  OBVIOUS
<1> HIDE DEF T
<1> QED  BY <1>2, <1>3, <1>4

(* A sample falls on a bar of the entry timeframe and leaves the walk its  *)
(* candles; sorting hands on nothing but what was drawn.                   *)
LEMMA SampleLeavesWalk ==
  ASSUME NEW n \in Nat, NEW k \in DOMAIN sampleTimestamps(n)
  PROVE  /\ sampleTimestamps(n)[k] \in Int
         /\ sampleTimestamps(n)[k] <= n - WalkBars - 6
<1> DEFINE start == n - Window + Warmup
           drawn == [i \in DOMAIN Offsets |->
                       (start + Offsets[i]) - ((start + Offsets[i]) % Period[EntryTF])]
           NoLater(t) == {i \in DOMAIN Offsets : drawn[i] <= t}
           S == {t \in ToSet(drawn) : Cardinality(NoLater(t)) >= k}
<1>1. sampleTimestamps(n)[k] = Min(S) /\ k \in DOMAIN Offsets
  BY DEF sampleTimestamps
<1>2. /\ Len(Offsets) \in Nat /\ DOMAIN Offsets = 1 .. Len(Offsets)
      /\ \A i \in DOMAIN Offsets : Offsets[i] \in 0 .. Span - 1
  BY ReplayAssumption, LenProperties
<1>3. Period[EntryTF] = 5 /\ start \in Int /\ Span = n - start - WalkBars - 5
  <2>0. Window \in Nat /\ WalkBars \in Nat /\ CandleBudget \in Nat /\ Period["H4"] = 240
    BY ReplayAssumption DEF Period
  <2>1. Window \in Nat /\ WalkBars \in Nat /\ Warmup \in Int
    BY <2>0 DEF Warmup
  <2>2. Period[EntryTF] = 5
    BY DEF Period, EntryTF
  <2>3. Span = Window - Warmup - WalkBars - 5
    BY <2>1 DEF Span, WalkBuffer
  <2> QED  BY <2>1, <2>2, <2>3
<1> HIDE DEF start
<1>4. \A i \in DOMAIN Offsets :
        drawn[i] \in Int /\ start - 4 <= drawn[i] /\ drawn[i] <= n - WalkBars - 6
  <2> SUFFICES ASSUME NEW i \in DOMAIN Offsets
               PROVE  drawn[i] \in Int /\ start - 4 <= drawn[i] /\ drawn[i] <= n - WalkBars - 6
    OBVIOUS
  <2> DEFINE raw == start + Offsets[i]
  <2>1. raw \in Int /\ start <= raw /\ raw <= n - WalkBars - 6 /\ WalkBars \in Nat
    BY <1>2, <1>3, ReplayAssumption
  <2>2. drawn[i] = raw - (raw % 5)
    BY <1>3
  <2> HIDE DEF raw, drawn
  <2>3. raw % 5 \in 0 .. 4
    BY <2>1
  <2> QED  BY <1>3, <2>1, <2>2, <2>3
<1>5. ToSet(drawn) = {drawn[i] : i \in DOMAIN Offsets}
  BY DEF ToSet
<1>6. k \in Nat /\ k <= Len(Offsets)
  BY <1>1, <1>2
<1>7. WalkBars \in Nat /\ n - WalkBars - 6 \in Int /\ start - 4 \in Int
  BY <1>3, ReplayAssumption
<1> HIDE DEF drawn
<1>8. \E t \in ToSet(drawn) : NoLater(t) = 1 .. Len(Offsets)
  <2> DEFINE D == ToSet(drawn)
  <2>0. D \subseteq Int /\ D # {} /\ \A u \in D : u <= n - WalkBars - 6
    BY <1>1, <1>4, <1>5
  <2> HIDE DEF D
  <2>1a. \E t \in D : \A u \in D : u <= t
    BY <1>7, <2>0, GreatestInteger
  <2>1. PICK t \in ToSet(drawn) : \A u \in ToSet(drawn) : u <= t
    BY <2>1a DEF D
  <2>2. \A i \in DOMAIN Offsets : drawn[i] <= t
    BY <1>5, <2>1
  <2> QED  BY <1>2, <2>1, <2>2
<1>9. Cardinality(1 .. Len(Offsets)) = Len(Offsets)
  <2> DEFINE m == Len(Offsets)
  <2>1. m \in Nat /\ m \in Int /\ 1 \in Int
    BY <1>2
  <2> HIDE DEF m
  <2>2. Cardinality(1 .. m) = IF 1 > m THEN 0 ELSE m - 1 + 1
    BY <2>1, FS_Interval, Zenon
  <2>3. Cardinality(1 .. m) = m
    BY <2>1, <2>2
  <2> QED  BY <2>3 DEF m
<1>10. S # {}
  BY <1>6, <1>8, <1>9
<1>11. S \subseteq Int /\ \A t \in S : start - 4 <= t /\ t <= n - WalkBars - 6
  BY <1>4, <1>5
<1> HIDE DEF S
<1>12. \E x \in S : \A y \in S : x <= y
  BY <1>7, <1>10, <1>11, LeastInteger
<1>13. Min(S) \in S
  BY <1>12 DEF Min
<1> QED  BY <1>1, <1>11, <1>13

(* What a fetch returns: as many candles as asked for, each in its place. *)
LEMMA FetchedShape ==
  ASSUME NEW tf \in DOMAIN Period, NEW end \in Int, NEW limit \in Nat, NEW rule, NEW n \in Int
  PROVE  /\ Len(FetchCandlesEndingAt(tf, end, limit, rule, n)) = limit
         /\ DOMAIN FetchCandlesEndingAt(tf, end, limit, rule, n) = 1 .. limit
         /\ FetchCandlesEndingAt(tf, end, limit, rule, n) \in Seq([open : Int, upTo : Int])
<1> DEFINE p == Period[tf]
           newest == (end - (end % p)) - (IF rule = "open" THEN 0 ELSE p)
           At(open) == [open |-> open, upTo |-> IF open + p < n THEN open + p ELSE n]
<1>1. p \in {1, 5, 60, 240}
  BY DEF Period
<1>2. newest \in Int
  <2>1. end % p \in Int
    BY <1>1
  <2> QED  BY <1>1, <2>1
<1>3. FetchCandlesEndingAt(tf, end, limit, rule, n) = [i \in 1 .. limit |-> At(newest - (limit - i) * p)]
  BY DEF FetchCandlesEndingAt
<1> HIDE DEF newest, p
<1>4. \A i \in 1 .. limit : At(newest - (limit - i) * p) \in [open : Int, upTo : Int]
  <2> SUFFICES ASSUME NEW i \in 1 .. limit, NEW o, o = newest - (limit - i) * p
               PROVE  At(o) \in [open : Int, upTo : Int]
    OBVIOUS
  <2>1. o \in Int /\ o + p \in Int
    BY <1>1, <1>2
  <2> QED  BY <2>1
<1> HIDE DEF At
<1> QED  BY <1>3, <1>4

(* The closed candles shown end by the time of the sample. *)
LEMMA ShownEndInTime ==
  ASSUME NEW t \in Int, NEW rule \in Rules, NEW n \in Nat,
         NEW tf \in DOMAIN Digest(FetchSnapshotAt(t, rule, n)).closed,
         NEW i \in DOMAIN Digest(FetchSnapshotAt(t, rule, n)).closed[tf]
  PROVE  Digest(FetchSnapshotAt(t, rule, n)).closed[tf][i].upTo <= t
<1> DEFINE limit   == CandleBudget + 20
           candles == FetchCandlesEndingAt(tf, t, limit, rule, n)
           p       == Period[tf]
           lag     == IF rule = "open" THEN 0 ELSE p
           behind  == (limit - i) * p
           over    == t % p
           open    == (t - over) - lag - behind
<1>0. limit \in Nat /\ limit > 1
  BY ReplayAssumption
<1>1. tf \in DOMAIN Period /\ Digest(FetchSnapshotAt(t, rule, n)).closed[tf] = Front(candles)
  BY DEF Digest, FetchSnapshotAt, ClosedCandles
<1> HIDE DEF limit
<1>2. p \in {1, 5, 60, 240}
  BY <1>1 DEF Period
<1>3. Len(candles) = limit /\ candles \in Seq([open : Int, upTo : Int])
  BY <1>0, <1>1, FetchedShape
<1>4. i \in 1 .. limit - 1 /\ Front(candles)[i] = candles[i]
  <2> HIDE DEF candles
  <2> QED  BY <1>0, <1>1, <1>3 DEF Front
<1>5. candles[i] = [open |-> open, upTo |-> IF open + p < n THEN open + p ELSE n]
  <2>1. i \in 1 .. limit /\ n \in Int
    BY <1>0, <1>4
  <2> QED  BY <1>0, <1>1, <2>1 DEF FetchCandlesEndingAt
<1> HIDE DEF candles, p
<1>6. behind \in Int /\ behind >= p
  BY <1>0, <1>2, <1>4
<1>7. over \in Nat
  BY <1>2
<1>8. lag \in {0, p}
  OBVIOUS
<1> HIDE DEF behind, over, lag
<1>9. open \in Int /\ open + p <= t
  BY <1>2, <1>6, <1>7, <1>8
<1> HIDE DEF open
<1>10. candles[i].upTo <= t
  BY <1>2, <1>5, <1>9
<1> QED  BY <1>1, <1>4, <1>10

(* The candles of an interval from the k-th on. *)
LEMMA UpperPart ==
  ASSUME NEW k \in Nat, NEW l \in Nat, k >= 1
  PROVE  {j \in 1 .. l : j >= k} = k .. l
<1>1. ASSUME NEW j \in k .. l PROVE j \in 1 .. l /\ j >= k
  <2>1. j \in Int /\ k <= j /\ j <= l
    OBVIOUS
  <2>2. 1 <= j
    BY <2>1
  <2> QED  BY <2>1, <2>2
<1>2. ASSUME NEW j \in 1 .. l, j >= k PROVE j \in k .. l
  <2>1. j \in Int /\ k <= j /\ j <= l
    BY <1>2
  <2> QED  BY <2>1
<1> DEFINE upper == {j \in 1 .. l : j >= k}
           whole == k .. l
<1>3. \A j \in upper : j \in whole
  BY <1>2
<1>4. \A j \in whole : j \in upper
  BY <1>1
<1> HIDE DEF upper, whole
<1>5. upper = whole
  BY <1>3, <1>4
<1> QED  BY <1>5 DEF upper, whole

(* What a slice to the end of a sequence holds at i. *)
LEMMA PartOf ==
  ASSUME NEW R, NEW s \in Seq(R), NEW m \in 1 .. Len(s), NEW i \in 1 .. (1 + Len(s) - m)
  PROVE  SubSeq(s, m, Len(s))[i] = s[m + i - 1]
<1>1. PICK l \in Nat : l = Len(s)
  OBVIOUS
<1>2. /\ m \in 1 .. l /\ i \in 1 .. (l - m + 1)
  BY <1>1
<1>3. \A j \in m .. l : s[j] \in R
  BY <1>1
<1> QED  BY <1>1, <1>2, <1>3, SubSeqProperties

(* The first WalkBars candles that judge a decision follow the sample. *)
LEMMA WalkFollowsSample ==
  ASSUME NEW t \in Int, NEW rule \in Rules, NEW n \in Nat, t <= n - WalkBars - 6,
         NEW i \in 1 .. WalkBars
  PROVE  FetchM1Forward(t, WalkBars, rule, n)[i] = [open |-> t + i, upTo |-> t + i + 1]
<1> DEFINE limit   == WalkBars + 10
           end     == t + WalkBars + 5
           lag     == IF rule = "open" THEN 0 ELSE 1
           candles == FetchCandlesEndingAt("M1", end, limit, rule, n)
           after   == {j \in DOMAIN candles : candles[j].open > t}
           k       == 6 + lag
<1>0. /\ WalkBars \in Nat /\ limit \in Nat /\ lag \in {0, 1} /\ end \in Int /\ n \in Int
      /\ "M1" \in DOMAIN Period /\ Period["M1"] = 1
  BY ReplayAssumption DEF Period
<1>1. /\ Len(candles) = limit /\ DOMAIN candles = 1 .. limit
      /\ candles \in Seq([open : Int, upTo : Int])
  BY <1>0, FetchedShape
<1>2. ASSUME NEW j \in 1 .. limit
      PROVE  /\ candles[j].open = t - 5 - lag + j
             /\ t - 5 - lag + j + 1 < n =>
                  candles[j] = [open |-> t - 5 - lag + j, upTo |-> t - 5 - lag + j + 1]
  <2> DEFINE open == (end - (end % Period["M1"])) - (IF rule = "open" THEN 0 ELSE Period["M1"])
                     - (limit - j) * Period["M1"]
  <2>1. candles[j] = [open |-> open,
                      upTo |-> IF open + Period["M1"] < n THEN open + Period["M1"] ELSE n]
    BY <1>0 DEF FetchCandlesEndingAt
  <2>2. end % 1 = 0
    BY <1>0
  <2>3. open = t - 5 - lag + j
    BY <1>0, <2>2
  <2> HIDE DEF open, candles, lag
  <2> QED  BY <1>0, <2>1, <2>3
<1> HIDE DEF candles, lag
<1>3. after = k .. limit
  <2> HIDE DEF limit
  <2>1. ASSUME NEW j \in 1 .. limit PROVE candles[j].open > t <=> j >= k
    <3>0. j \in Nat
      BY <1>0, <2>1
    <3>1. candles[j].open = t - 5 - lag + j
      BY <1>2, <2>1
    <3>2. lag \in Int
      BY <1>0
    <3>3. t - 5 - lag + j > t <=> j >= k
      BY <3>0, <3>2
    <3> QED  BY <3>1, <3>3
  <2>2. DOMAIN candles = 1 .. limit /\ k \in Nat /\ k >= 1 /\ limit \in Nat
    BY <1>0, <1>1
  <2>3. after = {j \in 1 .. limit : j >= k}
    BY <2>1, <2>2
  <2> HIDE DEF after, k
  <2>4. {j \in 1 .. limit : j >= k} = k .. limit
    BY <2>2, UpperPart
  <2> QED  BY <2>3, <2>4
<1>4. Min(after) = k
  <2>1. k \in after /\ \A j \in after : k <= j /\ j \in Int
    BY <1>0, <1>3
  <2> HIDE DEF after, k
  <2>2. \A x \in after : (\A y \in after : x <= y) => x = k
    <3>1. k \in Int
      BY <2>1
    <3> QED  BY <2>1, <3>1
  <2>3. \A y \in after : k <= y
    BY <2>1
  <2> QED  BY <2>1, <2>2, <2>3 DEF Min
<1>5. FetchM1Forward(t, WalkBars, rule, n) = SubSeq(candles, k, limit)
  BY <1>1, <1>4 DEF FetchM1Forward, candles
<1>6. SubSeq(candles, k, limit)[i] = candles[k + i - 1]
  <2>1. k \in 1 .. limit /\ i \in 1 .. (1 + limit - k) /\ limit \in Nat
    BY <1>0
  <2> HIDE DEF k, limit
  <2>2. k \in Int /\ i \in Int /\ limit - k + 1 = 1 + limit - k
    BY <2>1
  <2>3. k \in 1 .. Len(candles) /\ limit = Len(candles) /\ i \in 1 .. (1 + Len(candles) - k)
    BY <1>1, <2>1
  <2>4. SubSeq(candles, k, Len(candles))[i] = candles[k + i - 1]
    BY <1>1, <2>3, PartOf
  <2> QED  BY <2>3, <2>4
<1>7. candles[k + i - 1] = [open |-> t + i, upTo |-> t + i + 1]
  <2> DEFINE j == k + i - 1
  <2>1. j \in 1 .. limit /\ t - 5 - lag + j = t + i /\ t + i + 1 < n
    BY <1>0
  <2> HIDE DEF j
  <2>2. candles[j] = [open |-> t - 5 - lag + j, upTo |-> t - 5 - lag + j + 1]
    BY <1>2, <2>1
  <2> QED  BY <2>1, <2>2 DEF j
<1> QED  BY <1>5, <1>6, <1>7

(* Whatever is drawn and whenever a run begins, no closed candle shown     *)
(* ends after the sample, and its decision is judged by the final candles  *)
(* right after it, without a gap (historicalFetcher, sampleTimestamps).    *)
THEOREM NoHindsightAlways == Spec => []NoHindsight
<1>1. Init => CacheInv
  BY DEF Init, CacheInv, CacheTypes, PCs, RightReply, Accounted, Readable, Absent
<1>2. CacheInv /\ [Next]_vars => CacheInv'
  BY NextKeepsCache
<1>3. CacheInv => NoHindsight
  <2> SUFFICES ASSUME CacheInv, pc \in {"lookup", "forward"} PROVE NoHindsight
    BY DEF NoHindsight
  <2> DEFINE t == times[index]
  <2>1. /\ now \in Nat /\ times = sampleTimestamps(now)
        /\ index \in DOMAIN sampleTimestamps(now)
    BY SamplesFit, BacktestAssumption DEF CacheInv, CacheTypes
  <2>2. t \in Int /\ t <= now - WalkBars - 6
    BY <2>1, SampleLeavesWalk
  <2> HIDE DEF t
  <2>3. ASSUME NEW rule \in Rules
        PROVE  LET shown   == Digest(FetchSnapshotAt(t, rule, now)).closed
                   forward == FetchM1Forward(t, WalkBars, rule, now)
               IN /\ \A tf \in DOMAIN shown : \A i \in DOMAIN shown[tf] : shown[tf][i].upTo <= t
                  /\ \A i \in 1 .. WalkBars : forward[i] = [open |-> t + i, upTo |-> t + i + 1]
    BY <2>1, <2>2, ShownEndInTime, WalkFollowsSample
  <2> QED  BY <2>3 DEF NoHindsight, t
<1> QED  BY <1>1, <1>2, <1>3, PTL DEF Spec

=============================================================================
