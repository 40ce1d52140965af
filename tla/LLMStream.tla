------------------------------ MODULE LLMStream ------------------------------
(***************************************************************************)
(* One call of LLMProvider.Stream: the goroutine of the provider           *)
(* (modules/advisor/provider/deepseek/client.go; the one of claude/ has    *)
(* the same steps), its two channels, and the reader every caller is:      *)
(* range over the chunks, then receive once from the error channel.        *)
(*                                                                         *)
(* External: the vendor, whose answer has `length` deltas, numbered from   *)
(* 1; lines of the response that carry no delta change nothing.  The body  *)
(* ends in good order only after the last delta; any request or read may   *)
(* fail before.  Once the context is done a read fails, unless what it     *)
(* reads was already buffered.                                             *)
(***************************************************************************)
EXTENDS Naturals, Sequences

CONSTANTS
  ChunkCap,   (* capacity of the chunk channel (64)                        *)
  ErrCap      (* capacity of the error channel (1)                         *)

ASSUME StreamAssumption == ChunkCap \in Nat \ {0} /\ ErrCap \in Nat

VARIABLES
  ctxDone,    (* the context of the call is cancelled or has expired       *)
  provider,   (* where the goroutine of the provider is                    *)
  length,     (* external: how many deltas the whole answer has            *)
  held,       (* the last delta the provider has read                      *)
  chunks,     (* the chunk channel: what is buffered, and whether it is open *)
  errs,       (* the error channel                                         *)
  reader,     (* where the reader is                                       *)
  got         (* what the reader has accumulated                           *)

streamVars == <<ctxDone, provider, length, held, chunks, errs, reader, got>>

OpenChannel == [buffer |-> <<>>, open |-> TRUE]
Shut(channel) == [channel EXCEPT !.open = FALSE]
Buffer(channel, value) == [channel EXCEPT !.buffer = Append(@, value)]

(* No call is being made. *)
NoStream ==
  /\ provider = "none" /\ reader = "none"
  /\ length = 0 /\ held = 0 /\ got = <<>>
  /\ chunks = OpenChannel /\ errs = OpenChannel

(* Stream: the goroutine starts, the caller begins to read. *)
Open(n) ==
  /\ provider' = "request" /\ reader' = "range"
  /\ length' = n /\ held' = 0 /\ got' = <<>>
  /\ chunks' = OpenChannel /\ errs' = OpenChannel
  /\ UNCHANGED ctxDone

(* The caller has read both channels to the end, or is no more. *)
Forget ==
  /\ provider' = "none" /\ reader' = "none"
  /\ length' = 0 /\ held' = 0 /\ got' = <<>>
  /\ chunks' = OpenChannel /\ errs' = OpenChannel

Cancel ==
  /\ ~ctxDone
  /\ ctxDone' = TRUE
  /\ UNCHANGED <<provider, length, held, chunks, errs, reader, got>>

-----------------------------------------------------------------------------
(* The provider's goroutine.                                               *)
ProviderAt(pc) == provider = pc
ReaderUnchanged == UNCHANGED <<ctxDone, length, reader, got>>

(* The request is answered with 200, or fails one way or another. *)
Request ==
  /\ ProviderAt("request")
  /\ \/ ~ctxDone /\ provider' = "read"
     \/ provider' = "fail"
  /\ UNCHANGED <<held, chunks, errs>> /\ ReaderUnchanged

ReadDelta ==
  /\ ProviderAt("read") /\ held < length
  /\ held' = held + 1
  /\ provider' = "send"
  /\ UNCHANGED <<chunks, errs>> /\ ReaderUnchanged

(* [DONE], message_stop, or the end of the body. *)
ReadEnd ==
  /\ ProviderAt("read") /\ held = length
  /\ provider' = "closeErrs"
  /\ UNCHANGED <<held, chunks, errs>> /\ ReaderUnchanged

ReadFails ==
  /\ ProviderAt("read")
  /\ provider' = "fail"
  /\ UNCHANGED <<held, chunks, errs>> /\ ReaderUnchanged

(* Seeded fault: a delta that finds the channel full is dropped. *)
SendOrDrop ==
  /\ ProviderAt("send")
  /\ chunks' = IF Len(chunks.buffer) < ChunkCap THEN Buffer(chunks, held) ELSE chunks
  /\ provider' = "read"
  /\ UNCHANGED <<held, errs>> /\ ReaderUnchanged

(* select: the delta goes into the channel when there is room.             *)
Send ==
  /\ ProviderAt("send") /\ Len(chunks.buffer) < ChunkCap
  /\ chunks' = Buffer(chunks, held)
  /\ provider' = "read"
  /\ UNCHANGED <<held, errs>> /\ ReaderUnchanged

(* ... and once the context is done the other case may be taken, room or   *)
(* not: the delta is dropped and the goroutine returns without an error.   *)
SendCancelled ==
  /\ ProviderAt("send") /\ ctxDone
  /\ provider' = "closeErrs"
  /\ UNCHANGED <<held, chunks, errs>> /\ ReaderUnchanged

(* Seeded fault: the error channel is made without a buffer.               *)
ReportErrorUnbuffered ==
  /\ ProviderAt("fail") /\ reader = "drain"
  /\ errs' = Buffer(errs, "error")
  /\ provider' = "closeErrs"
  /\ UNCHANGED <<held, chunks>> /\ ReaderUnchanged

(* An error channel with no room makes its sender wait for the reader.     *)
ReportError ==
  /\ ProviderAt("fail")
  /\ Len(errs.buffer) < ErrCap \/ reader = "drain"
  /\ errs' = Buffer(errs, "error")
  /\ provider' = "closeErrs"
  /\ UNCHANGED <<held, chunks>> /\ ReaderUnchanged

(* The deferred calls, last first. *)
CloseErrs ==
  /\ ProviderAt("closeErrs")
  /\ errs' = Shut(errs)
  /\ provider' = "closeChunks"
  /\ UNCHANGED <<held, chunks>> /\ ReaderUnchanged

CloseChunks ==
  /\ ProviderAt("closeChunks")
  /\ chunks' = Shut(chunks)
  /\ provider' = "gone"
  /\ UNCHANGED <<held, errs>> /\ ReaderUnchanged

ProviderStep ==
  \/ Request \/ ReadDelta \/ ReadEnd \/ ReadFails
  \/ Send \/ SendCancelled \/ ReportError \/ CloseErrs \/ CloseChunks

-----------------------------------------------------------------------------
(* The reader.                                                             *)
ProviderUnchanged == UNCHANGED <<ctxDone, provider, length, held>>

Receive ==
  /\ reader = "range" /\ chunks.buffer # <<>>
  /\ got' = Append(got, Head(chunks.buffer))
  /\ chunks' = [chunks EXCEPT !.buffer = Tail(@)]
  /\ UNCHANGED <<reader, errs>> /\ ProviderUnchanged

RangeEnds ==
  /\ reader = "range" /\ chunks.buffer = <<>> /\ ~chunks.open
  /\ reader' = "drain"
  /\ UNCHANGED <<got, chunks, errs>> /\ ProviderUnchanged

(* A value, or the channel is closed and empty; until then the reader waits. *)
Drain ==
  /\ reader = "drain"
  /\ \/ errs.buffer # <<>> /\ reader' = "error"
     \/ errs.buffer = <<>> /\ ~errs.open /\ reader' = "ok"
  /\ UNCHANGED <<got, chunks, errs>> /\ ProviderUnchanged

ReaderStep == Receive \/ RangeEnds \/ Drain

StreamStep == ProviderStep \/ ReaderStep

-----------------------------------------------------------------------------
(* What the contract of LLMProvider promises.                              *)

Upto(n) == [i \in 1 .. n |-> i]

(* The contract of LLMProvider (llm_provider.go), which the two channels   *)
(* have to keep between them.  Nothing is lost, doubled or reordered on    *)
(* the way: what the reader has is the beginning of the answer, and all of *)
(* it when the stream ends without an error and without a cancellation.  A *)
(* failure reaches the reader, after all that came before it.              *)
StreamContract ==
  /\ got = Upto(Len(got))
  /\ reader = "ok" => /\ errs.buffer = <<>>
                      /\ got = Upto(length) \/ ctxDone
  /\ reader = "error" => /\ errs.buffer # <<>>
                         /\ got = Upto(held)
=============================================================================
