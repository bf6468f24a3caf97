------------------------------ MODULE AskRetry ------------------------------
(***************************************************************************)
(* One question on its way to the model (pkg/startpoint): AskWithRetry     *)
(* calls ask up to MaxAttempts times; every ask forks a goroutine that     *)
(* streams the answer, batches its deltas into TxCh and reports on         *)
(* answerCh or errCh, which ask closes when it returns.                    *)
(*                                                                         *)
(* Deltas are counted.  An error is the class of texts the three pattern   *)
(* functions of errors.go tell apart, so a class is in as many of the sets *)
(* Provider, FatalPattern and Retryable as its texts match.                *)
(***************************************************************************)
EXTENDS Integers

CONSTANTS
  MaxAttempts,  \* mode.RetryMaxAttempts
  BatchSize,    \* batchSize: deltas in one message
  MaxDeltas,    \* bound: deltas of one answer
  TxCap,        \* capacity of the responder's TxCh, in messages
  Errors,       \* classes of errors GetCh and RequestStreaming return
  Stops         \* may s.ctx be cancelled during the request?

ASSUME AskBoundsAssumption ==
  /\ MaxAttempts \in Nat \ {0} /\ BatchSize \in Nat \ {0}
  /\ MaxDeltas \in Nat /\ TxCap \in Nat \ {0}
ASSUME StopsAssumption == Stops \in BOOLEAN

\* "limit" is 429; "server" 5xx and time-outs; "auth" 401 and 403 as the
\* clients write them ("HTTP 401"), "authText" a bare 401; "network" a reset
\* or refused connection; "other" the rest, the context's own errors included.
Classes == {"limit", "server", "auth", "authText", "network", "other"}
ASSUME ErrorsAssumption == Errors \subseteq Classes

Provider == {"limit", "server", "auth"}         \* isProviderResponseError
FatalPattern == {"auth", "authText"}            \* isFatalErrorPattern
Retryable == {"server", "network"}              \* isRetryableErrorPattern

VARIABLES
  stopping,   \* s.ctx is cancelled
  attempt,    \* the loop variable of AskWithRetry
  call,       \* its control: in ask's select, backing off, returned
  result,     \* what it returned
  lastErr,    \* the class of the last error
  asked,      \* requests made so far
  ctxDone,    \* the context of the current ask is done
  open,       \* answerCh and errCh of the current ask are open
  answered, failed,   \* an element waits in answerCh, in errCh
  g,          \* the streaming goroutine of the current ask
  gErr,       \* the error it is about to report
  body,       \* fullResponse: unset, whole, with a rest unsent, left empty
  streamed,   \* deltas received of the current answer
  batch,      \* deltas in deltaBatch
  queued,     \* messages in TxCh
  shownDeltas, lost   \* deltas of this answer that entered TxCh, or did not

loop == <<attempt, call, result, lastErr, asked>>
answerChans == <<open, answered, failed>>
deltas == <<streamed, batch, queued, shownDeltas, lost>>
stream == <<g, gErr, body>>
askvars == <<stopping, loop, ctxDone, answerChans, stream, deltas>>

\* The types; deltaBatch holds a full batch only when the context cut its sending.
AskTypeOK ==
  /\ stopping \in BOOLEAN /\ ctxDone \in BOOLEAN
  /\ attempt \in 0..(MaxAttempts - 1) /\ asked \in 0..MaxAttempts
  /\ call \in {"asking", "backoff", "returned"}
  /\ result \in {"none", "answer", "provider", "fatal", "noncritical"}
  /\ lastErr \in Classes \cup {"none"} /\ gErr \in Classes \cup {"none"}
  /\ open \in BOOLEAN /\ answered \in BOOLEAN /\ failed \in BOOLEAN
  /\ g \in {"start", "streaming", "flushing", "reporting", "failing", "done",
            "panicked"}
  /\ body \in {"none", "whole", "rest", "empty"}
  /\ streamed \in 0..MaxDeltas /\ batch \in 0..BatchSize
  /\ batch = BatchSize => ctxDone
  /\ queued \in 0..TxCap
  /\ shownDeltas \in 0..MaxDeltas /\ lost \in 0..MaxDeltas

AskInit ==
  /\ stopping = FALSE /\ attempt = 0 /\ call = "asking" /\ result = "none"
  /\ lastErr = "none" /\ asked = 1 /\ ctxDone = FALSE
  /\ open = TRUE /\ answered = FALSE /\ failed = FALSE
  /\ g = "start" /\ gErr = "none" /\ body = "none"
  /\ streamed = 0 /\ batch = 0 /\ queued = 0 /\ shownDeltas = 0 /\ lost = 0

-----------------------------------------------------------------------------
(* The environment                                                         *)

Stop ==
  /\ Stops /\ ~stopping
  /\ stopping' = TRUE /\ ctxDone' = TRUE
  /\ UNCHANGED <<loop, answerChans, stream, deltas>>

\* ErrorTimeOutDurationForAssistAnswer minutes have passed.
Expire ==
  /\ call = "asking" /\ ~ctxDone
  /\ ctxDone' = TRUE
  /\ UNCHANGED <<stopping, loop, answerChans, stream, deltas>>

\* The bot takes a message from TxCh.
BotReads ==
  /\ queued > 0 /\ queued' = queued - 1
  /\ UNCHANGED <<stopping, loop, ctxDone, answerChans, stream, streamed, batch,
                 shownDeltas, lost>>

-----------------------------------------------------------------------------
(* The streaming goroutine of ask                                          *)

GoFails(e) == g' = "failing" /\ gErr' = e

\* The early exit when the context is done already; GetCh; RequestStreaming.
StreamStarts ==
  /\ g = "start"
  /\ \/ ctxDone /\ g' = "done" /\ UNCHANGED gErr
     \/ ~ctxDone /\ g' = "streaming" /\ UNCHANGED gErr
     \/ ~ctxDone /\ \E e \in Errors : GoFails(e)
  /\ UNCHANGED <<stopping, loop, ctxDone, answerChans, body, deltas>>

\* mutant: the full batch is sent before the new delta is written into it
DeltaSentEarly ==
  /\ g = "streaming" /\ streamed < MaxDeltas /\ ~ctxDone
  /\ streamed' = streamed + 1
  /\ \/ batch + 1 < BatchSize /\ batch' = batch + 1 /\ UNCHANGED <<queued, shownDeltas>>
     \/ /\ batch + 1 = BatchSize /\ queued < TxCap
        /\ batch' = 0 /\ queued' = queued + 1 /\ shownDeltas' = shownDeltas + batch
  /\ UNCHANGED <<stopping, loop, ctxDone, answerChans, stream, lost>>

\* A text delta: a full batch goes to TxCh, or is dropped when TxCh is full.
Delta ==
  /\ g = "streaming" /\ streamed < MaxDeltas /\ ~ctxDone
  /\ streamed' = streamed + 1
  /\ \/ /\ batch + 1 < BatchSize
        /\ batch' = batch + 1 /\ UNCHANGED <<queued, shownDeltas, lost>>
     \/ /\ batch + 1 = BatchSize /\ queued < TxCap
        /\ batch' = 0 /\ queued' = queued + 1
        /\ shownDeltas' = shownDeltas + BatchSize /\ UNCHANGED lost
     \/ /\ batch + 1 = BatchSize /\ queued = TxCap
        /\ batch' = 0 /\ lost' = lost + BatchSize
        /\ UNCHANGED <<queued, shownDeltas>>
  /\ UNCHANGED <<stopping, loop, ctxDone, answerChans, stream>>

\* The context ends between the callback's first test and the sending of a full
\* batch: the callback returns without emptying deltaBatch.
DeltaCut ==
  /\ g = "streaming" /\ streamed < MaxDeltas /\ ctxDone /\ batch + 1 = BatchSize
  /\ streamed' = streamed + 1 /\ batch' = BatchSize
  /\ UNCHANGED <<stopping, loop, ctxDone, answerChans, stream, queued, shownDeltas, lost>>

\* A function-call or service event is sent at once, ahead of the batch.
ServiceEvent ==
  /\ g = "streaming" /\ ~ctxDone /\ queued < TxCap
  /\ queued' = queued + 1
  /\ UNCHANGED <<stopping, loop, ctxDone, answerChans, stream, streamed, batch,
                 shownDeltas, lost>>

\* done: what is left of the batch must get into TxCh before the answer.
StreamDone ==
  /\ g = "streaming" /\ ~ctxDone
  /\ \/ batch > 0 /\ g' = "flushing" /\ UNCHANGED body
     \/ batch = 0 /\ g' = "reporting" /\ body' = "whole"
  /\ UNCHANGED <<stopping, loop, ctxDone, answerChans, gErr, deltas>>

\* mutant: the rest of the batch is sent without waiting for room
FinalBatchTried ==
  /\ g = "flushing" /\ g' = "reporting" /\ body' = "whole" /\ batch' = 0
  /\ \/ queued < TxCap /\ queued' = queued + 1 /\ shownDeltas' = shownDeltas + batch
        /\ UNCHANGED lost
     \/ queued = TxCap /\ lost' = lost + batch /\ UNCHANGED <<queued, shownDeltas>>
  /\ UNCHANGED <<stopping, loop, ctxDone, answerChans, gErr, streamed>>

FinalBatch ==
  /\ g = "flushing" /\ queued < TxCap
  /\ g' = "reporting" /\ body' = "whole"
  /\ queued' = queued + 1 /\ shownDeltas' = shownDeltas + batch /\ batch' = 0
  /\ UNCHANGED <<stopping, loop, ctxDone, answerChans, gErr, streamed, lost>>

\* The callback refuses deltas once the context is done.  Google hands its error
\* on; OpenAI and Mistral go on without it, so that the answer is reported with
\* the rest of its batch unsent, or is empty, its last callback refused too.
StreamCancelled ==
  /\ g \in {"streaming", "flushing"} /\ ctxDone
  /\ \/ GoFails("other") /\ UNCHANGED body
     \/ /\ g' = "reporting" /\ UNCHANGED gErr
        /\ body' = IF g = "flushing" THEN "rest" ELSE "empty"
  /\ UNCHANGED <<stopping, loop, ctxDone, answerChans, deltas>>

StreamFails ==
  /\ g = "streaming" /\ \E e \in Errors : GoFails(e)
  /\ UNCHANGED <<stopping, loop, ctxDone, answerChans, body, deltas>>

\* errCh <- err, else dropped; answerCh <- body or ctx.Done.  A select panics
\* when it picks a send on a channel that ask has closed meanwhile.
ReportError ==
  /\ g = "failing"
  /\ \/ open /\ failed' = TRUE /\ g' = "done"
     \/ ~open /\ g' = "panicked" /\ UNCHANGED failed
  /\ UNCHANGED <<stopping, loop, ctxDone, open, answered, gErr, body, deltas>>

ReportAnswer ==
  /\ g = "reporting"
  /\ \/ open /\ answered' = TRUE /\ g' = "done"
     \/ ctxDone /\ g' = "done" /\ UNCHANGED answered
     \/ ~open /\ g' = "panicked" /\ UNCHANGED answered
  /\ UNCHANGED <<stopping, loop, ctxDone, open, failed, gErr, body, deltas>>

-----------------------------------------------------------------------------
(* ask returns and AskWithRetry decides                                    *)

\* The deferred statements of ask: cancel, then close both channels.
AskReturns == open' = FALSE /\ ctxDone' = TRUE

Return(r) == call' = "returned" /\ result' = r

AskAnswered ==
  /\ call = "asking" /\ answered
  /\ AskReturns /\ answered' = FALSE
  /\ Return("answer")
  /\ UNCHANGED <<stopping, attempt, lastErr, asked, failed, stream, deltas>>

\* mutant: only the first error of a question is retried
DecideOnce(e) ==
  /\ lastErr' = e
  /\ \/ e \in Provider /\ Return("provider")
     \/ e \in FatalPattern \ Provider /\ Return("fatal")
     \/ /\ e \in Retryable \ (Provider \cup FatalPattern)
        /\ \/ attempt > 0 /\ Return("noncritical")
           \/ attempt = 0 /\ attempt < MaxAttempts - 1
              /\ call' = "backoff" /\ UNCHANGED result
     \/ e \notin Provider \cup FatalPattern \cup Retryable /\ Return("noncritical")

\* What the loop makes of an error, in the order of its tests.
Decide(e) ==
  /\ lastErr' = e
  /\ \/ e \in Provider /\ Return("provider")
     \/ e \in FatalPattern \ Provider /\ Return("fatal")
     \/ /\ e \in Retryable \ (Provider \cup FatalPattern)
        /\ \/ attempt = MaxAttempts - 1 /\ Return("noncritical")
           \/ attempt < MaxAttempts - 1 /\ call' = "backoff" /\ UNCHANGED result
     \/ e \notin Provider \cup FatalPattern \cup Retryable /\ Return("noncritical")

AskFailed ==
  /\ call = "asking" /\ failed
  /\ AskReturns /\ failed' = FALSE
  /\ Decide(gErr)
  /\ UNCHANGED <<stopping, attempt, asked, answered, stream, deltas>>

\* mutant: a deadline counts as a temporary error
AskGivesUpRetries ==
  /\ call = "asking" /\ ctxDone
  /\ AskReturns
  /\ Decide("network")
  /\ UNCHANGED <<stopping, attempt, asked, answered, failed, stream, deltas>>

\* mutant: ask waits for its goroutine only
AskGivesUpNever == FALSE

\* ctx.Err(), "deadline exceeded" or "canceled", matches none of the patterns.
AskGivesUp ==
  /\ call = "asking" /\ ctxDone
  /\ AskReturns
  /\ Decide("other")
  /\ UNCHANGED <<stopping, attempt, asked, answered, failed, stream, deltas>>

\* The delay has passed: the next ask with channels and a context of its own.
\* Its predecessor's goroutine has reported and is over.
Retry ==
  /\ call = "backoff"
  /\ attempt' = attempt + 1 /\ call' = "asking" /\ asked' = asked + 1
  /\ ctxDone' = stopping /\ open' = TRUE /\ answered' = FALSE /\ failed' = FALSE
  /\ g' = "start" /\ gErr' = "none" /\ body' = "none"
  /\ streamed' = 0 /\ batch' = 0 /\ shownDeltas' = 0 /\ lost' = 0
  /\ UNCHANGED <<stopping, result, lastErr, queued>>

BackoffCancelled ==
  /\ call = "backoff" /\ stopping
  /\ Return("noncritical")
  /\ UNCHANGED <<stopping, attempt, lastErr, asked, ctxDone, answerChans, stream, deltas>>

-----------------------------------------------------------------------------
Stream ==
  \/ StreamStarts \/ Delta \/ DeltaCut \/ ServiceEvent \/ StreamDone \/ FinalBatch
  \/ StreamCancelled \/ StreamFails \/ ReportError \/ ReportAnswer

Ask == AskAnswered \/ AskFailed \/ AskGivesUp \/ Retry \/ BackoffCancelled

AskNext == g # "panicked" /\ (Stream \/ Ask \/ Stop \/ Expire \/ BotReads)

AskSpec == AskInit /\ [][AskNext]_askvars

\* Timers fire and ready goroutines run; the provider and the bot owe nothing.
AskFairness == WF_askvars(g # "panicked" /\ Ask) /\ WF_askvars(g # "panicked" /\ Expire)

-----------------------------------------------------------------------------
\* One answer streams at a time: a retry never starts while the goroutine of
\* the attempt before it may still put deltas of its own into TxCh.
OneStream == [][asked' # asked => g = "done"]_askvars

\* A dropped connection is a temporary error: the caller hears of it only
\* after the last attempt, or when the application stops.
NetworkGivesUpLate ==
  result = "noncritical" /\ lastErr = "network" => asked = MaxAttempts \/ stopping

\* What a retry owes: it comes, and it comes alone.
RetriesInTurn == []NetworkGivesUpLate /\ OneStream

\* Batching keeps account of an answer: a delta enters TxCh once, or goes with
\* a full batch that found TxCh full, or is in the batch; an answer counts as
\* whole only with an empty batch, and while the context of its request lives no
\* other answer is reported: a rest stays behind only if the context ended.
DeltasAccounted ==
  /\ shownDeltas + lost + batch = streamed /\ lost % BatchSize = 0
  /\ body = "whole" => batch = 0
  /\ (g = "reporting" \/ answered) /\ ~ctxDone => body = "whole"

\* "Context cancelled: abort processing": giving up a request leaves the
\* goroutine to end, not to send on the channels ask has closed.
AbortIsClean == g # "panicked"
=============================================================================
