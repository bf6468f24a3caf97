--------------------------- MODULE DialogPipeline ---------------------------
(***************************************************************************)
(* One running text session (pkg/startpoint): the messages of one dialog   *)
(* on their way from the bot's RxCh through Listener, Respondent, the      *)
(* model or the operator, and back to TxCh and the saved history.          *)
(*                                                                         *)
(* A message is a number and a kind; a batch, a question and an answer are *)
(* named by the numbers of the messages they stand for.  Start and end of  *)
(* the goroutines are in TextSession, the operator's side in OperatorHub,  *)
(* the retries of one model request in AskRetry: here a request just has   *)
(* an outcome.                                                             *)
(***************************************************************************)
EXTENDS Naturals, Sequences, FiniteSets, Functions

CONSTANTS
  MaxMsgs,      \* bound: messages the user sends
  MaxReplies,   \* bound: messages the operator sends
  RxCap,        \* create.RxChanBuffer, the capacity of the session's channels
  AskLimit,     \* u.Assist.Limit, in messages: what SetUserAsk accepts
  Setups        \* what a session may be up against, see Setup

\* What a message asks for: the model, operator mode (SetOperator), an answer of
\* the operator (Operator), both; or it is of a type nobody knows.
Kinds == {"ai", "set", "ask", "both", "unknown"}
SetsMode(m) == m.kind \in {"set", "both"}
AsksOperator(m) == m.kind \in {"ask", "both"}

\* A setup: how many messages of which kinds the user sends; what a request to the model
\* may come to; u.Assist.Ignore; whether SendToTx may fail (TxCh closed, or full
\* for a second) and whether a goal or trigger is configured that End.Meta fails to
\* report; operatorErrorCh as GetConnectionErrors first returns it, open only when
\* an operator session outlived the Respondent before; whether the operator's side
\* may report that nobody is available.
Setup == [msgs : 0..MaxMsgs, kinds : SUBSET Kinds,
          outcomes : SUBSET {"answer", "escalate", "empty", "provider", "failed",
                             "fatal"},
          ignore : BOOLEAN, txFails : BOOLEAN, metaFails : BOOLEAN,
          errCh : {"closed", "live"}, noTgId : BOOLEAN]

ASSUME BoundsAssumption ==
  MaxMsgs \in Nat /\ MaxReplies \in Nat /\ RxCap \in Nat \ {0} /\ AskLimit \in Nat
ASSUME SetupsAssumption == Setups \subseteq Setup

VARIABLES
  setup,               \* chosen once, at the start of the session
  sent, rx,            \* messages sent so far; those waiting in usrCh.RxCh
  question, fullQ, answers, errs, saveQ,   \* the session's five channels
  saved,               \* what the worker handed to SaveDialog, in order
  shown,               \* answers that reached TxCh
  batch,               \* endpoint.arrMsg of this dialog and respondent
  up, cancelled, endedBy,        \* Listener in its loop; u.Ctx done; its error
  pc, deaf, cur, askTimer,       \* Respondent's control and locals
  asking,                        \* userAsk of the request under way
  opMode, rxOn, opErr, opTimer, opTimeout,  \* operator locals of Respondent
  orphans,                       \* timers that run though their variable is lost
  opReplies, replied             \* the operator session's RxCh; its total

chans == <<question, fullQ, answers, errs, saveQ>>
env == <<setup, sent, rx>>
hist == <<saved, shown>>
ctl == <<up, cancelled, endedBy>>
op == <<opMode, rxOn, opErr, opTimer, opTimeout, orphans, opReplies, replied>>
loc == <<pc, deaf, cur, askTimer, asking, batch>>
vars == <<env, chans, hist, ctl, loc, op>>

Ids == 1..MaxMsgs
Msg == [id : Ids, kind : Kinds]
Answer == [by : {"ai", "operator", "system", "fallback"}, ids : SUBSET Ids]
Record == [by : {"user", "ai", "operator"}, ids : SUBSET Ids]
Causes == {"unknown", "tx", "model", "operator", "full", "fatal", "meta"}
NoMsg == [id |-> 0, kind |-> "none"]

\* The types; the channels hold at most RxCap elements.
TypeOK ==
  /\ setup \in Setups /\ sent \in 0..MaxMsgs /\ rx \in Seq(Msg)
  /\ question \in Seq(Msg) /\ fullQ \in Seq(SUBSET Ids)
  /\ answers \in Seq(Answer) /\ errs \in Seq(Causes) /\ saveQ \in Seq(Record)
  /\ {Len(question), Len(fullQ), Len(answers), Len(errs), Len(saveQ)}
       \subseteq 0..RxCap
  /\ saved \in Seq(Record) /\ shown \subseteq Answer /\ batch \subseteq Ids
  /\ up \in BOOLEAN /\ cancelled \in BOOLEAN
  /\ endedBy \in Causes \cup {"nothing", "ctx"}
  /\ pc \in {"main", "input", "stuck", "collect", "ai", "fallback",
             "operator", "again", "done"}
  /\ deaf \in BOOLEAN /\ cur \in Msg \cup {NoMsg} /\ asking \subseteq Ids
  /\ askTimer \in {"nil", "armed", "stopped"}
  /\ opMode \in BOOLEAN /\ rxOn \in BOOLEAN /\ opErr \in {"closed", "live", "stale"}
  /\ orphans \in Nat /\ opTimer \in {"nil", "armed", "fired"} /\ opTimeout \in BOOLEAN
  /\ opReplies \in Seq({"reply", "toAI"}) /\ replied \in 0..MaxReplies

Init ==
  /\ setup \in Setups /\ opErr = setup.errCh
  /\ sent = 0 /\ rx = <<>>
  /\ question = <<>> /\ fullQ = <<>> /\ answers = <<>> /\ errs = <<>>
  /\ saveQ = <<>> /\ saved = <<>> /\ shown = {} /\ batch = {}
  /\ up = TRUE /\ cancelled = FALSE /\ endedBy = "nothing"
  /\ pc = "main" /\ deaf = FALSE /\ cur = NoMsg /\ askTimer = "nil"
  /\ asking = {}
  /\ opMode = FALSE /\ rxOn = FALSE
  /\ opTimer = "nil" /\ opTimeout = FALSE /\ orphans = 0
  /\ opReplies = <<>> /\ replied = 0

\* A send with a default: what does not fit is dropped.
TrySend(ch, e) == IF Len(ch) < RxCap THEN Append(ch, e) ELSE ch
Fits(ch) == Len(ch) < RxCap

-----------------------------------------------------------------------------
(* The environment                                                         *)

\* What arrives after the Listener is gone stays in RxCh and is left out.
UserSends(k) ==
  /\ up /\ sent < setup.msgs
  /\ sent' = sent + 1
  /\ rx' = Append(rx, [id |-> sent + 1, kind |-> k])
  /\ UNCHANGED <<setup, chans, hist, ctl, loc, op>>

Cancel ==
  /\ ~cancelled
  /\ cancelled' = TRUE
  /\ UNCHANGED <<env, chans, hist, up, endedBy, loc, op>>

-----------------------------------------------------------------------------
(* Listener: one action per case of its select                             *)

\* Echoing the message or showing an answer: TRUE when TxCh took it.
TxOutcomes == IF setup.txFails THEN BOOLEAN ELSE {TRUE}

\* The question is dropped when its channel stays full for 500 ms; the echo
\* goes to TxCh either way.
ListenerAsks ==
  /\ up /\ rx # <<>> /\ Head(rx).kind # "unknown"
  /\ rx' = Tail(rx)
  /\ question' = TrySend(question, Head(rx))
  /\ \E ok \in TxOutcomes :
       errs' = IF ok THEN errs ELSE TrySend(errs, "tx")
  /\ UNCHANGED <<setup, sent, fullQ, answers, saveQ, hist, ctl, loc, op>>

ListenerUnknown ==
  /\ up /\ rx # <<>> /\ Head(rx).kind = "unknown"
  /\ rx' = Tail(rx)
  /\ errs' = TrySend(errs, "unknown")
  /\ UNCHANGED <<setup, sent, question, fullQ, answers, saveQ, hist, ctl, loc, op>>

ListenerQuestionUnbounded ==    \* mutant: enqueueSave without the default case
  /\ up /\ fullQ # <<>>
  /\ fullQ' = Tail(fullQ)
  /\ saveQ' = Append(saveQ, [by |-> "user", ids |-> Head(fullQ)])
  /\ UNCHANGED <<env, question, answers, errs, hist, ctl, loc, op>>

ListenerQuestion ==
  /\ up /\ fullQ # <<>>
  /\ fullQ' = Tail(fullQ)
  /\ saveQ' = TrySend(saveQ, [by |-> "user", ids |-> Head(fullQ)])
  /\ UNCHANGED <<env, question, answers, errs, hist, ctl, loc, op>>

\* mutant: an answer TxCh did not take is saved all the same
ListenerAnswerKept ==
  /\ up /\ answers # <<>>
  /\ answers' = Tail(answers)
  /\ LET a == Head(answers) IN
     \E ok \in TxOutcomes :
       /\ shown' = IF ok THEN shown \cup {a} ELSE shown
       /\ errs' = IF ok THEN errs ELSE TrySend(errs, "tx")
       /\ saveQ' = TrySend(saveQ, [by |-> IF a.by = "operator" THEN "operator" ELSE "ai",
                                   ids |-> a.ids])
  /\ UNCHANGED <<env, question, fullQ, saved, ctl, loc, op>>

\* An answer that TxCh did not take, or that reports a model error, is not
\* saved; both are reported on errCh.
ListenerAnswer ==
  /\ up /\ answers # <<>>
  /\ answers' = Tail(answers)
  /\ LET a == Head(answers) IN
     \/ /\ setup.txFails
        /\ errs' = TrySend(errs, "tx")
        /\ UNCHANGED <<shown, saveQ>>
     \/ /\ a.by = "fallback"
        /\ shown' = shown \cup {a}
        /\ errs' = TrySend(errs, "model")
        /\ UNCHANGED saveQ
     \/ /\ a.by # "fallback"
        /\ shown' = shown \cup {a}
        /\ saveQ' = TrySend(saveQ, [by |-> IF a.by = "operator" THEN "operator" ELSE "ai",
                                    ids |-> a.ids])
        /\ UNCHANGED errs
  /\ UNCHANGED <<env, question, fullQ, saved, ctl, loc, op>>

\* Whatever arrives on errCh ends the Listener.
ListenerError ==
  /\ up /\ errs # <<>>
  /\ up' = FALSE /\ cancelled' = TRUE /\ endedBy' = Head(errs)
  /\ errs' = Tail(errs)
  /\ UNCHANGED <<env, question, fullQ, answers, saveQ, hist, loc, op>>

ListenerCancelled ==
  /\ up /\ cancelled
  /\ up' = FALSE /\ endedBy' = "ctx"
  /\ UNCHANGED <<env, chans, hist, cancelled, loc, op>>

\* The single save worker; it drains saveCh after the Listener is gone.
SaveWorker ==
  /\ saveQ # <<>>
  /\ saved' = Append(saved, Head(saveQ))
  /\ saveQ' = Tail(saveQ)
  /\ UNCHANGED <<env, question, fullQ, answers, errs, shown, ctl, loc, op>>

-----------------------------------------------------------------------------
(* Respondent, main select                                                 *)

\* safeStopTimer; nil stays nil.
SafeStop(t) == IF t = "nil" THEN "nil" ELSE "stopped"

\* routeQuestToOperator: SendToOperator may fail; a full fullQuestCh ends
\* the Respondent.
RouteToOperator(q) ==
  \E failed \in BOOLEAN :
    LET e == IF failed THEN TrySend(errs, "operator") ELSE errs IN
    /\ fullQ' = TrySend(fullQ, {q.id})
    /\ errs' = IF Fits(fullQ) THEN e ELSE TrySend(e, "full")
    /\ pc' = IF Fits(fullQ) THEN "main" ELSE "done"

\* startOperatorMode, for a Respondent not yet in operator mode.  A timer that
\* was never stopped runs on: only the variable that held it is overwritten.
OperatorModeOn ==
  /\ opMode' = TRUE /\ rxOn' = TRUE
  /\ opTimer' = "armed"
  /\ orphans' = IF opTimer = "armed" THEN orphans + 1 ELSE orphans
  /\ UNCHANGED <<opErr, opTimeout, opReplies, replied>>

\* The error channel of a session that is gone delivers nothing any more.
SessionGone == /\ opErr' = IF opErr = "live" THEN "stale" ELSE opErr
               /\ opReplies' = <<>>

\* A question while operator mode is on, or one that turns it on.
QuestionToOperator ==
  /\ pc = "main" /\ question # <<>> /\ (opMode \/ SetsMode(Head(question)))
  /\ cur' = Head(question) /\ question' = Tail(question)
  /\ askTimer' = SafeStop(askTimer)
  /\ \/ ~opMode /\ OperatorModeOn
     \/ opMode /\ UNCHANGED op
  /\ RouteToOperator(Head(question))
  /\ UNCHANGED <<env, answers, saveQ, hist, ctl, deaf, asking, batch>>

\* SetUserAsk: the message joins the batch unless the limit is exceeded.
Accepts == Cardinality(batch) < AskLimit

\* End.Meta for a trigger in the question or a goal in the answer: a failure is
\* sent to errCh, like any other, and ends the Listener.
MetaSent(e) == IF setup.metaFails THEN {e, TrySend(e, "meta")} ELSE {e}

QuestionToBatch ==
  /\ pc = "main" /\ question # <<>>
  /\ ~opMode /\ ~SetsMode(Head(question))
  /\ cur' = Head(question) /\ question' = Tail(question)
  /\ errs' \in MetaSent(errs)
  /\ batch' = IF Accepts THEN batch \cup {Head(question).id} ELSE batch
  /\ askTimer' = "armed"
  /\ pc' = IF deaf THEN "collect" ELSE "input"
  /\ UNCHANGED <<env, fullQ, answers, saveQ, hist, ctl, deaf, asking, op>>

\* A closed operatorErrorCh yields "": no case body applies and control falls
\* out of the select into the inputLoop.
ErrChFallsThrough ==
  /\ pc = "main" /\ opMode /\ opErr = "closed"
  /\ pc' = IF deaf THEN "collect" ELSE "input"
  /\ askTimer' = IF ~deaf /\ askTimer = "nil" THEN "armed" ELSE askTimer
  /\ UNCHANGED <<env, chans, hist, ctl, deaf, cur, asking, batch, op>>

\* "no_tg_id": back to the model, with a notice; GetConnectionErrors is asked
\* again and finds the session or, once the hub cleaned up, none.
NoOperatorAvailable ==
  /\ setup.noTgId /\ pc = "main" /\ opMode /\ opErr = "live"
  /\ opMode' = FALSE /\ rxOn' = FALSE
  /\ opErr' \in {"closed", "stale"} /\ opReplies' = <<>>
  /\ answers' = TrySend(answers, [by |-> "system", ids |-> {}])
  /\ \E failed \in BOOLEAN :
       LET e == IF failed THEN TrySend(errs, "operator") ELSE errs IN
       errs' = IF Fits(answers) THEN e ELSE TrySend(e, "full")
  /\ pc' = IF Fits(answers) THEN "main" ELSE "done"
  /\ UNCHANGED <<env, question, fullQ, saveQ, hist, ctl, deaf, cur, askTimer,
                 asking, batch, opTimer, opTimeout, orphans, replied>>

\* The AfterFunc of startOperatorMode.
OperatorTimerFires ==
  /\ \/ opTimer = "armed" /\ opTimer' = "fired" /\ UNCHANGED orphans
     \/ orphans > 0 /\ orphans' = orphans - 1 /\ UNCHANGED opTimer
  /\ opTimeout' = TRUE
  /\ UNCHANGED <<env, chans, hist, ctl, loc, opMode, rxOn, opErr, opReplies,
                 replied>>

\* The timeout is handled in every mode: notice to the user, then the current
\* question goes to the model.
OperatorTimeout ==
  /\ pc = "main" /\ opTimeout
  /\ opTimer' = "nil" /\ opTimeout' = FALSE
  /\ opMode' = FALSE /\ rxOn' = FALSE /\ SessionGone
  /\ answers' = TrySend(answers, [by |-> "system", ids |-> {}])
  /\ \/ /\ ~deaf /\ cur # NoMsg
        /\ asking' = {cur.id} /\ pc' = "again"
     \/ /\ deaf \/ cur = NoMsg
        /\ UNCHANGED <<asking, pc>>
  /\ UNCHANGED <<env, question, fullQ, errs, saveQ, hist, ctl, deaf, cur,
                 askTimer, batch, orphans, replied>>

\* The operator's session delivers a reply, or the system message that ends
\* operator mode (external: OperatorHub).
OperatorSays(r) ==
  /\ opMode /\ replied < MaxReplies /\ opReplies = <<>>
  /\ opReplies' = <<r>> /\ replied' = replied + 1
  /\ UNCHANGED <<env, chans, hist, ctl, loc, opMode, rxOn, opErr, opTimer,
                 opTimeout, orphans>>

OperatorReply ==
  /\ pc = "main" /\ opMode /\ rxOn /\ opReplies = <<"reply">>
  /\ opReplies' = <<>>
  /\ opTimer' = "nil"
  /\ opTimeout' = IF opTimer = "nil" THEN opTimeout ELSE FALSE
  /\ answers' = TrySend(answers, [by |-> "operator", ids |-> {}])
  /\ errs' = IF Fits(answers) THEN errs ELSE TrySend(errs, "full")
  /\ pc' = IF Fits(answers) THEN "main" ELSE "done"
  /\ UNCHANGED <<env, question, fullQ, saveQ, hist, ctl, deaf, cur, askTimer,
                 asking, batch, opMode, rxOn, opErr, orphans, replied>>

\* "Set-Mode-To-AI": the timer of the first reply is left running.
OperatorReleases ==
  /\ pc = "main" /\ opMode /\ rxOn /\ opReplies = <<"toAI">>
  /\ opMode' = FALSE /\ SessionGone
  /\ \E failed \in BOOLEAN :
       errs' = IF failed THEN TrySend(errs, "operator") ELSE errs
  /\ UNCHANGED <<env, question, fullQ, answers, saveQ, hist, ctl, loc, rxOn,
                 opTimer, opTimeout, orphans, replied>>

-----------------------------------------------------------------------------
(* Respondent, inputLoop                                                   *)

\* One more message while the user is typing.  Stop on a timer that is
\* already stopped returns false, and the receive that follows never returns.
InputMore ==
  /\ pc = "input" /\ question # <<>>
  /\ question' = Tail(question)
  /\ cur' = [cur EXCEPT !.kind = Head(question).kind]
  /\ \/ /\ Accepts
        /\ batch' = batch \cup {Head(question).id}
        /\ \/ askTimer = "armed" /\ UNCHANGED <<askTimer, pc>>
           \/ askTimer = "stopped" /\ pc' = "stuck" /\ UNCHANGED askTimer
     \/ /\ ~Accepts
        /\ askTimer' = "armed"
        /\ UNCHANGED <<batch, pc>>
  /\ UNCHANGED <<env, fullQ, answers, errs, saveQ, hist, ctl, deaf, asking, op>>

AskTimerFiresNever == FALSE    \* mutant: the timer of the batch is not armed

AskTimerFires ==
  /\ pc = "input" /\ askTimer = "armed"
  /\ askTimer' = "stopped"
  /\ deaf' = setup.ignore
  /\ pc' = "collect"
  /\ UNCHANGED <<env, chans, hist, ctl, cur, asking, batch, op>>

-----------------------------------------------------------------------------
(* Respondent, the batched question and its answer                         *)

\* mutant: GetUserAsk leaves the batch in place
CollectKept ==
  /\ pc = "collect" /\ batch # {} /\ Fits(fullQ)
  /\ fullQ' = Append(fullQ, batch)
  /\ asking' = batch /\ UNCHANGED batch
  /\ pc' = IF AsksOperator(cur) THEN "operator" ELSE "ai"
  /\ UNCHANGED <<env, question, answers, errs, saveQ, hist, ctl, deaf, cur,
                 askTimer, op>>

\* GetUserAsk empties the batch; the full question is recorded, then asked.
Collect ==
  /\ pc = "collect" /\ batch # {} /\ Fits(fullQ)
  /\ fullQ' = Append(fullQ, batch)
  /\ asking' = batch /\ batch' = {}
  /\ pc' = IF AsksOperator(cur) THEN "operator" ELSE "ai"
  /\ UNCHANGED <<env, question, answers, errs, saveQ, hist, ctl, deaf, cur,
                 askTimer, op>>

CollectNothing ==
  /\ pc = "collect" /\ batch = {}
  /\ pc' = "main"
  /\ UNCHANGED <<env, chans, hist, ctl, deaf, cur, askTimer, asking, batch, op>>

CollectFull ==
  /\ pc = "collect" /\ batch # {} /\ ~Fits(fullQ)
  /\ batch' = {}
  /\ errs' = TrySend(errs, "full")
  /\ pc' = "done"
  /\ UNCHANGED <<env, question, fullQ, answers, saveQ, hist, ctl, deaf, cur,
                 askTimer, asking, op>>

\* The request failed (AskWithRetry and handleAskFailure): a provider error is
\* an event only, a fatal one ends the Respondent, any other may be answered
\* with a fallback text (mode.IsSendErrMsgToUser).
RequestFails(o) ==
  /\ pc \in {"ai", "fallback", "again"} /\ o \in setup.outcomes
  /\ deaf' = FALSE /\ asking' = {}
  /\ \/ o = "provider" /\ pc' = "main" /\ UNCHANGED <<answers, errs>>
     \/ o = "fatal" /\ pc' = "done" /\ errs' = TrySend(errs, "fatal")
        /\ UNCHANGED answers
     \/ o = "failed" /\ pc' = "main" /\ UNCHANGED errs
        /\ answers' \in {answers,
                         TrySend(answers, [by |-> "fallback", ids |-> asking])}
  /\ UNCHANGED <<env, question, fullQ, saveQ, hist, ctl, cur, askTimer, batch, op>>

\* The tail of the loop for a question that SetOperator turned, while it was
\* being typed, into one for the operator: recorded again, answer dropped.
AnswerWithheld(o) ==
  /\ pc \in {"ai", "fallback"} /\ o \in setup.outcomes \cap {"answer", "empty"}
  /\ SetsMode(cur)
  /\ fullQ' = TrySend(fullQ, asking)
  /\ pc' = "main" /\ asking' = {}
  /\ UNCHANGED <<env, question, answers, errs, saveQ, hist, ctl, deaf, cur,
                 askTimer, batch, op>>

PushAnswer(by, e) ==
  /\ answers' = TrySend(answers, [by |-> by, ids |-> asking])
  /\ errs' = IF Fits(answers) THEN e ELSE TrySend(e, "full")

ModelAnswers(o) ==
  /\ pc \in {"ai", "fallback"} /\ o \in setup.outcomes \cap {"answer", "empty"}
  /\ ~SetsMode(cur)
  /\ deaf' = setup.ignore
  /\ \/ o = "answer" /\ \E e \in MetaSent(errs) : PushAnswer("ai", e)
     \/ o = "empty" /\ UNCHANGED <<answers, errs>>
  /\ pc' = "main" /\ asking' = {}
  /\ UNCHANGED <<env, question, fullQ, saveQ, hist, ctl, cur, askTimer, batch, op>>

\* The answer's operator flag: operator mode comes on, the question is sent
\* to the operator as well; then as ModelAnswers, whose answer may be empty, or
\* AnswerWithheld.
ModelEscalates ==
  /\ pc = "ai" /\ "escalate" \in setup.outcomes
  /\ \/ ~opMode /\ OperatorModeOn
     \/ opMode /\ UNCHANGED op
  /\ \E failed \in BOOLEAN :
       LET e == IF failed THEN TrySend(errs, "operator") ELSE errs IN
       \/ /\ SetsMode(cur)
          /\ fullQ' = TrySend(fullQ, asking) /\ errs' = e
          /\ UNCHANGED <<answers, deaf>>
       \/ /\ ~SetsMode(cur)
          /\ deaf' = setup.ignore
          /\ \/ \E m \in MetaSent(e) : PushAnswer("ai", m)
             \/ errs' = e /\ UNCHANGED answers
          /\ UNCHANGED fullQ
  /\ pc' = "main" /\ asking' = {}
  /\ UNCHANGED <<env, question, saveQ, hist, ctl, cur, askTimer, batch>>

\* AskOperator answered: operator mode comes on, with a fresh timer; or, when
\* the mode is on already, the timer of the first reply is stopped.  A question
\* that also sets the mode is recorded again, the operator's answer dropped.
OperatorAnswers ==
  /\ pc = "operator"
  /\ \/ ~opMode /\ OperatorModeOn
     \/ /\ opMode
        /\ opTimer' = "nil"
        /\ opTimeout' = IF opTimer = "nil" THEN opTimeout ELSE FALSE
        /\ UNCHANGED <<opMode, rxOn, opErr, orphans, opReplies, replied>>
  /\ \/ /\ SetsMode(cur)
        /\ fullQ' = TrySend(fullQ, asking)
        /\ UNCHANGED <<answers, errs, deaf>>
     \/ /\ ~SetsMode(cur)
        /\ deaf' = setup.ignore
        /\ \E e \in MetaSent(errs) : PushAnswer("operator", e)
        /\ UNCHANGED fullQ
  /\ pc' = "main" /\ asking' = {}
  /\ UNCHANGED <<env, question, saveQ, hist, ctl, cur, askTimer, batch>>

\* AskOperator failed or came back empty: the model is asked instead.
OperatorSilent ==
  /\ pc = "operator"
  /\ errs' = TrySend(errs, "operator")
  /\ pc' = "fallback"
  /\ UNCHANGED <<env, question, fullQ, answers, saveQ, hist, ctl, deaf, cur,
                 askTimer, asking, batch, op>>

\* The answer to the question repeated after an operator timeout.
ModelAnswersAgain ==
  /\ pc = "again" /\ setup.outcomes \cap {"answer", "escalate", "empty"} # {}
  /\ PushAnswer("ai", errs)
  /\ pc' = IF Fits(answers) THEN "main" ELSE "done"
  /\ deaf' = IF Fits(answers) THEN FALSE ELSE deaf
  /\ asking' = {}
  /\ UNCHANGED <<env, question, fullQ, saveQ, hist, ctl, cur, askTimer, batch, op>>

\* mutant: the main select has no case for ctx.Done
RespondentCancelledInput ==
  /\ cancelled /\ pc = "input"
  /\ pc' = "done" /\ askTimer' = "stopped"
  /\ UNCHANGED <<env, chans, hist, ctl, deaf, cur, asking, batch, op>>

\* ctx.Done in either select.
RespondentCancelled ==
  /\ cancelled /\ pc \in {"main", "input"}
  /\ pc' = "done"
  /\ askTimer' = IF pc = "input" THEN "stopped" ELSE askTimer
  /\ UNCHANGED <<env, chans, hist, ctl, deaf, cur, asking, batch, op>>

-----------------------------------------------------------------------------
Listener ==
  \/ ListenerAsks \/ ListenerUnknown \/ ListenerQuestion \/ ListenerAnswer
  \/ ListenerError \/ ListenerCancelled

Request ==
  \/ \E o \in setup.outcomes : RequestFails(o) \/ AnswerWithheld(o) \/ ModelAnswers(o)
  \/ ModelEscalates \/ OperatorAnswers \/ OperatorSilent \/ ModelAnswersAgain

Respondent ==
  \/ QuestionToOperator \/ QuestionToBatch \/ ErrChFallsThrough
  \/ OperatorTimeout \/ OperatorReply \/ OperatorReleases
  \/ InputMore \/ AskTimerFires \/ Collect \/ CollectNothing \/ CollectFull
  \/ Request \/ RespondentCancelled

Next ==
  \/ Listener \/ SaveWorker \/ Respondent
  \/ NoOperatorAvailable \/ OperatorTimerFires
  \/ \E k \in setup.kinds : UserSends(k)
  \/ \E r \in {"reply", "toAI"} : OperatorSays(r)
  \/ Cancel

Spec == Init /\ [][Next]_vars

\* Goroutines that can run do; a select that is re-entered forever takes each
\* case that stays ready (SF); requests and timers come to an end.  The user,
\* the operator and the canceller owe nothing.
Fairness ==
  /\ WF_vars(SaveWorker) /\ WF_vars(Listener) /\ WF_vars(Respondent)
  /\ SF_vars(ListenerQuestion) /\ SF_vars(ListenerAnswer)
  /\ SF_vars(ListenerAsks) /\ SF_vars(ListenerError)
  /\ SF_vars(ListenerCancelled) /\ SF_vars(RespondentCancelled)

FairSpec == Spec /\ Fairness

-----------------------------------------------------------------------------
\* "If operator mode is already on, send the message to the operator ... and do
\* not go to the model": no batch is taken to the model while operator mode is on.
OperatorModeKeepsAway == [][pc = "collect" /\ asking' # {} => ~opMode]_vars

\* What the worker saved or will save, in order.
Recorded == saved \o saveQ

\* An answer enters the history only if the user got it, and a fallback text
\* that stands for a model error never does.
SavedWasShown ==
  \A r \in Range(Recorded) :
    r.by # "user" /\ r.ids # {} => [by |-> r.by, ids |-> r.ids] \in shown

\* Batching neither repeats nor splits: a message is recorded as part of one
\* full question, however it was delayed, batched or interleaved.  Only the
\* SetOperator flag may have it recorded twice (AnswerWithheld).
ByUser(i) == Recorded[i].by = "user"
RecordedOnce ==
  setup.kinds \cap {"set", "both"} = {} =>
    /\ \A i, j \in DOMAIN Recorded :
         i # j /\ ByUser(i) /\ ByUser(j) => Recorded[i].ids \cap Recorded[j].ids = {}
    /\ \A i, j \in DOMAIN fullQ : i # j => fullQ[i] \cap fullQ[j] = {}
    /\ \A i \in DOMAIN Recorded, j \in DOMAIN fullQ :
         ByUser(i) => Recorded[i].ids \cap fullQ[j] = {}

InFlight(i) == \/ \E m \in Range(question) : m.id = i
               \/ i \in batch \/ i \in asking

\* A question that reached the Respondent is served (or the session ends): no
\* order of typing, timers and answers leaves it lying.
QuestionsServed == \A i \in Ids : InFlight(i) ~> (~InFlight(i) \/ ~up)

\* On cancellation the Respondent ends by itself.
RespondentEnds == cancelled ~> pc = "done"

\* A session goes on while it lasts, and ends when it is to end.
DialogGoesOn == QuestionsServed /\ RespondentEnds
=============================================================================
