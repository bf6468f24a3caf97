------------------------ MODULE DialogPipelineProofs ------------------------
(***************************************************************************)
(* What TLAPS proves of DialogPipeline, for any number of messages and     *)
(* replies, any capacity of the channels and any setup of a session: the   *)
(* types, that only shown answers are saved, and that no message is        *)
(* recorded in two questions.                                              *)
(***************************************************************************)
EXTENDS DialogPipeline, SequenceTheorems, TLAPS

-----------------------------------------------------------------------------
(* Channels                                                                *)

Channel(ch, S) == ch \in Seq(S) /\ Len(ch) \in 0..RxCap

\* A non-blocking send leaves a channel a channel.
LEMMA TrySendChannel ==
  ASSUME NEW S, NEW ch, Channel(ch, S), NEW e \in S
  PROVE  Channel(TrySend(ch, e), S)
  BY BoundsAssumption DEF Channel, TrySend

LEMMA TailChannel ==
  ASSUME NEW S, NEW ch, Channel(ch, S), ch # <<>>
  PROVE  Channel(Tail(ch), S) /\ Head(ch) \in S
  BY BoundsAssumption DEF Channel

\* What one step may do to errs: lose its head, or be sent up to three errors.
Sent(ch) == {ch} \cup {TrySend(ch, e) : e \in Causes}
ErrsStep ==
  \/ errs # <<>> /\ errs' = Tail(errs)
  \/ \E e \in Sent(errs) : \E f \in Sent(e) : errs' \in Sent(f)

LEMMA ErrsStepChannel ==
  ASSUME Channel(errs, Causes), ErrsStep PROVE Channel(errs', Causes)
<1>1. ASSUME NEW ch, Channel(ch, Causes), NEW e \in Sent(ch) PROVE Channel(e, Causes)
  BY <1>1, TrySendChannel DEF Sent
<1>2. CASE errs # <<>> /\ errs' = Tail(errs)
  BY <1>2, TailChannel
<1>3. ASSUME NEW e \in Sent(errs), NEW f \in Sent(e), errs' \in Sent(f)
      PROVE  Channel(errs', Causes)
  BY <1>1, <1>3
<1>4. QED
  BY <1>2, <1>3 DEF ErrsStep

\* The shapes in which the actions state it.
LEMMA ErrsSent ==
  /\ errs' = errs => ErrsStep
  /\ \A e \in Causes : errs' = TrySend(errs, e) => ErrsStep
  /\ \A e, f \in Causes : errs' = TrySend(TrySend(errs, e), f) => ErrsStep
  /\ \A e, f, g \in Causes :
       errs' = TrySend(TrySend(TrySend(errs, e), f), g) => ErrsStep
<1>1. \A ch : ch \in Sent(ch) /\ \A e \in Causes : TrySend(ch, e) \in Sent(ch)
  BY DEF Sent
<1>2. QED
  BY <1>1 DEF ErrsStep

LEMMA ErrsStepAlways == [Next]_vars => ErrsStep
<1> SUFFICES ASSUME [Next]_vars PROVE ErrsStep
  OBVIOUS
<1>a. {"unknown", "tx", "model", "operator", "full", "fatal", "meta"} \subseteq Causes
  BY DEF Causes
<1>b. errs # <<>> /\ errs' = Tail(errs) => ErrsStep
  BY DEF ErrsStep
<1> USE <1>a, <1>b, ErrsSent
<1>1. CASE Listener
  BY <1>1 DEF Listener, ListenerAsks, ListenerUnknown, ListenerQuestion, ListenerAnswer,
     ListenerError, ListenerCancelled, chans
<1>2. CASE SaveWorker
  BY <1>2 DEF SaveWorker
<1>3. ASSUME NEW o \in setup.outcomes, RequestFails(o) \/ AnswerWithheld(o) \/ ModelAnswers(o)
      PROVE  ErrsStep
  BY <1>3 DEF RequestFails, AnswerWithheld, ModelAnswers, PushAnswer, MetaSent
<1>4. CASE ModelEscalates
  BY <1>4 DEF ModelEscalates, PushAnswer, MetaSent
<1>5. CASE OperatorAnswers \/ OperatorSilent \/ ModelAnswersAgain
  BY <1>5 DEF OperatorAnswers, OperatorSilent, ModelAnswersAgain, PushAnswer, MetaSent
<1>6. CASE QuestionToOperator
  BY <1>6 DEF QuestionToOperator, RouteToOperator
<1>7. CASE QuestionToBatch \/ ErrChFallsThrough \/ OperatorTimeout
  BY <1>7 DEF QuestionToBatch, ErrChFallsThrough, OperatorTimeout, chans, MetaSent
<1>8. CASE OperatorReply \/ OperatorReleases \/ NoOperatorAvailable
  BY <1>8 DEF OperatorReply, OperatorReleases, NoOperatorAvailable
<1>9. CASE InputMore \/ AskTimerFires \/ Collect \/ CollectNothing \/ CollectFull
  BY <1>9 DEF InputMore, AskTimerFires, Collect, CollectNothing, CollectFull, chans
<1>10. CASE RespondentCancelled \/ OperatorTimerFires \/ Cancel
  BY <1>10 DEF RespondentCancelled, OperatorTimerFires, Cancel, chans
<1>11. ASSUME NEW k, UserSends(k) PROVE ErrsStep
  BY <1>11 DEF UserSends, chans
<1>12. ASSUME NEW r, OperatorSays(r) PROVE ErrsStep
  BY <1>12 DEF OperatorSays, chans
<1>13. CASE UNCHANGED vars
  BY <1>13 DEF vars, chans
<1>14. QED
  BY <1>1, <1>2, <1>3, <1>4, <1>5, <1>6, <1>7, <1>8, <1>9, <1>10, <1>11, <1>12,
     <1>13 DEF Next, Respondent, Request

\* What one step may do to the messages on their way from rx to the history.
Arrives ==
  /\ sent < setup.msgs /\ sent' = sent + 1
  /\ \E k \in setup.kinds : rx' = Append(rx, [id |-> sent + 1, kind |-> k])
  /\ UNCHANGED <<question, batch, fullQ, saved, saveQ>>
Passes ==
  /\ rx # <<>> /\ rx' = Tail(rx)
  /\ question' = question \/ question' = TrySend(question, Head(rx))
  /\ UNCHANGED <<sent, batch, fullQ, saved, saveQ>>
Routes ==
  /\ question # <<>> /\ question' = Tail(question)
  /\ fullQ' = TrySend(fullQ, {Head(question).id})
  /\ UNCHANGED <<sent, rx, batch, saved, saveQ>>
Batches ==
  /\ question # <<>> /\ question' = Tail(question)
  /\ batch' = batch \/ batch' = batch \cup {Head(question).id}
  /\ UNCHANGED <<sent, rx, fullQ, saved, saveQ>>
Collects ==
  /\ batch' = {}
  /\ fullQ' = fullQ \/ fullQ' = TrySend(fullQ, batch)
  /\ UNCHANGED <<sent, rx, question, saved, saveQ>>
RecordsAgain ==
  /\ SetsMode(cur) /\ fullQ' = TrySend(fullQ, asking)
  /\ UNCHANGED <<sent, rx, question, batch, saved, saveQ>>
RecordsQuestion ==
  /\ fullQ # <<>> /\ fullQ' = Tail(fullQ)
  /\ saveQ' = TrySend(saveQ, [by |-> "user", ids |-> Head(fullQ)])
  /\ UNCHANGED <<sent, rx, question, batch, saved>>
RecordsAnswer ==
  /\ answers # <<>> /\ Head(answers).by # "fallback"
  /\ shown' = shown \cup {Head(answers)}
  /\ saveQ' = TrySend(saveQ, [by |-> IF Head(answers).by = "operator" THEN "operator" ELSE "ai",
                              ids |-> Head(answers).ids])
  /\ UNCHANGED <<sent, rx, question, batch, fullQ, saved>>
Saves ==
  /\ saveQ # <<>> /\ saved' = Append(saved, Head(saveQ)) /\ saveQ' = Tail(saveQ)
  /\ UNCHANGED <<sent, rx, question, batch, fullQ>>
Rests == UNCHANGED <<sent, rx, question, batch, fullQ, saved, saveQ>>

Conveyor ==
  \/ Arrives \/ Passes \/ Routes \/ Batches \/ Collects \/ RecordsAgain
  \/ RecordsQuestion \/ RecordsAnswer \/ Saves \/ Rests

LEMMA ConveyorAlways == [Next]_vars => Conveyor
<1> SUFFICES ASSUME [Next]_vars PROVE Conveyor
  OBVIOUS
<1> USE DEF Conveyor
<1>1. CASE ListenerAsks \/ ListenerUnknown
  BY <1>1 DEF ListenerAsks, ListenerUnknown, Passes, hist, loc
<1>2. CASE ListenerQuestion
  BY <1>2 DEF ListenerQuestion, RecordsQuestion, env, hist, loc
<1>3. CASE ListenerAnswer
  BY <1>3 DEF ListenerAnswer, RecordsAnswer, Rests, env, loc
<1>4. CASE SaveWorker
  BY <1>4 DEF SaveWorker, Saves, env, loc
<1>5. CASE \/ ListenerError \/ ListenerCancelled \/ AskTimerFires \/ CollectNothing
           \/ ErrChFallsThrough \/ OperatorTimeout
  BY <1>5 DEF ListenerError, ListenerCancelled, AskTimerFires, CollectNothing,
     ErrChFallsThrough, OperatorTimeout, Rests, env, chans, hist, loc
<1>6. ASSUME NEW o \in setup.outcomes, RequestFails(o) \/ ModelAnswers(o)
      PROVE  Conveyor
  BY <1>6 DEF RequestFails, ModelAnswers, Rests, env, hist
<1>7. ASSUME NEW o \in setup.outcomes, AnswerWithheld(o) PROVE Conveyor
  BY <1>7 DEF AnswerWithheld, RecordsAgain, env, hist
<1>8. CASE ModelEscalates
  BY <1>8 DEF ModelEscalates, RecordsAgain, Rests, env, hist
<1>9. CASE \/ OperatorAnswers \/ OperatorSilent \/ ModelAnswersAgain
           \/ OperatorReply \/ OperatorReleases \/ NoOperatorAvailable
  BY <1>9 DEF OperatorAnswers, OperatorSilent, ModelAnswersAgain, OperatorReply,
     OperatorReleases, NoOperatorAvailable, RecordsAgain, Rests, env, hist, loc
<1>10. CASE QuestionToOperator
  BY <1>10 DEF QuestionToOperator, RouteToOperator, Routes, env, hist
<1>11. CASE QuestionToBatch \/ InputMore
  BY <1>11 DEF QuestionToBatch, InputMore, Batches, env, hist
<1>12. CASE Collect \/ CollectFull
  BY <1>12 DEF Collect, CollectFull, Collects, Fits, TrySend, env, hist
<1>13. CASE RespondentCancelled \/ OperatorTimerFires \/ Cancel
  BY <1>13 DEF RespondentCancelled, OperatorTimerFires, Cancel, Rests, env, chans, hist, loc
<1>14. ASSUME NEW k \in setup.kinds, UserSends(k) PROVE Conveyor
  BY <1>14 DEF UserSends, Arrives, chans, hist, loc
<1>15. ASSUME NEW r, OperatorSays(r) PROVE Conveyor
  BY <1>15 DEF OperatorSays, Rests, env, chans, hist, loc
<1>16. CASE UNCHANGED vars
  BY <1>16 DEF vars, Rests, env, chans, hist, loc
<1>17. QED
  BY <1>1, <1>2, <1>3, <1>4, <1>5, <1>6, <1>7, <1>8, <1>9, <1>10, <1>11, <1>12,
     <1>13, <1>14, <1>15, <1>16 DEF Next, Listener, Respondent, Request

\* ... to answers: lose its head, or be sent an answer; a notice of the system
\* stands for no message.
Sound(a) == a.by = "system" => a.ids = {}
AnswersStep ==
  \/ answers' = answers
  \/ answers # <<>> /\ answers' = Tail(answers)
  \/ \E a \in Answer : Sound(a) /\ answers' = TrySend(answers, a)

LEMMA AnswersStepAlways == asking \in SUBSET Ids /\ [Next]_vars => AnswersStep
<1> SUFFICES ASSUME asking \in SUBSET Ids, [Next]_vars PROVE AnswersStep
  OBVIOUS
<1>a. ASSUME NEW b \in {"ai", "operator", "fallback"}, NEW i \in SUBSET Ids
      PROVE  [by |-> b, ids |-> i] \in Answer /\ Sound([by |-> b, ids |-> i])
  BY DEF Answer, Sound
<1>b. [by |-> "system", ids |-> {}] \in Answer /\ Sound([by |-> "system", ids |-> {}])
  BY DEF Answer, Sound
<1>c. /\ {} \in SUBSET Ids
      /\ {"ai", "operator", "fallback"} = {"ai"} \cup {"operator", "fallback"}
  OBVIOUS
<1> USE DEF AnswersStep
<1>1. CASE Listener
  BY <1>1 DEF Listener, ListenerAsks, ListenerUnknown, ListenerQuestion, ListenerAnswer,
     ListenerError, ListenerCancelled, chans
<1>2. CASE SaveWorker
  BY <1>2 DEF SaveWorker
<1>3. ASSUME NEW o \in setup.outcomes, RequestFails(o) \/ AnswerWithheld(o) \/ ModelAnswers(o)
      PROVE  AnswersStep
  BY <1>3, <1>a DEF RequestFails, AnswerWithheld, ModelAnswers, PushAnswer
<1>4. CASE ModelEscalates \/ OperatorAnswers \/ OperatorSilent \/ ModelAnswersAgain
  BY <1>4, <1>a DEF ModelEscalates, OperatorAnswers, OperatorSilent, ModelAnswersAgain,
     PushAnswer
<1>5. CASE QuestionToOperator \/ QuestionToBatch \/ ErrChFallsThrough \/ OperatorTimeout
  BY <1>5, <1>b DEF QuestionToOperator, QuestionToBatch, ErrChFallsThrough,
     OperatorTimeout, chans
<1>6. CASE OperatorReply \/ OperatorReleases \/ NoOperatorAvailable
  BY <1>6, <1>a, <1>b, <1>c DEF OperatorReply, OperatorReleases, NoOperatorAvailable
<1>7. CASE InputMore \/ AskTimerFires \/ Collect \/ CollectNothing \/ CollectFull
  BY <1>7 DEF InputMore, AskTimerFires, Collect, CollectNothing, CollectFull, chans
<1>8. CASE RespondentCancelled \/ OperatorTimerFires \/ Cancel
  BY <1>8 DEF RespondentCancelled, OperatorTimerFires, Cancel, chans
<1>9. ASSUME NEW k, UserSends(k) PROVE AnswersStep
  BY <1>9 DEF UserSends, chans
<1>10. ASSUME NEW r, OperatorSays(r) PROVE AnswersStep
  BY <1>10 DEF OperatorSays, chans
<1>11. CASE UNCHANGED vars
  BY <1>11 DEF vars, chans
<1>12. QED
  BY <1>1, <1>2, <1>3, <1>4, <1>5, <1>6, <1>7, <1>8, <1>9, <1>10, <1>11
     DEF Next, Respondent, Request

-----------------------------------------------------------------------------
(* Types                                                                   *)

Channels ==
  /\ Channel(question, Msg) /\ Channel(fullQ, SUBSET Ids)
  /\ Channel(answers, Answer) /\ Channel(errs, Causes) /\ Channel(saveQ, Record)

LEMMA AnswersStepChannel ==
  ASSUME Channel(answers, Answer), AnswersStep PROVE Channel(answers', Answer)
<1>1. CASE answers' = answers
  BY <1>1
<1>2. CASE answers # <<>> /\ answers' = Tail(answers)
  BY <1>2, TailChannel
<1>3. ASSUME NEW a \in Answer, answers' = TrySend(answers, a)
      PROVE  Channel(answers', Answer)
  BY <1>3, TrySendChannel
<1>4. QED
  BY <1>1, <1>2, <1>3 DEF AnswersStep

ConveyorTypes ==
  /\ sent \in 0..MaxMsgs /\ rx \in Seq(Msg) /\ batch \subseteq Ids /\ saved \in Seq(Record)
  /\ Channel(question, Msg) /\ Channel(fullQ, SUBSET Ids) /\ Channel(saveQ, Record)

LEMMA ConveyorTyped ==
  ASSUME ConveyorTypes, Channel(answers, Answer), setup \in Setup, asking \subseteq Ids,
         Conveyor
  PROVE  ConveyorTypes'
<1> USE DEF ConveyorTypes
<1>a. ConveyorTypes' <=>
        /\ sent' \in 0..MaxMsgs /\ rx' \in Seq(Msg) /\ batch' \subseteq Ids
        /\ saved' \in Seq(Record) /\ Channel(question', Msg)
        /\ Channel(fullQ', SUBSET Ids) /\ Channel(saveQ', Record)
  BY DEF Channel
<1>b. ASSUME question # <<>>
      PROVE  Channel(Tail(question), Msg) /\ Head(question).id \in Ids
  BY <1>b, TailChannel DEF Msg
<1>1. CASE Arrives
  <2>1. PICK k \in setup.kinds : rx' = Append(rx, [id |-> sent + 1, kind |-> k])
    BY <1>1 DEF Arrives
  <2>2. /\ setup.msgs \in 0..MaxMsgs
        /\ setup.kinds \subseteq Kinds
    BY DEF Setup
  <2>3. sent' \in 0..MaxMsgs /\ sent + 1 \in Ids
    BY <1>1, <2>2, BoundsAssumption DEF Arrives, Ids
  <2>4. [id |-> sent + 1, kind |-> k] \in Msg
    BY <2>2, <2>3 DEF Msg
  <2>5. rx' \in Seq(Msg)
    BY <2>1, <2>4
  <2>6. QED
    BY <1>1, <1>a, <2>3, <2>5 DEF Arrives
<1>2. CASE Passes
  <2>1. rx' \in Seq(Msg) /\ Head(rx) \in Msg
    BY <1>2 DEF Passes
  <2>2. Channel(TrySend(question, Head(rx)), Msg)
    BY <2>1, TrySendChannel
  <2>3. QED
    BY <1>2, <1>a, <2>1, <2>2 DEF Passes
<1>3. CASE Routes
  <2>1. Channel(TrySend(fullQ, {Head(question).id}), SUBSET Ids)
    BY <1>3, <1>b, TrySendChannel DEF Routes
  <2>2. QED
    BY <1>3, <1>a, <1>b, <2>1 DEF Routes
<1>4. CASE Batches
  BY <1>4, <1>a, <1>b DEF Batches
<1>5. CASE Collects
  BY <1>5, <1>a, TrySendChannel DEF Collects
<1>6. CASE RecordsAgain
  BY <1>6, <1>a, TrySendChannel DEF RecordsAgain
<1>7. CASE RecordsQuestion
  <2>1. Channel(fullQ', SUBSET Ids) /\ Head(fullQ) \in SUBSET Ids
    BY <1>7, TailChannel DEF RecordsQuestion
  <2>2. [by |-> "user", ids |-> Head(fullQ)] \in Record
    BY <2>1 DEF Record
  <2>3. QED
    BY <1>7, <1>a, <2>1, <2>2, TrySendChannel DEF RecordsQuestion
<1>8. CASE RecordsAnswer
  <2>1. Head(answers) \in Answer
    BY <1>8, TailChannel DEF RecordsAnswer
  <2>2. [by |-> IF Head(answers).by = "operator" THEN "operator" ELSE "ai",
         ids |-> Head(answers).ids] \in Record
    BY <2>1 DEF Record, Answer
  <2>3. QED
    BY <1>8, <1>a, <2>2, TrySendChannel DEF RecordsAnswer
<1>9. CASE Saves
  <2>1. Channel(saveQ', Record) /\ Head(saveQ) \in Record
    BY <1>9, TailChannel DEF Saves
  <2>2. saved' \in Seq(Record)
    BY <1>9, <2>1 DEF Saves
  <2>3. QED
    BY <1>9, <1>a, <2>1, <2>2 DEF Saves
<1>10. CASE Rests
  BY <1>10, <1>a DEF Rests
<1>11. QED
  BY <1>1, <1>2, <1>3, <1>4, <1>5, <1>6, <1>7, <1>8, <1>9, <1>10 DEF Conveyor
\* What only the Listener and Cancel change.
ListenerTypes ==
  /\ setup \in Setups /\ shown \subseteq Answer
  /\ up \in BOOLEAN /\ cancelled \in BOOLEAN
  /\ endedBy \in Causes \cup {"nothing", "ctx"}

LEMMA ListenerTyped ==
  ASSUME ListenerTypes, Channels, [Next]_vars PROVE ListenerTypes'
<1>a. /\ answers # <<>> => Head(answers) \in Answer
      /\ errs # <<>> => Head(errs) \in Causes
  BY TailChannel DEF Channels
<1> USE DEF ListenerTypes
<1>1. CASE ListenerAnswer
  BY <1>1, <1>a DEF ListenerAnswer, env, ctl
<1>2. CASE ListenerError
  BY <1>2, <1>a DEF ListenerError, env, hist
<1>3. CASE ListenerCancelled
  BY <1>3 DEF ListenerCancelled, env, hist
<1>4. CASE Cancel
  BY <1>4 DEF Cancel, env, hist
<1>5. CASE UNCHANGED <<setup, shown, up, cancelled, endedBy>>
  BY <1>5
<1>6. CASE ListenerAsks \/ ListenerUnknown \/ ListenerQuestion \/ SaveWorker
  BY <1>5, <1>6 DEF ListenerAsks, ListenerUnknown, ListenerQuestion, SaveWorker, env, hist,
     ctl
<1>7. ASSUME NEW o \in setup.outcomes, RequestFails(o) \/ AnswerWithheld(o) \/ ModelAnswers(o)
      PROVE  ListenerTypes'
  BY <1>5, <1>7 DEF RequestFails, AnswerWithheld, ModelAnswers, env, hist, ctl
<1>8. CASE ModelEscalates \/ OperatorAnswers \/ OperatorSilent \/ ModelAnswersAgain
  BY <1>5, <1>8 DEF ModelEscalates, OperatorAnswers, OperatorSilent, ModelAnswersAgain, env,
     hist, ctl
<1>9. CASE QuestionToOperator \/ QuestionToBatch \/ ErrChFallsThrough \/ InputMore
  BY <1>5, <1>9 DEF QuestionToOperator, QuestionToBatch, ErrChFallsThrough, InputMore, env,
     hist, ctl
<1>10. CASE OperatorTimeout \/ OperatorReply \/ OperatorReleases \/ NoOperatorAvailable
  BY <1>5, <1>10 DEF OperatorTimeout, OperatorReply, OperatorReleases, NoOperatorAvailable,
     env, hist, ctl
<1>11. CASE AskTimerFires \/ Collect \/ CollectNothing \/ CollectFull
  BY <1>5, <1>11 DEF AskTimerFires, Collect, CollectNothing, CollectFull, env, hist, ctl
<1>12. CASE RespondentCancelled \/ OperatorTimerFires
  BY <1>5, <1>12 DEF RespondentCancelled, OperatorTimerFires, env, hist, ctl
<1>13. ASSUME NEW k, UserSends(k) PROVE ListenerTypes'
  BY <1>5, <1>13 DEF UserSends, hist, ctl
<1>14. ASSUME NEW r, OperatorSays(r) PROVE ListenerTypes'
  BY <1>5, <1>14 DEF OperatorSays, env, hist, ctl
<1>15. CASE UNCHANGED vars
  BY <1>5, <1>15 DEF vars, env, hist, ctl
<1>16. QED
  BY <1>1, <1>2, <1>3, <1>4, <1>6, <1>7, <1>8, <1>9, <1>10, <1>11, <1>12, <1>13,
     <1>14, <1>15 DEF Next, Listener, Respondent, Request

\* What the Respondent keeps of the operator.
OperatorTypes ==
  /\ opMode \in BOOLEAN /\ rxOn \in BOOLEAN /\ opErr \in {"closed", "live", "stale"}
  /\ orphans \in Nat /\ opTimer \in {"nil", "armed", "fired"} /\ opTimeout \in BOOLEAN
  /\ opReplies \in Seq({"reply", "toAI"}) /\ replied \in 0..MaxReplies

LEMMA OperatorTyped ==
  ASSUME OperatorTypes, [Next]_vars PROVE OperatorTypes'
<1> USE BoundsAssumption DEF OperatorTypes
<1>a. CASE UNCHANGED op
  BY <1>a DEF op
<1>b. ASSUME OperatorModeOn PROVE OperatorTypes'
  BY <1>b DEF OperatorModeOn
<1>c. <<>> \in Seq({"reply", "toAI"})
  OBVIOUS
<1>1. CASE Listener \/ SaveWorker \/ Cancel
  BY <1>1, <1>a DEF Listener, ListenerAsks, ListenerUnknown, ListenerQuestion, ListenerAnswer,
     ListenerError, ListenerCancelled, SaveWorker, Cancel
<1>2. ASSUME NEW o \in setup.outcomes, RequestFails(o) \/ AnswerWithheld(o) \/ ModelAnswers(o)
      PROVE  OperatorTypes'
  BY <1>2, <1>a DEF RequestFails, AnswerWithheld, ModelAnswers
<1>3. CASE ModelEscalates \/ QuestionToOperator
  BY <1>3, <1>a, <1>b DEF ModelEscalates, QuestionToOperator
<1>4. CASE OperatorAnswers /\ ~OperatorModeOn
  BY <1>4 DEF OperatorAnswers
<1>5. CASE OperatorSilent \/ ModelAnswersAgain \/ QuestionToBatch \/ InputMore
  BY <1>5, <1>a DEF OperatorSilent, ModelAnswersAgain, QuestionToBatch, InputMore
<1>6. CASE ErrChFallsThrough \/ RespondentCancelled
  BY <1>6, <1>a DEF ErrChFallsThrough, RespondentCancelled
<1>7. CASE AskTimerFires \/ Collect \/ CollectNothing \/ CollectFull
  BY <1>7, <1>a DEF AskTimerFires, Collect, CollectNothing, CollectFull
<1>8. CASE OperatorTimeout
  BY <1>c, <1>8 DEF OperatorTimeout, SessionGone
<1>9. CASE OperatorReply
  BY <1>c, <1>9 DEF OperatorReply
<1>10. CASE OperatorReleases
  BY <1>c, <1>10 DEF OperatorReleases, SessionGone
<1>11. CASE NoOperatorAvailable
  BY <1>c, <1>11 DEF NoOperatorAvailable
<1>12. CASE OperatorTimerFires
  <2>1. orphans' \in Nat /\ opTimer' \in {"nil", "armed", "fired"} /\ opTimeout' \in BOOLEAN
    BY <1>12 DEF OperatorTimerFires
  <2>2. UNCHANGED <<opMode, rxOn, opErr, opReplies, replied>>
    BY <1>12 DEF OperatorTimerFires
  <2>3. QED
    BY <2>1, <2>2
<1>13. ASSUME NEW k, UserSends(k) PROVE OperatorTypes'
  BY <1>a, <1>13 DEF UserSends
<1>14. ASSUME NEW r \in {"reply", "toAI"}, OperatorSays(r) PROVE OperatorTypes'
  BY <1>14 DEF OperatorSays
<1>15. CASE UNCHANGED vars
  BY <1>a, <1>15 DEF vars
<1>16. QED
  BY <1>b, <1>1, <1>2, <1>3, <1>4, <1>5, <1>6, <1>7, <1>8, <1>9, <1>10, <1>11, <1>12,
     <1>13, <1>14, <1>15 DEF Next, Respondent, Request

\* The Respondent's control.  HasCurrent is what TypeOK needs to be inductive:
\* there is a current question in operator mode and wherever the Respondent is
\* busy with one.
RespondentTypes ==
  /\ pc \in {"main", "input", "stuck", "collect", "ai", "fallback",
             "operator", "again", "done"}
  /\ deaf \in BOOLEAN /\ cur \in Msg \cup {NoMsg} /\ asking \subseteq Ids
  /\ askTimer \in {"nil", "armed", "stopped"}
HasCurrent == opMode \/ pc \notin {"main", "done"} => cur \in Msg

LEMMA RespondentTyped ==
  ASSUME RespondentTypes, HasCurrent, Channels, batch \subseteq Ids, setup \in Setup,
         [Next]_vars
  PROVE  RespondentTypes' /\ HasCurrent'
<1>a. /\ question # <<>> => Head(question) \in Msg
      /\ setup.ignore \in BOOLEAN
  BY TailChannel DEF Channels, Setup
<1>b. \A m, q \in Msg : [m EXCEPT !.kind = q.kind] \in Msg /\ m.id \in Ids
  BY DEF Msg
<1> USE <1>a DEF RespondentTypes, HasCurrent
<1>c. CASE UNCHANGED <<pc, deaf, cur, asking, askTimer>> /\ (opMode' => opMode)
  BY <1>c
<1>1. CASE Listener \/ SaveWorker \/ Cancel
  BY <1>1, <1>c DEF Listener, ListenerAsks, ListenerUnknown, ListenerQuestion, ListenerAnswer,
     ListenerError, ListenerCancelled, SaveWorker, Cancel, loc, op
<1>2. ASSUME NEW o \in setup.outcomes, RequestFails(o) PROVE RespondentTypes' /\ HasCurrent'
  BY <1>2 DEF RequestFails, op
<1>3. ASSUME NEW o \in setup.outcomes, AnswerWithheld(o) \/ ModelAnswers(o)
      PROVE  RespondentTypes' /\ HasCurrent'
  BY <1>3 DEF AnswerWithheld, ModelAnswers, op
<1>4. CASE ModelEscalates
  BY <1>4 DEF ModelEscalates, op
<1>5. CASE OperatorAnswers \/ OperatorSilent
  BY <1>5 DEF OperatorAnswers, OperatorSilent, op
<1>6. CASE ModelAnswersAgain
  BY <1>6 DEF ModelAnswersAgain, op
<1>7. CASE QuestionToOperator
  <2>1. cur' \in Msg /\ pc' \in {"main", "done"} /\ askTimer' \in {askTimer, "nil", "stopped"}
    BY <1>7 DEF QuestionToOperator, RouteToOperator, SafeStop
  <2>2. QED
    BY <1>7, <2>1 DEF QuestionToOperator
<1>8. CASE QuestionToBatch
  BY <1>8 DEF QuestionToBatch, op
<1>9. CASE ErrChFallsThrough
  BY <1>9 DEF ErrChFallsThrough, op
<1>10. CASE OperatorTimeout
  BY <1>10, <1>b DEF OperatorTimeout
<1>11. CASE OperatorReply \/ NoOperatorAvailable
  BY <1>11 DEF OperatorReply, NoOperatorAvailable
<1>12. CASE OperatorReleases \/ OperatorTimerFires
  BY <1>12, <1>c DEF OperatorReleases, OperatorTimerFires, loc
<1>13. CASE InputMore
  <2>1. pc = "input" /\ cur \in Msg /\ Head(question) \in Msg /\ cur' \in Msg
    BY <1>13, <1>b DEF InputMore
  <2>2. pc' \in {"input", "stuck"} /\ askTimer' \in {askTimer, "armed"}
    BY <1>13 DEF InputMore
  <2>3. UNCHANGED <<deaf, asking>>
    BY <1>13 DEF InputMore
  <2>4. QED
    BY <2>1, <2>2, <2>3
<1>14. CASE AskTimerFires
  BY <1>14 DEF AskTimerFires, op
<1>15. CASE Collect
  BY <1>15 DEF Collect, op
<1>16. CASE CollectNothing \/ CollectFull
  BY <1>16 DEF CollectNothing, CollectFull, op
<1>17. CASE RespondentCancelled
  BY <1>17 DEF RespondentCancelled, op
<1>18. ASSUME NEW k, UserSends(k) PROVE RespondentTypes' /\ HasCurrent'
  BY <1>18, <1>c DEF UserSends, loc, op
<1>19. ASSUME NEW r, OperatorSays(r) PROVE RespondentTypes' /\ HasCurrent'
  BY <1>19, <1>c DEF OperatorSays, loc
<1>20. CASE UNCHANGED vars
  BY <1>20, <1>c DEF vars, loc, op
<1>21. QED
  BY <1>1, <1>2, <1>3, <1>4, <1>5, <1>6, <1>7, <1>8, <1>9, <1>10, <1>11, <1>12, <1>13,
     <1>14, <1>15, <1>16, <1>17, <1>18, <1>19, <1>20 DEF Next, Respondent, Request

LEMMA TypeParts ==
  TypeOK => /\ ListenerTypes /\ OperatorTypes /\ RespondentTypes /\ ConveyorTypes
            /\ Channels /\ setup \in Setup
  BY SetupsAssumption DEF TypeOK, ListenerTypes, OperatorTypes, RespondentTypes,
     ConveyorTypes, Channels, Channel

Typed == TypeOK /\ HasCurrent

LEMMA InitTyped == Init => Typed
<1> SUFFICES ASSUME Init PROVE Typed
  OBVIOUS
<1>1. opErr \in {"closed", "live", "stale"} /\ HasCurrent
  BY SetupsAssumption DEF Init, Setup, HasCurrent
<1>2. \A S : <<>> \in Seq(S) /\ Len(<<>>) = 0
  OBVIOUS
<1>3. 0 \in 0..MaxMsgs /\ 0 \in 0..MaxReplies /\ 0 \in 0..RxCap /\ 0 \in Nat
  BY BoundsAssumption
<1>4. {Len(question), Len(fullQ), Len(answers), Len(errs), Len(saveQ)} \subseteq 0..RxCap
  BY <1>2, <1>3 DEF Init
<1>5. QED
  BY <1>1, <1>2, <1>3, <1>4 DEF Init, Typed, TypeOK

LEMMA StepTyped == Typed /\ [Next]_vars => Typed'
<1> SUFFICES ASSUME Typed, [Next]_vars PROVE Typed'
  OBVIOUS
<1>1. TypeOK /\ HasCurrent
  BY DEF Typed
<1>2. /\ ListenerTypes /\ OperatorTypes /\ RespondentTypes /\ ConveyorTypes
      /\ Channels /\ setup \in Setup
  BY <1>1, TypeParts
<1>3. /\ Channel(answers, Answer) /\ Channel(errs, Causes)
      /\ batch \subseteq Ids /\ asking \in SUBSET Ids
  BY <1>2 DEF Channels, ConveyorTypes, RespondentTypes
<1>4. RespondentTypes' /\ HasCurrent'
  BY <1>1, <1>2, <1>3, RespondentTyped
<1>5. ListenerTypes' /\ OperatorTypes'
  BY <1>2, ListenerTyped, OperatorTyped
<1>6. ConveyorTypes'
  BY <1>2, <1>3, ConveyorAlways, ConveyorTyped
<1>7. Channel(answers', Answer) /\ Channel(errs', Causes)
  BY <1>3, AnswersStepAlways, AnswersStepChannel, ErrsStepAlways, ErrsStepChannel
<1>8. TypeOK'
  BY <1>4, <1>5, <1>6, <1>7 DEF TypeOK, ListenerTypes, OperatorTypes, RespondentTypes,
     ConveyorTypes, Channel
<1>9. QED
  BY <1>4, <1>8 DEF Typed

LEMMA TypedAlways == Spec => []Typed
<1>1. Init => Typed
  BY InitTyped
<1>2. Typed /\ [Next]_vars => Typed'
  BY StepTyped
<1>3. QED
  BY <1>1, <1>2, PTL DEF Spec
\* The types hold in every reachable state, and no channel holds more than fits.
THEOREM TypeCorrect == Spec => []TypeOK
<1>1. Typed => TypeOK
  BY DEF Typed
<1>2. QED
  BY <1>1, TypedAlways, PTL

-----------------------------------------------------------------------------
(* What is recorded                                                        *)

LEMMA ConcatAppend ==
  ASSUME NEW S, NEW s \in Seq(S), NEW t \in Seq(S), NEW e \in S
  PROVE  s \o Append(t, e) = Append(s \o t, e)
<1>1. <<e>> \in Seq(S) /\ s \o t \in Seq(S)
  BY ConcatProperties
<1>2. s \o (t \o <<e>>) = (s \o t) \o <<e>>
  BY <1>1, ConcatAssociative
<1>3. QED
  BY <1>1, <1>2, AppendIsConcat

LEMMA MoveHead ==
  ASSUME NEW S, NEW s \in Seq(S), NEW t \in Seq(S), t # <<>>
  PROVE  Append(s, Head(t)) \o Tail(t) = s \o t
<1>1. Append(s, Head(t)) \in Seq(S) /\ Tail(t) \in Seq(S)
  BY HeadTailProperties, AppendProperties
<1>2. Append(s, Head(t)) \o Tail(t) \in Seq(S) /\ s \o t \in Seq(S)
  BY <1>1, ConcatProperties
<1>3. Len(Append(s, Head(t)) \o Tail(t)) = Len(s \o t)
  BY <1>1, ConcatProperties, AppendProperties, HeadTailProperties, LenProperties
<1>4. ASSUME NEW i \in 1 .. Len(s \o t)
      PROVE  (Append(s, Head(t)) \o Tail(t))[i] = (s \o t)[i]
  BY <1>1, ConcatProperties, AppendProperties, HeadTailProperties, LenProperties
<1>5. QED
  BY <1>2, <1>3, <1>4, SeqEqual

LEMMA RangeAppend ==
  ASSUME NEW S, NEW s \in Seq(S), NEW e \in S
  PROVE  Range(Append(s, e)) = Range(s) \cup {e}
  BY AppendProperties, LenProperties DEF Range

LEMMA RangeTail ==
  ASSUME NEW S, NEW s \in Seq(S), s # <<>>
  PROVE  Range(Tail(s)) \subseteq Range(s)
  BY HeadTailProperties, LenProperties DEF Range
\* A full save queue drops the record; the worker's step changes nothing.
LEMMA RecordedSent ==
  ASSUME ConveyorTypes, NEW r \in Record, saved' = saved, saveQ' = TrySend(saveQ, r)
  PROVE  Recorded' = Recorded \/ Recorded' = Append(Recorded, r)
<1>1. saved \in Seq(Record) /\ saveQ \in Seq(Record)
  BY DEF ConveyorTypes, Channel
<1>2. saved \o Append(saveQ, r) = Append(saved \o saveQ, r)
  BY <1>1, ConcatAppend
<1>3. saveQ' = saveQ \/ saveQ' = Append(saveQ, r)
  BY DEF TrySend
<1>4. QED
  BY <1>2, <1>3 DEF Recorded

LEMMA RecordedSaved ==
  ASSUME ConveyorTypes, Saves PROVE Recorded' = Recorded
  BY MoveHead DEF ConveyorTypes, Channel, Recorded, Saves

LEMMA RecordedType == ConveyorTypes => Recorded \in Seq(Record)
  BY ConcatProperties DEF ConveyorTypes, Channel, Recorded

\* What reached TxCh stays shown, and a session stays what it is.
ShownStep == shown \subseteq shown' /\ setup' = setup

LEMMA ShownStepAlways == [Next]_vars => ShownStep
<1> SUFFICES ASSUME [Next]_vars PROVE ShownStep
  OBVIOUS
<1> USE DEF ShownStep, env
<1>1. CASE Listener \/ SaveWorker \/ Cancel
  BY <1>1 DEF Listener, ListenerAsks, ListenerUnknown, ListenerQuestion, ListenerAnswer,
     ListenerError, ListenerCancelled, SaveWorker, Cancel, hist
<1>2. ASSUME NEW o \in setup.outcomes, RequestFails(o) \/ AnswerWithheld(o) \/ ModelAnswers(o)
      PROVE  ShownStep
  BY <1>2 DEF RequestFails, AnswerWithheld, ModelAnswers, hist
<1>3. CASE \/ ModelEscalates \/ OperatorAnswers \/ OperatorSilent \/ ModelAnswersAgain
           \/ QuestionToOperator \/ QuestionToBatch \/ ErrChFallsThrough
  BY <1>3 DEF ModelEscalates, OperatorAnswers, OperatorSilent, ModelAnswersAgain,
     QuestionToOperator, QuestionToBatch, ErrChFallsThrough, hist
<1>4. CASE \/ OperatorTimeout \/ OperatorReply \/ OperatorReleases \/ NoOperatorAvailable
           \/ InputMore \/ AskTimerFires \/ OperatorTimerFires
  BY <1>4 DEF OperatorTimeout, OperatorReply, OperatorReleases, NoOperatorAvailable,
     InputMore, AskTimerFires, OperatorTimerFires, hist
<1>5. CASE Collect \/ CollectNothing \/ CollectFull \/ RespondentCancelled
  BY <1>5 DEF Collect, CollectNothing, CollectFull, RespondentCancelled, hist
<1>6. ASSUME NEW k, UserSends(k) PROVE ShownStep
  BY <1>6 DEF UserSends, hist
<1>7. ASSUME NEW r, OperatorSays(r) PROVE ShownStep
  BY <1>7 DEF OperatorSays, hist
<1>8. CASE UNCHANGED vars
  BY <1>8 DEF vars, hist
<1>9. QED
  BY <1>1, <1>2, <1>3, <1>4, <1>5, <1>6, <1>7, <1>8 DEF Next, Respondent, Request

-----------------------------------------------------------------------------
(* What is saved was shown                                                 *)

\* The system's notices are saved as answers of the model, so an answer queue
\* with a notice that stood for a message would spoil the history.
NoticesSound == \A a \in Range(answers) : Sound(a)

LEMMA NoticesSoundStep ==
  ASSUME Channel(answers, Answer), NoticesSound, AnswersStep PROVE NoticesSound'
<1> USE DEF NoticesSound
<1>1. CASE answers' = answers
  BY <1>1
<1>2. CASE answers # <<>> /\ answers' = Tail(answers)
  BY <1>2, RangeTail DEF Channel
<1>3. ASSUME NEW a \in Answer, Sound(a), answers' = TrySend(answers, a)
      PROVE  NoticesSound'
  BY <1>3, RangeAppend DEF Channel, TrySend
<1>4. QED
  BY <1>1, <1>2, <1>3 DEF AnswersStep

LEMMA SavedWasShownStep ==
  ASSUME ConveyorTypes, Channel(answers, Answer), NoticesSound, SavedWasShown,
         shown \subseteq shown', Conveyor
  PROVE  SavedWasShown'
<1> DEFINE Justified(r) == r.by # "user" /\ r.ids # {} => [by |-> r.by, ids |-> r.ids] \in shown'
<1>1. Recorded \in Seq(Record) /\ \A r \in Range(Recorded) : Justified(r)
  BY RecordedType DEF SavedWasShown
<1>2. CASE Recorded' = Recorded
  BY <1>1, <1>2 DEF SavedWasShown
<1>3. ASSUME NEW r \in Record, Justified(r), Recorded' = Append(Recorded, r)
      PROVE  SavedWasShown'
  BY <1>1, <1>3, RangeAppend DEF SavedWasShown
<1>4. CASE RecordsQuestion
  <2>1. [by |-> "user", ids |-> Head(fullQ)] \in Record
    BY <1>4, TailChannel DEF RecordsQuestion, ConveyorTypes, Record
  <2>2. Justified([by |-> "user", ids |-> Head(fullQ)])
    OBVIOUS
  <2>3. QED
    BY <1>2, <1>3, <1>4, <2>1, <2>2, RecordedSent DEF RecordsQuestion
<1>5. CASE RecordsAnswer
  <2> DEFINE a == Head(answers)
             r == [by |-> IF a.by = "operator" THEN "operator" ELSE "ai", ids |-> a.ids]
  <2>1. a \in Answer /\ a.by # "fallback" /\ a \in shown'
    BY <1>5, TailChannel DEF RecordsAnswer
  <2>2. a \in Range(answers)
    BY <1>5, LenProperties DEF RecordsAnswer, Channel, Range
  <2>3. r \in Record
    BY <2>1 DEF Record, Answer
  <2>4. Sound(a)
    BY <2>2 DEF NoticesSound
  <2>5. a = [by |-> a.by, ids |-> a.ids]
    BY <2>1 DEF Answer
  <2>6. Justified(r)
    BY <2>1, <2>4, <2>5 DEF Sound, Answer
  <2>7. saved' = saved /\ saveQ' = TrySend(saveQ, r)
    BY <1>5 DEF RecordsAnswer
  <2>8. QED
    BY <1>2, <1>3, <2>3, <2>6, <2>7, RecordedSent
<1>6. CASE Saves
  BY <1>2, <1>6, RecordedSaved
<1>7. CASE ~RecordsQuestion /\ ~RecordsAnswer /\ ~Saves
  <2>1. UNCHANGED <<saved, saveQ>>
    BY <1>7 DEF Conveyor, Arrives, Passes, Routes, Batches, Collects, RecordsAgain, Rests
  <2>2. QED
    BY <1>2, <2>1 DEF Recorded
<1>8. QED
  BY <1>4, <1>5, <1>6, <1>7

\* An answer enters the history only if the user got it, and a text that stands
\* for a model error never does.
THEOREM OnlyShownIsSaved == Spec => []SavedWasShown
<1> DEFINE Inv == NoticesSound /\ SavedWasShown
<1>1. Init => Inv
  BY DEF Init, NoticesSound, SavedWasShown, Recorded, Range
<1>2. Typed /\ Inv /\ [Next]_vars => Inv'
  <2> SUFFICES ASSUME Typed, Inv, [Next]_vars PROVE Inv'
    OBVIOUS
  <2>1. ConveyorTypes /\ Channel(answers, Answer) /\ asking \in SUBSET Ids
    BY TypeParts DEF Typed, Channels, RespondentTypes
  <2>2. NoticesSound'
    BY <2>1, AnswersStepAlways, NoticesSoundStep
  <2>3. SavedWasShown'
    BY <2>1, ConveyorAlways, ShownStepAlways, SavedWasShownStep DEF ShownStep
  <2>4. QED
    BY <2>2, <2>3
<1>3. QED
  BY <1>1, <1>2, TypedAlways, PTL DEF Spec
-----------------------------------------------------------------------------
(* Recorded once                                                           *)

IdsOf(ch) == {ch[i].id : i \in DOMAIN ch}
Distinct(ch) == \A i, j \in DOMAIN ch : i # j => ch[i].id # ch[j].id
Disjoint(sets) == \A i, j \in DOMAIN sets : i # j => sets[i] \cap sets[j] = {}

LEMMA DistinctTail ==
  ASSUME NEW ch \in Seq(Msg), ch # <<>>, Distinct(ch)
  PROVE  /\ Distinct(Tail(ch)) /\ IdsOf(Tail(ch)) \subseteq IdsOf(ch)
         /\ Head(ch).id \in IdsOf(ch) \ IdsOf(Tail(ch))
<1>1. /\ Len(ch) \in Nat \ {0} /\ DOMAIN ch = 1..Len(ch) /\ Head(ch) = ch[1]
      /\ DOMAIN Tail(ch) = 1..(Len(ch) - 1)
      /\ \A i \in 1..(Len(ch) - 1) : Tail(ch)[i] = ch[i + 1]
  BY HeadTailProperties, LenProperties, EmptySeq
<1>2. QED
  BY <1>1 DEF Distinct, IdsOf

LEMMA DistinctAppend ==
  ASSUME NEW ch \in Seq(Msg), NEW m \in Msg, Distinct(ch), m.id \notin IdsOf(ch)
  PROVE  Distinct(Append(ch, m)) /\ IdsOf(Append(ch, m)) = IdsOf(ch) \cup {m.id}
<1>1. /\ Len(ch) \in Nat /\ DOMAIN ch = 1..Len(ch)
      /\ DOMAIN Append(ch, m) = 1..(Len(ch) + 1)
      /\ \A i \in 1..Len(ch) : Append(ch, m)[i] = ch[i]
      /\ Append(ch, m)[Len(ch) + 1] = m
  BY AppendProperties, LenProperties
<1>2. QED
  BY <1>1 DEF Distinct, IdsOf

LEMMA DisjointTail ==
  ASSUME NEW sets \in Seq(SUBSET Ids), sets # <<>>, Disjoint(sets)
  PROVE  /\ Disjoint(Tail(sets)) /\ Head(sets) \in Range(sets)
         /\ \A X \in Range(Tail(sets)) : X \in Range(sets) /\ X \cap Head(sets) = {}
<1>1. /\ Len(sets) \in Nat \ {0} /\ DOMAIN sets = 1..Len(sets) /\ Head(sets) = sets[1]
      /\ DOMAIN Tail(sets) = 1..(Len(sets) - 1)
      /\ \A i \in 1..(Len(sets) - 1) : Tail(sets)[i] = sets[i + 1]
  BY HeadTailProperties, LenProperties, EmptySeq
<1>2. QED
  BY <1>1 DEF Disjoint, Range

LEMMA DisjointAppend ==
  ASSUME NEW sets \in Seq(SUBSET Ids), NEW Y \in SUBSET Ids, Disjoint(sets),
         \A X \in Range(sets) : X \cap Y = {}
  PROVE  Disjoint(Append(sets, Y)) /\ Range(Append(sets, Y)) = Range(sets) \cup {Y}
<1>1. /\ Len(sets) \in Nat /\ DOMAIN sets = 1..Len(sets)
      /\ DOMAIN Append(sets, Y) = 1..(Len(sets) + 1)
      /\ \A i \in 1..Len(sets) : Append(sets, Y)[i] = sets[i]
      /\ Append(sets, Y)[Len(sets) + 1] = Y
  BY AppendProperties, LenProperties
<1>2. QED
  BY <1>1 DEF Disjoint, Range

\* The messages each record stands for, if it is a question.
Asked(r) == IF r.by = "user" THEN r.ids ELSE {}
AskedIn(rs) == [i \in DOMAIN rs |-> Asked(rs[i])]

LEMMA AskedAppend ==
  ASSUME NEW rs \in Seq(Record), NEW r \in Record
  PROVE  /\ AskedIn(rs) \in Seq(SUBSET Ids) /\ Asked(r) \in SUBSET Ids
         /\ AskedIn(Append(rs, r)) = Append(AskedIn(rs), Asked(r))
<1>1. \A q \in Record : Asked(q) \in SUBSET Ids
  BY DEF Asked, Record
<1>2. /\ Len(rs) \in Nat /\ DOMAIN rs = 1..Len(rs) /\ \A i \in 1..Len(rs) : rs[i] \in Record
      /\ Append(rs, r) \in Seq(Record) /\ DOMAIN Append(rs, r) = 1..(Len(rs) + 1)
      /\ \A i \in 1..Len(rs) : Append(rs, r)[i] = rs[i]
      /\ Append(rs, r)[Len(rs) + 1] = r
  BY AppendProperties, LenProperties, ElementOfSeq
<1>3. AskedIn(rs) = [i \in 1..Len(rs) |-> Asked(rs[i])]
  BY <1>2 DEF AskedIn
<1>4. AskedIn(rs) \in Seq(SUBSET Ids) /\ Len(AskedIn(rs)) = Len(rs)
  BY <1>1, <1>2, <1>3
<1>5. AskedIn(Append(rs, r)) = [i \in 1..(Len(rs) + 1) |-> Asked(Append(rs, r)[i])]
  BY <1>2 DEF AskedIn
<1>6. \A i \in 1..(Len(rs) + 1) : Append(rs, r)[i] \in Record
  BY <1>2, ElementOfSeq, LenProperties
<1>7. AskedIn(Append(rs, r)) \in Seq(SUBSET Ids) /\ Len(AskedIn(Append(rs, r))) = Len(rs) + 1
  BY <1>1, <1>2, <1>5, <1>6
<1>8. /\ Append(AskedIn(rs), Asked(r)) \in Seq(SUBSET Ids)
      /\ Len(Append(AskedIn(rs), Asked(r))) = Len(rs) + 1
      /\ \A i \in 1..Len(rs) : Append(AskedIn(rs), Asked(r))[i] = AskedIn(rs)[i]
      /\ Append(AskedIn(rs), Asked(r))[Len(rs) + 1] = Asked(r)
  BY <1>1, <1>4, AppendProperties
<1>9. \A i \in 1..(Len(rs) + 1) : AskedIn(Append(rs, r))[i] = Append(AskedIn(rs), Asked(r))[i]
  BY <1>2, <1>3, <1>5, <1>8
<1>10. QED
  BY <1>1, <1>4, <1>7, <1>8, <1>9, SeqEqual
\* The places a message may be in, as sets of messages: in rx, in question, in a
\* full question, in a recorded one, in the batch; no message is in two of them.
Apart(X, Q, F, R, b, n) ==
  /\ X \cap Q = {} /\ X \cup Q \subseteq 1..n
  /\ \A r \in R, f \in F : r \cap f = {}
  /\ \A s \in F \cup R : s \cap b = {}
  /\ \A s \in {b} \cup F \cup R : s \subseteq 1..n /\ s \cap (X \cup Q) = {}

LEMMA ApartArrives ==
  ASSUME NEW X, NEW Q, NEW F, NEW R, NEW b, NEW n \in Nat, Apart(X, Q, F, R, b, n)
  PROVE  n + 1 \notin X /\ Apart(X \cup {n + 1}, Q, F, R, b, n + 1)
<1>1. 1..n \subseteq 1..(n + 1) /\ n + 1 \in 1..(n + 1) /\ n + 1 \notin 1..n
  OBVIOUS
<1> DEFINE m == n + 1
<1> HIDE DEF m
<1>2. 1..n \subseteq 1..m /\ m \in 1..m /\ m \notin 1..n
  BY <1>1 DEF m
<1>3. m \notin X /\ m \notin Q /\ \A s \in {b} \cup F \cup R : m \notin s
  BY <1>2 DEF Apart
<1>4. Apart(X \cup {m}, Q, F, R, b, m)
  BY <1>2, <1>3 DEF Apart
<1>5. QED
  BY <1>3, <1>4 DEF m

LEMMA ApartPasses ==
  ASSUME NEW X, NEW Q, NEW F, NEW R, NEW b, NEW n, Apart(X, Q, F, R, b, n),
         NEW m \in X, NEW Y \in SUBSET (X \ {m})
  PROVE  m \notin Q /\ Apart(Y, Q, F, R, b, n) /\ Apart(Y, Q \cup {m}, F, R, b, n)
  BY DEF Apart

LEMMA ApartTaken ==
  ASSUME NEW X, NEW Q, NEW F, NEW R, NEW b, NEW n, Apart(X, Q, F, R, b, n),
         NEW m \in Q, NEW Y \in SUBSET (Q \ {m})
  PROVE  /\ Apart(X, Y, F, R, b, n) /\ Apart(X, Y, F, R, b \cup {m}, n)
         /\ Apart(X, Y, F \cup {{m}}, R, b, n) /\ \A f \in F : f \cap {m} = {}
  BY DEF Apart

LEMMA ApartCollects ==
  ASSUME NEW X, NEW Q, NEW F, NEW R, NEW b, NEW n, Apart(X, Q, F, R, b, n)
  PROVE  /\ Apart(X, Q, F, R, {}, n) /\ Apart(X, Q, F \cup {b}, R, {}, n)
         /\ \A f \in F : f \cap b = {}
  BY DEF Apart

LEMMA ApartRecords ==
  ASSUME NEW X, NEW Q, NEW F, NEW R, NEW b, NEW n, Apart(X, Q, F, R, b, n),
         NEW q, q = {} \/ q \in F, NEW G \in SUBSET F, \A f \in G : f \cap q = {}
  PROVE  Apart(X, Q, G, R, b, n) /\ Apart(X, Q, G, R \cup {q}, b, n)
  BY DEF Apart

OnePlace ==
  /\ Distinct(rx) /\ Distinct(question) /\ Disjoint(fullQ) /\ Disjoint(AskedIn(Recorded))
  /\ Apart(IdsOf(rx), IdsOf(question), Range(fullQ), Range(AskedIn(Recorded)), batch, sent)

\* No SetOperator flag is about in a session whose user never sends it.
NoSet ==
  /\ \A m \in Range(rx) \cup Range(question) : ~SetsMode(m)
  /\ ~SetsMode(cur)

NeverSets == setup.kinds \cap {"set", "both"} = {}
OnceInv == NeverSets => NoSet /\ OnePlace

\* What a step does to the places, by its effect on the messages' way.
LEMMA OnePlaceStep ==
  ASSUME ConveyorTypes, Channel(answers, Answer), setup \in Setup, OnePlace, Conveyor,
         ~RecordsAgain
  PROVE  OnePlace'
<1> DEFINE X == IdsOf(rx)  Q == IdsOf(question)  F == Range(fullQ)
           R == Range(AskedIn(Recorded))
<1>a. /\ rx \in Seq(Msg) /\ question \in Seq(Msg) /\ fullQ \in Seq(SUBSET Ids)
      /\ batch \in SUBSET Ids /\ sent \in Nat /\ Recorded \in Seq(Record)
  BY RecordedType, BoundsAssumption DEF ConveyorTypes, Channel
<1>b. /\ Distinct(rx) /\ Distinct(question) /\ Disjoint(fullQ)
      /\ Disjoint(AskedIn(Recorded)) /\ Apart(X, Q, F, R, batch, sent)
  BY DEF OnePlace
<1>c. ASSUME Recorded' = Recorded, UNCHANGED <<rx, sent>>, question # <<>>,
             question' = Tail(question)
      PROVE  /\ UNCHANGED X /\ UNCHANGED R /\ Distinct(rx') /\ Disjoint(AskedIn(Recorded'))
             /\ Distinct(question') /\ IdsOf(question') \in SUBSET (Q \ {Head(question).id})
             /\ Head(question).id \in Q /\ {Head(question).id} \in SUBSET Ids
  <2>1. Head(question).id \in Ids
    <3>1. Head(question) \in Msg
      BY <1>a, <1>c, HeadTailProperties
    <3>2. QED
      BY <3>1 DEF Msg
  <2>2. /\ Distinct(Tail(question)) /\ IdsOf(Tail(question)) \subseteq Q
        /\ Head(question).id \in Q \ IdsOf(Tail(question))
    BY <1>a, <1>b, <1>c, DistinctTail
  <2>3. UNCHANGED X /\ UNCHANGED R /\ Distinct(rx') /\ Disjoint(AskedIn(Recorded'))
    BY <1>b, <1>c
  <2>4. QED
    BY <1>c, <2>1, <2>2, <2>3
<1>d. ASSUME NEW Y \in SUBSET Ids, \A f \in F : f \cap Y = {}, fullQ' = TrySend(fullQ, Y)
      PROVE  \/ fullQ' = fullQ
             \/ Disjoint(fullQ') /\ Range(fullQ') = F \cup {Y}
  BY <1>a, <1>b, <1>d, DisjointAppend DEF TrySend
<1>1. CASE Arrives
  <2>1. PICK k \in setup.kinds : rx' = Append(rx, [id |-> sent + 1, kind |-> k])
    BY <1>1 DEF Arrives
  <2>2. [id |-> sent + 1, kind |-> k] \in Msg
    <3>1. sent < setup.msgs /\ setup.msgs \in 0..MaxMsgs /\ k \in Kinds
      BY <1>1, <2>1 DEF Arrives, Setup
    <3>2. sent + 1 \in Ids
      BY <3>1, <1>a, BoundsAssumption DEF Ids
    <3>3. QED
      BY <3>1, <3>2 DEF Msg
  <2>3. sent + 1 \notin X /\ Apart(X \cup {sent + 1}, Q, F, R, batch, sent + 1)
    BY <1>a, <1>b, ApartArrives
  <2>4. Distinct(rx') /\ IdsOf(rx') = X \cup {sent + 1}
    BY <1>a, <1>b, <2>1, <2>2, <2>3, DistinctAppend
  <2>5. UNCHANGED <<question, fullQ, batch>> /\ Recorded' = Recorded /\ sent' = sent + 1
    BY <1>1 DEF Arrives, Recorded
  <2>6. QED
    BY <1>b, <2>3, <2>4, <2>5 DEF OnePlace
<1>2. CASE Passes
  <2>1. rx # <<>> /\ rx' = Tail(rx) /\ Head(rx) \in Msg
    BY <1>2, <1>a, HeadTailProperties DEF Passes
  <2>2. /\ Distinct(rx') /\ Head(rx).id \in X
        /\ IdsOf(rx') \in SUBSET (X \ {Head(rx).id})
    BY <1>a, <1>b, <2>1, DistinctTail
  <2>3. /\ Head(rx).id \notin Q /\ Apart(IdsOf(rx'), Q, F, R, batch, sent)
        /\ Apart(IdsOf(rx'), Q \cup {Head(rx).id}, F, R, batch, sent)
    BY <1>b, <2>2, ApartPasses
  <2>4. UNCHANGED <<sent, fullQ, batch>> /\ Recorded' = Recorded
    BY <1>2 DEF Passes, Recorded
  <2>5. CASE question' = question
    BY <1>b, <2>2, <2>3, <2>4, <2>5 DEF OnePlace
  <2>6. CASE question' = Append(question, Head(rx))
    <3>1. Distinct(question') /\ IdsOf(question') = Q \cup {Head(rx).id}
      BY <1>a, <1>b, <2>1, <2>3, <2>6, DistinctAppend
    <3>2. QED
      BY <1>b, <2>2, <2>3, <2>4, <3>1 DEF OnePlace
  <2>7. QED
    BY <1>2, <2>5, <2>6 DEF Passes, TrySend
<1>3. CASE Routes
  <2> DEFINE m == Head(question).id
  <2>1. UNCHANGED <<sent, batch>> /\ Recorded' = Recorded
    BY <1>3 DEF Routes, Recorded
  <2>2. /\ UNCHANGED X /\ UNCHANGED R /\ Distinct(rx') /\ Disjoint(AskedIn(Recorded'))
        /\ Distinct(question') /\ IdsOf(question') \in SUBSET (Q \ {m})
        /\ m \in Q /\ {m} \in SUBSET Ids
    BY <1>3, <1>c, <2>1 DEF Routes
  <2>3. /\ Apart(X, IdsOf(question'), F, R, batch, sent)
        /\ Apart(X, IdsOf(question'), F \cup {{m}}, R, batch, sent)
        /\ \A f \in F : f \cap {m} = {}
    <3>1. m \in Q /\ IdsOf(question') \in SUBSET (Q \ {m}) /\ Apart(X, Q, F, R, batch, sent)
      BY <1>b, <2>2
    <3> HIDE DEF m, X, Q, F, R
    <3>2. QED
      BY <3>1, ApartTaken
  <2>4. \/ fullQ' = fullQ
        \/ Disjoint(fullQ') /\ Range(fullQ') = F \cup {{m}}
    BY <1>3, <1>d, <2>2, <2>3 DEF Routes
  <2>5. QED
    BY <1>b, <2>1, <2>2, <2>3, <2>4 DEF OnePlace
<1>4. CASE Batches
  <2> DEFINE m == Head(question).id
  <2>1. UNCHANGED <<sent, fullQ>> /\ Recorded' = Recorded
    BY <1>4 DEF Batches, Recorded
  <2>2. /\ UNCHANGED X /\ UNCHANGED R /\ Distinct(rx') /\ Disjoint(AskedIn(Recorded'))
        /\ Distinct(question') /\ IdsOf(question') \in SUBSET (Q \ {m}) /\ m \in Q
    BY <1>4, <1>c, <2>1 DEF Batches
  <2>3. /\ Apart(X, IdsOf(question'), F, R, batch, sent)
        /\ Apart(X, IdsOf(question'), F, R, batch \cup {m}, sent)
    BY <1>b, <2>2, ApartTaken
  <2>4. batch' = batch \/ batch' = batch \cup {m}
    BY <1>4 DEF Batches
  <2>5. QED
    BY <1>b, <2>1, <2>2, <2>3, <2>4 DEF OnePlace
<1>5. CASE Collects
  <2>1. UNCHANGED <<rx, sent, question>> /\ Recorded' = Recorded /\ batch' = {}
    BY <1>5 DEF Collects, Recorded
  <2>2. /\ Apart(X, Q, F, R, {}, sent) /\ Apart(X, Q, F \cup {batch}, R, {}, sent)
        /\ \A f \in F : f \cap batch = {}
    BY <1>b, ApartCollects
  <2>3. \/ fullQ' = fullQ
        \/ Disjoint(fullQ') /\ Range(fullQ') = F \cup {batch}
    BY <1>5, <1>a, <1>d, <2>2 DEF Collects
  <2>4. QED
    BY <1>b, <2>1, <2>2, <2>3 DEF OnePlace
<1>6. ASSUME NEW r \in Record, Recorded' = Recorded \/ Recorded' = Append(Recorded, r),
             UNCHANGED <<sent, rx, question, batch>>,
             Disjoint(fullQ'), Range(fullQ') \in SUBSET F,
             \A f \in Range(fullQ') : f \cap Asked(r) = {},
             Asked(r) = {} \/ Asked(r) \in F
      PROVE  OnePlace'
  <2>1. /\ Apart(X, Q, Range(fullQ'), R, batch, sent)
        /\ Apart(X, Q, Range(fullQ'), R \cup {Asked(r)}, batch, sent)
        /\ \A q \in R : q \cap Asked(r) = {}
    <3>1. /\ Apart(X, Q, F, R, batch, sent) /\ Range(fullQ') \in SUBSET F
          /\ Asked(r) = {} \/ Asked(r) \in F
          /\ \A f \in Range(fullQ') : f \cap Asked(r) = {}
      BY <1>6, <1>b
    <3> DEFINE q == Asked(r)  G == Range(fullQ')
    <3>2. G \in SUBSET F /\ (q = {} \/ q \in F) /\ \A f \in G : f \cap q = {}
      BY <3>1
    <3> HIDE DEF X, Q, F, R, q, G
    <3>3. Apart(X, Q, G, R, batch, sent) /\ Apart(X, Q, G, R \cup {q}, batch, sent)
      BY <3>1, <3>2, ApartRecords
    <3>4. \A s \in R : s \cap q = {}
      BY <3>1, <3>2 DEF Apart
    <3>5. QED
      BY <3>3, <3>4 DEF q, G
  <2>2. CASE Recorded' = Recorded
    BY <1>6, <1>b, <2>1, <2>2 DEF OnePlace
  <2>3. CASE Recorded' = Append(Recorded, r)
    <3>1. /\ AskedIn(Recorded) \in Seq(SUBSET Ids) /\ Asked(r) \in SUBSET Ids
          /\ AskedIn(Recorded') = Append(AskedIn(Recorded), Asked(r))
      BY <1>a, <2>3, AskedAppend
    <3>2. /\ Disjoint(AskedIn(Recorded')) /\ Range(AskedIn(Recorded')) = R \cup {Asked(r)}
      BY <1>b, <2>1, <3>1, DisjointAppend
    <3>3. QED
      BY <1>6, <1>b, <2>1, <3>2 DEF OnePlace
  <2>4. QED
    BY <1>6, <2>2, <2>3
<1>7. CASE RecordsQuestion
  <2> DEFINE r == [by |-> "user", ids |-> Head(fullQ)]
  <2>1. r \in Record /\ Asked(r) = Head(fullQ)
    BY <1>7, <1>a, HeadTailProperties DEF RecordsQuestion, Record, Asked
  <2>2. Recorded' = Recorded \/ Recorded' = Append(Recorded, r)
    BY <1>7, <2>1, RecordedSent DEF RecordsQuestion
  <2>3. /\ Disjoint(fullQ') /\ Range(fullQ') \in SUBSET F
        /\ \A f \in Range(fullQ') : f \cap Asked(r) = {}
        /\ Asked(r) \in F
    BY <1>7, <1>a, <1>b, <2>1, DisjointTail DEF RecordsQuestion
  <2>4. UNCHANGED <<sent, rx, question, batch>>
    BY <1>7 DEF RecordsQuestion
  <2>5. QED
    BY <1>6, <2>1, <2>2, <2>3, <2>4
<1>8. CASE RecordsAnswer
  <2> DEFINE r == [by |-> IF Head(answers).by = "operator" THEN "operator" ELSE "ai",
                   ids |-> Head(answers).ids]
  <2>1. r \in Record /\ Asked(r) = {}
    BY <1>8, TailChannel DEF RecordsAnswer, Record, Answer, Asked
  <2>2. Recorded' = Recorded \/ Recorded' = Append(Recorded, r)
    BY <1>8, <2>1, RecordedSent DEF RecordsAnswer
  <2>3. UNCHANGED <<sent, rx, question, batch, fullQ>>
    BY <1>8 DEF RecordsAnswer
  <2>4. QED
    BY <1>6, <1>b, <2>1, <2>2, <2>3
<1>9. CASE Saves \/ Rests
  <2>1. Recorded' = Recorded
    BY <1>9, RecordedSaved DEF Rests, Recorded
  <2>2. UNCHANGED <<sent, rx, question, batch, fullQ>>
    BY <1>9 DEF Saves, Rests
  <2>3. QED
    BY <1>b, <2>1, <2>2 DEF OnePlace
<1>10. QED
  BY <1>1, <1>2, <1>3, <1>4, <1>5, <1>7, <1>8, <1>9 DEF Conveyor
\* A question's kind is the only source of the current one's.
CurStep == cur' = cur \/ (question # <<>> /\ cur'.kind = Head(question).kind)

LEMMA CurStepAlways == Typed /\ [Next]_vars => CurStep
<1> SUFFICES ASSUME Typed, [Next]_vars PROVE CurStep
  OBVIOUS
<1> USE DEF CurStep
<1>1. CASE Listener \/ SaveWorker \/ Cancel
  BY <1>1 DEF Listener, ListenerAsks, ListenerUnknown, ListenerQuestion, ListenerAnswer,
     ListenerError, ListenerCancelled, SaveWorker, Cancel, loc
<1>2. ASSUME NEW o \in setup.outcomes, RequestFails(o) \/ AnswerWithheld(o) \/ ModelAnswers(o)
      PROVE  CurStep
  BY <1>2 DEF RequestFails, AnswerWithheld, ModelAnswers
<1>3. CASE ModelEscalates \/ OperatorAnswers \/ OperatorSilent \/ ModelAnswersAgain
  BY <1>3 DEF ModelEscalates, OperatorAnswers, OperatorSilent, ModelAnswersAgain
<1>4. CASE QuestionToOperator \/ QuestionToBatch \/ ErrChFallsThrough
  BY <1>4 DEF QuestionToOperator, QuestionToBatch, ErrChFallsThrough
<1>5. CASE InputMore
  <2>1. pc = "input" /\ cur \in Msg
    BY <1>5 DEF InputMore, Typed, HasCurrent
  <2>2. [cur EXCEPT !.kind = Head(question).kind].kind = Head(question).kind
    BY <2>1 DEF Msg
  <2>3. QED
    BY <1>5, <2>2 DEF InputMore
<1>6. CASE \/ OperatorTimeout \/ OperatorReply \/ OperatorReleases \/ NoOperatorAvailable
           \/ AskTimerFires \/ OperatorTimerFires
  BY <1>6 DEF OperatorTimeout, OperatorReply, OperatorReleases, NoOperatorAvailable,
     AskTimerFires, OperatorTimerFires, loc
<1>7. CASE Collect \/ CollectNothing \/ CollectFull \/ RespondentCancelled
  BY <1>7 DEF Collect, CollectNothing, CollectFull, RespondentCancelled
<1>8. ASSUME NEW k, UserSends(k) PROVE CurStep
  BY <1>8 DEF UserSends, loc
<1>9. ASSUME NEW r, OperatorSays(r) PROVE CurStep
  BY <1>9 DEF OperatorSays, loc
<1>10. CASE UNCHANGED vars
  BY <1>10 DEF vars, loc
<1>11. QED
  BY <1>1, <1>2, <1>3, <1>4, <1>5, <1>6, <1>7, <1>8, <1>9, <1>10
     DEF Next, Respondent, Request

LEMMA NoSetStep ==
  ASSUME NeverSets, ConveyorTypes, NoSet, CurStep, Conveyor
  PROVE  NoSet'
<1>a. rx \in Seq(Msg) /\ question \in Seq(Msg)
  BY DEF ConveyorTypes, Channel
<1>b. ASSUME NEW ch \in Seq(Msg), ch # <<>>
      PROVE  Head(ch) \in Range(ch) /\ Head(ch) \in Msg /\ Range(Tail(ch)) \subseteq Range(ch)
  BY <1>b, RangeTail, LenProperties, EmptySeq DEF Range
<1>c. (\A m \in Range(rx) \cup Range(question) : ~SetsMode(m)) /\ ~SetsMode(cur)
  BY DEF NoSet
<1>1. ~SetsMode(cur')
  BY <1>a, <1>b, <1>c DEF CurStep, SetsMode
<1>2. CASE Arrives
  <2>1. PICK k \in setup.kinds : rx' = Append(rx, [id |-> sent + 1, kind |-> k])
    BY <1>2 DEF Arrives
  <2> DEFINE m == [id |-> sent + 1, kind |-> k]
  <2>2. rx \in Seq(Msg \cup {m}) /\ ~SetsMode(m)
    BY <1>a DEF NeverSets, SetsMode
  <2>3. Range(rx') = Range(rx) \cup {m}
    BY <2>1, <2>2, RangeAppend
  <2>4. question' = question
    BY <1>2 DEF Arrives
  <2>5. QED
    BY <1>1, <1>c, <2>2, <2>3, <2>4 DEF NoSet
<1>3. CASE Passes
  <2>1. Range(rx') \subseteq Range(rx) /\ Head(rx) \in Range(rx) /\ Head(rx) \in Msg
    BY <1>3, <1>a, <1>b DEF Passes
  <2>2. Range(question') \subseteq Range(question) \cup {Head(rx)}
    BY ZenonT(40), <1>3, <1>a, <2>1, RangeAppend DEF Passes, TrySend
  <2>3. QED
    BY <1>1, <1>c, <2>1, <2>2 DEF NoSet
<1>4. CASE Routes \/ Batches
  <2>1. rx' = rx /\ Range(question') \subseteq Range(question)
    BY <1>4, <1>a, <1>b DEF Routes, Batches
  <2>2. QED
    BY <1>1, <1>c, <2>1 DEF NoSet
<1>5. CASE UNCHANGED <<rx, question>>
  BY <1>1, <1>5, <1>c DEF NoSet
<1>6. QED
  BY <1>2, <1>3, <1>4, <1>5 DEF Conveyor, Collects, RecordsAgain, RecordsQuestion,
     RecordsAnswer, Saves, Rests

LEMMA OnceImplies == ConveyorTypes /\ OnceInv => RecordedOnce
<1> SUFFICES ASSUME ConveyorTypes, NeverSets, OnePlace
             PROVE  /\ \A i, j \in DOMAIN Recorded : i # j /\ ByUser(i) /\ ByUser(j)
                         => Recorded[i].ids \cap Recorded[j].ids = {}
                    /\ \A i, j \in DOMAIN fullQ : i # j => fullQ[i] \cap fullQ[j] = {}
                    /\ \A i \in DOMAIN Recorded, j \in DOMAIN fullQ :
                         ByUser(i) => Recorded[i].ids \cap fullQ[j] = {}
  BY DEF OnceInv, RecordedOnce, NeverSets
<1> DEFINE A == AskedIn(Recorded)
<1>1. \A i \in DOMAIN Recorded : ByUser(i) => Recorded[i].ids = A[i]
  BY DEF ByUser, AskedIn, Asked
<1>2. DOMAIN A = DOMAIN Recorded
  BY DEF AskedIn
<1>3. Disjoint(fullQ) /\ Disjoint(A) /\ \A r \in Range(A), f \in Range(fullQ) : r \cap f = {}
  BY DEF OnePlace, Apart
<1>4. QED
  BY <1>1, <1>2, <1>3 DEF Disjoint, Range

\* No message is recorded in two questions, or twice: batching, operator mode and
\* full channels lose messages at worst.
THEOREM NoneRecordedTwice == Spec => []RecordedOnce
<1>1. Init => OnceInv
  <2> SUFFICES ASSUME Init PROVE OnceInv
    OBVIOUS
  <2>1. /\ rx = <<>> /\ question = <<>> /\ fullQ = <<>> /\ Recorded = <<>> /\ batch = {}
        /\ cur.kind = "none"
    BY DEF Init, Recorded, NoMsg
  <2>2. ~SetsMode(cur) /\ DOMAIN <<>> = {}
    BY <2>1 DEF SetsMode
  <2>3. NoSet /\ OnePlace
    BY <2>1, <2>2 DEF NoSet, OnePlace, Distinct, Disjoint, IdsOf, AskedIn, Range, Apart
  <2>4. QED
    BY <2>3 DEF OnceInv
<1>2. Typed /\ OnceInv /\ [Next]_vars => OnceInv'
  <2> SUFFICES ASSUME Typed, OnceInv, [Next]_vars, NeverSets'
               PROVE  NoSet' /\ OnePlace'
    BY DEF OnceInv
  <2>1. /\ ConveyorTypes /\ Channel(answers, Answer) /\ setup \in Setup
    BY TypeParts DEF Typed, Channels
  <2>2. Conveyor /\ CurStep /\ setup' = setup
    BY ConveyorAlways, CurStepAlways, ShownStepAlways DEF ShownStep
  <2>3. NeverSets /\ NoSet /\ OnePlace
    BY <2>2 DEF OnceInv, NeverSets
  <2>4. ~RecordsAgain
    BY <2>3 DEF RecordsAgain, NoSet
  <2>5. QED
    BY <2>1, <2>2, <2>3, <2>4, NoSetStep, OnePlaceStep
<1>3. Typed /\ OnceInv => RecordedOnce
  BY TypeParts, OnceImplies DEF Typed
<1>4. QED
  BY <1>1, <1>2, <1>3, TypedAlways, PTL DEF Spec
=============================================================================
