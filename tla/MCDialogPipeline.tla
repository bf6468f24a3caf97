-------------------------- MODULE MCDialogPipeline --------------------------
(* DialogPipeline for TLC: sessions that differ in what may go wrong.       *)
EXTENDS DialogPipeline

Calm == [msgs |-> 2, kinds |-> {"ai"}, outcomes |-> {"answer"}, ignore |-> FALSE,
         txFails |-> FALSE, metaFails |-> FALSE, errCh |-> "closed", noTgId |-> FALSE]

\* No operator; the model and TxCh may fail in every way.
ModelOnly == [Calm EXCEPT !.msgs = 3, !.txFails = TRUE,
                !.outcomes = {"answer", "empty", "failed", "provider", "fatal"}]
\* The user asks for the operator, or the model escalates.
Escalating == [Calm EXCEPT !.kinds = {"ai", "ask"}, !.errCh = "live", !.metaFails = TRUE,
                           !.outcomes = {"answer", "escalate"}]
\* The dialog is switched to the operator, who may be unavailable.
Switched == [Calm EXCEPT !.kinds = {"ai", "both"}, !.errCh = "live", !.noTgId = TRUE]
\* An ordinary session: no operator session when its Respondent starts.
NoOperator == [Calm EXCEPT !.kinds = {"ai", "set", "unknown"},
                           !.outcomes = {"answer", "failed"}]
\* The bot ignores what is typed while an answer is on its way.
Impatient == [Calm EXCEPT !.ignore = TRUE, !.metaFails = TRUE,
                !.outcomes = {"answer", "failed", "fatal"}]

AllSetups == {ModelOnly, Escalating, Switched, NoOperator, Impatient}
Ordinary == {NoOperator}
WithoutOperator == {Impatient, [ModelOnly EXCEPT !.msgs = 2]}
=============================================================================
