---------------------------- MODULE MCTextSession ----------------------------
(* A text session in one run: two StartSession calls for one dialog, and one *)
(* question on its way to the model. A behaviour is one of one part, the     *)
(* other rests.                                                              *)
EXTENDS TextSession, AskRetry

CONSTANTS c1, c2
TwoCalls == {c1, c2}
AllErrors == Classes

VARIABLE part

textvars == <<part, vars, askvars>>

TextInit == part \in {"life", "ask"} /\ Init /\ AskInit
TextNext == \/ part = "life" /\ Next /\ UNCHANGED <<part, askvars>>
            \/ part = "ask" /\ AskNext /\ UNCHANGED <<part, vars>>

\* Nobody has called in a life that rests; the request is fair in its part.
Asking == part = "ask" /\ g # "panicked"
TextSpec == /\ TextInit /\ [][TextNext]_textvars /\ Fairness
            /\ WF_askvars(Asking /\ Ask) /\ WF_askvars(Asking /\ Expire)

LifeAlone == TextInit /\ part = "life" /\ [][TextNext]_textvars
AskAlone == TextInit /\ part = "ask" /\ [][TextNext]_textvars

\* Every question that is asked comes back to the Respondent, whatever the
\* provider and a TxCh nobody reads do to the stream.
CallReturns == part = "ask" => <>(call = "returned")
=============================================================================
