------------------------------ MODULE MCProviders ------------------------------
(* The provider side of a text dialog in one run: the responders, the request   *)
(* loop of OpenAI and Google, and the requests to Mistral. A behaviour is one   *)
(* of one part, the two others rest in one of their initial states.             *)
EXTENDS Responders, RequestLoop, MistralRequest

VARIABLE part

providervars == <<part, vars, loopvars, mistralvars>>

(* Which ticks and calls meet, which provider, and whether anything is invalidated. *)
Meets1(p, ops, a) == [order |-> <<p>>, provider |-> p, ops |-> ops, alone |-> TRUE, answers |-> a, dialogs |-> {1}]
MCDialogs == {1, 2}
MCSetups ==
    {Meets1(p, ops, "nokey") : p \in Provider,
        ops \in {{"expire"}, {"disconnect", "clean", "forget"}, {"shutdown"}}}
    \cup {Meets1("openai", {}, "any"), Meets1("google", {}, "any"),
          [Meets1("google", {"expire", "clean"}, "good") EXCEPT !.dialogs = MCDialogs],
          [Meets1("google", {"disconnect"}, "good") EXCEPT !.order = <<"openai", "google">>],
          [Meets1("openai", {"invalidate"}, "good") EXCEPT !.alone = FALSE],
          [Meets1("mistral", {"invalidate"}, "good") EXCEPT !.alone = FALSE]}

Loop1(p, past, overlap, hazards, faults) ==
    [provider |-> p, past |-> past, overlap |-> overlap, hazards |-> hazards, faults |-> faults]
MCLoop ==
    {Loop1(p, TRUE, FALSE, {}, faults) : p \in {"openai", "google"},
        faults \in {{"empty", "gone"}, {"responder", "rag", "quota", "api", "empty", "gone", "media"}}}
    \cup {Loop1("openai", TRUE, FALSE, {"preload", "expires"}, {"empty"}),
          Loop1("google", FALSE, FALSE, {"slow", "expires"}, {"quota"}),
          Loop1("openai", FALSE, TRUE, {}, {"gone"}), Loop1("google", TRUE, TRUE, {}, {"gone"})}

Place1(stream, overlap, troubles) == [stream |-> stream, overlap |-> overlap, troubles |-> troubles]
MCPlaces ==
    {Place1(TRUE, FALSE, t \cup {"restart"}) :
        t \in {{"network", "lost"}, {"dies", "breaks", "save"}, {"patch", "fetch", "new tools"}, {"lost", "clean"}}}
    \cup {Place1(FALSE, FALSE, {"network", "lost", "save", "restart"}), Place1(FALSE, FALSE, {"dies", "breaks"}),
          Place1(FALSE, FALSE, {"read", "restart"}), Place1(TRUE, FALSE, {"bare", "read", "save", "restart"}),
          Place1(TRUE, TRUE, {"lost"}), Place1(FALSE, TRUE, {})}

RespondersRest == Init /\ setup = CHOOSE s \in MCSetups : TRUE
LoopRests == LoopInit /\ scene = CHOOSE s \in MCLoop : TRUE
MistralRests == MistralInit /\ place = CHOOSE t \in MCPlaces : TRUE

ProvidersInit ==
    \/ part = "responders" /\ Init /\ LoopRests /\ MistralRests
    \/ part = "loop" /\ RespondersRest /\ LoopInit /\ MistralRests
    \/ part = "mistral" /\ RespondersRest /\ LoopRests /\ MistralInit

ProvidersNext ==
    \/ part = "responders" /\ Next /\ UNCHANGED <<part, loopvars, mistralvars>>
    \/ part = "loop" /\ LoopNext /\ UNCHANGED <<part, vars, mistralvars>>
    \/ part = "mistral" /\ MistralNext /\ UNCHANGED <<part, vars, loopvars>>

(* The fairness of the three specifications, of the part that acts. *)
ProvidersFairness ==
    /\ \A c \in Callers : WF_vars(/\ part = "responders" /\ ~panicked
                                  /\ (CallerConfigures(c) \/ CallerStores(c) \/ NotifyLoads(c) \/ NotifyCloses(c)))
    /\ \A s \in Sweepers : /\ WF_vars(part = "responders" /\ ~panicked /\ Sweeps(s))
                           /\ SF_vars(/\ part = "responders" /\ ~panicked
                                      /\ SweeperStarts(s) /\ sweeper'[s].op = "expire")
    /\ \A r \in Requests : WF_loopvars(part = "loop" /\ RequestGoes(r))
    /\ \A a \in Askers : WF_mistralvars(part = "mistral" /\ TalkGoes(a))

ProvidersSpec == ProvidersInit /\ [][ProvidersNext]_providervars /\ ProvidersFairness

(* The variables of the three parts have their types. *)
ProvidersTypeOK == TypeOK /\ LoopTypeOK /\ MistralTypeOK

(* A model that called functions is asked to go on when each has its result,    *)
(* and each step of a request brings it nearer to its end, whichever provider   *)
(* it goes to.                                                                  *)
AnswersAdvance == []CallsAnswered /\ RequestAdvances /\ TalkAdvances

(* Rounds of functions, retries of a quota, replaced conversations and failing  *)
(* steps come to an end: every request fails or hands its answer on, whichever  *)
(* provider it goes to.                                                         *)
AnswerComes ==
    \A r \in Requests \cap Askers : Busy(r) \/ Talking(r) ~> ~Busy(r) /\ (~Talking(r) \/ crashed)
================================================================================
