---------------------------- MODULE ProvidersProofs ----------------------------
(* What is proved of the providers: their responders (Responders), and a dialog's *)
(* requests to OpenAI and Gemini (RequestLoop) and to Mistral (MistralRequest).  *)
(* Each model comes with its types; then the responders' invariants, for one     *)
(* goroutine of each kind where the code needs that, the requests' calls, prompt *)
(* and history, how long a conversation at Mistral lasts, and that every request *)
(* comes nearer to its end; at the end the specification MCProviders composes.   *)
EXTENDS MCProviders, SequenceTheorems, TLAPS

--------------------------------------------------------------------------------
(* What a sweeper still has to do                                               *)

Plans == {<<>>, <<"pick", "delete">>, <<"delete">>,
          <<"pick", "cancel", "delete">>, <<"cancel", "delete">>,
          <<"pick", "cancel", "close", "delete">>, <<"cancel", "close", "delete">>,
          <<"close", "delete">>,
          <<"stop", "pick", "cancel", "close", "delete", "waits">>,
          <<"pick", "cancel", "close", "delete", "waits">>,
          <<"cancel", "close", "delete", "waits">>, <<"close", "delete", "waits">>,
          <<"delete", "waits">>, <<"waits">>, <<"waitclose">>,
          <<"pick", "cancel", "stop">>, <<"cancel", "stop">>, <<"stop">>, <<"forget">>}

LEMMA Tails ==
  /\ Tail(<<"pick", "delete">>) = <<"delete">> /\ Tail(<<"delete">>) = <<>>
  /\ Tail(<<"pick", "cancel", "delete">>) = <<"cancel", "delete">>
  /\ Tail(<<"cancel", "delete">>) = <<"delete">>
  /\ Tail(<<"pick", "cancel", "close", "delete">>) = <<"cancel", "close", "delete">>
  /\ Tail(<<"cancel", "close", "delete">>) = <<"close", "delete">>
  /\ Tail(<<"close", "delete">>) = <<"delete">>
  /\ Tail(<<"stop", "pick", "cancel", "close", "delete", "waits">>)
        = <<"pick", "cancel", "close", "delete", "waits">>
  /\ Tail(<<"pick", "cancel", "close", "delete", "waits">>)
        = <<"cancel", "close", "delete", "waits">>
  /\ Tail(<<"cancel", "close", "delete", "waits">>) = <<"close", "delete", "waits">>
  /\ Tail(<<"close", "delete", "waits">>) = <<"delete", "waits">>
  /\ Tail(<<"delete", "waits">>) = <<"waits">> /\ Tail(<<"waits">>) = <<>>
  /\ Tail(<<"waitclose">>) = <<>>
  /\ Tail(<<"pick", "cancel", "stop">>) = <<"cancel", "stop">>
  /\ Tail(<<"cancel", "stop">>) = <<"stop">> /\ Tail(<<"stop">>) = <<>>
  /\ Tail(<<"forget">>) = <<>>
  OBVIOUS

LEMMA PlansTail == \A plan \in Plans : plan # <<>> => Tail(plan) \in Plans
  BY Tails DEF Plans

LEMMA PlansSeq == Plans \subseteq Seq(Step)
<1>1. /\ <<>> \in Seq(Step) /\ <<"pick", "delete">> \in Seq(Step)
      /\ <<"delete">> \in Seq(Step) /\ <<"pick", "cancel", "delete">> \in Seq(Step)
      /\ <<"cancel", "delete">> \in Seq(Step)
      /\ <<"pick", "cancel", "close", "delete">> \in Seq(Step)
      /\ <<"cancel", "close", "delete">> \in Seq(Step) /\ <<"close", "delete">> \in Seq(Step)
      /\ <<"stop", "pick", "cancel", "close", "delete", "waits">> \in Seq(Step)
      /\ <<"pick", "cancel", "close", "delete", "waits">> \in Seq(Step)
      /\ <<"cancel", "close", "delete", "waits">> \in Seq(Step)
      /\ <<"close", "delete", "waits">> \in Seq(Step) /\ <<"delete", "waits">> \in Seq(Step)
      /\ <<"waits">> \in Seq(Step) /\ <<"waitclose">> \in Seq(Step)
      /\ <<"pick", "cancel", "stop">> \in Seq(Step) /\ <<"cancel", "stop">> \in Seq(Step)
      /\ <<"stop">> \in Seq(Step) /\ <<"forget">> \in Seq(Step)
  BY DEF Step
<1>2. QED
  BY <1>1 DEF Plans

\* The step that comes next.
Todo(plan) == IF plan = <<>> THEN "none" ELSE Head(plan)

LEMMA PlansNext ==
  ASSUME NEW plan \in Plans, plan # <<>>
  PROVE  /\ Head(plan) = "pick" => Todo(Tail(plan)) \in {"cancel", "delete"}
         /\ Head(plan) = "pick" /\ Todo(Tail(plan)) = "delete" => plan = <<"pick", "delete">>
         /\ Head(plan) = "cancel" => Todo(Tail(plan)) \in {"close", "delete", "stop"}
         /\ Head(plan) = "close"  => Todo(Tail(plan)) = "delete"
         /\ Head(plan) = "delete" => Todo(Tail(plan)) \in {"none", "waits"}
         /\ Head(plan) = "stop"   => Todo(Tail(plan)) \in {"none", "pick"}
         /\ Head(plan) \in {"waits", "waitclose", "forget"} => Todo(Tail(plan)) = "none"
<1>1. /\ Todo(<<"pick", "delete">>) = "pick" /\ Todo(<<"delete">>) = "delete"
      /\ Todo(<<"pick", "cancel", "delete">>) = "pick"
      /\ Todo(<<"cancel", "delete">>) = "cancel"
      /\ Todo(<<"pick", "cancel", "close", "delete">>) = "pick"
      /\ Todo(<<"cancel", "close", "delete">>) = "cancel"
      /\ Todo(<<"close", "delete">>) = "close"
      /\ Todo(<<"stop", "pick", "cancel", "close", "delete", "waits">>) = "stop"
      /\ Todo(<<"pick", "cancel", "close", "delete", "waits">>) = "pick"
      /\ Todo(<<"cancel", "close", "delete", "waits">>) = "cancel"
      /\ Todo(<<"close", "delete", "waits">>) = "close"
      /\ Todo(<<"delete", "waits">>) = "delete" /\ Todo(<<"waits">>) = "waits"
      /\ Todo(<<"waitclose">>) = "waitclose" /\ Todo(<<"pick", "cancel", "stop">>) = "pick"
      /\ Todo(<<"cancel", "stop">>) = "cancel" /\ Todo(<<"stop">>) = "stop"
      /\ Todo(<<"forget">>) = "forget" /\ Todo(<<>>) = "none"
  BY DEF Todo
<1>2. /\ Todo(Tail(<<"pick", "delete">>)) = "delete" /\ Todo(Tail(<<"delete">>)) = "none"
      /\ Todo(Tail(<<"pick", "cancel", "delete">>)) = "cancel"
      /\ Todo(Tail(<<"cancel", "delete">>)) = "delete"
      /\ Todo(Tail(<<"pick", "cancel", "close", "delete">>)) = "cancel"
      /\ Todo(Tail(<<"cancel", "close", "delete">>)) = "close"
      /\ Todo(Tail(<<"close", "delete">>)) = "delete"
      /\ Todo(Tail(<<"stop", "pick", "cancel", "close", "delete", "waits">>)) = "pick"
      /\ Todo(Tail(<<"pick", "cancel", "close", "delete", "waits">>)) = "cancel"
      /\ Todo(Tail(<<"cancel", "close", "delete", "waits">>)) = "close"
      /\ Todo(Tail(<<"close", "delete", "waits">>)) = "delete"
      /\ Todo(Tail(<<"delete", "waits">>)) = "waits" /\ Todo(Tail(<<"waits">>)) = "none"
      /\ Todo(Tail(<<"waitclose">>)) = "none"
      /\ Todo(Tail(<<"pick", "cancel", "stop">>)) = "cancel"
      /\ Todo(Tail(<<"cancel", "stop">>)) = "stop" /\ Todo(Tail(<<"stop">>)) = "none"
      /\ Todo(Tail(<<"forget">>)) = "none"
  BY <1>1, Tails
<1>3. Head(plan) = Todo(plan)
  BY DEF Todo
<1>4. QED
  BY <1>1, <1>2, <1>3, ZenonT(90) DEF Plans

LEMMA PlansRange ==
  \A plan \in Plans : plan # <<>> /\ Head(plan) = "pick" =>
    AfterRange(plan) \in {<<>>, <<"stop">>, <<"waits">>}
  BY DEF Plans, AfterRange

LEMMA PlansStart ==
  ASSUME setup.provider \in Provider, NEW o \in Op
  PROVE  /\ Plan(o) \in Plans /\ (Plan(o) = <<"pick", "delete">> => o = "invalidate")
         /\ Todo(Plan(o)) \in {"none", "pick", "stop", "forget"}
  BY DEF Plans, Plan, Todo, P, Provider, Op, OpenAICleanUp, OpenAIInvalidate,
     OpenAIDisconnectUser, OpenAICleanDialogData, OpenAIShutdown, GooglePeriodicFlush,
     GoogleInvalidate, GoogleDisconnectUser, GoogleCleanDialogData, GoogleShutdown,
     GoogleForgetsWaits, MistralCleanUp, MistralInvalidate, MistralDisconnectUser,
     MistralShutdown
--------------------------------------------------------------------------------
(* Types of the responders                                                      *)

LEMMA ActingActs == ASSUME NEW S, S # {} PROVE Acting(S) \subseteq S
  BY DEF Acting

LEMMA EnvsAreEnv == Envs \subseteq Env
<1>1. Good \in Env /\ [Good EXCEPT !.key = "none"] \in Env
  BY DEF Good, Env
<1>2. QED
  BY <1>1 DEF Envs

\* The states of the goroutines when n responders and m wait channels are made: who
\* is to configure, store, cancel or close one has one.
CallerStates(n, m) ==
  {k \in CallerState : /\ k.i \in 0 .. n /\ k.w \in 0 .. m
                       /\ k.pc \in {"config", "store"} => k.i # 0
                       /\ k.pc = "close" => k.w # 0}
WaiterStates(m) == {k \in WaiterState : k.at \in 1 .. Len(setup.order) /\ k.w \in 0 .. m}
SweeperStates(n, m) ==
  {k \in SweeperState : /\ k.plan \in Plans /\ k.i \in 0 .. n /\ k.w \in 0 .. m
                        /\ Todo(k.plan) \in {"cancel", "close"} => k.i # 0
                        /\ Todo(k.plan) = "waitclose" => k.w # 0}

LEMMA StatesGrow ==
  ASSUME NEW n \in Nat, NEW m \in Nat, NEW nn \in Nat, NEW mm \in Nat, n <= nn, m <= mm
  PROVE  /\ CallerStates(n, m) \subseteq CallerStates(nn, mm)
         /\ WaiterStates(m) \subseteq WaiterStates(mm)
         /\ SweeperStates(n, m) \subseteq SweeperStates(nn, mm)
  BY DEF CallerStates, WaiterStates, SweeperStates

SetupTypes == /\ setup \in Setup /\ Len(setup.order) \in 1 .. 3
              /\ down \subseteq Provider /\ panicked \in BOOLEAN
RespTypes == /\ resp \in Seq(Resp) /\ Len(resp) <= MaxResp
             /\ \A i \in Made : resp[i].provider = P
             /\ slot \in [Provider -> 0 .. Len(resp)]
WaitTypes == /\ waits \in 0 .. MaxWaits /\ wait \in [Provider -> 0 .. waits]
             /\ closed \subseteq 1 .. waits
ActorTypes == /\ caller \in [Callers -> CallerStates(Len(resp), waits)]
              /\ waiter \in [Waiters -> WaiterStates(waits)]
              /\ sweeper \in [Sweepers -> SweeperStates(Len(resp), waits)]

Typed == setup \in Setups /\ SetupTypes /\ RespTypes /\ WaitTypes /\ ActorTypes

\* What one step does to the responders: nothing, one more, or it changes some; a
\* responder stays its provider's and does not come to life again.
RespStep ==
  /\ resp' \in Seq(Resp)
  /\ \/ Len(resp') = Len(resp)
     \/ /\ Len(resp') = Len(resp) + 1 /\ Len(resp') <= MaxResp /\ slot[P] = 0
        /\ resp'[Len(resp')].provider = P /\ resp'[Len(resp')].config = NoConfig
  /\ \A i \in Made : /\ resp'[i].provider = resp[i].provider
                     /\ resp'[i].live => resp[i].live
                     /\ \/ resp'[i].config = resp[i].config
                        \/ Fits(resp[i].provider, resp'[i].config)

LEMMA RespExcept ==
  ASSUME resp \in Seq(Resp), NEW i \in Made, NEW r \in Resp, resp' = [resp EXCEPT ![i] = r],
         r.provider = resp[i].provider, r.live => resp[i].live,
         r.config = resp[i].config \/ Fits(resp[i].provider, r.config)
  PROVE  RespStep
  BY DEF RespStep, Made

LEMMA RespSame == ASSUME resp \in Seq(Resp), UNCHANGED resp PROVE RespStep
  BY DEF RespStep

LEMMA ConfigTypes ==
  ASSUME NEW e \in Env
  PROVE  /\ NoConfig \in Config /\ OpenAIConfig(e) \in Config /\ GoogleConfig(e) \in Config
         /\ Fits("openai", OpenAIConfig(e)) /\ Fits("google", GoogleConfig(e))
         /\ \A p \in Provider : Fits(p, NoConfig)
  BY DEF Env, NoConfig, Config, OpenAIConfig, GoogleConfig, BuildAgentConfiguration, Fits,
     OpenAIFinds, GoogleFinds, If, Tool, Provider
LEMMA WhoActs ==
  Next => \/ \E c \in Callers : Calls(c) \/ CallerLeaves(c)
          \/ \E g \in Waiters : Waits(g) \/ WaiterLeaves(g)
          \/ \E s \in Sweepers : SweeperStarts(s) \/ Sweeps(s)
          \/ Expires
  BY ActingActs, RespondersAssumption DEF Next

LEMMA RespStepAlways == Typed /\ Next => RespStep
<1> SUFFICES ASSUME Typed, Next PROVE RespStep
  OBVIOUS
<1>a. /\ resp \in Seq(Resp) /\ Len(resp) \in Nat /\ DOMAIN resp = Made
      /\ \A i \in Made : resp[i] \in Resp /\ resp[i].provider = P
      /\ slot \in [Provider -> 0 .. Len(resp)] /\ P \in Provider
      /\ slot[P] # 0 => slot[P] \in Made
  BY DEF Typed, RespTypes, SetupTypes, Setup, P, Made
<1>b. CASE UNCHANGED resp
  BY <1>a, <1>b, RespSame
<1>1. ASSUME NEW c \in Callers, Calls(c) \/ CallerLeaves(c) PROVE RespStep
  <2>a. caller[c] \in CallerStates(Len(resp), waits)
    BY DEF Typed, ActorTypes
  <2>b. caller[c].pc \in {"config", "store"} => caller[c].i \in Made
    BY <1>a, <2>a DEF CallerStates, Made
  <2>1. CASE CallerLoads(c)
    <3>1. CASE Hits(c)
      <4>1. [resp[slot[P]] EXCEPT !.expired = FALSE] \in Resp
        BY <3>1, <1>a DEF Hits, Resp
      <4>2. QED
        BY <3>1, <4>1, <1>a, RespExcept DEF Hits, Resp
    <3>2. ASSUME NEW d \in Dialogs, CreateBaseResponder(c, d) PROVE RespStep
      <4> DEFINE r == [provider |-> P, live |-> P \notin down, open |-> TRUE,
                       expired |-> FALSE, config |-> NoConfig, main |-> d, chans |-> {d}]
      <4>1. r \in Resp
        BY <1>a DEF Resp, Config, NoConfig
      <4>2. resp' = Append(resp, r) /\ slot[P] = 0 /\ Len(resp) < MaxResp
        BY <3>2 DEF CreateBaseResponder
      <4>3. /\ resp' \in Seq(Resp) /\ Len(resp') = Len(resp) + 1
            /\ \A i \in Made : resp'[i] = resp[i]
            /\ resp'[Len(resp')] = r
        BY <4>1, <4>2, <1>a DEF Made
      <4>4. r.provider = P /\ r.config = NoConfig
        OBVIOUS
      <4> HIDE DEF r
      <4>5. Len(resp') <= MaxResp
        BY <4>2, <4>3, <1>a, RespondersAssumption
      <4>6. QED
        BY <4>2, <4>3, <4>4, <4>5 DEF RespStep
    <3>3. ASSUME NEW d \in Dialogs, GoogleHits(c, d) PROVE RespStep
      <4> DEFINE i == slot[P]
                 r == [resp[i] EXCEPT !.expired = FALSE, !.chans = @ \cup {d},
                                      !.main = IF d \in resp[i].chans THEN @ ELSE d]
      <4>1. i \in Made /\ resp[i] \in Resp
        BY <3>3, <1>a DEF GoogleHits
      <4>2. /\ r \in Resp /\ r.provider = resp[i].provider /\ r.live = resp[i].live
            /\ r.config = resp[i].config
        BY <4>1 DEF Resp
      <4>3. resp' = [resp EXCEPT ![i] = r]
        BY <3>3, <4>1, <1>a DEF GoogleHits
      <4>4. QED
        BY <4>1, <4>2, <4>3, <1>a, RespExcept
    <3>4. setup.dialogs \subseteq Dialogs
      BY DEF Typed, SetupTypes, Setup
    <3>5. QED
      BY <2>1, <3>1, <3>2, <3>3, <3>4, <1>b DEF CallerLoads, OpenAILoads, GoogleLoads,
         MistralLoads
  <2>2. CASE CallerConfigures(c)
    <3> DEFINE i == caller[c].i
    <3>1. i \in Made /\ resp[i] \in Resp /\ resp[i].provider = P
      BY <2>2, <2>b, <1>a DEF CallerConfigures
    <3>2. PICK e \in Envs : \/ P = "openai" /\ OpenAIConfigures(c, e)
                            \/ P = "google" /\ GoogleConfigures(c, e)
                            \/ P = "mistral" /\ MistralConfigures(c)
      BY <2>2 DEF CallerConfigures
    <3>3. e \in Env
      BY EnvsAreEnv
    <3>4. CASE P = "openai" /\ OpenAIConfigures(c, e)
      <4>1. [resp[i] EXCEPT !.config = OpenAIConfig(e)] \in Resp
        BY <3>1, <3>3, ConfigTypes DEF Resp
      <4>2. resp' = [resp EXCEPT ![i] = [resp[i] EXCEPT !.config = OpenAIConfig(e)]]
        BY <3>4 DEF OpenAIConfigures
      <4>3. QED
        BY <3>1, <3>3, <3>4, <4>1, <4>2, <1>a, ConfigTypes, RespExcept DEF Resp
    <3>5. CASE P = "google" /\ GoogleConfigures(c, e)
      <4> DEFINE given == [resp[i] EXCEPT !.config = GoogleConfig(e)]
                 ended == [resp[i] EXCEPT !.live = FALSE]
      <4>1. given \in Resp /\ ended \in Resp
        BY <3>1, <3>3, ConfigTypes DEF Resp
      <4>2. /\ given.provider = "google" /\ given.live = resp[i].live
            /\ Fits("google", given.config)
        BY <3>1, <3>3, <3>5, ConfigTypes DEF Resp
      <4>3. /\ ended.provider = resp[i].provider /\ ~ended.live
            /\ ended.config = resp[i].config
        BY <3>1 DEF Resp
      <4>4. resp' = [resp EXCEPT ![i] = given] \/ resp' = [resp EXCEPT ![i] = ended]
        BY <3>5 DEF GoogleConfigures
      <4> HIDE DEF given, ended
      <4>5. CASE resp' = [resp EXCEPT ![i] = given]
        BY <3>1, <3>5, <4>1, <4>2, <4>5, <1>a, RespExcept
      <4>6. CASE resp' = [resp EXCEPT ![i] = ended]
        BY <3>1, <4>1, <4>3, <4>6, <1>a, RespExcept
      <4>7. QED
        BY <4>4, <4>5, <4>6
    <3>6. QED
      BY <3>2, <3>4, <3>5, <1>b DEF MistralConfigures
  <2>3. CASE CallerStores(c) \/ NotifyLoads(c) \/ NotifyCloses(c) \/ CallerLeaves(c)
    BY <2>3, <1>b DEF CallerStores, NotifyLoads, NotifyCloses, CallerLeaves
  <2>4. QED
    BY <1>1, <2>1, <2>2, <2>3 DEF Calls
<1>2. ASSUME NEW g \in Waiters, Waits(g) \/ WaiterLeaves(g) PROVE RespStep
  BY <1>2, <1>b DEF Waits, WaiterLeaves, WaiterLoads, WaiterMakes, WaiterTries, WaiterWakes,
     WaiterGivesUp, WaiterTriesAgain
<1>3. ASSUME NEW s \in Sweepers, SweeperStarts(s) \/ Sweeps(s) PROVE RespStep
  <2> DEFINE i == sweeper[s].i
  <2>1. CASE SweeperCancels(s) \/ SweeperCloses(s)
    <3>1. /\ sweeper[s] \in SweeperStates(Len(resp), waits)
          /\ Todo(sweeper[s].plan) \in {"cancel", "close"}
      BY <2>1 DEF Typed, ActorTypes, SweeperCancels, SweeperCloses, At1, Todo
    <3>2. i \in Made
      BY <3>1, <1>a DEF SweeperStates, Made
    <3>3. \/ resp' = [resp EXCEPT ![i] = [resp[i] EXCEPT !.live = FALSE]]
          \/ resp' = [resp EXCEPT ![i] = [resp[i] EXCEPT !.open = FALSE]]
      BY <2>1 DEF SweeperCancels, SweeperCloses
    <3>4. /\ [resp[i] EXCEPT !.live = FALSE] \in Resp
          /\ [resp[i] EXCEPT !.open = FALSE] \in Resp
      BY <3>2, <1>a DEF Resp
    <3>5. QED
      BY <3>2, <3>3, <3>4, <1>a, RespExcept DEF Resp
  <2>2. CASE SweeperStops(s)
    <3> DEFINE ended(j) == [resp[j] EXCEPT !.live = @ /\ resp[j].provider # P]
    <3>1. resp' = [j \in 1 .. Len(resp) |-> ended(j)]
      BY <2>2 DEF SweeperStops, Made
    <3>2. \A j \in 1 .. Len(resp) :
             /\ ended(j) \in Resp /\ ended(j).provider = resp[j].provider
             /\ (ended(j).live => resp[j].live) /\ ended(j).config = resp[j].config
      BY <1>a DEF Resp, Made
    <3> HIDE DEF ended
    <3>3. /\ resp' \in Seq(Resp) /\ Len(resp') = Len(resp)
          /\ \A j \in 1 .. Len(resp) : resp'[j] = ended(j)
      BY <3>1, <3>2, <1>a
    <3>4. QED
      BY <3>2, <3>3 DEF RespStep, Made
  <2>3. CASE ~SweeperCancels(s) /\ ~SweeperCloses(s) /\ ~SweeperStops(s)
    BY <1>3, <2>3, <1>b DEF SweeperStarts, Sweeps, SweeperPicks, SweeperDeletes,
       SweeperChecksWait, SweeperClosesWait, SweeperForgetsWait
  <2>4. QED
    BY <2>1, <2>2, <2>3
<1>4. CASE Expires
  <2>1. PICK i \in Made : resp' = [resp EXCEPT ![i] = [resp[i] EXCEPT !.expired = TRUE]]
    BY <1>4 DEF Expires
  <2>2. [resp[i] EXCEPT !.expired = TRUE] \in Resp
    BY <1>a DEF Resp
  <2>3. QED
    BY <2>1, <2>2, <1>a, RespExcept DEF Resp
<1>5. QED
  BY <1>1, <1>2, <1>3, <1>4, WhoActs

LEMMA SetupStays == Next => UNCHANGED setup
  BY WhoActs DEF Calls, CallerLoads, CallerConfigures, CallerStores, NotifyLoads,
     NotifyCloses, CallerLeaves, Waits, WaiterLeaves, WaiterLoads, WaiterMakes, WaiterTries,
     WaiterWakes, WaiterGivesUp, WaiterTriesAgain, SweeperStarts, Sweeps, SweeperPicks,
     SweeperCancels, SweeperCloses, SweeperDeletes, SweeperStops, SweeperChecksWait,
     SweeperClosesWait, SweeperForgetsWait, Expires

LEMMA SlotStep ==
  ASSUME Typed, Next
  PROVE  \/ UNCHANGED slot
         \/ slot' = [slot EXCEPT ![P] = 0]
         \/ \E c \in Callers : /\ caller[c].pc = "store" /\ UNCHANGED resp
                               /\ slot' = [slot EXCEPT ![P] = caller[c].i]
<1>1. ASSUME NEW c \in Callers, Calls(c) \/ CallerLeaves(c), ~CallerStores(c)
      PROVE  UNCHANGED slot
  BY <1>1 DEF Calls, CallerLoads, CallerConfigures, NotifyLoads, NotifyCloses, CallerLeaves
<1>2. ASSUME NEW g \in Waiters, Waits(g) \/ WaiterLeaves(g) PROVE UNCHANGED slot
  BY <1>2 DEF Waits, WaiterLeaves, WaiterLoads, WaiterMakes, WaiterTries, WaiterWakes,
     WaiterGivesUp, WaiterTriesAgain
<1>3. ASSUME NEW s \in Sweepers, SweeperStarts(s) \/ Sweeps(s), ~SweeperDeletes(s)
      PROVE  UNCHANGED slot
  BY <1>3 DEF SweeperStarts, Sweeps, SweeperPicks, SweeperCancels, SweeperCloses,
     SweeperStops, SweeperChecksWait, SweeperClosesWait, SweeperForgetsWait
<1>4. QED
  BY <1>1, <1>2, <1>3, WhoActs DEF CallerStores, SweeperDeletes, Expires

\* What one step does to the wait channels.
LEMMA WaitStep ==
  ASSUME Typed, Next
  PROVE  \/ UNCHANGED <<wait, waits, closed>>
         \/ /\ waits < MaxWaits /\ waits' = waits + 1 /\ UNCHANGED closed
            /\ \E p \in Provider : wait' = [wait EXCEPT ![p] = waits + 1]
         \/ UNCHANGED <<waits, closed>> /\ wait' = [wait EXCEPT ![P] = 0]
         \/ /\ UNCHANGED waits /\ wait' = [wait EXCEPT ![P] = 0]
            /\ \E w \in 1 .. waits : closed' = closed \cup {w}
<1>a. wait \in [Provider -> 0 .. waits] /\ P \in Provider /\ waits \in Nat
  BY DEF Typed, WaitTypes, SetupTypes, Setup, P
<1>1. ASSUME NEW c \in Callers, Calls(c) \/ CallerLeaves(c), ~NotifyCloses(c)
      PROVE  UNCHANGED <<wait, waits, closed>>
  BY <1>1 DEF Calls, CallerLoads, CallerConfigures, CallerStores, NotifyLoads, CallerLeaves
<1>2. ASSUME NEW c \in Callers, NotifyCloses(c)
      PROVE  /\ UNCHANGED waits /\ wait' = [wait EXCEPT ![P] = 0]
             /\ \E w \in 1 .. waits : closed' = closed \cup {w}
  <2>1. caller[c].w \in 1 .. waits
    <3>1. caller[c] \in CallerStates(Len(resp), waits) /\ caller[c].pc = "close"
      BY <1>2 DEF NotifyCloses, Typed, ActorTypes
    <3>2. QED
      BY <3>1, <1>a DEF CallerStates
  <2>2. QED
    BY <1>2, <2>1 DEF NotifyCloses
<1>3. ASSUME NEW g \in Waiters, Waits(g) \/ WaiterLeaves(g), ~WaiterMakes(g)
      PROVE  UNCHANGED <<wait, waits, closed>>
  BY <1>3 DEF Waits, WaiterLeaves, WaiterLoads, WaiterTries, WaiterWakes, WaiterGivesUp,
     WaiterTriesAgain
<1>4. ASSUME NEW g \in Waiters, WaiterMakes(g)
      PROVE  /\ waits < MaxWaits /\ waits' = waits + 1 /\ UNCHANGED closed
             /\ \E p \in Provider : wait' = [wait EXCEPT ![p] = waits + 1]
  <2>1. At(g) \in Provider
    <3>1. /\ waiter[g] \in WaiterStates(waits) /\ setup.order \in Seq(Provider)
      BY DEF Typed, ActorTypes, SetupTypes, Setup
    <3>2. QED
      BY <3>1 DEF WaiterStates, At
  <2>2. QED
    BY <1>4, <2>1 DEF WaiterMakes
<1>5. ASSUME NEW s \in Sweepers, SweeperStarts(s) \/ Sweeps(s),
             ~SweeperChecksWait(s), ~SweeperClosesWait(s), ~SweeperForgetsWait(s)
      PROVE  UNCHANGED <<wait, waits, closed>>
  BY <1>5 DEF SweeperStarts, Sweeps, SweeperPicks, SweeperCancels, SweeperCloses,
     SweeperDeletes, SweeperStops
<1>6. ASSUME NEW s \in Sweepers, SweeperClosesWait(s)
      PROVE  /\ UNCHANGED waits /\ wait' = [wait EXCEPT ![P] = 0]
             /\ \E w \in 1 .. waits : closed' = closed \cup {w}
  <2>1. sweeper[s].w \in 1 .. waits
    <3>1. /\ sweeper[s] \in SweeperStates(Len(resp), waits)
          /\ Todo(sweeper[s].plan) = "waitclose"
      BY <1>6 DEF SweeperClosesWait, At1, Todo, Typed, ActorTypes
    <3>2. QED
      BY <3>1, <1>a DEF SweeperStates
  <2>2. QED
    BY <1>6, <2>1 DEF SweeperClosesWait
<1>7. ASSUME NEW s \in Sweepers, SweeperChecksWait(s) \/ SweeperForgetsWait(s)
      PROVE  /\ UNCHANGED <<waits, closed>>
             /\ UNCHANGED wait \/ wait' = [wait EXCEPT ![P] = 0]
  <2>1. [wait EXCEPT ![P] = wait[P]] = wait
    BY <1>a
  <2>2. QED
    BY <1>7, <2>1 DEF SweeperChecksWait, SweeperForgetsWait
<1>8. CASE Expires
  BY <1>8 DEF Expires
<1>9. QED
  BY <1>1, <1>2, <1>3, <1>4, <1>5, <1>6, <1>7, <1>8, WhoActs

--------------------------------------------------------------------------------
(* The steps of the goroutines keep their states                                *)

\* What StatesGrow needs to know of a step.
LEMMA Grows ==
  ASSUME Typed, Next
  PROVE  /\ Len(resp) \in Nat /\ Len(resp') \in Nat /\ Len(resp) <= Len(resp')
         /\ Len(resp') <= MaxResp
         /\ waits \in Nat /\ waits' \in Nat /\ waits <= waits' /\ waits' <= MaxWaits
         /\ setup' = setup /\ P' = P
<1>1. RespStep /\ Len(resp) \in Nat /\ Len(resp) <= MaxResp
  BY RespStepAlways DEF Typed, RespTypes
<1>2. Len(resp') \in Nat /\ Len(resp) <= Len(resp') /\ Len(resp') <= MaxResp
  BY <1>1 DEF RespStep
<1>3. waits \in Nat /\ waits <= MaxWaits /\ MaxWaits \in Nat
  BY RespondersAssumption DEF Typed, WaitTypes
<1>4. waits' \in Nat /\ waits <= waits' /\ waits' <= MaxWaits
  BY <1>3, WaitStep
<1>5. QED
  BY <1>1, <1>2, <1>3, <1>4, SetupStays DEF P

LEMMA CallerStep ==
  ASSUME Typed, Next, NEW c \in Callers, Calls(c) \/ CallerLeaves(c)
  PROVE  /\ UNCHANGED <<waiter, sweeper>>
         /\ \E k \in CallerStates(Len(resp'), waits') : caller' = [caller EXCEPT ![c] = k]
<1> DEFINE New(pc, i, w) == [pc |-> pc, i |-> i, w |-> w]
<1>a. /\ caller[c] \in CallerStates(Len(resp), waits) /\ P \in Provider
      /\ slot[P] \in 0 .. Len(resp) /\ wait[P] \in 0 .. waits
  BY DEF Typed, ActorTypes, RespTypes, WaitTypes, SetupTypes, Setup, P
<1>b. /\ Len(resp) \in Nat /\ Len(resp') \in Nat /\ Len(resp) <= Len(resp')
      /\ Len(resp') <= MaxResp
      /\ waits \in Nat /\ waits' \in Nat /\ waits <= waits' /\ waits' <= MaxWaits
      /\ MaxResp \in Nat /\ MaxWaits \in Nat
  BY Grows, RespondersAssumption
<1>c. /\ caller[c].i \in 0 .. Len(resp') /\ caller[c].w \in 0 .. waits'
      /\ caller[c].pc \in {"config", "store"} => caller[c].i # 0
      /\ slot[P] \in 0 .. Len(resp') /\ wait[P] \in 0 .. waits'
  BY <1>a, <1>b DEF CallerStates
<1>d. ASSUME NEW pc \in {"idle", "config", "store", "notify", "close", "holds", "failed"},
             NEW i \in 0 .. Len(resp'), NEW w \in 0 .. waits',
             pc \in {"config", "store"} => i # 0, pc = "close" => w # 0,
             SetCaller(c, pc, i, w)
      PROVE  \E k \in CallerStates(Len(resp'), waits') : caller' = [caller EXCEPT ![c] = k]
  <2>1. New(pc, i, w) \in CallerState
    BY <1>b, <1>d DEF CallerState
  <2>2. New(pc, i, w) \in CallerStates(Len(resp'), waits')
    BY <2>1, <1>d DEF CallerStates
  <2>3. QED
    BY <2>2, <1>d DEF SetCaller
<1>e. 0 \in 0 .. Len(resp') /\ 0 \in 0 .. waits'
  BY <1>b
<1>1. CASE CallerLoads(c)
  <2>0. UNCHANGED <<waiter, sweeper>>
    BY <1>1 DEF CallerLoads
  <2>1. CASE SetCaller(c, "holds", slot[P], 0)
    BY <2>0, <2>1, <1>c, <1>d, <1>e
  <2>2. CASE SetCaller(c, "failed", 0, 0)
    BY <2>0, <2>2, <1>d, <1>e
  <2>3. ASSUME NEW d, CreateBaseResponder(c, d)
        PROVE  \E k \in CallerStates(Len(resp'), waits') : caller' = [caller EXCEPT ![c] = k]
    <3>1. SetCaller(c, "config", Len(resp) + 1, 0)
      BY <2>3 DEF CreateBaseResponder
    <3>2. Len(resp) + 1 \in 0 .. Len(resp') /\ Len(resp) + 1 # 0
      <4>1. resp \in Seq(Resp)
        BY DEF Typed, RespTypes
      <4>2. Len(resp') = Len(resp) + 1
        BY <2>3, <4>1 DEF CreateBaseResponder
      <4>3. QED
        BY <4>2, <1>b
    <3>3. QED
      BY <3>1, <3>2, <1>d, <1>e
  <2>4. /\ UNCHANGED <<waiter, sweeper>>
        /\ \/ SetCaller(c, "holds", slot[P], 0) \/ SetCaller(c, "failed", 0, 0)
           \/ \E d : CreateBaseResponder(c, d)
    BY <1>1 DEF CallerLoads, OpenAILoads, GoogleLoads, MistralLoads, Hits, GoogleHits
  <2>5. QED
    BY <2>0, <2>1, <2>2, <2>3, <2>4
<1>2. CASE CallerConfigures(c)
  <2>1. /\ UNCHANGED <<waiter, sweeper>> /\ caller[c].pc = "config"
        /\ SetCaller(c, "store", caller[c].i, 0) \/ SetCaller(c, "failed", 0, 0)
    BY <1>2 DEF CallerConfigures, OpenAIConfigures, GoogleConfigures, MistralConfigures
  <2>2. QED
    BY <2>1, <1>c, <1>d, <1>e
<1>3. CASE CallerStores(c)
  <2>1. /\ UNCHANGED <<waiter, sweeper>>
        /\ \/ SetCaller(c, "holds", caller[c].i, 0) \/ SetCaller(c, "notify", caller[c].i, 0)
    BY <1>3 DEF CallerStores
  <2>2. QED
    BY <2>1, <1>c, <1>d, <1>e
<1>4. CASE NotifyLoads(c)
  <2>1. /\ UNCHANGED <<waiter, sweeper>>
        /\ \/ SetCaller(c, "holds", caller[c].i, wait[P])
           \/ wait[P] # 0 /\ SetCaller(c, "close", caller[c].i, wait[P])
    BY <1>4 DEF NotifyLoads
  <2>2. QED
    BY <2>1, <1>c, <1>d, <1>e
<1>5. CASE NotifyCloses(c) \/ CallerLeaves(c)
  <2>1. /\ UNCHANGED <<waiter, sweeper>>
        /\ SetCaller(c, "holds", caller[c].i, 0) \/ SetCaller(c, "idle", 0, 0)
    BY <1>5 DEF NotifyCloses, CallerLeaves
  <2>2. QED
    BY <2>1, <1>c, <1>d, <1>e
<1>6. QED
  BY <1>1, <1>2, <1>3, <1>4, <1>5 DEF Calls

LEMMA WaiterStep ==
  ASSUME Typed, Next, NEW g \in Waiters, Waits(g) \/ WaiterLeaves(g)
  PROVE  /\ UNCHANGED <<caller, sweeper>>
         /\ \E k \in WaiterStates(waits') : waiter' = [waiter EXCEPT ![g] = k]
<1> DEFINE New(pc, at, w) == [pc |-> pc, at |-> at, w |-> w]
<1>a. /\ waiter[g] \in WaiterStates(waits) /\ setup.order \in Seq(Provider)
      /\ Len(setup.order) \in 1 .. 3 /\ wait \in [Provider -> 0 .. waits]
  BY DEF Typed, ActorTypes, WaitTypes, SetupTypes, Setup
<1>g. \A at \in 1 .. Len(setup.order) : at \in 1 .. 3
  <2>1. \A n \in 1 .. 3 : \A at \in 1 .. n : at \in 1 .. 3
    OBVIOUS
  <2>2. QED
    BY <1>a, <2>1
<1>b. /\ waits \in Nat /\ waits' \in Nat /\ waits <= waits' /\ waits' <= MaxWaits
      /\ MaxWaits \in Nat
  BY Grows, RespondersAssumption
<1>c. /\ waiter[g].at \in 1 .. Len(setup.order) /\ waiter[g].w \in 0 .. waits'
      /\ At(g) \in Provider /\ wait[At(g)] \in 0 .. waits' /\ 0 \in 0 .. waits'
      /\ 1 \in 1 .. Len(setup.order)
  BY <1>a, <1>b DEF WaiterStates, At
<1>d. ASSUME NEW pc \in {"idle", "make", "try", "select", "again", "got", "failed"},
             NEW at \in 1 .. Len(setup.order), NEW w \in 0 .. waits', SetWaiter(g, pc, at, w)
      PROVE  \E k \in WaiterStates(waits') : waiter' = [waiter EXCEPT ![g] = k]
  <2>1. at \in 1 .. 3
    BY <1>g
  <2>2. w \in 0 .. MaxWaits
    BY <1>b
  <2>3. New(pc, at, w) \in WaiterStates(waits')
    BY <2>1, <2>2 DEF WaiterStates, WaiterState
  <2>4. QED
    BY <2>3, <1>d DEF SetWaiter
<1>e. waiter[g].at < Len(setup.order) => waiter[g].at + 1 \in 1 .. Len(setup.order)
  BY <1>a, <1>c
<1>f. ASSUME NextProvider(g)
      PROVE  \E k \in WaiterStates(waits') : waiter' = [waiter EXCEPT ![g] = k]
  BY <1>c, <1>d, <1>e, <1>f DEF NextProvider
<1>1. CASE WaiterLoads(g)
  <2>1. /\ UNCHANGED <<caller, sweeper>>
        /\ \/ SetWaiter(g, "make", waiter[g].at, wait[At(g)])
           \/ SetWaiter(g, "try", waiter[g].at, wait[At(g)])
    BY <1>1 DEF WaiterLoads
  <2>2. QED
    BY <2>1, <1>c, <1>d
<1>2. CASE WaiterMakes(g)
  <2>1. /\ UNCHANGED <<caller, sweeper>> /\ waits' = waits + 1
        /\ SetWaiter(g, "try", waiter[g].at, waits + 1)
    BY <1>2 DEF WaiterMakes
  <2>2. waits + 1 \in 0 .. waits'
    BY <2>1, <1>b
  <2>3. QED
    BY <2>1, <2>2, <1>c, <1>d
<1>3. CASE WaiterTries(g)
  <2>1. /\ UNCHANGED <<caller, sweeper>>
        /\ \/ SetWaiter(g, "got", waiter[g].at, waiter[g].w)
           \/ SetWaiter(g, "select", waiter[g].at, waiter[g].w)
    BY <1>3 DEF WaiterTries
  <2>2. QED
    BY <2>1, <1>c, <1>d
<1>4. CASE WaiterWakes(g) \/ WaiterGivesUp(g) \/ WaiterTriesAgain(g) \/ WaiterLeaves(g)
  <2>1. /\ UNCHANGED <<caller, sweeper>>
        /\ \/ SetWaiter(g, "again", waiter[g].at, 0) \/ SetWaiter(g, "got", waiter[g].at, 0)
           \/ SetWaiter(g, "idle", 1, 0) \/ NextProvider(g)
    BY <1>4 DEF WaiterWakes, WaiterGivesUp, WaiterTriesAgain, WaiterLeaves
  <2>2. QED
    BY <2>1, <1>c, <1>d, <1>f
<1>5. QED
  BY <1>1, <1>2, <1>3, <1>4 DEF Waits

\* The state of a sweeper that goes on with plan.
Went(k, plan, i, w) == [k EXCEPT !.plan = plan, !.i = i, !.w = w]

LEMMA SweeperWent ==
  ASSUME NEW k \in SweeperState, NEW plan \in Seq(Step), NEW i \in 0 .. MaxResp,
         NEW w \in 0 .. MaxWaits
  PROVE  /\ Went(k, plan, i, w) \in SweeperState
         /\ Went(k, plan, i, w).plan = plan
         /\ Went(k, plan, i, w).i = i /\ Went(k, plan, i, w).w = w
  BY DEF SweeperState, Went

LEMMA SweeperStep ==
  ASSUME Typed, Next, NEW s \in Sweepers, SweeperStarts(s) \/ Sweeps(s)
  PROVE  /\ UNCHANGED <<caller, waiter>>
         /\ \E k \in SweeperStates(Len(resp'), waits') : sweeper' = [sweeper EXCEPT ![s] = k]
<1> DEFINE old == sweeper[s]
           Changed == \E k \in SweeperStates(Len(resp'), waits') :
                         sweeper' = [sweeper EXCEPT ![s] = k]
<1>a. /\ old \in SweeperStates(Len(resp), waits) /\ P \in Provider
      /\ slot[P] \in 0 .. Len(resp) /\ wait[P] \in 0 .. waits /\ setup.ops \subseteq Op
      /\ setup.provider \in Provider
  BY DEF Typed, ActorTypes, RespTypes, WaitTypes, SetupTypes, Setup, P
<1>b. /\ Len(resp) \in Nat /\ Len(resp') \in Nat /\ Len(resp) <= Len(resp')
      /\ Len(resp') <= MaxResp
      /\ waits \in Nat /\ waits' \in Nat /\ waits <= waits' /\ waits' <= MaxWaits
      /\ MaxResp \in Nat /\ MaxWaits \in Nat
  BY Grows, RespondersAssumption
<1>c. /\ old \in SweeperState /\ old.plan \in Plans
      /\ old.i \in 0 .. Len(resp') /\ old.w \in 0 .. waits'
      /\ Todo(old.plan) \in {"cancel", "close"} => old.i # 0
      /\ slot[P] \in 0 .. Len(resp') /\ wait[P] \in 0 .. waits'
      /\ 0 \in 0 .. Len(resp') /\ 0 \in 0 .. waits'
  BY <1>a, <1>b DEF SweeperStates
<1>g. sweeper \in [Sweepers -> SweeperState]
  BY DEF Typed, ActorTypes, SweeperStates
<1>d. ASSUME NEW k \in SweeperState, k.plan \in Plans, k.i \in 0 .. Len(resp'),
             k.w \in 0 .. waits', Todo(k.plan) \in {"cancel", "close"} => k.i # 0,
             Todo(k.plan) = "waitclose" => k.w # 0, sweeper' = [sweeper EXCEPT ![s] = k]
      PROVE  Changed
  BY <1>d DEF SweeperStates
<1>h. ASSUME NEW plan \in Plans, NEW i \in 0 .. Len(resp'), NEW w \in 0 .. waits',
             Todo(plan) \in {"cancel", "close"} => i # 0, Todo(plan) = "waitclose" => w # 0,
             sweeper' = [sweeper EXCEPT ![s] = Went(old, plan, i, w)]
      PROVE  Changed
  <2>1. i \in 0 .. MaxResp /\ w \in 0 .. MaxWaits /\ plan \in Seq(Step)
    BY <1>b, PlansSeq
  <2> HIDE DEF old, Changed
  <2>2. /\ Went(old, plan, i, w) \in SweeperState
        /\ Went(old, plan, i, w).plan = plan
        /\ Went(old, plan, i, w).i = i /\ Went(old, plan, i, w).w = w
    BY <2>1, <1>c, SweeperWent
  <2>3. QED
    BY <2>2, <1>d, <1>h
<1>e. ASSUME NEW i \in 0 .. Len(resp'), NEW w \in 0 .. waits', Goes(s, i, w), old.plan # <<>>,
             Todo(Tail(old.plan)) \in {"cancel", "close"} => i # 0
      PROVE  Changed
  <2>1. sweeper' = [sweeper EXCEPT ![s] = Went(old, Tail(old.plan), i, w)]
    BY <1>e, <1>g DEF Goes, Went
  <2>2. Tail(old.plan) \in Plans /\ Todo(Tail(old.plan)) # "waitclose"
    <3>1. Head(old.plan) \in {"pick", "cancel", "close", "delete", "stop", "waits", "waitclose",
                              "forget"}
      BY <1>e, <1>c DEF Plans
    <3>2. QED
      BY <3>1, <1>e, <1>c, PlansTail, PlansNext
  <2>3. QED
    BY <2>1, <2>2, <1>h, <1>e
<1>1. CASE SweeperStarts(s)
  <2>1. PICK op \in setup.ops : sweeper' = [sweeper EXCEPT ![s] =
                                   [plan |-> Plan(op), op |-> op, i |-> 0, w |-> 0]]
    BY <1>1 DEF SweeperStarts
  <2>2. op \in Op /\ Plan(op) \in Plans /\ Todo(Plan(op)) \in {"none", "pick", "stop", "forget"}
    BY <1>a, PlansStart
  <2> DEFINE k == [plan |-> Plan(op), op |-> op, i |-> 0, w |-> 0]
  <2>3. Plan(op) \in Seq(Step) /\ 0 \in 0 .. MaxResp /\ 0 \in 0 .. MaxWaits
    BY <2>2, <1>b, PlansSeq
  <2>4. /\ k \in SweeperState /\ k.plan \in Plans /\ k.i = 0 /\ k.w = 0
        /\ Todo(k.plan) \in {"none", "pick", "stop", "forget"}
    BY <2>2, <2>3 DEF SweeperState
  <2> HIDE DEF k
  <2>5. Changed
    BY <2>1, <2>4, <1>c, <1>d DEF k
  <2>6. QED
    BY <2>5, <1>1 DEF SweeperStarts
<1>2. CASE SweeperPicks(s)
  <2>1. old.plan # <<>> /\ Head(old.plan) = "pick" /\ UNCHANGED <<caller, waiter>>
    BY <1>2 DEF SweeperPicks, At1
  <2>2. CASE Meets(s) /\ Goes(s, slot[P], 0)
    BY <2>1, <2>2, <1>c, <1>e DEF Meets
  <2>3. CASE sweeper' = [sweeper EXCEPT ![s].plan = AfterRange(@)]
    <3>1. sweeper' = [sweeper EXCEPT ![s] = Went(old, AfterRange(old.plan), old.i, old.w)]
      <4>1. old = [old EXCEPT !.i = old.i, !.w = old.w]
        BY <1>c DEF SweeperState
      <4>2. QED
        BY <2>3, <1>g, <4>1 DEF SweeperState, Went
    <3>2. AfterRange(old.plan) \in {<<>>, <<"stop">>, <<"waits">>}
      BY <2>1, <1>c, PlansRange
    <3>3. /\ AfterRange(old.plan) \in Plans
          /\ Todo(AfterRange(old.plan)) \in {"none", "stop", "waits"}
      BY <3>2 DEF Plans, Todo
    <3>4. QED
      BY <2>1, <3>1, <3>3, <1>c, <1>h
  <2>4. QED
    BY <1>2, <2>2, <2>3 DEF SweeperPicks
<1>3. CASE SweeperCancels(s) \/ SweeperCloses(s)
  <2>1. /\ old.plan # <<>> /\ Head(old.plan) \in {"cancel", "close"} /\ Goes(s, old.i, 0)
        /\ UNCHANGED <<caller, waiter>>
    BY <1>3 DEF SweeperCancels, SweeperCloses, At1
  <2>2. old.i # 0
    BY <2>1, <1>c DEF Todo
  <2>3. QED
    BY <2>1, <2>2, <1>c, <1>e
<1>4. CASE SweeperDeletes(s) \/ SweeperStops(s) \/ SweeperClosesWait(s) \/ SweeperForgetsWait(s)
  <2>1. /\ old.plan # <<>> /\ Head(old.plan) \in {"delete", "stop", "waitclose", "forget"}
        /\ Goes(s, 0, 0) /\ UNCHANGED <<caller, waiter>>
    BY <1>4 DEF SweeperDeletes, SweeperStops, SweeperClosesWait, SweeperForgetsWait, At1
  <2>2. Todo(Tail(old.plan)) \notin {"cancel", "close"}
    BY <2>1, <1>c, PlansNext
  <2>3. QED
    BY <2>1, <2>2, <1>c, <1>e
<1>5. CASE SweeperChecksWait(s)
  <2>1. /\ old.plan # <<>> /\ Head(old.plan) = "waits" /\ UNCHANGED <<caller, waiter>>
    BY <1>5 DEF SweeperChecksWait, At1
  <2>2. CASE Goes(s, 0, 0)
    BY <2>1, <2>2, <1>c, <1>e, PlansNext
  <2>3. CASE wait[P] # 0 /\ sweeper' = [sweeper EXCEPT ![s].plan = <<"waitclose">>, ![s].w = wait[P]]
    <3> DEFINE closing == <<"waitclose">>
    <3>1. closing \in Plans /\ Todo(closing) = "waitclose"
      BY DEF Plans, Todo
    <3>2. sweeper' = [sweeper EXCEPT ![s].plan = closing, ![s].w = wait[P]]
      BY <2>3
    <3> HIDE DEF closing
    <3>3. sweeper' = [sweeper EXCEPT ![s] = Went(old, closing, old.i, wait[P])]
      BY <3>2, <1>g DEF SweeperState, Went
    <3>4. Todo(closing) \notin {"cancel", "close"}
      BY <3>1
    <3>5. QED
      BY <2>1, <2>3, <3>1, <3>3, <3>4, <1>c, <1>h
  <2>4. \/ Goes(s, 0, 0)
        \/ wait[P] # 0 /\ sweeper' = [sweeper EXCEPT ![s].plan = <<"waitclose">>, ![s].w = wait[P]]
    BY <1>5 DEF SweeperChecksWait
  <2>5. QED
    BY <2>2, <2>3, <2>4
<1>6. QED
  BY <1>1, <1>2, <1>3, <1>4, <1>5 DEF Sweeps

LEMMA ActorTypesKept == Typed /\ Next => ActorTypes'
<1> SUFFICES ASSUME Typed, Next PROVE ActorTypes'
  OBVIOUS
<1>1. /\ CallerStates(Len(resp), waits) \subseteq CallerStates(Len(resp'), waits')
      /\ WaiterStates(waits) \subseteq WaiterStates(waits')
      /\ SweeperStates(Len(resp), waits) \subseteq SweeperStates(Len(resp'), waits')
  BY Grows, StatesGrow
<1>2. /\ caller \in [Callers -> CallerStates(Len(resp'), waits')]
      /\ waiter \in [Waiters -> WaiterStates(waits')]
      /\ sweeper \in [Sweepers -> SweeperStates(Len(resp'), waits')]
  BY <1>1 DEF Typed, ActorTypes
<1>3. /\ caller' \in [Callers -> CallerStates(Len(resp'), waits')]
      /\ waiter' \in [Waiters -> WaiterStates(waits')]
      /\ sweeper' \in [Sweepers -> SweeperStates(Len(resp'), waits')]
  <2>1. ASSUME NEW c \in Callers, Calls(c) \/ CallerLeaves(c) PROVE <1>3!:
    BY <2>1, <1>2, CallerStep
  <2>2. ASSUME NEW g \in Waiters, Waits(g) \/ WaiterLeaves(g) PROVE <1>3!:
    BY <2>2, <1>2, WaiterStep
  <2>3. ASSUME NEW s \in Sweepers, SweeperStarts(s) \/ Sweeps(s) PROVE <1>3!:
    BY <2>3, <1>2, SweeperStep
  <2>4. CASE Expires
    BY <2>4, <1>2 DEF Expires
  <2>5. QED
    BY <2>1, <2>2, <2>3, <2>4, WhoActs
<1>4. WaiterStates(waits)' = WaiterStates(waits')
  BY Grows DEF WaiterStates
<1>5. QED
  BY <1>3, <1>4 DEF ActorTypes, CallerStates, SweeperStates

LEMMA TypedKept == Typed /\ [Next]_vars => Typed'
<1> SUFFICES ASSUME Typed, [Next]_vars PROVE Typed'
  OBVIOUS
<1>1. CASE Next
  <2>1. ActorTypes'
    BY <1>1, ActorTypesKept
  <2>2. setup' \in Setups /\ SetupTypes'
    <3>1. /\ down' = down \/ down' = down \cup {P}
          /\ panicked' = panicked \/ \E w : panicked' = (w \in closed)
      <4>1. ASSUME NEW c \in Callers, Calls(c) \/ CallerLeaves(c) PROVE <3>1!:
        BY <4>1 DEF Calls, CallerLoads, CallerConfigures, CallerStores, NotifyLoads,
           NotifyCloses, CallerLeaves
      <4>2. ASSUME NEW g \in Waiters, Waits(g) \/ WaiterLeaves(g) PROVE <3>1!:
        BY <4>2 DEF Waits, WaiterLeaves, WaiterLoads, WaiterMakes, WaiterTries,
           WaiterWakes, WaiterGivesUp, WaiterTriesAgain
      <4>3. ASSUME NEW s \in Sweepers, SweeperStarts(s) \/ Sweeps(s) PROVE <3>1!:
        BY <4>3 DEF SweeperStarts, Sweeps, SweeperPicks, SweeperCancels, SweeperCloses,
           SweeperDeletes, SweeperStops, SweeperChecksWait, SweeperClosesWait, SweeperForgetsWait
      <4>4. CASE Expires
        BY <4>4 DEF Expires
      <4>5. QED
        BY <1>1, <4>1, <4>2, <4>3, <4>4, WhoActs
    <3>2. /\ down \subseteq Provider /\ panicked \in BOOLEAN /\ P \in Provider
          /\ \A w : (w \in closed) \in BOOLEAN
      BY DEF Typed, SetupTypes, Setup, P
    <3>3. down' \subseteq Provider
      BY <3>1, <3>2
    <3>4. panicked' \in BOOLEAN
      BY <3>1, <3>2
    <3>5. QED
      BY <1>1, <3>3, <3>4, Grows DEF Typed, SetupTypes
  <2>3. RespTypes'
    <3>a. /\ RespStep /\ P' = P /\ Len(resp') \in Nat /\ Len(resp) \in Nat
          /\ Len(resp) <= Len(resp') /\ Len(resp') <= MaxResp
      BY <1>1, RespStepAlways, Grows
    <3>b. \A i \in Made : resp[i].provider = P
      BY DEF Typed, RespTypes
    <3>1. \A i \in 1 .. Len(resp') : resp'[i].provider = P
      BY <3>a, <3>b DEF RespStep, Made
    <3>2. slot' \in [Provider -> 0 .. Len(resp')]
      <4>1. slot \in [Provider -> 0 .. Len(resp')]
        BY <3>a DEF Typed, RespTypes
      <4>2. \A c \in Callers : caller[c].i \in 0 .. Len(resp')
        BY <3>a DEF Typed, ActorTypes, CallerStates
      <4>3. QED
        BY <1>1, <4>1, <4>2, <3>a, SlotStep
    <3>3. QED
      BY <3>a, <3>1, <3>2 DEF RespTypes, RespStep, Made
  <2>4. WaitTypes'
    <3>a. waits \in Nat /\ wait \in [Provider -> 0 .. waits] /\ closed \subseteq 1 .. waits
      BY DEF Typed, WaitTypes
    <3>b. waits' \in Nat /\ waits <= waits' /\ waits' <= MaxWaits /\ MaxWaits \in Nat
      BY <1>1, Grows, RespondersAssumption
    <3>1. wait \in [Provider -> 0 .. waits'] /\ closed \subseteq 1 .. waits'
      BY <3>a, <3>b
    <3>2. waits' = waits + 1 => waits + 1 \in 0 .. waits'
      BY <3>a, <3>b
    <3>3. 0 \in 0 .. waits' /\ \A w \in 1 .. waits : w \in 1 .. waits'
      BY <3>a, <3>b
    <3>4. wait' \in [Provider -> 0 .. waits'] /\ closed' \subseteq 1 .. waits'
      BY <1>1, <3>1, <3>2, <3>3, WaitStep
    <3>5. QED
      BY <3>b, <3>4 DEF WaitTypes
  <2>5. QED
    BY <2>1, <2>2, <2>3, <2>4 DEF Typed
<1>2. CASE UNCHANGED vars
  BY <1>2 DEF vars, Typed, SetupTypes, RespTypes, WaitTypes, ActorTypes, P, Made,
     CallerStates, WaiterStates, SweeperStates
<1>3. QED
  BY <1>1, <1>2

LEMMA TypedFirst == Init => Typed
<1> SUFFICES ASSUME Init PROVE Typed
  OBVIOUS
<1>1. setup \in Setup /\ Len(setup.order) \in 1 .. 3 /\ SetupTypes
  BY SetupsAssumption DEF Init, SetupTypes
<1>2. RespTypes /\ WaitTypes
  BY RespondersAssumption DEF Init, RespTypes, WaitTypes, Made
<1>3. /\ [pc |-> "idle", i |-> 0, w |-> 0] \in CallerStates(0, 0)
      /\ [pc |-> "idle", at |-> 1, w |-> 0] \in WaiterStates(0)
      /\ [plan |-> <<>>, op |-> "expire", i |-> 0, w |-> 0] \in SweeperStates(0, 0)
  <2>1. /\ 0 \in 0 .. MaxResp /\ 0 \in 0 .. MaxWaits /\ 0 \in 0 .. 0
        /\ 1 \in 1 .. Len(setup.order) /\ 1 \in 1 .. 3
    <3>1. \A n \in 1 .. 3 : 1 \in 1 .. n
      OBVIOUS
    <3>2. 1 \in 1 .. Len(setup.order)
      BY <1>1, <3>1
    <3>3. /\ 0 \in 0 .. MaxResp /\ 0 \in 0 .. MaxWaits /\ 0 \in 0 .. 0 /\ 1 \in 1 .. 3
      BY RespondersAssumption
    <3>4. QED
      BY <3>2, <3>3
  <2>2. <<>> \in Plans /\ <<>> \in Seq(Step) /\ Todo(<<>>) = "none" /\ "expire" \in Op
    BY DEF Plans, Todo, Op
  <2>3. [pc |-> "idle", i |-> 0, w |-> 0] \in CallerStates(0, 0)
    BY <2>1 DEF CallerStates, CallerState
  <2>4. [pc |-> "idle", at |-> 1, w |-> 0] \in WaiterStates(0)
    BY <2>1 DEF WaiterStates, WaiterState
  <2>5. [plan |-> <<>>, op |-> "expire", i |-> 0, w |-> 0] \in SweeperStates(0, 0)
    <3> DEFINE none == <<>>
    <3>1. none \in Plans /\ none \in Seq(Step) /\ Todo(none) = "none"
      BY <2>2
    <3> HIDE DEF none
    <3>2. [plan |-> none, op |-> "expire", i |-> 0, w |-> 0] \in SweeperStates(0, 0)
      BY <3>1, <2>1, <2>2 DEF SweeperStates, SweeperState
    <3>3. QED
      BY <3>2 DEF none
  <2>6. QED
    BY <2>3, <2>4, <2>5
<1>4. Len(resp) = 0 /\ waits = 0
  BY DEF Init
<1>5. ActorTypes
  BY <1>3, <1>4 DEF Init, ActorTypes
<1>6. QED
  BY <1>1, <1>2, <1>5 DEF Init, Typed

LEMMA TypedAlways == Spec => []Typed
  BY TypedFirst, TypedKept, PTL DEF Spec

LEMMA TypedIsTypeOK == Typed => TypeOK
<1> SUFFICES ASSUME Typed PROVE TypeOK
  OBVIOUS
<1>1. /\ Len(resp) \in Nat /\ Len(resp) <= MaxResp /\ waits \in Nat /\ waits <= MaxWaits
      /\ MaxResp \in Nat /\ MaxWaits \in Nat
  BY RespondersAssumption DEF Typed, RespTypes, WaitTypes
<1>2. slot \in [Provider -> 0 .. MaxResp] /\ wait \in [Provider -> 0 .. MaxWaits]
  BY <1>1 DEF Typed, RespTypes, WaitTypes
<1>3. /\ caller \in [Callers -> CallerState] /\ waiter \in [Waiters -> WaiterState]
      /\ sweeper \in [Sweepers -> SweeperState]
  BY DEF Typed, ActorTypes, CallerStates, WaiterStates, SweeperStates
<1>4. QED
  BY <1>2, <1>3 DEF Typed, SetupTypes, RespTypes, WaitTypes, TypeOK

(* The variables of the responders keep their types: nothing is stored, handed   *)
(* out, cancelled or closed that was not made before, and the steps a sweeper    *)
(* has left are the rest of one of the plans.                                    *)
THEOREM RespondersTypeCorrect == Spec => []TypeOK
  BY TypedAlways, TypedIsTypeOK, PTL

--------------------------------------------------------------------------------
(* Tools                                                                        *)

LEMMA ToolsFitKept == Typed /\ ToolsFit /\ [Next]_vars => ToolsFit'
<1> SUFFICES ASSUME Typed, ToolsFit, [Next]_vars PROVE ToolsFit'
  OBVIOUS
<1>1. CASE Next
  <2>a. /\ RespStep /\ Len(resp) \in Nat /\ Len(resp') \in Nat /\ P \in Provider
    BY <1>1, RespStepAlways, Grows DEF Typed, SetupTypes, Setup, P
  <2>b. \A p \in Provider : Fits(p, NoConfig)
    BY DEF Fits, NoConfig
  <2>1. ASSUME NEW i \in 1 .. Len(resp') PROVE Fits(resp'[i].provider, resp'[i].config)
    <3>1. CASE i \in 1 .. Len(resp)
      BY <3>1, <2>a DEF RespStep, ToolsFit, Made
    <3>2. CASE i \notin 1 .. Len(resp)
      <4>1. i = Len(resp') /\ resp'[i].provider = P /\ resp'[i].config = NoConfig
        BY <3>2, <2>a DEF RespStep
      <4>2. QED
        BY <4>1, <2>a, <2>b
    <3>3. QED
      BY <3>1, <3>2
  <2>2. QED
    BY <2>1 DEF ToolsFit, Made
<1>2. CASE UNCHANGED vars
  BY <1>2 DEF vars, ToolsFit, Made
<1>3. QED
  BY <1>1, <1>2

(* The prompt and the tools of a responder fit each other, whatever the reads of *)
(* its configuration said and whoever holds it: OpenAIConfigures and             *)
(* GoogleConfigures write one configuration at once, and nothing changes it.     *)
THEOREM ToolsAlwaysFit == Spec => []ToolsFit
<1>1. Init => ToolsFit
  BY DEF Init, ToolsFit, Made
<1>2. QED
  BY <1>1, TypedAlways, ToolsFitKept, PTL DEF Spec

--------------------------------------------------------------------------------
(* One goroutine of each kind                                                   *)

TheCaller == CHOOSE a \in Callers : TRUE
TheWaiter == CHOOSE a \in Waiters : TRUE
TheSweeper == CHOOSE a \in Sweepers : TRUE

OthersRest ==
  setup.alone => /\ \A c \in Callers \ {TheCaller} : caller[c].pc = "idle"
                 /\ \A g \in Waiters \ {TheWaiter} : waiter[g].pc = "idle"
                 /\ \A s \in Sweepers \ {TheSweeper} : sweeper[s].plan = <<>>

\* Who makes finds the slot empty, and who takes away has what the slot holds, and
\* has cancelled it before it closes or deletes: so neither loses a live responder.
HandledBy(c, s) ==
  /\ s.plan # <<"pick", "delete">>
  /\ c.pc \in {"config", "store"} => slot[P] = 0
  /\ Todo(s.plan) \in {"cancel", "close", "delete"} => s.i # 0 /\ s.i = slot[P]
  /\ Todo(s.plan) \in {"close", "delete"} => ~resp[s.i].live
  /\ \A i \in Made : resp[i].live /\ slot[P] # i => c.pc \in {"config", "store"} /\ c.i = i
Handled ==
  setup.alone /\ "invalidate" \notin setup.ops =>
    HandledBy(caller[TheCaller], sweeper[TheSweeper])

\* Who waits has the channel of the map, or a closed one; so do those who are to
\* close it; and who sleeps beside a stored responder sleeps on the channel that its
\* maker is about to close.
Known(w) == w # 0 /\ (w \in closed \/ w = wait[P] \/ panicked)
WakefulBy(c, g, s) ==
  /\ Todo(s.plan) # "forget"
  /\ \A p \in Provider \ {P} : slot[p] = 0
  /\ g.pc = "make" => wait[setup.order[g.at]] = 0
  /\ g.pc \in {"try", "select"} /\ setup.order[g.at] = P => Known(g.w)
  /\ c.pc = "close" => Known(c.w)
  /\ Todo(s.plan) = "waitclose" => Known(s.w)
  /\ g.pc = "select" /\ slot[setup.order[g.at]] # 0 /\ g.w \notin closed =>
        c.pc = "notify" \/ (c.pc = "close" /\ c.w = g.w)
Wakeful ==
  setup.alone /\ "forget" \notin setup.ops /\ P # "mistral" =>
    WakefulBy(caller[TheCaller], waiter[TheWaiter], sweeper[TheSweeper])

LEMMA TheOnes == TheCaller \in Callers /\ TheWaiter \in Waiters /\ TheSweeper \in Sweepers
  BY RespondersAssumption DEF TheCaller, TheWaiter, TheSweeper

LEMMA OneActs ==
  setup.alone /\ Next =>
    /\ ~panicked
    /\ \/ Calls(TheCaller) \/ CallerLeaves(TheCaller)
       \/ Waits(TheWaiter) \/ WaiterLeaves(TheWaiter)
       \/ SweeperStarts(TheSweeper) \/ Sweeps(TheSweeper)
       \/ Expires
  BY DEF Next, Acting, TheCaller, TheWaiter, TheSweeper

LEMMA OthersRestKept == Typed /\ OthersRest /\ [Next]_vars => OthersRest'
<1> SUFFICES ASSUME Typed, OthersRest, [Next]_vars, setup'.alone PROVE OthersRest'
  BY DEF OthersRest
<1>1. CASE Next
  <2>a. /\ setup.alone /\ TheCaller \in Callers /\ TheWaiter \in Waiters
        /\ TheSweeper \in Sweepers
        /\ caller \in [Callers -> CallerStates(Len(resp), waits)]
        /\ waiter \in [Waiters -> WaiterStates(waits)]
        /\ sweeper \in [Sweepers -> SweeperStates(Len(resp), waits)]
    BY <1>1, SetupStays, TheOnes DEF Typed, ActorTypes
  <2>1. CASE Calls(TheCaller) \/ CallerLeaves(TheCaller)
    BY <1>1, <2>1, <2>a, CallerStep DEF OthersRest
  <2>2. CASE Waits(TheWaiter) \/ WaiterLeaves(TheWaiter)
    BY <1>1, <2>2, <2>a, WaiterStep DEF OthersRest
  <2>3. CASE SweeperStarts(TheSweeper) \/ Sweeps(TheSweeper)
    BY <1>1, <2>3, <2>a, SweeperStep DEF OthersRest
  <2>4. CASE Expires
    BY <2>4, <2>a DEF Expires, OthersRest
  <2>5. QED
    BY <1>1, <2>a, <2>1, <2>2, <2>3, <2>4, OneActs
<1>2. CASE UNCHANGED vars
  BY <1>2 DEF vars, OthersRest
<1>3. QED
  BY <1>1, <1>2

\* What a caller does to the responders, in short.
LEMMA CallerMoves ==
  ASSUME Typed, Next, NEW c \in Callers, Calls(c) \/ CallerLeaves(c)
  PROVE  \/ /\ UNCHANGED <<slot, wait, waits, closed, panicked>>
            /\ \/ /\ Len(resp') = Len(resp)
                  /\ caller[c].pc \in {"idle", "holds", "failed"}
                  /\ caller'[c].pc \in {"idle", "holds", "failed"}
               \/ /\ Len(resp') = Len(resp) + 1 /\ slot[P] = 0
                  /\ caller[c].pc = "idle"
                  /\ caller'[c].pc = "config" /\ caller'[c].i = Len(resp')
               \/ /\ Len(resp') = Len(resp) /\ caller[c].pc = "config"
                  /\ caller'[c].pc = "store" /\ caller'[c].i = caller[c].i
               \/ /\ Len(resp') = Len(resp) /\ caller[c].pc = "config"
                  /\ caller'[c].pc = "failed" /\ ~resp'[caller[c].i].live
         \/ CallerStores(c) \/ NotifyLoads(c) \/ NotifyCloses(c)
<1>a. /\ caller \in [Callers -> CallerStates(Len(resp), waits)]
      /\ resp \in Seq(Resp) /\ Len(resp) \in Nat
  BY DEF Typed, ActorTypes, RespTypes
<1>b. \A pc, i, w : SetCaller(c, pc, i, w) => caller'[c].pc = pc /\ caller'[c].i = i
  BY <1>a DEF SetCaller
<1>1. CASE CallerLoads(c)
  <2>1. /\ caller[c].pc = "idle" /\ UNCHANGED <<slot, wait, waits, closed, panicked>>
        /\ \/ Hits(c)
           \/ SetCaller(c, "failed", 0, 0) /\ UNCHANGED resp
           \/ \E d : CreateBaseResponder(c, d) \/ GoogleHits(c, d)
    BY <1>1 DEF CallerLoads, OpenAILoads, GoogleLoads, MistralLoads
  <2>2. CASE Hits(c)
    <3>1. caller'[c].pc = "holds"
      BY <2>2, <1>b DEF Hits
    <3>2. Len(resp') = Len(resp)
      BY <2>2, <1>a DEF Hits
    <3>3. QED
      BY <2>1, <3>1, <3>2
  <2>3. CASE SetCaller(c, "failed", 0, 0) /\ UNCHANGED resp
    BY <2>1, <2>3, <1>b
  <2>4. ASSUME NEW d, GoogleHits(c, d)
        PROVE  Len(resp') = Len(resp) /\ caller'[c].pc = "holds"
    <3>1. caller'[c].pc = "holds"
      BY <2>4, <1>b DEF GoogleHits
    <3>2. Len(resp') = Len(resp)
      BY <2>4, <1>a DEF GoogleHits
    <3>3. QED
      BY <3>1, <3>2
  <2>5. ASSUME NEW d, CreateBaseResponder(c, d)
        PROVE  /\ Len(resp') = Len(resp) + 1 /\ slot[P] = 0
               /\ caller'[c].pc = "config" /\ caller'[c].i = Len(resp')
    <3>1. Len(resp') = Len(resp) + 1 /\ slot[P] = 0
      BY <2>5, <1>a DEF CreateBaseResponder
    <3>2. caller'[c].pc = "config" /\ caller'[c].i = Len(resp) + 1
      BY <2>5, <1>b DEF CreateBaseResponder
    <3>3. QED
      BY <3>1, <3>2
  <2>6. QED
    BY <2>1, <2>2, <2>3, <2>4, <2>5
<1>2. CASE CallerConfigures(c)
  <2>1. caller[c].pc = "config" /\ UNCHANGED <<slot, wait, waits, closed, panicked>>
    BY <1>2 DEF CallerConfigures
  <2>2. caller[c].i \in 1 .. Len(resp)
    BY <2>1, <1>a DEF CallerStates
  <2>3. ASSUME NEW e \in Env, OpenAIConfigures(c, e) \/ MistralConfigures(c)
        PROVE  /\ Len(resp') = Len(resp)
               /\ caller'[c].pc = "store" /\ caller'[c].i = caller[c].i
    <3>1. caller'[c].pc = "store" /\ caller'[c].i = caller[c].i
      BY <2>3, <1>b DEF OpenAIConfigures, MistralConfigures
    <3>2. Len(resp') = Len(resp)
      BY <2>3, <1>a DEF OpenAIConfigures, MistralConfigures
    <3>3. QED
      BY <3>1, <3>2
  <2>4. ASSUME NEW e \in Env, GoogleConfigures(c, e)
        PROVE  /\ Len(resp') = Len(resp)
               /\ \/ caller'[c].pc = "store" /\ caller'[c].i = caller[c].i
                  \/ caller'[c].pc = "failed" /\ ~resp'[caller[c].i].live
    <3>1. CASE GoogleFinds(e)
      <4>1. caller'[c].pc = "store" /\ caller'[c].i = caller[c].i
        BY <2>4, <3>1, <1>b DEF GoogleConfigures
      <4>2. Len(resp') = Len(resp)
        BY <2>4, <3>1, <1>a DEF GoogleConfigures
      <4>3. QED
        BY <4>1, <4>2
    <3>2. CASE ~GoogleFinds(e)
      <4>1. caller'[c].pc = "failed"
        BY <2>4, <3>2, <1>b DEF GoogleConfigures
      <4>2. resp' = [resp EXCEPT ![caller[c].i] = [resp[caller[c].i] EXCEPT !.live = FALSE]]
        BY <2>4, <3>2 DEF GoogleConfigures
      <4>3. resp[caller[c].i] \in Resp
        BY <2>2, <1>a
      <4>4. ~[resp[caller[c].i] EXCEPT !.live = FALSE].live
        BY <4>3 DEF Resp
      <4>5. Len(resp') = Len(resp) /\ ~resp'[caller[c].i].live
        BY <4>2, <4>4, <2>2, <1>a
      <4>6. QED
        BY <4>1, <4>5
    <3>3. QED
      BY <3>1, <3>2
  <2>5. QED
    BY <1>2, <2>1, <2>3, <2>4, EnvsAreEnv DEF CallerConfigures
<1>3. CASE CallerLeaves(c)
  BY <1>3, <1>b DEF CallerLeaves
<1>4. QED
  BY <1>1, <1>2, <1>3 DEF Calls

LEMMA PlansRest ==
  \A plan \in Plans : plan # <<>> => Tail(plan) # <<"pick", "delete">>
<1>1. \A a, b, d, e : /\ <<a>> # <<"pick", "delete">> /\ <<>> # <<"pick", "delete">>
                      /\ <<a, b, d>> # <<"pick", "delete">>
                      /\ <<a, b, d, e>> # <<"pick", "delete">>
  OBVIOUS
<1>2. \A a, b, d, e, f : <<a, b, d, e, f>> # <<"pick", "delete">>
  OBVIOUS
<1>3. \A b : <<"cancel", b>> # <<"pick", "delete">> /\ <<"close", b>> # <<"pick", "delete">>
             /\ <<"delete", b>> # <<"pick", "delete">>
  OBVIOUS
<1>4. QED
  BY Tails, <1>1, <1>2, <1>3, ZenonT(60) DEF Plans

\* A responder that has ended stays so, in all but the step that makes one.
LEMMA NoneRevives ==
  ASSUME Typed, Next
  PROVE  \A i \in Made : resp'[i].live => resp[i].live
  BY RespStepAlways DEF RespStep

LEMMA HandledKept == Typed /\ OthersRest /\ Handled /\ [Next]_vars => Handled'
<1> SUFFICES ASSUME Typed, OthersRest, Handled, [Next]_vars,
                    setup'.alone, "invalidate" \notin setup'.ops
             PROVE  HandledBy(caller[TheCaller], sweeper[TheSweeper])'
  BY DEF Handled
<1> DEFINE c == TheCaller
           s == TheSweeper
<1>1. CASE Next
  <2>a. /\ setup.alone /\ "invalidate" \notin setup.ops /\ P' = P /\ setup.ops \subseteq Op
        /\ setup.provider \in Provider /\ P \in Provider
    BY <1>1, SetupStays DEF P, Typed, SetupTypes, Setup
  <2>b. HandledBy(caller[c], sweeper[s])
    BY <2>a DEF Handled
  <2>c. /\ c \in Callers /\ s \in Sweepers /\ caller[c] \in CallerStates(Len(resp), waits)
        /\ sweeper \in [Sweepers -> SweeperState]
        /\ sweeper[s] \in SweeperState /\ sweeper[s].plan \in Plans
        /\ slot \in [Provider -> 0 .. Len(resp)] /\ Len(resp) \in Nat
    BY TheOnes DEF Typed, ActorTypes, SweeperStates, RespTypes
  <2>d. \A i \in 1 .. Len(resp) : resp'[i].live => resp[i].live
    BY <1>1, NoneRevives DEF Made
  <2> HIDE DEF c, s
  <2>1. ASSUME Calls(c) \/ CallerLeaves(c)
        PROVE  HandledBy(caller[c], sweeper[s])'
    <3>a. sweeper' = sweeper
      BY <1>1, <2>1, <2>c, CallerStep
    <3>1. CASE CallerStores(c)
      <4>1. /\ caller[c].pc = "store" /\ resp' = resp /\ slot' = [slot EXCEPT ![P] = caller[c].i]
            /\ caller'[c].pc \in {"notify", "holds"}
        BY <3>1, <2>c DEF CallerStores, SetCaller, Typed, ActorTypes
      <4>2. slot'[P] = caller[c].i
        BY <4>1, <2>a, <2>c
      <4>3. Todo(sweeper[s].plan) \notin {"cancel", "close", "delete"}
        BY <4>1, <2>b DEF HandledBy
      <4>4. QED
        BY <4>1, <4>2, <4>3, <3>a, <2>a, <2>b DEF HandledBy, Made
    <3>2. CASE NotifyLoads(c) \/ NotifyCloses(c)
      <4>1. /\ caller[c].pc \in {"notify", "close"} /\ UNCHANGED <<resp, slot>>
            /\ caller'[c].pc \in {"close", "holds"}
        BY <3>2, <2>c DEF NotifyLoads, NotifyCloses, SetCaller, Typed, ActorTypes
      <4>2. QED
        BY <4>1, <3>a, <2>a, <2>b DEF HandledBy, Made
    <3>3. CASE ~(CallerStores(c) \/ NotifyLoads(c) \/ NotifyCloses(c))
      <4>a. slot' = slot
        BY <1>1, <2>1, <2>c, <3>3, CallerMoves
      <4>1. CASE /\ Len(resp') = Len(resp)
                 /\ caller[c].pc \in {"idle", "holds", "failed"}
                 /\ caller'[c].pc \in {"idle", "holds", "failed"}
        <5>1. \A i \in 1 .. Len(resp) : resp[i].live => slot[P] = i
          BY <2>b, <4>1 DEF HandledBy, Made
        <5>2. sweeper[s].i # 0 /\ sweeper[s].i = slot[P] => sweeper[s].i \in 1 .. Len(resp)
          BY <2>a, <2>c
        <5>3. QED
          BY <4>a, <4>1, <5>1, <5>2, <3>a, <2>a, <2>b, <2>d DEF HandledBy, Made
      <4>2. CASE /\ Len(resp') = Len(resp) + 1 /\ slot[P] = 0
                 /\ caller[c].pc = "idle"
                 /\ caller'[c].pc = "config" /\ caller'[c].i = Len(resp')
        <5>1. \A i \in 1 .. Len(resp) : resp[i].live => slot[P] = i
          BY <2>b, <4>2 DEF HandledBy, Made
        <5>2. \A i \in 1 .. Len(resp) : ~resp'[i].live
          BY <5>1, <4>2, <2>d, <2>c
        <5>3. \A i \in 1 .. Len(resp') : resp'[i].live => i = Len(resp')
          BY <5>2, <4>2, <2>c
        <5>4. Todo(sweeper[s].plan) \notin {"cancel", "close", "delete"}
          BY <4>2, <2>b DEF HandledBy
        <5>5. QED
          BY <4>a, <4>2, <5>3, <5>4, <3>a, <2>a, <2>b DEF HandledBy, Made
      <4>3. CASE /\ Len(resp') = Len(resp) /\ caller[c].pc = "config"
                 /\ caller'[c].pc = "store" /\ caller'[c].i = caller[c].i
        <5>1. slot[P] = 0 /\ Todo(sweeper[s].plan) \notin {"cancel", "close", "delete"}
          BY <4>3, <2>b DEF HandledBy
        <5>2. QED
          BY <4>a, <4>3, <5>1, <3>a, <2>a, <2>b, <2>d DEF HandledBy, Made
      <4>4. CASE /\ Len(resp') = Len(resp) /\ caller[c].pc = "config"
                 /\ caller'[c].pc = "failed" /\ ~resp'[caller[c].i].live
        <5>1. slot[P] = 0 /\ Todo(sweeper[s].plan) \notin {"cancel", "close", "delete"}
          BY <4>4, <2>b DEF HandledBy
        <5>2. \A i \in 1 .. Len(resp) : ~resp'[i].live
          BY <5>1, <4>4, <2>b, <2>c, <2>d DEF HandledBy, Made
        <5>3. QED
          BY <4>a, <4>4, <5>1, <5>2, <3>a, <2>a, <2>b DEF HandledBy, Made
      <4>5. QED
        BY <1>1, <2>1, <2>c, <3>3, <4>1, <4>2, <4>3, <4>4, CallerMoves
    <3>4. QED
      BY <3>1, <3>2, <3>3
  <2>2. ASSUME UNCHANGED <<slot, caller, sweeper>>, Len(resp') = Len(resp)
        PROVE  HandledBy(caller[c], sweeper[s])'
    <3>1. sweeper[s].i # 0 /\ sweeper[s].i = slot[P] => sweeper[s].i \in 1 .. Len(resp)
      BY <2>a, <2>c
    <3>2. QED
      BY <2>2, <3>1, <2>a, <2>b, <2>d DEF HandledBy, Made
  <2>3. ASSUME SweeperStarts(s) \/ Sweeps(s)
        PROVE  HandledBy(caller[c], sweeper[s])'
    <3> DEFINE plan == sweeper[s].plan
               left == sweeper'[s].plan
    <3>a. caller' = caller
      BY <1>1, <2>3, <2>c, SweeperStep
    <3>b. \A i, w : Goes(s, i, w) => left = Tail(plan) /\ sweeper'[s].i = i
      BY <2>c DEF Goes, SweeperState
    <3>c. sweeper[s].i # 0 /\ sweeper[s].i = slot[P] => sweeper[s].i \in 1 .. Len(resp)
      BY <2>a, <2>c
    <3>1. ASSUME UNCHANGED slot, Len(resp') = Len(resp), left # <<"pick", "delete">>,
                 Todo(left) \notin {"cancel", "close", "delete"}
          PROVE  HandledBy(caller[c], sweeper[s])'
      BY <3>1, <3>a, <2>a, <2>b, <2>d DEF HandledBy, Made
    <3>2. CASE SweeperStarts(s)
      <4>1. PICK op \in setup.ops : sweeper' = [sweeper EXCEPT ![s] =
                                       [plan |-> Plan(op), op |-> op, i |-> 0, w |-> 0]]
        BY <3>2 DEF SweeperStarts
      <4>2. left = Plan(op)
        BY <4>1, <2>c
      <4>3. op \in Op /\ op # "invalidate"
        BY <2>a
      <4>4. /\ Plan(op) # <<"pick", "delete">>
            /\ Todo(Plan(op)) \in {"none", "pick", "stop", "forget"}
        BY <2>a, <4>3, PlansStart
      <4>5. UNCHANGED slot /\ resp' = resp
        BY <3>2 DEF SweeperStarts
      <4>6. QED
        BY <3>1, <4>2, <4>4, <4>5
    <3>3. CASE SweeperPicks(s)
      <4>1. plan # <<>> /\ Head(plan) = "pick" /\ resp' = resp /\ slot' = slot
        BY <3>3 DEF SweeperPicks, At1
      <4>2. CASE Meets(s) /\ Goes(s, slot[P], 0)
        <5>1. left = Tail(plan) /\ sweeper'[s].i = slot[P] /\ slot[P] # 0
          BY <4>2, <3>b DEF Meets
        <5>2. Todo(left) = "cancel"
          BY <4>1, <5>1, <2>b, <2>c, PlansNext DEF HandledBy
        <5>3. left # <<"pick", "delete">>
          BY <4>1, <5>1, <2>c, PlansRest
        <5>4. QED
          BY <4>1, <5>1, <5>2, <5>3, <3>a, <2>a, <2>b DEF HandledBy, Made
      <4>3. CASE sweeper' = [sweeper EXCEPT ![s].plan = AfterRange(@)]
        <5>1. left = AfterRange(plan)
          BY <4>3, <2>c DEF SweeperState
        <5>2. left \in {<<>>, <<"stop">>, <<"waits">>}
          BY <4>1, <5>1, <2>c, PlansRange
        <5>3. left # <<"pick", "delete">> /\ Todo(left) \in {"none", "stop", "waits"}
          BY <5>2 DEF Todo
        <5>4. QED
          BY <3>1, <4>1, <5>3
      <4>4. QED
        BY <3>3, <4>2, <4>3 DEF SweeperPicks
    <3>4. CASE SweeperCancels(s) \/ SweeperCloses(s)
      <4>1. /\ plan # <<>> /\ Head(plan) \in {"cancel", "close"} /\ slot' = slot
            /\ Goes(s, sweeper[s].i, 0)
        BY <3>4 DEF SweeperCancels, SweeperCloses, At1
      <4>2. /\ left = Tail(plan) /\ sweeper'[s].i = sweeper[s].i
            /\ left # <<"pick", "delete">>
        BY <4>1, <3>b, <2>c, PlansRest
      <4>3. sweeper[s].i \in 1 .. Len(resp) /\ sweeper[s].i = slot[P]
        BY <4>1, <3>c, <2>b DEF HandledBy, Todo
      <4>4. Len(resp') = Len(resp) /\ ~resp'[sweeper[s].i].live
        <5>1. resp \in Seq(Resp) /\ resp[sweeper[s].i] \in Resp
          BY <4>3 DEF Typed, RespTypes
        <5>2. CASE SweeperCancels(s)
          <6>1. resp' = [resp EXCEPT ![sweeper[s].i] =
                            [resp[sweeper[s].i] EXCEPT !.live = FALSE]]
            BY <5>2 DEF SweeperCancels
          <6>2. ~[resp[sweeper[s].i] EXCEPT !.live = FALSE].live
            BY <5>1 DEF Resp
          <6>3. QED
            BY <6>1, <6>2, <5>1, <4>3
        <5>3. CASE SweeperCloses(s)
          <6>1. ~resp[sweeper[s].i].live
            BY <5>3, <2>b DEF SweeperCloses, At1, Todo, HandledBy
          <6>2. Len(resp') = Len(resp)
            BY <5>3, <5>1 DEF SweeperCloses
          <6>3. QED
            BY <6>1, <6>2, <4>3, <2>d
        <5>4. QED
          BY <3>4, <5>2, <5>3
      <4>5. QED
        BY <4>1, <4>2, <4>3, <4>4, <3>a, <2>a, <2>b, <2>d DEF HandledBy, Made
    <3>5. CASE SweeperDeletes(s)
      <4>1. /\ plan # <<>> /\ Head(plan) = "delete" /\ slot' = [slot EXCEPT ![P] = 0]
            /\ Goes(s, 0, 0) /\ resp' = resp
        BY <3>5 DEF SweeperDeletes, At1
      <4>2. /\ left = Tail(plan) /\ left # <<"pick", "delete">>
            /\ Todo(left) \in {"none", "waits"}
        <5>1. left = Tail(plan)
          BY <4>1, <3>b
        <5>2. Tail(plan) # <<"pick", "delete">>
          BY <4>1, <2>c, PlansRest
        <5>3. Todo(Tail(plan)) \in {"none", "waits"}
          BY <4>1, <2>c, PlansNext
        <5>4. QED
          BY <5>1, <5>2, <5>3
      <4>3. slot'[P] = 0
        BY <4>1, <2>a, <2>c
      <4>4. sweeper[s].i = slot[P] /\ ~resp[sweeper[s].i].live
        BY <4>1, <2>b DEF HandledBy, Todo
      <4>5. QED
        BY <4>1, <4>2, <4>3, <4>4, <3>a, <2>a, <2>b DEF HandledBy, Made
    <3>6. CASE \/ SweeperStops(s) \/ SweeperChecksWait(s) \/ SweeperClosesWait(s)
               \/ SweeperForgetsWait(s)
      <4>1. /\ plan # <<>> /\ Head(plan) \in {"stop", "waits", "waitclose", "forget"}
            /\ slot' = slot
        BY <3>6 DEF SweeperStops, SweeperChecksWait, SweeperClosesWait, SweeperForgetsWait, At1
      <4>2. Len(resp') = Len(resp)
        <5>1. resp' = resp \/ resp' = [i \in Made |-> [resp[i] EXCEPT
                                          !.live = @ /\ resp[i].provider # P]]
          BY <3>6 DEF SweeperStops, SweeperChecksWait, SweeperClosesWait, SweeperForgetsWait
        <5>2. CASE resp' = [i \in Made |-> [resp[i] EXCEPT
                               !.live = @ /\ resp[i].provider # P]]
          <6>1. resp' \in Seq(Resp) /\ DOMAIN resp' = 1 .. Len(resp)
            BY <1>1, <5>2, RespStepAlways DEF RespStep, Made
          <6>2. QED
            BY <6>1, <2>c
        <5>3. QED
          BY <5>1, <5>2
      <4>3. /\ left # <<"pick", "delete">> /\ Todo(left) \in {"none", "pick", "waitclose"}
        <5>1. CASE \E i, w : Goes(s, i, w)
          BY <4>1, <5>1, <3>b, <2>c, PlansNext, PlansRest
        <5>2. CASE \E w : sweeper' = [sweeper EXCEPT ![s].plan = <<"waitclose">>, ![s].w = w]
          <6>1. left = <<"waitclose">>
            BY <5>2, <2>c DEF SweeperState
          <6>2. QED
            BY <6>1 DEF Todo
        <5>3. QED
          BY <3>6, <5>1, <5>2 DEF SweeperStops, SweeperChecksWait, SweeperClosesWait,
             SweeperForgetsWait
      <4>4. QED
        BY <3>1, <4>1, <4>2, <4>3
    <3>7. QED
      BY <2>3, <3>2, <3>3, <3>4, <3>5, <3>6 DEF Sweeps
  <2>4. CASE Waits(TheWaiter) \/ WaiterLeaves(TheWaiter)
    <3>1. resp' = resp /\ UNCHANGED <<slot, caller, sweeper>>
      BY <2>4 DEF Waits, WaiterLeaves, WaiterLoads, WaiterMakes, WaiterTries, WaiterWakes,
         WaiterGivesUp, WaiterTriesAgain
    <3>2. QED
      BY <3>1, <2>2 DEF c, s
  <2>5. CASE Expires
    <3>1. Len(resp') = Len(resp)
      BY <2>5 DEF Expires, Typed, RespTypes
    <3>2. UNCHANGED <<slot, caller, sweeper>>
      BY <2>5 DEF Expires
    <3>3. QED
      BY <3>1, <3>2, <2>2 DEF c, s
  <2>6. QED
    BY <1>1, <2>a, <2>1, <2>3, <2>4, <2>5, OneActs DEF c, s
<1>2. CASE UNCHANGED vars
  BY <1>2 DEF vars, Handled, HandledBy, P, Made
<1>3. QED
  BY <1>1, <1>2

LEMMA HandledAlways == Spec => [](Typed /\ OthersRest /\ Handled)
<1>1. Init => OthersRest
  BY DEF Init, OthersRest
<1>2. Init => Handled
  <2> SUFFICES ASSUME Init PROVE HandledBy(caller[TheCaller], sweeper[TheSweeper])
    BY DEF Handled
  <2>1. /\ caller[TheCaller].pc = "idle" /\ sweeper[TheSweeper].plan = <<>> /\ Len(resp) = 0
    BY TheOnes DEF Init
  <2>2. <<>> # <<"pick", "delete">> /\ Todo(<<>>) = "none"
    BY DEF Todo
  <2>3. QED
    BY <2>1, <2>2 DEF HandledBy, Made
<1>3. QED
  BY <1>1, <1>2, TypedAlways, OthersRestKept, HandledKept, PTL DEF Spec

(* While one goroutine makes responders and one takes them away, and nothing is  *)
(* invalidated, no live responder is lost: the map of its provider holds it, or  *)
(* GetOrSetRespGPT is about to store it. Expiry, DisconnectUser, CleanDialogData *)
(* and Shutdown cancel what they delete before they delete it, and delete what   *)
(* they cancelled, as nobody stores another responder in between.                *)
THEOREM LiveResponderIsMapped == Spec => []LiveIsMapped
<1>1. Typed /\ Handled => LiveIsMapped
  <2> SUFFICES ASSUME Typed, Handled, setup.alone, "invalidate" \notin setup.ops,
                      NEW i \in Made, resp[i].live, slot[resp[i].provider] # i
               PROVE  Making(i)
    BY DEF LiveIsMapped
  <2>1. resp[i].provider = P
    BY DEF Typed, RespTypes
  <2>2. caller[TheCaller].pc \in {"config", "store"} /\ caller[TheCaller].i = i
    BY <2>1 DEF Handled, HandledBy
  <2>3. QED
    BY <2>2, TheOnes DEF Making
<1>2. QED
  BY <1>1, HandledAlways, PTL

--------------------------------------------------------------------------------
(* Who waits                                                                    *)

\* A plan that forgets wait channels is the one of "forget".
LEMMA PlansForget ==
  ASSUME setup.provider \in Provider, NEW o \in Op, o # "forget"
  PROVE  Todo(Plan(o)) \in {"none", "pick", "stop"}
  BY DEF Plan, Todo, P, Provider, Op, OpenAICleanUp, OpenAIInvalidate,
     OpenAIDisconnectUser, OpenAICleanDialogData, OpenAIShutdown, GooglePeriodicFlush,
     GoogleInvalidate, GoogleDisconnectUser, GoogleCleanDialogData, GoogleShutdown,
     MistralCleanUp, MistralInvalidate, MistralDisconnectUser, MistralShutdown

\* Who closes a known channel leaves the others known.
LEMMA KnownClosed ==
  ASSUME Typed, P' = P, ~panicked, NEW x, Known(x), closed' = closed \cup {x},
         wait' = [wait EXCEPT ![P] = 0], panicked' = (x \in closed),
         NEW w, Known(w)
  PROVE  Known(w)'
<1>1. CASE x \in closed
  BY <1>1 DEF Known
<1>2. CASE x = wait[P]
  BY <1>2 DEF Known
<1>3. QED
  BY <1>1, <1>2 DEF Known

LEMMA WakefulKept == Typed /\ Wakeful /\ [Next]_vars => Wakeful'
<1> SUFFICES ASSUME Typed, Wakeful, [Next]_vars,
                    setup'.alone, "forget" \notin setup'.ops, P' # "mistral"
             PROVE  WakefulBy(caller[TheCaller], waiter[TheWaiter], sweeper[TheSweeper])'
  BY DEF Wakeful
<1> DEFINE c == TheCaller
           g == TheWaiter
           s == TheSweeper
           q == setup.order[waiter[g].at]
<1>1. CASE Next
  <2>a. /\ setup.alone /\ "forget" \notin setup.ops /\ P' = P /\ P # "mistral"
        /\ setup.ops \subseteq Op /\ setup' = setup
        /\ setup.provider \in Provider /\ P \in Provider /\ ~panicked
    BY <1>1, SetupStays, OneActs DEF P, Typed, SetupTypes, Setup
  <2>b. WakefulBy(caller[c], waiter[g], sweeper[s])
    BY <2>a DEF Wakeful
  <2>c. /\ c \in Callers /\ g \in Waiters /\ s \in Sweepers
        /\ caller \in [Callers -> CallerStates(Len(resp), waits)]
        /\ waiter \in [Waiters -> WaiterStates(waits)]
        /\ sweeper \in [Sweepers -> SweeperState]
        /\ sweeper[s] \in SweeperState /\ sweeper[s].plan \in Plans
        /\ slot \in [Provider -> 0 .. Len(resp)] /\ wait \in [Provider -> 0 .. waits]
        /\ waits \in Nat
    BY TheOnes DEF Typed, ActorTypes, SweeperStates, RespTypes, WaitTypes
  <2>d. q \in Provider /\ At(g) = q
    <3>1. waiter[g].at \in 1 .. Len(setup.order) /\ setup.order \in Seq(Provider)
      BY <2>c DEF WaiterStates, Typed, SetupTypes, Setup
    <3>2. QED
      BY <3>1 DEF At
  <2> HIDE DEF c, g, s
  <2>1. ASSUME Calls(c) \/ CallerLeaves(c)
        PROVE  WakefulBy(caller[c], waiter[g], sweeper[s])'
    <3>a. sweeper' = sweeper /\ waiter' = waiter
      BY <1>1, <2>1, <2>c, CallerStep
    <3>b. \A pc, i, w : SetCaller(c, pc, i, w) => caller'[c].pc = pc /\ caller'[c].w = w
      BY <2>c DEF SetCaller
    <3>1. CASE CallerStores(c)
      <4>1. /\ slot' = [slot EXCEPT ![P] = caller[c].i] /\ caller'[c].pc = "notify"
            /\ UNCHANGED <<wait, closed, panicked>>
        BY <3>1, <3>b, <2>a DEF CallerStores
      <4>2. \A p \in Provider \ {P} : slot'[p] = 0
        BY <4>1, <2>b, <2>c DEF WakefulBy
      <4>3. QED
        BY <4>1, <4>2, <3>a, <2>a, <2>b DEF WakefulBy, Known
    <3>2. CASE NotifyLoads(c)
      <4>1. UNCHANGED <<slot, wait, closed, panicked>>
        BY <3>2 DEF NotifyLoads
      <4>2. CASE wait[P] = 0
        <5>1. caller'[c].pc = "holds"
          BY <3>2, <4>2, <3>b DEF NotifyLoads
        <5>2. ~(waiter[g].pc = "select" /\ slot[q] # 0 /\ waiter[g].w \notin closed)
          BY <4>2, <2>a, <2>b, <2>d DEF WakefulBy, Known
        <5>3. QED
          BY <4>1, <5>1, <5>2, <3>a, <2>a, <2>b DEF WakefulBy, Known
      <4>3. CASE wait[P] # 0
        <5>1. caller'[c].pc = "close" /\ caller'[c].w = wait[P]
          BY <3>2, <4>3, <3>b DEF NotifyLoads
        <5>2. waiter[g].pc = "select" /\ slot[q] # 0 /\ waiter[g].w \notin closed
                => waiter[g].w = wait[P]
          BY <2>a, <2>b, <2>d DEF WakefulBy, Known
        <5>3. QED
          BY <4>1, <4>3, <5>1, <5>2, <3>a, <2>a, <2>b DEF WakefulBy, Known
      <4>4. QED
        BY <4>2, <4>3
    <3>3. CASE NotifyCloses(c)
      <4> DEFINE x == caller[c].w
      <4>1. /\ closed' = closed \cup {x} /\ wait' = [wait EXCEPT ![P] = 0]
            /\ panicked' = (x \in closed) /\ slot' = slot
            /\ caller[c].pc = "close" /\ caller'[c].pc = "holds"
        BY <3>3, <3>b DEF NotifyCloses
      <4>2. Known(x)
        BY <4>1, <2>b DEF WakefulBy
      <4>3. \A w : Known(w) => Known(w)'
        BY <4>1, <4>2, <2>a, KnownClosed
      <4>4. waiter[g].pc = "make" => wait'[q] = 0
        BY <4>1, <2>b, <2>c, <2>d DEF WakefulBy
      <4>5. waiter[g].pc = "select" /\ slot[q] # 0 => waiter[g].w \in closed'
        BY <4>1, <2>b DEF WakefulBy
      <4>6. QED
        BY <4>1, <4>3, <4>4, <4>5, <3>a, <2>a, <2>b DEF WakefulBy
    <3>4. CASE ~(CallerStores(c) \/ NotifyLoads(c) \/ NotifyCloses(c))
      <4>1. /\ UNCHANGED <<slot, wait, closed, panicked>>
            /\ caller[c].pc \notin {"notify", "close"} /\ caller'[c].pc # "close"
        BY <1>1, <2>1, <2>c, <3>4, CallerMoves
      <4>2. QED
        BY <4>1, <3>a, <2>a, <2>b DEF WakefulBy, Known
    <3>5. QED
      BY <3>1, <3>2, <3>3, <3>4
  <2>2. ASSUME Waits(g) \/ WaiterLeaves(g)
        PROVE  WakefulBy(caller[c], waiter[g], sweeper[s])'
    <3>a. sweeper' = sweeper /\ caller' = caller
      BY <1>1, <2>2, <2>c, WaiterStep
    <3>b. \A pc, at, w : SetWaiter(g, pc, at, w) =>
             waiter'[g].pc = pc /\ waiter'[g].at = at /\ waiter'[g].w = w
      BY <2>c DEF SetWaiter
    <3>c. UNCHANGED <<slot, closed, panicked>>
      BY <2>2 DEF Waits, WaiterLeaves, WaiterLoads, WaiterMakes, WaiterTries, WaiterWakes,
         WaiterGivesUp, WaiterTriesAgain
    <3>1. CASE WaiterLoads(g)
      <4>1. /\ wait' = wait /\ waiter'[g].at = waiter[g].at /\ waiter'[g].w = wait[q]
            /\ waiter'[g].pc = IF wait[q] = 0 THEN "make" ELSE "try"
        BY <3>1, <3>b, <2>d DEF WaiterLoads
      <4>2. QED
        BY <4>1, <3>a, <3>c, <2>a, <2>b DEF WakefulBy, Known
    <3>2. CASE WaiterMakes(g)
      <4>1. /\ wait' = [wait EXCEPT ![q] = waits + 1] /\ waiter'[g].at = waiter[g].at
            /\ waiter'[g].w = waits + 1 /\ waiter[g].pc = "make" /\ waiter'[g].pc = "try"
        BY <3>2, <3>b, <2>d DEF WaiterMakes
      <4>2. waits + 1 # 0
        BY <2>c
      <4>3. wait[q] = 0
        BY <4>1, <2>b DEF WakefulBy
      <4>4. \A w : Known(w) => Known(w)'
        BY <4>1, <4>3, <3>c, <2>a, <2>c DEF Known
      <4>5. q = P => Known(waiter[g].w)'
        BY <4>1, <4>2, <2>a, <2>c DEF Known
      <4>6. QED
        BY <4>1, <4>4, <4>5, <3>a, <3>c, <2>a, <2>b DEF WakefulBy
    <3>3. CASE WaiterTries(g)
      <4>1. /\ wait' = wait /\ waiter'[g].at = waiter[g].at /\ waiter'[g].w = waiter[g].w
            /\ waiter[g].pc = "try"
            /\ waiter'[g].pc = IF slot[q] # 0 THEN "got" ELSE "select"
        BY <3>3, <3>b, <2>d DEF WaiterTries
      <4>2. QED
        BY <4>1, <3>a, <3>c, <2>a, <2>b DEF WakefulBy, Known
    <3>4. CASE \/ WaiterWakes(g) \/ WaiterGivesUp(g) \/ WaiterTriesAgain(g) \/ WaiterLeaves(g)
      <4>1. wait' = wait /\ waiter'[g].pc \in {"again", "idle", "failed", "got"}
        BY <3>4, <3>b DEF WaiterWakes, WaiterGivesUp, WaiterTriesAgain, WaiterLeaves,
           NextProvider
      <4>2. QED
        BY <4>1, <3>a, <3>c, <2>a, <2>b DEF WakefulBy, Known
    <3>5. QED
      BY <2>2, <3>1, <3>2, <3>3, <3>4 DEF Waits
  <2>3. ASSUME UNCHANGED <<slot, wait, closed, panicked, caller, waiter>>,
               Todo(sweeper'[s].plan) \notin {"forget", "waitclose"}
        PROVE  WakefulBy(caller[c], waiter[g], sweeper[s])'
    BY <2>3, <2>a, <2>b DEF WakefulBy, Known
  <2>4. ASSUME SweeperStarts(s) \/ Sweeps(s)
        PROVE  WakefulBy(caller[c], waiter[g], sweeper[s])'
    <3> DEFINE plan == sweeper[s].plan
               left == sweeper'[s].plan
    <3>a. caller' = caller /\ waiter' = waiter
      BY <1>1, <2>4, <2>c, SweeperStep
    <3>b. \A i, w : Goes(s, i, w) => left = Tail(plan) /\ sweeper'[s].w = w
      BY <2>c DEF Goes, SweeperState
    <3>1. CASE SweeperStarts(s)
      <4>1. PICK op \in setup.ops : sweeper' = [sweeper EXCEPT ![s] =
                                       [plan |-> Plan(op), op |-> op, i |-> 0, w |-> 0]]
        BY <3>1 DEF SweeperStarts
      <4>2. left = Plan(op) /\ op \in Op /\ op # "forget"
        BY <4>1, <2>a, <2>c
      <4>3. Todo(left) \in {"none", "pick", "stop"}
        BY <4>2, <2>a, PlansForget
      <4>4. UNCHANGED <<slot, wait, closed, panicked>>
        BY <3>1 DEF SweeperStarts
      <4>5. QED
        BY <4>3, <4>4, <3>a, <2>3
    <3>2. CASE SweeperPicks(s)
      <4>1. /\ plan # <<>> /\ Head(plan) = "pick" /\ UNCHANGED <<slot, wait, closed, panicked>>
        BY <3>2 DEF SweeperPicks, At1
      <4>2. CASE Meets(s) /\ Goes(s, slot[P], 0)
        <5>1. Todo(left) \in {"cancel", "delete"}
          BY <4>1, <4>2, <3>b, <2>c, PlansNext
        <5>2. QED
          BY <4>1, <5>1, <3>a, <2>3
      <4>3. CASE sweeper' = [sweeper EXCEPT ![s].plan = AfterRange(@)]
        <5>1. left = AfterRange(plan)
          BY <4>3, <2>c DEF SweeperState
        <5>2. left \in {<<>>, <<"stop">>, <<"waits">>}
          BY <4>1, <5>1, <2>c, PlansRange
        <5>3. Todo(left) \in {"none", "stop", "waits"}
          BY <5>2 DEF Todo
        <5>4. QED
          BY <4>1, <5>3, <3>a, <2>3
      <4>4. QED
        BY <3>2, <4>2, <4>3 DEF SweeperPicks
    <3>3. CASE SweeperCancels(s) \/ SweeperCloses(s) \/ SweeperStops(s)
      <4>1. /\ plan # <<>> /\ Head(plan) \in {"cancel", "close", "stop"}
            /\ \E i : Goes(s, i, 0)
            /\ UNCHANGED <<slot, wait, closed, panicked>>
        BY <3>3 DEF SweeperCancels, SweeperCloses, SweeperStops, At1
      <4>2. Todo(left) \in {"close", "delete", "stop", "none", "pick"}
        BY <4>1, <3>b, <2>c, PlansNext
      <4>3. QED
        BY <4>1, <4>2, <3>a, <2>3
    <3>4. CASE SweeperDeletes(s)
      <4>1. /\ plan # <<>> /\ Head(plan) = "delete" /\ slot' = [slot EXCEPT ![P] = 0]
            /\ Goes(s, 0, 0) /\ UNCHANGED <<wait, closed, panicked>>
        BY <3>4 DEF SweeperDeletes, At1
      <4>2. Todo(left) \in {"none", "waits"}
        BY <4>1, <3>b, <2>c, PlansNext
      <4>3. \A p \in Provider : slot'[p] = 0
        BY <4>1, <2>a, <2>b, <2>c DEF WakefulBy
      <4>4. QED
        BY <4>1, <4>2, <4>3, <3>a, <2>a, <2>b, <2>d DEF WakefulBy, Known
    <3>5. CASE SweeperChecksWait(s)
      <4>1. plan # <<>> /\ Head(plan) = "waits" /\ UNCHANGED <<slot, closed, panicked>>
        BY <3>5 DEF SweeperChecksWait, At1
      <4>2. CASE wait[P] # 0 /\ slot[P] = 0 /\ wait[P] \notin closed
        <5>1. /\ wait' = wait
              /\ sweeper' = [sweeper EXCEPT ![s].plan = <<"waitclose">>, ![s].w = wait[P]]
          BY <3>5, <4>2 DEF SweeperChecksWait
        <5>2. left = <<"waitclose">> /\ sweeper'[s].w = wait[P]
          BY <5>1, <2>c DEF SweeperState
        <5>3. Todo(left) = "waitclose"
          BY <5>2 DEF Todo
        <5>4. QED
          BY <4>1, <4>2, <5>1, <5>2, <5>3, <3>a, <2>a, <2>b DEF WakefulBy, Known
      <4>3. CASE ~(wait[P] # 0 /\ slot[P] = 0 /\ wait[P] \notin closed)
        <5>1. Goes(s, 0, 0) /\ wait' = [wait EXCEPT ![P] = IF slot[P] = 0 THEN 0 ELSE @]
          BY <3>5, <4>3 DEF SweeperChecksWait
        <5>2. Todo(left) = "none"
          BY <4>1, <5>1, <3>b, <2>c, PlansNext
        <5>3. \A w : Known(w) => Known(w)'
          BY <4>1, <4>3, <5>1, <2>a, <2>c DEF Known
        <5>4. wait[q] = 0 => wait'[q] = 0
          BY <5>1, <2>c, <2>d
        <5>5. QED
          BY <4>1, <5>2, <5>3, <5>4, <3>a, <2>a, <2>b DEF WakefulBy
      <4>4. QED
        BY <4>2, <4>3
    <3>6. CASE SweeperClosesWait(s)
      <4> DEFINE x == sweeper[s].w
      <4>1. /\ plan # <<>> /\ Head(plan) = "waitclose"
            /\ closed' = closed \cup {x} /\ wait' = [wait EXCEPT ![P] = 0]
            /\ panicked' = (x \in closed) /\ slot' = slot /\ Goes(s, 0, 0)
        BY <3>6 DEF SweeperClosesWait, At1
      <4>2. Todo(left) = "none"
        BY <4>1, <3>b, <2>c, PlansNext
      <4>3. Known(x)
        BY <4>1, <2>b DEF WakefulBy, Todo
      <4>4. \A w : Known(w) => Known(w)'
        BY <4>1, <4>3, <2>a, KnownClosed
      <4>5. waiter[g].pc = "make" => wait'[q] = 0
        BY <4>1, <2>b, <2>c, <2>d DEF WakefulBy
      <4>6. QED
        BY <4>1, <4>2, <4>4, <4>5, <3>a, <2>a, <2>b DEF WakefulBy
    <3>7. ~SweeperForgetsWait(s)
      BY <2>b DEF SweeperForgetsWait, At1, Todo, WakefulBy
    <3>8. QED
      BY <2>4, <3>1, <3>2, <3>3, <3>4, <3>5, <3>6, <3>7 DEF Sweeps
  <2>5. CASE Expires
    <3>1. UNCHANGED <<slot, wait, closed, panicked, caller, waiter, sweeper>>
      BY <2>5 DEF Expires
    <3>2. QED
      BY <3>1, <2>a, <2>b DEF WakefulBy, Known, c, g, s
  <2>6. QED
    BY <1>1, <2>a, <2>1, <2>2, <2>4, <2>5, OneActs DEF c, g, s
<1>2. CASE UNCHANGED vars
  BY <1>2 DEF vars, Wakeful, WakefulBy, Known, P
<1>3. QED
  BY <1>1, <1>2

(* Who waits in GetCh for a responder that is stored, and whose maker is through *)
(* NotifyWaitChannels, has been woken - at OpenAI and Google, with one goroutine *)
(* of each kind, as long as no ticker forgets wait channels: the channel it      *)
(* sleeps on is the one of the map until the maker or a shutdown closes it.      *)
THEOREM StoredResponderWakes == Spec => []WaiterWoken
<1>1. Init => Wakeful
  <2> SUFFICES ASSUME Init
               PROVE  WakefulBy(caller[TheCaller], waiter[TheWaiter], sweeper[TheSweeper])
    BY DEF Wakeful
  <2>1. /\ caller[TheCaller].pc = "idle" /\ waiter[TheWaiter].pc = "idle"
        /\ sweeper[TheSweeper].plan = <<>> /\ \A p \in Provider : slot[p] = 0
    BY TheOnes DEF Init
  <2>2. Todo(<<>>) = "none"
    BY DEF Todo
  <2>3. QED
    BY <2>1, <2>2 DEF WakefulBy
<1>2. Typed /\ OthersRest /\ Wakeful => WaiterWoken
  <2> SUFFICES ASSUME Typed, OthersRest, Wakeful, setup.alone, "forget" \notin setup.ops,
                      P # "mistral", NEW g \in Waiters, Unwoken(g)
               PROVE  FALSE
    BY DEF WaiterWoken
  <2>1. g = TheWaiter
    BY DEF OthersRest, Unwoken
  <2>2. \A c \in Callers : caller[c].pc \notin {"notify", "close"}
    BY DEF Unwoken
  <2>3. QED
    BY <2>1, <2>2, TheOnes DEF Wakeful, WakefulBy, Unwoken, At
<1>3. QED
  BY <1>1, <1>2, HandledAlways, WakefulKept, PTL DEF Spec

--------------------------------------------------------------------------------
(* One dialog's requests: types                                                 *)

\* Who called for functions has a round left.
LoopTyped == LoopTypeOK /\ \A r \in Requests : req[r].pc = "tools" => req[r].depth < MaxDepth

\* A request that is not waiting for results has them all.
CallsMatch == \A r \in Requests : req[r].pc # "tools" => req[r].calls = req[r].outputs

\* Requests that do not overlap are those of one goroutine.
TheRequest == CHOOSE one \in Requests : TRUE
OneRequest ==
  ~scene.overlap => \A r \in Requests \ {TheRequest} : req[r] = NoRequest

\* The prompt holds a history only between ChangesPrompt and RestoresPrompt, and what
\* comes back is the configured one.
PromptKept ==
  ~scene.overlap =>
    /\ \A r \in Requests \cap {TheRequest} :
          /\ req[r].carried \in {0, req[r].q}
          /\ OpenAI /\ req[r].pc \in {"send", "tools"} => req[r].original = 0
          /\ req[r].pc = "prompt" => OpenAI
    /\ prompt # 0 => /\ TheRequest \in Requests /\ OpenAI
                     /\ req[TheRequest].pc \in {"send", "tools"}
                     /\ prompt = req[TheRequest].q

\* What HistoryHolds asks of a history that is not cut, given the answers handed on.
Whole(h, given, faults) ==
  /\ "api" \notin faults => \A i \in 1 .. Len(given) : Contains(h, By("model", given[i]))
  /\ \A i \in 1 .. Len(h) : h[i].by = "model" =>
        \E k \in 1 .. i - 1 : h[k] = By("user", h[i].q)
Complete(h) == Whole(h, delivered, scene.faults)

\* The cache tells what was said as long as it is not full; a request has what the
\* cache had, and its question; before there is a cache, the database tells all.
CacheTells ==
  /\ late = <<>> /\ ~cache.old
  /\ cache.there /\ Len(cache.msgs) < Limit => Complete(cache.msgs)
  /\ ~cache.there => /\ stored = IF scene.past THEN <<By("user", 0), By("model", 0)>> ELSE <<>>
                     /\ delivered = IF scene.past THEN <<0>> ELSE <<>>
RequestTells(r) ==
  LET h == req[r].history
      said == cache.msgs
  IN  /\ req[r].pc \in {"fill", "responder", "rag", "question"} /\ Len(h) < Limit => Complete(h)
      /\ req[r].pc \in {"keep", "prompt", "send", "tools"} /\ Len(h) <= Limit => Complete(h)
      /\ req[r].pc \in {"keep", "remember"} => req[r].slice = said
      /\ req[r].pc \in {"prompt", "send", "tools", "answer", "media", "remember"} =>
            said # <<>> /\ said[Len(said)] = By("user", req[r].q)
      /\ req[r].pc \notin {"idle", "load", "fill", "failed"} => cache.there
HistoryTells ==
  Quiet => CacheTells /\ \A r \in Requests \cap {TheRequest} : RequestTells(r)

LEMMA Trims ==
  ASSUME NEW h \in History
  PROVE  /\ Trim(h) \in History /\ (Len(h) <= Limit => Trim(h) = h)
         /\ Len(h) >= Limit => Len(Trim(h)) = Limit
         /\ h # <<>> => Trim(h) # <<>> /\ Trim(h)[Len(Trim(h))] = h[Len(h)]
<1>a. h \in Seq(Message) /\ Len(h) \in Nat /\ Limit \in Nat \ {0}
  BY LoopAssumption DEF History
<1>1. CASE Len(h) > Limit
  <2> DEFINE first == Len(h) - Limit + 1
  <2>1. first \in 1 .. Len(h)
    BY <1>a, <1>1
  <2>2. Trim(h) = SubSeq(h, first, Len(h))
    BY <1>1 DEF Trim, LastOf
  <2>3. /\ SubSeq(h, first, Len(h)) \in Seq(Message)
        /\ Len(SubSeq(h, first, Len(h))) = Len(h) - first + 1
        /\ \A i \in 1 .. Len(h) - first + 1 : SubSeq(h, first, Len(h))[i] = h[first + i - 1]
    BY <1>a, <2>1, SubSeqProperties
  <2>4. Len(h) - first + 1 = Limit /\ Limit \in 1 .. Len(h) - first + 1
    BY <1>a, <2>1
  <2>5. h[first + Limit - 1] = h[Len(h)]
    BY <1>a
  <2> HIDE DEF first
  <2>6. Len(Trim(h)) = Limit
    BY <2>2, <2>3, <2>4
  <2>7. Trim(h)[Limit] = h[Len(h)]
    BY <2>2, <2>3, <2>4, <2>5
  <2>8. Trim(h) \in Seq(Message)
    BY <2>2, <2>3
  <2>9. Trim(h) # <<>>
    BY <2>6, <2>8, <1>a
  <2>10. QED
    BY <2>6, <2>7, <2>8, <2>9, <1>a, <1>1 DEF History
<1>2. CASE Len(h) <= Limit
  <2>1. Trim(h) = h
    BY <1>a, <1>2 DEF Trim
  <2>2. QED
    BY <2>1, <1>a, <1>2
<1>3. QED
  BY <1>a, <1>1, <1>2

LEMMA Words ==
  /\ \A q \in 0 .. MaxQuestions : By("user", q) \in Message /\ By("model", q) \in Message
  /\ \A h \in History, m \in Message : Append(h, m) \in History
  /\ <<>> \in History /\ NoRequest \in Request /\ NoCache \in Cache
<1>1. 0 \in 0 .. MaxQuestions /\ 0 \in 0 .. MaxDepth /\ 0 \in 0 .. MaxQuota /\ 0 \in Nat
  BY LoopAssumption
<1>2. <<>> \in History
  BY DEF History
<1>3. NoRequest \in Request /\ NoCache \in Cache
  BY <1>1, <1>2 DEF NoRequest, Request, NoCache, Cache
<1>4. \A q \in 0 .. MaxQuestions : By("user", q) \in Message /\ By("model", q) \in Message
  BY DEF By, Message
<1>5. \A h \in History, m \in Message : Append(h, m) \in History
  BY DEF History
<1>6. QED
  BY <1>2, <1>3, <1>4, <1>5

LEMMA HistoriesOfDb == LoopTypeOK => DbHistory \subseteq History /\ \A h \in DbHistory :
                          h = Trim(stored) \/ ("api" \in scene.faults /\ h = <<>>)
<1> SUFFICES ASSUME LoopTypeOK, NEW h \in DbHistory
             PROVE  /\ h \in History
                    /\ h = Trim(stored) \/ ("api" \in scene.faults /\ h = <<>>)
  OBVIOUS
<1>1. h = Trim(stored) \/ ("api" \in scene.faults /\ h = <<>>)
  BY DEF DbHistory, ConvertDialogToOpenAIFormat, ConvertDialogToGoogleFormat,
     ParseDialogHistory, Unread
<1>2. stored \in History
  BY DEF LoopTypeOK
<1>3. QED
  BY <1>1, <1>2, Trims, Words

--------------------------------------------------------------------------------
(* What each action does to its request                                         *)

SameIdentity(r) == /\ req'[r].q = req[r].q /\ req'[r].carried = req[r].carried
                   /\ req'[r].original = req[r].original /\ req'[r].depth = req[r].depth
SameCalls(r) == req'[r].calls = req[r].calls /\ req'[r].outputs = req[r].outputs
SameWords(r) == req'[r].history = req[r].history /\ req'[r].slice = req[r].slice
Fresh(r) == /\ req'[r].carried = 0 /\ req'[r].calls = 0 /\ req'[r].outputs = 0
            /\ req'[r].history = <<>> /\ req'[r].slice = <<>>
RequestIs(r) == req'[r] \in Request /\ req' = [req EXCEPT ![r] = req'[r]]
Ended(r) == /\ RequestIs(r) /\ Fresh(r) /\ req'[r].pc \in {"failed", "done"}

LEMMA SetBecomes ==
  ASSUME LoopTypeOK, NEW r \in Requests, NEW k \in Request, Set(r, k)
  PROVE  RequestIs(r) /\ req'[r] = k
  BY DEF LoopTypeOK, Set, RequestIs

LEMMA OverFields ==
  ASSUME LoopTypeOK, NEW r \in Requests, NEW pc \in {"failed", "done"}, Set(r, Over(r, pc))
  PROVE  Ended(r) /\ req'[r].pc = pc
<1>1. req[r] \in Request /\ NoRequest \in Request
  BY Words DEF LoopTypeOK
<1>2. Over(r, pc) \in Request
  BY <1>1 DEF Over, Request
<1>3. /\ Over(r, pc).pc = pc /\ Over(r, pc).carried = 0 /\ Over(r, pc).calls = 0
      /\ Over(r, pc).outputs = 0 /\ Over(r, pc).history = <<>> /\ Over(r, pc).slice = <<>>
  BY DEF Over, NoRequest
<1>4. QED
  BY <1>2, <1>3, SetBecomes DEF Ended, Fresh

LEMMA FailsFields ==
  ASSUME LoopTypeOK, NEW r \in Requests, Fails(r)
  PROVE  Ended(r) /\ req'[r].pc = "failed"
  BY OverFields DEF Fails

LEMMA BeginFields ==
  ASSUME LoopTypeOK, NEW r \in Requests, RequestStreaming(r)
  PROVE  /\ RequestIs(r) /\ Fresh(r) /\ req'[r].pc = "load"
         /\ req[r].pc \in {"idle", "done", "failed"} /\ (~scene.overlap => r = TheRequest)
<1> DEFINE k(q) == [NoRequest EXCEPT !.pc = "load", !.q = q]
<1>1. ASSUME NEW q \in 0 .. MaxQuestions, Set(r, k(q))
      PROVE  RequestIs(r) /\ Fresh(r) /\ req'[r].pc = "load"
  <2>1. k(q) \in Request
    BY Words DEF Request
  <2>2. /\ k(q).pc = "load" /\ k(q).carried = 0 /\ k(q).calls = 0 /\ k(q).outputs = 0
        /\ k(q).history = <<>> /\ k(q).slice = <<>>
    BY DEF NoRequest
  <2>3. QED
    BY <1>1, <2>1, <2>2, SetBecomes DEF Fresh
<1>2. \E q \in 0 .. MaxQuestions : Set(r, k(q))
  <2>1. req[r].q \in 0 .. MaxQuestions
    BY DEF LoopTypeOK, Request
  <2>2. asked < MaxQuestions => asked + 1 \in 0 .. MaxQuestions
    BY LoopAssumption DEF LoopTypeOK
  <2>3. QED
    BY <2>1, <2>2 DEF RequestStreaming
<1>3. req[r].pc \in {"idle", "done", "failed"} /\ (~scene.overlap => r = TheRequest)
  BY DEF RequestStreaming, Busy, TheRequest
<1>4. QED
  BY <1>1, <1>2, <1>3

LEMMA LoadFields ==
  ASSUME LoopTypeOK, NEW r \in Requests, LoadsHistory(r)
  PROVE  /\ RequestIs(r) /\ req[r].pc = "load"
         /\ \/ Ended(r) /\ req'[r].pc = "failed"
            \/ /\ SameIdentity(r) /\ SameCalls(r)
               /\ \/ /\ CacheHits /\ req'[r].pc = "responder" /\ req'[r].history = cache.msgs
                  \/ /\ ~CacheHits /\ req'[r].pc = "fill" /\ req'[r].history \in DbHistory
<1>a. req[r] \in Request /\ cache.msgs \in History /\ req[r].pc = "load"
  BY DEF LoopTypeOK, Cache, LoadsHistory
<1>1. CASE CacheHits
  <2> DEFINE k == [To(r, "responder") EXCEPT !.history = cache.msgs]
  <2>1. /\ k \in Request /\ k.pc = "responder" /\ k.history = cache.msgs
        /\ k.q = req[r].q /\ k.carried = req[r].carried /\ k.original = req[r].original
        /\ k.depth = req[r].depth /\ k.calls = req[r].calls /\ k.outputs = req[r].outputs
    BY <1>a DEF To, Request
  <2>2. Set(r, k)
    BY <1>1 DEF LoadsHistory
  <2> HIDE DEF k
  <2>3. QED
    BY <1>1, <1>a, <2>1, <2>2, SetBecomes DEF SameIdentity, SameCalls
<1>2. ASSUME ~CacheHits, NEW h \in DbHistory, Set(r, [To(r, "fill") EXCEPT !.history = h])
      PROVE  /\ RequestIs(r) /\ SameIdentity(r) /\ SameCalls(r)
             /\ req'[r].pc = "fill" /\ req'[r].history = h
  <2> DEFINE k == [To(r, "fill") EXCEPT !.history = h]
  <2>0. h \in History
    BY HistoriesOfDb
  <2>1. /\ k \in Request /\ k.pc = "fill" /\ k.history = h
        /\ k.q = req[r].q /\ k.carried = req[r].carried /\ k.original = req[r].original
        /\ k.depth = req[r].depth /\ k.calls = req[r].calls /\ k.outputs = req[r].outputs
    BY <1>a, <2>0 DEF To, Request
  <2>2. Set(r, k)
    BY <1>2
  <2> HIDE DEF k
  <2>3. QED
    BY <2>1, <2>2, SetBecomes DEF SameIdentity, SameCalls
<1>3. QED
  BY <1>a, <1>1, <1>2, FailsFields DEF LoadsHistory, Ended

\* Actions that change the step of the request and nothing else of it.
LEMMA ToFields ==
  ASSUME LoopTypeOK, NEW r \in Requests,
         NEW pc \in {"idle", "load", "fill", "responder", "rag", "question", "keep", "prompt",
                     "send", "tools", "answer", "media", "remember", "done", "failed"},
         Set(r, To(r, pc))
  PROVE  /\ RequestIs(r) /\ req'[r].pc = pc
         /\ SameIdentity(r) /\ SameCalls(r) /\ SameWords(r)
<1>a. req[r] \in Request
  BY DEF LoopTypeOK
<1> DEFINE k == To(r, pc)
<1>1. /\ k \in Request /\ k.pc = pc /\ k.history = req[r].history /\ k.slice = req[r].slice
      /\ k.q = req[r].q /\ k.carried = req[r].carried /\ k.original = req[r].original
      /\ k.depth = req[r].depth /\ k.calls = req[r].calls /\ k.outputs = req[r].outputs
  BY <1>a DEF To, Request
<1>2. Set(r, k)
  OBVIOUS
<1> HIDE DEF k
<1>3. QED
  BY <1>1, <1>2, SetBecomes DEF SameIdentity, SameCalls, SameWords

LEMMA PlainFields ==
  ASSUME LoopTypeOK, NEW r \in Requests,
         FillsCache(r) \/ FindsResponder(r) \/ AppliesRAG(r) \/ KeepsQuestion(r)
  PROVE  /\ RequestIs(r)
         /\ \/ Ended(r) /\ req'[r].pc = "failed" /\ req[r].pc \in {"responder", "rag"}
            \/ /\ SameIdentity(r) /\ SameCalls(r) /\ SameWords(r)
               /\ <<req[r].pc, req'[r].pc>> \in
                     {<<"fill", "responder">>, <<"responder", "rag">>, <<"rag", "question">>,
                      <<"keep", "prompt">>, <<"keep", "send">>}
               /\ req'[r].pc = "prompt" => OpenAI
               /\ req'[r].pc = "send" => ~OpenAI
<1>1. CASE FillsCache(r)
  BY <1>1, ToFields DEF FillsCache
<1>2. CASE FindsResponder(r)
  BY <1>2, ToFields, FailsFields DEF FindsResponder, Ended
<1>3. CASE AppliesRAG(r)
  BY <1>3, ToFields, FailsFields DEF AppliesRAG, OpenAISearches, GoogleSearches, Ended
<1>4. CASE KeepsQuestion(r)
  <2>1. /\ req[r].pc = "keep"
        /\ (OpenAI /\ Set(r, To(r, "prompt"))) \/ (~OpenAI /\ Set(r, To(r, "send")))
    BY <1>4 DEF KeepsQuestion
  <2>2. QED
    BY <2>1, ToFields
<1>5. QED
  BY <1>1, <1>2, <1>3, <1>4

LEMMA AskFields ==
  ASSUME LoopTypeOK, NEW r \in Requests, AsksQuestion(r)
  PROVE  /\ RequestIs(r) /\ req[r].pc = "question" /\ req'[r].pc = "keep"
         /\ SameIdentity(r) /\ SameCalls(r)
         /\ req'[r].history = Append(req[r].history, By("user", req[r].q))
         /\ req'[r].slice = cache.msgs
<1> DEFINE h == Append(req[r].history, By("user", req[r].q))
           k == [To(r, "keep") EXCEPT !.history = h, !.slice = cache.msgs]
<1>a. /\ req[r] \in Request /\ cache.msgs \in History /\ req[r].history \in History
      /\ req[r].q \in 0 .. MaxQuestions
  BY DEF LoopTypeOK, Cache, Request
<1>1. h \in History
  BY <1>a, Words
<1>2. Set(r, k) /\ req[r].pc = "question"
  <2>1. [To(r, "keep") EXCEPT !.history = Append(@, By("user", req[r].q)), !.slice = cache.msgs] = k
    BY <1>a DEF To, Request
  <2>2. QED
    BY <2>1 DEF AsksQuestion, OpenAIAsks, GoogleAsks, createUserMessageWithFiles,
       createUserMessage
<1> HIDE DEF h
<1>3. /\ k \in Request /\ k.pc = "keep" /\ k.history = h /\ k.slice = cache.msgs
      /\ k.q = req[r].q /\ k.carried = req[r].carried /\ k.original = req[r].original
      /\ k.depth = req[r].depth /\ k.calls = req[r].calls /\ k.outputs = req[r].outputs
  BY <1>a, <1>1 DEF To, Request
<1> HIDE DEF k
<1>4. QED
  BY <1>2, <1>3, SetBecomes DEF SameIdentity, SameCalls, h

LEMMA PromptFields ==
  ASSUME LoopTypeOK, NEW r \in Requests, ChangesPrompt(r)
  PROVE  /\ RequestIs(r) /\ req[r].pc = "prompt" /\ req'[r].pc = "send"
         /\ req'[r].q = req[r].q /\ req'[r].carried = req[r].carried
         /\ req'[r].original = prompt /\ prompt' \in {prompt, req[r].q}
         /\ SameCalls(r) /\ SameWords(r)
<1> DEFINE k == [To(r, "send") EXCEPT !.original = prompt]
<1>1. req[r] \in Request /\ prompt \in 0 .. MaxQuestions
  BY DEF LoopTypeOK
<1>2. /\ k \in Request /\ k.pc = "send" /\ k.original = prompt
      /\ k.history = req[r].history /\ k.slice = req[r].slice
      /\ k.q = req[r].q /\ k.carried = req[r].carried
      /\ k.calls = req[r].calls /\ k.outputs = req[r].outputs
  BY <1>1 DEF To, Request
<1>3. Set(r, k) /\ req[r].pc = "prompt" /\ prompt' \in {prompt, req[r].q}
  BY DEF ChangesPrompt
<1> HIDE DEF k
<1>4. QED
  BY <1>2, <1>3, SetBecomes DEF SameCalls, SameWords

LEMMA CallsForFields ==
  ASSUME LoopTypeOK, NEW r \in Requests, NEW n \in Nat
  PROVE  LET t == CallsFor(r, n) IN
         /\ t \in Request /\ t.pc = "tools" /\ t.original = req[r].original
         /\ t.history = req[r].history /\ t.slice = req[r].slice
         /\ t.q = req[r].q /\ t.carried = req[r].carried /\ t.depth = req[r].depth
<1> DEFINE sum == req[r].calls + n
           k == [[req[r] EXCEPT !.pc = "tools"] EXCEPT !.calls = sum]
<1>1. req[r] \in Request /\ sum \in Nat
  BY DEF LoopTypeOK, Request
<1>2. CallsFor(r, n) = k
  BY <1>1 DEF CallsFor, To, Request
<1> HIDE DEF sum
<1>3. /\ k \in Request /\ k.pc = "tools" /\ k.original = req[r].original
      /\ k.history = req[r].history /\ k.slice = req[r].slice
      /\ k.q = req[r].q /\ k.carried = req[r].carried /\ k.depth = req[r].depth
  BY <1>1 DEF Request
<1>4. QED
  BY <1>2, <1>3

\* An answer with text or functions, and the history the instructions carried.
LEMMA AnswerFields ==
  ASSUME LoopTypeOK, NEW r \in Requests, NEW text \in {"none", "text", "null", "file"},
         NEW n \in Nat, NEW carried \in 0 .. MaxQuestions,
         \/ Set(r, [Answers(r, text) EXCEPT !.carried = carried])
         \/ Set(r, [CallsFor(r, n) EXCEPT !.carried = carried])
  PROVE  /\ RequestIs(r) /\ SameWords(r) /\ req'[r].q = req[r].q
         /\ req'[r].carried = carried /\ req'[r].original = req[r].original
         /\ req'[r].depth = req[r].depth
         /\ \/ req'[r].pc = "answer" /\ SameCalls(r)
            \/ req'[r].pc = "tools"
<1> DEFINE k == [Answers(r, text) EXCEPT !.carried = carried]
           t == [CallsFor(r, n) EXCEPT !.carried = carried]
<1>1. req[r] \in Request
  BY DEF LoopTypeOK
<1>2. /\ k \in Request /\ k.pc = "answer" /\ k.original = req[r].original
      /\ k.history = req[r].history /\ k.slice = req[r].slice
      /\ k.q = req[r].q /\ k.carried = carried /\ k.depth = req[r].depth
      /\ k.calls = req[r].calls /\ k.outputs = req[r].outputs
  BY <1>1 DEF Answers, To, Request
<1>3. /\ t \in Request /\ t.pc = "tools" /\ t.original = req[r].original
      /\ t.history = req[r].history /\ t.slice = req[r].slice
      /\ t.q = req[r].q /\ t.carried = carried /\ t.depth = req[r].depth
  BY CallsForFields DEF Request
<1> HIDE DEF k, t
<1>4. CASE Set(r, k)
  BY <1>2, <1>4, SetBecomes DEF SameCalls, SameWords
<1>5. CASE Set(r, t)
  BY <1>3, <1>5, SetBecomes DEF SameWords
<1>6. QED
  BY <1>4, <1>5 DEF k, t

LEMMA SendFields ==
  ASSUME LoopTypeOK, NEW r \in Requests, Sends(r)
  PROVE  /\ RequestIs(r) /\ req[r].pc = "send"
         /\ \/ Ended(r) /\ req'[r].pc = "failed"
            \/ /\ SameWords(r) /\ req'[r].q = req[r].q
               /\ req'[r].original = req[r].original /\ req'[r].depth = req[r].depth
               /\ req'[r].carried = IF OpenAI THEN prompt ELSE req[r].carried
               /\ \/ req'[r].pc = "answer" /\ SameCalls(r)
                  \/ req'[r].pc = "tools" /\ req[r].depth < MaxDepth
                  \/ ~OpenAI /\ req'[r].pc = "send" /\ SameCalls(r)
         /\ prompt' = IF OpenAI /\ req'[r].pc \in {"answer", "failed"} THEN req[r].original
                                                                       ELSE prompt
<1>a. /\ req[r] \in Request /\ prompt \in 0 .. MaxQuestions /\ req[r].depth \in 0 .. MaxDepth
      /\ req[r].carried \in 0 .. MaxQuestions /\ req[r].quota \in 0 .. MaxQuota
      /\ MaxDepth \in Nat \ {0}
  BY LoopAssumption DEF LoopTypeOK, Request
<1>b. /\ req[r].pc = "send"
      /\ prompt' = IF OpenAI /\ req'[r].pc \in {"answer", "failed"} THEN req[r].original
                                                                       ELSE prompt
  BY DEF Sends, RestoresPrompt
<1> DEFINE Result == /\ RequestIs(r)
                     /\ \/ Ended(r) /\ req'[r].pc = "failed"
                        \/ /\ SameWords(r) /\ req'[r].q = req[r].q
                           /\ req'[r].original = req[r].original
                           /\ req'[r].depth = req[r].depth
                           /\ req'[r].carried = IF OpenAI THEN prompt ELSE req[r].carried
                           /\ \/ req'[r].pc = "answer" /\ SameCalls(r)
                              \/ req'[r].pc = "tools" /\ req[r].depth < MaxDepth
                              \/ ~OpenAI /\ req'[r].pc = "send" /\ SameCalls(r)
<1>c. Fails(r) => Result
  BY FailsFields DEF Ended
<1>1. ASSUME OpenAI, NEW reply \in OpenAIReplies, createResponseInternal(r, reply) PROVE Result
  <2>1. reply.calls \in Nat
    BY LoopAssumption DEF OpenAIReplies, Says
  <2>2. ~Fails(r) =>
           /\ req[r].depth < MaxDepth
           /\ \/ \E text \in {"none", "text", "null", "file"} :
                    Set(r, [Answers(r, text) EXCEPT !.carried = OpenAIBuilds(r).carried])
              \/ Set(r, [CallsFor(r, reply.calls) EXCEPT !.carried = OpenAIBuilds(r).carried])
    BY <1>1, <1>a DEF createResponseInternal, OpenAIRefuses, OpenAIStreams
  <2>3. OpenAIBuilds(r).carried = prompt
    BY <1>a DEF OpenAIBuilds, Request
  <2>4. CASE Fails(r)
    BY <2>4, <1>c
  <2>5. CASE ~Fails(r)
    BY <2>1, <2>2, <2>3, <2>5, <1>1, <1>a, AnswerFields
  <2>6. QED
    BY <2>4, <2>5
<1>2. ASSUME ~OpenAI, NEW reply \in GeminiReplies, sendToGeminiAPIStreaming(r, reply)
      PROVE  Result
  <2>1. reply.calls \in Nat
    BY LoopAssumption DEF GeminiReplies, OpenAIReplies, Says
  <2>2. CASE GeminiTriesAgain(r)
    <3> DEFINE k == [req[r] EXCEPT !.quota = @ + 1]
    <3>1. Set(r, k) /\ req[r].quota + 1 \in 0 .. MaxQuota
      BY <2>2, <1>a, LoopAssumption DEF GeminiTriesAgain
    <3>2. /\ k \in Request /\ k.pc = req[r].pc /\ k.original = req[r].original
          /\ k.history = req[r].history /\ k.slice = req[r].slice
          /\ k.q = req[r].q /\ k.carried = req[r].carried /\ k.depth = req[r].depth
          /\ k.calls = req[r].calls /\ k.outputs = req[r].outputs
      BY <3>1, <1>a DEF Request
    <3> HIDE DEF k
    <3>3. QED
      BY <3>1, <3>2, <1>2, <1>b, SetBecomes DEF SameWords, SameCalls
  <2>3. CASE GeminiAnswers(r, reply)
    <3>1. \/ \E text \in {"none", "text", "null", "file"} : Set(r, Answers(r, text))
          \/ req[r].depth < MaxDepth /\ Set(r, CallsFor(r, reply.calls))
      BY <2>3, <1>a DEF GeminiAnswers
    <3>2. ASSUME NEW text \in {"none", "text", "null", "file"}, Set(r, Answers(r, text))
          PROVE  Result
      <4> DEFINE k == Answers(r, text)
      <4>1. /\ k \in Request /\ k.pc = "answer" /\ k.original = req[r].original
            /\ k.history = req[r].history /\ k.slice = req[r].slice
            /\ k.q = req[r].q /\ k.carried = req[r].carried /\ k.depth = req[r].depth
            /\ k.calls = req[r].calls /\ k.outputs = req[r].outputs
        BY <1>a DEF Answers, To, Request
      <4>2. Set(r, k)
        BY <3>2
      <4> HIDE DEF k
      <4>3. QED
        BY <4>1, <4>2, <1>2, SetBecomes DEF SameWords, SameCalls
    <3>3. CASE req[r].depth < MaxDepth /\ Set(r, CallsFor(r, reply.calls))
      <4> DEFINE k == CallsFor(r, reply.calls)
      <4>1. /\ k \in Request /\ k.pc = "tools" /\ k.original = req[r].original
            /\ k.history = req[r].history /\ k.slice = req[r].slice
            /\ k.q = req[r].q /\ k.carried = req[r].carried /\ k.depth = req[r].depth
        BY <2>1, CallsForFields
      <4>2. Set(r, k) /\ req[r].depth < MaxDepth
        BY <3>3
      <4> HIDE DEF k
      <4>3. QED
        BY <4>1, <4>2, <1>2, SetBecomes DEF SameWords, SameCalls
    <3>4. QED
      BY <3>1, <3>2, <3>3
  <2>4. QED
    BY <1>2, <2>2, <2>3, <1>c DEF sendToGeminiAPIStreaming, GeminiRefuses
<1>3. QED
  BY <1>1, <1>2, <1>b DEF Sends

LEMMA ToolFields ==
  ASSUME LoopTyped, NEW r \in Requests, RunsAction(r) \/ SendsOutputs(r)
  PROVE  /\ RequestIs(r) /\ req[r].pc = "tools" /\ SameWords(r) /\ req'[r].q = req[r].q
         /\ req'[r].carried = req[r].carried /\ req'[r].original = req[r].original
         /\ \/ req'[r].pc = "tools" /\ req'[r].depth = req[r].depth
            \/ req'[r].pc = "send" /\ SameCalls(r) /\ req[r].calls = req[r].outputs
<1>a. /\ req[r] \in Request /\ req[r].outputs \in Nat /\ req[r].depth \in 0 .. MaxDepth
      /\ LoopTypeOK /\ req[r].pc = "tools" /\ req[r].depth < MaxDepth
  BY DEF LoopTyped, LoopTypeOK, Request, RunsAction, SendsOutputs
<1>1. CASE RunsAction(r)
  <2> DEFINE more == req[r].outputs + 1
             k == [req[r] EXCEPT !.outputs = more]
  <2>1. Set(r, k) /\ more \in Nat
    BY <1>1, <1>a DEF RunsAction, OpenAIRuns, GoogleRuns, callMCP
  <2> HIDE DEF more
  <2>2. /\ k \in Request /\ k.pc = req[r].pc /\ k.original = req[r].original
        /\ k.history = req[r].history /\ k.slice = req[r].slice
        /\ k.q = req[r].q /\ k.carried = req[r].carried /\ k.depth = req[r].depth
    BY <2>1, <1>a DEF Request
  <2> HIDE DEF k
  <2>3. QED
    BY <2>1, <2>2, <1>a, SetBecomes DEF SameWords
<1>2. CASE SendsOutputs(r)
  <2> DEFINE deeper == req[r].depth + 1
             tries == IF OpenAI THEN req[r].quota ELSE 0
             k == [[req[r] EXCEPT !.pc = "send"] EXCEPT !.depth = deeper, !.quota = tries]
  <2>1. deeper \in 0 .. MaxDepth /\ tries \in 0 .. MaxQuota
    BY <1>a, LoopAssumption DEF Request
  <2>2. IF OpenAI THEN [To(r, "send") EXCEPT !.depth = @ + 1] = k
                  ELSE [To(r, "send") EXCEPT !.depth = @ + 1, !.quota = 0] = k
    BY <1>a DEF To, Request
  <2>3. Set(r, k) /\ req[r].calls = req[r].outputs
    BY <2>2, <1>2 DEF SendsOutputs, OpenAIContinues, GoogleContinues
  <2> HIDE DEF deeper, tries
  <2>4. /\ k \in Request /\ k.pc = "send" /\ k.original = req[r].original
        /\ k.history = req[r].history /\ k.slice = req[r].slice
        /\ k.q = req[r].q /\ k.carried = req[r].carried
        /\ k.calls = req[r].calls /\ k.outputs = req[r].outputs
    BY <2>1, <1>a DEF Request
  <2> HIDE DEF k
  <2>5. QED
    BY <2>3, <2>4, <1>a, SetBecomes DEF SameWords, SameCalls
<1>3. QED
  BY <1>1, <1>2

LEMMA GoneFields ==
  ASSUME LoopTypeOK, NEW r \in Requests, SessionEnds(r)
  PROVE  /\ RequestIs(r) /\ req'[r].pc = req[r].pc
         /\ SameIdentity(r) /\ SameCalls(r) /\ SameWords(r)
<1> DEFINE k == [req[r] EXCEPT !.gone = TRUE]
<1>1. req[r] \in Request /\ Set(r, k)
  BY DEF LoopTypeOK, SessionEnds
<1>2. /\ k \in Request /\ k.pc = req[r].pc /\ k.original = req[r].original
      /\ k.history = req[r].history /\ k.slice = req[r].slice
      /\ k.q = req[r].q /\ k.carried = req[r].carried /\ k.depth = req[r].depth
      /\ k.calls = req[r].calls /\ k.outputs = req[r].outputs
  BY <1>1 DEF Request
<1> HIDE DEF k
<1>3. QED
  BY <1>1, <1>2, SetBecomes DEF SameIdentity, SameCalls, SameWords

LEMMA AnswerKept ==
  ASSUME LoopTypeOK, NEW r \in Requests, ParsesAnswer(r) \/ GeneratesMedia(r)
  PROVE  /\ RequestIs(r) /\ SameIdentity(r) /\ SameCalls(r)
         /\ <<req[r].pc, req'[r].pc>> \in {<<"answer", "remember">>, <<"answer", "media">>,
                                           <<"media", "remember">>}
         /\ req'[r].pc = "remember" => req'[r].slice = cache.msgs
<1>a. /\ req[r] \in Request /\ cache.msgs \in History
      /\ req[r].text \in {"none", "text", "null", "file"}
  BY DEF LoopTypeOK, Cache, Request
<1>1. CASE ParsesAnswer(r)
  <2> DEFINE k(pc) == [To(r, pc) EXCEPT !.slice = cache.msgs]
  <2>1. \A pc \in {"remember", "media"} :
           /\ k(pc) \in Request /\ k(pc).pc = pc /\ k(pc).original = req[r].original
           /\ k(pc).slice = cache.msgs
           /\ k(pc).q = req[r].q /\ k(pc).carried = req[r].carried /\ k(pc).depth = req[r].depth
           /\ k(pc).calls = req[r].calls /\ k(pc).outputs = req[r].outputs
    BY <1>a DEF To, Request
  <2>2. req[r].pc = "answer" /\ (Set(r, k("remember")) \/ Set(r, k("media")))
    BY <1>1 DEF ParsesAnswer, OpenAIParses, GoogleParses
  <2> HIDE DEF k
  <2>3. PICK pc \in {"remember", "media"} : Set(r, k(pc))
    BY <2>2
  <2>4. QED
    BY <2>1, <2>2, <2>3, SetBecomes DEF SameIdentity, SameCalls
<1>2. CASE GeneratesMedia(r)
  <2>1. PICK text \in {"none", "text", "null", "file"} :
           Set(r, [To(r, "remember") EXCEPT !.text = text, !.slice = cache.msgs])
    BY <1>2, <1>a DEF GeneratesMedia, processVideoGeneration, processImageGeneration
  <2> DEFINE k == [To(r, "remember") EXCEPT !.text = text, !.slice = cache.msgs]
  <2>2. /\ k \in Request /\ k.pc = "remember" /\ k.original = req[r].original
        /\ k.slice = cache.msgs
        /\ k.q = req[r].q /\ k.carried = req[r].carried /\ k.depth = req[r].depth
        /\ k.calls = req[r].calls /\ k.outputs = req[r].outputs
    BY <1>a DEF To, Request
  <2>3. Set(r, k) /\ req[r].pc = "media"
    BY <2>1, <1>2 DEF GeneratesMedia
  <2> HIDE DEF k
  <2>4. QED
    BY <2>2, <2>3, SetBecomes DEF SameIdentity, SameCalls
<1>3. QED
  BY <1>1, <1>2

LEMMA DeliverFields ==
  ASSUME LoopTypeOK, NEW r \in Requests, Delivers(r)
  PROVE  Ended(r) /\ req[r].pc = "remember"
<1>1. req[r].pc = "remember" /\ (Set(r, Over(r, "done")) \/ Fails(r))
  BY DEF Delivers, OpenAIDelivers, GoogleDelivers
<1>2. QED
  BY <1>1, OverFields, FailsFields

LEMMA TimeoutFields ==
  ASSUME LoopTypeOK, NEW r \in Requests, TimesOut(r)
  PROVE  Ended(r) /\ req'[r].pc = "failed" /\ req[r].pc \in {"load", "fill", "responder", "rag"}
  BY FailsFields DEF TimesOut

\* Every action of a request is its own.
LEMMA RequestBecomes ==
  ASSUME LoopTyped, NEW r \in Requests,
         RequestStreaming(r) \/ RequestGoes(r) \/ TimesOut(r) \/ SessionEnds(r)
  PROVE  RequestIs(r)
<1>1. LoopTypeOK
  BY DEF LoopTyped
<1>2. CASE RequestStreaming(r) \/ SessionEnds(r) \/ TimesOut(r) \/ Delivers(r)
  BY <1>1, <1>2, BeginFields, GoneFields, TimeoutFields, DeliverFields DEF Ended
<1>3. CASE Loads(r) \/ AsksQuestion(r) \/ KeepsQuestion(r) \/ ChangesPrompt(r)
  BY <1>1, <1>3, LoadFields, PlainFields, AskFields, PromptFields DEF Loads
<1>4. CASE Sends(r) \/ RunsAction(r) \/ SendsOutputs(r)
  BY <1>1, <1>4, SendFields, ToolFields
<1>5. CASE ParsesAnswer(r) \/ GeneratesMedia(r)
  BY <1>1, <1>5, AnswerKept
<1>6. QED
  BY <1>2, <1>3, <1>4, <1>5 DEF RequestGoes

--------------------------------------------------------------------------------
(* Types, and calls and their results                                           *)

\* The steps beside the requests.
Beside == CacheExpires \/ OpenAIFlushes \/ GoogleFlushes \/ Preloads \/ LateReads \/ LateFills
            \/ Saves

LEMMA BesideKeeps == Beside => UNCHANGED <<scene, asked, retries, delivered, prompt, req>>
  BY DEF Beside, CacheExpires, OpenAIFlushes, GoogleFlushes, Preloads, LateReads, LateFills,
     Saves

LEMMA CacheKinds ==
  ASSUME LoopTypeOK
  PROVE  /\ \A h \in History : StoresHistory(h) =>
               cache' \in Cache /\ cache'.there /\ ~cache'.old /\ cache'.msgs = h
         /\ \A h \in History, m \in Message : AddsMessage(h, m) =>
               /\ cache' \in Cache /\ cache'.there /\ ~cache'.old
               /\ cache'.msgs = Trim(Append(h, m))
<1>1. ASSUME NEW h \in History, StoresHistory(h)
      PROVE  cache' \in Cache /\ cache'.there /\ ~cache'.old /\ cache'.msgs = h
  <2> DEFINE new == [there |-> TRUE, old |-> FALSE, msgs |-> h]
  <2>1. cache' = new
    BY <1>1 DEF StoresHistory, OpenAIStoresMessages, GoogleStoresContents
  <2>2. new \in Cache
    BY DEF Cache
  <2>3. new.there /\ ~new.old /\ new.msgs = h
    OBVIOUS
  <2>4. QED
    BY <2>1, <2>2, <2>3
<1>2. ASSUME NEW h \in History, NEW m \in Message, AddsMessage(h, m)
      PROVE  StoresHistory(Trim(Append(h, m)))
  BY <1>2 DEF AddsMessage, OpenAIAdds, GoogleAdds, StoresHistory
<1>3. \A h \in History, m \in Message : Trim(Append(h, m)) \in History
  BY Trims, Words
<1>4. QED
  BY <1>1, <1>2, <1>3

\* What an action of a request does to what requests share.
LEMMA SharedStep ==
  ASSUME NEW r \in Requests,
         RequestStreaming(r) \/ RequestGoes(r) \/ TimesOut(r) \/ SessionEnds(r)
  PROVE  /\ UNCHANGED <<scene, stored>>
         /\ UNCHANGED late \/ TimesOut(r)
         /\ UNCHANGED <<asked, retries>> \/ RequestStreaming(r)
         /\ UNCHANGED prompt \/ ChangesPrompt(r) \/ Sends(r)
         /\ UNCHANGED delivered \/ Delivers(r)
         /\ \/ UNCHANGED cache
            \/ LoadsHistory(r) /\ OpenAI /\ cache.old /\ cache' = NoCache
            \/ FillsCache(r) /\ StoresHistory(req[r].history)
            \/ KeepsQuestion(r) /\ AddsMessage(req[r].slice, By("user", req[r].q))
            \/ Delivers(r) /\ AddsMessage(req[r].slice, By("model", req[r].q))
<1>1. CASE RequestStreaming(r) \/ TimesOut(r) \/ SessionEnds(r)
  BY <1>1 DEF RequestStreaming, TimesOut, SessionEnds
<1>2. CASE LoadsHistory(r) \/ FillsCache(r) \/ FindsResponder(r) \/ AppliesRAG(r)
  BY <1>2 DEF LoadsHistory, FillsCache, FindsResponder, AppliesRAG
<1>3. CASE AsksQuestion(r) \/ KeepsQuestion(r) \/ ChangesPrompt(r) \/ Sends(r)
  BY <1>3 DEF AsksQuestion, KeepsQuestion, ChangesPrompt, Sends
<1>4. CASE RunsAction(r) \/ SendsOutputs(r) \/ ParsesAnswer(r) \/ GeneratesMedia(r) \/ Delivers(r)
  BY <1>4 DEF RunsAction, SendsOutputs, ParsesAnswer, GeneratesMedia, Delivers
<1>5. QED
  BY <1>1, <1>2, <1>3, <1>4 DEF RequestGoes, Loads

LEMMA RequestTypes ==
  ASSUME LoopTyped, NEW r \in Requests,
         RequestStreaming(r) \/ RequestGoes(r) \/ TimesOut(r) \/ SessionEnds(r)
  PROVE  LoopTypeOK'
<1>a. /\ req \in [Requests -> Request] /\ req[r] \in Request /\ LoopTypeOK
      /\ req[r].history \in History /\ req[r].slice \in History
      /\ req[r].q \in 0 .. MaxQuestions /\ req[r].original \in 0 .. MaxQuestions
  BY DEF LoopTyped, LoopTypeOK, Request
<1>1. req' \in [Requests -> Request]
  BY <1>a, RequestBecomes DEF RequestIs
<1>2. cache' \in Cache
  BY <1>a, SharedStep, CacheKinds, Words DEF LoopTypeOK
<1>3. late' \in Seq(Late)
  <2>1. CASE UNCHANGED late
    BY <2>1, <1>a DEF LoopTypeOK
  <2>2. CASE TimesOut(r)
    <3> DEFINE one == [read |-> req[r].pc = "fill", history |-> req[r].history]
    <3>1. one \in Late
      BY <1>a DEF Late
    <3>2. late' = <<one>> \/ late' = late
      BY <2>2 DEF TimesOut
    <3> HIDE DEF one
    <3>3. <<one>> \in Seq(Late) /\ late \in Seq(Late)
      BY <3>1, <1>a DEF LoopTypeOK
    <3>4. QED
      BY <3>2, <3>3
  <2>3. QED
    BY <2>1, <2>2, SharedStep
<1>4. asked' \in 0 .. MaxQuestions /\ retries' \in 0 .. MaxRetries
  <2>1. CASE UNCHANGED <<asked, retries>>
    BY <2>1, <1>a DEF LoopTypeOK
  <2>2. CASE RequestStreaming(r)
    BY <2>2, <1>a, LoopAssumption DEF RequestStreaming, LoopTypeOK
  <2>3. QED
    BY <2>1, <2>2, SharedStep
<1>5. prompt' \in 0 .. MaxQuestions
  BY <1>a, SharedStep, SendFields, PromptFields DEF LoopTypeOK
<1>6. delivered' \in Seq(0 .. MaxQuestions)
  <2>1. CASE UNCHANGED delivered
    BY <2>1, <1>a DEF LoopTypeOK
  <2>2. CASE Delivers(r)
    <3>1. delivered' = delivered \/ delivered' = Append(delivered, req[r].q)
      BY <2>2 DEF Delivers
    <3>2. delivered \in Seq(0 .. MaxQuestions) /\ req[r].q \in 0 .. MaxQuestions
      BY <1>a DEF LoopTypeOK
    <3>3. \A S, d, x : d \in Seq(S) /\ x \in S => Append(d, x) \in Seq(S)
      OBVIOUS
    <3>4. QED
      BY <3>1, <3>2, <3>3
  <2>3. QED
    BY <2>1, <2>2, SharedStep
<1>7. scene' \in LoopSetups /\ stored' \in History
  BY <1>a, SharedStep DEF LoopTypeOK
<1>8. QED
  BY <1>1, <1>2, <1>3, <1>4, <1>5, <1>6, <1>7 DEF LoopTypeOK

LEMMA BesideTypes == LoopTypeOK /\ Beside => LoopTypeOK'
<1> SUFFICES ASSUME LoopTypeOK, Beside PROVE LoopTypeOK'
  OBVIOUS
<1>a. /\ cache \in Cache /\ NoCache \in Cache /\ late \in Seq(Late) /\ stored \in History
      /\ delivered \in Seq(0 .. MaxQuestions)
  BY Words DEF LoopTypeOK
<1>1. cache' \in Cache
  <2>1. [cache EXCEPT !.old = TRUE] \in Cache
    BY <1>a DEF Cache
  <2>2. late # <<>> => late[1].history \in History
    <3>1. late # <<>> => late[1] \in Late
      BY <1>a
    <3>2. QED
      BY <3>1 DEF Late
  <2>3. ~LateFills => cache' \in {cache, NoCache, [cache EXCEPT !.old = TRUE]}
    BY DEF Beside, CacheExpires, OpenAIFlushes, GoogleFlushes, Preloads, LateReads, Saves
  <2>4. LateFills => late # <<>> /\ StoresHistory(late[1].history)
    BY DEF LateFills
  <2>5. QED
    BY <2>1, <2>2, <2>3, <2>4, <1>a, CacheKinds
<1>2. late' \in Seq(Late)
  <2> DEFINE one(b, h) == [read |-> b, history |-> h]
  <2>1. \A b \in BOOLEAN, h \in History : one(b, h) \in Late
    BY DEF Late
  <2>2. <<>> \in History /\ \A h \in DbHistory : h \in History
    BY HistoriesOfDb, Words
  <2>3. \/ late' = late \/ late' = <<>>
        \/ \E b \in BOOLEAN, h \in History : late' = <<one(b, h)>>
    BY <2>2 DEF Beside, CacheExpires, OpenAIFlushes, GoogleFlushes, Preloads, LateReads,
       LateFills, Saves
  <2> HIDE DEF one
  <2>4. \A x \in Late : <<x>> \in Seq(Late)
    OBVIOUS
  <2>5. <<>> \in Seq(Late)
    OBVIOUS
  <2>6. QED
    BY <2>1, <2>3, <2>4, <2>5, <1>a
<1>3. stored' \in History
  <2>1. CASE Saves
    <3> DEFINE n == Len(stored) \div 2 + 1
    <3>1. n \in 1 .. Len(delivered)
      <4>1. Len(stored) \in Nat /\ Len(delivered) \in Nat /\ Len(stored) < 2 * Len(delivered)
        BY <2>1, <1>a DEF Saves, History
      <4>2. \A x, y \in Nat : x < 2 * y => x \div 2 + 1 \in 1 .. y
        OBVIOUS
      <4>3. QED
        BY <4>1, <4>2
    <3>2. stored' = stored \o <<By("user", delivered[n]), By("model", delivered[n])>>
      BY <2>1 DEF Saves
    <3> HIDE DEF n
    <3> DEFINE known == 0 .. MaxQuestions
    <3>3. delivered[n] \in 0 .. MaxQuestions
      <4>1. delivered \in Seq(known)
        BY <1>a
      <4> HIDE DEF known
      <4>2. \A i \in 1 .. Len(delivered) : delivered[i] \in known
        BY <4>1
      <4>3. QED
        BY <4>2, <3>1 DEF known
    <3> HIDE DEF known
    <3>4. By("user", delivered[n]) \in Message /\ By("model", delivered[n]) \in Message
      BY <3>3, Words
    <3>5. QED
      BY <3>2, <3>4, <1>a DEF History
  <2>2. CASE ~Saves
    BY <2>2, <1>a DEF Beside, CacheExpires, OpenAIFlushes, GoogleFlushes, Preloads, LateReads,
       LateFills
  <2>3. QED
    BY <2>1, <2>2
<1>4. QED
  BY <1>1, <1>2, <1>3, BesideKeeps DEF LoopTypeOK

LEMMA LoopActs ==
  LoopNext => \/ \E r \in Requests : RequestStreaming(r) \/ RequestGoes(r) \/ TimesOut(r)
                                       \/ SessionEnds(r)
              \/ Beside
  BY DEF LoopNext, Beside

LEMMA LoopTypedKept == LoopTyped /\ [LoopNext]_loopvars => LoopTyped'
<1> SUFFICES ASSUME LoopTyped, [LoopNext]_loopvars PROVE LoopTyped'
  OBVIOUS
<1>a. LoopTypeOK
  BY DEF LoopTyped
<1>1. ASSUME NEW r \in Requests,
             RequestStreaming(r) \/ RequestGoes(r) \/ TimesOut(r) \/ SessionEnds(r)
      PROVE  LoopTyped'
  <2>1. LoopTypeOK' /\ RequestIs(r)
    BY <1>1, RequestTypes, RequestBecomes
  <2>2. req'[r].pc = "tools" => req'[r].depth < MaxDepth
    <3>1. CASE RequestStreaming(r) \/ TimesOut(r) \/ Delivers(r) \/ Loads(r) \/ AsksQuestion(r)
                 \/ KeepsQuestion(r) \/ ChangesPrompt(r) \/ ParsesAnswer(r) \/ GeneratesMedia(r)
      <4>1. CASE RequestStreaming(r) \/ TimesOut(r) \/ Delivers(r)
        BY <4>1, <1>a, BeginFields, TimeoutFields, DeliverFields DEF Ended
      <4>2. CASE LoadsHistory(r) \/ AsksQuestion(r) \/ ChangesPrompt(r)
        BY <4>2, <1>a, LoadFields, AskFields, PromptFields
      <4>3. CASE FillsCache(r) \/ FindsResponder(r) \/ AppliesRAG(r) \/ KeepsQuestion(r)
        BY <4>3, <1>a, PlainFields
      <4>4. CASE ParsesAnswer(r) \/ GeneratesMedia(r)
        BY <4>4, <1>a, AnswerKept
      <4>5. QED
        BY <3>1, <4>1, <4>2, <4>3, <4>4 DEF Loads
    <3>2. CASE Sends(r)
      BY <3>2, <1>a, SendFields
    <3>3. CASE RunsAction(r) \/ SendsOutputs(r)
      BY <3>3, ToolFields DEF LoopTyped
    <3>4. CASE SessionEnds(r)
      BY <3>4, <1>a, GoneFields DEF LoopTyped, SameIdentity
    <3>5. QED
      BY <1>1, <3>1, <3>2, <3>3, <3>4 DEF RequestGoes
  <2>3. QED
    BY <2>1, <2>2 DEF LoopTyped, LoopTypeOK, RequestIs
<1>2. CASE Beside
  BY <1>2, <1>a, BesideTypes, BesideKeeps DEF LoopTyped
<1>3. CASE UNCHANGED loopvars
  BY <1>3 DEF loopvars, LoopTyped, LoopTypeOK
<1>4. QED
  BY <1>1, <1>2, <1>3, LoopActs

LEMMA LoopTypedFirst == LoopInit => LoopTyped
<1> SUFFICES ASSUME LoopInit PROVE LoopTyped
  OBVIOUS
<1>1. 0 \in 0 .. MaxQuestions /\ 0 \in 0 .. MaxRetries
  BY LoopAssumption
<1>2. <<By("user", 0), By("model", 0)>> \in History
  BY <1>1, Words DEF History
<1>3. stored \in History
  BY <1>2, Words DEF LoopInit
<1>4. delivered \in Seq(0 .. MaxQuestions) /\ late \in Seq(Late)
  <2>1. <<0>> \in Seq(0 .. MaxQuestions) /\ <<>> \in Seq(0 .. MaxQuestions)
        /\ <<>> \in Seq(Late)
    BY <1>1
  <2>2. QED
    BY <2>1 DEF LoopInit
<1>5. QED
  BY <1>1, <1>3, <1>4, Words DEF LoopInit, LoopTyped, LoopTypeOK, NoRequest

LEMMA LoopTypedAlways == LoopSpec => []LoopTyped
  BY LoopTypedFirst, LoopTypedKept, PTL DEF LoopSpec

(* The variables of the request loop keep their types; rounds of functions stay  *)
(* within maxToolCallDepth at either provider: OpenAI refuses the request of a   *)
(* round too many, and Gemini's second answer may not call for functions.        *)
THEOREM LoopTypeCorrect == LoopSpec => []LoopTypeOK
  BY LoopTypedAlways, PTL DEF LoopTyped

--------------------------------------------------------------------------------
(* Calls and their results                                                      *)

LEMMA CallsOfRequest ==
  ASSUME LoopTyped, CallsMatch, NEW r \in Requests,
         RequestStreaming(r) \/ RequestGoes(r) \/ TimesOut(r) \/ SessionEnds(r)
  PROVE  req'[r].pc # "tools" => req'[r].calls = req'[r].outputs
<1>a. LoopTypeOK /\ (req[r].pc # "tools" => req[r].calls = req[r].outputs)
  BY DEF LoopTyped, CallsMatch
<1>1. CASE RequestStreaming(r) \/ TimesOut(r) \/ Delivers(r)
  BY <1>1, <1>a, BeginFields, TimeoutFields, DeliverFields DEF Ended, Fresh
<1>2. CASE LoadsHistory(r) \/ AsksQuestion(r) \/ ChangesPrompt(r)
  BY <1>2, <1>a, LoadFields, AskFields, PromptFields DEF Ended, Fresh, SameCalls
<1>3. CASE FillsCache(r) \/ FindsResponder(r) \/ AppliesRAG(r) \/ KeepsQuestion(r)
  BY <1>3, <1>a, PlainFields DEF Ended, Fresh, SameCalls
<1>4. CASE Sends(r)
  BY <1>4, <1>a, SendFields DEF Ended, Fresh, SameCalls
<1>5. CASE RunsAction(r) \/ SendsOutputs(r)
  BY <1>5, ToolFields DEF SameCalls
<1>6. CASE ParsesAnswer(r) \/ GeneratesMedia(r)
  BY <1>6, <1>a, AnswerKept DEF SameCalls
<1>7. CASE SessionEnds(r)
  BY <1>7, <1>a, GoneFields DEF SameCalls
<1>8. QED
  BY <1>1, <1>2, <1>3, <1>4, <1>5, <1>6, <1>7 DEF RequestGoes, Loads

LEMMA CallsMatchKept == LoopTyped /\ CallsMatch /\ [LoopNext]_loopvars => CallsMatch'
<1> SUFFICES ASSUME LoopTyped, CallsMatch, [LoopNext]_loopvars PROVE CallsMatch'
  OBVIOUS
<1>1. ASSUME NEW r \in Requests,
             RequestStreaming(r) \/ RequestGoes(r) \/ TimesOut(r) \/ SessionEnds(r)
      PROVE  CallsMatch'
  <2>1. RequestIs(r) /\ (req'[r].pc # "tools" => req'[r].calls = req'[r].outputs)
    BY <1>1, RequestBecomes, CallsOfRequest
  <2>2. QED
    BY <2>1 DEF CallsMatch, RequestIs, LoopTyped, LoopTypeOK
<1>2. CASE Beside
  BY <1>2, BesideKeeps DEF CallsMatch
<1>3. CASE UNCHANGED loopvars
  BY <1>3 DEF loopvars, CallsMatch
<1>4. QED
  BY <1>1, <1>2, <1>3, LoopActs

(* At either provider, with any number of requests, rounds and calls, the model  *)
(* is asked to go on only when every function it called has its result.          *)
THEOREM CallsHaveResults == LoopSpec => []CallsAnswered
<1>1. LoopInit => CallsMatch
  BY DEF LoopInit, NoRequest, CallsMatch
<1>2. CallsMatch => CallsAnswered
  BY DEF CallsMatch, CallsAnswered
<1>3. QED
  BY <1>1, <1>2, LoopTypedAlways, CallsMatchKept, PTL DEF LoopSpec

--------------------------------------------------------------------------------
(* A request comes nearer to its end                                            *)

LEMMA RoundsFall ==
  ASSUME NEW d \in 0 .. MaxDepth
  PROVE  /\ RoundsLeft(d) \in Nat /\ RoundsLeft(d) <= RoundsLeft(0)
         /\ d < MaxDepth => RoundsLeft(d) = RoundsLeft(d + 1) + MaxCalls + MaxQuota + 2
<1> DEFINE size == MaxCalls + MaxQuota + 2
<1>1. /\ MaxDepth \in Nat /\ d \in Nat /\ d <= MaxDepth /\ MaxCalls \in Nat /\ MaxQuota \in Nat
      /\ size \in Nat /\ size = MaxCalls + MaxQuota + 2
  BY LoopAssumption
<1>2. RoundsLeft(d) = (MaxDepth - d) * size /\ RoundsLeft(d + 1) = (MaxDepth - (d + 1)) * size
      /\ RoundsLeft(0) = MaxDepth * size
  BY <1>1 DEF RoundsLeft
<1> HIDE DEF size
<1>3. \A m, n \in Nat : m * n \in Nat
  OBVIOUS
<1>4. (MaxDepth - d) * size \in Nat /\ d * size \in Nat
  BY <1>1, <1>3
<1>5. MaxDepth * size = (MaxDepth - d) * size + d * size
      /\ (MaxDepth - d) * size = (MaxDepth - (d + 1)) * size + size
  BY <1>1
<1>6. QED
  BY <1>1, <1>2, <1>4, <1>5

\* How far a request is from its end at each of its steps.
LEMMA LeftOf ==
  ASSUME NEW k \in Request
  PROVE  /\ k.pc = "load" => RequestLeft(k) = RoundsLeft(0) + MaxQuota + 11
         /\ k.pc = "fill" => RequestLeft(k) = RoundsLeft(0) + MaxQuota + 10
         /\ k.pc = "responder" => RequestLeft(k) = RoundsLeft(0) + MaxQuota + 9
         /\ k.pc = "rag" => RequestLeft(k) = RoundsLeft(0) + MaxQuota + 8
         /\ k.pc = "question" => RequestLeft(k) = RoundsLeft(0) + MaxQuota + 7
         /\ k.pc = "keep" => RequestLeft(k) = RoundsLeft(0) + MaxQuota + 6
         /\ k.pc = "prompt" => RequestLeft(k) = RoundsLeft(0) + MaxQuota + 5
         /\ k.pc = "send" => /\ RequestLeft(k) = RoundsLeft(k.depth) + (MaxQuota - k.quota) + 4
                             /\ RequestLeft(k) \in Nat /\ RequestLeft(k) >= 4
                             /\ RequestLeft(k) <= RoundsLeft(0) + MaxQuota + 4
         /\ k.pc = "tools" => RequestLeft(k) = RoundsLeft(k.depth + 1) + MaxQuota + 5 + (k.calls - k.outputs)
         /\ k.pc = "answer" => RequestLeft(k) = 3
         /\ k.pc = "media" => RequestLeft(k) = 2
         /\ k.pc = "remember" => RequestLeft(k) = 1
         /\ k.pc \in {"idle", "done", "failed"} => RequestLeft(k) = 0
         /\ RoundsLeft(0) \in Nat /\ MaxQuota \in Nat
<1>1. k.depth \in 0 .. MaxDepth /\ k.quota \in 0 .. MaxQuota /\ MaxQuota \in Nat /\ 0 \in 0 .. MaxDepth
  BY LoopAssumption DEF Request
<1>2. RoundsLeft(0) \in Nat /\ RoundsLeft(k.depth) \in Nat /\ RoundsLeft(k.depth) <= RoundsLeft(0)
  BY <1>1, RoundsFall
<1>3. k.pc = "send" => RequestLeft(k) = RoundsLeft(k.depth) + (MaxQuota - k.quota) + 4
  BY DEF RequestLeft, Preparing
<1>4. k.pc = "tools" => RequestLeft(k) = RoundsLeft(k.depth + 1) + MaxQuota + 5 + (k.calls - k.outputs)
  BY DEF RequestLeft, Waiting, Preparing
<1>5. /\ k.pc = "answer" => RequestLeft(k) = 3
      /\ k.pc = "media" => RequestLeft(k) = 2
      /\ k.pc = "remember" => RequestLeft(k) = 1
      /\ k.pc \in {"idle", "done", "failed"} => RequestLeft(k) = 0
  BY DEF RequestLeft, Preparing
<1>6. \A pc \in DOMAIN Preparing : k.pc = pc => RequestLeft(k) = RoundsLeft(0) + MaxQuota + 4 + Preparing[pc]
  BY DEF RequestLeft, Preparing
<1>7. /\ DOMAIN Preparing = {"load", "fill", "responder", "rag", "question", "keep", "prompt"}
      /\ Preparing["load"] = 7 /\ Preparing["fill"] = 6 /\ Preparing["responder"] = 5 /\ Preparing["rag"] = 4
      /\ Preparing["question"] = 3 /\ Preparing["keep"] = 2 /\ Preparing["prompt"] = 1
  BY DEF Preparing
<1>8. \A n \in 1 .. 7 : RoundsLeft(0) + MaxQuota + 4 + n = RoundsLeft(0) + MaxQuota + (4 + n)
  BY <1>1, <1>2
<1>9. k.pc = "send" => /\ RequestLeft(k) \in Nat /\ RequestLeft(k) >= 4
                       /\ RequestLeft(k) <= RoundsLeft(0) + MaxQuota + 4
  BY <1>1, <1>2, <1>3
<1>10. /\ k.pc = "load" => RequestLeft(k) = RoundsLeft(0) + MaxQuota + 11
       /\ k.pc = "fill" => RequestLeft(k) = RoundsLeft(0) + MaxQuota + 10
       /\ k.pc = "responder" => RequestLeft(k) = RoundsLeft(0) + MaxQuota + 9
       /\ k.pc = "rag" => RequestLeft(k) = RoundsLeft(0) + MaxQuota + 8
       /\ k.pc = "question" => RequestLeft(k) = RoundsLeft(0) + MaxQuota + 7
       /\ k.pc = "keep" => RequestLeft(k) = RoundsLeft(0) + MaxQuota + 6
       /\ k.pc = "prompt" => RequestLeft(k) = RoundsLeft(0) + MaxQuota + 5
  BY <1>6, <1>7, <1>8
<1>11. QED
  BY <1>1, <1>2, <1>3, <1>4, <1>5, <1>9, <1>10

\* Answers(r, text) and CallsFor(r, n), whatever the instructions carried.
LEMMA CallsCounted ==
  ASSUME LoopTypeOK, NEW r \in Requests, NEW n \in Nat, NEW carried \in 0 .. MaxQuestions,
         \/ Set(r, CallsFor(r, n))
         \/ Set(r, [CallsFor(r, n) EXCEPT !.carried = carried])
  PROVE  /\ req'[r].pc = "tools" /\ req'[r].depth = req[r].depth /\ req'[r].quota = req[r].quota
         /\ req'[r].outputs = req[r].outputs /\ req'[r].calls = req[r].calls + n
<1> DEFINE sum == req[r].calls + n
           k == [[req[r] EXCEPT !.pc = "tools"] EXCEPT !.calls = sum]
           c == [k EXCEPT !.carried = carried]
<1>1. req[r] \in Request /\ sum \in Nat /\ req \in [Requests -> Request]
  <2>1. req \in [Requests -> Request]
    BY DEF LoopTypeOK
  <2>2. req[r] \in Request
    BY <2>1
  <2>3. req[r].calls \in Nat
    BY <2>2 DEF Request
  <2>4. QED
    BY <2>1, <2>2, <2>3
<1>2. CallsFor(r, n) = k
  BY DEF CallsFor, To
<1> HIDE DEF sum
<1>3. /\ k.pc = "tools" /\ k.depth = req[r].depth /\ k.quota = req[r].quota
      /\ k.outputs = req[r].outputs /\ k.calls = sum
      /\ c.pc = "tools" /\ c.depth = req[r].depth /\ c.quota = req[r].quota
      /\ c.outputs = req[r].outputs /\ c.calls = sum
  BY <1>1 DEF Request
<1>4. req' = [req EXCEPT ![r] = k] \/ req' = [req EXCEPT ![r] = c]
  BY <1>2 DEF Set
<1> HIDE DEF k, c
<1>5. req'[r] = k \/ req'[r] = c
  BY <1>1, <1>4
<1>6. QED
  BY <1>3, <1>5 DEF sum

LEMMA TriesCounted ==
  ASSUME LoopTypeOK, NEW r \in Requests, GeminiTriesAgain(r)
  PROVE  req'[r].pc = req[r].pc /\ req'[r].depth = req[r].depth /\ req'[r].quota = req[r].quota + 1
<1> DEFINE more == req[r].quota + 1
           k == [req[r] EXCEPT !.quota = more]
<1>1. req[r] \in Request /\ req \in [Requests -> Request]
  BY DEF LoopTypeOK
<1>2. req' = [req EXCEPT ![r] = k]
  BY DEF GeminiTriesAgain, Set
<1> HIDE DEF more
<1>3. k.pc = req[r].pc /\ k.depth = req[r].depth /\ k.quota = more
  BY <1>1 DEF Request
<1> HIDE DEF k
<1>4. QED
  BY <1>1, <1>2, <1>3 DEF more

LEMMA RepliesCounted ==
  /\ \A reply \in GeminiReplies : reply.calls \in 0 .. MaxCalls
  /\ OpenAIReplies \subseteq GeminiReplies
  BY LoopAssumption DEF GeminiReplies, OpenAIReplies, Says

LEMMA SendCounts ==
  ASSUME LoopTypeOK, NEW r \in Requests, Sends(r)
  PROVE  \/ req'[r].pc \in {"failed", "answer"}
         \/ /\ req'[r].pc = "tools" /\ req'[r].depth = req[r].depth /\ req'[r].quota = req[r].quota
            /\ req'[r].outputs = req[r].outputs
            /\ \E n \in 0 .. MaxCalls : req'[r].calls = req[r].calls + n
         \/ req'[r].pc = "send" /\ req'[r].depth = req[r].depth /\ req'[r].quota = req[r].quota + 1
<1> DEFINE Result ==
             \/ req'[r].pc \in {"failed", "answer"}
             \/ /\ req'[r].pc = "tools" /\ req'[r].depth = req[r].depth /\ req'[r].quota = req[r].quota
                /\ req'[r].outputs = req[r].outputs
                /\ \E n \in 0 .. MaxCalls : req'[r].calls = req[r].calls + n
             \/ req'[r].pc = "send" /\ req'[r].depth = req[r].depth /\ req'[r].quota = req[r].quota + 1
<1>1. req[r].pc = "send" /\ prompt \in 0 .. MaxQuestions /\ 0 \in 0 .. MaxQuestions
  BY LoopAssumption DEF Sends, LoopTypeOK
<1>2. Fails(r) => Result
  BY FailsFields
<1>3. ASSUME NEW text \in {"none", "text"}, NEW carried \in 0 .. MaxQuestions,
             Set(r, [Answers(r, text) EXCEPT !.carried = carried]) \/ Set(r, Answers(r, text))
      PROVE  Result
  <2> DEFINE k == Answers(r, text)
             c == [k EXCEPT !.carried = carried]
  <2>1. req[r] \in Request
    BY DEF LoopTypeOK
  <2>2. k \in Request /\ k.pc = "answer" /\ c \in Request /\ c.pc = "answer"
    BY <2>1 DEF Answers, To, Request
  <2>3. Set(r, c) \/ Set(r, k)
    BY <1>3
  <2> HIDE DEF k, c
  <2>4. QED
    BY <2>2, <2>3, SetBecomes
<1>4. ASSUME NEW reply \in GeminiReplies, NEW carried \in 0 .. MaxQuestions,
             Set(r, CallsFor(r, reply.calls)) \/ Set(r, [CallsFor(r, reply.calls) EXCEPT !.carried = carried])
      PROVE  Result
  <2>1. reply.calls \in 0 .. MaxCalls /\ reply.calls \in Nat
    BY RepliesCounted, LoopAssumption
  <2>2. QED
    BY <1>4, <2>1, CallsCounted
<1>5. GeminiTriesAgain(r) => Result
  BY <1>1, TriesCounted
<1> HIDE DEF Result
<1>6. ASSUME OpenAI, NEW reply \in OpenAIReplies, createResponseInternal(r, reply) PROVE Result
  <2>1. OpenAIBuilds(r).carried = prompt
    <3>1. req[r] \in Request
      BY DEF LoopTypeOK
    <3>2. QED
      BY <3>1 DEF OpenAIBuilds, Request
  <2>2. \/ Fails(r)
        \/ \E text \in {"none", "text"} : Set(r, [Answers(r, text) EXCEPT !.carried = prompt])
        \/ Set(r, [CallsFor(r, reply.calls) EXCEPT !.carried = prompt])
    BY <1>6, <2>1 DEF createResponseInternal, OpenAIRefuses, OpenAIStreams
  <2>3. reply \in GeminiReplies
    BY RepliesCounted
  <2>4. QED
    BY <1>1, <1>2, <1>3, <1>4, <2>2, <2>3
<1>7. ASSUME NEW reply \in GeminiReplies, sendToGeminiAPIStreaming(r, reply) PROVE Result
  <2>1. \/ Fails(r) \/ GeminiTriesAgain(r)
        \/ \E text \in {"none", "text"} : Set(r, Answers(r, text))
        \/ Set(r, CallsFor(r, reply.calls))
    BY <1>7 DEF sendToGeminiAPIStreaming, GeminiRefuses, GeminiAnswers
  <2>2. QED
    BY <1>1, <1>2, <1>3, <1>4, <1>5, <2>1
<1>8. Result
  BY <1>6, <1>7 DEF Sends
<1>9. QED
  BY <1>8 DEF Result

LEMMA ToolsCount ==
  ASSUME LoopTyped, NEW r \in Requests, RunsAction(r) \/ SendsOutputs(r)
  PROVE  /\ req[r].pc = "tools" /\ req'[r].quota \in {req[r].quota, 0}
         /\ \/ /\ req'[r].pc = "tools" /\ req'[r].depth = req[r].depth /\ req'[r].calls = req[r].calls
               /\ req'[r].outputs = req[r].outputs + 1 /\ req[r].outputs < req[r].calls
            \/ req'[r].pc = "send" /\ req'[r].depth = req[r].depth + 1 /\ req[r].calls = req[r].outputs
<1>1. req[r].pc = "tools" /\ req[r] \in Request /\ req \in [Requests -> Request]
  BY DEF RunsAction, SendsOutputs, LoopTyped, LoopTypeOK
<1>2. CASE RunsAction(r)
  <2> DEFINE more == req[r].outputs + 1
             k == [req[r] EXCEPT !.outputs = more]
  <2>1. req' = [req EXCEPT ![r] = k] /\ req[r].outputs < req[r].calls
    BY <1>2 DEF RunsAction, OpenAIRuns, GoogleRuns, callMCP, Set
  <2> HIDE DEF more
  <2>2. k.pc = req[r].pc /\ k.depth = req[r].depth /\ k.calls = req[r].calls /\ k.quota = req[r].quota /\ k.outputs = more
    BY <1>1 DEF Request
  <2> HIDE DEF k
  <2>3. QED
    BY <1>1, <2>1, <2>2 DEF more
<1>3. CASE SendsOutputs(r)
  <2> DEFINE deeper == req[r].depth + 1
             tries == IF OpenAI THEN req[r].quota ELSE 0
             k == [[req[r] EXCEPT !.pc = "send"] EXCEPT !.depth = deeper, !.quota = tries]
  <2>0. IF OpenAI THEN [To(r, "send") EXCEPT !.depth = @ + 1] = k
                  ELSE [To(r, "send") EXCEPT !.depth = @ + 1, !.quota = 0] = k
    BY <1>1 DEF To, Request
  <2>1. req' = [req EXCEPT ![r] = k] /\ req[r].calls = req[r].outputs
    BY <1>3, <2>0 DEF SendsOutputs, OpenAIContinues, GoogleContinues, Set
  <2>3. tries \in {req[r].quota, 0}
    OBVIOUS
  <2> HIDE DEF deeper, tries
  <2>2. k.pc = "send" /\ k.depth = deeper /\ k.quota = tries
    BY <1>1 DEF Request
  <2> HIDE DEF k
  <2>4. QED
    BY <1>1, <2>1, <2>2, <2>3 DEF deeper
<1>4. QED
  BY <1>2, <1>3

LEMMA SendNears ==
  ASSUME LoopTyped, LoopTyped', CallsMatch, NEW r \in Requests, Sends(r)
  PROVE  RequestLeft(req'[r]) \in 0 .. RequestLeft(req[r]) - 1
<1> DEFINE k == req[r]
           n == req'[r]
<1>1. k \in Request /\ n \in Request /\ k.pc = "send" /\ k.calls = k.outputs
  BY DEF LoopTyped, LoopTypeOK, CallsMatch, Sends
<1>2. /\ RequestLeft(k) = RoundsLeft(k.depth) + (MaxQuota - k.quota) + 4
      /\ RequestLeft(k) \in Nat /\ RequestLeft(k) >= 4
  BY <1>1, LeftOf
<1>3. /\ k.depth \in 0 .. MaxDepth /\ k.quota \in 0 .. MaxQuota /\ n.quota \in 0 .. MaxQuota
      /\ k.calls \in Nat /\ k.outputs \in Nat /\ MaxQuota \in Nat /\ MaxDepth \in Nat /\ MaxCalls \in Nat
  BY <1>1, LoopAssumption DEF Request
<1>4. RoundsLeft(k.depth) \in Nat
  BY <1>3, RoundsFall
<1>5. CASE n.pc \in {"failed", "answer"}
  <2>1. RequestLeft(n) \in {0, 3}
    BY <1>1, <1>5, LeftOf
  <2>2. QED
    BY <1>2, <2>1
<1>6. CASE n.pc = "send" /\ n.depth = k.depth /\ n.quota = k.quota + 1
  <2>1. RequestLeft(n) = RoundsLeft(k.depth) + (MaxQuota - (k.quota + 1)) + 4 /\ RequestLeft(n) \in Nat
    BY <1>1, <1>6, LeftOf
  <2>2. RequestLeft(n) = RequestLeft(k) - 1
    BY <1>2, <1>3, <1>4, <2>1
  <2>3. QED
    BY <1>2, <2>1, <2>2
<1>7. CASE /\ n.pc = "tools" /\ n.depth = k.depth /\ n.quota = k.quota /\ n.outputs = k.outputs
           /\ \E c \in 0 .. MaxCalls : n.calls = k.calls + c
  <2>1. PICK c \in 0 .. MaxCalls : n.calls = k.calls + c
    BY <1>7
  <2>2. n.calls - n.outputs = c
    BY <1>1, <1>3, <1>7, <2>1
  <2>3. n.depth < MaxDepth
    BY <1>7 DEF LoopTyped
  <2>4. /\ RoundsLeft(k.depth) = RoundsLeft(k.depth + 1) + MaxCalls + MaxQuota + 2
        /\ RoundsLeft(k.depth + 1) \in Nat
    <3>1. k.depth < MaxDepth /\ k.depth + 1 \in 0 .. MaxDepth
      BY <1>3, <1>7, <2>3
    <3>2. QED
      BY <1>3, <3>1, RoundsFall
  <2>5. RequestLeft(n) = RoundsLeft(k.depth + 1) + MaxQuota + 5 + c
    BY <1>1, <1>7, <2>2, LeftOf
  <2>6. QED
    BY <1>2, <1>3, <2>1, <2>4, <2>5
<1>8. QED
  <2>1. LoopTypeOK
    BY DEF LoopTyped
  <2>2. QED
    BY <1>5, <1>6, <1>7, <2>1, SendCounts

LEMMA ToolsNear ==
  ASSUME LoopTyped, LoopTyped', NEW r \in Requests, RunsAction(r) \/ SendsOutputs(r)
  PROVE  RequestLeft(req'[r]) \in 0 .. RequestLeft(req[r]) - 1
<1> DEFINE k == req[r]
           n == req'[r]
<1>1. k \in Request /\ n \in Request /\ k.pc = "tools" /\ n.quota \in {k.quota, 0} /\ k.depth < MaxDepth
  BY ToolsCount DEF LoopTyped, LoopTypeOK
<1>2. RequestLeft(k) = RoundsLeft(k.depth + 1) + MaxQuota + 5 + (k.calls - k.outputs)
  BY <1>1, LeftOf
<1>3. /\ k.depth \in 0 .. MaxDepth /\ k.quota \in 0 .. MaxQuota
      /\ k.calls \in Nat /\ k.outputs \in Nat /\ MaxQuota \in Nat /\ MaxDepth \in Nat
  BY <1>1, LoopAssumption DEF Request
<1>4. RoundsLeft(k.depth + 1) \in Nat
  <2>1. k.depth + 1 \in 0 .. MaxDepth
    BY <1>1, <1>3
  <2>2. QED
    BY <2>1, RoundsFall
<1>5. CASE n.pc = "tools" /\ n.depth = k.depth /\ n.calls = k.calls /\ n.outputs = k.outputs + 1 /\ k.outputs < k.calls
  <2>1. RequestLeft(n) = RoundsLeft(k.depth + 1) + MaxQuota + 5 + (k.calls - (k.outputs + 1))
    BY <1>1, <1>5, LeftOf
  <2>2. QED
    BY <1>2, <1>3, <1>4, <1>5, <2>1
<1>6. CASE n.pc = "send" /\ n.depth = k.depth + 1 /\ k.calls = k.outputs
  <2>1. RequestLeft(n) = RoundsLeft(k.depth + 1) + (MaxQuota - n.quota) + 4 /\ RequestLeft(n) \in Nat
    BY <1>1, <1>6, LeftOf
  <2>0. n.quota \in 0 .. MaxQuota
    BY <1>1, <1>3
  <2>2. QED
    BY <1>2, <1>3, <1>4, <1>6, <2>0, <2>1
<1>7. QED
  BY <1>5, <1>6, ToolsCount

\* Outside the rounds of functions the place of a request says enough.
Passes(k, n) ==
  \/ k.pc = "load" /\ n.pc \in {"fill", "responder"}
  \/ k.pc = "fill" /\ n.pc = "responder"
  \/ k.pc = "responder" /\ n.pc = "rag"
  \/ k.pc = "rag" /\ n.pc = "question"
  \/ k.pc = "question" /\ n.pc = "keep"
  \/ k.pc = "keep" /\ n.pc \in {"prompt", "send"}
  \/ k.pc = "prompt" /\ n.pc = "send"
  \/ k.pc = "answer" /\ n.pc \in {"media", "remember"}
  \/ k.pc = "media" /\ n.pc = "remember"
  \/ k.pc \in {"load", "fill", "responder", "rag", "remember"} /\ n.pc \in {"failed", "done"}

LEMMA PlacesFall ==
  ASSUME NEW k \in Request, NEW n \in Request, Passes(k, n)
  PROVE  RequestLeft(n) \in 0 .. RequestLeft(k) - 1
<1> DEFINE most == RoundsLeft(0) + MaxQuota
<1>1. most \in Nat
  BY LeftOf
<1>2. /\ k.pc = "load" => RequestLeft(k) = most + 11
      /\ k.pc = "fill" => RequestLeft(k) = most + 10
      /\ k.pc = "responder" => RequestLeft(k) = most + 9
      /\ k.pc = "rag" => RequestLeft(k) = most + 8
      /\ k.pc = "question" => RequestLeft(k) = most + 7
      /\ k.pc = "keep" => RequestLeft(k) = most + 6
      /\ k.pc = "prompt" => RequestLeft(k) = most + 5
      /\ k.pc = "answer" => RequestLeft(k) = 3
      /\ k.pc = "media" => RequestLeft(k) = 2
      /\ k.pc = "remember" => RequestLeft(k) = 1
  BY LeftOf
<1>3. /\ n.pc = "fill" => RequestLeft(n) = most + 10
      /\ n.pc = "responder" => RequestLeft(n) = most + 9
      /\ n.pc = "rag" => RequestLeft(n) = most + 8
      /\ n.pc = "question" => RequestLeft(n) = most + 7
      /\ n.pc = "keep" => RequestLeft(n) = most + 6
      /\ n.pc = "prompt" => RequestLeft(n) = most + 5
      /\ n.pc = "send" => RequestLeft(n) \in Nat /\ RequestLeft(n) <= most + 4
      /\ n.pc = "media" => RequestLeft(n) = 2
      /\ n.pc = "remember" => RequestLeft(n) = 1
      /\ n.pc \in {"failed", "done"} => RequestLeft(n) = 0
  BY LeftOf
<1> HIDE DEF most
<1>4. QED
  BY <1>1, <1>2, <1>3 DEF Passes

LEMMA StepNears ==
  ASSUME LoopTyped, LoopTyped', CallsMatch, NEW r \in Requests, RequestGoes(r) \/ TimesOut(r)
  PROVE  RequestLeft(req'[r]) \in 0 .. RequestLeft(req[r]) - 1
<1> DEFINE k == req[r]
           n == req'[r]
<1>1. k \in Request /\ n \in Request /\ LoopTypeOK
  BY DEF LoopTyped, LoopTypeOK
<1>2. CASE TimesOut(r) \/ Delivers(r)
  <2>1. n.pc \in {"failed", "done"} /\ k.pc \in {"load", "fill", "responder", "rag", "remember"}
    BY <1>1, <1>2, TimeoutFields, DeliverFields DEF Ended
  <2>2. Passes(k, n)
    BY <2>1 DEF Passes
  <2>3. QED
    BY <1>1, <2>2, PlacesFall
<1>3. CASE LoadsHistory(r)
  <2>1. k.pc = "load" /\ n.pc \in {"failed", "responder", "fill"}
    BY <1>1, <1>3, LoadFields
  <2>2. Passes(k, n)
    BY <2>1 DEF Passes
  <2>3. QED
    BY <1>1, <2>2, PlacesFall
<1>4. CASE FillsCache(r) \/ FindsResponder(r) \/ AppliesRAG(r) \/ KeepsQuestion(r)
  <2>1. \/ n.pc = "failed" /\ k.pc \in {"responder", "rag"}
        \/ <<k.pc, n.pc>> \in {<<"fill", "responder">>, <<"responder", "rag">>, <<"rag", "question">>,
                               <<"keep", "prompt">>, <<"keep", "send">>}
    BY <1>1, <1>4, PlainFields
  <2>2. Passes(k, n)
    BY <2>1 DEF Passes
  <2>3. QED
    BY <1>1, <2>2, PlacesFall
<1>5. CASE AsksQuestion(r) \/ ChangesPrompt(r)
  <2>1. AsksQuestion(r) => k.pc = "question" /\ n.pc = "keep"
    BY <1>1, AskFields
  <2>2. ChangesPrompt(r) => k.pc = "prompt" /\ n.pc = "send"
    BY <1>1, PromptFields
  <2>3. Passes(k, n)
    BY <1>5, <2>1, <2>2 DEF Passes
  <2>4. QED
    BY <1>1, <2>3, PlacesFall
<1>6. CASE ParsesAnswer(r) \/ GeneratesMedia(r)
  <2>1. <<k.pc, n.pc>> \in {<<"answer", "remember">>, <<"answer", "media">>, <<"media", "remember">>}
    BY <1>1, <1>6, AnswerKept
  <2>2. Passes(k, n)
    BY <2>1 DEF Passes
  <2>3. QED
    BY <1>1, <2>2, PlacesFall
<1>7. QED
  BY <1>2, <1>3, <1>4, <1>5, <1>6, SendNears, ToolsNear DEF RequestGoes, Loads

LEMMA RequestNears ==
  LoopTyped /\ LoopTyped' /\ CallsMatch /\ [LoopNext]_loopvars =>
    [\A r \in Requests : Busy(r) /\ req'[r] # req[r] =>
        \/ RequestLeft(req'[r]) \in 0 .. RequestLeft(req[r]) - 1
        \/ req'[r] = [req[r] EXCEPT !.gone = TRUE]]_loopvars
<1> SUFFICES ASSUME LoopTyped, LoopTyped', CallsMatch, LoopNext,
                    NEW r \in Requests, Busy(r), req'[r] # req[r]
             PROVE  \/ RequestLeft(req'[r]) \in 0 .. RequestLeft(req[r]) - 1
                    \/ req'[r] = [req[r] EXCEPT !.gone = TRUE]
  OBVIOUS
<1>1. PICK s \in Requests : RequestStreaming(s) \/ RequestGoes(s) \/ TimesOut(s) \/ SessionEnds(s)
  BY LoopActs, BesideKeeps
<1>2. s = r
  <2>1. RequestIs(s) /\ req \in [Requests -> Request]
    BY <1>1, RequestBecomes DEF LoopTyped, LoopTypeOK
  <2>2. QED
    BY <2>1 DEF RequestIs
<1>3. ~RequestStreaming(r)
  BY DEF RequestStreaming
<1>4. CASE SessionEnds(r)
  BY <1>4 DEF SessionEnds, Set, LoopTyped, LoopTypeOK
<1>5. QED
  BY <1>1, <1>2, <1>3, <1>4, StepNears

(* With any number of questions, retries, rounds and calls, no answer, error or  *)
(* timeout sends a request back: its steps are counted from the first to the    *)
(* last, and the end of its session is the one thing that may come in between.  *)
THEOREM RequestsAdvance == LoopSpec => RequestAdvances
<1>1. LoopInit => CallsMatch
  BY DEF LoopInit, CallsMatch, NoRequest
<1>2. LoopSpec => []CallsMatch
  BY <1>1, LoopTypedAlways, CallsMatchKept, PTL DEF LoopSpec
<1>3. QED
  BY <1>2, LoopTypedAlways, RequestNears, PTL DEF LoopSpec, RequestAdvances

--------------------------------------------------------------------------------
(* Whose history the prompt holds                                               *)

\* Only a request that was begun goes on.
LEMMA Underway ==
  ASSUME LoopTyped, NEW r \in Requests, RequestGoes(r) \/ TimesOut(r) \/ SessionEnds(r)
  PROVE  req[r].pc \notin {"idle", "done", "failed"}
<1>a. LoopTypeOK
  BY DEF LoopTyped
<1>1. CASE Loads(r)
  BY <1>1 DEF Loads, LoadsHistory, FillsCache, FindsResponder, AppliesRAG
<1>2. CASE AsksQuestion(r) \/ KeepsQuestion(r) \/ ChangesPrompt(r) \/ Sends(r)
  BY <1>2 DEF AsksQuestion, KeepsQuestion, ChangesPrompt, Sends
<1>3. CASE RunsAction(r) \/ SendsOutputs(r) \/ ParsesAnswer(r) \/ GeneratesMedia(r) \/ Delivers(r)
  BY <1>3 DEF RunsAction, SendsOutputs, ParsesAnswer, GeneratesMedia, Delivers
<1>4. CASE TimesOut(r) \/ SessionEnds(r)
  BY <1>4, <1>a, TimeoutFields DEF SessionEnds
<1>5. QED
  BY <1>1, <1>2, <1>3, <1>4 DEF RequestGoes

LEMMA OneGoes ==
  ASSUME LoopTyped, OneRequest, ~scene.overlap, NEW r \in Requests,
         RequestStreaming(r) \/ RequestGoes(r) \/ TimesOut(r) \/ SessionEnds(r)
  PROVE  r = TheRequest
<1>1. RequestStreaming(r) => r = TheRequest
  BY BeginFields DEF LoopTyped
<1>2. r # TheRequest => req[r].pc = "idle"
  BY DEF OneRequest, NoRequest
<1>3. QED
  BY <1>1, <1>2, Underway

LEMMA OneRequestKept == LoopTyped /\ OneRequest /\ [LoopNext]_loopvars => OneRequest'
<1> SUFFICES ASSUME LoopTyped, OneRequest, [LoopNext]_loopvars PROVE OneRequest'
  OBVIOUS
<1>1. ASSUME NEW r \in Requests,
             RequestStreaming(r) \/ RequestGoes(r) \/ TimesOut(r) \/ SessionEnds(r)
      PROVE  OneRequest'
  <2>1. RequestIs(r) /\ scene' = scene
    BY <1>1, RequestBecomes, SharedStep
  <2>2. ~scene.overlap => r = TheRequest
    BY <1>1, OneGoes
  <2>3. QED
    BY <2>1, <2>2 DEF OneRequest, RequestIs, LoopTyped, LoopTypeOK
<1>2. CASE Beside
  BY <1>2, BesideKeeps DEF OneRequest
<1>3. CASE UNCHANGED loopvars
  BY <1>3 DEF loopvars, OneRequest
<1>4. QED
  BY <1>1, <1>2, <1>3, LoopActs

LEMMA PromptOfRequest ==
  ASSUME LoopTyped, PromptKept, ~scene.overlap, TheRequest \in Requests,
         NEW r \in {TheRequest},
         RequestStreaming(r) \/ RequestGoes(r) \/ TimesOut(r) \/ SessionEnds(r)
  PROVE  /\ req'[r].carried \in {0, req'[r].q}
         /\ OpenAI /\ req'[r].pc \in {"send", "tools"} => req'[r].original = 0
         /\ req'[r].pc = "prompt" => OpenAI
         /\ prompt' # 0 => OpenAI /\ req'[r].pc \in {"send", "tools"} /\ prompt' = req'[r].q
<1>a. /\ LoopTypeOK /\ r \in Requests
      /\ req[r].carried \in {0, req[r].q}
      /\ OpenAI /\ req[r].pc \in {"send", "tools"} => req[r].original = 0
      /\ req[r].pc = "prompt" => OpenAI
      /\ prompt # 0 => OpenAI /\ req[r].pc \in {"send", "tools"} /\ prompt = req[r].q
  BY DEF LoopTyped, PromptKept
<1>b. UNCHANGED prompt \/ ChangesPrompt(r) \/ Sends(r)
  BY <1>a, SharedStep
<1>1. CASE RequestStreaming(r) \/ TimesOut(r) \/ Delivers(r)
  <2>1. UNCHANGED prompt
    BY <1>1 DEF RequestStreaming, TimesOut, Delivers
  <2>2. req'[r].carried = 0 /\ req'[r].pc \in {"load", "failed", "done"}
        /\ req[r].pc \notin {"send", "tools"}
    BY <1>1, <1>a, BeginFields, TimeoutFields, DeliverFields DEF Ended, Fresh
  <2>3. QED
    BY <2>1, <2>2, <1>a
<1>2. CASE LoadsHistory(r) \/ AsksQuestion(r)
  <2>1. UNCHANGED prompt
    BY <1>2 DEF LoadsHistory, AsksQuestion
  <2>2. req[r].pc \notin {"send", "tools"} /\ req'[r].pc \notin {"send", "tools", "prompt"}
        /\ (req'[r].carried = 0 \/ SameIdentity(r))
    BY <1>2, <1>a, LoadFields, AskFields DEF Ended, Fresh
  <2>3. QED
    BY <2>1, <2>2, <1>a DEF SameIdentity
<1>3. CASE ChangesPrompt(r)
  BY <1>3, <1>a, PromptFields
<1>4. CASE FillsCache(r) \/ FindsResponder(r) \/ AppliesRAG(r) \/ KeepsQuestion(r)
  <2>1. UNCHANGED prompt
    BY <1>4 DEF FillsCache, FindsResponder, AppliesRAG, KeepsQuestion
  <2>2. req[r].pc \notin {"send", "tools"} /\ (OpenAI => req'[r].pc \notin {"send", "tools"})
        /\ (req'[r].pc = "prompt" => OpenAI)
        /\ (req'[r].carried = 0 \/ SameIdentity(r))
    BY <1>4, <1>a, PlainFields DEF Ended, Fresh
  <2>3. QED
    BY <2>1, <2>2, <1>a DEF SameIdentity
<1>5. CASE Sends(r)
  BY <1>5, <1>a, SendFields DEF Ended, Fresh
<1>6. CASE RunsAction(r) \/ SendsOutputs(r)
  <2>1. UNCHANGED prompt
    BY <1>6 DEF RunsAction, SendsOutputs
  <2>2. QED
    BY <2>1, <1>6, <1>a, ToolFields
<1>7. CASE ParsesAnswer(r) \/ GeneratesMedia(r)
  <2>1. UNCHANGED prompt
    BY <1>7 DEF ParsesAnswer, GeneratesMedia
  <2>2. QED
    BY <2>1, <1>7, <1>a, AnswerKept DEF SameIdentity
<1>8. CASE SessionEnds(r)
  <2>1. UNCHANGED prompt
    BY <1>8 DEF SessionEnds
  <2>2. QED
    BY <2>1, <1>8, <1>a, GoneFields DEF SameIdentity
<1>9. QED
  BY <1>1, <1>2, <1>3, <1>4, <1>5, <1>6, <1>7, <1>8 DEF RequestGoes, Loads

LEMMA PromptKeeps == LoopTyped /\ OneRequest /\ PromptKept /\ [LoopNext]_loopvars => PromptKept'
<1> SUFFICES ASSUME LoopTyped, OneRequest, PromptKept, [LoopNext]_loopvars PROVE PromptKept'
  OBVIOUS
<1>1. ASSUME NEW r \in Requests,
             RequestStreaming(r) \/ RequestGoes(r) \/ TimesOut(r) \/ SessionEnds(r)
      PROVE  PromptKept'
  <2> SUFFICES ASSUME ~scene'.overlap PROVE PromptKept'
    BY DEF PromptKept
  <2>1. scene' = scene
    BY <1>1, SharedStep
  <2>2. r = TheRequest
    BY <1>1, <2>1, OneGoes
  <2>3. /\ req'[r].carried \in {0, req'[r].q}
        /\ OpenAI /\ req'[r].pc \in {"send", "tools"} => req'[r].original = 0
        /\ req'[r].pc = "prompt" => OpenAI
        /\ prompt' # 0 => OpenAI /\ req'[r].pc \in {"send", "tools"} /\ prompt' = req'[r].q
    BY <1>1, <2>1, <2>2, PromptOfRequest
  <2>4. QED
    BY <2>1, <2>2, <2>3 DEF PromptKept, OpenAI
<1>2. CASE Beside
  BY <1>2, BesideKeeps DEF PromptKept, OpenAI
<1>3. CASE UNCHANGED loopvars
  BY <1>3 DEF loopvars, PromptKept, OpenAI
<1>4. QED
  BY <1>1, <1>2, <1>3, LoopActs

LEMMA OnePrompts == OneRequest /\ PromptKept => PromptIsOwn
<1> SUFFICES ASSUME OneRequest, PromptKept, ~scene.overlap
             PROVE  /\ \A r \in Requests : req[r].carried \in {0, req[r].q}
                    /\ (\A r \in Requests : ~Busy(r)) => prompt = 0
  BY DEF PromptIsOwn
<1>1. ASSUME NEW r \in Requests PROVE req[r].carried \in {0, req[r].q}
  <2>1. r # TheRequest => req[r].carried = 0
    BY DEF OneRequest, NoRequest
  <2>2. QED
    BY <2>1 DEF PromptKept
<1>2. (\A r \in Requests : ~Busy(r)) => prompt = 0
  BY DEF PromptKept, Busy
<1>3. QED
  BY <1>1, <1>2

--------------------------------------------------------------------------------
(* The history of a request that is alone                                       *)

LEMMA WholeGrows ==
  ASSUME NEW h \in History, NEW given \in Seq(0 .. MaxQuestions), NEW faults,
         NEW m \in Message, Whole(h, given, faults),
         m.by = "user" \/ (h # <<>> /\ h[Len(h)] = By("user", m.q))
  PROVE  Whole(Append(h, m), given, faults)
<1> DEFINE longer == Append(h, m)
<1>a. h \in Seq(Message) /\ Len(h) \in Nat
  BY DEF History
<1>b. /\ Len(longer) = Len(h) + 1 /\ longer[Len(h) + 1] = m
      /\ \A i \in 1 .. Len(h) : longer[i] = h[i]
  BY <1>a
<1> HIDE DEF longer
<1>c. \A i \in 1 .. Len(longer) : i \in 1 .. Len(h) \/ i = Len(h) + 1
  BY <1>a, <1>b
<1>d. 1 .. Len(h) \subseteq 1 .. Len(longer)
  BY <1>a, <1>b
<1>1. \A x : Contains(h, x) => Contains(longer, x)
  BY <1>b, <1>d DEF Contains
<1>2. ASSUME NEW i \in 1 .. Len(longer), longer[i].by = "model"
      PROVE  \E k \in 1 .. i - 1 : longer[k] = By("user", longer[i].q)
  <2>1. CASE i \in 1 .. Len(h)
    <3>1. PICK k \in 1 .. i - 1 : h[k] = By("user", h[i].q)
      BY <2>1, <1>2, <1>b DEF Whole
    <3>2. k \in 1 .. Len(h)
      BY <3>1, <2>1, <1>a
    <3>3. QED
      BY <3>1, <3>2, <2>1, <1>b
  <2>2. CASE i = Len(h) + 1
    <3>1. h # <<>> /\ h[Len(h)] = By("user", m.q)
      BY <2>2, <1>2, <1>b
    <3>2. Len(h) \in 1 .. Len(h) /\ Len(h) \in 1 .. i - 1
      BY <3>1, <2>2, <1>a
    <3>3. longer[Len(h)] = By("user", longer[i].q)
      BY <3>1, <3>2, <2>2, <1>b
    <3>4. QED
      BY <3>2, <3>3
  <2>3. QED
    BY <2>1, <2>2, <1>c
<1>3. QED
  BY <1>1, <1>2 DEF Whole, longer

LEMMA WholeAnswered ==
  ASSUME NEW h \in History, NEW given \in Seq(0 .. MaxQuestions), NEW faults,
         NEW q \in 0 .. MaxQuestions, Whole(h, given, faults),
         h # <<>>, h[Len(h)] = By("user", q), NEW more \in {given, Append(given, q)}
  PROVE  Whole(Append(h, By("model", q)), more, faults)
<1> DEFINE longer == Append(h, By("model", q))
<1>1. By("model", q) \in Message /\ By("model", q).q = q
  BY Words DEF By
<1>2. Whole(longer, given, faults)
  BY <1>1, WholeGrows
<1>3. Contains(longer, By("model", q))
  <2>1. Len(h) \in Nat /\ Len(longer) = Len(h) + 1 /\ longer[Len(h) + 1] = By("model", q)
    BY <1>1 DEF History
  <2>2. Len(h) + 1 \in 1 .. Len(longer)
    BY <2>1
  <2>3. QED
    BY <2>1, <2>2 DEF Contains
<1> HIDE DEF longer
<1>4. \A i \in 1 .. Len(more) : (i \in 1 .. Len(given) /\ more[i] = given[i]) \/ more[i] = q
  OBVIOUS
<1>5. QED
  BY <1>2, <1>3, <1>4 DEF Whole, longer

LEMMA WholeFirst ==
  ASSUME LoopTypeOK, CacheTells, ~cache.there, NEW h \in DbHistory, Len(h) < Limit
  PROVE  Complete(h)
<1>1. CASE "api" \in scene.faults /\ h = <<>>
  <2>1. 1 .. Len(h) = {}
    BY <1>1
  <2>2. QED
    BY <1>1, <2>1 DEF Complete, Whole
<1>2. CASE h = Trim(stored)
  <2>a. /\ stored \in History /\ (Len(stored) >= Limit => Len(Trim(stored)) = Limit)
        /\ (Len(stored) <= Limit => Trim(stored) = stored) /\ Limit \in Nat
        /\ Len(stored) \in Nat
    BY Trims, LoopAssumption DEF LoopTypeOK, History
  <2>1. h = stored
    BY <1>2, <2>a
  <2>2. CASE scene.past
    <3>1. stored = <<By("user", 0), By("model", 0)>> /\ delivered = <<0>>
      BY <2>2 DEF CacheTells
    <3>2. Len(stored) = 2 /\ stored[1] = By("user", 0) /\ stored[2] = By("model", 0)
          /\ Len(delivered) = 1 /\ delivered[1] = 0
      BY <3>1
    <3>3. By("model", 0).q = 0 /\ By("user", 0).by # "model"
      BY DEF By
    <3>4. \A i \in 1 .. Len(delivered) : Contains(stored, By("model", delivered[i]))
      BY <3>2 DEF Contains
    <3>5. \A i \in 1 .. Len(stored) : stored[i].by = "model" =>
             \E k \in 1 .. i - 1 : stored[k] = By("user", stored[i].q)
      BY <3>2, <3>3
    <3>6. QED
      BY <2>1, <3>4, <3>5 DEF Complete, Whole
  <2>3. CASE ~scene.past
    <3>1. 1 .. Len(stored) = {} /\ 1 .. Len(delivered) = {}
      BY <2>3 DEF CacheTells
    <3>2. QED
      BY <2>1, <3>1 DEF Complete, Whole
  <2>4. QED
    BY <2>2, <2>3
<1>3. QED
  BY <1>1, <1>2, HistoriesOfDb

\* A cache that has a message more and is not full had all the others.
LEMMA NotFull ==
  ASSUME NEW h \in History, NEW m \in Message, Len(Trim(Append(h, m))) < Limit
  PROVE  Trim(Append(h, m)) = Append(h, m) /\ Len(h) < Limit
<1> DEFINE k == Append(h, m)
<1>1. k \in History /\ Len(k) = Len(h) + 1 /\ Len(h) \in Nat /\ Limit \in Nat
  BY Words, LoopAssumption DEF History
<1>2. Len(Trim(k)) < Limit
  OBVIOUS
<1> HIDE DEF k
<1>3. (Len(k) <= Limit => Trim(k) = k) /\ (Len(k) >= Limit => Len(Trim(k)) = Limit)
  BY <1>1, Trims
<1>4. Trim(k) = k /\ Len(h) < Limit
  BY <1>1, <1>2, <1>3
<1>5. QED
  BY <1>4 DEF k

\* The history of the one request and the cache, after a step.
HistoryKeeps(r) == CacheTells' /\ RequestTells(r)'

LEMMA LoadsKeep ==
  ASSUME LoopTypeOK, NEW r \in Requests, CacheTells, RequestTells(r), LoadsHistory(r)
  PROVE  HistoryKeeps(r)
<1>1. UNCHANGED <<scene, late, stored, delivered, cache>>
  BY DEF LoadsHistory, CacheTells
<1>2. CacheTells'
  BY <1>1 DEF CacheTells, Complete
<1>3. RequestTells(r)'
  <2>1. CASE Ended(r) /\ req'[r].pc = "failed"
    BY <2>1 DEF RequestTells
  <2>2. CASE CacheHits /\ req'[r].pc = "responder" /\ req'[r].history = cache.msgs
    <3>1. cache.there
      BY <2>2 DEF CacheHits, OpenAICacheHits, GoogleCacheHits
    <3>2. Len(cache.msgs) < Limit => Complete(cache.msgs)
      BY <3>1 DEF CacheTells
    <3>3. QED
      BY <1>1, <2>2, <3>1, <3>2 DEF RequestTells, Complete
  <2>3. CASE ~CacheHits /\ req'[r].pc = "fill" /\ req'[r].history \in DbHistory
    <3>1. ~cache.there
      BY <2>3 DEF CacheTells, CacheHits, OpenAICacheHits, GoogleCacheHits
    <3>2. Len(req'[r].history) < Limit => Complete(req'[r].history)
      BY <3>1, <2>3, WholeFirst
    <3>3. QED
      BY <1>1, <2>3, <3>2 DEF RequestTells, Complete
  <2>4. QED
    BY <2>1, <2>2, <2>3, LoadFields
<1>4. QED
  BY <1>2, <1>3 DEF HistoryKeeps

LEMMA FillsKeep ==
  ASSUME LoopTypeOK, NEW r \in Requests, CacheTells, RequestTells(r), FillsCache(r)
  PROVE  HistoryKeeps(r)
<1>1. UNCHANGED <<scene, late, stored, delivered>> /\ StoresHistory(req[r].history)
      /\ req[r].pc = "fill"
  BY DEF FillsCache
<1>2. req[r].history \in History
  BY DEF LoopTypeOK, Request
<1>3. cache'.there /\ ~cache'.old /\ cache'.msgs = req[r].history
  BY <1>1, <1>2, CacheKinds
<1>4. Len(req[r].history) < Limit => Complete(req[r].history)
  BY <1>1 DEF RequestTells
<1>5. CacheTells'
  BY <1>1, <1>3, <1>4 DEF CacheTells, Complete
<1>6. req'[r].history = req[r].history /\ req'[r].pc = "responder"
  BY <1>1, PlainFields DEF SameWords
<1>7. RequestTells(r)'
  BY <1>1, <1>3, <1>4, <1>6 DEF RequestTells, Complete
<1>8. QED
  BY <1>5, <1>7 DEF HistoryKeeps

LEMMA AsksKeep ==
  ASSUME LoopTypeOK, NEW r \in Requests, CacheTells, RequestTells(r), AsksQuestion(r)
  PROVE  HistoryKeeps(r)
<1>1. UNCHANGED <<scene, late, stored, delivered, cache>>
  BY DEF AsksQuestion
<1>2. CacheTells'
  BY <1>1 DEF CacheTells, Complete
<1>3. /\ req[r].pc = "question" /\ req'[r].pc = "keep" /\ req'[r].slice = cache.msgs
      /\ req'[r].history = Append(req[r].history, By("user", req[r].q))
  BY AskFields
<1>4. /\ req[r].history \in History /\ req[r].q \in 0 .. MaxQuestions /\ Limit \in Nat
      /\ delivered \in Seq(0 .. MaxQuestions)
  BY LoopAssumption DEF LoopTypeOK, Request
<1>5. By("user", req[r].q) \in Message /\ By("user", req[r].q).by = "user"
  BY <1>4, Words DEF By
<1>6. Len(req'[r].history) <= Limit => Complete(req'[r].history)
  <2>1. Len(req'[r].history) = Len(req[r].history) + 1 /\ Len(req[r].history) \in Nat
    BY <1>3, <1>4 DEF History
  <2>2. Len(req[r].history) < Limit => Complete(req[r].history)
    BY <1>3 DEF RequestTells
  <2>3. Complete(req[r].history) => Complete(req'[r].history)
    BY <1>3, <1>4, <1>5, WholeGrows DEF Complete
  <2>4. QED
    BY <2>1, <2>2, <2>3, <1>4
<1>7. RequestTells(r)'
  BY <1>1, <1>3, <1>6 DEF RequestTells, Complete
<1>8. QED
  BY <1>2, <1>7 DEF HistoryKeeps

LEMMA KeepsKeep ==
  ASSUME LoopTypeOK, NEW r \in Requests, CacheTells, RequestTells(r), KeepsQuestion(r)
  PROVE  HistoryKeeps(r)
<1> DEFINE m == By("user", req[r].q)
           said == cache.msgs
<1>1. /\ UNCHANGED <<scene, late, stored, delivered>> /\ req[r].pc = "keep"
      /\ AddsMessage(req[r].slice, m)
  BY DEF KeepsQuestion
<1>2. /\ said \in History /\ req[r].q \in 0 .. MaxQuestions /\ Limit \in Nat
      /\ delivered \in Seq(0 .. MaxQuestions) /\ req[r].slice = said
  BY <1>1, LoopAssumption DEF LoopTypeOK, Request, Cache, RequestTells
<1>3. m \in Message /\ m.by = "user" /\ Append(said, m) \in History /\ Append(said, m) # <<>>
      /\ Append(said, m)[Len(Append(said, m))] = m
  <2>1. m \in Message /\ m.by = "user" /\ Append(said, m) \in History
    BY <1>2, Words DEF By
  <2> HIDE DEF m, said
  <2>2. QED
    BY <2>1, <1>2 DEF History
<1>4. cache'.there /\ ~cache'.old /\ cache'.msgs = Trim(Append(said, m))
  BY <1>1, <1>2, <1>3, CacheKinds
<1>5. Len(cache'.msgs) < Limit => Complete(cache'.msgs)
  <2>1. Len(cache'.msgs) < Limit => cache'.msgs = Append(said, m) /\ Len(said) < Limit
    BY <1>2, <1>3, <1>4, NotFull
  <2>2. Len(said) < Limit => Complete(said)
    BY <1>1 DEF CacheTells, RequestTells
  <2>3. Complete(said) => Complete(Append(said, m))
    BY <1>2, <1>3, WholeGrows DEF Complete
  <2>4. QED
    BY <2>1, <2>2, <2>3
<1>6. cache'.msgs # <<>> /\ cache'.msgs[Len(cache'.msgs)] = m
  BY <1>3, <1>4, Trims
<1>7. CacheTells'
  BY <1>1, <1>4, <1>5 DEF CacheTells, Complete
<1>8. /\ req'[r].history = req[r].history /\ req'[r].pc \in {"prompt", "send"}
      /\ req'[r].q = req[r].q
  BY <1>1, PlainFields DEF SameWords, SameIdentity
<1>9. Len(req[r].history) <= Limit => Complete(req[r].history)
  BY <1>1 DEF RequestTells
<1>10. RequestTells(r)'
  BY <1>1, <1>4, <1>6, <1>8, <1>9 DEF RequestTells, Complete
<1>11. QED
  BY <1>7, <1>10 DEF HistoryKeeps

\* The steps between the question and the answer.
LEMMA MiddleKeeps ==
  ASSUME LoopTyped, NEW r \in Requests, CacheTells, RequestTells(r),
         \/ RequestStreaming(r) \/ FindsResponder(r) \/ AppliesRAG(r) \/ ChangesPrompt(r)
         \/ Sends(r) \/ RunsAction(r) \/ SendsOutputs(r) \/ ParsesAnswer(r)
         \/ GeneratesMedia(r) \/ SessionEnds(r)
  PROVE  HistoryKeeps(r)
<1>a. LoopTypeOK
  BY DEF LoopTyped
<1>1. UNCHANGED <<scene, late, stored, delivered, cache>>
  BY DEF RequestStreaming, FindsResponder, AppliesRAG, ChangesPrompt, Sends, RunsAction,
     SendsOutputs, ParsesAnswer, GeneratesMedia, SessionEnds
<1>2. CacheTells'
  BY <1>1 DEF CacheTells, Complete
<1>3. RequestTells(r)'
  <2>1. CASE RequestStreaming(r)
    BY <2>1, <1>a, BeginFields DEF RequestTells
  <2>2. CASE FindsResponder(r) \/ AppliesRAG(r)
    <3>1. CASE req'[r].pc = "failed"
      BY <3>1 DEF RequestTells
    <3>2. CASE req'[r].history = req[r].history /\
               <<req[r].pc, req'[r].pc>> \in {<<"responder", "rag">>, <<"rag", "question">>}
      BY <3>2, <1>1 DEF RequestTells, Complete
    <3>3. req[r].pc \in {"responder", "rag"}
      BY <2>2 DEF FindsResponder, AppliesRAG
    <3>4. QED
      BY <2>2, <3>1, <3>2, <3>3, <1>a, PlainFields DEF SameWords
  <2>3. CASE ChangesPrompt(r)
    <3>1. /\ req[r].pc = "prompt" /\ req'[r].pc = "send" /\ req'[r].q = req[r].q
          /\ req'[r].history = req[r].history
      BY <2>3, <1>a, PromptFields DEF SameWords
    <3>2. QED
      BY <3>1, <1>1 DEF RequestTells, Complete
  <2>4. CASE Sends(r)
    <3>1. CASE req'[r].pc = "failed"
      BY <3>1 DEF RequestTells
    <3>2. CASE /\ req'[r].history = req[r].history /\ req'[r].q = req[r].q
               /\ req'[r].pc \in {"answer", "tools", "send"}
      BY <2>4, <3>2, <1>1 DEF Sends, RequestTells, Complete
    <3>3. QED
      BY <2>4, <3>1, <3>2, <1>a, SendFields DEF SameWords
  <2>5. CASE RunsAction(r) \/ SendsOutputs(r)
    <3>1. /\ req[r].pc = "tools" /\ req'[r].pc \in {"tools", "send"} /\ req'[r].q = req[r].q
          /\ req'[r].history = req[r].history
      BY <2>5, ToolFields DEF SameWords
    <3>2. QED
      BY <3>1, <1>1 DEF RequestTells, Complete
  <2>6. CASE ParsesAnswer(r) \/ GeneratesMedia(r)
    <3>1. /\ req[r].pc \in {"answer", "media"} /\ req'[r].pc \in {"media", "remember"}
          /\ req'[r].q = req[r].q /\ (req'[r].pc = "remember" => req'[r].slice = cache.msgs)
      BY <2>6, <1>a, AnswerKept DEF SameIdentity
    <3>2. QED
      BY <3>1, <1>1 DEF RequestTells
  <2>7. CASE SessionEnds(r)
    <3>1. /\ req'[r].pc = req[r].pc /\ req'[r].q = req[r].q
          /\ req'[r].history = req[r].history /\ req'[r].slice = req[r].slice
      BY <2>7, <1>a, GoneFields DEF SameWords, SameIdentity
    <3>2. QED
      BY <3>1, <1>1 DEF RequestTells, Complete
  <2>8. QED
    BY <2>1, <2>2, <2>3, <2>4, <2>5, <2>6, <2>7
<1>4. QED
  BY <1>2, <1>3 DEF HistoryKeeps

LEMMA DeliversKeep ==
  ASSUME LoopTypeOK, NEW r \in Requests, CacheTells, RequestTells(r), Delivers(r)
  PROVE  HistoryKeeps(r)
<1> DEFINE m == By("model", req[r].q)
           said == cache.msgs
<1>1. /\ UNCHANGED <<scene, late, stored>> /\ req[r].pc = "remember"
      /\ AddsMessage(req[r].slice, m)
      /\ delivered' \in {delivered, Append(delivered, req[r].q)}
  BY DEF Delivers
<1>2. /\ said \in History /\ req[r].q \in 0 .. MaxQuestions /\ req[r].slice = said
      /\ delivered \in Seq(0 .. MaxQuestions)
      /\ said # <<>> /\ said[Len(said)] = By("user", req[r].q)
  BY <1>1 DEF LoopTypeOK, Request, Cache, RequestTells
<1>3. m \in Message
  BY <1>2, Words
<1>4. cache'.there /\ ~cache'.old /\ cache'.msgs = Trim(Append(said, m))
  BY <1>1, <1>2, <1>3, CacheKinds
<1>5. Len(cache'.msgs) < Limit => Whole(cache'.msgs, delivered', scene.faults)
  <2>1. Len(cache'.msgs) < Limit => cache'.msgs = Append(said, m) /\ Len(said) < Limit
    BY <1>2, <1>3, <1>4, NotFull
  <2>2. Len(said) < Limit => Whole(said, delivered, scene.faults)
    BY <1>1 DEF CacheTells, RequestTells, Complete
  <2>3. Whole(said, delivered, scene.faults) => Whole(Append(said, m), delivered', scene.faults)
    BY <1>1, <1>2, WholeAnswered
  <2>4. QED
    BY <2>1, <2>2, <2>3
<1>6. CacheTells'
  BY <1>1, <1>4, <1>5 DEF CacheTells, Complete
<1>7. req'[r].pc \in {"done", "failed"}
  BY DeliverFields DEF Ended
<1>8. RequestTells(r)'
  BY <1>4, <1>7 DEF RequestTells
<1>9. QED
  BY <1>6, <1>8 DEF HistoryKeeps

LEMMA HistoryKept ==
  LoopTyped /\ OneRequest /\ HistoryTells /\ [LoopNext]_loopvars => HistoryTells'
<1> SUFFICES ASSUME LoopTyped, OneRequest, HistoryTells, [LoopNext]_loopvars, Quiet'
             PROVE  (CacheTells /\ \A r \in Requests \cap {TheRequest} : RequestTells(r))'
  BY DEF HistoryTells
<1>a. LoopTypeOK
  BY DEF LoopTyped
<1>b. scene' = scene
  <2>1. CASE UNCHANGED loopvars
    BY <2>1 DEF loopvars
  <2>2. CASE LoopNext
    BY <2>2, LoopActs, SharedStep, BesideKeeps
  <2>3. QED
    BY <2>1, <2>2
<1>c. /\ scene.hazards = {} /\ ~scene.overlap /\ CacheTells
      /\ \A r \in Requests \cap {TheRequest} : RequestTells(r)
  BY <1>b DEF Quiet, HistoryTells
<1>1. ASSUME NEW r \in Requests,
             RequestStreaming(r) \/ RequestGoes(r) \/ TimesOut(r) \/ SessionEnds(r)
      PROVE  (CacheTells /\ \A n \in Requests \cap {TheRequest} : RequestTells(n))'
  <2>1. r = TheRequest
    BY <1>1, <1>c, OneGoes
  <2>2. RequestTells(r)
    BY <2>1, <1>c
  <2>3. ~TimesOut(r)
    BY <1>c DEF TimesOut
  <2>4. HistoryKeeps(r)
    BY <1>1, <2>2, <2>3, <1>a, <1>c, LoadsKeep, FillsKeep, AsksKeep, KeepsKeep, MiddleKeeps,
       DeliversKeep DEF RequestGoes, Loads
  <2>5. QED
    BY <2>1, <2>4 DEF HistoryKeeps
<1>2. CASE Beside
  <2>1. ~CacheExpires /\ ~OpenAIFlushes /\ ~GoogleFlushes /\ ~Preloads /\ ~LateReads /\ ~LateFills
    BY <1>c DEF CacheExpires, OpenAIFlushes, GoogleFlushes, Preloads, LateReads, LateFills,
       CacheTells
  <2>2. Saves /\ UNCHANGED <<scene, cache, late, delivered, req>>
    BY <1>2, <2>1 DEF Beside, Saves
  <2>3. cache.there
    <3>1. Len(stored) < 2 * Len(delivered)
      BY <2>2 DEF Saves
    <3>2. ASSUME ~cache.there PROVE Len(stored) = 2 * Len(delivered)
      <4>1. CASE scene.past
        <5>1. stored = <<By("user", 0), By("model", 0)>> /\ delivered = <<0>>
          BY <3>2, <4>1, <1>c DEF CacheTells
        <5>2. QED
          BY <5>1
      <4>2. CASE ~scene.past
        <5>1. stored = <<>> /\ delivered = <<>>
          BY <3>2, <4>2, <1>c DEF CacheTells
        <5>2. QED
          BY <5>1
      <4>3. QED
        BY <4>1, <4>2
    <3>3. Len(stored) \in Nat /\ Len(delivered) \in Nat
      BY <1>a DEF LoopTypeOK, History
    <3>4. QED
      BY <3>1, <3>2, <3>3
  <2>4. CacheTells'
    BY <2>2, <2>3, <1>c DEF CacheTells, Complete
  <2>5. ASSUME NEW r \in Requests \cap {TheRequest} PROVE RequestTells(r)'
    <3>1. RequestTells(r)
      BY <1>c
    <3>2. QED
      BY <2>2, <3>1 DEF RequestTells, Complete
  <2>6. QED
    BY <2>4, <2>5
<1>3. CASE UNCHANGED loopvars
  <2>1. CacheTells'
    BY <1>3, <1>c DEF loopvars, CacheTells, Complete
  <2>2. ASSUME NEW r \in Requests \cap {TheRequest} PROVE RequestTells(r)'
    <3>1. RequestTells(r)
      BY <1>c
    <3>2. QED
      BY <1>3, <3>1 DEF loopvars, RequestTells, Complete
  <2>3. QED
    BY <2>1, <2>2
<1>4. QED
  BY <1>1, <1>2, <1>3, LoopActs

(* What a model is told is what was said in its dialog: with one request at a    *)
(* time and a cache that lives, no answer and no question is missing from a      *)
(* history that is not cut, whatever failed and was asked again; and the prompt  *)
(* and the instructions hold the history of no other request.                    *)
THEOREM ModelHearsTheDialog == LoopSpec => []ToldWhatWasSaid
<1>1. LoopInit => OneRequest /\ PromptKept /\ HistoryTells
  <2> SUFFICES ASSUME LoopInit PROVE OneRequest /\ PromptKept /\ HistoryTells
    OBVIOUS
  <2>1. OneRequest /\ PromptKept
    BY DEF LoopInit, NoRequest, OneRequest, PromptKept
  <2>2. CacheTells
    BY DEF LoopInit, NoCache, CacheTells
  <2>3. \A r \in Requests : RequestTells(r)
    BY DEF LoopInit, NoRequest, RequestTells
  <2>4. QED
    BY <2>1, <2>2, <2>3 DEF HistoryTells
<1>2. LoopTyped /\ OneRequest /\ PromptKept /\ HistoryTells => ToldWhatWasSaid
  <2> SUFFICES ASSUME OneRequest, HistoryTells PROVE HistoryHolds
    BY OnePrompts DEF ToldWhatWasSaid
  <2> SUFFICES ASSUME Quiet, NEW r \in Requests, req[r].pc = "send", Len(req[r].history) <= Limit
               PROVE  Complete(req[r].history)
    BY DEF HistoryHolds, Complete, Whole
  <2>1. r = TheRequest
    BY DEF OneRequest, NoRequest, Quiet
  <2>2. QED
    BY <2>1 DEF HistoryTells, RequestTells
<1>3. QED
  BY <1>1, <1>2, LoopTypedAlways, OneRequestKept, PromptKeeps, HistoryKept, PTL DEF LoopSpec

(* A dialog's requests to Mistral                                               *)

\* What is known is known of conversations there are, and functions are what a reply called.
TalkNamed(t) ==
  /\ t.reply.id <= Len(convs)
  /\ t.reply.kind = "calls" <=> t.reply.calls > 0
  /\ t.pc = "functions" => t.results <= t.reply.calls
MistralTyped ==
  /\ MistralTypeOK /\ holder.id <= Len(convs) /\ kept <= Len(convs)
  /\ \A a \in Askers : TalkNamed(talk[a])

TalkPc == {"idle", "sync", "ask", "recover", "begun", "continued", "functions", "reported",
           "retold", "regain", "regained", "answered", "emptied", "failed"}

LEMMA TalkMoves ==
  ASSUME NEW t \in Talk, NEW pc \in TalkPc
  PROVE  LET u == [t EXCEPT !.pc = pc]
             v == [t EXCEPT !.pc = pc, !.faulty = TRUE]
         IN /\ u \in Talk /\ u.pc = pc /\ u.turn = t.turn /\ u.reply = t.reply
            /\ u.results = t.results /\ u.rounds = t.rounds /\ u.faulty = t.faulty
            /\ v \in Talk /\ v.pc = pc /\ v.turn = t.turn /\ v.reply = t.reply
            /\ v.results = t.results /\ v.rounds = t.rounds /\ v.faulty = TRUE
  BY DEF Talk, TalkPc

LEMMA TalkBecomes ==
  ASSUME talk \in [Askers -> Talk], NEW a \in Askers, NEW t \in Talk, Becomes(a, t)
  PROVE  talk' \in [Askers -> Talk] /\ talk'[a] = t /\ \A b \in Askers \ {a} : talk'[b] = talk[b]
  BY DEF Becomes

\* The conversations after a step: none is forgotten, and none changes its state.
ConvsGrow ==
  /\ convs' \in Seq(Conv) /\ Len(convs) <= Len(convs') /\ Len(convs') <= MaxConvs
  /\ \A j \in 1 .. Len(convs) : convs'[j].state = convs[j].state
  /\ \A j \in Len(convs) + 1 .. Len(convs') : convs'[j].state = "ok"

\* A call of the API: the request has reply r, of conversation i.
Heard(a, pc, i, r) ==
  /\ Becomes(a, [[talk[a] EXCEPT !.pc = pc] EXCEPT !.reply = r])
  /\ r \in Received /\ r.id <= Len(convs')
  /\ r.kind = "calls" <=> r.calls > 0
  /\ r.kind \in {"text", "empty", "calls"} =>
        i # 0 /\ r.id = i /\ convs'[i].owed = r.calls /\ convs'[i].by = talk[a].turn
  /\ r.kind \in {"404", "503"} => i \in 1 .. Len(convs) /\ convs[i].state # "ok"

LEMMA SpeechIs ==
  ASSUME MaxParallel \in Nat, NEW s \in Speech
  PROVE  /\ s.kind \in {"text", "empty", "calls"} /\ s.calls \in 0 .. MaxParallel
         /\ s.kind = "calls" <=> s.calls > 0
  BY DEF Speech

LEMMA ConvTypes == MistralTypeOK =>
  /\ convs \in Seq(Conv) /\ Len(convs) \in Nat /\ Len(convs) <= MaxConvs
  /\ \A i \in 1 .. Len(convs) : convs[i] \in Conv
  /\ MaxConvs \in Nat /\ MaxParallel \in Nat /\ MaxTurns \in Nat /\ MaxRounds \in Nat \ {0}
  /\ talk \in [Askers -> Talk]
  BY MistralAssumption DEF MistralTypeOK

LEMMA ReplyIs ==
  ASSUME MistralTypeOK, NEW k \in {"text", "empty", "calls", "400", "404", "503", "500", "error", "network"},
         NEW n \in 0 .. MaxParallel, NEW i \in Ids
  PROVE  LET r == [kind |-> k, calls |-> n, id |-> i]
         IN r \in Received /\ r.kind = k /\ r.calls = n /\ r.id = i
  BY DEF Received, Failure

LEMMA Refused ==
  ASSUME MistralTypeOK, NEW a \in Askers, NEW pc \in TalkPc, NEW failures \in SUBSET Failure, NEW i,
         ReplyRefuses(a, pc, failures),
         failures \cap {"404", "503"} # {} => i \in 1 .. Len(convs) /\ convs[i].state # "ok"
  PROVE  /\ convs' = convs /\ ConvsGrow
         /\ \E r : Heard(a, pc, i, r) /\ r.kind \in failures
<1>1. convs' = convs
  BY DEF ReplyRefuses
<1>2. ConvsGrow
  BY <1>1, ConvTypes DEF ConvsGrow
<1>3. PICK f \in failures : Receive(a, pc, f, 0, 0)
  BY DEF ReplyRefuses
<1>4. f \in {"400", "404", "503", "500", "error", "network"} /\ 0 \in Ids /\ 0 \in 0 .. MaxParallel
  BY ConvTypes DEF Failure, Ids
<1> DEFINE r == [kind |-> f, calls |-> 0, id |-> 0]
<1>5. r \in Received /\ r.kind = f /\ r.calls = 0 /\ r.id = 0
  BY <1>4, ReplyIs
<1>6. Becomes(a, [[talk[a] EXCEPT !.pc = pc] EXCEPT !.reply = r])
  BY <1>3 DEF Receive, Now
<1> HIDE DEF r
<1>7. Heard(a, pc, i, r)
  BY <1>1, <1>4, <1>5, <1>6, ConvTypes DEF Heard
<1>8. QED
  BY <1>1, <1>2, <1>5, <1>7

LEMMA Replied ==
  ASSUME MistralTypeOK, NEW a \in Askers, NEW pc \in TalkPc, NEW s \in Speech,
         NEW i \in 1 .. Len(convs'), ConvsGrow, ReplyComes(a, pc, s, i),
         convs'[i].owed = s.calls, convs'[i].by = talk[a].turn
  PROVE  \E r : Heard(a, pc, i, r) /\ r.kind \in {"text", "empty", "calls", "network"}
<1>1. /\ s.kind \in {"text", "empty", "calls"} /\ s.calls \in 0 .. MaxParallel
      /\ s.kind = "calls" <=> s.calls > 0
  BY SpeechIs, ConvTypes
<1>2. i \in Ids /\ 0 \in Ids /\ i # 0 /\ i <= Len(convs') /\ 0 \in 0 .. MaxParallel
  BY ConvTypes DEF ConvsGrow, Ids
<1>3. CASE Receive(a, pc, s.kind, s.calls, i)
  <2> DEFINE r == [kind |-> s.kind, calls |-> s.calls, id |-> i]
  <2>1. r \in Received /\ r.kind = s.kind /\ r.calls = s.calls /\ r.id = i
    BY <1>1, <1>2, ReplyIs
  <2>2. Becomes(a, [[talk[a] EXCEPT !.pc = pc] EXCEPT !.reply = r])
    BY <1>3 DEF Receive, Now
  <2> HIDE DEF r
  <2>3. Heard(a, pc, i, r)
    BY <2>1, <2>2, <1>1, <1>2 DEF Heard
  <2>4. QED
    BY <2>1, <2>3, <1>1
<1>4. CASE Receive(a, pc, "network", 0, 0)
  <2> DEFINE r == [kind |-> "network", calls |-> 0, id |-> 0]
  <2>1. r \in Received /\ r.kind = "network" /\ r.calls = 0 /\ r.id = 0
    BY <1>2, ReplyIs
  <2>2. Becomes(a, [[talk[a] EXCEPT !.pc = pc] EXCEPT !.reply = r])
    BY <1>4 DEF Receive, Now
  <2> HIDE DEF r
  <2>3. Heard(a, pc, i, r)
    BY <2>1, <2>2, <1>2 DEF Heard
  <2>4. QED
    BY <2>1, <2>3
<1>5. QED
  BY <1>3, <1>4 DEF ReplyComes

Calm == {"text", "empty", "calls", "500", "error", "network"}

LEMMA StartsHears ==
  ASSUME MistralTypeOK, NEW a \in Askers, NEW pc \in TalkPc, StartConversation(a, pc)
  PROVE  ConvsGrow /\ \E i \in Nat : \E r : Heard(a, pc, i, r) /\ r.kind \in Calm
<1>1. CASE /\ Len(convs) < MaxConvs
           /\ \E s \in Speech : /\ convs' = Append(convs, [state |-> "ok", owed |-> s.calls, by |-> talk[a].turn])
                                /\ ReplyComes(a, pc, s, Len(convs) + 1)
  <2>1. PICK s \in Speech : /\ convs' = Append(convs, [state |-> "ok", owed |-> s.calls, by |-> talk[a].turn])
                            /\ ReplyComes(a, pc, s, Len(convs) + 1)
    BY <1>1
  <2> DEFINE c == [state |-> "ok", owed |-> s.calls, by |-> talk[a].turn]
  <2>2. s.calls \in 0 .. MaxParallel /\ talk[a].turn \in 0 .. MaxTurns
    BY SpeechIs, ConvTypes DEF Talk
  <2>3. c \in Conv /\ c.state = "ok" /\ c.owed = s.calls /\ c.by = talk[a].turn
    BY <2>2 DEF Conv
  <2> HIDE DEF c
  <2>4. /\ convs' \in Seq(Conv) /\ Len(convs') = Len(convs) + 1 /\ convs'[Len(convs) + 1] = c
        /\ \A j \in 1 .. Len(convs) : convs'[j] = convs[j]
    BY <2>1, <2>3, ConvTypes, AppendProperties DEF c
  <2>5. ConvsGrow
    BY <1>1, <2>3, <2>4, ConvTypes DEF ConvsGrow
  <2>6. Len(convs) + 1 \in 1 .. Len(convs') /\ Len(convs) + 1 \in Nat
    BY <2>4, ConvTypes
  <2>7. \E r : Heard(a, pc, Len(convs) + 1, r) /\ r.kind \in {"text", "empty", "calls", "network"}
    BY <2>1, <2>3, <2>4, <2>5, <2>6, Replied
  <2>8. QED
    BY <2>5, <2>6, <2>7 DEF Calm
<1>2. CASE ReplyRefuses(a, pc, Outages \cup (IF Len(convs) = MaxConvs THEN {"network"} ELSE {}))
  <2> DEFINE F == Outages \cup (IF Len(convs) = MaxConvs THEN {"network"} ELSE {})
  <2>1. F \subseteq {"500", "error", "network"} /\ F \in SUBSET Failure /\ F \cap {"404", "503"} = {}
    BY DEF Outages, Failure
  <2>2. ReplyRefuses(a, pc, F)
    BY <1>2
  <2> HIDE DEF F
  <2>3. ConvsGrow /\ \E r : Heard(a, pc, 0, r) /\ r.kind \in F
    BY <2>1, <2>2, Refused
  <2>4. QED
    BY <2>1, <2>3 DEF Calm
<1>3. QED
  BY <1>1, <1>2 DEF StartConversation

LEMMA GoesOnHears ==
  ASSUME MistralTypeOK, NEW a \in Askers, NEW pc \in TalkPc, NEW i \in 1 .. Len(convs), GoesOn(a, pc, i)
  PROVE  ConvsGrow /\ \E r : Heard(a, pc, i, r) /\ r.kind \in Calm
<1>1. CASE \E s \in Speech : /\ convs' = [convs EXCEPT ![i].owed = s.calls, ![i].by = talk[a].turn]
                             /\ ReplyComes(a, pc, s, i)
  <2>1. PICK s \in Speech : /\ convs' = [convs EXCEPT ![i].owed = s.calls, ![i].by = talk[a].turn]
                            /\ ReplyComes(a, pc, s, i)
    BY <1>1
  <2>2. s.calls \in 0 .. MaxParallel /\ talk[a].turn \in 0 .. MaxTurns
    BY SpeechIs, ConvTypes DEF Talk
  <2> DEFINE c == [convs[i] EXCEPT !.owed = s.calls, !.by = talk[a].turn]
  <2>3. c \in Conv /\ c.state = convs[i].state /\ c.owed = s.calls /\ c.by = talk[a].turn
    BY <2>2, ConvTypes DEF Conv
  <2>4. convs' = [convs EXCEPT ![i] = c]
    BY <2>1, ConvTypes
  <2> HIDE DEF c
  <2>5. /\ convs' \in Seq(Conv) /\ Len(convs') = Len(convs) /\ convs'[i] = c
        /\ \A j \in 1 .. Len(convs) : j # i => convs'[j] = convs[j]
    BY <2>3, <2>4, ConvTypes, ExceptSeq
  <2>6. ConvsGrow
    BY <2>3, <2>5, ConvTypes DEF ConvsGrow
  <2>7. \E r : Heard(a, pc, i, r) /\ r.kind \in {"text", "empty", "calls", "network"}
    BY <2>1, <2>3, <2>5, <2>6, Replied
  <2>8. QED
    BY <2>6, <2>7 DEF Calm
<1>2. CASE ReplyRefuses(a, pc, Outages)
  <2>1. Outages \subseteq {"500", "error", "network"} /\ Outages \in SUBSET Failure /\ Outages \cap {"404", "503"} = {}
    BY DEF Outages, Failure
  <2>2. ConvsGrow /\ \E r : Heard(a, pc, i, r) /\ r.kind \in Outages
    BY <2>1, <1>2, Refused
  <2>3. QED
    BY <2>1, <2>2 DEF Calm
<1>3. QED
  BY <1>1, <1>2 DEF GoesOn

LEMMA StandingIs ==
  ASSUME MistralTypeOK, NEW i \in 1 .. Len(convs)
  PROVE  /\ Standing(i) \in SUBSET {"404", "503"} /\ Standing(i) \in SUBSET Failure
         /\ Standing(i) # {} <=> convs[i].state # "ok"
  BY ConvTypes DEF Standing, Failure, Conv

\* Why a conversation does not take what it is sent.
LEMMA ContinuesHears ==
  ASSUME MistralTypeOK, NEW a \in Askers, NEW i \in 1 .. Len(convs), Continues(a, i)
  PROVE  ConvsGrow /\ \E r : /\ Heard(a, "continued", i, r) /\ r.kind \in Calm \cup {"400", "404", "503"}
                             /\ r.kind = "400" => convs' = convs /\ convs[i].owed > 0
<1>0. "continued" \in TalkPc
  BY DEF TalkPc
<1>1. CASE Standing(i) # {}
  <2>1. ReplyRefuses(a, "continued", Standing(i))
    BY <1>1 DEF Continues
  <2>2. ConvsGrow /\ \E r : Heard(a, "continued", i, r) /\ r.kind \in Standing(i)
    BY <1>0, <1>1, <2>1, StandingIs, Refused
  <2>3. QED
    BY <2>2, StandingIs
<1>2. CASE Standing(i) = {} /\ convs[i].owed > 0
  <2>1. ReplyRefuses(a, "continued", {"400"})
    BY <1>2 DEF Continues
  <2>2. {"400"} \in SUBSET Failure /\ {"400"} \cap {"404", "503"} = {}
    BY DEF Failure
  <2>3. ConvsGrow /\ convs' = convs /\ \E r : Heard(a, "continued", i, r) /\ r.kind \in {"400"}
    BY <1>0, <2>1, <2>2, Refused
  <2>4. QED
    BY <1>2, <2>3
<1>3. CASE Standing(i) = {} /\ ~(convs[i].owed > 0)
  <2>1. GoesOn(a, "continued", i)
    BY <1>3 DEF Continues
  <2>2. QED
    BY <1>0, <2>1, GoesOnHears DEF Calm
<1>4. QED
  BY <1>1, <1>2, <1>3

LEMMA ResultsHears ==
  ASSUME MistralTypeOK, NEW a \in Askers, NEW i \in 1 .. Len(convs), NEW n, Results(a, i, n)
  PROVE  ConvsGrow /\ \E r : /\ Heard(a, "reported", i, r) /\ r.kind \in Calm \cup {"400", "404", "503"}
                             /\ r.kind = "400" => convs' = convs /\ (convs[i].owed # n \/ convs[i].by # talk[a].turn)
<1>0. "reported" \in TalkPc
  BY DEF TalkPc
<1>1. CASE Standing(i) # {}
  <2>1. ReplyRefuses(a, "reported", Standing(i))
    BY <1>1 DEF Results
  <2>2. ConvsGrow /\ \E r : Heard(a, "reported", i, r) /\ r.kind \in Standing(i)
    BY <1>0, <1>1, <2>1, StandingIs, Refused
  <2>3. QED
    BY <2>2, StandingIs
<1>2. CASE Standing(i) = {} /\ (convs[i].owed # n \/ convs[i].by # talk[a].turn)
  <2>1. ReplyRefuses(a, "reported", {"400"})
    BY <1>2 DEF Results
  <2>2. {"400"} \in SUBSET Failure /\ {"400"} \cap {"404", "503"} = {}
    BY DEF Failure
  <2>3. ConvsGrow /\ convs' = convs /\ \E r : Heard(a, "reported", i, r) /\ r.kind \in {"400"}
    BY <1>0, <2>1, <2>2, Refused
  <2>4. QED
    BY <1>2, <2>3
<1>3. CASE Standing(i) = {} /\ ~(convs[i].owed # n \/ convs[i].by # talk[a].turn)
  <2>1. GoesOn(a, "reported", i)
    BY <1>3 DEF Results
  <2>2. QED
    BY <1>0, <2>1, GoesOnHears DEF Calm
<1>4. QED
  BY <1>1, <1>2, <1>3

\* The request goes on, with the reply and the turn it has.
GoesAs(a, t) == Becomes(a, t) /\ t \in Talk /\ t.reply = talk[a].reply /\ t.turn = talk[a].turn
Crashes == crashed' = TRUE /\ UNCHANGED talk
IdsTyped == /\ holder' \in Holder /\ kept' \in Ids /\ copy' \in Copy
            /\ holder'.id <= Len(convs') /\ kept' <= Len(convs')
\* What becomes of the saved id: it is left alone, or it is the holder's, or that failed.
IdsFollow ==
    \/ holder'.id = holder.id /\ UNCHANGED <<kept, copy>>
    \/ copy' = "unsaved" /\ kept' = kept
    \/ kept' = holder'.id

LEMMA KeepsIds == MistralTyped /\ KeepsId /\ ConvsGrow => IdsTyped /\ IdsFollow /\ holder'.id = holder.id
<1> SUFFICES ASSUME MistralTyped, KeepsId, ConvsGrow PROVE IdsTyped /\ IdsFollow /\ holder'.id = holder.id
  OBVIOUS
<1>1. holder \in Holder /\ kept \in Ids /\ copy \in Copy /\ holder.id \in Ids
  BY DEF MistralTyped, MistralTypeOK, Holder
<1>2. /\ holder.id <= Len(convs) /\ kept <= Len(convs)
      /\ Len(convs) \in Nat /\ Len(convs') \in Nat /\ Len(convs) <= Len(convs')
  BY ConvTypes DEF MistralTyped, ConvsGrow
<1>3. holder.id <= Len(convs') /\ kept <= Len(convs')
  BY <1>1, <1>2, ConvTypes DEF Ids, MistralTyped
<1>4. QED
  BY <1>1, <1>3 DEF KeepsId, IdsTyped, IdsFollow

LEMMA AdoptsIds ==
  ASSUME MistralTyped, NEW i \in Ids, i <= Len(convs), UNCHANGED convs, Adopts(i)
  PROVE  IdsTyped /\ IdsFollow /\ holder'.id = i
  BY ConvTypes DEF MistralTyped, MistralTypeOK, Adopts, Holds, saveConversationId, IdsTyped, IdsFollow, Holder, Copy

LEMMA SameConvs == MistralTyped /\ UNCHANGED convs => ConvsGrow
  BY ConvTypes DEF ConvsGrow, MistralTyped

LEMMA NamedTalk ==
  ASSUME MistralTyped, NEW a \in Askers
  PROVE  /\ talk[a] \in Talk /\ talk[a].pc \in TalkPc /\ talk[a].reply \in Received
         /\ talk[a].reply.id \in Ids /\ talk[a].reply.id <= Len(convs) /\ 0 \in Ids /\ 0 <= Len(convs)
         /\ talk[a].reply.calls \in 0 .. MaxParallel
         /\ talk[a].reply.kind = "calls" <=> talk[a].reply.calls > 0
         /\ talk[a].results \in 0 .. MaxParallel /\ talk[a].rounds \in 0 .. MaxRounds
         /\ talk[a].turn \in 0 .. MaxTurns /\ talk[a].faulty \in BOOLEAN
         /\ talk[a].pc = "functions" => talk[a].results <= talk[a].reply.calls
         /\ holder \in Holder /\ holder.id \in Ids /\ holder.id <= Len(convs)
<1>1. talk[a] \in Talk /\ talk[a].reply \in Received
  BY ConvTypes DEF MistralTyped, Talk
<1>2. holder \in Holder /\ holder.id \in Ids /\ holder.id <= Len(convs) /\ TalkNamed(talk[a])
  BY DEF MistralTyped, MistralTypeOK, Holder
<1>3. 0 \in Ids /\ 0 <= Len(convs)
  BY ConvTypes DEF MistralTyped, Ids
<1>4. talk[a].reply.id \in Ids /\ talk[a].reply.calls \in 0 .. MaxParallel
  BY <1>1 DEF Received
<1>5. /\ talk[a].pc \in TalkPc /\ talk[a].results \in 0 .. MaxParallel /\ talk[a].rounds \in 0 .. MaxRounds
      /\ talk[a].turn \in 0 .. MaxTurns /\ talk[a].faulty \in BOOLEAN
  BY <1>1 DEF Talk, TalkPc
<1>6. QED
  BY <1>1, <1>2, <1>3, <1>4, <1>5 DEF TalkNamed

LEMMA GoesTo ==
  ASSUME MistralTyped, NEW a \in Askers, NEW pc \in TalkPc
  PROVE  /\ Becomes(a, Now(a, pc)) => \E t : GoesAs(a, t) /\ t.pc = pc /\ t.faulty = talk[a].faulty
         /\ Becomes(a, Suffers(a, pc)) => \E t : GoesAs(a, t) /\ t.pc = pc /\ t.faulty = TRUE
<1> DEFINE t == talk[a]
<1>1. t \in Talk
  BY NamedTalk
<1> HIDE DEF t
<1>2. LET u == [t EXCEPT !.pc = pc]
          v == [t EXCEPT !.pc = pc, !.faulty = TRUE]
      IN /\ u \in Talk /\ u.pc = pc /\ u.turn = t.turn /\ u.reply = t.reply /\ u.faulty = t.faulty
         /\ v \in Talk /\ v.pc = pc /\ v.turn = t.turn /\ v.reply = t.reply /\ v.faulty = TRUE
  BY <1>1, TalkMoves
<1>3. QED
  BY <1>2 DEF t, Now, Suffers, GoesAs

LEMMA CountsTo ==
  ASSUME MistralTyped, NEW a \in Askers, NEW k \in 0 .. MaxRounds
  PROVE  /\ Becomes(a, [Now(a, "functions") EXCEPT !.results = 0]) =>
               \E t : GoesAs(a, t) /\ t.pc = "functions" /\ t.results = 0
         /\ Becomes(a, [Now(a, "functions") EXCEPT !.results = 0, !.rounds = k]) =>
               \E t : GoesAs(a, t) /\ t.pc = "functions" /\ t.results = 0
<1>1. 0 \in 0 .. MaxParallel
  BY ConvTypes DEF MistralTyped
<1> DEFINE t == talk[a]
<1>2. t \in Talk
  BY NamedTalk
<1> HIDE DEF t
<1>3. LET u == [[t EXCEPT !.pc = "functions"] EXCEPT !.results = 0]
          v == [[t EXCEPT !.pc = "functions"] EXCEPT !.results = 0, !.rounds = k]
      IN /\ u \in Talk /\ u.pc = "functions" /\ u.turn = t.turn /\ u.reply = t.reply /\ u.results = 0
         /\ v \in Talk /\ v.pc = "functions" /\ v.turn = t.turn /\ v.reply = t.reply /\ v.results = 0
  BY <1>1, <1>2 DEF Talk
<1>4. QED
  BY <1>3 DEF t, Now, GoesAs

\* What a request makes of an answer.
AnswerTaken(a, t) ==
  /\ GoesAs(a, t)
  /\ \/ t.pc = "answered"
     \/ t.pc = "functions" /\ t.results = 0 /\ t.reply.kind = "calls"
     \/ t.pc = "emptied" /\ t.faulty = TRUE

LEMMA TakesAnswerIs ==
  ASSUME MistralTyped, NEW a \in Askers, TakesAnswer(a)
  PROVE  Crashes \/ (UNCHANGED crashed /\ \E t : AnswerTaken(a, t))
<1>0. {"answered", "functions", "emptied"} \subseteq TalkPc
  BY DEF TalkPc
<1>1. CASE talk[a].reply.kind = "text"
  <2>1. Appends(a, Now(a, "answered"))
    BY <1>1 DEF TakesAnswer, processResponse
  <2>2. Crashes \/ (UNCHANGED crashed /\ Becomes(a, Now(a, "answered")))
    BY <2>1 DEF Appends, Crashes
  <2>3. QED
    BY <1>0, <2>2, GoesTo DEF AnswerTaken
<1>2. CASE talk[a].reply.kind = "calls"
  <2>1. Becomes(a, [Now(a, "functions") EXCEPT !.results = 0]) /\ UNCHANGED crashed
    BY <1>2 DEF TakesAnswer, processResponse
  <2>2. 0 \in 0 .. MaxRounds
    BY ConvTypes DEF MistralTyped
  <2>3. PICK t : GoesAs(a, t) /\ t.pc = "functions" /\ t.results = 0
    BY <2>1, <2>2, CountsTo
  <2>4. QED
    BY <1>2, <2>1, <2>3 DEF AnswerTaken, GoesAs
<1>3. CASE talk[a].reply.kind \notin {"text", "calls"}
  <2>1. Becomes(a, Suffers(a, "emptied")) /\ UNCHANGED crashed
    BY <1>3 DEF TakesAnswer, processResponse
  <2>2. QED
    BY <1>0, <2>1, GoesTo DEF AnswerTaken
<1>4. QED
  BY <1>1, <1>2, <1>3

\* The variables of the conversations' ids and of the tools have their types.
LEMMA TypedAfter ==
  ASSUME MistralTyped, NEW a \in Askers, NEW t \in Talk, Becomes(a, t), ConvsGrow, IdsTyped,
         tools' \in [server : {0, 1}, agent : {0, 1, 2}], crashed' \in BOOLEAN,
         UNCHANGED <<place, restarts>>, turns' \in 0 .. MaxTurns,
         t.reply.id <= Len(convs'), t.reply.kind = "calls" <=> t.reply.calls > 0,
         t.pc = "functions" => t.results <= t.reply.calls
  PROVE  MistralTyped'
<1>1. talk' \in [Askers -> Talk] /\ talk'[a] = t /\ \A b \in Askers \ {a} : talk'[b] = talk[b]
  BY ConvTypes, TalkBecomes DEF MistralTyped
<1>2. MistralTypeOK'
  BY <1>1 DEF MistralTyped, MistralTypeOK, ConvsGrow, IdsTyped, Ids, Conv, Talk, Received, Holder, Nothing
<1>3. \A b \in Askers : TalkNamed(talk[b])'
  <2> SUFFICES ASSUME NEW b \in Askers PROVE TalkNamed(talk[b])'
    OBVIOUS
  <2>1. CASE b = a
    BY <1>1, <2>1 DEF TalkNamed
  <2>2. CASE b # a
    <3>1. talk'[b] = talk[b] /\ TalkNamed(talk[b])
      BY <1>1, <2>2 DEF MistralTyped
    <3>2. Len(convs) \in Nat /\ Len(convs') \in Nat /\ talk[b].reply.id \in Nat /\ Len(convs) <= Len(convs')
      BY ConvTypes, NamedTalk DEF MistralTyped, ConvsGrow, Ids
    <3>3. QED
      BY <3>1, <3>2 DEF TalkNamed
  <2>3. QED
    BY <2>1, <2>2
<1>4. QED
  BY <1>2, <1>3 DEF MistralTyped, IdsTyped

LEMMA TypedTake ==
  ASSUME MistralTyped, NEW a \in Askers, NEW t, GoesAs(a, t), UNCHANGED <<convs, crashed, place, restarts, turns>>,
         IdsTyped, tools' \in [server : {0, 1}, agent : {0, 1, 2}],
         t.pc = "functions" => t.results <= t.reply.calls
  PROVE  MistralTyped'
  BY TypedAfter, SameConvs, NamedTalk DEF GoesAs, MistralTyped, MistralTypeOK

--------------------------------------------------------------------------------
\* The steps of a request, in short.

Versions == [server : {0, 1}, agent : {0, 1, 2}]
PlaceStays == UNCHANGED <<place, turns, restarts>>
ToolsStay == UNCHANGED tools

LEMMA SyncIs ==
  ASSUME MistralTyped, NEW a \in Askers, syncAgentTools(a)
  PROVE  /\ talk[a].pc = "sync" /\ PlaceStays /\ UNCHANGED <<convs, crashed>> /\ tools' \in Versions
         /\ IdsTyped /\ IdsFollow
         /\ \E t : GoesAs(a, t) /\ (t.pc = "ask" \/ (t.pc = "failed" /\ t.faulty = TRUE))
<1>0. /\ talk[a].pc = "sync" /\ PlaceStays /\ UNCHANGED <<convs, crashed>> /\ ConvsGrow
      /\ "ask" \in TalkPc /\ "failed" \in TalkPc
  BY SameConvs DEF syncAgentTools, TalkAt, PlaceStays, TalkPc
<1>t. tools \in Versions /\ holder \in Holder /\ kept \in Ids /\ copy \in Copy
  BY DEF MistralTyped, MistralTypeOK, Versions
<1>i. holder.id <= Len(convs) /\ kept <= Len(convs) /\ 0 \in Ids /\ 0 <= Len(convs) /\ holder.id \in Ids
  BY NamedTalk DEF MistralTyped
<1>g. /\ Becomes(a, Now(a, "ask")) => \E t : GoesAs(a, t) /\ (t.pc = "ask" \/ (t.pc = "failed" /\ t.faulty = TRUE))
      /\ Becomes(a, Suffers(a, "failed")) => \E t : GoesAs(a, t) /\ (t.pc = "ask" \/ (t.pc = "failed" /\ t.faulty = TRUE))
  BY <1>0, GoesTo
<1>1. CASE /\ PatchAgent(a) /\ Becomes(a, Now(a, "ask"))
           /\ holder' = [holder EXCEPT !.synced = TRUE, !.id = 0]
           /\ IF holder.id # 0 THEN saveConversationId(0) ELSE UNCHANGED <<kept, copy>>
  <2>1. tools' \in Versions
    BY <1>1, <1>t DEF PatchAgent, FetchToolsList, Versions
  <2>2. holder' \in Holder /\ holder'.id = 0
    BY <1>1, <1>t, <1>i DEF Holder
  <2>3. CASE holder.id # 0
    <3>1. kept' \in Ids /\ copy' \in Copy /\ kept' <= Len(convs) /\ ((copy' = "unsaved" /\ kept' = kept) \/ kept' = 0)
      BY <1>1, <1>t, <1>i, <2>3 DEF saveConversationId, Copy
    <3>2. QED
      BY <1>0, <1>1, <1>g, <2>1, <2>2, <3>1 DEF IdsTyped, IdsFollow
  <2>4. CASE holder.id = 0
    <3>1. UNCHANGED <<kept, copy>>
      BY <1>1, <2>4
    <3>2. IdsTyped
      BY <1>0, <1>t, <1>i, <2>2, <3>1 DEF IdsTyped
    <3>3. IdsFollow
      BY <3>1, <2>2, <2>4 DEF IdsFollow
    <3>4. QED
      BY <1>0, <1>1, <2>1, <3>2, <3>3, <1>g
  <2>5. QED
    BY <2>3, <2>4
<1>2. CASE /\ Becomes(a, Now(a, "ask"))
           /\ holder' = [holder EXCEPT !.synced = TRUE] /\ UNCHANGED <<kept, copy, tools>>
  BY <1>0, <1>2, <1>t, <1>i, <1>g DEF Holder, IdsTyped, IdsFollow
<1>3. CASE Becomes(a, Suffers(a, "failed")) /\ KeepsId /\ UNCHANGED tools
  BY <1>0, <1>3, <1>t, KeepsIds, <1>g
<1>4. QED
  BY <1>1, <1>2, <1>3 DEF syncAgentTools

\* A request that calls the API changes nothing of its own but what it is told.
IdsStay == UNCHANGED <<holder, kept, copy>>
Quietly == PlaceStays /\ ToolsStay /\ IdsStay

LEMMA PutsIs ==
  ASSUME MistralTyped, NEW a \in Askers, PutsQuestion(a)
  PROVE  /\ talk[a].pc = "ask" /\ ~crashed /\ Quietly
         /\ \/ Crashes /\ UNCHANGED convs
            \/ /\ UNCHANGED crashed /\ ConvsGrow
               /\ \E i \in Nat : \E r :
                    \/ holder.id = 0 /\ Heard(a, "begun", i, r) /\ r.kind \in Calm
                    \/ /\ holder.id # 0 /\ i = holder.id /\ Heard(a, "continued", i, r)
                       /\ r.kind \in Calm \cup {"400", "404", "503"}
                       /\ r.kind = "400" => convs' = convs /\ convs[i].owed > 0
<1>0. /\ talk[a].pc = "ask" /\ ~crashed /\ Quietly /\ "begun" \in TalkPc /\ MistralTypeOK
  BY DEF PutsQuestion, TalkAt, Quietly, PlaceStays, ToolsStay, IdsStay, TalkPc, MistralTyped
<1>1. CASE ~holder.context
  BY <1>0, <1>1 DEF PutsQuestion, Crashes
<1>2. CASE holder.context /\ holder.id = 0 /\ Starts(a, "begun") /\ UNCHANGED crashed
  <2>1. StartConversation(a, "begun")
    BY <1>2 DEF Starts, StartConversationStreaming
  <2>2. ConvsGrow /\ \E i \in Nat : \E r : Heard(a, "begun", i, r) /\ r.kind \in Calm
    BY <1>0, <2>1, StartsHears
  <2>3. QED
    BY <1>0, <1>2, <2>2
<1>3. CASE holder.context /\ holder.id # 0 /\ Continues(a, holder.id) /\ UNCHANGED crashed
  <2>1. holder.id \in 1 .. Len(convs) /\ holder.id \in Nat
    BY <1>3, NamedTalk, ConvTypes DEF Ids, MistralTyped
  <2>2. ConvsGrow /\ \E r : /\ Heard(a, "continued", holder.id, r) /\ r.kind \in Calm \cup {"400", "404", "503"}
                            /\ r.kind = "400" => convs' = convs /\ convs[holder.id].owed > 0
    BY <1>0, <1>3, <2>1, ContinuesHears
  <2>3. QED
    BY <1>0, <1>3, <2>1, <2>2
<1>4. QED
  BY <1>1, <1>2, <1>3 DEF PutsQuestion, ContinueConversationStreaming, ContinueConversation

LEMMA StartsAnewIs ==
  ASSUME MistralTyped, NEW a \in Askers, StartsAnew(a)
  PROVE  /\ talk[a].pc = "recover" /\ Quietly /\ UNCHANGED crashed /\ ConvsGrow
         /\ \E i \in Nat : \E r : Heard(a, "begun", i, r) /\ r.kind \in Calm
<1>1. /\ talk[a].pc = "recover" /\ Quietly /\ UNCHANGED crashed /\ "begun" \in TalkPc /\ MistralTypeOK
  BY DEF StartsAnew, TalkAt, Quietly, PlaceStays, ToolsStay, IdsStay, TalkPc, MistralTyped
<1>2. StartConversation(a, "begun")
  BY DEF StartsAnew, Starts, StartConversationStreaming
<1>3. QED
  BY <1>1, <1>2, StartsHears

\* The answer is taken, or the request crashes on it.
AnswersOnce(a) == Crashes \/ (UNCHANGED crashed /\ \E t : AnswerTaken(a, t))
FailsAs(a, pc) == UNCHANGED crashed /\ \E t : GoesAs(a, t) /\ t.pc = pc /\ t.faulty = TRUE

LEMMA TakesBegunIs ==
  ASSUME MistralTyped, NEW a \in Askers, TakesBegun(a)
  PROVE  /\ talk[a].pc = "begun" /\ ~crashed /\ PlaceStays /\ ToolsStay /\ UNCHANGED convs /\ IdsTyped /\ IdsFollow
         /\ \/ Spoke(a) /\ holder'.id = talk[a].reply.id /\ AnswersOnce(a)
            \/ ~Spoke(a) /\ holder'.id = holder.id /\ FailsAs(a, "failed")
<1>0. talk[a].pc = "begun" /\ ~crashed /\ PlaceStays /\ ToolsStay /\ UNCHANGED convs /\ "failed" \in TalkPc /\ ConvsGrow
  BY SameConvs DEF TakesBegun, TalkAt, PlaceStays, ToolsStay, TalkPc
<1>1. CASE Spoke(a) /\ Adopts(talk[a].reply.id) /\ TakesAnswer(a)
  BY <1>0, <1>1, NamedTalk, AdoptsIds, TakesAnswerIs DEF AnswersOnce
<1>2. CASE ~Spoke(a) /\ KeepsId /\ Becomes(a, Suffers(a, "failed")) /\ UNCHANGED crashed
  BY <1>0, <1>2, KeepsIds, GoesTo DEF FailsAs
<1>3. QED
  BY <1>1, <1>2 DEF TakesBegun

LEMMA AdoptsNewIds ==
  ASSUME MistralTyped, NEW i \in Ids, i <= Len(convs), UNCHANGED convs, AdoptsNew(i)
  PROVE  IdsTyped /\ IdsFollow /\ holder'.id = IF i = 0 THEN holder.id ELSE i
<1>1. CASE i \in {0, holder.id}
  <2>1. KeepsId
    BY <1>1 DEF AdoptsNew
  <2>2. QED
    BY <1>1, <2>1, SameConvs, KeepsIds
<1>2. CASE i \notin {0, holder.id}
  <2>1. Adopts(i)
    BY <1>2 DEF AdoptsNew
  <2>2. QED
    BY <1>2, <2>1, AdoptsIds
<1>3. QED
  BY <1>1, <1>2

\* A conversation is given up: for what the reply is, and whether the database hears of it.
ForgetsId(failure) ==
  /\ holder'.id = 0
  /\ IdsFollow \/ (~place.stream /\ failure \in {"404", "503"} /\ UNCHANGED <<kept, copy>>)

LEMMA TakesContinuedIs ==
  ASSUME MistralTyped, NEW a \in Askers, TakesContinued(a)
  PROVE  LET failure == talk[a].reply.kind IN
         /\ talk[a].pc = "continued" /\ ~crashed /\ PlaceStays /\ ToolsStay /\ UNCHANGED convs /\ IdsTyped
         /\ \/ /\ Spoke(a) /\ IdsFollow /\ AnswersOnce(a)
               /\ holder'.id = IF talk[a].reply.id = 0 THEN holder.id ELSE talk[a].reply.id
            \/ /\ failure \in {"400", "404", "503", "500"} /\ ForgetsId(failure)
               /\ UNCHANGED crashed /\ \E t : GoesAs(a, t) /\ t.pc = "recover"
            \/ /\ ~Spoke(a) /\ holder'.id = holder.id /\ IdsFollow /\ UNCHANGED crashed
               /\ \E t : GoesAs(a, t) /\ t.pc = "failed" /\ (place.stream => t.faulty = TRUE)
<1> DEFINE failure == talk[a].reply.kind
<1>0. /\ talk[a].pc = "continued" /\ ~crashed /\ PlaceStays /\ ToolsStay /\ UNCHANGED convs
      /\ "failed" \in TalkPc /\ "recover" \in TalkPc /\ ConvsGrow
  BY SameConvs DEF TakesContinued, TalkAt, PlaceStays, ToolsStay, TalkPc
<1>1. CASE Spoke(a) /\ AdoptsNew(talk[a].reply.id) /\ TakesAnswer(a)
  BY <1>0, <1>1, NamedTalk, AdoptsNewIds, TakesAnswerIs DEF AnswersOnce
<1>2. CASE /\ GivesUpStreaming(failure) \/ RequestGivesUp(failure)
           /\ Forgets(failure) /\ Becomes(a, Now(a, "recover")) /\ UNCHANGED crashed
  <2>1. failure \in {"400", "404", "503", "500"}
    BY <1>2 DEF GivesUpStreaming, RequestGivesUp
  <2>2. \E t : GoesAs(a, t) /\ t.pc = "recover"
    <3>1. "recover" \in TalkPc /\ Becomes(a, Now(a, "recover"))
      BY <1>0, <1>2
    <3>2. QED
      BY <3>1, GoesTo
  <2>3. CASE ~place.stream /\ failure \in {"404", "503"}
    <3>1. Holds(0) /\ UNCHANGED <<kept, copy>>
      BY <1>2, <2>3 DEF Forgets
    <3>2. /\ holder \in Holder /\ 0 \in Ids /\ 0 <= Len(convs) /\ kept \in Ids /\ copy \in Copy
          /\ kept <= Len(convs)
      BY NamedTalk DEF MistralTyped, MistralTypeOK
    <3>3. holder' \in Holder /\ holder'.id = 0
      BY <3>1, <3>2 DEF Holds, Holder
    <3>4. IdsTyped /\ ForgetsId(failure)
      BY <1>0, <2>3, <3>1, <3>2, <3>3 DEF IdsTyped, ForgetsId
    <3>5. QED
      BY <1>0, <1>2, <2>1, <2>2, <3>4
  <2>4. CASE ~(~place.stream /\ failure \in {"404", "503"})
    <3>1. Adopts(0)
      BY <1>2, <2>4 DEF Forgets
    <3>2. IdsTyped /\ IdsFollow /\ holder'.id = 0
      BY <1>0, <3>1, NamedTalk, AdoptsIds
    <3>3. QED
      BY <1>0, <1>2, <2>1, <2>2, <3>2 DEF ForgetsId
  <2>5. QED
    BY <2>3, <2>4
<1>3. CASE /\ ~Spoke(a) /\ ~GivesUpStreaming(failure) /\ ~RequestGivesUp(failure)
           /\ KeepsId /\ Becomes(a, TalkFails(a, failure)) /\ UNCHANGED crashed
  <2>1. IdsTyped /\ IdsFollow /\ holder'.id = holder.id
    BY <1>0, <1>3, KeepsIds
  <2>2. CASE failure = "400"
    <3>1. ~place.stream /\ Becomes(a, Now(a, "failed"))
      BY <1>3, <2>2 DEF GivesUpStreaming, TalkFails
    <3>2. \E t : GoesAs(a, t) /\ t.pc = "failed"
      BY <1>0, <3>1, GoesTo
    <3>3. QED
      BY <1>0, <1>3, <2>1, <3>1, <3>2
  <2>3. CASE failure # "400"
    <3>1. Becomes(a, Suffers(a, "failed"))
      BY <1>3, <2>3 DEF TalkFails
    <3>2. \E t : GoesAs(a, t) /\ t.pc = "failed" /\ t.faulty = TRUE
      BY <1>0, <3>1, GoesTo
    <3>3. QED
      BY <1>0, <1>3, <2>1, <3>2
  <2>4. QED
    BY <2>2, <2>3
<1>4. QED
  BY <1>1, <1>2, <1>3 DEF TakesContinued

LEMMA WantedIs ==
  ASSUME MistralTyped, NEW a \in Askers
  PROVE  /\ Wanted(a) \in 0 .. talk[a].reply.calls
         /\ place.stream => Wanted(a) = talk[a].reply.calls
  BY NamedTalk DEF Wanted, extractFunctionCalls, ParseConversationResponse

LEMMA RunsFunctionIs ==
  ASSUME MistralTyped, NEW a \in Askers, RunsFunction(a)
  PROVE  /\ talk[a].pc = "functions" /\ ~crashed /\ Quietly /\ UNCHANGED convs
         /\ \/ Crashes
            \/ UNCHANGED crashed /\ \E t : GoesAs(a, t) /\ t.pc = "functions" /\ t.results <= t.reply.calls
<1>0. talk[a].pc = "functions" /\ ~crashed /\ Quietly /\ UNCHANGED convs /\ talk[a].results < Wanted(a)
  BY DEF RunsFunction, TalkAt, Quietly, PlaceStays, ToolsStay, IdsStay
<1>1. Appends(a, [talk[a] EXCEPT !.results = @ + 1])
  BY DEF RunsFunction
<1>2. CASE Crashes
  BY <1>0, <1>2
<1>3. CASE Becomes(a, [talk[a] EXCEPT !.results = @ + 1]) /\ UNCHANGED crashed
  <2> DEFINE t == [talk[a] EXCEPT !.results = @ + 1]
  <2>1. talk[a].results + 1 <= talk[a].reply.calls /\ talk[a].results + 1 \in 0 .. MaxParallel
    BY <1>0, NamedTalk, WantedIs, ConvTypes DEF MistralTyped
  <2>2. /\ t \in Talk /\ t.pc = "functions" /\ t.reply = talk[a].reply /\ t.turn = talk[a].turn
        /\ t.results = talk[a].results + 1
    BY <1>0, <2>1, NamedTalk DEF Talk
  <2>3. Becomes(a, t)
    BY <1>3
  <2> HIDE DEF t
  <2>4. GoesAs(a, t) /\ t.results <= t.reply.calls
    BY <2>1, <2>2, <2>3 DEF GoesAs
  <2>5. QED
    BY <1>0, <1>3, <2>2, <2>4
<1>4. QED
  BY <1>1, <1>2, <1>3 DEF Appends, Crashes

LEMMA ReportsResultsIs ==
  ASSUME MistralTyped, NEW a \in Askers, ReportsResults(a)
  PROVE  /\ talk[a].pc = "functions" /\ ~crashed /\ Quietly /\ UNCHANGED crashed
         /\ \/ /\ holder.id # 0 /\ ConvsGrow
               /\ \E r : /\ Heard(a, "reported", holder.id, r) /\ r.kind \in Calm \cup {"400", "404", "503"}
                         /\ r.kind = "400" =>
                               /\ convs' = convs
                               /\ \/ convs[holder.id].owed # IF place.stream THEN talk[a].reply.calls ELSE 1
                                  \/ convs[holder.id].by # talk[a].turn
            \/ holder.id = 0 /\ UNCHANGED convs /\ \E t : GoesAs(a, t) /\ t.pc = "emptied"
            \/ /\ holder.id = 0 /\ ~place.stream /\ ConvsGrow
               /\ \E i \in Nat : \E r : Heard(a, "retold", i, r) /\ r.kind \in Calm
<1>0. /\ talk[a].pc = "functions" /\ ~crashed /\ Quietly /\ UNCHANGED crashed /\ talk[a].results = Wanted(a)
      /\ MistralTypeOK /\ {"emptied", "retold"} \subseteq TalkPc
  BY DEF ReportsResults, TalkAt, Quietly, PlaceStays, ToolsStay, IdsStay, MistralTyped, TalkPc
<1>1. CASE /\ holder.id # 0
           /\ Results(a, holder.id, IF place.stream THEN talk[a].results ELSE 1)
  <2>1. holder.id \in 1 .. Len(convs)
    BY <1>1, NamedTalk, ConvTypes DEF Ids, MistralTyped
  <2> DEFINE n == IF place.stream THEN talk[a].results ELSE 1
  <2>2. Results(a, holder.id, n)
    BY <1>1
  <2>3. n = IF place.stream THEN talk[a].reply.calls ELSE 1
    BY <1>0, WantedIs
  <2> HIDE DEF n
  <2>4. ConvsGrow /\ \E r : /\ Heard(a, "reported", holder.id, r) /\ r.kind \in Calm \cup {"400", "404", "503"}
                            /\ r.kind = "400" => convs' = convs /\ (convs[holder.id].owed # n \/ convs[holder.id].by # talk[a].turn)
    BY <1>0, <2>1, <2>2, ResultsHears
  <2>5. QED
    BY <1>0, <1>1, <2>3, <2>4
<1>2. CASE holder.id = 0 /\ Becomes(a, Now(a, "emptied")) /\ UNCHANGED convs
  <2>1. "emptied" \in TalkPc
    BY DEF TalkPc
  <2>2. \E t : GoesAs(a, t) /\ t.pc = "emptied"
    BY <1>2, <2>1, GoesTo
  <2>3. QED
    BY <1>0, <1>2, <2>2
<1>3. CASE holder.id = 0 /\ ~place.stream /\ StartConversation(a, "retold")
  BY <1>0, <1>3, StartsHears
<1>4. QED
  BY <1>1, <1>2, <1>3 DEF ReportsResults, SendMultipleFunctionResultsStreaming, SendFunctionResult

LEMMA TakesReportedIs ==
  ASSUME MistralTyped, NEW a \in Askers, TakesReported(a)
  PROVE  LET failure == talk[a].reply.kind IN
         /\ talk[a].pc \in {"reported", "retold"} /\ ~crashed /\ PlaceStays /\ ToolsStay /\ UNCHANGED convs
         /\ IdsTyped /\ IdsFollow
         /\ \/ /\ Spoke(a) /\ AnswersOnce(a)
               /\ holder'.id = IF talk[a].reply.id = 0 THEN holder.id ELSE talk[a].reply.id
            \/ /\ ~Spoke(a) /\ holder'.id = holder.id
               /\ FailsAs(a, "emptied") \/ FailsAs(a, "failed")
            \/ /\ talk[a].pc = "reported" /\ failure \in {"400", "503", "error"} /\ holder'.id = 0 /\ UNCHANGED crashed
               /\ \E t : /\ GoesAs(a, t)
                         /\ \/ t.pc \in {"emptied", "failed"} /\ (failure # "400" => t.faulty = TRUE)
                            \/ t.pc = "regain" /\ ~place.stream
<1> DEFINE failure == talk[a].reply.kind
<1>0. /\ talk[a].pc \in {"reported", "retold"} /\ ~crashed /\ PlaceStays /\ ToolsStay /\ UNCHANGED convs
      /\ {"failed", "emptied", "regain"} \subseteq TalkPc /\ ConvsGrow
  BY SameConvs DEF TakesReported, TalkAt, PlaceStays, ToolsStay, TalkPc
<1>1. CASE /\ Spoke(a) /\ AdoptsNew(talk[a].reply.id)
           /\ IF failure = "calls" THEN NextRound(a) /\ UNCHANGED crashed ELSE TakesAnswer(a)
  <2>1. IdsTyped /\ IdsFollow /\ holder'.id = IF talk[a].reply.id = 0 THEN holder.id ELSE talk[a].reply.id
    BY <1>0, <1>1, NamedTalk, AdoptsNewIds
  <2>2. CASE failure # "calls"
    BY <1>0, <1>1, <2>1, <2>2, TakesAnswerIs DEF AnswersOnce
  <2>3. CASE failure = "calls" /\ talk[a].rounds + 1 < MaxRounds
    <3>1. talk[a].rounds + 1 \in 0 .. MaxRounds
      BY <2>3, NamedTalk, ConvTypes DEF MistralTyped
    <3> DEFINE k == talk[a].rounds + 1
    <3>2. Becomes(a, [Now(a, "functions") EXCEPT !.results = 0, !.rounds = k])
      <4>1. Now(a, "functions").rounds = talk[a].rounds
        BY NamedTalk DEF Now, Talk
      <4>2. QED
        BY <1>1, <2>3, <4>1 DEF NextRound
    <3> HIDE DEF k
    <3>3. \E t : GoesAs(a, t) /\ t.pc = "functions" /\ t.results = 0
      BY <3>1, <3>2, CountsTo DEF k
    <3>4. QED
      BY <1>0, <1>1, <2>1, <2>3, <3>3 DEF AnswersOnce, AnswerTaken, GoesAs
  <2>4. CASE failure = "calls" /\ ~(talk[a].rounds + 1 < MaxRounds)
    <3>1. Becomes(a, Suffers(a, "emptied"))
      BY <1>1, <2>4 DEF NextRound
    <3>2. \E t : GoesAs(a, t) /\ t.pc = "emptied" /\ t.faulty = TRUE
      BY <1>0, <3>1, GoesTo
    <3>3. QED
      BY <1>0, <1>1, <2>1, <2>4, <3>2 DEF AnswersOnce, AnswerTaken
  <2>5. QED
    BY <2>2, <2>3, <2>4
<1>2. CASE ~Spoke(a) /\ NotRetold(a)
  BY <1>0, <1>2, KeepsIds, GoesTo DEF NotRetold, FailsAs
<1>3. CASE ~Spoke(a) /\ talk[a].pc = "reported" /\ StreamingFailed(a, failure)
  <2>1. CASE failure \in {"400", "503", "error"} /\ Adopts(0)
             /\ Becomes(a, IF failure = "400" THEN Now(a, "emptied") ELSE Suffers(a, "emptied"))
    <3>1. IdsTyped /\ IdsFollow /\ holder'.id = 0
      BY <1>0, <2>1, NamedTalk, AdoptsIds
    <3>2. \E t : GoesAs(a, t) /\ t.pc = "emptied" /\ (failure # "400" => t.faulty = TRUE)
      <4>1. CASE failure = "400"
        <5>1. "emptied" \in TalkPc /\ Becomes(a, Now(a, "emptied"))
          BY <1>0, <2>1, <4>1
        <5>2. QED
          BY <4>1, <5>1, GoesTo
      <4>2. CASE failure # "400"
        <5>1. "emptied" \in TalkPc /\ Becomes(a, Suffers(a, "emptied"))
          BY <1>0, <2>1, <4>2
        <5>2. QED
          BY <5>1, GoesTo
      <4>3. QED
        BY <4>1, <4>2
    <3>3. QED
      BY <1>0, <1>3, <2>1, <3>1, <3>2 DEF StreamingFailed
  <2>2. CASE KeepsId /\ Becomes(a, Suffers(a, "failed"))
    BY <1>0, <1>3, <2>2, KeepsIds, GoesTo DEF StreamingFailed, FailsAs
  <2>3. QED
    BY <1>3, <2>1, <2>2 DEF StreamingFailed
<1>4. CASE ~Spoke(a) /\ talk[a].pc = "reported" /\ RequestFailed(a, failure)
  <2>1. CASE failure = "400" /\ Adopts(0) /\ Becomes(a, Now(a, "regain"))
    <3>1. IdsTyped /\ IdsFollow /\ holder'.id = 0
      BY <1>0, <2>1, NamedTalk, AdoptsIds
    <3>a. "regain" \in TalkPc
      BY DEF TalkPc
    <3>2. \E t : GoesAs(a, t) /\ t.pc = "regain"
      BY <2>1, <3>a, GoesTo
    <3>3. QED
      BY <1>0, <1>4, <2>1, <3>1, <3>2 DEF RequestFailed
  <2>2. CASE failure = "503" /\ Adopts(0) /\ Becomes(a, Suffers(a, "failed"))
    <3>1. IdsTyped /\ IdsFollow /\ holder'.id = 0
      BY <1>0, <2>2, NamedTalk, AdoptsIds
    <3>2. \E t : GoesAs(a, t) /\ t.pc = "failed" /\ t.faulty = TRUE
      BY <1>0, <2>2, GoesTo
    <3>3. QED
      BY <1>0, <1>4, <2>2, <3>1, <3>2 DEF RequestFailed
  <2>3. CASE KeepsId /\ Becomes(a, Suffers(a, "failed"))
    BY <1>0, <1>4, <2>3, KeepsIds, GoesTo DEF RequestFailed, FailsAs
  <2>4. QED
    BY <1>4, <2>1, <2>2, <2>3 DEF RequestFailed
<1>5. QED
  BY <1>1, <1>2, <1>3, <1>4 DEF TakesReported, TalkAt

LEMMA RegainsIs ==
  ASSUME MistralTyped, NEW a \in Askers, RegainsConversation(a)
  PROVE  /\ ~crashed /\ UNCHANGED crashed
         /\ \/ /\ talk[a].pc = "regain" /\ Quietly /\ ConvsGrow
               /\ \E i \in Nat : \E r : Heard(a, "regained", i, r) /\ r.kind \in Calm
            \/ /\ talk[a].pc = "regained" /\ PlaceStays /\ ToolsStay /\ UNCHANGED convs /\ IdsTyped /\ IdsFollow
               /\ \E t : GoesAs(a, t) /\ t.pc = "failed"
<1>0. {"failed", "regained"} \subseteq TalkPc /\ MistralTypeOK
  BY DEF MistralTyped, TalkPc
<1>1. CASE /\ TalkAt(a, "regain") /\ StartConversation(a, "regained")
           /\ UNCHANGED <<place, holder, kept, copy, tools, turns, restarts, crashed>>
  BY <1>0, <1>1, StartsHears DEF TalkAt, Quietly, PlaceStays, ToolsStay, IdsStay
<1>2. CASE /\ TalkAt(a, "regained") /\ Becomes(a, IF Spoke(a) THEN Now(a, "failed") ELSE Suffers(a, "failed"))
           /\ IF Spoke(a) THEN Adopts(talk[a].reply.id) ELSE KeepsId
           /\ UNCHANGED <<place, convs, tools, turns, restarts, crashed>>
  <2>1. ~crashed /\ talk[a].pc = "regained" /\ PlaceStays /\ ToolsStay /\ UNCHANGED <<convs, crashed>> /\ ConvsGrow
    BY <1>2, SameConvs DEF TalkAt, PlaceStays, ToolsStay
  <2>2. \E t : GoesAs(a, t) /\ t.pc = "failed"
    <3>1. CASE Spoke(a)
      BY <1>0, <1>2, <3>1, GoesTo
    <3>2. CASE ~Spoke(a)
      BY <1>0, <1>2, <3>2, GoesTo
    <3>3. QED
      BY <3>1, <3>2
  <2>3. IdsTyped /\ IdsFollow
    <3>1. CASE Spoke(a)
      BY <1>2, <2>1, <3>1, NamedTalk, AdoptsIds
    <3>2. CASE ~Spoke(a)
      BY <1>2, <2>1, <3>2, KeepsIds
    <3>3. QED
      BY <3>1, <3>2
  <2>4. QED
    BY <2>1, <2>2, <2>3
<1>3. QED
  BY <1>1, <1>2 DEF RegainsConversation

--------------------------------------------------------------------------------
\* What every step of a request has in common: it is told something by Mistral, or it
\* takes what it was told, or it crashes; and what becomes of the saved id.
TalkEffect(a) ==
  /\ PlaceStays /\ tools' \in Versions /\ ConvsGrow /\ IdsTyped
  /\ IdsFollow \/ (talk[a].pc = "continued" /\ ForgetsId(talk[a].reply.kind))
  /\ \/ Crashes /\ UNCHANGED convs
     \/ /\ UNCHANGED <<crashed, convs>>
        /\ \E t : GoesAs(a, t) /\ (t.pc = "functions" => t.results <= t.reply.calls)
     \/ /\ UNCHANGED crashed /\ IdsStay
        /\ \E pc \in TalkPc \ {"functions"} : \E i, r : Heard(a, pc, i, r)

LEMMA QuietIds == MistralTyped /\ Quietly /\ ConvsGrow => IdsTyped /\ IdsFollow /\ tools' \in Versions /\ PlaceStays /\ IdsStay
<1> SUFFICES ASSUME MistralTyped, Quietly, ConvsGrow
             PROVE  IdsTyped /\ IdsFollow /\ tools' \in Versions /\ PlaceStays /\ IdsStay
  OBVIOUS
<1>1. KeepsId /\ tools' = tools /\ PlaceStays /\ IdsStay
  BY DEF Quietly, IdsStay, ToolsStay, KeepsId
<1>2. QED
  BY <1>1, KeepsIds DEF MistralTyped, MistralTypeOK, Versions

LEMMA AnswersGo ==
  ASSUME MistralTyped, NEW a \in Askers, AnswersOnce(a)
  PROVE  Crashes \/ (UNCHANGED crashed /\ \E t : GoesAs(a, t) /\ (t.pc = "functions" => t.results <= t.reply.calls))
<1>1. CASE Crashes
  BY <1>1
<1>2. CASE UNCHANGED crashed /\ \E t : AnswerTaken(a, t)
  <2>1. PICK t : AnswerTaken(a, t)
    BY <1>2
  <2>2. t.reply.calls \in Nat
    BY <2>1, NamedTalk DEF AnswerTaken, GoesAs
  <2>3. QED
    BY <1>2, <2>1, <2>2 DEF AnswerTaken
<1>3. QED
  BY <1>1, <1>2 DEF AnswersOnce

LEMMA FailsGo ==
  ASSUME NEW a \in Askers, NEW pc, pc # "functions", FailsAs(a, pc)
  PROVE  UNCHANGED crashed /\ \E t : GoesAs(a, t) /\ (t.pc = "functions" => t.results <= t.reply.calls)
  BY DEF FailsAs

LEMMA TalkEffects ==
  ASSUME MistralTyped, NEW a \in Askers, TalkGoes(a)
  PROVE  TalkEffect(a)
<1>0. tools \in Versions /\ {"begun", "continued", "reported", "retold", "regained"} \subseteq TalkPc \ {"functions"}
  BY DEF MistralTyped, MistralTypeOK, Versions, TalkPc
<1>1. CASE syncAgentTools(a)
  BY <1>1, SyncIs, SameConvs DEF TalkEffect
<1>2. CASE PutsQuestion(a)
  <2>1. ConvsGrow
    BY <1>2, PutsIs, SameConvs
  <2>2. IdsTyped /\ IdsFollow /\ tools' \in Versions /\ PlaceStays /\ IdsStay
    BY <1>2, <2>1, PutsIs, QuietIds
  <2>3. \/ Crashes /\ UNCHANGED convs
        \/ UNCHANGED crashed /\ \E pc \in TalkPc \ {"functions"} : \E i, r : Heard(a, pc, i, r)
    BY <1>0, <1>2, PutsIs
  <2>4. QED
    BY <2>1, <2>2, <2>3 DEF TalkEffect
<1>3. CASE StartsAnew(a)
  <2>1. ConvsGrow /\ Quietly /\ UNCHANGED crashed /\ \E i, r : Heard(a, "begun", i, r)
    BY <1>3, StartsAnewIs
  <2>2. IdsTyped /\ IdsFollow /\ tools' \in Versions /\ PlaceStays /\ IdsStay
    BY <2>1, QuietIds
  <2>3. QED
    BY <1>0, <2>1, <2>2 DEF TalkEffect
<1>4. CASE TakesBegun(a)
  <2>1. PlaceStays /\ tools' \in Versions /\ UNCHANGED convs /\ ConvsGrow /\ IdsTyped /\ IdsFollow
    BY <1>0, <1>4, TakesBegunIs, SameConvs DEF ToolsStay
  <2>2. Crashes \/ (UNCHANGED crashed /\ \E t : GoesAs(a, t) /\ (t.pc = "functions" => t.results <= t.reply.calls))
    BY <1>4, TakesBegunIs, AnswersGo, FailsGo
  <2>3. QED
    BY <2>1, <2>2 DEF TalkEffect
<1>5. CASE TakesContinued(a)
  <2>1. PlaceStays /\ tools' \in Versions /\ UNCHANGED convs /\ ConvsGrow /\ IdsTyped
    BY <1>0, <1>5, TakesContinuedIs, SameConvs DEF ToolsStay
  <2>2. IdsFollow \/ (talk[a].pc = "continued" /\ ForgetsId(talk[a].reply.kind))
    BY <1>5, TakesContinuedIs
  <2>3. Crashes \/ (UNCHANGED crashed /\ \E t : GoesAs(a, t) /\ (t.pc = "functions" => t.results <= t.reply.calls))
    <3>1. \/ AnswersOnce(a)
          \/ UNCHANGED crashed /\ \E t : GoesAs(a, t) /\ t.pc \in {"recover", "failed"}
      BY <1>5, TakesContinuedIs
    <3>2. QED
      BY <3>1, AnswersGo
  <2>4. QED
    BY <2>1, <2>2, <2>3 DEF TalkEffect
<1>6. CASE RunsFunction(a)
  <2>1. UNCHANGED convs /\ ConvsGrow /\ Quietly
    BY <1>6, RunsFunctionIs, SameConvs
  <2>2. IdsTyped /\ IdsFollow /\ tools' \in Versions /\ PlaceStays /\ IdsStay
    BY <2>1, QuietIds
  <2>3. Crashes \/ (UNCHANGED crashed /\ \E t : GoesAs(a, t) /\ (t.pc = "functions" => t.results <= t.reply.calls))
    BY <1>6, RunsFunctionIs
  <2>4. QED
    BY <2>1, <2>2, <2>3 DEF TalkEffect
<1>7. CASE ReportsResults(a)
  <2>1. ConvsGrow /\ Quietly /\ UNCHANGED crashed
    BY <1>7, ReportsResultsIs, SameConvs
  <2>2. IdsTyped /\ IdsFollow /\ tools' \in Versions /\ PlaceStays /\ IdsStay
    BY <2>1, QuietIds
  <2>3. \/ \E pc \in TalkPc \ {"functions"} : \E i, r : Heard(a, pc, i, r)
        \/ UNCHANGED convs /\ \E t : GoesAs(a, t) /\ t.pc = "emptied"
    BY <1>0, <1>7, ReportsResultsIs
  <2>4. QED
    BY <2>1, <2>2, <2>3 DEF TalkEffect
<1>8. CASE TakesReported(a)
  <2>1. PlaceStays /\ tools' \in Versions /\ UNCHANGED convs /\ ConvsGrow /\ IdsTyped /\ IdsFollow
    BY <1>0, <1>8, TakesReportedIs, SameConvs DEF ToolsStay
  <2>2. Crashes \/ (UNCHANGED crashed /\ \E t : GoesAs(a, t) /\ (t.pc = "functions" => t.results <= t.reply.calls))
    <3>1. \/ AnswersOnce(a) \/ FailsAs(a, "emptied") \/ FailsAs(a, "failed")
          \/ UNCHANGED crashed /\ \E t : GoesAs(a, t) /\ t.pc \in {"emptied", "failed", "regain"}
      BY <1>8, TakesReportedIs
    <3>2. QED
      BY <3>1, AnswersGo, FailsGo
  <2>3. QED
    BY <2>1, <2>2 DEF TalkEffect
<1>9. CASE RegainsConversation(a)
  <2>1. CASE /\ Quietly /\ ConvsGrow /\ UNCHANGED crashed
             /\ \E i \in Nat : \E r : Heard(a, "regained", i, r) /\ r.kind \in Calm
    <3>1. IdsTyped /\ IdsFollow /\ tools' \in Versions /\ PlaceStays /\ IdsStay
      BY <2>1, QuietIds
    <3>2. QED
      BY <1>0, <2>1, <3>1 DEF TalkEffect
  <2>2. CASE /\ PlaceStays /\ ToolsStay /\ UNCHANGED <<convs, crashed>> /\ IdsTyped /\ IdsFollow
             /\ \E t : GoesAs(a, t) /\ t.pc = "failed"
    BY <1>0, <2>2, SameConvs DEF TalkEffect, ToolsStay
  <2>3. QED
    BY <1>9, <2>1, <2>2, RegainsIs
<1>10. QED
  BY <1>1, <1>2, <1>3, <1>4, <1>5, <1>6, <1>7, <1>8, <1>9 DEF TalkGoes

\* Only the request that goes on changes what it is doing.
LEMMA OtherTalks ==
  ASSUME MistralTyped, NEW a \in Askers, TalkEffect(a), NEW b \in Askers \ {a}
  PROVE  talk'[b] = talk[b]
  BY ConvTypes DEF TalkEffect, Crashes, GoesAs, Heard, Becomes, MistralTyped

--------------------------------------------------------------------------------
\* The types.

LEMMA SilentIs == MistralTypeOK =>
  /\ Silent \in Talk /\ Silent.pc = "idle" /\ Silent.reply.id = 0 /\ Silent.reply.kind = "none"
  /\ Silent.reply.calls = 0
<1> SUFFICES ASSUME MistralTypeOK
             PROVE  /\ Silent \in Talk /\ Silent.pc = "idle" /\ Silent.reply.id = 0 /\ Silent.reply.kind = "none"
                    /\ Silent.reply.calls = 0
  OBVIOUS
<1>1. Nothing \in Received /\ Nothing.id = 0 /\ Nothing.kind = "none" /\ Nothing.calls = 0
  BY ConvTypes DEF Nothing, Received, Ids
<1>2. 0 \in 0 .. MaxTurns /\ 0 \in 0 .. MaxParallel /\ 0 \in 0 .. MaxRounds
  BY ConvTypes
<1>3. Silent \in Talk /\ Silent.pc = "idle" /\ Silent.reply = Nothing
  BY <1>1, <1>2 DEF Silent, Talk
<1>4. QED
  BY <1>1, <1>3

LEMMA AsksIs ==
  ASSUME MistralTyped, NEW a \in Askers, AsksMistral(a)
  PROVE  /\ ~crashed /\ ~Talking(a) /\ turns' \in 0 .. MaxTurns
         /\ UNCHANGED <<place, restarts, convs, tools, crashed>> /\ IdsStay
         /\ place.overlap \/ \A b \in Askers : ~Talking(b)
         /\ \E t \in Talk : /\ Becomes(a, t) /\ t.reply = Nothing
                            /\ \/ t.pc \in {"sync", "ask"} \/ (t.pc = "failed" /\ t.faulty = TRUE)
<1>1. /\ ~crashed /\ ~Talking(a) /\ UNCHANGED <<place, restarts, convs, tools, crashed>> /\ IdsStay
      /\ place.overlap \/ \A b \in Askers : ~Talking(b)
  BY DEF AsksMistral, IdsStay
<1>2. turns' \in 0 .. MaxTurns /\ turns + 1 \in 0 .. MaxTurns
  BY ConvTypes DEF AsksMistral, MistralTyped, MistralTypeOK
<1> DEFINE asks(pc) == [Silent EXCEPT !.turn = turns + 1, !.pc = pc, !.faulty = pc = "failed"]
<1>3. ASSUME NEW pc \in {"sync", "ask", "failed"}
      PROVE  /\ asks(pc) \in Talk /\ asks(pc).reply = Nothing /\ asks(pc).pc = pc
             /\ pc = "failed" => asks(pc).faulty = TRUE
  BY <1>2, SilentIs DEF Talk, Silent, MistralTyped
<1>4. \E pc \in {"sync", "ask", "failed"} : Becomes(a, asks(pc))
  BY DEF AsksMistral
<1> HIDE DEF asks
<1>5. QED
  BY <1>1, <1>2, <1>3, <1>4

LEMMA BrokenConvs ==
  ASSUME MistralTyped, ConvGone
  PROVE  /\ convs' \in Seq(Conv) /\ Len(convs') = Len(convs)
         /\ UNCHANGED <<place, holder, kept, copy, tools, turns, restarts, talk, crashed>>
         /\ \A i \in 1 .. Len(convs) : /\ convs'[i].owed = convs[i].owed /\ convs'[i].by = convs[i].by
                                       /\ convs'[i].state = convs[i].state \/ convs'[i].state # "ok"
         /\ place.troubles \cap {"dies", "breaks"} # {}
<1>1. PICK i \in {holder.id, kept} \ {0} : convs[i].state = "ok" /\
          \/ Troubled("dies") /\ convs' = [convs EXCEPT ![i].state = "gone"]
          \/ Troubled("breaks") /\ convs' = [convs EXCEPT ![i].state = "broken"]
  BY DEF ConvGone
<1>2. i \in 1 .. Len(convs)
  BY <1>1, ConvTypes DEF MistralTyped, MistralTypeOK, Holder, Ids
<1>3. PICK s \in {"gone", "broken"} : convs' = [convs EXCEPT ![i].state = s]
  BY <1>1
<1>4. convs[i] \in Conv /\ convs \in Seq(Conv) /\ Len(convs) \in Nat
  BY <1>2, ConvTypes DEF MistralTyped
<1> DEFINE c == [convs[i] EXCEPT !.state = s]
<1>5. c \in Conv /\ c.state = s /\ c.owed = convs[i].owed /\ c.by = convs[i].by
  BY <1>4 DEF Conv
<1>6. convs' = [convs EXCEPT ![i] = c]
  BY <1>3
<1> HIDE DEF c
<1>7. /\ convs' \in Seq(Conv) /\ Len(convs') = Len(convs)
      /\ \A j \in 1 .. Len(convs) : convs'[j] = IF j = i THEN c ELSE convs[j]
  BY <1>2, <1>4, <1>5, <1>6, ExceptSeq
<1>8. place.troubles \cap {"dies", "breaks"} # {}
  BY <1>1 DEF Troubled
<1>9. QED
  BY <1>5, <1>7, <1>8 DEF ConvGone

LEMMA MistralTypedTalks == \A a \in Askers : MistralTyped /\ TalkEffect(a) /\ UNCHANGED turns => MistralTyped'
<1> SUFFICES ASSUME NEW a \in Askers, MistralTyped, TalkEffect(a), UNCHANGED turns PROVE MistralTyped'
  OBVIOUS
<1>1. CASE Crashes /\ UNCHANGED convs
  BY <1>1 DEF TalkEffect, PlaceStays, MistralTyped, MistralTypeOK, Crashes, IdsTyped, TalkNamed, Versions
<1>2. CASE /\ UNCHANGED <<crashed, convs>>
           /\ \E t : GoesAs(a, t) /\ (t.pc = "functions" => t.results <= t.reply.calls)
  BY <1>2, TypedTake DEF TalkEffect, PlaceStays, Versions
<1>3. CASE UNCHANGED crashed /\ IdsStay /\ \E pc \in TalkPc \ {"functions"} : \E i, r : Heard(a, pc, i, r)
  <2>0. PICK pc \in TalkPc \ {"functions"} : \E i, r : Heard(a, pc, i, r)
    BY <1>3
  <2>1. PICK i, r : Heard(a, pc, i, r)
    BY <2>0
  <2>2. r \in Received /\ r.id <= Len(convs') /\ (r.kind = "calls" <=> r.calls > 0)
    BY <2>1 DEF Heard
  <2> DEFINE s == talk[a]
             t == [[s EXCEPT !.pc = pc] EXCEPT !.reply = r]
  <2>3. s \in Talk
    BY NamedTalk
  <2>4. Becomes(a, t)
    BY <2>1 DEF Heard
  <2> HIDE DEF s
  <2>5. t \in Talk /\ t.pc = pc /\ t.reply = r
    BY <2>2, <2>3 DEF Talk, TalkPc
  <2> HIDE DEF t
  <2>6. turns' \in 0 .. MaxTurns /\ crashed' \in BOOLEAN
    BY <1>3 DEF MistralTyped, MistralTypeOK
  <2>7. QED
    BY <2>2, <2>4, <2>5, <2>6, TypedAfter DEF TalkEffect, PlaceStays, Versions
<1>4. QED
  BY <1>1, <1>2, <1>3 DEF TalkEffect

LEMMA MistralTypedKept == MistralTyped /\ [MistralNext]_mistralvars => MistralTyped'
<1> SUFFICES ASSUME MistralTyped, [MistralNext]_mistralvars PROVE MistralTyped'
  OBVIOUS
<1>1. ASSUME NEW a \in Askers, AsksMistral(a) PROVE MistralTyped'
  <2>1. PICK t \in Talk : /\ Becomes(a, t) /\ t.reply = Nothing
                          /\ t.pc \in {"sync", "ask", "failed"}
    BY <1>1, AsksIs
  <2>2. ConvsGrow /\ IdsTyped
    BY <1>1, AsksIs, SameConvs, KeepsIds DEF IdsStay, KeepsId
  <2>3. t.reply.id = 0 /\ t.reply.calls = 0 /\ t.reply.kind = "none" /\ 0 <= Len(convs')
    BY <2>1, <2>2, ConvTypes DEF Nothing, MistralTyped, ConvsGrow
  <2>4. /\ t.reply.id <= Len(convs') /\ (t.reply.kind = "calls" <=> t.reply.calls > 0)
        /\ t.pc = "functions" => t.results <= t.reply.calls
    BY <2>1, <2>3
  <2>5. UNCHANGED <<place, restarts, tools, crashed>> /\ turns' \in 0 .. MaxTurns
    BY <1>1, AsksIs
  <2>6. tools' \in [server : {0, 1}, agent : {0, 1, 2}] /\ crashed' \in BOOLEAN
    BY <2>5 DEF MistralTyped, MistralTypeOK
  <2>7. QED
    BY <2>1, <2>2, <2>4, <2>5, <2>6, TypedAfter
<1>2. ASSUME NEW a \in Askers, TalkGoes(a) PROVE MistralTyped'
  <2>1. UNCHANGED turns
    BY <1>2 DEF TalkGoes, syncAgentTools, PutsQuestion, StartsAnew, TakesBegun, TakesContinued,
                RunsFunction, ReportsResults, TakesReported, RegainsConversation
  <2>2. QED
    BY <1>2, <2>1, TalkEffects, MistralTypedTalks
<1>3. CASE ReadsContext
  <2>1. talk' = [a \in Askers |-> Silent] /\ holder' \in Holder /\ holder'.id \in {0, kept} /\ restarts' \in 0 .. MaxRestarts
    <3>1. PICK id \in {0, kept} : holder' = [id |-> id, synced |-> FALSE, context |-> TRUE]
      BY <1>3 DEF ReadsContext
    <3>2. kept \in Ids /\ 0 \in Ids
      BY MistralAssumption DEF MistralTyped, MistralTypeOK, Ids
    <3>3. holder' \in Holder /\ holder'.id \in {0, kept}
      BY <3>1, <3>2 DEF Holder
    <3>4. talk' = [a \in Askers |-> Silent] /\ restarts' \in 0 .. MaxRestarts
      BY <1>3, MistralAssumption DEF ReadsContext, MistralTyped, MistralTypeOK
    <3>5. QED
      BY <3>3, <3>4
  <2>2. MistralTypeOK'
    BY <1>3, <2>1, SilentIs DEF ReadsContext, MistralTyped, MistralTypeOK, Copy
  <2>3. \A a \in Askers : TalkNamed(talk[a])'
    BY <1>3, <2>1, SilentIs, ConvTypes DEF ReadsContext, TalkNamed, MistralTyped
  <2>4. QED
    BY <1>3, <2>1, <2>2, <2>3 DEF ReadsContext, MistralTyped
<1>4. CASE SavesContext
  BY <1>4 DEF SavesContext, saveConversationId, MistralTyped, MistralTypeOK, TalkNamed, Holder, Copy
<1>5. CASE CleansContext
  BY <1>5 DEF CleansContext, MistralTyped, MistralTypeOK, TalkNamed, Holder
<1>6. CASE ConvGone
  BY <1>6, BrokenConvs DEF MistralTyped, MistralTypeOK, TalkNamed
<1>7. CASE ToolsChange
  BY <1>7 DEF ToolsChange, MistralTyped, MistralTypeOK, TalkNamed
<1>8. CASE UNCHANGED mistralvars
  BY <1>8 DEF mistralvars, MistralTyped, MistralTypeOK, TalkNamed
<1>9. QED
  BY <1>1, <1>2, <1>3, <1>4, <1>5, <1>6, <1>7, <1>8 DEF MistralNext

LEMMA MistralTypedFirst == MistralInit => MistralTyped
<1> SUFFICES ASSUME MistralInit PROVE MistralTyped
  OBVIOUS
<1>1. 1 \in Ids /\ 0 \in Ids /\ MaxConvs \in Nat /\ 1 <= MaxConvs
  BY MistralAssumption DEF Ids
<1>2. holder \in Holder /\ holder.id = 1
  BY <1>1 DEF MistralInit, Holder
<1>3. convs \in Seq(Conv) /\ Len(convs) = 1
  BY MistralAssumption DEF MistralInit, Conv
<1>b. /\ place \in Places /\ kept = 1 /\ copy = "current" /\ tools = [server |-> 0, agent |-> 0]
      /\ turns = 0 /\ restarts = 0 /\ talk = [a \in Askers |-> Silent] /\ crashed = FALSE
  BY DEF MistralInit
<1>a. Nothing \in Received
  BY <1>1, MistralAssumption DEF Nothing, Received
<1>4. Silent \in Talk
  BY <1>a, MistralAssumption DEF Silent, Talk
<1>5. MistralTypeOK
  <2>1. talk \in [Askers -> Talk]
    BY <1>4 DEF MistralInit
  <2>2. QED
    <3>1. place \in Places /\ holder \in Holder /\ kept \in Ids /\ copy \in Copy
      BY <1>1, <1>2, <1>b DEF Copy
    <3>2. convs \in Seq(Conv) /\ Len(convs) <= MaxConvs
      BY <1>1, <1>3
    <3>3. tools \in [server : {0, 1}, agent : {0, 1, 2}]
      BY <1>b
    <3>4. turns = 0 /\ restarts = 0 /\ talk \in [Askers -> Talk]
      BY <1>b, <2>1
    <3>5. turns \in 0 .. MaxTurns /\ restarts \in 0 .. MaxRestarts
      BY <3>4, MistralAssumption
    <3>6. crashed \in BOOLEAN
      BY <1>b
    <3>7. QED
      BY <2>1, <3>1, <3>2, <3>3, <3>5, <3>6 DEF MistralTypeOK
<1>6. \A a \in Askers : TalkNamed(talk[a])
  <2> SUFFICES ASSUME NEW a \in Askers PROVE TalkNamed(talk[a])
    OBVIOUS
  <2>1. talk[a] = Silent
    BY <1>b
  <2>2. talk[a].reply.id = 0 /\ talk[a].reply.kind = "none" /\ talk[a].reply.calls = 0 /\ talk[a].pc = "idle"
    BY <1>5, <2>1, SilentIs
  <2>3. QED
    BY <1>3, <2>2 DEF TalkNamed
<1>7. QED
  BY <1>1, <1>2, <1>3, <1>5, <1>6 DEF MistralInit, MistralTyped

LEMMA MistralTypedAlways == MistralSpec => []MistralTyped
  BY MistralTypedFirst, MistralTypedKept, PTL DEF MistralSpec

(* The responder, the conversations, the tools and the requests have their types,*)
(* whatever Mistral answers, loses or breaks, and whichever calls fail.         *)
THEOREM MistralTypeCorrect == MistralSpec => []MistralTypeOK
<1>1. MistralTyped => MistralTypeOK
  BY DEF MistralTyped
<1>2. QED
  BY <1>1, MistralTypedAlways, PTL

--------------------------------------------------------------------------------
\* Where conversations last, none of them is refused for its state.
Lasting == place.troubles \cap {"dies", "breaks"} = {}
Unbroken ==
  Lasting =>
    /\ \A i \in 1 .. Len(convs) : convs[i].state = "ok"
    /\ \A a \in Askers : talk[a].reply.kind \notin {"404", "503"}

LEMMA UnbrokenKept == MistralTyped /\ Unbroken /\ [MistralNext]_mistralvars => Unbroken'
<1> SUFFICES ASSUME MistralTyped, Unbroken, [MistralNext]_mistralvars, Lasting' PROVE Unbroken'
  BY DEF Unbroken
<1>p. UNCHANGED place
  <2>1. ASSUME NEW a \in Askers, TalkGoes(a) PROVE UNCHANGED place
    BY <2>1, TalkEffects DEF TalkEffect, PlaceStays
  <2>2. QED
    BY <2>1 DEF MistralNext, mistralvars, AsksMistral, ReadsContext, SavesContext, CleansContext, ConvGone, ToolsChange
<1>l. /\ Lasting /\ \A i \in 1 .. Len(convs) : convs[i].state = "ok"
      /\ \A a \in Askers : talk[a].reply.kind \notin {"404", "503"}
  BY <1>p DEF Lasting, Unbroken
<1>1. ASSUME NEW a \in Askers, AsksMistral(a) PROVE Unbroken'
  <2>1. PICK t \in Talk : Becomes(a, t) /\ t.reply = Nothing
    BY <1>1, AsksIs
  <2>2. talk'[a] = t /\ \A b \in Askers \ {a} : talk'[b] = talk[b]
    BY <2>1, TalkBecomes, ConvTypes DEF MistralTyped
  <2>3. UNCHANGED convs /\ t.reply.kind = "none"
    <3>1. Nothing.kind = "none"
      BY DEF Nothing
    <3>2. UNCHANGED convs
      BY <1>1, AsksIs
    <3>3. QED
      BY <2>1, <3>1, <3>2
  <2>4. QED
    BY <1>l, <2>2, <2>3 DEF Unbroken
<1>2. ASSUME NEW a \in Askers, TalkGoes(a) PROVE Unbroken'
  <2>1. TalkEffect(a)
    BY <1>2, TalkEffects
  <2>2. \A i \in 1 .. Len(convs') : convs'[i].state = "ok"
    <3>1. ConvsGrow
      BY <2>1 DEF TalkEffect
    <3>2. Len(convs) \in Nat /\ Len(convs') \in Nat
      BY <3>1, ConvTypes DEF ConvsGrow, MistralTyped
    <3>3. /\ \A j \in 1 .. Len(convs) : convs'[j].state = convs[j].state
          /\ \A j \in Len(convs) + 1 .. Len(convs') : convs'[j].state = "ok"
      BY <3>1 DEF ConvsGrow
    <3>4. QED
      BY <1>l, <3>2, <3>3
  <2>3. \A b \in Askers \ {a} : talk'[b] = talk[b]
    BY <2>1, OtherTalks
  <2>4. talk'[a].reply.kind \notin {"404", "503"}
    <3>1. CASE Crashes
      BY <1>l, <3>1 DEF Crashes
    <3>2. CASE \E t : GoesAs(a, t)
      BY <1>l, <3>2, TalkBecomes, ConvTypes DEF GoesAs, MistralTyped
    <3>3. CASE \E pc \in TalkPc \ {"functions"} : \E i, r : Heard(a, pc, i, r)
      <4>0. PICK pc \in TalkPc \ {"functions"} : \E i, r : Heard(a, pc, i, r)
        BY <3>3
      <4>1. PICK i, r : Heard(a, pc, i, r)
        BY <4>0
      <4>2. r.kind \notin {"404", "503"}
        BY <1>l, <4>1 DEF Heard
      <4>3. talk'[a].reply = r
        BY <4>1, NamedTalk, ConvTypes DEF Heard, Becomes, MistralTyped, Talk
      <4>4. QED
        BY <4>2, <4>3
    <3>4. QED
      BY <2>1, <3>1, <3>2, <3>3 DEF TalkEffect
  <2>5. QED
    BY <1>l, <2>2, <2>3, <2>4 DEF Unbroken
<1>3. CASE ReadsContext
  BY <1>3, <1>l, SilentIs DEF ReadsContext, Unbroken, MistralTyped
<1>4. CASE ConvGone
  BY <1>4, <1>l, BrokenConvs DEF Lasting
<1>5. CASE SavesContext \/ CleansContext \/ ToolsChange \/ UNCHANGED mistralvars
  BY <1>5, <1>l DEF SavesContext, CleansContext, ToolsChange, mistralvars, Unbroken
<1>6. QED
  BY <1>1, <1>2, <1>3, <1>4, <1>5 DEF MistralNext

--------------------------------------------------------------------------------
\* One request at a time: what it was told is of the responder's conversation, and it
\* is refused only where nothing more can be said.
HasSpoken(t) == t.reply.kind \in {"text", "empty", "calls"}
Owed(i, t) == i # 0 /\ convs[i].owed = t.reply.calls /\ convs[i].by = t.turn
Attends(t) ==
  /\ t.pc \in {"begun", "recover", "retold", "regain", "regained"} => holder.id = 0
  /\ t.pc \in {"retold", "regain", "regained"} => ~place.stream
  /\ t.pc \in {"continued", "reported", "functions"} => holder.id # 0
  /\ t.pc \in {"begun", "continued", "reported", "retold", "regained"} /\ HasSpoken(t) => Owed(t.reply.id, t)
  /\ t.pc \in {"continued", "reported"} /\ HasSpoken(t) => t.reply.id = holder.id
  /\ t.pc = "functions" => t.reply.kind = "calls" /\ Owed(holder.id, t)
  /\ t.pc = "continued" /\ t.reply.kind \in {"404", "503"} => convs[holder.id].state # "ok"
  /\ t.pc \in {"continued", "reported"} /\ t.reply.kind = "400" => Useless(holder.id)
  /\ t.pc = "reported" /\ t.reply.kind = "400" => ~place.stream
OneTalks == \A a, b \in Askers : Talking(a) /\ Talking(b) => a = b
OneAttends == ~place.overlap => OneTalks /\ (~crashed => \A a \in Askers : Attends(talk[a]))

Resting == {"idle", "answered", "emptied", "failed"}
\* Who else talks is nobody, and only one request goes on.
LEMMA OthersAttend ==
  ASSUME MistralTyped, OneTalks, NEW a \in Askers, Talking(a),
         \A b \in Askers \ {a} : talk'[b] = talk[b]
  PROVE  OneTalks' /\ \A b \in Askers \ {a} : Attends(talk[b])'
<1>1. \A b \in Askers \ {a} : ~Talking(b) /\ talk'[b] = talk[b]
  BY DEF OneTalks
<1>2. \A b \in Askers \ {a} : ~Talking(b)'
  BY <1>1 DEF Talking
<1>3. OneTalks'
  BY <1>2 DEF OneTalks
<1>4. \A b \in Askers \ {a} : talk[b].pc \in Resting
  BY <1>1 DEF Talking, Resting
<1>5. \A b \in Askers \ {a} : Attends(talk[b])'
  BY <1>1, <1>4 DEF Attends, Resting
<1>6. QED
  BY <1>3, <1>5

\* What the request is after it was told something, and after it took it.
LEMMA HeardTalk ==
  ASSUME MistralTyped, NEW a \in Askers, NEW pc \in TalkPc, NEW i, NEW r, Heard(a, pc, i, r)
  PROVE  /\ talk'[a].pc = pc /\ talk'[a].reply = r /\ talk'[a].turn = talk[a].turn /\ talk'[a].faulty = talk[a].faulty
         /\ r.kind \in {"text", "empty", "calls"} =>
               i # 0 /\ r.id = i /\ convs'[i].owed = r.calls /\ convs'[i].by = talk[a].turn
         /\ r.kind \in {"404", "503"} => convs[i].state # "ok" /\ i \in 1 .. Len(convs)
<1> DEFINE s == talk[a]
           t == [[s EXCEPT !.pc = pc] EXCEPT !.reply = r]
<1>1. s \in Talk
  BY NamedTalk
<1>2. Becomes(a, t) /\ r \in Received
  BY DEF Heard
<1>3. s.turn = talk[a].turn /\ s.faulty = talk[a].faulty
  OBVIOUS
<1> HIDE DEF s
<1>4. t \in Talk /\ t.pc = pc /\ t.reply = r /\ t.turn = s.turn /\ t.faulty = s.faulty
  BY <1>1, <1>2 DEF Talk, TalkPc
<1> HIDE DEF t
<1>5. talk'[a] = t
  BY <1>2, <1>4, TalkBecomes, ConvTypes DEF MistralTyped
<1>6. QED
  BY <1>3, <1>4, <1>5 DEF Heard

LEMMA GoneTalk ==
  ASSUME MistralTyped, NEW a \in Askers, NEW t, GoesAs(a, t)
  PROVE  talk'[a] = t /\ t.reply = talk[a].reply /\ t.turn = talk[a].turn
  BY TalkBecomes, ConvTypes DEF GoesAs, MistralTyped

LEMMA BegunAttends ==
  ASSUME MistralTyped, NEW a \in Askers, NEW pc \in {"begun", "regained"}, NEW i, NEW r, Heard(a, pc, i, r),
         r.kind \in Calm, holder'.id = 0, pc # "begun" => ~place'.stream
  PROVE  Attends(talk[a])'
<1>1. pc \in TalkPc
  BY DEF TalkPc
<1>2. /\ talk'[a].pc = pc /\ talk'[a].reply = r /\ talk'[a].turn = talk[a].turn
      /\ r.kind \in {"text", "empty", "calls"} =>
            i # 0 /\ r.id = i /\ convs'[i].owed = r.calls /\ convs'[i].by = talk[a].turn
  BY <1>1, HeardTalk
<1>3. HasSpoken(talk[a])' => Owed(talk[a].reply.id, talk[a])'
  BY <1>2 DEF HasSpoken, Owed
<1>4. QED
  BY <1>2, <1>3 DEF Attends, Calm

LEMMA AttendsAfter ==
  ASSUME MistralTyped, OneTalks, NEW a \in Askers, ~crashed, Attends(talk[a]), TalkGoes(a)
  PROVE  Crashes \/ Attends(talk[a])'
<1>1. CASE syncAgentTools(a)
  <2>1. PICK t : GoesAs(a, t) /\ t.pc \in {"ask", "failed"}
    BY <1>1, SyncIs
  <2>2. talk'[a].pc \in {"ask", "failed"}
    BY <2>1, GoneTalk
  <2>3. QED
    BY <2>2 DEF Attends
<1>2. CASE PutsQuestion(a)
  <2>1. holder' = holder /\ place' = place
    BY <1>2, PutsIs DEF Quietly, IdsStay, PlaceStays
  <2>2. CASE \E i \in Nat : \E r : holder.id = 0 /\ Heard(a, "begun", i, r) /\ r.kind \in Calm
    <3>1. PICK i, r : holder.id = 0 /\ Heard(a, "begun", i, r) /\ r.kind \in Calm
      BY <2>2
    <3>2. QED
      BY <2>1, <3>1, BegunAttends
  <2>3. CASE \E i \in Nat : \E r : /\ holder.id # 0 /\ i = holder.id /\ Heard(a, "continued", i, r)
                                   /\ r.kind \in Calm \cup {"400", "404", "503"}
                                   /\ r.kind = "400" => convs' = convs /\ convs[i].owed > 0
    <3>0. PICK i \in Nat : \E r : /\ holder.id # 0 /\ i = holder.id /\ Heard(a, "continued", i, r)
                                  /\ r.kind = "400" => convs' = convs /\ convs[i].owed > 0
      BY <2>3
    <3>1. PICK r : /\ holder.id # 0 /\ Heard(a, "continued", holder.id, r)
                   /\ r.kind = "400" => convs' = convs /\ convs[holder.id].owed > 0
      BY <3>0
    <3>2. "continued" \in TalkPc /\ ConvsGrow
      BY <1>2, PutsIs, SameConvs DEF TalkPc
    <3>3. /\ talk'[a].pc = "continued" /\ talk'[a].reply = r /\ talk'[a].turn = talk[a].turn
          /\ r.kind \in {"text", "empty", "calls"} =>
                r.id = holder.id /\ convs'[holder.id].owed = r.calls /\ convs'[holder.id].by = talk[a].turn
      BY <3>1, <3>2, HeardTalk
    <3>4. r.kind \in {"404", "503"} => convs'[holder.id].state # "ok"
      <4>1. r.kind \in {"404", "503"} => convs[holder.id].state # "ok" /\ holder.id \in 1 .. Len(convs)
        BY <3>1 DEF Heard
      <4>2. QED
        BY <3>2, <4>1 DEF ConvsGrow
    <3>5. r.kind = "400" => convs'[holder.id].owed > 0
      BY <3>1
    <3>6. QED
      BY <2>1, <3>1, <3>3, <3>4, <3>5 DEF Attends, Owed, HasSpoken, Useless
  <2>4. QED
    BY <1>2, <2>2, <2>3, PutsIs
<1>3. CASE StartsAnew(a)
  <2>1. holder' = holder /\ place' = place /\ holder.id = 0
    BY <1>3, StartsAnewIs DEF Quietly, IdsStay, PlaceStays, Attends
  <2>2. PICK i, r : Heard(a, "begun", i, r) /\ r.kind \in Calm
    BY <1>3, StartsAnewIs
  <2>3. QED
    BY <2>1, <2>2, BegunAttends
<1>a. ASSUME AnswersOnce(a), Spoke(a), convs' = convs, ~Crashes,
             holder'.id # 0, holder'.id = talk[a].reply.id, Owed(talk[a].reply.id, talk[a])
      PROVE  Attends(talk[a])'
  <2>1. PICK t : AnswerTaken(a, t)
    BY <1>a DEF AnswersOnce
  <2>2. talk'[a] = t /\ t.reply = talk[a].reply /\ t.turn = talk[a].turn
    BY <2>1, GoneTalk DEF AnswerTaken
  <2>3. CASE t.pc \in {"answered", "emptied"}
    BY <2>2, <2>3 DEF Attends
  <2>4. CASE t.pc = "functions" /\ t.reply.kind = "calls"
    BY <1>a, <2>2, <2>4 DEF Attends, Owed
  <2>5. QED
    BY <2>1, <2>3, <2>4 DEF AnswerTaken
<1>b. ASSUME NEW t, GoesAs(a, t), t.pc \in {"failed", "emptied"} PROVE Attends(talk[a])'
  BY <1>b, GoneTalk DEF Attends
<1>c. Spoke(a) => HasSpoken(talk[a])
  BY DEF Spoke, HasSpoken
<1>4. CASE TakesBegun(a)
  <2>1. CASE Spoke(a) /\ holder'.id = talk[a].reply.id /\ AnswersOnce(a)
    <3>1. Owed(talk[a].reply.id, talk[a]) /\ convs' = convs
      BY <1>4, <1>c, <2>1, TakesBegunIs DEF Attends
    <3>2. QED
      BY <1>a, <2>1, <3>1 DEF Owed
  <2>2. CASE FailsAs(a, "failed")
    BY <1>b, <2>2 DEF FailsAs
  <2>3. QED
    BY <1>4, <2>1, <2>2, TakesBegunIs
<1>5. CASE TakesContinued(a)
  <2>1. CASE /\ Spoke(a) /\ AnswersOnce(a)
             /\ holder'.id = IF talk[a].reply.id = 0 THEN holder.id ELSE talk[a].reply.id
    <3>1. Owed(talk[a].reply.id, talk[a]) /\ convs' = convs
      BY <1>5, <1>c, <2>1, TakesContinuedIs DEF Attends
    <3>2. QED
      BY <1>a, <2>1, <3>1 DEF Owed
  <2>2. CASE holder'.id = 0 /\ \E t : GoesAs(a, t) /\ t.pc = "recover"
    BY <2>2, GoneTalk DEF Attends
  <2>3. CASE \E t : GoesAs(a, t) /\ t.pc = "failed"
    BY <1>b, <2>3
  <2>4. QED
    BY <1>5, <2>1, <2>2, <2>3, TakesContinuedIs DEF ForgetsId
<1>6. CASE RunsFunction(a)
  <2>1. holder' = holder /\ convs' = convs
    BY <1>6, RunsFunctionIs DEF Quietly, IdsStay
  <2>2. CASE \E t : GoesAs(a, t) /\ t.pc = "functions"
    <3>1. talk[a].pc = "functions"
      BY <1>6, RunsFunctionIs
    <3>2. QED
      BY <2>1, <2>2, <3>1, GoneTalk DEF Attends, Owed
  <2>3. QED
    BY <1>6, <2>2, RunsFunctionIs
<1>7. CASE ReportsResults(a)
  <2>1. /\ talk[a].pc = "functions" /\ holder' = holder /\ place' = place /\ holder.id # 0
        /\ talk[a].reply.kind = "calls" /\ Owed(holder.id, talk[a])
    BY <1>7, ReportsResultsIs DEF Quietly, IdsStay, PlaceStays, Attends
  <2>2. PICK r : /\ Heard(a, "reported", holder.id, r)
                 /\ r.kind = "400" =>
                       /\ convs' = convs
                       /\ \/ convs[holder.id].owed # IF place.stream THEN talk[a].reply.calls ELSE 1
                          \/ convs[holder.id].by # talk[a].turn
    BY <1>7, <2>1, ReportsResultsIs
  <2>3. "reported" \in TalkPc /\ talk[a].reply.calls > 0
    BY <2>1, NamedTalk DEF TalkPc
  <2>4. /\ talk'[a].pc = "reported" /\ talk'[a].reply = r /\ talk'[a].turn = talk[a].turn
        /\ r.kind \in {"text", "empty", "calls"} =>
              r.id = holder.id /\ convs'[holder.id].owed = r.calls /\ convs'[holder.id].by = talk[a].turn
    BY <2>2, <2>3, HeardTalk
  <2>5. r.kind = "400" => ~place.stream /\ convs'[holder.id].owed > 0
    BY <2>1, <2>2, <2>3 DEF Owed
  <2>6. QED
    BY <2>1, <2>4, <2>5 DEF Attends, Owed, HasSpoken, Useless
<1>8. CASE TakesReported(a)
  <2>1. CASE /\ Spoke(a) /\ AnswersOnce(a)
             /\ holder'.id = IF talk[a].reply.id = 0 THEN holder.id ELSE talk[a].reply.id
    <3>1. Owed(talk[a].reply.id, talk[a]) /\ convs' = convs
      BY <1>8, <1>c, <2>1, TakesReportedIs DEF Attends
    <3>2. QED
      BY <1>a, <2>1, <3>1 DEF Owed
  <2>2. CASE FailsAs(a, "emptied") \/ FailsAs(a, "failed")
    BY <1>b, <2>2 DEF FailsAs
  <2>3. CASE holder'.id = 0 /\ \E t : GoesAs(a, t) /\ (t.pc \in {"emptied", "failed"} \/ (t.pc = "regain" /\ ~place.stream))
    <3>1. place' = place
      BY <1>8, TakesReportedIs DEF PlaceStays
    <3>2. CASE \E t : GoesAs(a, t) /\ t.pc = "regain" /\ ~place.stream
      BY <2>3, <3>1, <3>2, GoneTalk DEF Attends
    <3>3. QED
      BY <1>b, <2>3, <3>2
  <2>4. QED
    BY <1>8, <2>1, <2>2, <2>3, TakesReportedIs
<1>9. CASE RegainsConversation(a)
  <2>1. CASE talk[a].pc = "regain" /\ Quietly /\ \E i \in Nat : \E r : Heard(a, "regained", i, r) /\ r.kind \in Calm
    <3>1. PICK i, r : Heard(a, "regained", i, r) /\ r.kind \in Calm
      BY <2>1
    <3>2. holder' = holder /\ place' = place /\ holder.id = 0 /\ ~place.stream
      BY <2>1 DEF Quietly, IdsStay, PlaceStays, Attends
    <3>3. QED
      BY <3>1, <3>2, BegunAttends
  <2>2. CASE \E t : GoesAs(a, t) /\ t.pc = "failed"
    BY <1>b, <2>2
  <2>3. QED
    BY <1>9, <2>1, <2>2, RegainsIs
<1>10. QED
  BY <1>1, <1>2, <1>3, <1>4, <1>5, <1>6, <1>7, <1>8, <1>9 DEF TalkGoes

LEMMA TalkGoesIs ==
  ASSUME NEW a \in Askers, TalkGoes(a)
  PROVE  ~crashed /\ Talking(a) /\ UNCHANGED restarts
  BY DEF TalkGoes, syncAgentTools, PutsQuestion, StartsAnew, TakesBegun, TakesContinued, RunsFunction,
         ReportsResults, TakesReported, RegainsConversation, TalkAt, Talking

LEMMA OneAttendsKept == MistralTyped /\ OneAttends /\ [MistralNext]_mistralvars => OneAttends'
<1> SUFFICES ASSUME MistralTyped, OneAttends, [MistralNext]_mistralvars, ~place'.overlap
             PROVE  OneTalks' /\ (~crashed' => \A a \in Askers : Attends(talk[a])')
  BY DEF OneAttends
<1>p. UNCHANGED place
  <2>1. ASSUME NEW a \in Askers, TalkGoes(a) PROVE UNCHANGED place
    BY <2>1, TalkEffects DEF TalkEffect, PlaceStays
  <2>2. QED
    BY <2>1 DEF MistralNext, mistralvars, AsksMistral, ReadsContext, SavesContext, CleansContext, ConvGone, ToolsChange
<1>o. ~place.overlap /\ OneTalks /\ (~crashed => \A a \in Askers : Attends(talk[a]))
  BY <1>p DEF OneAttends
<1>1. ASSUME NEW a \in Askers, AsksMistral(a) PROVE OneTalks' /\ \A b \in Askers : Attends(talk[b])'
  <2>1. \A b \in Askers : ~Talking(b)
    BY <1>1, <1>o, AsksIs
  <2>2. PICK t \in Talk : Becomes(a, t) /\ t.pc \in {"sync", "ask", "failed"}
    BY <1>1, AsksIs
  <2>3. talk'[a] = t /\ \A b \in Askers \ {a} : talk'[b] = talk[b]
    BY <2>2, TalkBecomes, ConvTypes DEF MistralTyped
  <2>4. \A b \in Askers \ {a} : ~Talking(b)' /\ talk'[b].pc \in Resting
    BY <2>1, <2>3 DEF Talking, Resting
  <2>5. OneTalks'
    BY <2>4 DEF OneTalks
  <2>6. \A b \in Askers : talk'[b].pc \in Resting \cup {"sync", "ask"}
    BY <2>2, <2>3, <2>4 DEF Resting
  <2>7. \A b \in Askers : Attends(talk[b])'
    BY <2>6 DEF Attends, Resting
  <2>8. QED
    BY <2>5, <2>7
<1>2. ASSUME NEW a \in Askers, TalkGoes(a)
      PROVE  OneTalks' /\ (~crashed' => \A b \in Askers : Attends(talk[b])')
  <2>1. ~crashed /\ Talking(a) /\ TalkEffect(a) /\ Attends(talk[a])
    BY <1>2, <1>o, TalkGoesIs, TalkEffects
  <2>2. \A b \in Askers \ {a} : talk'[b] = talk[b]
    BY <2>1, OtherTalks
  <2>3. OneTalks' /\ \A b \in Askers \ {a} : Attends(talk[b])'
    BY <1>o, <2>1, <2>2, OthersAttend
  <2>4. Crashes \/ Attends(talk[a])'
    BY <1>2, <1>o, <2>1, AttendsAfter
  <2>5. QED
    BY <2>3, <2>4 DEF Crashes
<1>3. CASE ReadsContext
  <2>1. \A a \in Askers : talk'[a].pc = "idle"
    BY <1>3, SilentIs DEF ReadsContext, MistralTyped
  <2>2. QED
    BY <2>1 DEF OneTalks, Talking, Attends
<1>4. CASE SavesContext \/ CleansContext \/ ToolsChange \/ UNCHANGED mistralvars
  <2>1. holder'.id = holder.id /\ UNCHANGED <<convs, talk, crashed>>
    BY <1>4, NamedTalk DEF SavesContext, CleansContext, ToolsChange, mistralvars, MistralTyped, MistralTypeOK, Holder
  <2>2. QED
    BY <1>o, <1>p, <2>1 DEF OneTalks, Talking, Attends, Owed, Useless, HasSpoken
<1>5. CASE ConvGone
  <2>1. /\ UNCHANGED <<holder, talk, crashed>>
        /\ \A i \in 1 .. Len(convs) : /\ convs'[i].owed = convs[i].owed /\ convs'[i].by = convs[i].by
                                      /\ convs'[i].state = convs[i].state \/ convs'[i].state # "ok"
    BY <1>5, BrokenConvs
  <2>2. OneTalks'
    BY <1>o, <2>1 DEF OneTalks, Talking
  <2>3. ASSUME NEW a \in Askers, ~crashed PROVE Attends(talk[a])'
    <3>1. Attends(talk[a]) /\ talk'[a] = talk[a]
      BY <1>o, <2>1, <2>3
    <3>2. /\ holder.id # 0 => holder.id \in 1 .. Len(convs)
          /\ talk[a].reply.id # 0 => talk[a].reply.id \in 1 .. Len(convs)
      BY NamedTalk, ConvTypes DEF MistralTyped, Ids
    <3>3. /\ Owed(talk[a].reply.id, talk[a]) => Owed(talk[a].reply.id, talk[a])'
          /\ Owed(holder.id, talk[a]) => Owed(holder.id, talk[a])'
      BY <2>1, <3>1, <3>2 DEF Owed
    <3>4. holder.id # 0 => /\ Useless(holder.id) => Useless(holder.id)'
                           /\ convs[holder.id].state # "ok" => convs'[holder.id].state # "ok"
      BY <2>1, <3>2 DEF Useless
    <3>5. QED
      BY <1>p, <2>1, <3>1, <3>3, <3>4 DEF Attends, HasSpoken
  <2>4. QED
    BY <2>1, <2>2, <2>3
<1>6. QED
  BY <1>1, <1>2, <1>3, <1>4, <1>5 DEF MistralNext

--------------------------------------------------------------------------------
\* Requests that overlap are streamed, or no conversation breaks meanwhile: Request
\* does not tell the database that it gives a conversation up for its state.
OneGivesUp == \A p \in Places : p.stream \/ ~p.overlap \/ p.troubles \cap {"dies", "breaks"} = {}

LEMMA SavedKept ==
  OneGivesUp /\ MistralTyped /\ Unbroken /\ OneAttends /\ SavedIsCurrent /\ [MistralNext]_mistralvars => SavedIsCurrent'
<1> SUFFICES ASSUME OneGivesUp, MistralTyped, Unbroken, OneAttends, SavedIsCurrent, [MistralNext]_mistralvars
             PROVE  SavedIsCurrent'
  OBVIOUS
<1>k. kept # 0 => kept \in 1 .. Len(convs)
  BY ConvTypes DEF MistralTyped, MistralTypeOK, Ids
<1>g. ASSUME ConvsGrow, IdsFollow PROVE SavedIsCurrent'
  BY <1>g, <1>k DEF SavedIsCurrent, ConvsGrow, IdsFollow
<1>1. ASSUME NEW a \in Askers, AsksMistral(a) PROVE SavedIsCurrent'
  BY <1>1, AsksIs DEF SavedIsCurrent, IdsStay
<1>2. ASSUME NEW a \in Askers, TalkGoes(a) PROVE SavedIsCurrent'
  <2>1. ~crashed /\ TalkEffect(a) /\ ConvsGrow
    BY <1>2, TalkGoesIs, TalkEffects DEF TalkEffect
  <2>2. CASE IdsFollow
    BY <1>g, <2>1, <2>2
  <2>3. CASE /\ talk[a].pc = "continued" /\ ~place.stream /\ talk[a].reply.kind \in {"404", "503"}
             /\ UNCHANGED <<kept, copy>> /\ holder'.id = 0
    <3>1. ~Lasting
      BY <2>3 DEF Unbroken
    <3>2. ~place.overlap
      BY <2>3, <3>1 DEF OneGivesUp, Lasting, MistralTyped, MistralTypeOK
    <3>3. holder.id # 0 /\ convs[holder.id].state # "ok"
      BY <2>1, <2>3, <3>2 DEF OneAttends, Attends
    <3>4. copy = "unsaved" \/ (kept # 0 /\ convs[kept].state # "ok")
      BY <3>3 DEF SavedIsCurrent
    <3>5. kept # 0 /\ convs[kept].state # "ok" => convs'[kept].state # "ok"
      BY <1>k, <2>1 DEF ConvsGrow
    <3>6. QED
      BY <2>3, <3>4, <3>5 DEF SavedIsCurrent
  <2>4. QED
    BY <2>1, <2>2, <2>3 DEF TalkEffect, ForgetsId
<1>3. CASE ReadsContext
  BY <1>3 DEF ReadsContext, SavedIsCurrent
<1>4. CASE SavesContext
  BY <1>4, <1>k DEF SavesContext, saveConversationId, SavedIsCurrent
<1>5. CASE CleansContext
  <2>1. holder'.id = holder.id /\ UNCHANGED <<kept, copy, convs>>
    BY <1>5 DEF CleansContext, MistralTyped, MistralTypeOK, Holder
  <2>2. QED
    BY <2>1 DEF SavedIsCurrent
<1>6. CASE ConvGone
  BY <1>6, <1>k, BrokenConvs DEF SavedIsCurrent
<1>7. CASE ToolsChange \/ UNCHANGED mistralvars
  BY <1>7 DEF ToolsChange, mistralvars, SavedIsCurrent
<1>8. QED
  BY <1>1, <1>2, <1>3, <1>4, <1>5, <1>6, <1>7 DEF MistralNext

--------------------------------------------------------------------------------
\* A request that is streamed and alone ends without an answer for a reason of its own.
Justified(t) == t.pc \in {"failed", "emptied"} => t.faulty = TRUE

LEMMA OutcomeAfter ==
  ASSUME MistralTyped, NEW a \in Askers, place.stream, Attends(talk[a]), TalkGoes(a)
  PROVE  Crashes \/ Justified(talk'[a])
<1>h. ASSUME NEW pc \in TalkPc \ {"failed", "emptied"}, NEW i, NEW r, Heard(a, pc, i, r) PROVE Justified(talk'[a])
  BY <1>h, HeardTalk DEF Justified
<1>g. ASSUME NEW t, GoesAs(a, t), t.pc \notin {"failed", "emptied"} \/ t.faulty = TRUE PROVE Justified(talk'[a])
  BY <1>g, GoneTalk DEF Justified
<1>a. ASSUME AnswersOnce(a), ~Crashes PROVE Justified(talk'[a])
  BY <1>a, <1>g DEF AnswersOnce, AnswerTaken
<1>f. ASSUME NEW pc, FailsAs(a, pc) PROVE Justified(talk'[a])
  BY <1>f, <1>g DEF FailsAs
<1>p. {"begun", "continued", "reported"} \subseteq TalkPc \ {"failed", "emptied"}
  BY DEF TalkPc
<1>1. CASE syncAgentTools(a)
  BY <1>1, <1>g, SyncIs
<1>2. CASE PutsQuestion(a)
  BY <1>2, <1>h, <1>p, PutsIs
<1>3. CASE StartsAnew(a)
  BY <1>3, <1>h, <1>p, StartsAnewIs
<1>4. CASE TakesBegun(a)
  BY <1>4, <1>a, <1>f, TakesBegunIs
<1>5. CASE TakesContinued(a)
  BY <1>5, <1>a, <1>g, TakesContinuedIs
<1>6. CASE RunsFunction(a)
  BY <1>6, <1>g, RunsFunctionIs
<1>7. CASE ReportsResults(a)
  <2>1. holder.id # 0
    BY <1>7, ReportsResultsIs DEF Attends
  <2>2. QED
    BY <1>7, <2>1, <1>h, <1>p, ReportsResultsIs
<1>8. CASE TakesReported(a)
  <2>1. talk[a].pc = "reported" => talk[a].reply.kind # "400"
    BY DEF Attends
  <2>2. QED
    BY <1>8, <2>1, <1>a, <1>f, <1>g, TakesReportedIs
<1>9. CASE RegainsConversation(a)
  BY <1>9, RegainsIs DEF Attends
<1>10. QED
  BY <1>1, <1>2, <1>3, <1>4, <1>5, <1>6, <1>7, <1>8, <1>9 DEF TalkGoes

Reasons == place.stream /\ ~place.overlap => \A a \in Askers : Justified(talk[a])

LEMMA ReasonsKept == MistralTyped /\ OneAttends /\ Reasons /\ [MistralNext]_mistralvars => Reasons'
<1> SUFFICES ASSUME MistralTyped, OneAttends, Reasons, [MistralNext]_mistralvars, place'.stream, ~place'.overlap
             PROVE  \A a \in Askers : Justified(talk'[a])
  BY DEF Reasons, Justified
<1>p. UNCHANGED place
  <2>1. ASSUME NEW a \in Askers, TalkGoes(a) PROVE UNCHANGED place
    BY <2>1, TalkEffects DEF TalkEffect, PlaceStays
  <2>2. QED
    BY <2>1 DEF MistralNext, mistralvars, AsksMistral, ReadsContext, SavesContext, CleansContext, ConvGone, ToolsChange
<1>o. place.stream /\ ~place.overlap /\ \A a \in Askers : Justified(talk[a])
  BY <1>p DEF Reasons
<1>1. ASSUME NEW a \in Askers, AsksMistral(a) PROVE \A b \in Askers : Justified(talk'[b])
  <2>1. PICK t \in Talk : Becomes(a, t) /\ (t.pc \in {"sync", "ask"} \/ (t.pc = "failed" /\ t.faulty = TRUE))
    BY <1>1, AsksIs
  <2>2. talk'[a] = t /\ \A b \in Askers \ {a} : talk'[b] = talk[b]
    BY <2>1, TalkBecomes, ConvTypes DEF MistralTyped
  <2>3. Justified(t)
    BY <2>1 DEF Justified
  <2>4. QED
    BY <1>o, <2>2, <2>3
<1>2. ASSUME NEW a \in Askers, TalkGoes(a) PROVE \A b \in Askers : Justified(talk'[b])
  <2>1. TalkEffect(a) /\ ~crashed
    BY <1>2, TalkEffects, TalkGoesIs
  <2>2. \A b \in Askers \ {a} : talk'[b] = talk[b]
    BY <2>1, OtherTalks
  <2>3. Attends(talk[a])
    BY <1>o, <2>1 DEF OneAttends
  <2>4. Crashes \/ Justified(talk'[a])
    BY <1>2, <1>o, <2>3, OutcomeAfter
  <2>5. QED
    BY <1>o, <2>2, <2>4 DEF Crashes
<1>3. CASE ReadsContext
  BY <1>3, SilentIs DEF ReadsContext, MistralTyped, Justified
<1>4. CASE SavesContext \/ CleansContext \/ ToolsChange \/ ConvGone \/ UNCHANGED mistralvars
  BY <1>4, <1>o DEF SavesContext, CleansContext, ToolsChange, ConvGone, mistralvars
<1>5. QED
  BY <1>1, <1>2, <1>3, <1>4 DEF MistralNext

--------------------------------------------------------------------------------
\* Why a responder changes its conversation, and why what is saved of it is written over.
LEMMA LeftForReason ==
  ASSUME MistralTyped, OneAttends, SavedIsCurrent, MistralNext, ~place.overlap, holder.id # 0, holder'.id # holder.id
  PROVE  \/ GivenUpForReason(holder.id)
         \/ restarts' # restarts /\ (copy = "unsaved" \/ copy' = "unread")
<1>1. ASSUME NEW a \in Askers, AsksMistral(a) PROVE FALSE
  BY <1>1, AsksIs DEF IdsStay
<1>2. ASSUME NEW a \in Askers, TalkGoes(a)
      PROVE  Useless(holder.id) \/ talk[a].pc = "sync" \/ Outage(a)
  <2>1. Attends(talk[a])
    BY <1>2, TalkGoesIs DEF OneAttends
  <2>a. Spoke(a) => HasSpoken(talk[a])
    BY DEF Spoke, HasSpoken
  <2>2. CASE syncAgentTools(a)
    BY <2>2, SyncIs
  <2>3. CASE PutsQuestion(a) \/ StartsAnew(a) \/ RunsFunction(a) \/ ReportsResults(a)
    BY <2>3, PutsIs, StartsAnewIs, RunsFunctionIs, ReportsResultsIs DEF Quietly, IdsStay
  <2>4. CASE TakesBegun(a)
    BY <2>1, <2>4, TakesBegunIs DEF Attends
  <2>5. CASE TakesContinued(a)
    <3>1. talk[a].pc = "continued"
      BY <2>5, TakesContinuedIs
    <3>2. ~Spoke(a) /\ talk[a].reply.kind \in {"400", "404", "503", "500"}
      BY <2>1, <2>5, <2>a, <3>1, TakesContinuedIs DEF Attends, Spoke
    <3>3. QED
      BY <2>1, <3>1, <3>2 DEF Attends, Useless, Outage
  <2>6. CASE TakesReported(a)
    <3>1. talk[a].pc \in {"reported", "retold"}
      BY <2>6, TakesReportedIs
    <3>2. talk[a].pc = "reported"
      BY <2>1, <3>1 DEF Attends
    <3>3. ~Spoke(a)
      <4> SUFFICES ASSUME Spoke(a) PROVE FALSE
        OBVIOUS
      <4>1. talk[a].reply.id = holder.id
        BY <2>1, <2>a, <3>2 DEF Attends
      <4>2. talk[a].reply.kind \notin {"400", "503", "error"}
        BY DEF Spoke
      <4>3. holder'.id = holder.id
        BY <2>6, <4>1, <4>2, TakesReportedIs
      <4>4. QED
        BY <4>3
    <3>4. talk[a].reply.kind \in {"400", "503", "error"}
      BY <2>6, <3>3, TakesReportedIs
    <3>5. QED
      BY <2>1, <3>2, <3>4 DEF Attends, Outage
  <2>7. CASE RegainsConversation(a)
    BY <2>1, <2>7, RegainsIs DEF Attends, Quietly, IdsStay
  <2>8. QED
    BY <1>2, <2>2, <2>3, <2>4, <2>5, <2>6, <2>7 DEF TalkGoes
<1>3. ASSUME ReadsContext PROVE restarts' # restarts /\ (copy = "unsaved" \/ copy' = "unread")
  <2>1. restarts' # restarts
    BY <1>3, MistralAssumption DEF ReadsContext, MistralTyped, MistralTypeOK
  <2>2. holder'.id = kept \/ copy' = "unread"
    BY <1>3 DEF ReadsContext
  <2>3. QED
    BY <2>1, <2>2 DEF SavedIsCurrent
<1>4. CASE SavesContext \/ CleansContext \/ ConvGone \/ ToolsChange
  BY <1>4 DEF SavesContext, CleansContext, ConvGone, ToolsChange, MistralTyped, MistralTypeOK, Holder
<1>5. QED
  BY <1>1, <1>2, <1>3, <1>4 DEF MistralNext, GivenUpForReason

LEMMA WrittenForReason ==
  ASSUME MistralTyped, OneAttends, SavedIsCurrent, MistralNext
  PROVE  KeptUnless({"unsaved", "unread"})
<1> SUFFICES ASSUME ~KeptUnless({"unsaved", "unread"}) PROVE FALSE
  OBVIOUS
<1>1. /\ ~place.overlap /\ kept # 0 /\ kept' # kept /\ ~GivenUpForReason(kept)
      /\ copy \notin {"unsaved", "unread"}
  BY DEF KeptUnless
<1>2. kept = holder.id
  BY <1>1 DEF SavedIsCurrent, GivenUpForReason, Useless
<1>3. kept' = holder'.id /\ restarts' = restarts
  <2>1. ASSUME NEW a \in Askers, AsksMistral(a) PROVE FALSE
    BY <1>1, <2>1, AsksIs DEF IdsStay
  <2>2. ASSUME NEW a \in Askers, TalkGoes(a) PROVE kept' = holder'.id /\ restarts' = restarts
    <3>1. TalkEffect(a)
      BY <2>2, TalkEffects
    <3>2. QED
      BY <1>1, <3>1 DEF TalkEffect, ForgetsId, IdsFollow, PlaceStays
  <2>3. CASE ReadsContext \/ SavesContext \/ CleansContext \/ ConvGone \/ ToolsChange
    BY <1>1, <2>3 DEF ReadsContext, SavesContext, CleansContext, ConvGone, ToolsChange
  <2>4. QED
    BY <2>1, <2>2, <2>3 DEF MistralNext
<1>4. holder.id # 0 /\ holder'.id # holder.id
  BY <1>1, <1>2, <1>3
<1>5. QED
  BY <1>1, <1>2, <1>3, <1>4, LeftForReason

(* A conversation lasts: a restart finds the one the responder has, or one nobody *)
(* can go on with, but for an id that could not be saved or read; one request at *)
(* a time gives it up, or writes over its saved id, only for that, for new tools, *)
(* an outage, or when it takes nothing more; and no conversation an earlier      *)
(* request left waiting makes a later one fail. Requests that are not streamed   *)
(* may overlap only where conversations do not break.                           *)
THEOREM ConversationIsKept == OneGivesUp /\ MistralSpec => ConversationLasts
<1> DEFINE Inv == MistralTyped /\ Unbroken /\ OneAttends /\ Reasons
<1>1. MistralInit => Unbroken /\ OneAttends /\ Reasons /\ SavedIsCurrent
  <2> SUFFICES ASSUME MistralInit PROVE Unbroken /\ OneAttends /\ Reasons /\ SavedIsCurrent
    OBVIOUS
  <2>1. kept = holder.id /\ Len(convs) = 1 /\ convs[1].state = "ok"
    BY DEF MistralInit
  <2>2. \A a \in Askers : talk[a].pc = "idle" /\ talk[a].reply.kind = "none"
    BY SilentIs, MistralTypedFirst DEF MistralInit, MistralTyped
  <2>3. Unbroken
    BY <2>1, <2>2 DEF Unbroken
  <2>4. OneAttends
    BY <2>2 DEF OneAttends, OneTalks, Talking, Attends
  <2>5. Reasons /\ SavedIsCurrent
    BY <2>1, <2>2 DEF Reasons, Justified, SavedIsCurrent
  <2>6. QED
    BY <2>3, <2>4, <2>5
<1>2. MistralSpec => []Inv
  BY <1>1, MistralTypedFirst, MistralTypedKept, UnbrokenKept, OneAttendsKept, ReasonsKept, PTL DEF MistralSpec
<1>3. OneGivesUp /\ MistralSpec => []SavedIsCurrent
  <2> SUFFICES ASSUME OneGivesUp PROVE MistralSpec => []SavedIsCurrent
    OBVIOUS
  <2>1. Inv /\ SavedIsCurrent /\ [MistralNext]_mistralvars => SavedIsCurrent'
    BY SavedKept
  <2>2. QED
    BY <1>1, <1>2, <2>1, PTL DEF MistralSpec
<1>4. Reasons => OutcomeHasReason
  BY DEF Reasons, Justified, OutcomeHasReason
<1>5. Inv /\ SavedIsCurrent /\ [MistralNext]_mistralvars =>
        [~place.overlap /\ holder.id # 0 /\ holder'.id # holder.id =>
          \/ GivenUpForReason(holder.id)
          \/ restarts' # restarts /\ (copy = "unsaved" \/ copy' = "unread")]_mistralvars
  BY LeftForReason
<1>6. OneGivesUp /\ MistralSpec => AbandonedForReason
  <2>1. MistralSpec /\ []SavedIsCurrent => AbandonedForReason
    BY <1>2, <1>5, PTL DEF MistralSpec, AbandonedForReason
  <2>2. QED
    BY <1>3, <2>1, PTL
<1>7. OneGivesUp /\ MistralSpec => SavedLasts
  <2>1. Inv /\ SavedIsCurrent /\ [MistralNext]_mistralvars => [KeptUnless({"unsaved", "unread"})]_mistralvars
    BY WrittenForReason
  <2>2. MistralSpec /\ []SavedIsCurrent => SavedLasts
    BY <1>2, <2>1, PTL DEF MistralSpec, SavedLasts
  <2>3. QED
    BY <1>3, <2>2, PTL
<1>8. QED
  BY <1>2, <1>3, <1>4, <1>6, <1>7, PTL DEF ConversationLasts

--------------------------------------------------------------------------------
(* A request to Mistral comes nearer to its end                                 *)

TalkOver(t) == t.pc \in {"idle", "answered", "emptied", "failed"}

\* What can follow what in a request, its rounds and results included.
TalkPasses(t, u) ==
  \/ ~TalkOver(t) /\ TalkOver(u)
  \/ /\ u.rounds = t.rounds
     /\ \/ t.pc = "sync" /\ u.pc = "ask"
        \/ t.pc = "ask" /\ u.pc \in {"begun", "continued"}
        \/ t.pc = "continued" /\ u.pc = "recover"
        \/ t.pc = "recover" /\ u.pc = "begun"
        \/ t.pc \in {"begun", "continued"} /\ u.pc = "functions" /\ u.results = 0
        \/ t.pc = "functions" /\ u.pc = "functions" /\ u.results = t.results + 1
        \/ t.pc = "functions" /\ u.pc \in {"reported", "retold"}
        \/ t.pc = "reported" /\ u.pc = "regain"
        \/ t.pc = "regain" /\ u.pc = "regained"
  \/ /\ u.rounds = t.rounds + 1
     /\ t.pc \in {"reported", "retold"} /\ u.pc = "functions" /\ u.results = 0

LEMMA StagesOf ==
  ASSUME NEW t \in Talk
  PROVE  /\ t.pc = "sync" => TalkStage(t) = MaxParallel + 10
         /\ t.pc = "ask" => TalkStage(t) = MaxParallel + 9
         /\ t.pc = "continued" => TalkStage(t) = MaxParallel + 8
         /\ t.pc = "recover" => TalkStage(t) = MaxParallel + 7
         /\ t.pc = "begun" => TalkStage(t) = MaxParallel + 6
         /\ t.pc = "functions" => TalkStage(t) = MaxParallel - t.results + 5
         /\ t.pc \in {"reported", "retold"} => TalkStage(t) = 4
         /\ t.pc = "regain" => TalkStage(t) = 3
         /\ t.pc = "regained" => TalkStage(t) = 2
         /\ TalkStage(t) \in Nat /\ TalkStage(t) >= 2
         /\ t.results \in 0 .. MaxParallel /\ t.rounds \in 0 .. MaxRounds
<1>1. t.results \in 0 .. MaxParallel /\ t.rounds \in 0 .. MaxRounds /\ MaxParallel \in Nat
  BY MistralAssumption DEF Talk
<1>2. TalkStage(t) \in {MaxParallel + 10, MaxParallel + 9, MaxParallel + 8, MaxParallel + 7, MaxParallel + 6,
                        MaxParallel - t.results + 5, 4, 3, 2}
  BY DEF TalkStage
<1>3. TalkStage(t) \in Nat /\ TalkStage(t) >= 2
  BY <1>1, <1>2
<1>4. QED
  BY <1>1, <1>3 DEF TalkStage

LEMMA RoundsCount ==
  ASSUME NEW n \in 0 .. MaxRounds
  PROVE  /\ (MaxRounds - n) * (MaxParallel + 2) \in Nat
         /\ (MaxRounds - n) * (MaxParallel + 2) = (MaxRounds - (n + 1)) * (MaxParallel + 2) + MaxParallel + 2
<1> DEFINE size == MaxParallel + 2
<1>1. MaxRounds \in Nat /\ n \in Nat /\ n <= MaxRounds /\ MaxParallel \in Nat /\ size \in Nat /\ size = MaxParallel + 2
  BY MistralAssumption
<1> HIDE DEF size
<1>2. \A l, m \in Nat : l * m \in Nat
  OBVIOUS
<1>3. (MaxRounds - n) * size \in Nat /\ (MaxRounds - n) * size = (MaxRounds - (n + 1)) * size + size
  BY <1>1, <1>2
<1>4. (MaxRounds - (n + 1)) * size \in Int
  BY <1>1
<1>5. QED
  BY <1>1, <1>3, <1>4 DEF size

LEMMA TalkFalls ==
  ASSUME NEW t \in Talk, NEW u \in Talk, TalkPasses(t, u)
  PROVE  TalkLeft(u) \in 0 .. TalkLeft(t) - 1
<1> DEFINE before == (MaxRounds - t.rounds) * (MaxParallel + 2)
           after == (MaxRounds - u.rounds) * (MaxParallel + 2)
<1>1. before \in Nat /\ after \in Nat /\ (u.rounds = t.rounds => after = before)
  BY StagesOf, RoundsCount
<1>2. u.rounds = t.rounds + 1 => before = after + MaxParallel + 2
  BY StagesOf, RoundsCount
<1>3. /\ ~TalkOver(t) => TalkLeft(t) = before + TalkStage(t)
      /\ ~TalkOver(u) => TalkLeft(u) = after + TalkStage(u)
      /\ TalkOver(u) => TalkLeft(u) = 0
  BY DEF TalkLeft, TalkOver
<1> HIDE DEF before, after
<1>4. TalkStage(t) \in Nat /\ TalkStage(t) >= 2 /\ TalkStage(u) \in Nat /\ TalkStage(u) >= 2
      /\ t.results \in 0 .. MaxParallel /\ u.results \in 0 .. MaxParallel /\ MaxParallel \in Nat
  BY StagesOf, MistralAssumption
<1>5. CASE ~TalkOver(t) /\ TalkOver(u)
  BY <1>1, <1>3, <1>4, <1>5
<1>6. CASE u.rounds = t.rounds /\ TalkStage(u) < TalkStage(t) /\ ~TalkOver(t) /\ ~TalkOver(u)
  BY <1>1, <1>3, <1>4, <1>6
<1>7. CASE /\ u.rounds = t.rounds + 1
           /\ t.pc \in {"reported", "retold"} /\ u.pc = "functions" /\ u.results = 0
  <2>1. TalkStage(t) = 4 /\ TalkStage(u) = MaxParallel + 5 /\ ~TalkOver(t) /\ ~TalkOver(u)
    <3>1. TalkStage(t) = 4 /\ TalkStage(u) = MaxParallel - u.results + 5
      BY <1>7, StagesOf
    <3>2. ~TalkOver(t) /\ ~TalkOver(u)
      BY <1>7 DEF TalkOver
    <3>3. QED
      BY <1>4, <1>7, <3>1, <3>2
  <2>2. QED
    BY <1>1, <1>2, <1>3, <1>4, <1>7, <2>1
<1>8. ASSUME \/ t.pc = "sync" /\ u.pc = "ask"
             \/ t.pc = "ask" /\ u.pc \in {"begun", "continued"}
             \/ t.pc = "continued" /\ u.pc = "recover"
             \/ t.pc = "recover" /\ u.pc = "begun"
             \/ t.pc \in {"begun", "continued"} /\ u.pc = "functions" /\ u.results = 0
             \/ t.pc = "functions" /\ u.pc = "functions" /\ u.results = t.results + 1
             \/ t.pc = "functions" /\ u.pc \in {"reported", "retold"}
             \/ t.pc = "reported" /\ u.pc = "regain"
             \/ t.pc = "regain" /\ u.pc = "regained"
      PROVE  TalkStage(u) < TalkStage(t) /\ ~TalkOver(t) /\ ~TalkOver(u)
  <2>1. /\ t.pc = "sync" => TalkStage(t) = MaxParallel + 10
        /\ t.pc = "ask" => TalkStage(t) = MaxParallel + 9
        /\ t.pc = "continued" => TalkStage(t) = MaxParallel + 8
        /\ t.pc = "recover" => TalkStage(t) = MaxParallel + 7
        /\ t.pc = "begun" => TalkStage(t) = MaxParallel + 6
        /\ t.pc = "functions" => TalkStage(t) = MaxParallel - t.results + 5
        /\ t.pc = "reported" => TalkStage(t) = 4
        /\ t.pc = "regain" => TalkStage(t) = 3
    BY StagesOf
  <2>2. /\ u.pc = "ask" => TalkStage(u) = MaxParallel + 9
        /\ u.pc = "continued" => TalkStage(u) = MaxParallel + 8
        /\ u.pc = "recover" => TalkStage(u) = MaxParallel + 7
        /\ u.pc = "begun" => TalkStage(u) = MaxParallel + 6
        /\ u.pc = "functions" => TalkStage(u) = MaxParallel - u.results + 5
        /\ u.pc \in {"reported", "retold"} => TalkStage(u) = 4
        /\ u.pc = "regain" => TalkStage(u) = 3
        /\ u.pc = "regained" => TalkStage(u) = 2
    BY StagesOf
  <2>3. TalkStage(u) < TalkStage(t)
    BY <1>4, <1>8, <2>1, <2>2
  <2>4. ~TalkOver(t) /\ ~TalkOver(u)
    BY <1>8 DEF TalkOver
  <2>5. QED
    BY <2>3, <2>4
<1>9. QED
  BY <1>5, <1>6, <1>7, <1>8 DEF TalkPasses

\* What the steps of a request do to its rounds and results.
LEMMA RoundsStay ==
  ASSUME MistralTyped, NEW a \in Askers, NEW pc \in TalkPc, Becomes(a, Now(a, pc)) \/ Becomes(a, Suffers(a, pc))
  PROVE  talk'[a].pc = pc /\ talk'[a].rounds = talk[a].rounds /\ talk'[a].results = talk[a].results
<1> DEFINE t == talk[a]
           u == [t EXCEPT !.pc = pc]
           v == [t EXCEPT !.pc = pc, !.faulty = TRUE]
<1>1. t \in Talk
  BY NamedTalk
<1>2. Becomes(a, u) \/ Becomes(a, v)
  BY DEF Now, Suffers
<1> HIDE DEF t
<1>3. /\ u \in Talk /\ u.pc = pc /\ u.rounds = t.rounds /\ u.results = t.results
      /\ v \in Talk /\ v.pc = pc /\ v.rounds = t.rounds /\ v.results = t.results
  BY <1>1, TalkMoves
<1> HIDE DEF u, v
<1>4. talk'[a] = u \/ talk'[a] = v
  BY <1>2, <1>3, TalkBecomes, ConvTypes DEF MistralTyped
<1>5. QED
  BY <1>3, <1>4 DEF t

LEMMA RoundsBegin ==
  ASSUME MistralTyped, NEW a \in Askers, NEW k \in 0 .. MaxRounds
  PROVE  /\ Becomes(a, [Now(a, "functions") EXCEPT !.results = 0]) =>
               talk'[a].pc = "functions" /\ talk'[a].results = 0 /\ talk'[a].rounds = talk[a].rounds
         /\ Becomes(a, [Now(a, "functions") EXCEPT !.results = 0, !.rounds = k]) =>
               talk'[a].pc = "functions" /\ talk'[a].results = 0 /\ talk'[a].rounds = k
<1>1. 0 \in 0 .. MaxParallel
  BY ConvTypes DEF MistralTyped
<1> DEFINE t == talk[a]
           u == [[t EXCEPT !.pc = "functions"] EXCEPT !.results = 0]
           v == [[t EXCEPT !.pc = "functions"] EXCEPT !.results = 0, !.rounds = k]
<1>2. t \in Talk
  BY NamedTalk
<1>3. [Now(a, "functions") EXCEPT !.results = 0] = u /\ [Now(a, "functions") EXCEPT !.results = 0, !.rounds = k] = v
  BY DEF Now
<1> HIDE DEF t
<1>4. /\ u \in Talk /\ u.pc = "functions" /\ u.results = 0 /\ u.rounds = t.rounds
      /\ v \in Talk /\ v.pc = "functions" /\ v.results = 0 /\ v.rounds = k
  BY <1>1, <1>2 DEF Talk
<1> HIDE DEF u, v
<1>5. (Becomes(a, u) => talk'[a] = u) /\ (Becomes(a, v) => talk'[a] = v)
  BY <1>4, TalkBecomes, ConvTypes DEF MistralTyped
<1>6. QED
  BY <1>3, <1>4, <1>5 DEF t

LEMMA RoundsHeard ==
  ASSUME MistralTyped, NEW a \in Askers, NEW pc \in TalkPc, NEW i, NEW r, Heard(a, pc, i, r)
  PROVE  talk'[a].pc = pc /\ talk'[a].rounds = talk[a].rounds
<1> DEFINE s == talk[a]
           t == [[s EXCEPT !.pc = pc] EXCEPT !.reply = r]
<1>1. s \in Talk
  BY NamedTalk
<1>2. Becomes(a, t) /\ r \in Received
  BY DEF Heard
<1> HIDE DEF s
<1>3. t \in Talk /\ t.pc = pc /\ t.rounds = s.rounds
  BY <1>1, <1>2 DEF Talk, TalkPc
<1> HIDE DEF t
<1>4. talk'[a] = t
  BY <1>2, <1>3, TalkBecomes, ConvTypes DEF MistralTyped
<1>5. QED
  BY <1>3, <1>4 DEF s

\* The request of a does what can follow what it did, or stands still.
TalkNears(a) == talk'[a] = talk[a] \/ TalkPasses(talk[a], talk'[a])

LEMMA EndNears ==
  ASSUME MistralTyped, NEW a \in Askers, Talking(a), NEW pc \in {"answered", "emptied", "failed"},
         Becomes(a, Now(a, pc)) \/ Becomes(a, Suffers(a, pc))
  PROVE  TalkNears(a)
<1>1. pc \in TalkPc
  BY DEF TalkPc
<1>2. talk'[a].pc = pc
  BY <1>1, RoundsStay
<1>3. QED
  BY <1>2 DEF TalkNears, TalkPasses, TalkOver, Talking

LEMMA AnswerNears ==
  ASSUME MistralTyped, NEW a \in Askers, Talking(a), TakesAnswer(a),
         talk[a].reply.kind = "calls" => talk[a].pc \in {"begun", "continued"}
  PROVE  TalkNears(a)
<1>1. CASE talk[a].reply.kind = "text"
  <2>1. Appends(a, Now(a, "answered"))
    BY <1>1 DEF TakesAnswer, processResponse
  <2>2. UNCHANGED talk \/ Becomes(a, Now(a, "answered"))
    BY <2>1 DEF Appends
  <2>3. QED
    BY <2>2, EndNears DEF TalkNears
<1>2. CASE talk[a].reply.kind = "calls"
  <2>1. Becomes(a, [Now(a, "functions") EXCEPT !.results = 0])
    BY <1>2 DEF TakesAnswer, processResponse
  <2>2. 0 \in 0 .. MaxRounds
    BY ConvTypes DEF MistralTyped
  <2>3. talk'[a].pc = "functions" /\ talk'[a].results = 0 /\ talk'[a].rounds = talk[a].rounds
    BY <2>1, <2>2, RoundsBegin
  <2>4. QED
    BY <1>2, <2>3 DEF TalkNears, TalkPasses
<1>3. CASE talk[a].reply.kind \notin {"text", "calls"}
  <2>1. Becomes(a, Suffers(a, "emptied"))
    BY <1>3 DEF TakesAnswer, processResponse
  <2>2. QED
    BY <2>1, EndNears
<1>4. QED
  BY <1>1, <1>2, <1>3

LEMMA ReportedNears ==
  ASSUME MistralTyped, NEW a \in Askers, TakesReported(a)
  PROVE  TalkNears(a)
<1>1. talk[a].pc \in {"reported", "retold"} /\ Talking(a)
  BY DEF TakesReported, TalkAt, Talking
<1>2. CASE talk[a].reply.kind = "calls" /\ NextRound(a)
  <2>1. CASE talk[a].rounds + 1 < MaxRounds
    <3>1. talk[a].rounds + 1 \in 0 .. MaxRounds
      BY <2>1, NamedTalk, ConvTypes DEF MistralTyped
    <3> DEFINE k == talk[a].rounds + 1
    <3>2. Becomes(a, [Now(a, "functions") EXCEPT !.results = 0, !.rounds = k])
      <4>1. Now(a, "functions").rounds = talk[a].rounds
        BY NamedTalk DEF Now, Talk
      <4>2. QED
        BY <1>2, <2>1, <4>1 DEF NextRound
    <3> HIDE DEF k
    <3>3. talk'[a].pc = "functions" /\ talk'[a].results = 0 /\ talk'[a].rounds = k
      BY <3>1, <3>2, RoundsBegin DEF k
    <3>4. QED
      BY <1>1, <3>3 DEF k, TalkNears, TalkPasses
  <2>2. CASE ~(talk[a].rounds + 1 < MaxRounds)
    <3>1. Becomes(a, Suffers(a, "emptied"))
      BY <1>2, <2>2 DEF NextRound
    <3>2. QED
      BY <1>1, <3>1, EndNears
  <2>3. QED
    BY <2>1, <2>2
<1>3. CASE talk[a].reply.kind # "calls" /\ TakesAnswer(a)
  BY <1>1, <1>3, AnswerNears
<1>4. CASE NotRetold(a)
  BY <1>1, <1>4, EndNears DEF NotRetold
<1>5. CASE StreamingFailed(a, talk[a].reply.kind)
  <2>1. \E pc \in {"emptied", "failed"} : Becomes(a, Now(a, pc)) \/ Becomes(a, Suffers(a, pc))
    BY <1>5 DEF StreamingFailed
  <2>2. QED
    BY <1>1, <2>1, EndNears
<1>6. CASE talk[a].pc = "reported" /\ RequestFailed(a, talk[a].reply.kind)
  <2>1. CASE Becomes(a, Now(a, "regain"))
    <3>1. "regain" \in TalkPc
      BY DEF TalkPc
    <3>2. talk'[a].pc = "regain" /\ talk'[a].rounds = talk[a].rounds
      BY <2>1, <3>1, RoundsStay
    <3>3. QED
      BY <1>6, <3>2 DEF TalkNears, TalkPasses
  <2>2. CASE Becomes(a, Suffers(a, "failed"))
    BY <1>1, <2>2, EndNears
  <2>3. QED
    BY <1>6, <2>1, <2>2 DEF RequestFailed
<1>7. QED
  BY <1>2, <1>3, <1>4, <1>5, <1>6 DEF TakesReported, TalkAt

LEMMA GoingNears ==
  ASSUME MistralTyped, NEW a \in Askers, TalkGoes(a)
  PROVE  TalkNears(a)
<1>0. Talking(a) /\ {"ask", "begun", "continued", "recover", "reported", "retold", "regained"} \subseteq TalkPc
  BY TalkGoesIs DEF TalkPc
<1>1. CASE syncAgentTools(a)
  <2>1. talk[a].pc = "sync" /\ (Becomes(a, Now(a, "ask")) \/ Becomes(a, Suffers(a, "failed")))
    BY <1>1 DEF syncAgentTools, TalkAt
  <2>2. Becomes(a, Now(a, "ask")) => talk'[a].pc = "ask" /\ talk'[a].rounds = talk[a].rounds
    BY <1>0, RoundsStay
  <2>3. QED
    BY <1>0, <2>1, <2>2, EndNears DEF TalkNears, TalkPasses
<1>2. CASE PutsQuestion(a)
  <2>1. /\ talk[a].pc = "ask"
        /\ UNCHANGED talk \/ \E pc \in {"begun", "continued"} : \E i, r : Heard(a, pc, i, r)
    BY <1>2, PutsIs DEF Crashes
  <2>2. talk'[a] = talk[a] \/ (talk'[a].pc \in {"begun", "continued"} /\ talk'[a].rounds = talk[a].rounds)
    BY <1>0, <2>1, RoundsHeard
  <2>3. QED
    BY <2>1, <2>2 DEF TalkNears, TalkPasses
<1>3. CASE StartsAnew(a)
  <2>1. talk[a].pc = "recover" /\ \E i, r : Heard(a, "begun", i, r)
    BY <1>3, StartsAnewIs
  <2>2. talk'[a].pc = "begun" /\ talk'[a].rounds = talk[a].rounds
    BY <1>0, <2>1, RoundsHeard
  <2>3. QED
    BY <2>1, <2>2 DEF TalkNears, TalkPasses
<1>4. CASE TakesBegun(a)
  <2>1. talk[a].pc = "begun" /\ (TakesAnswer(a) \/ Becomes(a, Suffers(a, "failed")))
    BY <1>4 DEF TakesBegun, TalkAt
  <2>2. QED
    BY <1>0, <2>1, AnswerNears, EndNears
<1>5. CASE TakesContinued(a)
  <2>1. /\ talk[a].pc = "continued"
        /\ \/ TakesAnswer(a) \/ Becomes(a, Now(a, "recover"))
           \/ Becomes(a, Now(a, "failed")) \/ Becomes(a, Suffers(a, "failed"))
    BY <1>5 DEF TakesContinued, TalkAt, TalkFails
  <2>2. Becomes(a, Now(a, "recover")) => talk'[a].pc = "recover" /\ talk'[a].rounds = talk[a].rounds
    BY <1>0, RoundsStay
  <2>3. Becomes(a, Now(a, "recover")) => TalkNears(a)
    BY <2>1, <2>2 DEF TalkNears, TalkPasses
  <2>4. QED
    BY <1>0, <2>1, <2>3, AnswerNears, EndNears
<1>6. CASE RunsFunction(a)
  <2>1. /\ talk[a].pc = "functions" /\ talk[a].results < Wanted(a)
        /\ UNCHANGED talk \/ Becomes(a, [talk[a] EXCEPT !.results = @ + 1])
    BY <1>6 DEF RunsFunction, TalkAt, Appends
  <2>2. CASE UNCHANGED talk
    BY <2>2 DEF TalkNears
  <2>3. CASE Becomes(a, [talk[a] EXCEPT !.results = @ + 1])
    <3> DEFINE t == [talk[a] EXCEPT !.results = @ + 1]
    <3>1. talk[a].results + 1 \in 0 .. MaxParallel
      BY <2>1, NamedTalk, WantedIs, ConvTypes DEF MistralTyped
    <3>2. t \in Talk /\ t.pc = "functions" /\ t.rounds = talk[a].rounds /\ t.results = talk[a].results + 1
      BY <2>1, <3>1, NamedTalk DEF Talk
    <3> HIDE DEF t
    <3>3. talk'[a] = t
      BY <2>3, <3>2, TalkBecomes, ConvTypes DEF MistralTyped, t
    <3>4. QED
      BY <2>1, <3>2, <3>3 DEF TalkNears, TalkPasses
  <2>4. QED
    BY <2>1, <2>2, <2>3
<1>7. CASE ReportsResults(a)
  <2>1. /\ talk[a].pc = "functions"
        /\ \/ Becomes(a, Now(a, "emptied"))
           \/ \E pc \in {"reported", "retold"} : \E i, r : Heard(a, pc, i, r)
    <3>1. holder.id = 0 /\ place.stream => Becomes(a, Now(a, "emptied"))
      BY <1>7 DEF ReportsResults
    <3>2. talk[a].pc = "functions" /\ (holder.id = 0 => Becomes(a, Now(a, "emptied")) \/ StartConversation(a, "retold"))
      BY <1>7 DEF ReportsResults, TalkAt
    <3>3. StartConversation(a, "retold") => \E i, r : Heard(a, "retold", i, r)
      BY <1>0, StartsHears DEF MistralTyped
    <3>4. holder.id # 0 => \E i, r : Heard(a, "reported", i, r)
      BY <1>7, ReportsResultsIs
    <3>5. QED
      BY <3>2, <3>3, <3>4
  <2>2. \/ Becomes(a, Now(a, "emptied"))
        \/ talk'[a].pc \in {"reported", "retold"} /\ talk'[a].rounds = talk[a].rounds
    BY <1>0, <2>1, RoundsHeard
  <2>3. QED
    BY <1>0, <2>1, <2>2, EndNears DEF TalkNears, TalkPasses
<1>8. CASE TakesReported(a)
  BY <1>8, ReportedNears
<1>9. CASE RegainsConversation(a)
  <2>1. CASE TalkAt(a, "regain") /\ StartConversation(a, "regained")
    <3>1. \E i, r : Heard(a, "regained", i, r)
      BY <1>0, <2>1, StartsHears DEF MistralTyped
    <3>2. talk'[a].pc = "regained" /\ talk'[a].rounds = talk[a].rounds
      BY <1>0, <3>1, RoundsHeard
    <3>3. QED
      BY <2>1, <3>2 DEF TalkAt, TalkNears, TalkPasses
  <2>2. CASE Becomes(a, IF Spoke(a) THEN Now(a, "failed") ELSE Suffers(a, "failed"))
    <3>1. Becomes(a, Now(a, "failed")) \/ Becomes(a, Suffers(a, "failed"))
      BY <2>2
    <3>2. QED
      BY <1>0, <3>1, EndNears
  <2>3. QED
    BY <1>9, <2>1, <2>2 DEF RegainsConversation
<1>10. QED
  BY <1>0, <1>1, <1>2, <1>3, <1>4, <1>5, <1>6, <1>7, <1>8, <1>9 DEF TalkGoes

\* What any step does to a request that is under way.
LEMMA AnyTalkNears ==
  ASSUME MistralTyped, [MistralNext]_mistralvars, NEW a \in Askers, Talking(a), talk'[a] # talk[a]
  PROVE  TalkOver(talk'[a]) \/ TalkPasses(talk[a], talk'[a])
<1>1. ASSUME NEW b \in Askers, AsksMistral(b) PROVE FALSE
  <2>1. b # a
    BY <1>1, AsksIs
  <2>2. PICK t \in Talk : Becomes(b, t)
    BY <1>1, AsksIs
  <2>3. talk'[a] = talk[a]
    BY <2>1, <2>2, TalkBecomes, ConvTypes DEF MistralTyped
  <2>4. QED
    BY <2>3
<1>2. ASSUME NEW b \in Askers, TalkGoes(b) PROVE TalkPasses(talk[a], talk'[a])
  <2>1. b = a
    BY <1>2, TalkEffects, OtherTalks
  <2>2. QED
    BY <1>2, <2>1, GoingNears DEF TalkNears
<1>3. CASE ReadsContext
  <2>1. talk'[a] = Silent
    BY <1>3 DEF ReadsContext
  <2>2. QED
    BY <2>1, SilentIs DEF TalkOver, MistralTyped
<1>4. CASE UNCHANGED talk
  BY <1>4
<1>5. QED
  BY <1>1, <1>2, <1>3, <1>4 DEF MistralNext, mistralvars, SavesContext, CleansContext, ConvGone, ToolsChange

\* Every round takes as many calls again, and there are MaxRounds of them.
LEMMA TalkComesNearer ==
  MistralTyped /\ MistralTyped' /\ [MistralNext]_mistralvars =>
    \A a \in Askers : Talking(a) /\ talk'[a] # talk[a] => TalkLeft(talk'[a]) \in 0 .. TalkLeft(talk[a]) - 1
<1> SUFFICES ASSUME MistralTyped, MistralTyped', [MistralNext]_mistralvars, NEW a \in Askers,
                    Talking(a), talk'[a] # talk[a]
             PROVE  TalkLeft(talk'[a]) \in 0 .. TalkLeft(talk[a]) - 1
  OBVIOUS
<1> DEFINE t == talk[a]
           u == talk'[a]
<1>1. t \in Talk /\ u \in Talk
  BY DEF MistralTyped, MistralTypeOK
<1>2. ~TalkOver(t)
  BY DEF Talking, TalkOver
<1>3. TalkOver(u) \/ TalkPasses(t, u)
  BY AnyTalkNears
<1> HIDE DEF t, u
<1>4. TalkPasses(t, u)
  BY <1>2, <1>3 DEF TalkPasses
<1>5. TalkLeft(u) \in 0 .. TalkLeft(t) - 1
  BY <1>1, <1>4, TalkFalls
<1>6. QED
  BY <1>5 DEF t, u

(* A request to Mistral cannot go on for ever: whatever is answered, lost or    *)
(* broken, every step it makes leaves it fewer steps to make, and a conversation *)
(* given up, a round of functions or a restart never gives any back.            *)
THEOREM TalksAdvance == MistralSpec => TalkAdvances
<1>1. MistralTyped /\ MistralTyped' /\ [MistralNext]_mistralvars =>
        [\A a \in Askers : Talking(a) /\ talk'[a] # talk[a] =>
            TalkLeft(talk'[a]) \in 0 .. TalkLeft(talk[a]) - 1]_mistralvars
  BY TalkComesNearer
<1>2. QED
  BY <1>1, MistralTypedAlways, PTL DEF MistralSpec, TalkAdvances

--------------------------------------------------------------------------------
(* The three parts in one behaviour                                             *)

(* A behaviour of the run is one of the responders, one of the request loop and *)
(* one of the requests to Mistral: what is proved of each of them alone, for any *)
(* setup, holds in the specification the run checks.                            *)
THEOREM ProvidersAreTheirParts == ProvidersSpec => Spec /\ LoopSpec /\ MistralSpec
<1>1. ProvidersInit => Init /\ LoopInit /\ MistralInit
  BY DEF ProvidersInit, RespondersRest, LoopRests, MistralRests
<1>2. [ProvidersNext]_providervars => [Next]_vars /\ [LoopNext]_loopvars /\ [MistralNext]_mistralvars
  <2>1. ProvidersNext => [Next]_vars /\ [LoopNext]_loopvars /\ [MistralNext]_mistralvars
    BY DEF ProvidersNext
  <2>2. UNCHANGED providervars => UNCHANGED vars /\ UNCHANGED loopvars /\ UNCHANGED mistralvars
    BY DEF providervars
  <2>3. QED
    BY <2>1, <2>2
<1>3. QED
  BY <1>1, <1>2, PTL DEF ProvidersSpec, Spec, LoopSpec, MistralSpec

(* In every run of the provider side, whichever part acts, the variables of all *)
(* three keep their types.                                                      *)
THEOREM ProvidersTypeCorrect == ProvidersSpec => []ProvidersTypeOK
  BY ProvidersAreTheirParts, RespondersTypeCorrect, LoopTypeCorrect, MistralTypeCorrect, PTL DEF ProvidersTypeOK

(* No answer is put off for ever: a request goes on with all the results it was *)
(* asked for, and every step of one, to OpenAI, Google or Mistral, brings it    *)
(* nearer to its end, however many attempts, functions and rounds it may have.  *)
THEOREM AnswersComeNearer == ProvidersSpec => AnswersAdvance
  BY ProvidersAreTheirParts, CallsHaveResults, RequestsAdvance, TalksAdvance, PTL DEF AnswersAdvance

(* What the run checks of the provider side, but liveness, holds for any number of *)
(* responders, callers, sweepers, requests and conversations, and any setups.   *)
THEOREM ProvidersAreSafe ==
  ProvidersSpec => /\ [](ToolsFit /\ LiveIsMapped /\ WaiterWoken /\ ToldWhatWasSaid)
                   /\ AnswersAdvance
                   /\ OneGivesUp => ConversationLasts
  BY ProvidersAreTheirParts, AnswersComeNearer, ToolsAlwaysFit, LiveResponderIsMapped, StoredResponderWakes,
     ModelHearsTheDialog, ConversationIsKept, PTL
================================================================================
