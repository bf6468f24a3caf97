-------------------------- MODULE TextSessionProofs --------------------------
(* What TLAPS proves of a text session: of the life of its goroutines          *)
(* (TextSession), for any number of calls - what a tear-down waits for has been *)
(* told to end, and no flag outlives its goroutine - and of one question on its *)
(* way to the model (AskRetry), for any bounds and errors; and of both in the   *)
(* specification MCTextSession composes.                                       *)
EXTENDS MCTextSession, TLAPS

(***************************************************************************)
(* The Load and the Store of the Listener flag are two steps, so OneListener*)
(* is not inductive alone: when starts are serial the flag is up while a   *)
(* Listener runs and down while a caller stands between the two steps.     *)
(***************************************************************************)
Serial ==
  ~ConcurrentStarts =>
    /\ \A c \in Calls : Running(c) => listenerFlag
    /\ \A c \in Calls : lpc[c] = "checked" => ~listenerFlag
    /\ \A c, d \in Calls : lpc[c] = "checked" /\ lpc[d] = "checked" => c = d
    /\ \A c, d \in Calls : Running(c) /\ Running(d) => c = d

(***************************************************************************)
(* wg.Done follows the Respondent's last send, and Wait follows wg.Done.   *)
(***************************************************************************)
Waited ==
  /\ \A c \in Calls : lpc[c] \in {"idle", "checked", "starting", "select",
                                  "teardown", "refused"} => awaited[c] = NoCall
  /\ \A c \in Calls : lpc[c] = "await" => awaited[c] # NoCall
  /\ \A c \in Calls : lpc[c] \in {"close", "release", "done"}
                        /\ awaited[c] # NoCall => wgCount[awaited[c]] = 0
  /\ wgEntry # NoCall => rpc[wgEntry] # "none"
  /\ \A c \in Calls : awaited[c] # NoCall => rpc[awaited[c]] # "none"

(***************************************************************************)
(* The counter of a WaitGroup is 1 from the fork of its Respondent to that *)
(* Respondent's wg.Done: without it the type of wgCount is not inductive.  *)
(***************************************************************************)
Counted ==
  /\ \A c \in Calls : wgCount[c] = 0 <=> rpc[c] \in {"none", "wgdone", "done"}
  /\ \A c \in Calls : spc[c] # "started" => rpc[c] = "none"
  /\ \A c \in Calls : lpc[c] \in {"idle", "checked", "starting"}
                        => spc[c] = "none"

Typed == TypeOK /\ Counted

LEMMA TypedInit == Init => Typed
<1> SUFFICES ASSUME Init PROVE Typed
  OBVIOUS
<1>1. /\ lpc \in [Calls -> ListenerStates]
      /\ spc \in [Calls -> StarterStates]
      /\ rpc \in [Calls -> RespondentStates]
  BY DEF Init, ListenerStates, StarterStates, RespondentStates
<1>2. TypeOK
  BY <1>1 DEF Init, TypeOK
<1>3. Counted
  BY DEF Init, Counted
<1>4. QED
  BY <1>2, <1>3 DEF Typed

LEMMA TypeStep == TypeOK /\ Counted /\ [Next]_vars => TypeOK'
<1> SUFFICES ASSUME TypeOK, Counted, [Next]_vars PROVE TypeOK'
  OBVIOUS
<1> USE DEF TypeOK, ListenerStates, StarterStates, RespondentStates,
            vars, shared, ctxs, listener, respondent
<1>1. ASSUME NEW c \in Calls, ListenerNext(c) PROVE TypeOK'
  BY ZenonT(40), <1>1 DEF ListenerNext, StartLoad, StartStore, ListenerOpens,
     ListenerTooLate, ListenerCancelled, ListenerFails, LeaveLoop,
     LookupRespondent, AwaitRespondent, CloseChannels, ReleaseListener,
     ListenerAt
<1>2. ASSUME NEW c \in Calls, StarterNext(c) PROVE TypeOK'
  BY ZenonT(40), <1>2 DEF StarterNext, StarterLoad, StarterStore, StarterRegister,
     StarterAt
<1>3. ASSUME NEW c \in Calls, RespondentNext(c) PROVE TypeOK'
  <2>1. CASE RespondentWgDone(c)
    <3>1. wgCount[c] = 1
      BY <2>1 DEF RespondentWgDone, RespondentAt, Counted
    <3>2. wgCount' \in [Calls -> {0, 1}]
      BY <2>1, <3>1 DEF RespondentWgDone
    <3>3. QED
      BY <2>1, <3>2 DEF RespondentWgDone, RespondentAt
  <2>2. CASE ~RespondentWgDone(c)
    BY ZenonT(40), <1>3, <2>2 DEF RespondentNext, RespondentEnters, RespondentStillborn,
       RespondentCancelled, RespondentTakes, RespondentTakesClosed,
       RespondentSends, RespondentSendsClosed, RespondentFlagDown,
       RespondentUnregister, RespondentAt
  <2>3. QED
    BY <2>1, <2>2
<1>4. ASSUME NEW c \in Calls, BindBotCtx(c) \/ BotLeaves(c) PROVE TypeOK'
  BY <1>4 DEF BindBotCtx, BotLeaves
<1>5. CASE Shutdown
  BY <1>5 DEF Shutdown
<1>6. CASE UNCHANGED vars
  BY <1>6
<1>7. QED
  BY <1>1, <1>2, <1>3, <1>4, <1>5, <1>6 DEF Next

LEMMA CountedStep == TypeOK /\ Counted /\ [Next]_vars => Counted'
<1> SUFFICES ASSUME TypeOK, Counted, [Next]_vars PROVE Counted'
  OBVIOUS
<1>1. /\ lpc \in [Calls -> ListenerStates] /\ spc \in [Calls -> StarterStates]
      /\ rpc \in [Calls -> RespondentStates] /\ wgCount \in [Calls -> {0, 1}]
  BY DEF TypeOK
<1> USE <1>1 DEF Counted
<1>2. ASSUME NEW c \in Calls, ListenerNext(c) PROVE Counted'
  <2>1. CASE ListenerOpens(c)
    BY <2>1 DEF ListenerOpens, ListenerAt
  <2>2. CASE ~ListenerOpens(c)
    BY <1>2, <2>2 DEF ListenerNext, StartLoad, StartStore, ListenerTooLate,
       ListenerCancelled, ListenerFails, LeaveLoop, LookupRespondent,
       AwaitRespondent, CloseChannels, ReleaseListener, ListenerAt, respondent
  <2>3. QED
    BY <2>1, <2>2
<1>3. ASSUME NEW c \in Calls, StarterNext(c) PROVE Counted'
  BY <1>3 DEF StarterNext, StarterLoad, StarterStore, StarterRegister,
     StarterAt, listener
<1>4. ASSUME NEW c \in Calls, RespondentNext(c) PROVE Counted'
  <2>1. CASE RespondentWgDone(c)
    BY <2>1 DEF RespondentWgDone, RespondentAt, listener
  <2>2. CASE ~RespondentWgDone(c)
    BY <1>4, <2>2 DEF RespondentNext, RespondentEnters, RespondentStillborn,
       RespondentCancelled, RespondentTakes, RespondentTakesClosed,
       RespondentSends, RespondentSendsClosed, RespondentFlagDown,
       RespondentUnregister, RespondentAt, listener, respondent
  <2>3. QED
    BY <2>1, <2>2
<1>5. ASSUME \/ \E c \in Calls : BindBotCtx(c) \/ BotLeaves(c)
             \/ Shutdown \/ UNCHANGED vars
      PROVE Counted'
  BY <1>5 DEF BindBotCtx, BotLeaves, Shutdown, vars, listener, respondent
<1>6. QED
  BY <1>2, <1>3, <1>4, <1>5 DEF Next

LEMMA TypedStep == Typed /\ [Next]_vars => Typed'
  BY TypeStep, CountedStep DEF Typed

\* The type of every variable holds in every reachable state, and with it that
\* no wg.Done is executed without the wg.Add before it.
THEOREM TypeCorrect == Spec => []TypeOK
<1>1. Typed => TypeOK
  BY DEF Typed
<1>2. QED
  BY <1>1, TypedInit, TypedStep, PTL DEF Spec

\* Only the Listener's own steps move lpc and the flag; they keep Serial.
LEMMA SerialStep == TypeOK /\ Serial /\ [Next]_vars => Serial'
<1> SUFFICES ASSUME TypeOK, Serial, [Next]_vars, ~ConcurrentStarts
             PROVE  Serial'
  BY DEF Serial
<1> USE DEF TypeOK, Serial, Running
<1>1. ASSUME NEW c \in Calls, StartLoad(c) PROVE Serial'
  BY <1>1 DEF StartLoad, ListenerAt, shared
<1>2. ASSUME NEW c \in Calls, StartStore(c) PROVE Serial'
  BY <1>2 DEF StartStore, ListenerAt
<1>3. ASSUME NEW c \in Calls,
             \/ ListenerOpens(c) \/ ListenerTooLate(c) \/ ListenerCancelled(c)
             \/ ListenerFails(c) \/ LookupRespondent(c) \/ AwaitRespondent(c)
             \/ CloseChannels(c)
      PROVE Serial'
  <2>1. /\ Running(c) /\ lpc[c] # "checked" /\ listenerFlag' = listenerFlag
        /\ \E s \in {"select", "teardown", "await", "close", "release"} :
             lpc' = [lpc EXCEPT ![c] = s]
    BY <1>3 DEF ListenerOpens, ListenerTooLate, ListenerCancelled,
       ListenerFails, LeaveLoop, LookupRespondent, AwaitRespondent,
       CloseChannels, ListenerAt, shared
  <2>2. QED
    BY <2>1
<1>4. ASSUME NEW c \in Calls, ReleaseListener(c) PROVE Serial'
  BY <1>4 DEF ReleaseListener, ListenerAt
<1>5. ASSUME UNCHANGED <<lpc, listenerFlag>> PROVE Serial'
  BY <1>5
<1>6. ASSUME NEW c \in Calls,
             \/ StarterNext(c) \/ RespondentNext(c) \/ BindBotCtx(c)
             \/ BotLeaves(c)
      PROVE UNCHANGED <<lpc, listenerFlag>>
  BY <1>6 DEF StarterNext, StarterLoad, StarterStore, StarterRegister,
     RespondentNext, RespondentEnters, RespondentStillborn,
     RespondentCancelled, RespondentTakes, RespondentTakesClosed,
     RespondentSends, RespondentSendsClosed, RespondentFlagDown,
     RespondentWgDone, RespondentUnregister, BindBotCtx, BotLeaves,
     shared, listener
<1>7. ASSUME Shutdown \/ UNCHANGED vars PROVE UNCHANGED <<lpc, listenerFlag>>
  BY <1>7 DEF Shutdown, vars, shared, listener
<1>8. QED
  BY <1>1, <1>2, <1>3, <1>4, <1>5, <1>6, <1>7 DEF Next, ListenerNext

\* Serial starts never give the dialog two Listeners.
THEOREM SerialStartsOneListener == ~ConcurrentStarts => (Spec => []OneListener)
<1> SUFFICES ASSUME ~ConcurrentStarts PROVE Spec => []OneListener
  OBVIOUS
<1>1. Init => Serial
  BY DEF Init, Serial, Running
<1>2. Serial => OneListener
  BY DEF Serial, OneListener
<1>3. QED
  BY <1>1, <1>2, SerialStep, TypeCorrect, PTL DEF Spec

\* The wait protocol: who is in "await" holds an entry, who is past it waited.
LEMMA WaitedStep == Typed /\ Waited /\ [Next]_vars => Waited'
<1> SUFFICES ASSUME Typed, Waited, [Next]_vars PROVE Waited'
  OBVIOUS
<1>1. /\ lpc \in [Calls -> ListenerStates] /\ spc \in [Calls -> StarterStates]
      /\ rpc \in [Calls -> RespondentStates] /\ wgCount \in [Calls -> {0, 1}]
      /\ awaited \in [Calls -> Calls \cup {NoCall}]
      /\ wgEntry \in Calls \cup {NoCall}
  BY DEF Typed, TypeOK
<1> USE <1>1, NoCallAssumption DEF Waited
<1>2. ASSUME NEW c \in Calls,
             \/ StartLoad(c) \/ StartStore(c) \/ ListenerTooLate(c)
             \/ ListenerCancelled(c) \/ ListenerFails(c) \/ CloseChannels(c)
             \/ ReleaseListener(c) \/ ListenerOpens(c)
      PROVE Waited'
  BY <1>2 DEF StartLoad, StartStore, ListenerTooLate, ListenerCancelled,
     ListenerFails, LeaveLoop, CloseChannels, ReleaseListener, ListenerAt,
     ListenerOpens, respondent, shared
<1>3. ASSUME NEW c \in Calls, LookupRespondent(c) PROVE Waited'
  BY <1>3 DEF LookupRespondent, ListenerAt, respondent, shared
<1>4. ASSUME NEW c \in Calls, AwaitRespondent(c) PROVE Waited'
  BY <1>4 DEF AwaitRespondent, ListenerAt, respondent, shared
<1>5. ASSUME NEW c \in Calls, StarterNext(c) PROVE Waited'
  BY <1>5 DEF StarterNext, StarterLoad, StarterStore, StarterRegister,
     StarterAt, listener, shared, Typed, Counted
<1>6. ASSUME NEW c \in Calls, RespondentNext(c) PROVE Waited'
  <2>1. CASE RespondentWgDone(c)
    BY <2>1 DEF RespondentWgDone, RespondentAt, listener, shared, Typed, Counted
  <2>2. CASE ~RespondentWgDone(c)
    BY <1>6, <2>2 DEF RespondentNext, RespondentEnters, RespondentStillborn,
       RespondentCancelled, RespondentTakes, RespondentTakesClosed,
       RespondentSends, RespondentSendsClosed, RespondentFlagDown,
       RespondentUnregister, RespondentAt, listener, respondent, shared
  <2>3. QED
    BY <2>1, <2>2
<1>7. ASSUME \/ \E c \in Calls : BindBotCtx(c) \/ BotLeaves(c)
             \/ Shutdown \/ UNCHANGED vars
      PROVE Waited'
  BY <1>7 DEF BindBotCtx, BotLeaves, Shutdown, vars, listener, respondent,
     shared
<1>8. QED
  BY <1>2, <1>3, <1>4, <1>5, <1>6, <1>7 DEF Next, ListenerNext

\* A tear-down that waited closes no channel a live Respondent may send on.
THEOREM WaitingProtects == Spec => []AwaitedIsQuiet
<1>1. Init => Waited
  BY DEF Init, Waited
<1>2. Typed /\ Waited => AwaitedIsQuiet
  BY NoCallAssumption DEF Typed, TypeOK, Counted, Waited, AwaitedIsQuiet, Quiet
<1>3. QED
  BY <1>1, <1>2, TypedInit, TypedStep, WaitedStep, PTL DEF Spec

-----------------------------------------------------------------------------
(***************************************************************************)
(* Why a tear-down that waits is not held for ever: a context is made by a *)
(* Listener in its select and cancelled on the way out of it, and a select *)
(* of the Respondent evaluates the context of such a Listener.             *)
(***************************************************************************)
Opened(c) == lpc[c] = "select" \/ userGone[c]
Told ==
  /\ \A c \in Calls : lpc[c] \in {"teardown", "await", "close"} => userGone[c]
  /\ uCtx # NoCall => Opened(uCtx)
  /\ \A c \in Calls : spc[c] # "none" => uCtx # NoCall
  /\ \A c \in Calls : rpc[c] = "listening" => rctx[c] # NoCall /\ Opened(rctx[c])

\* A context that was made and cancelled stays so.
LEMMA OpenedStays ==
  ASSUME TypeOK, NEW c \in Calls, ListenerNext(c), NEW e \in Calls, Opened(e)
  PROVE  Opened(e)'
BY DEF TypeOK, Opened, ListenerNext, StartLoad, StartStore, ListenerOpens,
   ListenerTooLate, ListenerCancelled, ListenerFails, LeaveLoop, LookupRespondent,
   AwaitRespondent, CloseChannels, ReleaseListener, ListenerAt, ctxs

LEMMA ToldStep == Typed /\ Told /\ [Next]_vars => Told'
<1> SUFFICES ASSUME Typed, Told, [Next]_vars PROVE Told'
  OBVIOUS
<1>1. /\ TypeOK /\ lpc \in [Calls -> ListenerStates] /\ spc \in [Calls -> StarterStates]
      /\ rpc \in [Calls -> RespondentStates] /\ userGone \in [Calls -> BOOLEAN]
      /\ rctx \in [Calls -> Calls \cup {NoCall}] /\ uCtx \in Calls \cup {NoCall}
  BY DEF Typed, TypeOK
<1> USE NoCallAssumption
<1>2. ASSUME NEW c \in Calls, ListenerNext(c) PROVE Told'
  <2>1. \A e \in Calls : Opened(e) => Opened(e)'
    BY <1>1, <1>2, OpenedStays
  <2>2. \A e \in Calls : lpc[e]' \in {"teardown", "await", "close"} => userGone[e]'
    BY <1>1, <1>2 DEF Told, ListenerNext, StartLoad, StartStore, ListenerOpens,
       ListenerTooLate, ListenerCancelled, ListenerFails, LeaveLoop, LookupRespondent,
       AwaitRespondent, CloseChannels, ReleaseListener, ListenerAt, ctxs
  <2>3. CASE ListenerOpens(c)
    <3>1. uCtx' = c /\ Opened(c)' /\ c # NoCall
      BY <1>1, <2>3 DEF ListenerOpens, ListenerAt, Opened
    <3>2. rpc' = rpc /\ rctx' = rctx
      BY <2>3 DEF ListenerOpens
    <3>3. QED
      BY <1>1, <2>1, <2>2, <3>1, <3>2 DEF Told
  <2>4. CASE ~ListenerOpens(c)
    <3>1. uCtx' = uCtx /\ spc' = spc /\ rpc' = rpc /\ rctx' = rctx
      BY <1>2, <2>4 DEF ListenerNext, StartLoad, StartStore, ListenerTooLate,
         ListenerCancelled, ListenerFails, LeaveLoop, LookupRespondent, AwaitRespondent,
         CloseChannels, ReleaseListener, shared, respondent
    <3>2. QED
      BY <1>1, <2>1, <2>2, <3>1 DEF Told
  <2>5. QED
    BY <2>3, <2>4
<1>3. ASSUME NEW c \in Calls, StarterNext(c) PROVE Told'
  <2>1. /\ UNCHANGED <<lpc, userGone, uCtx, rctx>>
        /\ spc[c] # "none" /\ \E s \in StarterStates : spc' = [spc EXCEPT ![c] = s]
        /\ rpc' = rpc \/ rpc' = [rpc EXCEPT ![c] = "launched"]
    BY <1>3 DEF StarterNext, StarterLoad, StarterStore, StarterRegister, StarterAt,
       StarterStates, listener, ctxs, shared
  <2>2. QED
    BY <1>1, <2>1 DEF Told, Opened
<1>4. ASSUME NEW c \in Calls, RespondentNext(c) PROVE Told'
  <2>1. UNCHANGED <<lpc, userGone, uCtx, spc>>
    BY <1>4 DEF RespondentNext, RespondentEnters, RespondentStillborn,
       RespondentCancelled, RespondentTakes, RespondentTakesClosed, RespondentSends,
       RespondentSendsClosed, RespondentFlagDown, RespondentWgDone,
       RespondentUnregister, listener, respondent, ctxs, shared
  <2>2. \/ rpc' = rpc /\ rctx' = rctx
        \/ /\ rpc[c] # "none"
           /\ rpc' = [rpc EXCEPT ![c] = "listening"] /\ rctx' = [rctx EXCEPT ![c] = uCtx]
        \/ /\ rctx' = rctx
           /\ \E s \in RespondentStates \ {"listening"} : rpc' = [rpc EXCEPT ![c] = s]
    BY <1>4 DEF RespondentNext, RespondentEnters, RespondentStillborn,
       RespondentCancelled, RespondentTakes, RespondentTakesClosed, RespondentSends,
       RespondentSendsClosed, RespondentFlagDown, RespondentWgDone,
       RespondentUnregister, RespondentAt, RespondentStates, respondent
  <2>3. rpc[c] # "none" => uCtx # NoCall
    BY DEF Typed, Counted, Told
  <2>4. \A e \in Calls \cup {NoCall} : Opened(e)' = Opened(e)
    BY <2>1 DEF Opened
  <2>5. QED
    BY <1>1, <2>1, <2>2, <2>3, <2>4 DEF Told
<1>5. ASSUME \/ \E c \in Calls : BindBotCtx(c) \/ BotLeaves(c)
             \/ Shutdown \/ UNCHANGED vars
      PROVE Told'
  <2>1. /\ UNCHANGED <<lpc, uCtx, spc, rpc, rctx>>
        /\ \A e \in Calls : userGone[e] => userGone'[e]
    BY <1>1, <1>5 DEF BindBotCtx, BotLeaves, Shutdown, vars, shared, ctxs, listener, respondent
  <2>2. QED
    BY <1>1, <2>1 DEF Told, Opened
<1>6. QED
  BY <1>2, <1>3, <1>4, <1>5 DEF Next

\* While starts are serial, a tear-down in wg.Wait waits for a Respondent whose
\* context is done, or which is busy or ending: no tear-down waits for a
\* Respondent that waits for questions.
THEOREM TearDownWaitsForTheTold == Spec => []AwaitedIsTold
<1>1. Init => Told /\ Waited /\ (~ConcurrentStarts => Serial)
  BY DEF Init, Told, Waited, Serial, Running
<1>2. Serial /\ [Next]_vars /\ TypeOK => Serial'
  BY SerialStep
<1>3. (~ConcurrentStarts => Serial) /\ Told /\ Typed /\ Waited => AwaitedIsTold
  <2> SUFFICES ASSUME Serial, Told, Typed, Waited, ~ConcurrentStarts,
                      NEW c \in Calls, lpc[c] = "await", rpc[awaited[c]] = "listening"
               PROVE  CtxDone(rctx[awaited[c]])
    BY DEF AwaitedIsTold
  <2>1. awaited[c] \in Calls
    BY DEF Waited, Typed, TypeOK
  <2>2. PICK e \in Calls : e = rctx[awaited[c]] /\ Opened(e)
    BY <2>1 DEF Told, Typed, TypeOK
  <2>3. lpc[e] # "select"
    BY DEF Serial, Running
  <2>4. QED
    BY <2>2, <2>3, NoCallAssumption DEF Opened, CtxDone
<1>4. (~ConcurrentStarts => Serial) /\ [Next]_vars /\ TypeOK => (~ConcurrentStarts => Serial)'
  BY <1>2, PTL DEF Serial
<1>5. Typed => TypeOK
  BY DEF Typed
<1>6. QED
  BY <1>1, <1>3, <1>4, <1>5, TypedInit, TypedStep, ToldStep, WaitedStep, PTL DEF Spec

LEMMA OrphanedStep == Typed /\ NothingOrphaned /\ [Next]_vars => NothingOrphaned'
<1> SUFFICES ASSUME Typed, NothingOrphaned, [Next]_vars PROVE NothingOrphaned'
  OBVIOUS
<1>1. /\ lpc \in [Calls -> ListenerStates] /\ spc \in [Calls -> StarterStates]
      /\ rpc \in [Calls -> RespondentStates] /\ wgEntry \in Calls \cup {NoCall}
  BY DEF Typed, TypeOK
<1> USE NoCallAssumption DEF NothingOrphaned
<1>2. ASSUME NEW c \in Calls, ListenerNext(c) PROVE NothingOrphaned'
  <2>1. rpc' = rpc /\ UNCHANGED <<respondentFlag, wgEntry>>
    BY <1>2 DEF ListenerNext, StartLoad, StartStore, ListenerOpens, ListenerTooLate,
       ListenerCancelled, ListenerFails, LeaveLoop, LookupRespondent, AwaitRespondent,
       CloseChannels, ReleaseListener, shared, respondent
  <2>2. \A d \in Calls : spc[d] = "flagged" => spc'[d] = "flagged"
    BY <1>1, <1>2 DEF Typed, Counted, ListenerNext, StartLoad, StartStore, ListenerOpens,
       ListenerTooLate, ListenerCancelled, ListenerFails, LeaveLoop, LookupRespondent,
       AwaitRespondent, CloseChannels, ReleaseListener, ListenerAt, respondent
  <2>3. listenerFlag' => \E d \in Calls : Running(d)'
    BY <1>1, <1>2 DEF Running, ListenerNext, StartLoad, StartStore, ListenerOpens,
       ListenerTooLate, ListenerCancelled, ListenerFails, LeaveLoop, LookupRespondent,
       AwaitRespondent, CloseChannels, ReleaseListener, ListenerAt, shared
  <2>4. QED
    BY <2>1, <2>2, <2>3
<1>3. ASSUME NEW c \in Calls, StarterNext(c) PROVE NothingOrphaned'
  <2>1. UNCHANGED <<lpc, listenerFlag>>
    BY <1>3 DEF StarterNext, StarterLoad, StarterStore, StarterRegister, listener, shared
  <2>2. CASE StarterLoad(c)
    BY <1>1, <2>1, <2>2 DEF StarterLoad, StarterAt, shared, Running
  <2>3. CASE StarterStore(c)
    BY <1>1, <2>1, <2>3 DEF StarterStore, StarterAt, Running
  <2>4. CASE StarterRegister(c)
    BY <1>1, <2>1, <2>4 DEF StarterRegister, StarterAt, Running
  <2>5. QED
    BY <1>3, <2>2, <2>3, <2>4 DEF StarterNext
<1>4. ASSUME NEW c \in Calls, RespondentNext(c) PROVE NothingOrphaned'
  <2>1. UNCHANGED <<lpc, listenerFlag, spc>>
    BY <1>4 DEF RespondentNext, RespondentEnters, RespondentStillborn,
       RespondentCancelled, RespondentTakes, RespondentTakesClosed, RespondentSends,
       RespondentSendsClosed, RespondentFlagDown, RespondentWgDone,
       RespondentUnregister, listener, respondent, shared
  <2>2. CASE RespondentFlagDown(c) \/ RespondentWgDone(c) \/ RespondentUnregister(c)
    BY <1>1, <2>1, <2>2 DEF RespondentFlagDown, RespondentWgDone, RespondentUnregister,
       RespondentAt, shared, Running
  <2>3. CASE ~(RespondentFlagDown(c) \/ RespondentWgDone(c) \/ RespondentUnregister(c))
    <3>1. /\ UNCHANGED <<respondentFlag, wgEntry>>
          /\ \/ rpc' = rpc
             \/ \E s \in {"listening", "busy", "ending"} :
                  rpc[c] # "none" /\ rpc[c] # "done" /\ rpc' = [rpc EXCEPT ![c] = s]
      BY <1>4, <2>3 DEF RespondentNext, RespondentEnters, RespondentStillborn,
         RespondentCancelled, RespondentTakes, RespondentTakesClosed, RespondentSends,
         RespondentSendsClosed, RespondentAt, respondent, shared
    <3>2. QED
      BY <1>1, <2>1, <3>1 DEF Running
  <2>4. QED
    BY <2>2, <2>3
<1>5. ASSUME \/ \E c \in Calls : BindBotCtx(c) \/ BotLeaves(c)
             \/ Shutdown \/ UNCHANGED vars
      PROVE NothingOrphaned'
  BY <1>5 DEF BindBotCtx, BotLeaves, Shutdown, vars, listener, respondent, shared, Running
<1>6. QED
  BY <1>2, <1>3, <1>4, <1>5 DEF Next

\* For any number of calls, overlapping or not: a flag that is up has a
\* Listener or a Respondent that will take it down, and an entry of
\* respondentWG the Respondent that will delete it.
THEOREM FlagsHaveOwners == Spec => []NothingOrphaned
<1>1. Init => NothingOrphaned
  BY DEF Init, NothingOrphaned
<1>2. QED
  BY <1>1, TypedInit, TypedStep, OrphanedStep, PTL DEF Spec

\* However sessions follow one another, and overlap where that is said, the
\* tear-down of one leaves the dialog to the next.
THEOREM TearDownLeavesSound == Spec => []TearDownIsSound
  BY WaitingProtects, TearDownWaitsForTheTold, FlagsHaveOwners, PTL DEF TearDownIsSound

-----------------------------------------------------------------------------
\* What a delta changes: the accounts agree, and an answer is none before its
\* last callback.
Accounts ==
  /\ DeltasAccounted
  /\ g \in {"start", "streaming", "flushing"} => body = "none"

\* What ask and AskWithRetry wait for: a report comes from a goroutine that is
\* over, and only such a report leads to a retry.
Turns ==
  /\ asked = attempt + 1
  /\ (result = "none") = (call # "returned")
  /\ answered \/ failed \/ result = "answer" \/ call = "backoff" => g = "done"
  /\ call = "backoff" => attempt < MaxAttempts - 1

\* The types that are numbers; the provers take them apart from the others.
AskNumbers ==
  /\ attempt \in 0 .. MaxAttempts - 1 /\ asked \in 0 .. MaxAttempts
  /\ streamed \in 0 .. MaxDeltas /\ batch \in 0 .. BatchSize
  /\ queued \in 0 .. TxCap /\ shownDeltas \in 0 .. MaxDeltas /\ lost \in 0 .. MaxDeltas

AskIInv == AskTypeOK /\ Accounts /\ Turns /\ NetworkGivesUpLate

-----------------------------------------------------------------------------
\* A dropped batch more leaves the number of dropped deltas a multiple.
LEMMA DropsWhole ==
  ASSUME NEW n \in Nat, NEW b \in Nat \ {0}, n % b = 0
  PROVE  (n + b) % b = 0
<1> DEFINE q == n \div b
           p == (n + b) \div b
           r == (n + b) % b
<1>1. n = b * q /\ q \in Int
  BY SMT
<1>2. n + b = b * p + r /\ p \in Int /\ r \in 0 .. b - 1
  BY SMT
<1>3. b * (q + 1 - p) = r
  BY <1>1, <1>2, SMT
<1>4. q + 1 - p < 1
  BY <1>1, <1>2, <1>3, SMT
<1>5. q + 1 - p > -1
  BY <1>1, <1>2, <1>3, SMT
<1> QED
  BY <1>1, <1>2, <1>3, <1>4, <1>5, SMT

\* The parts of a sum are bounded by what bounds the sum.
LEMMA PartsBounded ==
  ASSUME NEW a \in Nat, NEW b \in Nat, NEW c \in Nat, NEW s \in Int, NEW m \in Nat,
         a + b + c = s, s <= m
  PROVE  a \in 0 .. m /\ b \in 0 .. m
OBVIOUS

LEMMA AskInitHolds == AskInit => AskIInv
<1> SUFFICES ASSUME AskInit PROVE AskIInv
  OBVIOUS
<1> USE AskBoundsAssumption DEF AskBoundsAssumption, AskInit
<1>1. AskNumbers
  BY DEF AskNumbers
<1>2. AskTypeOK
  BY <1>1 DEF AskTypeOK, AskNumbers
<1>3. Accounts
  BY DEF Accounts, DeltasAccounted
<1>4. Turns /\ NetworkGivesUpLate
  BY DEF Turns, NetworkGivesUpLate
<1> QED
  BY <1>3, <1>4, <1>2 DEF AskIInv

-----------------------------------------------------------------------------
\* What the environment does: time passes, the bot reads, the application stops.
LEMMA EnvironmentKeeps ==
  ASSUME AskIInv, Stop \/ Expire \/ BotReads
  PROVE  AskIInv'
<1> USE AskBoundsAssumption DEF AskBoundsAssumption, AskIInv, Stop, Expire, BotReads,
        loop, answerChans, stream, deltas
<1>1. AskNumbers'
  BY DEF AskNumbers, AskTypeOK
<1>2. Accounts'
  BY DEF Accounts, DeltasAccounted
<1>3. Turns' /\ NetworkGivesUpLate'
  BY DEF AskTypeOK, Turns, NetworkGivesUpLate
<1>4. CASE Stop
  BY <1>1, <1>2, <1>3, <1>4 DEF AskTypeOK, AskNumbers
<1>5. CASE Expire
  BY <1>1, <1>2, <1>3, <1>5 DEF AskTypeOK, AskNumbers
<1>6. CASE BotReads
  BY <1>1, <1>2, <1>3, <1>6 DEF AskTypeOK, AskNumbers
<1> QED
  BY <1>4, <1>5, <1>6

\* The deltas of an answer.
LEMMA DeltaKeeps ==
  ASSUME AskIInv, Delta \/ DeltaCut
  PROVE  AskIInv'
<1> USE AskBoundsAssumption DEF AskBoundsAssumption, AskIInv, Delta, DeltaCut, loop,
        answerChans, stream
<1>1. shownDeltas' + lost' + batch' = streamed'
  BY DEF AskTypeOK, Accounts, DeltasAccounted
<1>2. AskNumbers'
  <2>1. AskNumbers
    BY DEF AskTypeOK, AskNumbers
  <2>2. /\ streamed' \in 0 .. MaxDeltas /\ batch' \in 0 .. BatchSize /\ queued' \in 0 .. TxCap
        /\ shownDeltas' \in Nat /\ lost' \in Nat
    BY <2>1 DEF AskNumbers
  <2>3. shownDeltas' \in 0 .. MaxDeltas /\ lost' \in 0 .. MaxDeltas
    <3> HIDE DEF Delta, DeltaCut, AskIInv
    <3>1. /\ shownDeltas' \in Nat /\ lost' \in Nat /\ batch' \in Nat
          /\ streamed' \in Int /\ streamed' <= MaxDeltas /\ MaxDeltas \in Nat
      BY <2>2
    <3> QED
      BY <1>1, <3>1, PartsBounded
  <2> QED
    BY <2>1, <2>2, <2>3 DEF AskNumbers
<1>3. AskTypeOK'
  BY <1>2 DEF AskTypeOK, AskNumbers
<1>4. lost' % BatchSize = 0
  <2>1. CASE lost' = lost
    BY <2>1 DEF Accounts, DeltasAccounted
  <2>2. CASE lost' = lost + BatchSize
    <3>1. lost \in Nat /\ lost % BatchSize = 0
      BY DEF AskTypeOK, Accounts, DeltasAccounted
    <3> QED
      BY <2>2, <3>1, DropsWhole
  <2> QED
    BY <2>1, <2>2
<1>5. Accounts'
  BY <1>1, <1>4 DEF Accounts, DeltasAccounted, Turns
<1>6. Turns' /\ NetworkGivesUpLate'
  BY DEF Turns, NetworkGivesUpLate
<1> QED
  BY <1>3, <1>5, <1>6

\* The other steps of the goroutine that streams.
LEMMA StreamKeeps ==
  ASSUME AskIInv, Stream
  PROVE  AskIInv'
<1> USE AskBoundsAssumption, ErrorsAssumption DEF AskBoundsAssumption, ErrorsAssumption, AskIInv
<1>1. CASE Delta \/ DeltaCut
  BY <1>1, DeltaKeeps
<1>2. CASE StreamStarts \/ StreamDone \/ StreamCancelled \/ StreamFails
  <2> USE <1>2 DEF StreamStarts, StreamDone, StreamCancelled, StreamFails, GoFails, loop,
          answerChans, deltas
  <2>1. AskTypeOK'
    BY DEF AskTypeOK, Classes
  <2>2. Accounts'
    BY DEF AskTypeOK, Accounts, DeltasAccounted, Turns
  <2>3. Turns' /\ NetworkGivesUpLate'
    BY DEF Turns, NetworkGivesUpLate
  <2> QED
    BY <2>1, <2>2, <2>3
<1>3. CASE ServiceEvent \/ FinalBatch
  <2> USE <1>3 DEF ServiceEvent, FinalBatch, loop, answerChans, stream
  <2>1. shownDeltas' + lost' + batch' = streamed'
    BY DEF AskTypeOK, Accounts, DeltasAccounted
  <2>2. AskTypeOK'
    BY <2>1 DEF AskTypeOK
  <2>3. Accounts'
    BY <2>1 DEF Accounts, DeltasAccounted, Turns
  <2>4. Turns' /\ NetworkGivesUpLate'
    BY DEF Turns, NetworkGivesUpLate
  <2> QED
    BY <2>2, <2>3, <2>4
<1>4. CASE ReportError \/ ReportAnswer
  <2> USE <1>4 DEF ReportError, ReportAnswer, loop, answerChans, stream, deltas
  <2>1. AskTypeOK'
    <3>1. UNCHANGED <<stopping, loop, ctxDone, open, gErr, body, deltas>>
      BY DEF Accounts
    <3>2. answered' \in BOOLEAN /\ failed' \in BOOLEAN /\ g' \in {"done", "panicked"}
      BY DEF AskTypeOK
    <3> HIDE DEF ReportError, ReportAnswer, AskIInv
    <3> QED
      BY <3>1, <3>2 DEF AskTypeOK, AskIInv
  <2>2. Accounts'
    BY DEF Accounts, DeltasAccounted
  <2>3. Turns' /\ NetworkGivesUpLate'
    BY DEF Turns, NetworkGivesUpLate
  <2> QED
    BY <2>1, <2>2, <2>3
<1> QED
  BY <1>1, <1>2, <1>3, <1>4 DEF Stream

\* What becomes of an error: a retry, with attempts left, or the end.
LEMMA DecideKeeps ==
  ASSUME AskIInv, call = "asking", NEW e \in Classes \cup {"none"}, Decide(e),
         UNCHANGED <<stopping, attempt, asked>>
  PROVE  /\ lastErr' \in Classes \cup {"none"} /\ call' \in {"backoff", "returned"}
         /\ result' \in {"none", "provider", "fatal", "noncritical"}
         /\ (result' = "none") = (call' # "returned")
         /\ call' = "backoff" => attempt < MaxAttempts - 1 /\ e \in Retryable
         /\ NetworkGivesUpLate'
<1> USE AskBoundsAssumption DEF AskBoundsAssumption, AskIInv, AskTypeOK, Turns, Decide, Return,
        NetworkGivesUpLate, Provider, FatalPattern, Retryable
<1> QED
  OBVIOUS

LEMMA AskKeeps ==
  ASSUME AskIInv, Ask
  PROVE  AskIInv'
<1> USE AskBoundsAssumption DEF AskBoundsAssumption, AskIInv
<1>1. CASE AskAnswered \/ BackoffCancelled
  <2> USE <1>1 DEF AskAnswered, BackoffCancelled, AskReturns, Return, answerChans, stream, deltas
  <2>1. AskTypeOK'
    BY DEF AskTypeOK
  <2>2. Accounts'
    BY DEF Accounts, DeltasAccounted
  <2>3. Turns' /\ NetworkGivesUpLate'
    BY DEF Turns, NetworkGivesUpLate
  <2> QED
    BY <2>1, <2>2, <2>3
<1>2. CASE AskFailed
  <2> USE <1>2 DEF AskFailed, AskReturns, stream, deltas
  <2>1. gErr \in Classes \cup {"none"}
    BY DEF AskTypeOK
  <2>2. /\ lastErr' \in Classes \cup {"none"} /\ call' \in {"backoff", "returned"}
        /\ result' \in {"none", "provider", "fatal", "noncritical"}
        /\ (result' = "none") = (call' # "returned")
        /\ call' = "backoff" => attempt < MaxAttempts - 1
        /\ NetworkGivesUpLate'
    BY <2>1, DecideKeeps
  <2>3. AskTypeOK'
    <3>1. /\ ctxDone' = TRUE /\ open' = FALSE /\ failed' = FALSE
          /\ UNCHANGED <<stopping, attempt, asked, answered, gErr, g, body, streamed, batch, queued,
                         shownDeltas, lost>>
      OBVIOUS
    <3> QED
      BY <2>2, <3>1 DEF AskTypeOK
  <2>4. Accounts'
    BY <2>2 DEF Accounts, DeltasAccounted
  <2>5. Turns'
    BY <2>2 DEF Turns
  <2> QED
    BY <2>2, <2>3, <2>4, <2>5
<1>3. CASE AskGivesUp
  <2> USE <1>3 DEF AskGivesUp, AskReturns, stream, deltas
  <2>1. /\ lastErr' \in Classes \cup {"none"} /\ call' = "returned"
        /\ result' \in {"provider", "fatal", "noncritical"}
        /\ NetworkGivesUpLate'
    BY DecideKeeps DEF Classes, Retryable
  <2>2. AskTypeOK'
    BY <2>1 DEF AskTypeOK
  <2>3. Accounts'
    BY <2>1 DEF Accounts, DeltasAccounted
  <2>4. Turns'
    BY <2>1 DEF Turns
  <2> QED
    BY <2>1, <2>2, <2>3, <2>4
<1>4. CASE Retry
  <2> USE <1>4 DEF Retry
  <2>1. AskNumbers'
    BY DEF AskTypeOK, AskNumbers, Turns
  <2>2. Accounts'
    BY DEF Accounts, DeltasAccounted
  <2>3. Turns' /\ NetworkGivesUpLate'
    BY DEF AskTypeOK, Turns, NetworkGivesUpLate
  <2>4. AskTypeOK'
    BY <2>1 DEF AskTypeOK, AskNumbers
  <2> QED
    BY <2>2, <2>3, <2>4
<1> QED
  BY <1>1, <1>2, <1>3, <1>4 DEF Ask

LEMMA AskStepKeeps == AskIInv /\ [AskNext]_askvars => AskIInv'
<1> SUFFICES ASSUME AskIInv, [AskNext]_askvars PROVE AskIInv'
  OBVIOUS
<1>1. CASE AskNext
  BY <1>1, EnvironmentKeeps, StreamKeeps, AskKeeps DEF AskNext
<1>2. CASE UNCHANGED askvars
  BY <1>2 DEF askvars, loop, answerChans, stream, deltas, AskIInv, AskTypeOK, Accounts, DeltasAccounted, Turns,
              NetworkGivesUpLate
<1> QED
  BY <1>1, <1>2

-----------------------------------------------------------------------------
\* For any bounds and errors every variable keeps its type: the batch never
\* outgrows BatchSize and stays full only when the context cut its sending, TxCh
\* never outgrows its capacity, the attempts never their number.
THEOREM AskTypeCorrect == AskSpec => []AskTypeOK
<1>1. AskIInv => AskTypeOK
  BY DEF AskIInv
<1> QED
  BY <1>1, AskInitHolds, AskStepKeeps, PTL DEF AskSpec

\* Every delta that was received is in TxCh, in the batch, or went with a full
\* batch that found TxCh full; while the context of its request lives, an answer
\* is reported whole and without a rest.
THEOREM DeltasAreAccounted == AskSpec => []DeltasAccounted
<1>1. AskIInv => DeltasAccounted
  BY DEF AskIInv, Accounts
<1> QED
  BY <1>1, AskInitHolds, AskStepKeeps, PTL DEF AskSpec

\* A retry comes only when the goroutine before it is over, and a connection
\* that is dropped is given up only after the last attempt.
THEOREM RetriesComeInTurn == AskSpec => RetriesInTurn
<1>1. AskIInv => NetworkGivesUpLate
  BY DEF AskIInv
<1>2. AskIInv /\ [AskNext]_askvars => [asked' # asked => g = "done"]_askvars
  <2> SUFFICES ASSUME AskIInv, AskNext, asked' # asked PROVE g = "done"
    BY DEF askvars
  <2>1. CASE Retry
    BY <2>1 DEF Retry, AskIInv, Turns
  <2>2. CASE ~Retry
    BY <2>2 DEF AskNext, Stream, Ask, Stop, Expire, BotReads, StreamStarts, Delta,
                DeltaCut, ServiceEvent, StreamDone, FinalBatch, StreamCancelled, StreamFails,
                ReportError, ReportAnswer, AskAnswered, AskFailed, AskGivesUp,
                BackoffCancelled, loop
  <2> QED
    BY <2>1, <2>2
<1> QED
  BY <1>1, <1>2, AskInitHolds, AskStepKeeps, PTL DEF AskSpec, RetriesInTurn, OneStream

-----------------------------------------------------------------------------
(***************************************************************************)
(* A behaviour of the run is one of the life of a session and one of a     *)
(* question on its way to the model: what is proved of each of them alone  *)
(* holds in the specification the run checks.                              *)
(***************************************************************************)
THEOREM TextIsItsParts == TextSpec => Spec /\ AskSpec
<1>1. TextInit => Init /\ AskInit
  BY DEF TextInit
<1>2. [TextNext]_textvars => [Next]_vars /\ [AskNext]_askvars
  <2>1. TextNext => [Next]_vars /\ [AskNext]_askvars
    BY DEF TextNext
  <2>2. UNCHANGED textvars => UNCHANGED vars /\ UNCHANGED askvars
    BY DEF textvars
  <2>3. QED
    BY <2>1, <2>2
<1>3. QED
  BY <1>1, <1>2, PTL DEF TextSpec, Spec, AskSpec

(***************************************************************************)
(* What the run checks of the states and steps of both parts holds for any *)
(* number of calls and any bounds: of OneListener, for calls that do not   *)
(* overlap.                                                                *)
(***************************************************************************)
THEOREM TextIsSafe ==
  TextSpec => /\ [](TearDownIsSound /\ DeltasAccounted)
              /\ RetriesInTurn
              /\ ~ConcurrentStarts => []OneListener
  BY TextIsItsParts, TearDownLeavesSound, DeltasAreAccounted, RetriesComeInTurn, SerialStartsOneListener, PTL
=============================================================================
