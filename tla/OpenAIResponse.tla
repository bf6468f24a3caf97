--------------------------- MODULE OpenAIResponse ---------------------------
(***************************************************************************)
(* The responses of one OpenAI voice session (pkg/model/openai): what      *)
(* pumpFromOpenAI does with the events of a response, the two levels of    *)
(* its watchdog, whose callbacks run beside it, and CloseRealtimeSession.  *)
(* Who starts and holds the session is in RealtimeSession.                 *)
(*                                                                         *)
(* A response is a number; its function call, the call's result and its    *)
(* file go by the same number.  A timer of the watchdog is the number of   *)
(* the fireWatchdog that made it.  A session of transcription alone has no *)
(* responses.  Audio, transcripts and usage are left out, and with them    *)
(* what the two timers wait for is left open: a timer may fire at once.    *)
(***************************************************************************)
EXTENDS Naturals, Sequences, Functions

CONSTANTS
  Talks,         \* the sessions a run explores: subset of Talk
  MaxResponses,  \* bound: responses OpenAI creates
  MaxWire        \* bound: events on their way to the pump

(***************************************************************************)
(* How many responses OpenAI creates; how many of them, the first ones,    *)
(* may call a function; whether the session is closed or fails meanwhile;  *)
(* whether there is an OnDisconnect (a WebSocket client sets none).        *)
(***************************************************************************)
Talk == [responses : 0 .. MaxResponses, calls : 0 .. MaxResponses,
         closes : BOOLEAN, fails : BOOLEAN, callback : BOOLEAN]

ASSUME ResponseBoundsAssumption == MaxResponses \in Nat /\ MaxWire \in Nat \ {0}
ASSUME TalksAssumption == Talks \subseteq Talk

Responses == 1 .. MaxResponses
Timers == 1 .. (2 * MaxResponses)       \* a response arms two at most

VARIABLES
  talk,       \* the session under way
  \* OpenAI, and the connection
  service,    \* the response under way, the completed ones
  wire,       \* events for the pump
  out,        \* messages written to openaiConn
  conn,       \* openaiConn
  \* RealtimeSession
  ctx,
  generating, \* IsGenerating
  called,     \* onDisconnectCalled
  greeted,    \* greetingSent
  \* pumpFromOpenAI
  pump,       \* where it is, and the call it runs
  answering,  \* the response it saw created and not done; 0: none
  results,    \* pendingFuncResults
  files,      \* pendingFiles
  timer,      \* the timers of fireWatchdog and their callbacks
  panic,      \* the second-level timer of each callback, and how far it is
  armed,      \* calls of fireWatchdog so far
  watchdogTimer, watchdogPanicTimer,    \* 0: nil
  \* seen from outside
  sent,       \* function results written to OpenAI
  handed,     \* files of the response_done events
  disconnects,\* calls of OnDisconnect
  hangup      \* CloseRealtimeSession

responsevars == <<talk, service, wire, out, conn, ctx, generating, called,
                  greeted, pump, answering, results, files, timer, panic, armed,
                  watchdogTimer, watchdogPanicTimer, sent, handed, disconnects,
                  hangup>>
timers == <<timer, panic, armed, watchdogTimer, watchdogPanicTimer>>
outputs == <<sent, handed>>

Events == {"updated", "created", "call", "spoken", "completed",
           "cancelled", "refused", "fatal"}
Event == [type : Events, of : 0 .. MaxResponses]
E(type, n) == [type |-> type, of |-> n]

ResponseTypeOK ==
  /\ talk \in Talks
  /\ service \in [active : 0 .. MaxResponses, made : 0 .. MaxResponses,
                  spoken : BOOLEAN, asked : BOOLEAN,
                  completed : SUBSET Responses]
  /\ wire \in Seq(Event) /\ Len(wire) <= MaxWire
  /\ out \in Seq({"cancel", "create", "result"})
  /\ conn \in {"open", "closed"} /\ ctx \in {"live", "done"}
  /\ generating \in BOOLEAN /\ called \in BOOLEAN /\ greeted \in BOOLEAN
  /\ pump \in [at : {"read", "action", "ending", "over"},
               call : 0 .. MaxResponses]
  /\ answering \in 0 .. MaxResponses
  /\ results \in Seq(Responses) /\ files \in Seq(Responses)
  /\ timer \in [Timers -> {"off", "armed", "sent"}]
  /\ panic \in [Timers -> {"off", "armed", "asked", "telling", "told"}]
  /\ armed \in 0 .. 2 * MaxResponses
  /\ watchdogTimer \in 0 .. armed /\ watchdogPanicTimer \in 0 .. armed
  /\ sent \in Seq(Responses) /\ handed \in Seq(Responses)
  /\ disconnects \in 0 .. 2 * MaxResponses
  /\ hangup \in {"no", "flagged", "over"}

ResponseInit ==
  /\ talk \in Talks
  /\ service = [active |-> 0, made |-> 0, spoken |-> FALSE, asked |-> FALSE,
                completed |-> {}]
  /\ wire = <<E("updated", 0)>> /\ out = <<>> /\ conn = "open"
  /\ ctx = "live" /\ generating = FALSE /\ called = FALSE /\ greeted = FALSE
  /\ pump = [at |-> "read", call |-> 0]
  /\ answering = 0
  /\ results = <<>> /\ files = <<>>
  /\ timer = [i \in Timers |-> "off"] /\ panic = [i \in Timers |-> "off"]
  /\ armed = 0 /\ watchdogTimer = 0 /\ watchdogPanicTimer = 0
  /\ sent = <<>> /\ handed = <<>>
  /\ disconnects = 0
  /\ hangup = "no"

-----------------------------------------------------------------------------
(***************************************************************************)
(* OpenAI: one response at a time, begun by the user's speech or by        *)
(* response.create, ended by itself, by the user or by response.cancel.    *)
(***************************************************************************)
Sends(e) == /\ conn = "open" /\ Len(wire) < MaxWire
            /\ wire' = Append(wire, e)
conversation == <<talk, conn, ctx, generating, called, greeted, pump, answering,
                  results, files, timers, outputs, disconnects, hangup>>

Began == [service EXCEPT !.active = service.made + 1, !.made = @ + 1,
                         !.spoken = FALSE, !.asked = FALSE]

ServiceStarts ==
  /\ service.active = 0 /\ service.made < talk.responses
  /\ Sends(E("created", service.made + 1))
  /\ service' = Began
  /\ UNCHANGED <<out, conversation>>

ServiceGoesOn ==
  /\ service.active # 0
  /\ \/ /\ ~service.spoken
        /\ Sends(E("spoken", service.active))
        /\ service' = [service EXCEPT !.spoken = TRUE]
     \/ /\ service.active <= talk.calls /\ ~service.asked
        /\ Sends(E("call", service.active))
        /\ service' = [service EXCEPT !.asked = TRUE]
  /\ UNCHANGED <<out, conversation>>

ServiceEnds ==
  /\ service.active # 0
  /\ \/ /\ Sends(E("completed", service.active))
        /\ service' = [service EXCEPT !.active = 0,
                                      !.completed = @ \cup {service.active}]
     \/ /\ Sends(E("cancelled", service.active))
        /\ service' = [service EXCEPT !.active = 0]
  /\ UNCHANGED <<out, conversation>>

ServiceFails ==
  /\ talk.fails /\ Sends(E("fatal", 0))
  /\ UNCHANGED <<service, out, conversation>>

ServiceTakes ==
  /\ out # <<>> /\ out' = Tail(out)
  /\ \/ Head(out) = "result" /\ conn = "open" /\ UNCHANGED <<service, wire>>
     \/ /\ Head(out) = "cancel" /\ service.active # 0
        /\ Sends(E("cancelled", service.active))
        /\ service' = [service EXCEPT !.active = 0]
     \/ /\ Head(out) = "create" /\ service.active = 0
        /\ service.made < talk.responses
        /\ Sends(E("created", service.made + 1))
        /\ service' = Began
     \/ /\ (Head(out) = "cancel") = (service.active = 0) /\ Head(out) # "result"
        /\ Sends(E("refused", 0))
        /\ UNCHANGED service
  /\ UNCHANGED conversation

-----------------------------------------------------------------------------
(***************************************************************************)
(* The watchdog.  Stop keeps a timer from firing, not a callback from      *)
(* running.  The callbacks and the pump share the two variables without a  *)
(* lock; each access is taken as atomic.                                   *)
(***************************************************************************)
Stopped(t, i) == IF i # 0 /\ t[i] = "armed" THEN [t EXCEPT ![i] = "off"] ELSE t

stopWatchdog == /\ timer' = Stopped(timer, watchdogTimer)
                /\ watchdogTimer' = 0

\* mutant: the timer is made, the pump's variable set, but nothing runs
fireWatchdogDead ==
  /\ panic' = Stopped(panic, watchdogPanicTimer)
  /\ watchdogPanicTimer' = 0
  /\ armed' = armed + 1
  /\ timer' = [Stopped(timer, watchdogTimer) EXCEPT ![armed + 1] = "off"]
  /\ watchdogTimer' = armed + 1

fireWatchdog ==
  /\ panic' = Stopped(panic, watchdogPanicTimer)
  /\ watchdogPanicTimer' = 0
  /\ armed' = armed + 1
  /\ timer' = [Stopped(timer, watchdogTimer) EXCEPT ![armed + 1] = "armed"]
  /\ watchdogTimer' = armed + 1

rest == <<talk, service, wire, conn, greeted, pump, answering, results, files,
          armed, watchdogTimer, outputs, hangup>>

TimerFires(i) ==           \* an error of the write is ignored
  /\ timer[i] = "armed"
  /\ IF ctx = "live"
     THEN /\ timer' = [timer EXCEPT ![i] = "sent"]
          /\ generating' = FALSE
          /\ out' = IF conn = "open" THEN Append(out, "cancel") ELSE out
     ELSE /\ timer' = [timer EXCEPT ![i] = "off"]
          /\ UNCHANGED <<generating, out>>
  /\ UNCHANGED <<rest, ctx, called, panic, watchdogPanicTimer, disconnects>>

CallbackArms(i) ==
  /\ timer[i] = "sent"
  /\ timer' = [timer EXCEPT ![i] = "off"]
  /\ panic' = [panic EXCEPT ![i] = "armed"]
  /\ watchdogPanicTimer' = i
  /\ UNCHANGED <<rest, out, ctx, generating, called, disconnects>>

PanicAsks(i) ==            \* the check of ctx; OnDisconnect is set or not
  /\ panic[i] = "armed"
  /\ \/ ctx = "done" /\ panic' = [panic EXCEPT ![i] = "off"]
     \/ /\ ctx = "live"
        /\ panic' = [panic EXCEPT ![i] = IF talk.callback THEN "asked" ELSE "told"]
  /\ UNCHANGED <<rest, out, ctx, generating, called, timer, watchdogPanicTimer,
                 disconnects>>

\* mutant: the flag is set and not asked
PanicSwapsBlindly(i) ==
  /\ panic[i] = "asked"
  /\ panic' = [panic EXCEPT ![i] = "telling"]
  /\ called' = TRUE
  /\ UNCHANGED <<rest, out, ctx, generating, timer, watchdogPanicTimer, disconnects>>

PanicSwaps(i) ==           \* onDisconnectCalled.Swap(true)
  /\ panic[i] = "asked"
  /\ panic' = [panic EXCEPT ![i] = IF called THEN "told" ELSE "telling"]
  /\ called' = TRUE
  /\ UNCHANGED <<rest, out, ctx, generating, timer, watchdogPanicTimer, disconnects>>

PanicTells(i) ==           \* OnDisconnect
  /\ panic[i] = "telling"
  /\ panic' = [panic EXCEPT ![i] = "told"]
  /\ disconnects' = disconnects + 1
  /\ UNCHANGED <<rest, out, ctx, generating, called, timer, watchdogPanicTimer>>

PanicCancels(i) ==
  /\ panic[i] = "told"
  /\ panic' = [panic EXCEPT ![i] = "off"]
  /\ ctx' = "done"
  /\ UNCHANGED <<rest, out, generating, called, timer, watchdogPanicTimer,
                 disconnects>>

-----------------------------------------------------------------------------
(***************************************************************************)
(* pumpFromOpenAI                                                          *)
(***************************************************************************)
shared == <<talk, service, conn, called, disconnects, hangup>>

Reads(type) ==
  /\ pump.at = "read" /\ conn = "open" /\ wire # <<>> /\ Head(wire).type = type
  /\ wire' = Tail(wire)
  /\ UNCHANGED <<shared, ctx>>
\* the check of ctx at the top of the loop
Loops == pump' = [at |-> IF ctx = "live" THEN "read" ELSE "ending", call |-> 0]
n == Head(wire).of

PumpGreets ==              \* sendInitialGreeting, once
  /\ Reads("updated") /\ Loops
  /\ greeted' = TRUE
  /\ out' = IF greeted THEN out ELSE Append(out, "create")
  /\ UNCHANGED <<generating, answering, results, files, timers, outputs>>

PumpCreated ==
  /\ Reads("created") /\ Loops
  /\ fireWatchdog
  /\ generating' = TRUE
  /\ answering' = n
  /\ UNCHANGED <<out, greeted, results, files, outputs>>

PumpSpoken ==              \* response.output_audio.done
  /\ Reads("spoken") /\ Loops
  /\ fireWatchdog
  /\ UNCHANGED <<out, generating, greeted, answering, results, files, outputs>>

\* mutant: an interrupted response leaves its results
PumpInterruptedKeeps ==
  /\ Reads("cancelled") /\ Loops
  /\ stopWatchdog
  /\ generating' = FALSE
  /\ answering' = 0
  /\ UNCHANGED <<out, greeted, results, files, panic, armed,
                 watchdogPanicTimer, outputs>>

PumpInterrupted ==         \* response.done, not completed: pendingFiles stay
  /\ Reads("cancelled") /\ Loops
  /\ stopWatchdog
  /\ generating' = FALSE
  /\ answering' = 0
  /\ results' = <<>>
  /\ UNCHANGED <<out, greeted, files, panic, armed, watchdogPanicTimer, outputs>>

PumpCompleted ==
  /\ Reads("completed") /\ Loops
  /\ stopWatchdog
  /\ out' = out \o [i \in 1 .. Len(results) |-> "result"]
                \o (IF results = <<>> THEN <<>> ELSE <<"create">>)
  /\ sent' = sent \o results
  /\ results' = <<>>
  /\ handed' = handed \o files
  /\ files' = <<>>
  /\ generating' = FALSE
  /\ answering' = 0
  /\ UNCHANGED <<greeted, panic, armed, watchdogPanicTimer>>

PumpRunsAction ==          \* RunAction: no event is read until it returns
  /\ Reads("call")
  /\ pump' = [at |-> "action", call |-> n]
  /\ UNCHANGED <<out, generating, greeted, answering, results, files, timers,
                 outputs>>

ActionReturns ==            \* its result carries a file
  /\ pump.at = "action"
  /\ results' = Append(results, pump.call)
  /\ files' = Append(files, pump.call)
  /\ Loops
  /\ UNCHANGED <<shared, wire, out, ctx, generating, greeted, answering,
                 timers, outputs>>

PumpSkips ==               \* a recoverable error
  /\ Reads("refused") /\ Loops
  /\ UNCHANGED <<out, generating, greeted, answering, results, files, timers,
                 outputs>>

ReaderEnds ==                \* a fatal error, or the connection is closed
  /\ \/ Reads("fatal")
     \/ pump.at = "read" /\ conn = "closed" /\ UNCHANGED <<shared, wire, ctx>>
  /\ pump' = [pump EXCEPT !.at = "ending"]
  /\ UNCHANGED <<out, generating, greeted, answering, results, files, timers,
                 outputs>>

PumpStops ==               \* the deferred stops, publishEvent and cancel
  /\ pump.at = "ending"
  /\ pump' = [pump EXCEPT !.at = "over"]
  /\ stopWatchdog
  /\ panic' = Stopped(panic, watchdogPanicTimer)
  /\ watchdogPanicTimer' = 0
  /\ ctx' = "done"
  /\ UNCHANGED <<shared, wire, out, generating, greeted, answering, results,
                 files, armed, outputs>>

ConnCloses == conn' = "closed" /\ wire' = <<>> /\ out' = <<>>

ConnGuard ==               \* the goroutine that closes openaiConn after ctx
  /\ ctx = "done" /\ conn = "open"
  /\ ConnCloses
  /\ UNCHANGED <<talk, service, ctx, generating, called, greeted, pump,
                 answering, results, files, timers, outputs, disconnects,
                 hangup>>

-----------------------------------------------------------------------------
(***************************************************************************)
(* CloseRealtimeSession                                                    *)
(***************************************************************************)
HangupFlags ==
  /\ talk.closes /\ hangup = "no" /\ hangup' = "flagged"
  /\ called' = TRUE
  /\ UNCHANGED <<talk, service, wire, out, conn, ctx, generating, greeted,
                 pump, answering, results, files, timers, outputs, disconnects>>

HangupCancels ==
  /\ hangup = "flagged" /\ hangup' = "over"
  /\ ctx' = "done" /\ ConnCloses
  /\ UNCHANGED <<talk, service, generating, called, greeted, pump,
                 answering, results, files, timers, outputs, disconnects>>

-----------------------------------------------------------------------------
Service == ServiceStarts \/ ServiceGoesOn \/ ServiceEnds \/ ServiceFails \/ ServiceTakes
Callback(i) == \/ TimerFires(i) \/ CallbackArms(i) \/ PanicAsks(i)
               \/ PanicSwaps(i) \/ PanicTells(i) \/ PanicCancels(i)
Pump == \/ PumpGreets \/ PumpCreated \/ PumpSpoken
        \/ PumpInterrupted \/ PumpCompleted \/ PumpRunsAction \/ PumpSkips
        \/ ReaderEnds \/ PumpStops
Close == HangupFlags \/ HangupCancels

ResponseNext == \/ Service \/ Pump \/ Close \/ ConnGuard
                \/ ActionReturns
                \/ \E i \in Timers : Callback(i)

ResponseSpec == ResponseInit /\ [][ResponseNext]_responsevars

(***************************************************************************)
(* The goroutines and the timers of the session go on, and RunAction       *)
(* returns when its context ends.  OpenAI owes nothing.                    *)
(***************************************************************************)
ResponseFairness ==
  /\ WF_responsevars(Pump) /\ WF_responsevars(ConnGuard)
  /\ WF_responsevars(ctx = "done" /\ ActionReturns)
  /\ \A i \in Timers : WF_responsevars(Callback(i))
  /\ WF_responsevars(HangupCancels)

ResponseFairSpec == ResponseSpec /\ ResponseFairness

-----------------------------------------------------------------------------
(***************************************************************************)
(* What a response leaves for others is passed on at most once, and, its   *)
(* files apart, only when it completed: no interruption, no second         *)
(* response and no late callback sends a function result again, or the     *)
(* result of an interrupted response at all.                               *)
(***************************************************************************)
OutputOnce ==
  /\ IsInjective(sent) /\ IsInjective(handed)
  /\ Range(sent) \subseteq service.completed

(***************************************************************************)
(* "Protection against the double call of OnDisconnect": it is called once *)
(* at most, whichever callbacks of the watchdog are under way, and only by *)
(* one that took the flag before CloseRealtimeSession marked the session   *)
(* as ended normally.                                                      *)
(***************************************************************************)
DisconnectOnce ==
  [][/\ disconnects' # disconnects => disconnects = 0
     /\ \A i \in Timers : panic'[i] = "telling" /\ panic[i] # "telling" =>
          hangup = "no" /\ \A j \in Timers : panic[j] # "telling"]_responsevars

(***************************************************************************)
(* CloseRealtimeSession: "the watchdog timers must NOT call the            *)
(* OnDisconnect callback after this point", the Store of the flag.  Not so *)
(* of a callback that took the flag before: DisconnectOnce is what holds.  *)
(***************************************************************************)
NoLateDisconnect == [][disconnects' # disconnects => hangup = "no"]_responsevars

(***************************************************************************)
(* A response that was seen created and is not done is watched as long as  *)
(* the session lives: one of the timers is armed, or its callback is under *)
(* way, although pump and callbacks stop and replace the timers of one     *)
(* another.                                                                *)
(***************************************************************************)
OpenIsWatched ==
  answering # 0 /\ ctx = "live" =>
    \E i \in Timers : timer[i] \in {"armed", "sent"} \/ panic[i] # "off"

(***************************************************************************)
(* The watchdog neither forgets a response nor tells of an end twice, or   *)
(* takes it upon itself to tell after a session was closed.                *)
(***************************************************************************)
WatchdogHolds == []OpenIsWatched /\ DisconnectOnce

(***************************************************************************)
(* A response that OpenAI leaves unfinished, before or after its audio,    *)
(* does not hold the session for ever: it is done, or the pump ends, also  *)
(* while the pump waits for RunAction.                                     *)
(***************************************************************************)
SilentEnds == answering # 0 ~> answering = 0 \/ pump.at = "over"

(***************************************************************************)
(* "If response.cancel did not help (the model does not answer at all) we  *)
(* call OnDisconnect": the second level ends a session only while the      *)
(* response that was cancelled is still open.  The timer of that level is  *)
(* not stopped by the answer, so the model does not have this.             *)
(***************************************************************************)
EndsOnlyUnanswered ==
  [][\A i \in Timers :
       panic[i] = "told" /\ panic'[i] = "off" => answering # 0]_responsevars
=============================================================================
