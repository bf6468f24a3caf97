----------------------------- MODULE TextSession -----------------------------
(***************************************************************************)
(* The life of the text sessions of ONE dialog (pkg/startpoint): the calls *)
(* of StartSession made for it, the Listener each of them may start, the   *)
(* StarterRespondent goroutine the Listener forks, the Respondent that one *)
(* starts, and the tear-down that closes the five channels they share.     *)
(*                                                                         *)
(* A call is named by an element of Calls and everything a call allocates  *)
(* (its channels, its contexts, its WaitGroup) by the same name.  What all *)
(* calls share is the RespModel (flags, u.Ctx) and the respondentWG entry  *)
(* of the dialog.  Messages are abstracted: DialogPipeline models them.    *)
(***************************************************************************)
EXTENDS Integers

CONSTANTS
  Calls,            \* the StartSession calls made for the dialog
  NoCall,           \* "no entry" in respondentWG, "not set" in u.Ctx
  ConcurrentStarts  \* may two callers be inside runTextSession at once?

ASSUME NoCallAssumption == NoCall \notin Calls
ASSUME ConcurrentStartsAssumption == ConcurrentStarts \in BOOLEAN

VARIABLES
  listenerFlag,    \* u.Services.Listener
  respondentFlag,  \* u.Services.Respondent
  wgEntry,         \* respondentWG[treadId]: whose WaitGroup is stored
  uCtx,            \* u.Ctx: whose userCtx the shared model points to
  shut,            \* s.ctx is cancelled (Start.Shutdown)
  botGone,         \* start.Ctx of the call is cancelled
  userGone,        \* userCtx of the call's Listener is cancelled
  lpc,             \* the call and, after it, its Listener goroutine
  awaited,         \* the WaitGroup the tear-down loaded
  chans,           \* question, fullQuestCh, answerCh, errCh, saveCh
  spc,             \* the StarterRespondent goroutine
  rpc,             \* the Respondent goroutine
  rctx,            \* the u.Ctx its current select evaluated
  wgCount,         \* the counter of the WaitGroup made for the call
  panicked         \* a send on a closed channel: the process is dead

shared == <<listenerFlag, respondentFlag, wgEntry, uCtx>>
ctxs == <<shut, botGone, userGone>>
listener == <<lpc, awaited, chans>>
respondent == <<spc, rpc, rctx, wgCount>>
vars == <<shared, ctxs, listener, respondent, panicked>>

ListenerStates == {"idle", "checked", "starting", "select", "teardown",
                   "await", "close", "release", "done", "refused"}
StarterStates == {"none", "spawned", "checked", "flagged", "started", "skipped"}
RespondentStates == {"none", "launched", "listening", "busy", "ending",
                     "flagdown", "wgdone", "done"}

\* The type of every variable: flags, contexts, channel sets and the program
\* counters of the goroutines; no WaitGroup's counter ever turns negative.
TypeOK ==
  /\ listenerFlag \in BOOLEAN /\ respondentFlag \in BOOLEAN
  /\ wgEntry \in Calls \cup {NoCall} /\ uCtx \in Calls \cup {NoCall}
  /\ shut \in BOOLEAN /\ panicked \in BOOLEAN
  /\ botGone \in [Calls -> BOOLEAN] /\ userGone \in [Calls -> BOOLEAN]
  /\ lpc \in [Calls -> ListenerStates]
  /\ awaited \in [Calls -> Calls \cup {NoCall}]
  /\ chans \in [Calls -> {"none", "open", "closed"}]
  /\ spc \in [Calls -> StarterStates]
  /\ rpc \in [Calls -> RespondentStates]
  /\ rctx \in [Calls -> Calls \cup {NoCall}]
  /\ wgCount \in [Calls -> {0, 1}]

Init ==
  /\ listenerFlag = FALSE /\ respondentFlag = FALSE
  /\ wgEntry = NoCall /\ uCtx = NoCall
  /\ shut = FALSE /\ panicked = FALSE
  /\ botGone = [c \in Calls |-> FALSE] /\ userGone = [c \in Calls |-> FALSE]
  /\ lpc = [c \in Calls |-> "idle"] /\ awaited = [c \in Calls |-> NoCall]
  /\ chans = [c \in Calls |-> "none"]
  /\ spc = [c \in Calls |-> "none"] /\ rpc = [c \in Calls |-> "none"]
  /\ rctx = [c \in Calls |-> NoCall] /\ wgCount = [c \in Calls |-> 0]

\* ctx.Done of the userCtx of call c (a child of s.ctx); nil never fires.
CtxDone(c) == shut \/ (c # NoCall /\ userGone[c])

-----------------------------------------------------------------------------
(* runTextSession                                                          *)

ListenerAt(c, from, to) == lpc[c] = from /\ lpc' = [lpc EXCEPT ![c] = to]

\* Services.Listener.Load: the flag is tested here and set in StartStore.
StartLoad(c) ==
  /\ ConcurrentStarts \/ \A d \in Calls : lpc[d] # "checked"
  /\ \/ ~listenerFlag /\ ListenerAt(c, "idle", "checked")
     \/ listenerFlag /\ ListenerAt(c, "idle", "refused")
  /\ UNCHANGED <<shared, ctxs, awaited, chans, respondent, panicked>>

\* Services.Listener.Store(true) and the fork of the session's goroutine.
StartStore(c) ==
  /\ ListenerAt(c, "checked", "starting")
  /\ listenerFlag' = TRUE
  /\ UNCHANGED <<respondentFlag, wgEntry, uCtx, ctxs, awaited, chans,
                 respondent, panicked>>

\* The bot's context is tested once; then Listener makes its channels, points
\* u.Ctx to its own context and forks StarterRespondent.
ListenerOpens(c) ==
  /\ ~botGone[c]
  /\ ListenerAt(c, "starting", "select")
  /\ chans' = [chans EXCEPT ![c] = "open"]
  /\ uCtx' = c
  /\ spc' = [spc EXCEPT ![c] = "spawned"]
  /\ UNCHANGED <<listenerFlag, respondentFlag, wgEntry, ctxs, awaited,
                 rpc, rctx, wgCount, panicked>>

ListenerTooLate(c) ==
  /\ botGone[c]
  /\ ListenerAt(c, "starting", "release")
  /\ UNCHANGED <<shared, ctxs, awaited, chans, respondent, panicked>>

\* The binder goroutine turns the end of the bot's context into listenerCancel.
BindBotCtxDeaf(c) == FALSE    \* mutant: the binder goroutine is not started

BindBotCtx(c) ==
  /\ botGone[c] /\ ~userGone[c]
  /\ lpc[c] \in {"starting", "select"}
  /\ userGone' = [userGone EXCEPT ![c] = TRUE]
  /\ UNCHANGED <<shared, shut, botGone, listener, respondent, panicked>>

-----------------------------------------------------------------------------
(* Listener: its loop and its deferred tear-down                           *)

LeaveLoopUncancelled(c) ==    \* mutant: the Respondent is not told to end
  /\ ListenerAt(c, "select", "teardown")
  /\ UNCHANGED <<shared, ctxs, awaited, chans, respondent, panicked>>

LeaveLoop(c) ==
  /\ ListenerAt(c, "select", "teardown")
  /\ userGone' = [userGone EXCEPT ![c] = TRUE]
  /\ UNCHANGED <<shared, shut, botGone, awaited, chans, respondent, panicked>>

\* s.ctx or u.Ctx is done (whoever u.Ctx belongs to by now).
ListenerCancelled(c) == CtxDone(uCtx) /\ LeaveLoop(c)

\* RxCh was closed by the bot, or an error arrived on errCh.
ListenerFails(c) == LeaveLoop(c)

\* The deferred function looks the dialog's WaitGroup up...
LookupRespondent(c) ==
  /\ \/ wgEntry # NoCall /\ ListenerAt(c, "teardown", "await")
     \/ wgEntry = NoCall /\ ListenerAt(c, "teardown", "close")
  /\ awaited' = [awaited EXCEPT ![c] = wgEntry]
  /\ UNCHANGED <<shared, ctxs, chans, respondent, panicked>>

\* ... waits for it if there is one ...
AwaitRespondentNot(c) ==    \* mutant: wg.Wait is forgotten
  /\ ListenerAt(c, "await", "close")
  /\ UNCHANGED <<shared, ctxs, awaited, chans, respondent, panicked>>

AwaitRespondent(c) ==
  /\ lpc[c] = "await" /\ wgCount[awaited[c]] = 0
  /\ ListenerAt(c, "await", "close")
  /\ UNCHANGED <<shared, ctxs, awaited, chans, respondent, panicked>>

\* ... and closes the five channels.
CloseChannels(c) ==
  /\ ListenerAt(c, "close", "release")
  /\ chans' = [chans EXCEPT ![c] = "closed"]
  /\ UNCHANGED <<shared, ctxs, awaited, respondent, panicked>>

\* Services.Listener.Store(false); close(errCh) of the session.
ReleaseListener(c) ==
  /\ ListenerAt(c, "release", "done")
  /\ listenerFlag' = FALSE
  /\ UNCHANGED <<respondentFlag, wgEntry, uCtx, ctxs, awaited, chans,
                 respondent, panicked>>

-----------------------------------------------------------------------------
(* StarterRespondent                                                       *)

StarterAt(c, from, to) == spc[c] = from /\ spc' = [spc EXCEPT ![c] = to]

StarterLoad(c) ==
  /\ \/ ~respondentFlag /\ StarterAt(c, "spawned", "checked")
     \/ respondentFlag /\ StarterAt(c, "spawned", "skipped")
  /\ UNCHANGED <<shared, ctxs, listener, rpc, rctx, wgCount, panicked>>

StarterStore(c) ==
  /\ StarterAt(c, "checked", "flagged")
  /\ respondentFlag' = TRUE
  /\ UNCHANGED <<listenerFlag, wgEntry, uCtx, ctxs, listener, rpc, rctx,
                 wgCount, panicked>>

\* A new WaitGroup, with one Add, replaces whatever respondentWG held for the
\* dialog, and the Respondent's goroutine is forked.
StarterRegister(c) ==
  /\ StarterAt(c, "flagged", "started")
  /\ wgCount' = [wgCount EXCEPT ![c] = 1]
  /\ wgEntry' = c
  /\ rpc' = [rpc EXCEPT ![c] = "launched"]
  /\ UNCHANGED <<listenerFlag, respondentFlag, uCtx, ctxs, listener, rctx,
                 panicked>>

-----------------------------------------------------------------------------
(* Respondent, and the goroutine of StarterRespondent around it            *)

RespondentAt(c, from, to) == rpc[c] = from /\ rpc' = [rpc EXCEPT ![c] = to]

\* Entering a select evaluates the field u.Ctx again.
RespondentEnters(c) ==
  /\ ~shut
  /\ RespondentAt(c, "launched", "listening")
  /\ rctx' = [rctx EXCEPT ![c] = uCtx]
  /\ UNCHANGED <<shared, ctxs, listener, spc, wgCount, panicked>>

RespondentStillborn(c) ==
  /\ shut
  /\ RespondentAt(c, "launched", "ending")
  /\ UNCHANGED <<shared, ctxs, listener, spc, rctx, wgCount, panicked>>

RespondentCancelled(c) ==
  /\ CtxDone(rctx[c])
  /\ RespondentAt(c, "listening", "ending")
  /\ UNCHANGED <<shared, ctxs, listener, spc, rctx, wgCount, panicked>>

\* A question arrives on the open channel and goes to the model or operator.
RespondentTakes(c) ==
  /\ chans[c] = "open"
  /\ RespondentAt(c, "listening", "busy")
  /\ UNCHANGED <<shared, ctxs, listener, spc, rctx, wgCount, panicked>>

\* The closed question channel is reported on errCh, which is closed too.
RespondentTakesClosed(c) ==
  /\ chans[c] = "closed" /\ rpc[c] = "listening"
  /\ panicked' = TRUE
  /\ UNCHANGED <<shared, ctxs, listener, respondent>>

\* The question and the answer are pushed; a full channel or a fatal error
\* ends the Respondent, otherwise it goes back to its select.
RespondentSends(c) ==
  /\ chans[c] = "open"
  /\ \/ /\ RespondentAt(c, "busy", "listening")
        /\ rctx' = [rctx EXCEPT ![c] = uCtx]
     \/ /\ RespondentAt(c, "busy", "ending")
        /\ UNCHANGED rctx
  /\ UNCHANGED <<shared, ctxs, listener, spc, wgCount, panicked>>

RespondentSendsClosed(c) ==
  /\ chans[c] = "closed" /\ rpc[c] = "busy"
  /\ panicked' = TRUE
  /\ UNCHANGED <<shared, ctxs, listener, respondent>>

\* The three deferred statements, in their order.
RespondentFlagStays(c) ==    \* mutant: the flag is not taken down
  /\ RespondentAt(c, "ending", "flagdown")
  /\ UNCHANGED <<shared, ctxs, listener, spc, rctx, wgCount, panicked>>

RespondentFlagDown(c) ==
  /\ RespondentAt(c, "ending", "flagdown")
  /\ respondentFlag' = FALSE
  /\ UNCHANGED <<listenerFlag, wgEntry, uCtx, ctxs, listener, spc, rctx,
                 wgCount, panicked>>

RespondentWgDoneForgotten(c) ==    \* mutant: wg.Done is missing
  /\ RespondentAt(c, "flagdown", "wgdone")
  /\ UNCHANGED <<shared, ctxs, listener, spc, rctx, wgCount, panicked>>

RespondentWgDone(c) ==
  /\ RespondentAt(c, "flagdown", "wgdone")
  /\ wgCount' = [wgCount EXCEPT ![c] = @ - 1]
  /\ UNCHANGED <<shared, ctxs, listener, spc, rctx, panicked>>

\* respondentWG.Delete(treadId) removes the entry whoever stored it.
RespondentUnregister(c) ==
  /\ RespondentAt(c, "wgdone", "done")
  /\ wgEntry' = NoCall
  /\ UNCHANGED <<listenerFlag, respondentFlag, uCtx, ctxs, listener, spc,
                 rctx, wgCount, panicked>>

-----------------------------------------------------------------------------
(* The environment: the bot goes away, the application shuts down          *)

BotLeaves(c) ==
  /\ ~botGone[c] /\ lpc[c] # "idle"
  /\ botGone' = [botGone EXCEPT ![c] = TRUE]
  /\ UNCHANGED <<shared, shut, userGone, listener, respondent, panicked>>

Shutdown ==
  /\ ~shut
  /\ shut' = TRUE
  /\ UNCHANGED <<shared, botGone, userGone, listener, respondent, panicked>>

-----------------------------------------------------------------------------
ListenerNext(c) ==
  \/ StartLoad(c) \/ StartStore(c) \/ ListenerOpens(c) \/ ListenerTooLate(c)
  \/ ListenerCancelled(c) \/ ListenerFails(c) \/ LookupRespondent(c)
  \/ AwaitRespondent(c) \/ CloseChannels(c) \/ ReleaseListener(c)

StarterNext(c) == StarterLoad(c) \/ StarterStore(c) \/ StarterRegister(c)

RespondentNext(c) ==
  \/ RespondentEnters(c) \/ RespondentStillborn(c) \/ RespondentCancelled(c)
  \/ RespondentTakes(c) \/ RespondentTakesClosed(c)
  \/ RespondentSends(c) \/ RespondentSendsClosed(c)
  \/ RespondentFlagDown(c) \/ RespondentWgDone(c) \/ RespondentUnregister(c)

Next ==
  /\ ~panicked
  /\ \/ \E c \in Calls :
          \/ ListenerNext(c) \/ BindBotCtx(c) \/ StarterNext(c)
          \/ RespondentNext(c) \/ BotLeaves(c)
     \/ Shutdown

Spec == Init /\ [][Next]_vars

\* The Go scheduler runs every goroutine that can run; it owes nothing to the
\* environment (StartLoad, BotLeaves, Shutdown, ListenerFails), and whether a
\* question arrives is the user's choice.  A busy Respondent returns because
\* ask gives up after ErrorTimeOutDurationForAssistAnswer minutes.  A select
\* with several ready cases picks one at random, so a Respondent that is back
\* in its select infinitely often with its context done takes that case: SF.
Fairness ==
  \A c \in Calls :
    /\ WF_vars(~panicked /\ StartStore(c))
    /\ WF_vars(~panicked /\ (ListenerOpens(c) \/ ListenerTooLate(c)))
    /\ WF_vars(~panicked /\ ListenerCancelled(c))
    /\ WF_vars(~panicked /\ (LookupRespondent(c) \/ AwaitRespondent(c)
                             \/ CloseChannels(c) \/ ReleaseListener(c)))
    /\ WF_vars(~panicked /\ BindBotCtx(c))
    /\ WF_vars(~panicked /\ StarterNext(c))
    /\ WF_vars(~panicked /\ (RespondentEnters(c) \/ RespondentStillborn(c)))
    /\ SF_vars(~panicked /\ RespondentCancelled(c))
    /\ WF_vars(~panicked /\ RespondentTakesClosed(c))
    /\ WF_vars(~panicked /\ (RespondentSends(c) \/ RespondentSendsClosed(c)))
    /\ WF_vars(~panicked /\ (RespondentFlagDown(c) \/ RespondentWgDone(c)
                             \/ RespondentUnregister(c)))

FairSpec == Spec /\ Fairness

-----------------------------------------------------------------------------
Running(c) == lpc[c] \in {"starting", "select", "teardown", "await", "close",
                          "release"}
Quiet(c) == rpc[c] \in {"wgdone", "done"}

\* runTextSession "starts the Listener if it is not running yet": a dialog
\* would never have two Listeners.  The flag is tested and set in two steps, so
\* this holds of calls in turn (SerialStartsOneListener) and not of all calls.
OneListener == \A c, d \in Calls : Running(c) /\ Running(d) => c = d

\* When the tear-down did find a WaitGroup, the Respondent it belongs to is
\* past its last send by the time the channels are closed.
AwaitedIsQuiet ==
  \A c \in Calls :
    lpc[c] \in {"close", "release", "done"} /\ awaited[c] # NoCall
      => Quiet(awaited[c])

\* wg.Wait has no time-out. Whoever a tear-down waits for has been told to end:
\* a Respondent that waits for questions does so on a context that is done, be
\* it the one of an earlier session, so the tear-down is not held for ever.
AwaitedIsTold ==
  ~ConcurrentStarts =>
    \A c \in Calls :
      lpc[c] = "await" /\ rpc[awaited[c]] = "listening" => CtxDone(rctx[awaited[c]])

\* What the sessions of a dialog share - the two flags and the entry of
\* respondentWG - is held by a goroutine that is still there to take it back,
\* whoever set or deleted it in between: no dialog is locked by nobody.
NothingOrphaned ==
  /\ listenerFlag => \E c \in Calls : Running(c)
  /\ respondentFlag =>
       \E c \in Calls : \/ spc[c] = "flagged"
                        \/ rpc[c] \in {"launched", "listening", "busy", "ending"}
  /\ wgEntry # NoCall => rpc[wgEntry] \notin {"none", "done"}

\* What the sessions of a dialog leave one another: channels that are closed when
\* nobody sends any more, no tear-down that waits for ever, no lock without an
\* owner.
TearDownIsSound == AwaitedIsQuiet /\ AwaitedIsTold /\ NothingOrphaned

\* "The channels are closed only after all senders ended": no goroutine of
\* the dialog ever sends on a channel that the tear-down closed.
ClosedAfterSenders == ~panicked

\* The end of a bot's context ends its Listener and frees the dialog for the
\* next StartSession, even when the Respondent is waiting for the model.
BotEndReleases ==
  \A c \in Calls :
    (lpc[c] = "select" /\ botGone[c]) ~> (lpc[c] = "done" \/ panicked)

\* Shutdown drains the dialog: every Listener and Respondent ends.
ShutdownDrains ==
  shut ~> \/ panicked
          \/ \A c \in Calls : /\ ~Running(c)
                              /\ rpc[c] \in {"none", "done"}

\* However a text session is to end, it ends and leaves the dialog free.
DialogReleased == BotEndReleases /\ ShutdownDrains
=============================================================================
