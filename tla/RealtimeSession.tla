--------------------------- MODULE RealtimeSession ---------------------------
(***************************************************************************)
(* The life of the voice sessions of one respId: the transport's calls of  *)
(* StartSession (runRealtimeSession) and CloseSession, the session map of  *)
(* the provider behind the Router (OpenAI, Google, Mistral, or the         *)
(* ElevenLabs cascade), the goroutine that reads the provider's upstream,  *)
(* the bridge of its errors, and DisconnectUser.                           *)
(*                                                                         *)
(* A session of the provider is a number; the channel that the i-th        *)
(* SubscribeEvents of the call k makes is Chan(k, i): the first goes to    *)
(* the transport, the second to the bridge.  Of the events only an error   *)
(* matters here, so a channel holds one or none (its buffer of 64 never    *)
(* fills).  What is said in a session is left out.                         *)
(***************************************************************************)
EXTENDS Integers, FiniteSets

CONSTANTS
  Setups,       \* the ways of using it that a run explores: subset of Setup
  MaxStarts,    \* calls of StartSession
  MaxCloses     \* calls of CloseSession

Provider == {"openai", "google", "mistral", "cascade"}

(***************************************************************************)
(* concurrent: the calls for this respId overlap (the code takes no lock   *)
(* against it); racing: DisconnectUser may fall into a StartSession.       *)
(***************************************************************************)
Setup == [provider : Provider, concurrent : BOOLEAN, racing : BOOLEAN]

ASSUME RealtimeAssumption ==
  Setups \subseteq Setup /\ MaxStarts \in Nat \ {0} /\ MaxCloses \in Nat

Starts == 1 .. MaxStarts
Closes == (MaxStarts + 1) .. (MaxStarts + MaxCloses)
Disconnecter == MaxStarts + MaxCloses + 1
Caller == Starts \cup Closes \cup {Disconnecter}
Sessions == 1 .. MaxStarts
Chan(k, i) == 2 * k - 2 + i
Chans == 1 .. (2 * MaxStarts)

VARIABLES
  setup,     \* which use of the code this is
  held,      \* realtimeSessions[respId], cascade sessions[respId]; 0: none
  made,      \* the provider's sessions made so far
  session,   \* each of them: ctx, closed, subs (eventSubs), pump
  chan,      \* each subscriber's channel: made, closed, its error event
  guards,    \* Google's goroutines that are to send the synthetic error
  starting,  \* runRealtimeSession: pc and the session it works on
  bridge,    \* bridgeRealtimeErrors of each call
  closer,    \* the goroutine that closes errCh
  ended,     \* calls whose entry's context was cancelled
  told,      \* calls whose errCh was sent an error
  registry,  \* s.sessions[respId]: the call it belongs to; 0: none
  closing,   \* CloseSession: pc and the entry it took
  shutting,  \* CloseRealtimeSession: session being shut, and its next step
  disconnect,\* DisconnectUser
  last,      \* the transport's last call
  crashed    \* a send on, or the close of, a closed channel

vars == <<setup, held, made, session, chan, guards, starting, bridge, closer,
          ended, told, registry, closing, shutting, disconnect, last, crashed>>
goroutines == <<guards, bridge, closer, told>>

Is(p) == setup.provider = p
Native == Is("openai") \/ Is("google")      \* an upstream of the provider's own
Resting == [of |-> 0, step |-> "none"]

SessionState == [ctx : {"live", "done"}, closed : BOOLEAN, subs : SUBSET Chans,
                 pump : {"none", "reads", "published", "over"}]
ChanState == [state : {"none", "open", "closed"}, error : BOOLEAN]
StartPc == {"idle", "dial", "old", "attach", "channels", "find", "add", "check",
            "fork", "register", "rollback", "failed", "served"}
StartState == [pc : StartPc, of : 0 .. MaxStarts, sub : 1 .. 2]
ClosePc == {"idle", "unsubscribe", "cancel", "probe", "shut", "over"}
CloseState == [pc : ClosePc, entry : 0 .. MaxStarts, sub : 1 .. 2]
ShutState == [of : 0 .. MaxStarts, step : {"none", "first", "second"}]

TypeOK ==
  /\ setup \in Setups
  /\ held \in 0 .. MaxStarts
  /\ made \in 0 .. MaxStarts
  /\ session \in [Sessions -> SessionState]
  /\ chan \in [Chans -> ChanState]
  /\ guards \subseteq Chans
  /\ starting \in [Starts -> StartState]
  /\ bridge \in [Starts -> {"none", "reads", "over"}]
  /\ closer \in [Starts -> {"none", "waits", "deleted", "over"}]
  /\ ended \subseteq 0 .. MaxStarts /\ told \subseteq Starts
  /\ registry \in 0 .. MaxStarts
  /\ closing \in [Closes -> CloseState]
  /\ shutting \in [Caller -> ShutState]
  /\ disconnect \in {"idle", "shut", "over"}
  /\ last \in {"none", "start", "close"}
  /\ crashed \in {"no", "publish", "close", "guard"}

Init ==
  /\ setup \in Setups
  /\ held = 0 /\ made = 0
  /\ session = [s \in Sessions |-> [ctx |-> "live", closed |-> FALSE,
                                    subs |-> {}, pump |-> "none"]]
  /\ chan = [c \in Chans |-> [state |-> "none", error |-> FALSE]]
  /\ guards = {}
  /\ starting = [k \in Starts |-> [pc |-> "idle", of |-> 0, sub |-> 1]]
  /\ bridge = [k \in Starts |-> "none"]
  /\ closer = [k \in Starts |-> "none"]
  /\ ended = {} /\ told = {}
  /\ registry = 0
  /\ closing = [c \in Closes |-> [pc |-> "idle", entry |-> 0, sub |-> 1]]
  /\ shutting = [c \in Caller |-> Resting]
  /\ disconnect = "idle"
  /\ last = "none"
  /\ crashed = "no"

StartUnderWay(k) == starting[k].pc \notin {"idle", "failed", "served"}
CloseUnderWay(c) == closing[c].pc \notin {"idle", "over"}
Quiet == /\ \A k \in Starts : ~StartUnderWay(k)
         /\ \A c \in Closes : ~CloseUnderWay(c)

-----------------------------------------------------------------------------
(***************************************************************************)
(* Shutting a session.  LoadAndDelete makes the caller the only one to     *)
(* shut what it took.  OpenAI and Google close the subscribers' channels   *)
(* first, under eventSubsMu, and cancel the context then; Mistral and the  *)
(* cascade the other way round.                                            *)
(***************************************************************************)
Take(c) == IF held = 0
           THEN UNCHANGED <<held, shutting>>
           ELSE /\ shutting' = [shutting EXCEPT ![c] = [of |-> held, step |-> "first"]]
                /\ held' = 0

ChannelsFirst(c) == Native <=> (shutting[c].step = "first")

\* mutant: the subscribers stay in the session whose channels are closed
CloseChannelsKeepsSubs(c) ==
  LET s == shutting[c].of IN
  /\ shutting[c].step # "none" /\ ChannelsFirst(c)
  /\ chan' = [h \in Chans |->
                IF h \in session[s].subs
                THEN [chan[h] EXCEPT !.state = "closed"] ELSE chan[h]]
  /\ crashed' = IF \E h \in session[s].subs : chan[h].state = "closed"
                THEN "close" ELSE crashed
  /\ session' = [session EXCEPT ![s].closed = @ \/ Is("openai")]
  /\ shutting' = [shutting EXCEPT ![c] =
                    IF @.step = "first" THEN [@ EXCEPT !.step = "second"] ELSE Resting]
  /\ UNCHANGED <<setup, held, made, goroutines, starting, ended, registry,
                 closing, disconnect, last>>

CloseChannels(c) ==
  LET s == shutting[c].of IN
  /\ shutting[c].step # "none" /\ ChannelsFirst(c)
  /\ chan' = [h \in Chans |->
                IF h \in session[s].subs
                THEN [chan[h] EXCEPT !.state = "closed"] ELSE chan[h]]
  /\ crashed' = IF \E h \in session[s].subs : chan[h].state = "closed"
                THEN "close" ELSE crashed
  /\ session' = [session EXCEPT ![s].subs = {},
                                ![s].closed = @ \/ Is("openai")]
  /\ shutting' = [shutting EXCEPT ![c] =
                    IF @.step = "first" THEN [@ EXCEPT !.step = "second"] ELSE Resting]
  /\ UNCHANGED <<setup, held, made, goroutines, starting, ended, registry,
                 closing, disconnect, last>>

\* mutant: a shut session's connection stays open
CancelUpstreamNot(c) ==
  /\ shutting[c].step # "none" /\ ~ChannelsFirst(c)
  /\ session' = [session EXCEPT ![shutting[c].of].closed = @ \/ ~Native]
  /\ shutting' = [shutting EXCEPT ![c] =
                    IF @.step = "first" THEN [@ EXCEPT !.step = "second"] ELSE Resting]
  /\ UNCHANGED <<setup, held, made, chan, goroutines, starting, ended,
                 registry, closing, disconnect, last, crashed>>

CancelUpstream(c) ==
  LET s == shutting[c].of IN
  /\ shutting[c].step # "none" /\ ~ChannelsFirst(c)
  /\ session' = [session EXCEPT ![s].ctx = "done", ![s].closed = @ \/ ~Native]
  /\ shutting' = [shutting EXCEPT ![c] =
                    IF @.step = "first" THEN [@ EXCEPT !.step = "second"] ELSE Resting]
  /\ UNCHANGED <<setup, held, made, chan, goroutines, starting, ended,
                 registry, closing, disconnect, last, crashed>>

-----------------------------------------------------------------------------
(***************************************************************************)
(* runRealtimeSession                                                      *)
(***************************************************************************)
Goto(k, pc) == starting' = [starting EXCEPT ![k].pc = pc]

(***************************************************************************)
(* All but the cascade return the session they find for the respId,        *)
(* whatever its state; the cascade makes a new one each time.              *)
(***************************************************************************)
StartSession(k) ==
  /\ starting[k].pc = "idle"
  /\ \A j \in Starts : j < k => starting[j].pc # "idle"
  /\ setup.concurrent \/ Quiet
  /\ setup.racing \/ disconnect # "shut"
  /\ Goto(k, IF held # 0 /\ ~Is("cascade") THEN "channels" ELSE "dial")
  /\ last' = "start"
  /\ UNCHANGED <<setup, held, made, session, chan, goroutines, ended, registry,
                 closing, shutting, disconnect, crashed>>

Fails(k) ==          \* no key, no configuration, no connection: errCh is closed
  /\ starting[k].pc = "dial"
  /\ Goto(k, "failed")
  /\ UNCHANGED <<setup, held, made, session, chan, goroutines, ended, registry,
                 closing, shutting, disconnect, last, crashed>>

Making(k) ==               \* a call makes one at most: the bound never bites
  /\ starting[k].pc = "dial"
  /\ made < MaxStarts
  /\ made' = made + 1
  /\ UNCHANGED <<setup, chan, goroutines, ended, registry, closing, disconnect,
                 last, crashed>>

(***************************************************************************)
(* OpenAI and Google Store over whatever is there by now.                  *)
(***************************************************************************)
NativeStores(k) ==
  /\ Native /\ Making(k)
  /\ held' = made + 1
  /\ session' = [session EXCEPT ![made + 1].pump = "reads"]
  /\ Goto(k, "channels")
  /\ UNCHANGED shutting

(***************************************************************************)
(* Mistral's LoadOrStore keeps the first; the loser is closed at once.     *)
(***************************************************************************)
MistralStores(k) ==
  /\ Is("mistral") /\ Making(k)
  /\ held' = IF held = 0 THEN made + 1 ELSE held
  /\ session' = [session EXCEPT ![made + 1].ctx = IF held = 0 THEN "live" ELSE "done",
                                ![made + 1].closed = held # 0]
  /\ starting' = [starting EXCEPT ![k].pc = "attach", ![k].of = held']
  /\ UNCHANGED shutting

(***************************************************************************)
(* The cascade replaces the session there is, which it closes with its     *)
(* lock released.                                                          *)
(***************************************************************************)
CascadeStores(k) ==
  /\ Is("cascade") /\ held = 0 /\ Making(k)
  /\ held' = made + 1
  /\ session' = [session EXCEPT ![made + 1].pump = "reads"]
  /\ Goto(k, "channels")
  /\ UNCHANGED shutting

CascadeFindsOld(k) ==
  /\ Is("cascade") /\ held # 0 /\ Making(k)
  /\ starting' = [starting EXCEPT ![k].pc = "old", ![k].of = made + 1]
  /\ shutting' = [shutting EXCEPT ![k] = [of |-> held, step |-> "first"]]
  /\ UNCHANGED <<held, session>>

CascadeReplaces(k) ==
  /\ starting[k].pc = "old" /\ shutting[k] = Resting
  /\ held' = starting[k].of
  /\ session' = [session EXCEPT ![starting[k].of].pump = "reads"]
  /\ Goto(k, "channels")
  /\ UNCHANGED <<setup, made, chan, goroutines, ended, registry, closing,
                 shutting, disconnect, last, crashed>>

(***************************************************************************)
(* Mistral attaches the STT stream; a session that has one refuses, and    *)
(* the call then closes whatever session the respId has.                   *)
(***************************************************************************)
MistralAttaches(k) ==
  LET s == starting[k].of IN
  /\ starting[k].pc = "attach"
  /\ IF session[s].pump = "none"
     THEN /\ session' = [session EXCEPT ![s].pump = "reads"]
          /\ Goto(k, "channels")
          /\ UNCHANGED <<held, shutting>>
     ELSE /\ Goto(k, "rollback")
          /\ Take(k)
          /\ UNCHANGED session
  /\ UNCHANGED <<setup, made, chan, goroutines, ended, registry, closing,
                 disconnect, last, crashed>>

RollsBack(k) == Goto(k, "rollback") /\ Take(k)

(***************************************************************************)
(* GetRealtimeAudio and GetRealtimeDrain: each fails if the session is     *)
(* gone, as SubscribeEvents does.                                          *)
(***************************************************************************)
GetChannels(k) ==
  /\ starting[k].pc = "channels"
  /\ IF held = 0 THEN RollsBack(k)
     ELSE Goto(k, "find") /\ UNCHANGED <<held, shutting>>
  /\ UNCHANGED <<setup, made, session, chan, goroutines, ended, registry,
                 closing, disconnect, last, crashed>>

(***************************************************************************)
(* UnsubscribeEvents looks the channel up in the session the respId has    *)
(* now, and closes it under the lock if it is there.                       *)
(***************************************************************************)
Unsubscribed(h) ==
  IF held # 0 /\ h \in session[held].subs
  THEN /\ session' = [session EXCEPT ![held].subs = @ \ {h}]
       /\ chan' = [chan EXCEPT ![h].state = "closed"]
       /\ crashed' = IF chan[h].state = "closed" THEN "close" ELSE crashed
  ELSE UNCHANGED <<session, chan, crashed>>

Refused(k) ==              \* the error path of a SubscribeEvents
  /\ IF starting[k].sub = 2 THEN Unsubscribed(Chan(k, 1))
     ELSE UNCHANGED <<session, chan, crashed>>
  /\ RollsBack(k)

FindSession(k) ==          \* Mistral also asks here whether it is closed
  /\ starting[k].pc = "find"
  /\ IF held = 0 \/ (Is("mistral") /\ session[held].closed)
     THEN Refused(k)
     ELSE /\ starting' = [starting EXCEPT ![k].pc = "add", ![k].of = held]
          /\ UNCHANGED <<held, session, chan, shutting, crashed>>
  /\ UNCHANGED <<setup, made, goroutines, ended, registry, closing, disconnect,
                 last>>

\* mutant: the second subscription is followed by a third
NextSubEndless(k) == [starting[k] EXCEPT !.pc = "find", !.sub = @ + 1]

NextSub(k) == IF starting[k].sub = 1
              THEN [starting[k] EXCEPT !.pc = "find", !.sub = 2]
              ELSE [starting[k] EXCEPT !.pc = "fork"]

RefusesClosed(k) ==        \* OpenAI alone looks at closed under the lock
  /\ starting[k].pc = "add"
  /\ Is("openai") /\ session[starting[k].of].closed
  /\ Refused(k)
  /\ UNCHANGED <<setup, made, goroutines, ended, registry, closing, disconnect,
                 last>>

AddSubscriber(k) ==
  LET s == starting[k].of
      h == Chan(k, starting[k].sub)
  IN
  /\ starting[k].pc = "add"
  /\ ~(Is("openai") /\ session[s].closed)
  /\ session' = [session EXCEPT ![s].subs = @ \cup {h}]
  /\ chan' = [chan EXCEPT ![h].state = "open"]
  /\ starting' = [starting EXCEPT ![k] =
                    IF Is("google") THEN [@ EXCEPT !.pc = "check"] ELSE NextSub(k)]
  /\ UNCHANGED <<setup, held, made, goroutines, ended, registry, closing,
                 shutting, disconnect, last, crashed>>

RaceGuard(k) ==            \* Google: did the session end before this?
  LET h == Chan(k, starting[k].sub) IN
  /\ starting[k].pc = "check"
  /\ guards' = IF session[starting[k].of].ctx = "done" THEN guards \cup {h} ELSE guards
  /\ starting' = [starting EXCEPT ![k] = NextSub(k)]
  /\ UNCHANGED <<setup, held, made, session, chan, bridge, closer, told, ended,
                 registry, closing, shutting, disconnect, last, crashed>>

ForkBridge(k) ==
  /\ starting[k].pc = "fork"
  /\ bridge' = [bridge EXCEPT ![k] = "reads"]
  /\ closer' = [closer EXCEPT ![k] = "waits"]
  /\ Goto(k, "register")
  /\ UNCHANGED <<setup, held, made, session, chan, guards, told, ended, registry,
                 closing, shutting, disconnect, last, crashed>>

RegisterSession(k) ==
  /\ starting[k].pc = "register"
  /\ registry' = k
  /\ Goto(k, "served")
  /\ UNCHANGED <<setup, held, made, session, chan, goroutines, ended, closing,
                 shutting, disconnect, last, crashed>>

RolledBack(k) ==           \* CloseRealtimeSession is done: cancel, error, close
  /\ starting[k].pc = "rollback" /\ shutting[k] = Resting
  /\ Goto(k, "failed")
  /\ UNCHANGED <<setup, held, made, session, chan, goroutines, ended, registry,
                 closing, shutting, disconnect, last, crashed>>

-----------------------------------------------------------------------------
(***************************************************************************)
(* bridgeRealtimeErrors, and the goroutine that waits for its end, takes   *)
(* the entry of this respId out of the registry and closes errCh.          *)
(***************************************************************************)
BridgeForwards(k) ==
  LET h == Chan(k, 2) IN
  /\ bridge[k] = "reads" /\ chan[h].error
  /\ told' = told \cup {k}
  /\ chan' = [chan EXCEPT ![h].error = FALSE]
  /\ UNCHANGED <<setup, held, made, session, guards, starting, bridge, closer,
                 ended, registry, closing, shutting, disconnect, last, crashed>>

BridgeEnds(k) ==
  LET h == Chan(k, 2) IN
  /\ bridge[k] = "reads"
  /\ k \in ended \/ (chan[h].state = "closed" /\ ~chan[h].error)
  /\ bridge' = [bridge EXCEPT ![k] = "over"]
  /\ UNCHANGED <<setup, held, made, session, chan, guards, starting, closer,
                 ended, told, registry, closing, shutting, disconnect, last, crashed>>

\* mutant: the entry is left to CloseSession
ClosesEntryNot(k) ==
  /\ closer[k] = "waits" /\ bridge[k] = "over"
  /\ closer' = [closer EXCEPT ![k] = "deleted"]
  /\ UNCHANGED <<setup, held, made, session, chan, guards, starting, bridge,
                 ended, told, registry, closing, shutting, disconnect, last, crashed>>

ClosesEntry(k) ==
  /\ closer[k] = "waits" /\ bridge[k] = "over"
  /\ closer' = [closer EXCEPT ![k] = "deleted"]
  /\ registry' = 0
  /\ UNCHANGED <<setup, held, made, session, chan, guards, starting, bridge,
                 ended, told, closing, shutting, disconnect, last, crashed>>

ClosesErrCh(k) ==
  /\ closer[k] = "deleted"
  /\ closer' = [closer EXCEPT ![k] = "over"]
  /\ UNCHANGED <<setup, held, made, session, chan, guards, starting, bridge,
                 ended, told, registry, closing, shutting, disconnect, last, crashed>>

-----------------------------------------------------------------------------
(***************************************************************************)
(* CloseSession                                                            *)
(***************************************************************************)
CloseSession(c) ==
  /\ closing[c].pc = "idle"
  /\ \A d \in Closes : d < c => closing[d].pc # "idle"
  /\ setup.concurrent \/ Quiet
  /\ closing' = [closing EXCEPT ![c].entry = registry,
                   ![c].pc = IF registry = 0 THEN "probe" ELSE "unsubscribe"]
  /\ registry' = 0
  /\ last' = "close"
  /\ UNCHANGED <<setup, held, made, session, chan, goroutines, starting, ended,
                 shutting, disconnect, crashed>>

CloseUnsubscribes(c) ==
  /\ closing[c].pc = "unsubscribe"
  /\ Unsubscribed(Chan(closing[c].entry, closing[c].sub))
  /\ closing' = [closing EXCEPT ![c] = IF @.sub = 1 THEN [@ EXCEPT !.sub = 2]
                                       ELSE [@ EXCEPT !.pc = "cancel"]]
  /\ UNCHANGED <<setup, held, made, goroutines, starting, ended, registry,
                 shutting, disconnect, last>>

CloseCancels(c) ==
  /\ closing[c].pc = "cancel"
  /\ ended' = ended \cup {closing[c].entry}
  /\ closing' = [closing EXCEPT ![c].pc = "probe"]
  /\ UNCHANGED <<setup, held, made, session, chan, goroutines, starting, registry,
                 shutting, disconnect, last, crashed>>

\* mutant: the provider's session is not closed
CloseDisconnectsNot(c) ==
  /\ closing[c].pc = "probe"
  /\ closing' = [closing EXCEPT ![c].pc = "shut"]
  /\ UNCHANGED <<setup, held, made, session, chan, goroutines, starting, ended,
                 registry, shutting, disconnect, last, crashed>>

CloseDisconnects(c) ==     \* Router.DisconnectRealtimeSession
  /\ closing[c].pc = "probe"
  /\ Take(c)
  /\ closing' = [closing EXCEPT ![c].pc = "shut"]
  /\ UNCHANGED <<setup, made, session, chan, goroutines, starting, ended, registry,
                 disconnect, last, crashed>>

CloseReturns(c) ==
  /\ closing[c].pc = "shut" /\ shutting[c] = Resting
  /\ closing' = [closing EXCEPT ![c].pc = "over"]
  /\ UNCHANGED <<setup, held, made, session, chan, goroutines, starting, ended,
                 registry, shutting, disconnect, last, crashed>>

-----------------------------------------------------------------------------
(***************************************************************************)
(* Router.DisconnectUser: the cascade's closeUser, then each provider's.   *)
(* Mistral's leaves its voice sessions alone.                              *)
(***************************************************************************)
DisconnectUser ==
  /\ disconnect = "idle"
  /\ setup.racing \/ \A k \in Starts : ~StartUnderWay(k)
  /\ disconnect' = "shut"
  /\ IF Is("mistral") THEN UNCHANGED <<held, shutting>> ELSE Take(Disconnecter)
  /\ UNCHANGED <<setup, made, session, chan, goroutines, starting, ended,
                 registry, closing, last, crashed>>

DisconnectReturns ==
  /\ disconnect = "shut" /\ shutting[Disconnecter] = Resting
  /\ disconnect' = "over"
  /\ UNCHANGED <<setup, held, made, session, chan, goroutines, starting, ended,
                 registry, closing, shutting, last, crashed>>

-----------------------------------------------------------------------------
(***************************************************************************)
(* The provider's reader.  publishEvent holds eventSubsMu for reading, so  *)
(* it meets the subscribers of one moment.  pumpFromOpenAI and             *)
(* pumpFromGoogle end by a deferred publish and, after it, a cancel; the   *)
(* STT goroutines of the other two publish an error only if the context is *)
(* alive, and cancel nothing.  Mistral's says nothing when the service     *)
(* closes the stream normally.                                             *)
(***************************************************************************)
Published(s) ==
  /\ chan' = [h \in Chans |->
                IF h \in session[s].subs /\ ~session[s].closed
                THEN [chan[h] EXCEPT !.error = TRUE] ELSE chan[h]]
  /\ crashed' = IF \E h \in session[s].subs : chan[h].state = "closed"
                THEN "publish" ELSE crashed

PumpEnds(s) ==             \* the upstream fails or closes, or the context is done
  /\ Native /\ session[s].pump = "reads"
  /\ Published(s)
  /\ session' = [session EXCEPT ![s].pump = "published"]
  /\ UNCHANGED <<setup, held, made, goroutines, starting, ended, registry,
                 closing, shutting, disconnect, last>>

PumpCancels(s) ==
  /\ session[s].pump = "published"
  /\ session' = [session EXCEPT ![s].pump = "over", ![s].ctx = "done"]
  /\ UNCHANGED <<setup, held, made, chan, goroutines, starting, ended, registry,
                 closing, shutting, disconnect, last, crashed>>

SttEnds(s) ==
  /\ ~Native /\ session[s].pump = "reads"
  /\ \/ session[s].ctx = "live" /\ Published(s)
     \/ (session[s].ctx = "done" \/ Is("mistral")) /\ UNCHANGED <<chan, crashed>>
  /\ session' = [session EXCEPT ![s].pump = "over"]
  /\ UNCHANGED <<setup, held, made, goroutines, starting, ended, registry,
                 closing, shutting, disconnect, last>>

GuardSends(h) ==           \* a send on a closed channel panics
  /\ h \in guards
  /\ guards' = guards \ {h}
  /\ IF chan[h].state = "closed"
     THEN crashed' = "guard" /\ UNCHANGED chan
     ELSE chan' = [chan EXCEPT ![h].error = TRUE] /\ UNCHANGED crashed
  /\ UNCHANGED <<setup, held, made, session, starting, bridge, closer, told,
                 ended, registry, closing, shutting, disconnect, last>>

-----------------------------------------------------------------------------
Calls(k) == \/ StartSession(k) \/ Fails(k) \/ NativeStores(k) \/ MistralStores(k)
            \/ CascadeStores(k) \/ CascadeFindsOld(k) \/ CascadeReplaces(k)
            \/ MistralAttaches(k) \/ GetChannels(k) \/ FindSession(k)
            \/ RefusesClosed(k) \/ AddSubscriber(k) \/ RaceGuard(k) \/ ForkBridge(k)
            \/ RegisterSession(k) \/ RolledBack(k)
Bridges(k) == BridgeForwards(k) \/ BridgeEnds(k) \/ ClosesEntry(k) \/ ClosesErrCh(k)
Closing(c) == \/ CloseSession(c) \/ CloseUnsubscribes(c) \/ CloseCancels(c)
              \/ CloseDisconnects(c) \/ CloseReturns(c)
Shuts(c) == CloseChannels(c) \/ CancelUpstream(c)
Pumps(s) == PumpEnds(s) \/ PumpCancels(s) \/ SttEnds(s)

Up == crashed = "no"

Next ==
  /\ Up                    \* a panic ends the process
  /\ \/ \E k \in Starts : Calls(k) \/ Bridges(k)
     \/ \E c \in Closes : Closing(c)
     \/ \E c \in Caller : Shuts(c)
     \/ DisconnectUser \/ DisconnectReturns
     \/ \E s \in Sessions : Pumps(s)
     \/ \E h \in Chans : GuardSends(h)

Spec == Init /\ [][Next]_vars

(***************************************************************************)
(* Every goroutine goes on.  Nobody is obliged to call, and the upstream   *)
(* of a live session need not fail.                                        *)
(***************************************************************************)
Fairness ==
  /\ \A k \in Starts : /\ WF_vars(Up /\ starting[k].pc # "idle" /\ Calls(k))
                       /\ WF_vars(Up /\ Bridges(k))
  /\ \A c \in Closes : WF_vars(Up /\ closing[c].pc # "idle" /\ Closing(c))
  /\ \A c \in Caller : WF_vars(Up /\ Shuts(c))
  /\ WF_vars(Up /\ DisconnectReturns)
  /\ \A s \in Sessions : /\ WF_vars(Up /\ session[s].ctx = "done" /\ Pumps(s))
                         /\ WF_vars(Up /\ PumpCancels(s))
  /\ \A h \in Chans : WF_vars(Up /\ GuardSends(h))

FairSpec == Spec /\ Fairness

-----------------------------------------------------------------------------
(***************************************************************************)
(* No channel of a subscriber is closed twice, and nothing is published    *)
(* into a closed one, whatever unsubscribes, shuts and publishes at the    *)
(* same time: removal, close and send are under eventSubsMu.  The one send *)
(* outside it, Google's race guard, does panic when the session is shut    *)
(* before its goroutine runs.                                              *)
(***************************************************************************)
OnlyGuardPanics == crashed \in {"no", "guard"}

(***************************************************************************)
(* A connection (or STT stream) of the provider that is not yet cancelled  *)
(* belongs to the session held for the respId, to a call that is to store  *)
(* or shut it, or to a reader that is about to cancel it: a voice session  *)
(* that nobody can close any more does not go on.  Overlapping calls break *)
(* it for OpenAI and Google, and for the cascade when there are three.     *)
(***************************************************************************)
UpstreamIsHeld ==
  \A s \in 1 .. made :
    session[s].ctx = "live" =>
      \/ s = held
      \/ \E c \in Caller : shutting[c].of = s
      \/ \E k \in Starts : starting[k].pc = "old" /\ starting[k].of = s
      \/ session[s].pump = "published"

(***************************************************************************)
(* Once its errCh is closed and the call has returned, a session is not in *)
(* the registry of Start any more ("the entry must be removed after a      *)
(* provider-initiated close").  With overlapping calls, or a DisconnectUser*)
(* inside the call, it may be: the closer can run before registerSession.  *)
(***************************************************************************)
EndedLeavesRegistry ==
  ~setup.concurrent /\ ~setup.racing =>
    \A k \in Starts : starting[k].pc = "served" /\ closer[k] = "over" => registry # k

(***************************************************************************)
(* A session that ended is nobody's any more: no connection goes on, no    *)
(* entry stays.                                                            *)
(***************************************************************************)
NothingLeftBehind == UpstreamIsHeld /\ EndedLeavesRegistry

(***************************************************************************)
(* After the transport's CloseSession every call's bridge ends and its     *)
(* errCh is closed, unless it starts another session: the goroutine that   *)
(* ranges over errCh is released.                                          *)
(***************************************************************************)
CloseEnds ==
  (last = "close" /\ crashed = "no") ~>
     \/ last = "start" \/ crashed # "no"
     \/ \A k \in Starts : starting[k].pc = "served" => closer[k] = "over"
=============================================================================
