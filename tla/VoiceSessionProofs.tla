-------------------------- MODULE VoiceSessionProofs --------------------------
(***************************************************************************)
(* What TLAPS proves of voice sessions: of the life of the sessions of a   *)
(* respId (RealtimeSession), for any number of calls, whether they overlap *)
(* or not, and whatever DisconnectUser falls into; and of the responses of *)
(* one OpenAI session (OpenAIResponse), for any number of responses,       *)
(* events and callbacks of the watchdog: a response the pump has seen      *)
(* begin is watched until it ends. At the end both in the specification    *)
(* MCVoiceSession composes.                                                *)
(***************************************************************************)
EXTENDS MCVoiceSession, SequenceTheorems, TLAPS

\* The call has not come to its subscriptions.
Early == {"idle", "dial", "old", "attach", "channels"}

\* The i-th subscription of the call k is yet to be made.
Unmade(k, i) ==
  \/ starting[k].pc \in Early
  \/ i > starting[k].sub
  \/ i = starting[k].sub /\ starting[k].pc \in {"find", "add"}

(***************************************************************************)
(* The invariant: a channel that some session lists is open and listed by  *)
(* no other, so whoever removes or shuts it under the lock is the first to *)
(* close it; and it is in no list before its SubscribeEvents.              *)
(***************************************************************************)
SubsOpen == \A s \in Sessions : \A h \in session[s].subs : chan[h].state = "open"
SubsDisjoint == \A s, t \in Sessions : s # t => session[s].subs \cap session[t].subs = {}
EarlyFirst == \A k \in Starts : starting[k].pc \in Early => starting[k].sub = 1
UnmadeFree == \A k \in Starts, i \in 1 .. 2, s \in Sessions :
                Unmade(k, i) => Chan(k, i) \notin session[s].subs
ShutsOne == \A c \in Caller : shutting[c].step # "none" => shutting[c].of \in Sessions
ListsInv == SubsOpen /\ SubsDisjoint /\ EarlyFirst /\ UnmadeFree /\ ShutsOne

LEMMA ChanInRange ==
  ASSUME NEW k \in Starts, NEW i \in 1 .. 2 PROVE Chan(k, i) \in Chans
BY RealtimeAssumption DEF Chan, Chans, Starts

LEMMA ChanInjective ==
  ASSUME NEW k \in Starts, NEW i \in 1 .. 2, NEW l \in Starts, NEW j \in 1 .. 2,
         Chan(k, i) = Chan(l, j)
  PROVE  k = l /\ i = j
BY RealtimeAssumption DEF Chan, Starts

LEMMA Callers == Starts \subseteq Caller /\ Closes \subseteq Caller /\ Disconnecter \in Caller
BY DEF Caller

LEMMA HeldInRange == TypeOK => held \in 0 .. MaxStarts
BY RealtimeAssumption DEF TypeOK

\* What the shared parts of the actions leave typed.
LEMMA TakeTypes ==
  ASSUME TypeOK, NEW c \in Caller, Take(c)
  PROVE  held' \in 0 .. MaxStarts /\ shutting' \in [Caller -> ShutState]
BY HeldInRange, RealtimeAssumption DEF TypeOK, Take, ShutState

LEMMA UnsubscribedTypes ==
  ASSUME TypeOK, NEW h, Unsubscribed(h)
  PROVE  /\ session' \in [Sessions -> SessionState]
         /\ chan' \in [Chans -> ChanState]
         /\ crashed' \in {"no", "publish", "close", "guard"}
<1>1. session' \in [Sessions -> SessionState]
  BY DEF TypeOK, Unsubscribed, SessionState
<1>2. chan' \in [Chans -> ChanState]
  BY DEF TypeOK, Unsubscribed, ChanState
<1>3. QED
  BY <1>1, <1>2 DEF TypeOK, Unsubscribed

LEMMA GotoTypes ==
  ASSUME TypeOK, NEW k \in Starts, NEW pc \in StartPc, Goto(k, pc)
  PROVE  starting' \in [Starts -> StartState]
BY DEF TypeOK, Goto, StartState

LEMMA RefusedTypes ==
  ASSUME TypeOK, NEW k \in Starts, Refused(k)
  PROVE  /\ session' \in [Sessions -> SessionState]
         /\ chan' \in [Chans -> ChanState]
         /\ crashed' \in {"no", "publish", "close", "guard"}
         /\ starting' \in [Starts -> StartState]
         /\ held' \in 0 .. MaxStarts
         /\ shutting' \in [Caller -> ShutState]
<1>1. starting' \in [Starts -> StartState]
  BY GotoTypes DEF Refused, RollsBack, StartPc
<1>2. held' \in 0 .. MaxStarts /\ shutting' \in [Caller -> ShutState]
  BY TakeTypes, Callers DEF Refused, RollsBack
<1>3. /\ session' \in [Sessions -> SessionState]
      /\ chan' \in [Chans -> ChanState]
      /\ crashed' \in {"no", "publish", "close", "guard"}
  BY UnsubscribedTypes DEF Refused, TypeOK
<1>4. QED
  BY <1>1, <1>2, <1>3

LEMMA NextSubTypes ==
  ASSUME TypeOK, NEW k \in Starts PROVE NextSub(k) \in StartState
<1>1. /\ starting[k] \in [pc : StartPc, of : 0 .. MaxStarts, sub : 1 .. 2]
      /\ "find" \in StartPc /\ "fork" \in StartPc
  BY DEF TypeOK, StartState, StartPc
<1>2. CASE starting[k].sub = 1
  <2>1. NextSub(k) = [pc |-> "find", of |-> starting[k].of, sub |-> 2]
    BY <1>1, <1>2 DEF NextSub
  <2>2. QED
    BY <1>1, <2>1 DEF StartState
<1>3. CASE starting[k].sub # 1
  BY <1>1, <1>3 DEF NextSub, StartState
<1>4. QED
  BY <1>2, <1>3

LEMMA InitTypes == Init => TypeOK
<1> SUFFICES ASSUME Init PROVE TypeOK
  OBVIOUS
<1>1. session \in [Sessions -> SessionState] /\ chan \in [Chans -> ChanState]
  BY DEF Init, SessionState, ChanState
<1>2. starting \in [Starts -> StartState] /\ closing \in [Closes -> CloseState]
  BY RealtimeAssumption DEF Init, StartState, StartPc, CloseState, ClosePc
<1>3. shutting \in [Caller -> ShutState]
  BY RealtimeAssumption DEF Init, Resting, ShutState
<1>4. QED
  BY <1>1, <1>2, <1>3, RealtimeAssumption DEF Init, TypeOK

LEMMA CallTypes ==
  ASSUME TypeOK, NEW k \in Starts, Calls(k) PROVE TypeOK'
<1>0. k \in 0 .. MaxStarts /\ k \in Caller
  BY RealtimeAssumption, Callers DEF Starts
<1>1. CASE StartSession(k) \/ Fails(k)
  <2>1. starting' \in [Starts -> StartState]
    BY <1>1, GotoTypes DEF StartSession, Fails, StartPc
  <2>2. QED
    BY <1>1, <2>1 DEF TypeOK, StartSession, Fails, goroutines
<1>2. CASE NativeStores(k) \/ CascadeStores(k)
  <2>1. starting' \in [Starts -> StartState]
    BY <1>2, GotoTypes DEF NativeStores, CascadeStores, StartPc
  <2>2. session' \in [Sessions -> SessionState]
    <3>1. session' = [session EXCEPT ![made + 1].pump = "reads"]
      BY <1>2 DEF NativeStores, CascadeStores
    <3>2. session \in [Sessions -> SessionState]
      BY DEF TypeOK
    <3>3. QED
      BY <3>1, <3>2 DEF SessionState
  <2>3. made' \in 0 .. MaxStarts /\ held' \in 0 .. MaxStarts
    BY <1>2, RealtimeAssumption DEF TypeOK, NativeStores, CascadeStores, Making
  <2>4. QED
    BY <1>2, <2>1, <2>2, <2>3
    DEF TypeOK, NativeStores, CascadeStores, Making, goroutines
<1>3. CASE MistralStores(k)
  <2>1. made' \in 0 .. MaxStarts /\ held' \in 0 .. MaxStarts
    BY <1>3, RealtimeAssumption DEF TypeOK, MistralStores, Making
  <2>2. starting' \in [Starts -> StartState]
    <3>1. starting \in [Starts -> [pc : StartPc, of : 0 .. MaxStarts, sub : 1 .. 2]]
      BY DEF TypeOK, StartState
    <3>2. starting' = [starting EXCEPT ![k].pc = "attach", ![k].of = held']
      BY <1>3 DEF MistralStores
    <3>3. "attach" \in StartPc
      BY DEF StartPc
    <3>4. QED
      BY <2>1, <3>1, <3>2, <3>3 DEF StartState
  <2>3. session' \in [Sessions -> SessionState]
    <3>1. PICK t \in {"live", "done"}, b \in BOOLEAN :
            session' = [session EXCEPT ![made + 1].ctx = t, ![made + 1].closed = b]
      BY <1>3 DEF MistralStores
    <3>2. session \in [Sessions -> SessionState]
      BY DEF TypeOK
    <3>3. QED
      BY <3>1, <3>2 DEF SessionState
  <2>4. QED
    BY <1>3, <2>1, <2>2, <2>3 DEF TypeOK, MistralStores, Making, goroutines
<1>4. CASE CascadeFindsOld(k)
  <2>1. /\ made' \in 0 .. MaxStarts /\ made + 1 \in 0 .. MaxStarts
        /\ held \in 0 .. MaxStarts
    BY <1>4, RealtimeAssumption DEF TypeOK, CascadeFindsOld, Making
  <2>2. starting' \in [Starts -> StartState]
    BY <1>4, <2>1 DEF TypeOK, CascadeFindsOld, StartState, StartPc
  <2>3. shutting' \in [Caller -> ShutState]
    BY <1>0, <1>4, <2>1 DEF TypeOK, CascadeFindsOld, ShutState
  <2>4. QED
    BY <1>4, <2>1, <2>2, <2>3 DEF TypeOK, CascadeFindsOld, Making, goroutines
<1>5. CASE CascadeReplaces(k)
  <2>1. starting' \in [Starts -> StartState]
    BY <1>5, GotoTypes DEF CascadeReplaces, StartPc
  <2>2. session' \in [Sessions -> SessionState]
    BY <1>5 DEF TypeOK, CascadeReplaces, SessionState
  <2>3. held' \in 0 .. MaxStarts
    BY <1>5 DEF CascadeReplaces, TypeOK, StartState
  <2>4. QED
    BY <1>5, <2>1, <2>2, <2>3 DEF TypeOK, CascadeReplaces, goroutines
<1>6. CASE MistralAttaches(k)
  <2>1. starting' \in [Starts -> StartState]
    BY <1>6, GotoTypes DEF MistralAttaches, StartPc
  <2>2. session' \in [Sessions -> SessionState]
    BY <1>6 DEF TypeOK, MistralAttaches, SessionState
  <2>3. held' \in 0 .. MaxStarts /\ shutting' \in [Caller -> ShutState]
    BY <1>0, <1>6, TakeTypes DEF MistralAttaches, TypeOK
  <2>4. QED
    BY <1>6, <2>1, <2>2, <2>3 DEF TypeOK, MistralAttaches, goroutines
<1>7. CASE GetChannels(k)
  <2>1. starting' \in [Starts -> StartState]
    BY <1>7, GotoTypes DEF GetChannels, RollsBack, StartPc
  <2>2. held' \in 0 .. MaxStarts /\ shutting' \in [Caller -> ShutState]
    BY <1>0, <1>7, TakeTypes DEF GetChannels, RollsBack, TypeOK
  <2>3. QED
    BY <1>7, <2>1, <2>2 DEF TypeOK, GetChannels, goroutines
<1>8. CASE FindSession(k)
  <2>1. CASE Refused(k)
    BY <1>8, <2>1, RefusedTypes DEF TypeOK, FindSession, goroutines
  <2>2. CASE ~Refused(k)
    <3>1. starting' \in [Starts -> StartState]
      BY <1>8, <2>2, HeldInRange DEF TypeOK, FindSession, StartState, StartPc
    <3>2. QED
      BY <1>8, <2>2, <3>1 DEF TypeOK, FindSession, goroutines
  <2>3. QED
    BY <2>1, <2>2
<1>9. CASE RefusesClosed(k)
  BY <1>9, RefusedTypes DEF TypeOK, RefusesClosed, goroutines
<1>10. CASE AddSubscriber(k)
  <2>1. Chan(k, starting[k].sub) \in Chans
    BY ChanInRange DEF TypeOK, StartState
  <2>2. session' \in [Sessions -> SessionState]
    BY <1>10, <2>1 DEF TypeOK, AddSubscriber, SessionState
  <2>3. chan' \in [Chans -> ChanState]
    BY <1>10, <2>1 DEF TypeOK, AddSubscriber, ChanState
  <2>4. starting' \in [Starts -> StartState]
    BY <1>10, NextSubTypes DEF TypeOK, AddSubscriber, StartState, StartPc
  <2>5. QED
    BY <1>10, <2>2, <2>3, <2>4 DEF TypeOK, AddSubscriber, goroutines
<1>11. CASE RaceGuard(k)
  <2>1. Chan(k, starting[k].sub) \in Chans
    BY ChanInRange DEF TypeOK, StartState
  <2>2. starting' \in [Starts -> StartState]
    BY <1>11, NextSubTypes DEF TypeOK, RaceGuard
  <2>3. QED
    BY <1>11, <2>1, <2>2 DEF TypeOK, RaceGuard
<1>12. CASE ForkBridge(k) \/ RegisterSession(k) \/ RolledBack(k)
  <2>1. starting' \in [Starts -> StartState]
    BY <1>12, GotoTypes DEF ForkBridge, RegisterSession, RolledBack, StartPc
  <2>2. QED
    BY <1>0, <1>12, <2>1 DEF TypeOK, ForkBridge, RegisterSession, RolledBack, goroutines
<1>13. QED
  BY <1>1, <1>2, <1>3, <1>4, <1>5, <1>6, <1>7, <1>8, <1>9, <1>10, <1>11, <1>12
  DEF Calls

LEMMA ClosingTypes ==
  ASSUME TypeOK, NEW c \in Closes, Closing(c) PROVE TypeOK'
<1>0. c \in Caller
  BY Callers
<1>1. closing' \in [Closes -> CloseState]
  BY DEF TypeOK, Closing, CloseSession, CloseUnsubscribes, CloseCancels,
         CloseDisconnects, CloseReturns, CloseState, ClosePc
<1>2. CASE CloseSession(c)
  BY <1>1, <1>2, RealtimeAssumption DEF TypeOK, CloseSession, goroutines
<1>3. CASE CloseUnsubscribes(c)
  BY <1>1, <1>3, UnsubscribedTypes DEF TypeOK, CloseUnsubscribes, goroutines
<1>4. CASE CloseCancels(c)
  <2>1. closing[c].entry \in 0 .. MaxStarts
    BY DEF TypeOK, CloseState
  <2>2. QED
    BY <1>1, <1>4, <2>1 DEF TypeOK, CloseCancels, goroutines
<1>5. CASE CloseDisconnects(c)
  BY <1>0, <1>1, <1>5, TakeTypes DEF TypeOK, CloseDisconnects, goroutines
<1>6. CASE CloseReturns(c)
  BY <1>1, <1>6 DEF TypeOK, CloseReturns, goroutines
<1>7. QED
  BY <1>2, <1>3, <1>4, <1>5, <1>6 DEF Closing

LEMMA ShutTypes ==
  ASSUME TypeOK, NEW c \in Caller, Shuts(c) PROVE TypeOK'
<1>1. shutting' \in [Caller -> ShutState]
  BY RealtimeAssumption DEF TypeOK, Shuts, CloseChannels, CancelUpstream, ShutState, Resting
<1>2. session' \in [Sessions -> SessionState]
  BY DEF TypeOK, Shuts, CloseChannels, CancelUpstream, SessionState
<1>3. chan' \in [Chans -> ChanState]
  BY DEF TypeOK, Shuts, CloseChannels, CancelUpstream, ChanState
<1>4. QED
  BY <1>1, <1>2, <1>3 DEF TypeOK, Shuts, CloseChannels, CancelUpstream, goroutines

LEMMA PumpTypes ==
  ASSUME TypeOK, NEW s \in Sessions, Pumps(s) PROVE TypeOK'
<1>1. session' \in [Sessions -> SessionState]
  <2>1. session \in [Sessions -> SessionState]
    BY DEF TypeOK
  <2>2. CASE PumpEnds(s)
    BY <2>1, <2>2 DEF PumpEnds, SessionState
  <2>3. CASE PumpCancels(s)
    BY <2>1, <2>3 DEF PumpCancels, SessionState
  <2>4. CASE SttEnds(s)
    BY <2>1, <2>4 DEF SttEnds, SessionState
  <2>5. QED
    BY <2>2, <2>3, <2>4 DEF Pumps
<1>2. chan' \in [Chans -> ChanState]
  <2>1. CASE Published(s)
    BY <2>1 DEF TypeOK, Published, ChanState
  <2>2. CASE UNCHANGED chan
    BY <2>2 DEF TypeOK
  <2>3. QED
    BY <2>1, <2>2 DEF Pumps, PumpEnds, PumpCancels, SttEnds
<1>3. QED
  BY <1>1, <1>2 DEF TypeOK, Pumps, PumpEnds, PumpCancels, SttEnds, Published, goroutines

LEMMA BridgeTypes ==
  ASSUME TypeOK, NEW k \in Starts, Bridges(k) PROVE TypeOK'
<1>1. chan' \in [Chans -> ChanState]
  BY DEF TypeOK, Bridges, BridgeForwards, BridgeEnds, ClosesEntry, ClosesErrCh, ChanState
<1>2. QED
  BY <1>1, RealtimeAssumption
  DEF TypeOK, Bridges, BridgeForwards, BridgeEnds, ClosesEntry, ClosesErrCh

\* The types hold in every reachable state, whatever the setup.
THEOREM RealtimeTypeCorrect == Spec => []TypeOK
<1>1. TypeOK /\ [Next]_vars => TypeOK'
  <2> SUFFICES ASSUME TypeOK, [Next]_vars PROVE TypeOK'
    OBVIOUS
  <2>1. CASE DisconnectUser \/ DisconnectReturns
    BY <2>1, TakeTypes, Callers DEF TypeOK, DisconnectUser, DisconnectReturns, goroutines
  <2>2. ASSUME NEW h \in Chans, GuardSends(h) PROVE TypeOK'
    <3>1. chan' \in [Chans -> ChanState]
      <4>1. UNCHANGED chan \/ chan' = [chan EXCEPT ![h].error = TRUE]
        BY <2>2 DEF GuardSends
      <4>2. chan \in [Chans -> ChanState]
        BY DEF TypeOK
      <4>3. QED
        BY <4>1, <4>2 DEF ChanState
    <3>2. QED
      BY <2>2, <3>1 DEF TypeOK, GuardSends
  <2>3. CASE UNCHANGED vars
    BY <2>3 DEF TypeOK, vars
  <2>4. QED
    BY <2>1, <2>2, <2>3, CallTypes, BridgeTypes, ClosingTypes, ShutTypes, PumpTypes
    DEF Next
<1>2. QED
  BY <1>1, InitTypes, PTL DEF Spec

-----------------------------------------------------------------------------
\* A step that adds no subscriber, leaves the channels that stay listed as they
\* are and takes back no subscription, keeps the lists.
LEMMA Shrinking ==
  ASSUME ListsInv, EarlyFirst', ShutsOne',
         \A s \in Sessions : session'[s].subs \subseteq session[s].subs,
         \A s \in Sessions : \A h \in session'[s].subs : chan'[h].state = chan[h].state,
         \A k \in Starts, i \in 1 .. 2 : Unmade(k, i)' => Unmade(k, i)
  PROVE  ListsInv'
<1>1. SubsOpen'
  BY DEF ListsInv, SubsOpen
<1>2. SubsDisjoint'
  BY DEF ListsInv, SubsDisjoint
<1>3. UnmadeFree'
  BY DEF ListsInv, UnmadeFree, Chan
<1>4. QED
  BY <1>1, <1>2, <1>3 DEF ListsInv

\* How a call goes on without making a subscription.
LEMMA Moving ==
  ASSUME TypeOK, ListsInv, NEW k \in Starts,
         \A l \in Starts : l # k => starting'[l] = starting[l],
         starting'[k].sub = starting[k].sub,
         starting'[k].pc \in Early => starting[k].pc \in Early,
         \/ starting[k].pc \in Early
         \/ starting[k].pc = "find"
         \/ starting'[k].pc \notin Early \cup {"find", "add"}
  PROVE  EarlyFirst' /\ \A l \in Starts, i \in 1 .. 2 : Unmade(l, i)' => Unmade(l, i)
<1>1. starting[k].sub \in 1 .. 2
  BY DEF TypeOK, StartState
<1>2. EarlyFirst'
  BY DEF ListsInv, EarlyFirst
<1>3. ASSUME NEW l \in Starts, NEW i \in 1 .. 2, Unmade(l, i)' PROVE Unmade(l, i)
  <2>1. CASE l # k
    BY <1>3, <2>1 DEF Unmade
  <2>2. CASE l = k /\ starting[k].pc \notin Early
    BY <1>1, <1>3, <2>2 DEF Unmade
  <2>3. CASE l = k /\ starting[k].pc \in Early
    BY <2>3 DEF Unmade
  <2>4. QED
    BY <2>1, <2>2, <2>3
<1>4. QED
  BY <1>2, <1>3

LEMMA Standing ==
  ASSUME ListsInv, UNCHANGED starting
  PROVE  EarlyFirst' /\ \A l \in Starts, i \in 1 .. 2 : Unmade(l, i)' => Unmade(l, i)
BY DEF ListsInv, EarlyFirst, Unmade

LEMMA Going ==
  ASSUME TypeOK, NEW k \in Starts, NEW pc, Goto(k, pc)
  PROVE  /\ \A l \in Starts : l # k => starting'[l] = starting[l]
         /\ starting'[k].sub = starting[k].sub /\ starting'[k].pc = pc
BY DEF TypeOK, StartState, Goto

LEMMA Taking ==
  ASSUME TypeOK, ListsInv, NEW c \in Caller, Take(c)
  PROVE  ShutsOne'
<1>1. CASE held = 0
  BY <1>1 DEF Take, ListsInv, ShutsOne
<1>2. CASE held # 0
  <2>1. held \in Sessions
    BY <1>2, RealtimeAssumption DEF TypeOK, Sessions
  <2>2. QED
    BY <1>2, <2>1 DEF Take, TypeOK, ListsInv, ShutsOne
<1>3. QED
  BY <1>1, <1>2

\* UnsubscribeEvents closes an open channel of one session's list.
LEMMA Unsubscribing ==
  ASSUME TypeOK, ListsInv, NEW h, Unsubscribed(h)
  PROVE  /\ \A s \in Sessions : session'[s].subs \subseteq session[s].subs
         /\ \A s \in Sessions : \A g \in session'[s].subs : chan'[g].state = chan[g].state
         /\ crashed' = crashed
<1>1. CASE held # 0 /\ h \in session[held].subs
  <2>1. held \in Sessions
    BY <1>1, RealtimeAssumption DEF TypeOK, Sessions
  <2>2. chan[h].state = "open" /\ \A s \in Sessions : s # held => h \notin session[s].subs
    BY <1>1, <2>1 DEF ListsInv, SubsOpen, SubsDisjoint
  <2>3. /\ session' = [session EXCEPT ![held].subs = @ \ {h}]
        /\ chan' = [chan EXCEPT ![h].state = "closed"]
        /\ crashed' = crashed
    BY <1>1, <2>2 DEF Unsubscribed
  <2>4. session \in [Sessions -> SessionState]
    BY DEF TypeOK
  <2>5. /\ session'[held].subs = session[held].subs \ {h}
        /\ \A s \in Sessions : s # held => session'[s] = session[s]
    BY <2>1, <2>3, <2>4 DEF SessionState
  <2>6. ASSUME NEW g \in Chans, g # h PROVE chan'[g] = chan[g]
    BY <2>3, <2>6 DEF TypeOK
  <2>7. \A s \in Sessions : session[s].subs \subseteq Chans
    BY <2>4 DEF SessionState
  <2>8. QED
    BY <2>2, <2>3, <2>5, <2>6, <2>7
<1>2. CASE ~(held # 0 /\ h \in session[held].subs)
  BY <1>2 DEF Unsubscribed
<1>3. QED
  BY <1>1, <1>2

\* After a subscription the call turns to the next or to its bridge.
LEMMA Nexting ==
  ASSUME TypeOK, ListsInv, NEW k \in Starts, starting[k].pc \in {"add", "check"},
         \/ starting' = [starting EXCEPT ![k] = NextSub(k)]
         \/ starting' = [starting EXCEPT ![k] = [@ EXCEPT !.pc = "check"]]
  PROVE  /\ EarlyFirst' /\ \A l \in Starts, i \in 1 .. 2 : Unmade(l, i)' => Unmade(l, i)
         /\ \A i \in 1 .. 2 : i = starting[k].sub => ~Unmade(k, i)'
<1>1. /\ starting[k].sub \in 1 .. 2 /\ starting[k].pc \notin Early
      /\ \A l \in Starts : l # k => starting'[l] = starting[l]
  BY DEF TypeOK, StartState, Early
<1>2. \/ starting[k].sub = 1 /\ starting'[k].pc = "find" /\ starting'[k].sub = 2
      \/ starting'[k].pc \in {"fork", "check"} /\ starting'[k].sub = starting[k].sub
  <2>1. /\ starting'[k] \in {NextSub(k), [starting[k] EXCEPT !.pc = "check"]}
        /\ starting[k] \in [pc : StartPc, of : 0 .. MaxStarts, sub : 1 .. 2]
    BY DEF TypeOK, StartState
  <2>2. CASE starting'[k] = [starting[k] EXCEPT !.pc = "check"]
    BY <2>1, <2>2
  <2>3. CASE starting'[k] = NextSub(k) /\ starting[k].sub = 1
    BY <2>1, <2>3 DEF NextSub
  <2>4. CASE starting'[k] = NextSub(k) /\ starting[k].sub # 1
    BY <2>1, <2>4 DEF NextSub
  <2>5. QED
    BY <2>1, <2>2, <2>3, <2>4
<1>3. EarlyFirst'
  BY <1>1, <1>2 DEF ListsInv, EarlyFirst, Early
<1>4. ASSUME NEW l \in Starts, NEW i \in 1 .. 2, Unmade(l, i)' PROVE Unmade(l, i)
  <2>1. CASE l # k
    BY <1>1, <1>4, <2>1 DEF Unmade
  <2>2. CASE l = k
    BY <1>1, <1>2, <1>4, <2>2 DEF Unmade, Early
  <2>3. QED
    BY <2>1, <2>2
<1>5. \A i \in 1 .. 2 : i = starting[k].sub => ~Unmade(k, i)'
  BY <1>1, <1>2 DEF Unmade, Early
<1>6. QED
  BY <1>3, <1>4, <1>5

\* SubscribeEvents lists a channel that no session lists yet.
LEMMA AddLists ==
  ASSUME TypeOK, ListsInv, NEW k \in Starts, AddSubscriber(k)
  PROVE  ListsInv'
<1>0. PICK i \in 1 .. 2 : i = starting[k].sub
  BY DEF TypeOK, StartState
<1> DEFINE h == Chan(k, i)
           s == starting[k].of
<1>1. starting[k].pc = "add" /\ h \in Chans
  BY ChanInRange DEF AddSubscriber
<1>2. /\ EarlyFirst' /\ \A l \in Starts, j \in 1 .. 2 : Unmade(l, j)' => Unmade(l, j)
      /\ ~Unmade(k, i)'
  BY <1>0, Nexting DEF AddSubscriber
<1>3. \A t \in Sessions : h \notin session[t].subs
  BY <1>0, <1>1 DEF ListsInv, UnmadeFree, Unmade
<1>4. \A t \in Sessions : session'[t].subs = IF t = s THEN session[t].subs \cup {h}
                                                     ELSE session[t].subs
  <2>1. session' = [session EXCEPT ![s].subs = @ \cup {h}]
    BY <1>0 DEF AddSubscriber
  <2>2. session \in [Sessions -> SessionState]
    BY DEF TypeOK
  <2>3. QED
    BY <2>1, <2>2 DEF SessionState
<1>5. chan'[h].state = "open" /\ \A g \in Chans : g # h => chan'[g] = chan[g]
  BY <1>0, <1>1 DEF AddSubscriber, TypeOK, ChanState
<1>6. \A t \in Sessions : session[t].subs \subseteq Chans
  BY DEF TypeOK, SessionState
<1>7. SubsOpen'
  <2> SUFFICES ASSUME NEW t \in Sessions, NEW g \in session'[t].subs
               PROVE  chan'[g].state = "open"
    BY DEF SubsOpen
  <2>1. g = h \/ g \in session[t].subs
    BY <1>4
  <2>2. CASE g = h
    BY <1>5, <2>2
  <2>3. CASE g # h
    BY <1>5, <1>6, <2>1, <2>3 DEF ListsInv, SubsOpen
  <2>4. QED
    BY <2>2, <2>3
<1>8. SubsDisjoint'
  BY <1>3, <1>4 DEF ListsInv, SubsDisjoint
<1>9. UnmadeFree'
  <2> SUFFICES ASSUME NEW l \in Starts, NEW j \in 1 .. 2, NEW t \in Sessions,
                      Unmade(l, j)'
               PROVE  Chan(l, j) \notin session'[t].subs
    BY DEF UnmadeFree, Chan
  <2>1. Chan(l, j) \notin session[t].subs
    BY <1>2 DEF ListsInv, UnmadeFree
  <2>2. Chan(l, j) # h
    BY <1>2, ChanInjective
  <2>3. QED
    BY <1>4, <2>1, <2>2
<1>10. ShutsOne'
  BY DEF AddSubscriber, ListsInv, ShutsOne
<1>11. QED
  BY <1>2, <1>7, <1>8, <1>9, <1>10 DEF ListsInv

\* A step that changes no list and no channel.
LEMMA Sparing ==
  ASSUME ListsInv, EarlyFirst', ShutsOne', UNCHANGED chan,
         \A s \in Sessions : session'[s].subs = session[s].subs,
         \A k \in Starts, i \in 1 .. 2 : Unmade(k, i)' => Unmade(k, i)
  PROVE  ListsInv'
BY Shrinking

LEMMA RefusedLists ==
  ASSUME TypeOK, ListsInv, NEW k \in Starts, Refused(k),
         starting[k].pc \in {"find", "add"}
  PROVE  ListsInv' /\ crashed' = crashed
<1>1. /\ \A s \in Sessions : session'[s].subs \subseteq session[s].subs
      /\ \A s \in Sessions : \A g \in session'[s].subs : chan'[g].state = chan[g].state
      /\ crashed' = crashed
  BY Unsubscribing DEF Refused
<1>2. EarlyFirst' /\ \A l \in Starts, i \in 1 .. 2 : Unmade(l, i)' => Unmade(l, i)
  <2>1. /\ \A l \in Starts : l # k => starting'[l] = starting[l]
        /\ starting'[k].sub = starting[k].sub /\ starting'[k].pc = "rollback"
    BY Going DEF Refused, RollsBack
  <2>2. QED
    BY <2>1, Moving DEF Early
<1>3. ShutsOne'
  BY Taking, Callers DEF Refused, RollsBack
<1>4. QED
  BY <1>1, <1>2, <1>3, Shrinking

LEMMA MakingLists ==
  ASSUME TypeOK, ListsInv, NEW k \in Starts,
         \/ NativeStores(k) \/ MistralStores(k) \/ CascadeStores(k)
         \/ CascadeFindsOld(k) \/ CascadeReplaces(k)
  PROVE  ListsInv' /\ crashed' = crashed
<1>1. chan' = chan /\ crashed' = crashed
  BY DEF NativeStores, MistralStores, CascadeStores, CascadeFindsOld,
         CascadeReplaces, Making
<1>2. \A s \in Sessions : session'[s].subs = session[s].subs
  <2>1. session \in [Sessions -> SessionState]
    BY DEF TypeOK
  <2>2. CASE MistralStores(k)
    <3>1. PICK t, b : session' = [session EXCEPT ![made + 1].ctx = t,
                                                 ![made + 1].closed = b]
      BY <2>2 DEF MistralStores
    <3>2. QED
      BY <2>1, <3>1 DEF SessionState
  <2>3. CASE NativeStores(k) \/ CascadeStores(k) \/ CascadeReplaces(k)
    <3>1. PICK at : session' = [session EXCEPT ![at].pump = "reads"]
      BY <2>3 DEF NativeStores, CascadeStores, CascadeReplaces
    <3>2. QED
      BY <2>1, <3>1 DEF SessionState
  <2>4. CASE CascadeFindsOld(k)
    BY <2>4 DEF CascadeFindsOld
  <2>5. QED
    BY <2>2, <2>3, <2>4
<1>3. EarlyFirst' /\ \A l \in Starts, i \in 1 .. 2 : Unmade(l, i)' => Unmade(l, i)
  <2>1. starting[k].pc \in Early
    BY DEF NativeStores, MistralStores, CascadeStores, CascadeFindsOld,
           CascadeReplaces, Making, Early
  <2>2. /\ \A l \in Starts : l # k => starting'[l] = starting[l]
        /\ starting'[k].sub = starting[k].sub
    <3>1. \/ Goto(k, "channels")
          \/ \E o, p : starting' = [starting EXCEPT ![k].pc = p, ![k].of = o]
      BY DEF NativeStores, MistralStores, CascadeStores, CascadeFindsOld, CascadeReplaces
    <3>2. starting \in [Starts -> StartState]
      BY DEF TypeOK
    <3>3. QED
      BY <3>1, <3>2, Going DEF StartState
  <2>3. QED
    BY <2>1, <2>2, Moving
<1>4. ShutsOne'
  <2>1. CASE CascadeFindsOld(k)
    <3>1. held \in Sessions
      BY <2>1, RealtimeAssumption DEF CascadeFindsOld, TypeOK, Sessions
    <3>2. QED
      BY <2>1, <3>1 DEF CascadeFindsOld, TypeOK, ListsInv, ShutsOne
  <2>2. CASE ~CascadeFindsOld(k)
    BY <2>2 DEF NativeStores, MistralStores, CascadeStores, CascadeReplaces,
                ListsInv, ShutsOne
  <2>3. QED
    BY <2>1, <2>2
<1>5. QED
  BY <1>1, <1>2, <1>3, <1>4, Sparing

LEMMA CallLists ==
  ASSUME TypeOK, ListsInv, NEW k \in Starts, Calls(k)
  PROVE  ListsInv' /\ crashed' = crashed
<1>0. k \in Caller
  BY Callers
<1>1. CASE StartSession(k) \/ Fails(k) \/ ForkBridge(k) \/ RegisterSession(k) \/ RolledBack(k)
  <2>1. UNCHANGED <<session, chan, shutting, crashed>>
    BY <1>1 DEF StartSession, Fails, ForkBridge, RegisterSession, RolledBack
  <2>2. EarlyFirst' /\ \A l \in Starts, i \in 1 .. 2 : Unmade(l, i)' => Unmade(l, i)
    <3>1. PICK pc \in StartPc :
            /\ Goto(k, pc)
            /\ pc \in Early => starting[k].pc \in Early
            /\ pc \notin {"find", "add"}
      BY <1>1 DEF StartSession, Fails, ForkBridge, RegisterSession, RolledBack, Early,
                  StartPc
    <3>2. /\ \A l \in Starts : l # k => starting'[l] = starting[l]
          /\ starting'[k].sub = starting[k].sub /\ starting'[k].pc = pc
      BY <3>1, Going
    <3>3. QED
      BY <3>1, <3>2, Moving
  <2>3. ShutsOne'
    BY <2>1 DEF ListsInv, ShutsOne
  <2>4. QED
    BY <2>1, <2>2, <2>3, Sparing
<1>2. CASE \/ NativeStores(k) \/ MistralStores(k) \/ CascadeStores(k)
           \/ CascadeFindsOld(k) \/ CascadeReplaces(k)
  BY <1>2, MakingLists
<1>3. CASE MistralAttaches(k) \/ GetChannels(k)
  <2>1. chan' = chan /\ crashed' = crashed
    BY <1>3 DEF MistralAttaches, GetChannels
  <2>2. \A s \in Sessions : session'[s].subs = session[s].subs
    <3>1. \/ session' = session
          \/ session' = [session EXCEPT ![starting[k].of].pump = "reads"]
      BY <1>3 DEF MistralAttaches, GetChannels
    <3>2. QED
      BY <3>1 DEF TypeOK, SessionState
  <2>3. EarlyFirst' /\ \A l \in Starts, i \in 1 .. 2 : Unmade(l, i)' => Unmade(l, i)
    <3>1. starting[k].pc \in Early
      BY <1>3 DEF MistralAttaches, GetChannels, Early
    <3>2. PICK pc : Goto(k, pc)
      BY <1>3 DEF MistralAttaches, GetChannels, RollsBack
    <3>3. QED
      BY <3>1, <3>2, Going, Moving
  <2>4. ShutsOne'
    <3>1. Take(k) \/ UNCHANGED shutting
      BY <1>3 DEF MistralAttaches, GetChannels, RollsBack
    <3>2. QED
      BY <1>0, <3>1, Taking DEF ListsInv, ShutsOne
  <2>5. QED
    BY <2>1, <2>2, <2>3, <2>4, Sparing
<1>4. CASE FindSession(k)
  <2>1. CASE Refused(k)
    BY <1>4, <2>1, RefusedLists DEF FindSession
  <2>2. CASE ~Refused(k)
    <3>1. /\ UNCHANGED <<session, chan, shutting, crashed>>
          /\ starting' = [starting EXCEPT ![k].pc = "add", ![k].of = held]
          /\ starting[k].pc = "find"
      BY <1>4, <2>2 DEF FindSession
    <3>2. /\ \A l \in Starts : l # k => starting'[l] = starting[l]
          /\ starting'[k].sub = starting[k].sub /\ starting'[k].pc = "add"
      BY <3>1 DEF TypeOK, StartState
    <3>3. EarlyFirst' /\ \A l \in Starts, i \in 1 .. 2 : Unmade(l, i)' => Unmade(l, i)
      BY <3>1, <3>2, Moving DEF Early
    <3>4. ShutsOne'
      BY <3>1 DEF ListsInv, ShutsOne
    <3>5. QED
      BY <3>1, <3>3, <3>4, Sparing
  <2>3. QED
    BY <2>1, <2>2
<1>5. CASE RefusesClosed(k)
  BY <1>5, RefusedLists DEF RefusesClosed
<1>6. CASE AddSubscriber(k)
  BY <1>6, AddLists DEF AddSubscriber
<1>7. CASE RaceGuard(k)
  <2>1. UNCHANGED <<session, chan, shutting, crashed>>
    BY <1>7 DEF RaceGuard
  <2>2. EarlyFirst' /\ \A l \in Starts, i \in 1 .. 2 : Unmade(l, i)' => Unmade(l, i)
    BY <1>7, Nexting DEF RaceGuard
  <2>3. ShutsOne'
    BY <2>1 DEF ListsInv, ShutsOne
  <2>4. QED
    BY <2>1, <2>2, <2>3, Sparing
<1>8. QED
  BY <1>1, <1>2, <1>3, <1>4, <1>5, <1>6, <1>7 DEF Calls

\* CloseRealtimeSession: who shuts a session closes channels nobody else closed.
LEMMA ShutLists ==
  ASSUME TypeOK, ListsInv, NEW c \in Caller, Shuts(c)
  PROVE  ListsInv' /\ crashed' = crashed
<1> DEFINE s == shutting[c].of
<1>1. s \in Sessions /\ session \in [Sessions -> SessionState]
  BY DEF Shuts, CloseChannels, CancelUpstream, TypeOK, ListsInv, ShutsOne
<1>2. EarlyFirst' /\ \A l \in Starts, i \in 1 .. 2 : Unmade(l, i)' => Unmade(l, i)
  BY Standing DEF Shuts, CloseChannels, CancelUpstream
<1>3. ShutsOne'
  <2>1. \/ shutting' = [shutting EXCEPT ![c] = Resting]
        \/ shutting' = [shutting EXCEPT ![c] = [@ EXCEPT !.step = "second"]]
    BY DEF Shuts, CloseChannels, CancelUpstream
  <2>2. shutting \in [Caller -> ShutState]
    BY DEF TypeOK
  <2>3. QED
    BY <1>1, <2>1, <2>2 DEF ListsInv, ShutsOne, ShutState, Resting
<1>4. CASE CloseChannels(c)
  <2>1. \A h \in session[s].subs : chan[h].state = "open"
    BY <1>1 DEF ListsInv, SubsOpen
  <2>2. crashed' = crashed
    BY <1>4, <2>1 DEF CloseChannels
  <2>3. session'[s].subs = {} /\ \A t \in Sessions : t # s => session'[t] = session[t]
    BY <1>1, <1>4 DEF CloseChannels, SessionState
  <2>4. \A t \in Sessions : t # s => \A h \in session[t].subs : chan'[h] = chan[h]
    <3>1. ASSUME NEW t \in Sessions, t # s, NEW h \in session[t].subs
          PROVE  chan'[h] = chan[h]
      <4>1. h \in Chans /\ h \notin session[s].subs
        BY <1>1, <3>1 DEF SessionState, ListsInv, SubsDisjoint
      <4>2. QED
        BY <1>4, <4>1 DEF CloseChannels
    <3>2. QED
      BY <3>1
  <2>5. /\ \A t \in Sessions : session'[t].subs \subseteq session[t].subs
        /\ \A t \in Sessions : \A h \in session'[t].subs : chan'[h].state = chan[h].state
    BY <2>3, <2>4
  <2>6. QED
    BY <1>2, <1>3, <2>2, <2>5, Shrinking
<1>5. CASE CancelUpstream(c)
  <2>1. UNCHANGED <<chan, crashed>>
    BY <1>5 DEF CancelUpstream
  <2>2. \A t \in Sessions : session'[t].subs = session[t].subs
    BY <1>1, <1>5 DEF CancelUpstream, SessionState
  <2>3. QED
    BY <1>2, <1>3, <2>1, <2>2, Sparing
<1>6. QED
  BY <1>4, <1>5 DEF Shuts

LEMMA ClosingLists ==
  ASSUME TypeOK, ListsInv, NEW c \in Closes, Closing(c)
  PROVE  ListsInv' /\ crashed' = crashed
<1>1. starting' = starting
  BY DEF Closing, CloseSession, CloseUnsubscribes, CloseCancels, CloseDisconnects,
         CloseReturns
<1>2. EarlyFirst' /\ \A l \in Starts, i \in 1 .. 2 : Unmade(l, i)' => Unmade(l, i)
  BY <1>1, Standing
<1>3. ShutsOne'
  <2>1. Take(c) \/ UNCHANGED shutting
    BY DEF Closing, CloseSession, CloseUnsubscribes, CloseCancels, CloseDisconnects,
           CloseReturns
  <2>2. QED
    BY <2>1, Taking, Callers DEF ListsInv, ShutsOne
<1>4. CASE CloseUnsubscribes(c)
  BY <1>2, <1>3, <1>4, Unsubscribing, Shrinking DEF CloseUnsubscribes
<1>5. CASE ~CloseUnsubscribes(c)
  <2>1. UNCHANGED <<session, chan, crashed>>
    BY <1>5 DEF Closing, CloseSession, CloseCancels, CloseDisconnects, CloseReturns
  <2>2. QED
    BY <1>2, <1>3, <2>1, Sparing
<1>6. QED
  BY <1>4, <1>5

\* publishEvent: every channel of the list is open, so the send is safe.
LEMMA PumpLists ==
  ASSUME TypeOK, ListsInv, NEW s \in Sessions, Pumps(s)
  PROVE  ListsInv' /\ crashed' = crashed
<1>1. UNCHANGED <<starting, shutting>>
  BY DEF Pumps, PumpEnds, PumpCancels, SttEnds
<1>2. EarlyFirst' /\ \A l \in Starts, i \in 1 .. 2 : Unmade(l, i)' => Unmade(l, i)
  BY <1>1, Standing
<1>3. ShutsOne'
  BY <1>1 DEF ListsInv, ShutsOne
<1>4. session \in [Sessions -> SessionState]
  BY DEF TypeOK
<1>5. \A t \in Sessions : session'[t].subs = session[t].subs
  <2>1. CASE PumpEnds(s)
    BY <1>4, <2>1 DEF PumpEnds, SessionState
  <2>2. CASE PumpCancels(s)
    BY <1>4, <2>2 DEF PumpCancels, SessionState
  <2>3. CASE SttEnds(s)
    BY <1>4, <2>3 DEF SttEnds, SessionState
  <2>4. QED
    BY <2>1, <2>2, <2>3 DEF Pumps
<1>6. /\ \A h \in Chans : chan'[h].state = chan[h].state
      /\ crashed' = crashed
  <2>1. CASE Published(s)
    <3>1. \A h \in session[s].subs : chan[h].state = "open"
      BY DEF ListsInv, SubsOpen
    <3>2. crashed' = crashed
      BY <2>1, <3>1 DEF Published
    <3>3. QED
      BY <2>1, <3>2 DEF Published, TypeOK, ChanState
  <2>2. CASE UNCHANGED <<chan, crashed>>
    BY <2>2
  <2>3. QED
    BY <2>1, <2>2 DEF Pumps, PumpEnds, PumpCancels, SttEnds
<1>7. \A t \in Sessions : session[t].subs \subseteq Chans
  BY <1>4 DEF SessionState
<1>8. QED
  BY <1>2, <1>3, <1>5, <1>6, <1>7, Shrinking

\* The steps that touch no list: the bridges, DisconnectUser, the race guard.
LEMMA OtherLists ==
  ASSUME TypeOK, ListsInv,
         \/ \E k \in Starts : Bridges(k)
         \/ DisconnectUser \/ DisconnectReturns
         \/ \E h \in Chans : GuardSends(h)
         \/ UNCHANGED vars
  PROVE  ListsInv' /\ crashed' \in {crashed, "guard"}
<1>1. UNCHANGED <<starting, session>> /\ crashed' \in {crashed, "guard"}
  BY DEF Bridges, BridgeForwards, BridgeEnds, ClosesEntry, ClosesErrCh,
         DisconnectUser, DisconnectReturns, GuardSends, vars
<1>2. EarlyFirst' /\ \A l \in Starts, i \in 1 .. 2 : Unmade(l, i)' => Unmade(l, i)
  BY <1>1, Standing
<1>3. ShutsOne'
  <2>1. Take(Disconnecter) \/ UNCHANGED shutting
    BY DEF Bridges, BridgeForwards, BridgeEnds, ClosesEntry, ClosesErrCh,
           DisconnectUser, DisconnectReturns, GuardSends, vars
  <2>2. QED
    BY <2>1, Taking, Callers DEF ListsInv, ShutsOne
<1>4. \A h \in Chans : chan'[h].state = chan[h].state
  <2>1. UNCHANGED chan \/ \E h, e : chan' = [chan EXCEPT ![h].error = e]
    BY DEF Bridges, BridgeForwards, BridgeEnds, ClosesEntry, ClosesErrCh,
           DisconnectUser, DisconnectReturns, GuardSends, vars
  <2>2. QED
    BY <2>1 DEF TypeOK, ChanState
<1>5. \A t \in Sessions : session[t].subs \subseteq Chans
  BY DEF TypeOK, SessionState
<1>6. QED
  BY <1>1, <1>2, <1>3, <1>4, <1>5, Shrinking

\* No channel that a session lists is closed, however the calls of StartSession
\* and CloseSession, DisconnectUser and the readers interleave; so nothing but
\* Google's race guard sends on, or closes, a closed channel.
THEOREM NoListedChannelIsClosed == Spec => [](ListsInv /\ OnlyGuardPanics)
<1> DEFINE Inv == TypeOK /\ ListsInv /\ OnlyGuardPanics
<1>1. Init => ListsInv /\ OnlyGuardPanics
  BY DEF Init, ListsInv, SubsOpen, SubsDisjoint, EarlyFirst, Early, UnmadeFree,
         ShutsOne, Resting, OnlyGuardPanics
<1>2. Inv /\ [Next]_vars => (ListsInv /\ OnlyGuardPanics)'
  <2> SUFFICES ASSUME Inv, [Next]_vars PROVE ListsInv' /\ crashed' \in {crashed, "guard"}
    BY DEF OnlyGuardPanics
  <2>1. ASSUME NEW k \in Starts, Calls(k)
        PROVE  ListsInv' /\ crashed' \in {crashed, "guard"}
    BY <2>1, CallLists
  <2>2. ASSUME NEW c \in Closes, Closing(c)
        PROVE  ListsInv' /\ crashed' \in {crashed, "guard"}
    BY <2>2, ClosingLists
  <2>3. ASSUME NEW c \in Caller, Shuts(c)
        PROVE  ListsInv' /\ crashed' \in {crashed, "guard"}
    BY <2>3, ShutLists
  <2>4. ASSUME NEW s \in Sessions, Pumps(s)
        PROVE  ListsInv' /\ crashed' \in {crashed, "guard"}
    BY <2>4, PumpLists
  <2>5. QED
    BY <2>1, <2>2, <2>3, <2>4, OtherLists DEF Next
<1>3. QED
  BY <1>1, <1>2, RealtimeTypeCorrect, PTL DEF Spec

-----------------------------------------------------------------------------
(***************************************************************************)
(* What is left of a session.  Only who is to shut a session has one in    *)
(* hand; calls that do not overlap are under way alone.                    *)
(***************************************************************************)
Shutter(c) == \/ c \in Starts /\ starting[c].pc \in {"old", "rollback"}
              \/ c \in Closes /\ closing[c].pc = "shut"
              \/ c = Disconnecter /\ disconnect = "shut"
ShutterOnly == \A c \in Caller : ~Shutter(c) => shutting[c] = Resting
OneRuns == ~setup.concurrent =>
  \A k \in Starts : StartUnderWay(k) =>
    /\ \A j \in Starts : StartUnderWay(j) => j = k
    /\ \A c \in Closes : ~CloseUnderWay(c)
    /\ ~setup.racing => disconnect # "shut"
AloneInv == ShutterOnly /\ OneRuns

\* How one call goes from where it is to the next.
Moved(k, pc, of) ==
  /\ \A l \in Starts : l # k => starting'[l] = starting[l]
  /\ starting'[k].pc = pc /\ starting'[k].of = of
Kept(k, pc) == Moved(k, pc, starting[k].of)

LEMMA GoesTo ==
  ASSUME TypeOK, NEW k \in Starts, NEW pc, Goto(k, pc) PROVE Kept(k, pc)
BY DEF TypeOK, StartState, Goto, Kept, Moved

LEMMA NextSubMoves ==
  ASSUME TypeOK, NEW k \in Starts, starting' = [starting EXCEPT ![k] = NextSub(k)]
  PROVE  /\ starting[k].sub = 1 => Kept(k, "find") /\ starting'[k].sub = 2
         /\ starting[k].sub = 2 => Kept(k, "fork") /\ starting'[k].sub = 2
         /\ starting[k].sub \in 1 .. 2 /\ (Kept(k, "find") \/ Kept(k, "fork"))
<1>1. starting \in [Starts -> [pc : StartPc, of : 0 .. MaxStarts, sub : 1 .. 2]]
  BY DEF TypeOK, StartState
<1>2. CASE starting[k].sub = 1
  <2>1. NextSub(k) = [starting[k] EXCEPT !.pc = "find", !.sub = 2]
    BY <1>2 DEF NextSub
  <2>2. QED
    BY <1>1, <1>2, <2>1 DEF Kept, Moved
<1>3. CASE starting[k].sub = 2
  <2>1. NextSub(k) = [starting[k] EXCEPT !.pc = "fork"]
    BY <1>3 DEF NextSub
  <2>2. QED
    BY <1>1, <1>3, <2>1 DEF Kept, Moved
<1>4. QED
  BY <1>1, <1>2, <1>3

\* The steps of a call that shut nothing, and make nothing.
Onward(k) ==
  /\ UNCHANGED <<held, made, shutting>>
  /\ \A s \in Sessions : session'[s].ctx = session[s].ctx /\ session'[s].pump = session[s].pump
  /\ starting[k].pc # "old" /\ (starting[k].pc = "rollback" => shutting[k] = Resting)
  /\ \E pc \in StartPc \ {"idle", "old", "attach", "rollback"}, of \in {starting[k].of, held} :
       /\ Moved(k, pc, of)
       /\ pc = "dial" => starting[k].pc = "idle" /\ (held = 0 \/ Is("cascade"))

\* A call that fails takes the session there is, to shut it.
Back(k) ==
  /\ Kept(k, "rollback") /\ Take(k) /\ made' = made
  /\ starting[k].pc \in {"attach", "channels", "find", "add"}
  /\ \A s \in Sessions : session'[s].ctx = session[s].ctx /\ session'[s].pump = session[s].pump

LEMMA RefusedGoesBack ==
  ASSUME TypeOK, NEW k \in Starts, Refused(k), made' = made, starting[k].pc \in {"find", "add"}
  PROVE  Back(k)
<1>1. Kept(k, "rollback") /\ Take(k)
  BY GoesTo DEF Refused, RollsBack
<1>2. \A s \in Sessions : session'[s].ctx = session[s].ctx /\ session'[s].pump = session[s].pump
  <2>1. session' = session \/ \E h : session' = [session EXCEPT ![held].subs = @ \ {h}]
    BY DEF Refused, Unsubscribed
  <2>2. QED
    BY <2>1 DEF TypeOK, SessionState
<1>3. QED
  BY <1>1, <1>2 DEF Back

Makes(k) == NativeStores(k) \/ CascadeStores(k) \/ MistralStores(k) \/ CascadeFindsOld(k)
Attaches(k) ==
  /\ UNCHANGED <<held, made, shutting>> /\ starting[k].pc = "attach"
  /\ Kept(k, "channels") /\ starting[k].of \in Sessions
  /\ session[starting[k].of].pump = "none"
  /\ session' = [session EXCEPT ![starting[k].of].pump = "reads"]

LEMMA CallKinds ==
  ASSUME TypeOK, NEW k \in Starts, Calls(k),
         starting[k].pc = "attach" => starting[k].of \in Sessions
  PROVE  Onward(k) \/ Back(k) \/ Makes(k) \/ CascadeReplaces(k) \/ Attaches(k)
<1>1. CASE StartSession(k)
  <2>1. PICK pc \in {"channels", "dial"} : Goto(k, pc) /\ (pc = "dial" => held = 0 \/ Is("cascade"))
    BY <1>1 DEF StartSession
  <2>2. Moved(k, pc, starting[k].of)
    BY <2>1, GoesTo DEF Kept
  <2>3. QED
    BY <1>1, <2>1, <2>2 DEF StartSession, Onward, StartPc
<1>2. CASE Fails(k) \/ ForkBridge(k) \/ RegisterSession(k) \/ RolledBack(k)
  <2>1. PICK pc \in {"failed", "register", "served"} : Goto(k, pc)
    BY <1>2 DEF Fails, ForkBridge, RegisterSession, RolledBack
  <2>2. Moved(k, pc, starting[k].of)
    BY <2>1, GoesTo DEF Kept
  <2>3. QED
    BY <1>2, <2>1, <2>2 DEF Fails, ForkBridge, RegisterSession, RolledBack, Onward, StartPc
<1>3. CASE GetChannels(k)
  <2>1. CASE held = 0
    <3>1. Kept(k, "rollback") /\ Take(k)
      BY <1>3, <2>1, GoesTo DEF GetChannels, RollsBack
    <3>2. QED
      BY <1>3, <3>1 DEF GetChannels, Back
  <2>2. CASE held # 0
    <3>1. Moved(k, "find", starting[k].of)
      BY <1>3, <2>2, GoesTo DEF GetChannels, Kept
    <3>2. QED
      BY <1>3, <2>2, <3>1 DEF GetChannels, Onward, StartPc
  <2>3. QED
    BY <2>1, <2>2
<1>4. CASE FindSession(k)
  <2>1. CASE Refused(k)
    BY <1>4, <2>1, RefusedGoesBack DEF FindSession
  <2>2. CASE ~Refused(k)
    <3>1. /\ starting' = [starting EXCEPT ![k].pc = "add", ![k].of = held]
          /\ UNCHANGED <<held, made, session, shutting>> /\ starting[k].pc = "find"
      BY <1>4, <2>2 DEF FindSession
    <3>2. Moved(k, "add", held)
      BY <3>1 DEF TypeOK, StartState, Moved
    <3>3. QED
      BY <3>1, <3>2 DEF Onward, StartPc
  <2>3. QED
    BY <2>1, <2>2
<1>5. CASE RefusesClosed(k)
  BY <1>5, RefusedGoesBack DEF RefusesClosed
<1>6. CASE AddSubscriber(k)
  <2>1. /\ UNCHANGED <<held, made, shutting>> /\ starting[k].pc = "add"
        /\ session' = [session EXCEPT ![starting[k].of].subs
                                        = @ \cup {Chan(k, starting[k].sub)}]
    BY <1>6 DEF AddSubscriber
  <2>2. \A s \in Sessions : session'[s].ctx = session[s].ctx /\ session'[s].pump = session[s].pump
    BY <2>1 DEF TypeOK, SessionState
  <2>3. \E pc \in {"check", "find", "fork"} : Moved(k, pc, starting[k].of)
    <3>1. CASE starting' = [starting EXCEPT ![k] = NextSub(k)]
      <4>1. Kept(k, "find") \/ Kept(k, "fork")
        BY <3>1, NextSubMoves
      <4>2. QED
        BY <4>1 DEF Kept
    <3>2. CASE starting' = [starting EXCEPT ![k] = [@ EXCEPT !.pc = "check"]]
      BY <3>2 DEF TypeOK, StartState, Moved
    <3>3. QED
      BY <1>6, <3>1, <3>2 DEF AddSubscriber
  <2>4. QED
    BY <2>1, <2>2, <2>3 DEF Onward, StartPc
<1>7. CASE RaceGuard(k)
  <2>1. \E pc \in {"find", "fork"} : Moved(k, pc, starting[k].of)
    <3>1. Kept(k, "find") \/ Kept(k, "fork")
      BY <1>7, NextSubMoves DEF RaceGuard
    <3>2. QED
      BY <3>1 DEF Kept
  <2>2. QED
    BY <1>7, <2>1 DEF RaceGuard, Onward, StartPc
<1>8. CASE MistralAttaches(k)
  <2>1. CASE session[starting[k].of].pump = "none"
    <3>1. Kept(k, "channels")
      BY <1>8, <2>1, GoesTo DEF MistralAttaches
    <3>2. QED
      BY <1>8, <2>1, <3>1 DEF MistralAttaches, Attaches
  <2>2. CASE session[starting[k].of].pump # "none"
    <3>1. Kept(k, "rollback")
      BY <1>8, <2>2, GoesTo DEF MistralAttaches
    <3>2. QED
      BY <1>8, <2>2, <3>1 DEF MistralAttaches, Back
  <2>3. QED
    BY <2>1, <2>2
<1>9. QED
  BY <1>1, <1>2, <1>3, <1>4, <1>5, <1>6, <1>7, <1>8 DEF Calls, Makes


LEMMA CallersApart ==
  /\ \A k \in Starts : k \notin Closes /\ k # Disconnecter
  /\ \A c \in Closes : c \notin Starts /\ c # Disconnecter
  /\ Disconnecter \notin Starts /\ Disconnecter \notin Closes
BY RealtimeAssumption DEF Starts, Closes, Disconnecter

LEMMA CallGuards ==
  ASSUME TypeOK, NEW k \in Starts, Calls(k)
  PROVE  /\ UNCHANGED <<setup, closing, disconnect, ended>>
         /\ \/ StartUnderWay(k)
            \/ (setup.concurrent \/ Quiet) /\ (setup.racing \/ disconnect # "shut")
         /\ \A l \in Starts : l # k => starting'[l] = starting[l]
<1>1. UNCHANGED <<setup, closing, disconnect, ended>>
  BY DEF Calls, StartSession, Fails, NativeStores, MistralStores, CascadeStores, CascadeFindsOld,
         CascadeReplaces, MistralAttaches, GetChannels, FindSession, RefusesClosed, AddSubscriber,
         RaceGuard, ForkBridge, RegisterSession, RolledBack, Making
<1>2. \/ StartUnderWay(k)
      \/ (setup.concurrent \/ Quiet) /\ (setup.racing \/ disconnect # "shut")
  BY DEF Calls, StartSession, Fails, NativeStores, MistralStores, CascadeStores, CascadeFindsOld,
         CascadeReplaces, MistralAttaches, GetChannels, FindSession, RefusesClosed, AddSubscriber,
         RaceGuard, ForkBridge, RegisterSession, RolledBack, Making, StartUnderWay
<1>3. \/ \E pc : Goto(k, pc)
      \/ \E r : starting' = [starting EXCEPT ![k] = r]
  <2>1. CASE MistralStores(k)
    <3>1. starting' = [starting EXCEPT ![k] = [@ EXCEPT !.pc = "attach", !.of = held']]
      BY <2>1 DEF MistralStores
    <3>2. QED
      BY <3>1
  <2>2. CASE CascadeFindsOld(k)
    <3>1. starting' = [starting EXCEPT ![k] = [@ EXCEPT !.pc = "old", !.of = made + 1]]
      BY <2>2 DEF CascadeFindsOld
    <3>2. QED
      BY <3>1
  <2>3. CASE FindSession(k) /\ ~Refused(k)
    <3>1. starting' = [starting EXCEPT ![k] = [@ EXCEPT !.pc = "add", !.of = held]]
      BY <2>3 DEF FindSession
    <3>2. QED
      BY <3>1
  <2>4. CASE AddSubscriber(k) \/ RaceGuard(k)
    BY <2>4 DEF AddSubscriber, RaceGuard
  <2>5. CASE StartSession(k) \/ MistralAttaches(k) \/ GetChannels(k)
    BY <2>5 DEF StartSession, MistralAttaches, GetChannels, RollsBack
  <2>6. CASE Refused(k)
    BY <2>6 DEF Refused, RollsBack
  <2>7. QED
    BY <2>1, <2>2, <2>3, <2>4, <2>5, <2>6
    DEF Calls, Fails, NativeStores, CascadeStores, CascadeReplaces, RefusesClosed, ForkBridge,
        RegisterSession, RolledBack
<1>4. \A l \in Starts : l # k => starting'[l] = starting[l]
  BY <1>3 DEF Goto, TypeOK
<1>5. QED
  BY <1>1, <1>2, <1>4

LEMMA CallAlone ==
  ASSUME TypeOK, OneRuns, NEW k \in Starts, Calls(k) PROVE OneRuns'
<1>1. /\ UNCHANGED <<setup, closing, disconnect>>
      /\ \/ StartUnderWay(k)
         \/ (setup.concurrent \/ Quiet) /\ (setup.racing \/ disconnect # "shut")
      /\ \A l \in Starts : l # k => starting'[l] = starting[l]
  BY CallGuards
<1>2. \A l \in Starts : l # k /\ StartUnderWay(l)' => StartUnderWay(l)
  BY <1>1 DEF StartUnderWay
<1>3. \A c \in Closes : CloseUnderWay(c)' <=> CloseUnderWay(c)
  BY <1>1 DEF CloseUnderWay
<1>4. CASE StartUnderWay(k)
  BY <1>1, <1>2, <1>3, <1>4 DEF OneRuns
<1>5. CASE (setup.concurrent \/ Quiet) /\ (setup.racing \/ disconnect # "shut")
  BY <1>1, <1>2, <1>3, <1>5 DEF OneRuns, Quiet
<1>6. QED
  BY <1>1, <1>4, <1>5

LEMMA OtherAlone ==
  ASSUME TypeOK, OneRuns, [Next]_vars, \A k \in Starts : ~Calls(k)
  PROVE  OneRuns'
<1>1. UNCHANGED <<setup, starting>>
  BY DEF Next, Bridges, BridgeForwards, BridgeEnds, ClosesEntry, ClosesErrCh, Closing, CloseSession,
         CloseUnsubscribes, CloseCancels, CloseDisconnects, CloseReturns, Shuts, CloseChannels,
         CancelUpstream, DisconnectUser, DisconnectReturns, Pumps, PumpEnds, PumpCancels, SttEnds,
         GuardSends, vars
<1>2. \A k \in Starts : StartUnderWay(k)' <=> StartUnderWay(k)
  BY <1>1 DEF StartUnderWay
<1>3. CASE UNCHANGED <<closing, disconnect>>
  <2>1. \A c \in Closes : CloseUnderWay(c)' <=> CloseUnderWay(c)
    BY <1>3 DEF CloseUnderWay
  <2>2. QED
    BY <1>1, <1>2, <1>3, <2>1 DEF OneRuns
<1>4. ASSUME NEW c \in Closes, Closing(c) PROVE OneRuns'
  <2>1. /\ \A d \in Closes : d # c => closing'[d] = closing[d]
        /\ UNCHANGED disconnect
    BY <1>4 DEF TypeOK, Closing, CloseSession, CloseUnsubscribes, CloseCancels, CloseDisconnects,
                CloseReturns
  <2>2. \A d \in Closes : d # c /\ CloseUnderWay(d)' => CloseUnderWay(d)
    BY <2>1 DEF CloseUnderWay
  <2>3. CloseUnderWay(c) \/ setup.concurrent \/ Quiet
    BY <1>4 DEF Closing, CloseSession, CloseUnsubscribes, CloseCancels, CloseDisconnects,
                CloseReturns, CloseUnderWay
  <2>4. QED
    BY <1>1, <1>2, <2>1, <2>2, <2>3 DEF OneRuns, Quiet
<1>5. CASE DisconnectUser \/ DisconnectReturns
  <2>1. UNCHANGED closing /\ (disconnect' = "shut" => setup.racing \/ \A k \in Starts : ~StartUnderWay(k))
    BY <1>5 DEF DisconnectUser, DisconnectReturns
  <2>2. \A c \in Closes : CloseUnderWay(c)' <=> CloseUnderWay(c)
    BY <2>1 DEF CloseUnderWay
  <2>3. QED
    BY <1>1, <1>2, <2>1, <2>2 DEF OneRuns
<1>6. QED
  <2>1. CASE \/ \E k \in Starts : Bridges(k)
             \/ \E c \in Caller : Shuts(c)
             \/ \E s \in Sessions : Pumps(s)
             \/ \E h \in Chans : GuardSends(h)
             \/ UNCHANGED vars
    BY <2>1, <1>3 DEF Bridges, BridgeForwards, BridgeEnds, ClosesEntry, ClosesErrCh, Shuts,
         CloseChannels, CancelUpstream, Pumps, PumpEnds, PumpCancels, SttEnds, GuardSends, vars
  <2>2. QED
    BY <2>1, <1>4, <1>5 DEF Next

\* Who does not shut has nothing in hand.
LEMMA ShutterKept ==
  ASSUME ShutterOnly,
         \A c \in Caller : \/ Shutter(c)'
                           \/ shutting'[c] = Resting
                           \/ ~Shutter(c) /\ shutting'[c] = shutting[c]
  PROVE  ShutterOnly'
BY DEF ShutterOnly

LEMMA TakeOthers ==
  ASSUME TypeOK, NEW c \in Caller, Take(c)
  PROVE  /\ \A d \in Caller : d # c => shutting'[d] = shutting[d]
         /\ \/ held = 0 /\ held' = 0 /\ shutting' = shutting
            \/ held # 0 /\ held' = 0 /\ shutting'[c] = [of |-> held, step |-> "first"]
BY DEF Take, TypeOK

LEMMA CallShutter ==
  ASSUME TypeOK, ShutterOnly, NEW k \in Starts, Calls(k),
         starting[k].pc = "attach" => starting[k].of \in Sessions
  PROVE  ShutterOnly'
<1>1. /\ UNCHANGED <<setup, closing, disconnect>>
      /\ \A l \in Starts : l # k => starting'[l] = starting[l]
  BY CallGuards
<1>2. \A c \in Caller : c # k => (Shutter(c)' <=> Shutter(c))
  BY <1>1 DEF Shutter
<1>3. k \in Caller /\ k \notin Closes /\ k # Disconnecter
  BY Callers, CallersApart
<1>4. starting[k].pc \notin {"old", "rollback"} => shutting[k] = Resting
  BY <1>3 DEF ShutterOnly, Shutter
<1>5. CASE Onward(k) \/ Attaches(k)
  BY <1>2, <1>4, <1>5, ShutterKept DEF Onward, Attaches
<1>6. CASE Back(k)
  <2>1. \A d \in Caller : d # k => shutting'[d] = shutting[d]
    BY <1>3, <1>6, TakeOthers DEF Back
  <2>2. Shutter(k)'
    BY <1>6 DEF Back, Kept, Moved, Shutter
  <2>3. QED
    BY <1>2, <2>1, <2>2, ShutterKept
<1>7. CASE NativeStores(k) \/ CascadeStores(k) \/ MistralStores(k)
  <2>1. starting[k].pc = "dial" /\ UNCHANGED shutting
    BY <1>7 DEF NativeStores, CascadeStores, MistralStores, Making
  <2>2. QED
    BY <1>2, <1>4, <2>1, ShutterKept
<1>8. CASE CascadeFindsOld(k)
  <2>1. /\ starting' = [starting EXCEPT ![k].pc = "old", ![k].of = made + 1]
        /\ shutting' = [shutting EXCEPT ![k] = [of |-> held, step |-> "first"]]
    BY <1>8 DEF CascadeFindsOld
  <2>2. starting'[k].pc = "old" /\ \A d \in Caller : d # k => shutting'[d] = shutting[d]
    BY <2>1 DEF TypeOK, StartState
  <2>3. Shutter(k)'
    BY <2>2 DEF Shutter
  <2>4. QED
    BY <1>2, <2>2, <2>3, ShutterKept
<1>9. CASE CascadeReplaces(k)
  BY <1>2, <1>9, ShutterKept DEF CascadeReplaces
<1>10. QED
  BY <1>5, <1>6, <1>7, <1>8, <1>9, CallKinds DEF Makes

LEMMA OtherShutter ==
  ASSUME TypeOK, ShutterOnly, [Next]_vars, \A k \in Starts : ~Calls(k)
  PROVE  ShutterOnly'
<1>1. starting' = starting
  BY DEF Next, Bridges, BridgeForwards, BridgeEnds, ClosesEntry, ClosesErrCh, Closing, CloseSession,
         CloseUnsubscribes, CloseCancels, CloseDisconnects, CloseReturns, Shuts, CloseChannels,
         CancelUpstream, DisconnectUser, DisconnectReturns, Pumps, PumpEnds, PumpCancels, SttEnds,
         GuardSends, vars
<1>2. CASE UNCHANGED <<closing, disconnect, shutting>>
  BY <1>1, <1>2 DEF ShutterOnly, Shutter
<1>3. ASSUME NEW c \in Closes, Closing(c) PROVE ShutterOnly'
  <2>1. /\ \A d \in Closes : d # c => closing'[d] = closing[d]
        /\ UNCHANGED disconnect
    BY <1>3 DEF TypeOK, Closing, CloseSession, CloseUnsubscribes, CloseCancels, CloseDisconnects,
                CloseReturns
  <2>2. c \in Caller /\ c \notin Starts /\ c # Disconnecter
    BY Callers, CallersApart
  <2>3. \A d \in Caller : d # c => (Shutter(d)' <=> Shutter(d))
    BY <1>1, <2>1 DEF Shutter
  <2>4. CASE CloseDisconnects(c)
    <3>1. \A d \in Caller : d # c => shutting'[d] = shutting[d]
      BY <2>2, <2>4, TakeOthers DEF CloseDisconnects
    <3>2. closing'[c].pc = "shut"
      BY <2>4 DEF CloseDisconnects, TypeOK, CloseState
    <3>3. Shutter(c)'
      BY <3>2 DEF Shutter
    <3>4. QED
      BY <2>3, <3>1, <3>3, ShutterKept
  <2>5. CASE CloseReturns(c)
    BY <2>3, <2>5, ShutterKept DEF CloseReturns
  <2>6. CASE CloseSession(c) \/ CloseUnsubscribes(c) \/ CloseCancels(c)
    <3>1. closing[c].pc # "shut" /\ UNCHANGED shutting
      BY <2>6 DEF CloseSession, CloseUnsubscribes, CloseCancels
    <3>2. ~Shutter(c)
      BY <2>2, <3>1 DEF Shutter
    <3>3. QED
      BY <2>3, <3>1, <3>2, ShutterKept
  <2>7. QED
    BY <1>3, <2>4, <2>5, <2>6 DEF Closing
<1>4. ASSUME NEW c \in Caller, Shuts(c) PROVE ShutterOnly'
  <2>1. /\ shutting[c].step # "none" /\ UNCHANGED <<closing, disconnect>>
        /\ \A d \in Caller : d # c => shutting'[d] = shutting[d]
    BY <1>4 DEF Shuts, CloseChannels, CancelUpstream, TypeOK
  <2>2. Shutter(c)
    BY <2>1 DEF ShutterOnly, Resting
  <2>3. \A d \in Caller : Shutter(d)' <=> Shutter(d)
    BY <1>1, <2>1 DEF Shutter
  <2>4. QED
    BY <2>1, <2>2, <2>3, ShutterKept
<1>5. CASE DisconnectUser
  <2>1. \A d \in Caller : d # Disconnecter => shutting'[d] = shutting[d]
    BY <1>5, TakeOthers, Callers DEF DisconnectUser
  <2>2. UNCHANGED closing /\ Shutter(Disconnecter)'
    BY <1>5 DEF DisconnectUser, Shutter
  <2>3. \A d \in Caller : d # Disconnecter => (Shutter(d)' <=> Shutter(d))
    BY <1>1, <2>2 DEF Shutter
  <2>4. QED
    BY <2>1, <2>2, <2>3, ShutterKept
<1>6. CASE DisconnectReturns
  <2>1. UNCHANGED <<closing, shutting>> /\ shutting[Disconnecter] = Resting
    BY <1>6 DEF DisconnectReturns
  <2>2. \A d \in Caller : d # Disconnecter => (Shutter(d)' <=> Shutter(d))
    BY <1>1, <2>1 DEF Shutter
  <2>3. QED
    BY <2>1, <2>2, ShutterKept
<1>7. QED
  <2>1. CASE \/ \E k \in Starts : Bridges(k)
             \/ \E s \in Sessions : Pumps(s)
             \/ \E h \in Chans : GuardSends(h)
             \/ UNCHANGED vars
    BY <2>1, <1>2 DEF Bridges, BridgeForwards, BridgeEnds, ClosesEntry, ClosesErrCh,
         Pumps, PumpEnds, PumpCancels, SttEnds, GuardSends, vars
  <2>2. QED
    BY <2>1, <1>3, <1>4, <1>5, <1>6 DEF Next

-----------------------------------------------------------------------------
\* The respId's session, the ones in hand and the ones calls work on were made.
MadeSoFar == /\ held <= made
             /\ \A c \in Caller : shutting[c].of <= made
             /\ \A k \in Starts : /\ starting[k].of <= made
                                  /\ starting[k].pc = "attach" => starting[k].of # 0
\* Mistral and the cascade cancel before they close the channels.
CancelFirst == ~Native =>
  \A c \in Caller : shutting[c].step = "second" => session[shutting[c].of].ctx = "done"
\* Who dials OpenAI or Google found no session, and none came since.
DialsFirst == \A k \in Starts : Native /\ starting[k].pc = "dial" => held = 0
\* The old session of the cascade is shut before the new one takes its place.
OldGoing == \A k \in Starts : starting[k].pc = "old" =>
  /\ Is("cascade")
  /\ held = 0 \/ shutting[k].of = held \/ session[held].ctx = "done"
HeldInv == MadeSoFar /\ CancelFirst /\ DialsFirst /\ OldGoing /\ UpstreamIsHeld

SameUps == \A s \in Sessions : /\ session'[s].ctx = session[s].ctx
                               /\ session'[s].pump = session[s].pump
Eased(k) ==
  \/ starting'[k].pc = starting[k].pc /\ starting'[k].of = starting[k].of
  \/ /\ starting[k].pc # "old" /\ starting'[k].pc \notin {"old", "attach"}
     /\ starting'[k].of \in {starting[k].of, held}
     /\ starting'[k].pc = "dial" => held = 0 \/ Is("cascade")

LEMMA MadeTyped ==
  ASSUME TypeOK, MadeSoFar
  PROVE  /\ held \in Nat /\ made \in Nat /\ made <= MaxStarts /\ MaxStarts \in Nat
         /\ 1 .. made \subseteq Sessions
         /\ held # 0 => held \in Sessions /\ held \in 1 .. made
         /\ \A c \in Caller : shutting[c].of \in Nat /\ shutting[c].of <= made
         /\ \A k \in Starts : starting[k].of \in Nat /\ starting[k].of <= made
<1>1. /\ held \in 0 .. MaxStarts /\ made \in 0 .. MaxStarts /\ MaxStarts \in Nat
      /\ \A c \in Caller : shutting[c].of \in 0 .. MaxStarts
      /\ \A k \in Starts : starting[k].of \in 0 .. MaxStarts
  BY RealtimeAssumption DEF TypeOK, ShutState, StartState
<1>2. QED
  BY <1>1 DEF MadeSoFar, Sessions

LEMMA EasedHeld ==
  ASSUME TypeOK, ShutsOne, HeldInv, UNCHANGED <<setup, made>>, SameUps, \A k \in Starts : Eased(k),
         \/ UNCHANGED <<held, shutting>>
         \/ \E c \in Caller : Take(c) /\ shutting[c] = Resting
  PROVE  HeldInv'
<1>1. /\ held' \in {0, held}
      /\ \/ UNCHANGED <<held, shutting>>
         \/ \E c \in Caller : /\ \A d \in Caller : d # c => shutting'[d] = shutting[d]
                              /\ shutting[c].of = 0 /\ held # 0 /\ held' = 0
                              /\ shutting'[c].of = held /\ shutting'[c].step = "first"
  <2>1. ASSUME NEW c \in Caller, Take(c), shutting[c] = Resting
        PROVE  \/ UNCHANGED <<held, shutting>>
               \/ /\ \A d \in Caller : d # c => shutting'[d] = shutting[d]
                  /\ shutting[c].of = 0 /\ held # 0 /\ held' = 0
                  /\ shutting'[c].of = held /\ shutting'[c].step = "first"
    BY <2>1, TakeOthers DEF Resting
  <2>2. QED
    BY <2>1
<1>2. (Native' <=> Native) /\ (Is("cascade")' <=> Is("cascade"))
  BY DEF Native, Is
<1>3. MadeSoFar'
  <2>1. held' <= made'
    BY <1>1, MadeTyped DEF HeldInv
  <2>2. \A c \in Caller : shutting'[c].of <= made'
    BY <1>1, MadeTyped DEF HeldInv
  <2>3. \A k \in Starts : /\ starting'[k].of <= made'
                          /\ starting'[k].pc = "attach" => starting'[k].of # 0
    BY MadeTyped DEF HeldInv, MadeSoFar, Eased
  <2>4. QED
    BY <2>1, <2>2, <2>3 DEF MadeSoFar
<1>4. CancelFirst'
  <2> SUFFICES ASSUME ~Native, NEW c \in Caller, shutting'[c].step = "second"
               PROVE  session'[shutting'[c].of].ctx = "done"
    BY <1>2 DEF CancelFirst
  <2>1. shutting'[c] = shutting[c]
    BY <1>1
  <2>2. shutting[c].of \in Sessions
    BY <2>1 DEF ShutsOne
  <2>3. session[shutting[c].of].ctx = "done"
    BY <2>1 DEF HeldInv, CancelFirst
  <2>4. QED
    BY <2>1, <2>2, <2>3 DEF SameUps
<1>5. DialsFirst'
  BY <1>1, <1>2 DEF HeldInv, DialsFirst, Eased, Native, Is
<1>6. OldGoing'
  <2> SUFFICES ASSUME NEW k \in Starts, starting'[k].pc = "old"
               PROVE  /\ Is("cascade")
                      /\ held' = 0 \/ shutting'[k].of = held' \/ session'[held'].ctx = "done"
    BY <1>2 DEF OldGoing
  <2>1. starting[k].pc = "old"
    BY DEF Eased
  <2>2. CASE held' = 0
    BY <2>1, <2>2 DEF HeldInv, OldGoing
  <2>3. CASE held' # 0
    <3>1. UNCHANGED <<held, shutting>> /\ held \in Sessions
      BY <1>1, <2>3, MadeTyped DEF HeldInv
    <3>2. QED
      BY <2>1, <3>1 DEF HeldInv, OldGoing, SameUps
  <2>4. QED
    BY <2>2, <2>3
<1>7. UpstreamIsHeld'
  <2> SUFFICES ASSUME NEW s \in 1 .. made', session'[s].ctx = "live"
               PROVE  \/ s = held'
                      \/ \E c \in Caller : shutting'[c].of = s
                      \/ \E k \in Starts : starting'[k].pc = "old" /\ starting'[k].of = s
                      \/ session'[s].pump = "published"
    BY DEF UpstreamIsHeld
  <2>1. s \in 1 .. made /\ s \in Sessions /\ s # 0
    BY MadeTyped DEF HeldInv
  <2>2. session[s].ctx = "live" /\ session'[s].pump = session[s].pump
    BY <2>1 DEF SameUps
  <2>3. \/ s = held
        \/ \E c \in Caller : shutting[c].of = s
        \/ \E k \in Starts : starting[k].pc = "old" /\ starting[k].of = s
        \/ session[s].pump = "published"
    BY <2>1, <2>2 DEF HeldInv, UpstreamIsHeld
  <2>4. \A k \in Starts : starting[k].pc = "old" =>
          starting'[k].pc = "old" /\ starting'[k].of = starting[k].of
    BY DEF Eased
  <2>5. s = held \/ (\E c \in Caller : shutting[c].of = s) =>
          s = held' \/ \E c \in Caller : shutting'[c].of = s
    BY <1>1, <2>1
  <2>6. QED
    BY <2>2, <2>3, <2>4, <2>5
<1>8. QED
  BY <1>3, <1>4, <1>5, <1>6, <1>7 DEF HeldInv

\* A session made by a call, the n-th: the respId's, or closed at once, or held
\* back until the old one is shut.
LEMMA MakesHeld ==
  ASSUME TypeOK, ShutsOne, HeldInv, OneRuns, setup.concurrent => Is("mistral"),
         NEW k \in Starts, Makes(k), shutting[k] = Resting
  PROVE  HeldInv'
<1> DEFINE n1 == made + 1
<1>1. /\ starting[k].pc = "dial" /\ made' = n1 /\ made < MaxStarts /\ setup' = setup
      /\ n1 \in Sessions /\ n1 \notin 1 .. made /\ 1 .. n1 = (1 .. made) \cup {n1}
      /\ n1 # 0 /\ n1 \in Nat /\ made <= n1
  BY MadeTyped DEF Makes, NativeStores, CascadeStores, MistralStores, CascadeFindsOld, Making,
                   HeldInv, Sessions
<1>2. (Native' <=> Native) /\ (Is("cascade")' <=> Is("cascade"))
  BY <1>1 DEF Native, Is
<1>3. /\ \A l \in Starts : l # k => starting'[l] = starting[l]
      /\ \/ starting'[k].pc = "channels" /\ starting'[k].of = starting[k].of
         \/ starting'[k].pc = "attach" /\ starting'[k].of = held' /\ Is("mistral")
         \/ starting'[k].pc = "old" /\ starting'[k].of = n1 /\ Is("cascade")
  <2>1. CASE NativeStores(k) \/ CascadeStores(k)
    <3>1. Kept(k, "channels")
      BY <2>1, GoesTo DEF NativeStores, CascadeStores
    <3>2. QED
      BY <3>1 DEF Kept, Moved
  <2>2. CASE MistralStores(k)
    BY <2>2 DEF MistralStores, TypeOK, StartState
  <2>3. CASE CascadeFindsOld(k)
    BY <2>3 DEF CascadeFindsOld, TypeOK, StartState
  <2>4. QED
    BY <2>1, <2>2, <2>3 DEF Makes
<1>4. /\ \A s \in Sessions : s # n1 => session'[s] = session[s]
      /\ \/ held' = n1 /\ (held = 0 \/ Native) /\ starting'[k].pc # "old"
         \/ held' = held /\ (held # 0) /\ session'[n1].ctx = "done" /\ starting'[k].pc # "old"
         \/ held' = held /\ (held # 0) /\ starting'[k].pc = "old" /\ Is("cascade")
  <2>1. CASE NativeStores(k) \/ CascadeStores(k)
    <3>1. Kept(k, "channels")
      BY <2>1, GoesTo DEF NativeStores, CascadeStores
    <3>2. QED
      BY <1>1, <2>1, <3>1 DEF NativeStores, CascadeStores, TypeOK, Kept, Moved
  <2>2. CASE MistralStores(k)
    <3>0. starting'[k].pc = "attach"
      BY <2>2 DEF MistralStores, TypeOK, StartState
    <3>1. session' = [session EXCEPT ![made + 1] =
                        [@ EXCEPT !.ctx = IF held = 0 THEN "live" ELSE "done", !.closed = held # 0]]
      BY <2>2 DEF MistralStores
    <3>2. \A s \in Sessions : s # n1 => session'[s] = session[s]
      BY <1>1, <3>1 DEF TypeOK
    <3>3. held # 0 => session'[n1].ctx = "done"
      BY <1>1, <3>1 DEF TypeOK, SessionState
    <3>4. QED
      BY <2>2, <3>0, <3>2, <3>3 DEF MistralStores
  <2>3. CASE CascadeFindsOld(k)
    BY <1>1, <1>3, <2>3 DEF CascadeFindsOld, TypeOK, StartState
  <2>4. QED
    BY <2>1, <2>2, <2>3 DEF Makes
<1>5. held' = n1 => held = 0
  <2>1. held # n1
    BY <1>1, MadeTyped DEF HeldInv
  <2>2. QED
    BY <1>1, <1>4, <2>1 DEF HeldInv, DialsFirst
<1>6. \/ UNCHANGED shutting /\ starting'[k].pc # "old"
      \/ /\ starting'[k].pc = "old" /\ held' = held /\ held # 0
         /\ \A d \in Caller : d # k => shutting'[d] = shutting[d]
         /\ shutting'[k] = [of |-> held, step |-> "first"]
  <2>1. CASE CascadeFindsOld(k)
    BY <2>1, Callers DEF CascadeFindsOld, TypeOK, StartState
  <2>2. CASE NativeStores(k) \/ CascadeStores(k)
    <3>1. Kept(k, "channels")
      BY <2>2, GoesTo DEF NativeStores, CascadeStores
    <3>2. QED
      BY <2>2, <3>1 DEF NativeStores, CascadeStores, Kept, Moved
  <2>3. CASE MistralStores(k)
    BY <2>3 DEF MistralStores, TypeOK, StartState
  <2>4. QED
    BY <2>1, <2>2, <2>3 DEF Makes
<1> HIDE DEF n1
<1>7. MadeSoFar'
  <2>1. held' <= made'
    BY <1>1, <1>4, MadeTyped DEF HeldInv
  <2>2. \A c \in Caller : shutting'[c].of <= made'
    BY <1>1, <1>6, MadeTyped DEF HeldInv
  <2>3. \A l \in Starts : /\ starting'[l].of <= made'
                          /\ starting'[l].pc = "attach" => starting'[l].of # 0
    <3>1. \A l \in Starts : starting[l].of <= made' /\ (starting[l].pc = "attach" => starting[l].of # 0)
      BY <1>1, MadeTyped DEF HeldInv, MadeSoFar
    <3>2. starting'[k].of <= made' /\ (starting'[k].pc = "attach" => starting'[k].of # 0)
      BY <1>1, <1>3, <1>4, <2>1, <3>1
    <3>3. QED
      BY <1>3, <3>1, <3>2
  <2>4. QED
    BY <2>1, <2>2, <2>3 DEF MadeSoFar
<1>8. CancelFirst'
  <2> SUFFICES ASSUME ~Native, NEW c \in Caller, shutting'[c].step = "second"
               PROVE  session'[shutting'[c].of].ctx = "done"
    BY <1>2 DEF CancelFirst
  <2>1. shutting'[c] = shutting[c]
    BY <1>6
  <2>2. shutting[c].of \in Sessions /\ session[shutting[c].of].ctx = "done"
    BY <2>1 DEF ShutsOne, HeldInv, CancelFirst
  <2>3. shutting[c].of # n1
    BY <1>1, MadeTyped DEF HeldInv, n1
  <2>4. QED
    BY <1>4, <2>1, <2>2, <2>3
\* Of calls that do not overlap one alone is under way.
<1>9. ~Is("mistral") => \A l \in Starts : l # k => starting[l].pc \notin {"dial", "old"}
  BY <1>1 DEF OneRuns, StartUnderWay
<1>10. DialsFirst'
  BY <1>2, <1>3, <1>9 DEF DialsFirst, Native, Is
<1>11. OldGoing'
  <2> SUFFICES ASSUME NEW l \in Starts, starting'[l].pc = "old"
               PROVE  /\ Is("cascade")
                      /\ held' = 0 \/ shutting'[l].of = held' \/ session'[held'].ctx = "done"
    BY <1>2 DEF OldGoing
  <2>1. l = k
    BY <1>3, <1>9 DEF HeldInv, OldGoing, Is
  <2>2. QED
    BY <1>3, <1>4, <1>6, <2>1
<1>12. UpstreamIsHeld'
  <2> SUFFICES ASSUME NEW s \in 1 .. made', session'[s].ctx = "live"
               PROVE  \/ s = held'
                      \/ \E c \in Caller : shutting'[c].of = s
                      \/ \E l \in Starts : starting'[l].pc = "old" /\ starting'[l].of = s
                      \/ session'[s].pump = "published"
    BY DEF UpstreamIsHeld
  <2>1. CASE s = n1
    BY <1>3, <1>4, <2>1
  <2>2. CASE s # n1
    <3>1. s \in 1 .. made /\ s \in Sessions /\ s # 0
      BY <1>1, <2>2, MadeTyped DEF HeldInv
    <3>2. session'[s] = session[s]
      BY <1>4, <2>2, <3>1
    <3>3. \/ s = held
          \/ \E c \in Caller : shutting[c].of = s
          \/ \E l \in Starts : starting[l].pc = "old" /\ starting[l].of = s
          \/ session[s].pump = "published"
      BY <3>1, <3>2 DEF HeldInv, UpstreamIsHeld
    <3>4. \A l \in Starts : starting[l].pc = "old" => starting'[l] = starting[l]
      BY <1>1, <1>3
    <3>5. s = held => s = held'
      BY <1>4, <1>5, <3>1
    <3>6. \A c \in Caller : shutting[c].of = s => shutting'[c].of = s
      BY <1>6, <3>1 DEF Resting
    <3>7. QED
      BY <3>2, <3>3, <3>4, <3>5, <3>6
  <2>3. QED
    BY <2>1, <2>2
<1>13. QED
  BY <1>7, <1>8, <1>10, <1>11, <1>12 DEF HeldInv

\* A step that at most cancels, and takes nothing.
SameCtx == \A s \in Sessions : session'[s].ctx = session[s].ctx

LEMMA StillHeld ==
  ASSUME TypeOK, ShutsOne, HeldInv, UNCHANGED <<setup, held, made, shutting>>,
         \A k \in Starts : Eased(k),
         \A s \in Sessions :
           \/ session'[s].ctx = "done"
           \/ /\ session'[s].ctx = session[s].ctx
              /\ session[s].pump = "published" => session'[s].pump = "published"
  PROVE  HeldInv'
<1>1. (Native' <=> Native) /\ (Is("cascade")' <=> Is("cascade"))
  BY DEF Native, Is
<1>2. MadeSoFar'
  BY MadeTyped DEF HeldInv, MadeSoFar, Eased
<1>3. \A s \in Sessions : session[s].ctx = "done" => session'[s].ctx = "done"
  OBVIOUS
<1>4. CancelFirst'
  BY <1>1, <1>3 DEF HeldInv, CancelFirst, ShutsOne
<1>5. DialsFirst'
  BY <1>1 DEF HeldInv, DialsFirst, Eased, Native, Is
<1>6. OldGoing'
  BY <1>1, <1>3, MadeTyped DEF HeldInv, OldGoing, Eased
<1>7. UpstreamIsHeld'
  <2> SUFFICES ASSUME NEW s \in 1 .. made, session'[s].ctx = "live"
               PROVE  \/ s = held
                      \/ \E c \in Caller : shutting[c].of = s
                      \/ \E k \in Starts : starting'[k].pc = "old" /\ starting'[k].of = s
                      \/ session'[s].pump = "published"
    BY DEF UpstreamIsHeld
  <2>1. s \in Sessions
    BY MadeTyped DEF HeldInv
  <2>2. session[s].ctx = "live" /\ (session[s].pump = "published" => session'[s].pump = "published")
    BY <2>1
  <2>3. \A k \in Starts : starting[k].pc = "old" =>
          starting'[k].pc = "old" /\ starting'[k].of = starting[k].of
    BY DEF Eased
  <2>4. QED
    BY <2>2, <2>3 DEF HeldInv, UpstreamIsHeld
<1>8. QED
  BY <1>2, <1>4, <1>5, <1>6, <1>7 DEF HeldInv

\* Once the old session is shut the new one takes its place.
LEMMA ReplacesHeld ==
  ASSUME TypeOK, ShutsOne, HeldInv, OneRuns, setup.concurrent => Is("mistral"),
         NEW k \in Starts, CascadeReplaces(k)
  PROVE  HeldInv'
<1> DEFINE new == starting[k].of
<1>1. /\ starting[k].pc = "old" /\ shutting[k] = Resting /\ held' = new
      /\ UNCHANGED <<setup, made, shutting>> /\ Is("cascade")
      /\ held = 0 \/ session[held].ctx = "done" \/ shutting[k].of = held
  BY DEF CascadeReplaces, HeldInv, OldGoing
<1>2. (Native' <=> Native) /\ (Is("cascade")' <=> Is("cascade")) /\ ~Native
  BY <1>1 DEF Native, Is
<1>3. Kept(k, "channels")
  BY GoesTo DEF CascadeReplaces
<1>4. SameCtx
  BY DEF CascadeReplaces, SameCtx, TypeOK, SessionState
<1>5. shutting[k].of = 0
  BY <1>1 DEF Resting
<1>6. \A l \in Starts : l # k => starting[l].pc # "old"
  BY <1>1, <1>2 DEF OneRuns, StartUnderWay, Is
<1>7. MadeSoFar'
  <2>1. new <= made
    BY DEF HeldInv, MadeSoFar
  <2>2. \A l \in Starts : /\ starting'[l].of <= made'
                          /\ starting'[l].pc = "attach" => starting'[l].of # 0
    BY <1>1, <1>3 DEF HeldInv, MadeSoFar, Kept, Moved
  <2>3. QED
    BY <1>1, <2>1, <2>2 DEF HeldInv, MadeSoFar
<1>8. CancelFirst'
  BY <1>1, <1>2, <1>4 DEF HeldInv, CancelFirst, SameCtx, ShutsOne
<1>9. DialsFirst'
  BY <1>2 DEF DialsFirst
<1>10. OldGoing'
  BY <1>3, <1>6 DEF OldGoing, Kept, Moved
<1>11. UpstreamIsHeld'
  <2> SUFFICES ASSUME NEW s \in 1 .. made, session'[s].ctx = "live", s # held'
               PROVE  \/ \E c \in Caller : shutting'[c].of = s
                      \/ session'[s].pump = "published"
    BY <1>1 DEF UpstreamIsHeld
  <2>1. s \in Sessions /\ s # 0 /\ (held # 0 => held \in Sessions)
    BY MadeTyped DEF HeldInv
  <2>2. session[s].ctx = "live" /\ session'[s] = session[s]
    BY <1>1, <1>4, <2>1 DEF CascadeReplaces, SameCtx, TypeOK
  <2>3. s # held
    BY <1>1, <1>5, <2>1, <2>2
  <2>4. \A l \in Starts : ~(starting[l].pc = "old" /\ starting[l].of = s)
    BY <1>1, <1>6
  <2>5. QED
    BY <1>1, <2>2, <2>3, <2>4 DEF HeldInv, UpstreamIsHeld
<1>12. QED
  BY <1>7, <1>8, <1>9, <1>10, <1>11 DEF HeldInv

\* The STT stream is attached to a session that has no reader.
LEMMA AttachesHeld ==
  ASSUME TypeOK, ShutsOne, HeldInv, NEW k \in Starts, Attaches(k), setup' = setup
  PROVE  HeldInv'
<1>1. /\ UNCHANGED <<held, made, shutting>> /\ starting[k].pc = "attach"
      /\ Kept(k, "channels") /\ SameCtx
      /\ \A s \in Sessions : session[s].pump = "published" => session'[s].pump = "published"
  BY DEF Attaches, SameCtx, TypeOK, SessionState
<1>2. \A l \in Starts : Eased(l)
  BY <1>1 DEF Kept, Moved, Eased
<1>3. QED
  BY <1>1, <1>2, StillHeld DEF SameCtx

\* CloseRealtimeSession: what it has in hand is cancelled before it lets go.
LEMMA ShutsHeld ==
  ASSUME TypeOK, ShutsOne, HeldInv, NEW c \in Caller, Shuts(c) PROVE HeldInv'
<1> DEFINE s == shutting[c].of
<1>1. /\ s \in Sessions /\ shutting[c].step \in {"first", "second"}
      /\ UNCHANGED <<setup, held, made, starting>>
      /\ \A d \in Caller : d # c => shutting'[d] = shutting[d]
      /\ \A t \in Sessions : t # s => session'[t] = session[t]
      /\ session'[s].pump = session[s].pump
      /\ session[s].ctx = "done" => session'[s].ctx = "done"
  BY DEF Shuts, CloseChannels, CancelUpstream, ShutsOne, TypeOK, ShutState, SessionState
<1>2. \/ shutting[c].step = "first" /\ shutting'[c] = [shutting[c] EXCEPT !.step = "second"]
      \/ shutting[c].step = "second" /\ shutting'[c] = Resting
  BY <1>1 DEF Shuts, CloseChannels, CancelUpstream, TypeOK
<1>3. (Native' <=> Native) /\ (Is("cascade")' <=> Is("cascade"))
  BY <1>1 DEF Native, Is
<1>4. /\ Native /\ shutting[c].step = "second" => session'[s].ctx = "done"
      /\ ~Native /\ shutting[c].step = "first" => session'[s].ctx = "done"
  <2>1. CancelUpstream(c) => session'[s].ctx = "done"
    BY <1>1 DEF CancelUpstream, TypeOK, SessionState
  <2>2. Native /\ shutting[c].step = "second" => ~CloseChannels(c)
    BY DEF CloseChannels, ChannelsFirst
  <2>3. ~Native /\ shutting[c].step = "first" => ~CloseChannels(c)
    BY DEF CloseChannels, ChannelsFirst
  <2>4. QED
    BY <2>1, <2>2, <2>3 DEF Shuts
<1>5. shutting[c].step = "second" => session'[s].ctx = "done"
  BY <1>1, <1>4 DEF HeldInv, CancelFirst
<1>6. \/ shutting[c].step = "first" /\ shutting'[c].of = s /\ shutting'[c].step = "second"
      \/ shutting[c].step = "second" /\ shutting'[c].of = 0 /\ shutting'[c].step = "none"
  BY <1>2 DEF Resting, TypeOK, ShutState
<1>7. MadeSoFar'
  BY <1>1, <1>6, MadeTyped DEF HeldInv, MadeSoFar
<1>8. CancelFirst'
  <2> SUFFICES ASSUME ~Native, NEW d \in Caller, shutting'[d].step = "second"
               PROVE  session'[shutting'[d].of].ctx = "done"
    BY <1>3 DEF CancelFirst
  <2>1. CASE d = c
    BY <1>4, <1>6, <2>1
  <2>2. CASE d # c
    <3>1. shutting'[d] = shutting[d] /\ shutting[d].of \in Sessions
      BY <1>1, <2>2 DEF ShutsOne
    <3>2. session[shutting[d].of].ctx = "done"
      BY <3>1 DEF HeldInv, CancelFirst
    <3>3. QED
      BY <1>1, <3>1, <3>2
  <2>3. QED
    BY <2>1, <2>2
<1>9. DialsFirst'
  BY <1>1, <1>3 DEF HeldInv, DialsFirst
<1>10. OldGoing'
  <2> SUFFICES ASSUME NEW k \in Starts, starting[k].pc = "old"
               PROVE  /\ Is("cascade")
                      /\ held = 0 \/ shutting'[k].of = held \/ session'[held].ctx = "done"
    BY <1>1, <1>3 DEF OldGoing
  <2>1. Is("cascade") /\ (held = 0 \/ shutting[k].of = held \/ session[held].ctx = "done")
    BY DEF HeldInv, OldGoing
  <2>2. CASE session[held].ctx = "done" /\ held # 0
    <3>1. held \in Sessions
      BY <2>2, MadeTyped DEF HeldInv
    <3>2. QED
      BY <1>1, <2>1, <2>2, <3>1
  <2>3. CASE shutting[k].of = held
    <3>1. k # c \/ shutting'[k].of = held \/ session'[held].ctx = "done"
      BY <1>5, <1>6, <2>3
    <3>2. QED
      BY <1>1, <2>1, <2>3, <3>1, Callers
  <2>4. QED
    BY <2>1, <2>2, <2>3
<1>11. UpstreamIsHeld'
  <2> SUFFICES ASSUME NEW t \in 1 .. made, session'[t].ctx = "live"
               PROVE  \/ t = held
                      \/ \E d \in Caller : shutting'[d].of = t
                      \/ \E k \in Starts : starting[k].pc = "old" /\ starting[k].of = t
                      \/ session'[t].pump = "published"
    BY <1>1 DEF UpstreamIsHeld
  <2>1. t \in Sessions
    BY MadeTyped DEF HeldInv
  <2>2. session[t].ctx = "live" /\ session'[t].pump = session[t].pump
    <3>1. session[t].ctx \in {"live", "done"}
      BY <2>1 DEF TypeOK, SessionState
    <3>2. QED
      BY <1>1, <2>1, <3>1
  <2>3. \/ t = held
        \/ \E d \in Caller : shutting[d].of = t
        \/ \E k \in Starts : starting[k].pc = "old" /\ starting[k].of = t
        \/ session[t].pump = "published"
    BY <2>2 DEF HeldInv, UpstreamIsHeld
  <2>4. \A d \in Caller : shutting[d].of = t => shutting'[d].of = t
    BY <1>1, <1>5, <1>6
  <2>5. QED
    BY <2>2, <2>3, <2>4
<1>12. QED
  BY <1>7, <1>8, <1>9, <1>10, <1>11 DEF HeldInv

\* A reader that ends cancels, or leaves the context as it was.
LEMMA PumpsHeld ==
  ASSUME TypeOK, ShutsOne, HeldInv, NEW s \in Sessions, Pumps(s) PROVE HeldInv'
<1>1. /\ UNCHANGED <<setup, held, made, starting, shutting>>
      /\ \A t \in Sessions : t # s => session'[t] = session[t]
  BY DEF Pumps, PumpEnds, PumpCancels, SttEnds, TypeOK
<1>2. \/ session'[s].ctx = "done"
      \/ /\ session'[s].ctx = session[s].ctx
         /\ session[s].pump # "published"
  BY DEF Pumps, PumpEnds, PumpCancels, SttEnds, TypeOK, SessionState
<1>3. \A t \in Sessions :
        \/ session'[t].ctx = "done"
        \/ /\ session'[t].ctx = session[t].ctx
           /\ session[t].pump = "published" => session'[t].pump = "published"
  BY <1>1, <1>2
<1>4. \A k \in Starts : Eased(k)
  BY <1>1 DEF Eased
<1>5. QED
  BY <1>1, <1>3, <1>4, StillHeld

LEMMA CallHeld ==
  ASSUME TypeOK, ShutsOne, HeldInv, AloneInv, setup.concurrent => Is("mistral"),
         NEW k \in Starts, Calls(k)
  PROVE  HeldInv'
<1>1. /\ UNCHANGED <<setup, closing, disconnect>>
      /\ \A l \in Starts : l # k => starting'[l] = starting[l]
  BY CallGuards
<1>2. k \in Caller /\ (starting[k].pc \notin {"old", "rollback"} => shutting[k] = Resting)
  BY Callers, CallersApart DEF AloneInv, ShutterOnly, Shutter
<1>3. \A l \in Starts : l # k => Eased(l)
  BY <1>1 DEF Eased
<1>4. starting[k].pc = "attach" => starting[k].of \in Sessions
  BY MadeTyped DEF HeldInv, MadeSoFar, Sessions
<1>5. CASE Onward(k)
  <2>1. Eased(k) /\ SameUps /\ UNCHANGED <<held, made, shutting>>
    BY <1>5 DEF Onward, Moved, Eased, SameUps
  <2>2. QED
    BY <1>1, <1>3, <2>1, EasedHeld
<1>6. CASE Back(k)
  <2>1. Eased(k) /\ SameUps /\ Take(k) /\ made' = made /\ shutting[k] = Resting
    BY <1>2, <1>6 DEF Back, Kept, Moved, Eased, SameUps
  <2>2. QED
    BY <1>1, <1>2, <1>3, <2>1, EasedHeld
<1>7. CASE Makes(k)
  <2>1. starting[k].pc = "dial"
    BY <1>7 DEF Makes, NativeStores, CascadeStores, MistralStores, CascadeFindsOld, Making
  <2>2. QED
    BY <1>2, <1>7, <2>1, MakesHeld DEF AloneInv
<1>8. CASE CascadeReplaces(k)
  BY <1>8, ReplacesHeld DEF AloneInv
<1>9. CASE Attaches(k)
  BY <1>1, <1>9, AttachesHeld
<1>10. QED
  BY <1>4, <1>5, <1>6, <1>7, <1>8, <1>9, CallKinds

LEMMA OtherHeld ==
  ASSUME TypeOK, ShutsOne, HeldInv, AloneInv,
         \/ \E c \in Closes : Closing(c)
         \/ \E k \in Starts : Bridges(k)
         \/ DisconnectUser \/ DisconnectReturns
         \/ \E h \in Chans : GuardSends(h)
         \/ UNCHANGED vars
  PROVE  HeldInv'
<1>1. UNCHANGED <<setup, made, starting>>
  BY DEF Closing, CloseSession, CloseUnsubscribes, CloseCancels, CloseDisconnects, CloseReturns,
         Bridges, BridgeForwards, BridgeEnds, ClosesEntry, ClosesErrCh, DisconnectUser,
         DisconnectReturns, GuardSends, vars
<1>2. \A k \in Starts : Eased(k)
  BY <1>1 DEF Eased
<1>3. SameUps
  <2>1. session' = session \/ \E h : session' = [session EXCEPT ![held].subs = @ \ {h}]
    BY DEF Closing, CloseSession, CloseUnsubscribes, CloseCancels, CloseDisconnects, CloseReturns,
           Bridges, BridgeForwards, BridgeEnds, ClosesEntry, ClosesErrCh, DisconnectUser,
           DisconnectReturns, GuardSends, vars, Unsubscribed
  <2>2. QED
    BY <2>1 DEF TypeOK, SessionState, SameUps
<1>4. \/ UNCHANGED <<held, shutting>>
      \/ \E c \in Caller : Take(c) /\ shutting[c] = Resting
  <2>1. ASSUME NEW c \in Closes, CloseDisconnects(c)
        PROVE  c \in Caller /\ Take(c) /\ shutting[c] = Resting
    <3>1. c \in Caller /\ ~Shutter(c)
      BY <2>1, Callers, CallersApart DEF Shutter, CloseDisconnects
    <3>2. QED
      BY <2>1, <3>1 DEF CloseDisconnects, AloneInv, ShutterOnly
  <2>2. CASE DisconnectUser
    <3>1. Disconnecter \in Caller /\ ~Shutter(Disconnecter)
      BY <2>2, Callers, CallersApart DEF Shutter, DisconnectUser
    <3>2. QED
      BY <2>2, <3>1 DEF DisconnectUser, AloneInv, ShutterOnly
  <2>3. QED
    BY <2>1, <2>2 DEF Closing, CloseSession, CloseUnsubscribes, CloseCancels, CloseReturns,
       Bridges, BridgeForwards, BridgeEnds, ClosesEntry, ClosesErrCh, DisconnectReturns,
       GuardSends, vars
<1>5. QED
  BY <1>1, <1>2, <1>3, <1>4, EasedHeld

LEMMA AloneStep == TypeOK /\ HeldInv /\ AloneInv /\ [Next]_vars => AloneInv'
<1> SUFFICES ASSUME TypeOK, HeldInv, AloneInv, [Next]_vars PROVE AloneInv'
  OBVIOUS
<1>1. \A k \in Starts : starting[k].pc = "attach" => starting[k].of \in Sessions
  BY MadeTyped DEF HeldInv, MadeSoFar, Sessions
<1>2. ASSUME NEW k \in Starts, Calls(k) PROVE AloneInv'
  BY <1>1, <1>2, CallAlone, CallShutter DEF AloneInv
<1>3. CASE \A k \in Starts : ~Calls(k)
  BY <1>3, OtherAlone, OtherShutter DEF AloneInv
<1>4. QED
  BY <1>2, <1>3


-----------------------------------------------------------------------------
\* A call that is alone subscribes, forks its bridge and registers undisturbed.
Calm == ~setup.concurrent /\ ~setup.racing
Served(k) == starting[k].pc = "served"
Subscribed(k) == starting[k].pc \in {"fork", "register"} \/ (starting[k].pc = "check" /\ starting[k].sub = 2)
Opened == \A k \in Starts : Subscribed(k) => chan[Chan(k, 2)].state = "open"
Bridged == \A k \in Starts :
  /\ starting[k].pc \notin {"register", "served"} => bridge[k] = "none" /\ closer[k] = "none"
  /\ starting[k].pc = "register" => bridge[k] = "reads" /\ closer[k] = "waits"
\* An entry, in the registry or taken from it, is of a call that has returned.
Entered == /\ registry # 0 => registry \in Starts /\ Served(registry)
           /\ \A k \in ended : k \in Starts /\ Served(k)
           /\ \A c \in Closes : closing[c].pc \in {"unsubscribe", "cancel"} =>
                closing[c].entry \in Starts /\ Served(closing[c].entry)
Unregistered == \A k \in Starts : Served(k) /\ closer[k] \in {"deleted", "over"} => registry # k
LeftInv == Opened /\ Bridged /\ Entered /\ Unregistered

SameStates == \A h \in Chans : chan'[h].state = chan[h].state

LEMMA CallOpened ==
  ASSUME TypeOK, OneRuns, Calm, LeftInv, NEW k \in Starts, Calls(k)
  PROVE  Opened'
<1>1. /\ \A l \in Starts : l # k => starting'[l] = starting[l]
      /\ StartUnderWay(k) \/ Quiet
  BY CallGuards DEF Calm
<1>2. \A l \in Starts : l # k => ~Subscribed(l)'
  <2>1. \A l \in Starts : l # k => ~StartUnderWay(l)
    BY <1>1 DEF OneRuns, Calm, Quiet
  <2>2. QED
    BY <1>1, <2>1 DEF StartUnderWay, Subscribed
<1>3. Subscribed(k)' => chan'[Chan(k, 2)].state = "open"
  <2>1. CASE AddSubscriber(k)
    <3>1. starting[k].sub = 2 => chan'[Chan(k, 2)].state = "open"
      BY <2>1, ChanInRange DEF AddSubscriber, TypeOK, ChanState
    <3>2. starting[k].sub = 1 => ~Subscribed(k)'
      <4>1. CASE starting' = [starting EXCEPT ![k] = NextSub(k)]
        BY <4>1, NextSubMoves DEF Subscribed, Kept, Moved
      <4>2. CASE starting' = [starting EXCEPT ![k] = [@ EXCEPT !.pc = "check"]]
        <5>1. starting'[k].pc = "check" /\ starting'[k].sub = starting[k].sub
          BY <4>2 DEF TypeOK, StartState
        <5>2. QED
          BY <5>1 DEF Subscribed
      <4>3. QED
        BY <2>1, <4>1, <4>2 DEF AddSubscriber
    <3>3. starting[k].sub \in 1 .. 2
      BY DEF TypeOK, StartState
    <3>4. QED
      BY <3>1, <3>2, <3>3
  <2>2. CASE RaceGuard(k)
    <3>1. /\ starting' = [starting EXCEPT ![k] = NextSub(k)] /\ starting[k].pc = "check"
          /\ UNCHANGED chan
      BY <2>2 DEF RaceGuard
    <3>2. starting[k].sub = 2 => Subscribed(k)
      BY <3>1 DEF Subscribed
    <3>3. starting[k].sub = 1 => ~Subscribed(k)'
      BY <3>1, NextSubMoves DEF Subscribed, Kept, Moved
    <3>4. starting[k].sub \in 1 .. 2
      BY DEF TypeOK, StartState
    <3>5. QED
      BY <3>1, <3>2, <3>3, <3>4 DEF LeftInv, Opened
  <2>3. CASE ForkBridge(k)
    BY <2>3 DEF ForkBridge, LeftInv, Opened, Subscribed
  <2>4. CASE ~AddSubscriber(k) /\ ~RaceGuard(k) /\ ~ForkBridge(k)
    <3>1. \E pc \in StartPc \ {"fork", "register", "check"} : starting'[k].pc = pc
      <4>1. CASE Refused(k)
        BY <4>1, GoesTo DEF Refused, RollsBack, Kept, Moved, StartPc
      <4>2. CASE MistralStores(k) \/ CascadeFindsOld(k)
        BY <4>2 DEF MistralStores, CascadeFindsOld, TypeOK, StartState, StartPc
      <4>3. CASE FindSession(k) /\ ~Refused(k)
        BY <4>3 DEF FindSession, TypeOK, StartState, StartPc
      <4>4. ASSUME NEW pc \in StartPc \ {"fork", "register", "check"}, Goto(k, pc)
            PROVE  \E q \in StartPc \ {"fork", "register", "check"} : starting'[k].pc = q
        BY <4>4, GoesTo DEF Kept, Moved
      <4>5. CASE \/ StartSession(k) \/ Fails(k) \/ NativeStores(k) \/ CascadeStores(k)
                 \/ CascadeReplaces(k) \/ MistralAttaches(k) \/ GetChannels(k)
                 \/ RegisterSession(k) \/ RolledBack(k)
        <5>1. PICK pc \in StartPc \ {"fork", "register", "check"} : Goto(k, pc)
          BY <4>5 DEF StartSession, Fails, NativeStores, CascadeStores, CascadeReplaces,
             MistralAttaches, GetChannels, RollsBack, RegisterSession, RolledBack, StartPc
        <5>2. QED
          BY <5>1, <4>4
      <4>6. QED
        BY <2>4, <4>1, <4>2, <4>3, <4>5 DEF Calls, RefusesClosed
    <3>2. QED
      BY <3>1 DEF Subscribed
  <2>5. QED
    BY <2>1, <2>2, <2>3, <2>4
<1>4. QED
  BY <1>2, <1>3 DEF Opened, Chan

LEMMA CallLeft ==
  ASSUME TypeOK, OneRuns, Calm, LeftInv, NEW k \in Starts, Calls(k)
  PROVE  LeftInv'
<1>0. k # 0
  BY DEF Starts
<1>1. /\ \A l \in Starts : l # k => starting'[l] = starting[l]
      /\ UNCHANGED <<closing, ended>>
  BY CallGuards
<1>2. starting[k].pc # "served"
  BY DEF Calls, StartSession, Fails, NativeStores, MistralStores, CascadeStores, CascadeFindsOld,
         CascadeReplaces, MistralAttaches, GetChannels, FindSession, RefusesClosed, AddSubscriber,
         RaceGuard, ForkBridge, RegisterSession, RolledBack, Making
<1>3. \A l \in Starts : Served(l) => Served(l)'
  BY <1>1, <1>2 DEF Served
<1>4. CASE ForkBridge(k)
  <2>1. /\ bridge'[k] = "reads" /\ closer'[k] = "waits" /\ UNCHANGED registry
        /\ \A l \in Starts : l # k => bridge'[l] = bridge[l] /\ closer'[l] = closer[l]
    BY <1>4 DEF ForkBridge, TypeOK
  <2>2. starting'[k].pc = "register"
    BY <1>4, GoesTo DEF ForkBridge, Kept, Moved
  <2>3. Bridged' /\ Entered' /\ Unregistered'
    BY <1>1, <1>3, <2>1, <2>2 DEF LeftInv, Bridged, Entered, Unregistered, Served
  <2>4. QED
    BY <2>3, CallOpened DEF LeftInv
<1>5. CASE RegisterSession(k)
  <2>1. UNCHANGED <<bridge, closer>> /\ registry' = k /\ starting[k].pc = "register"
    BY <1>5 DEF RegisterSession, goroutines
  <2>2. starting'[k].pc = "served"
    BY <1>5, GoesTo DEF RegisterSession, Kept, Moved
  <2>3. Bridged' /\ Entered'
    BY <1>1, <1>3, <2>1, <2>2 DEF LeftInv, Bridged, Entered, Served
  <2>4. Unregistered'
    BY <1>1, <2>1 DEF LeftInv, Bridged, Unregistered, Served
  <2>5. QED
    BY <2>3, <2>4, CallOpened DEF LeftInv
<1>6. CASE ~ForkBridge(k) /\ ~RegisterSession(k)
  <2>1. UNCHANGED <<bridge, closer, registry>>
    BY <1>6 DEF Calls, StartSession, Fails, NativeStores, MistralStores, CascadeStores,
       CascadeFindsOld, CascadeReplaces, MistralAttaches, GetChannels, FindSession, RefusesClosed,
       AddSubscriber, RaceGuard, RolledBack, Making, goroutines
  <2>2. starting[k].pc # "register"
    BY <1>6 DEF Calls, StartSession, Fails, NativeStores, MistralStores, CascadeStores,
       CascadeFindsOld, CascadeReplaces, MistralAttaches, GetChannels, FindSession, RefusesClosed,
       AddSubscriber, RaceGuard, RolledBack, Making
  <2>3. bridge[k] = "none" /\ closer[k] = "none"
    BY <1>2, <2>2 DEF LeftInv, Bridged
  <2>4. starting'[k].pc # "register"
    <3>1. \A pc : Goto(k, pc) => starting'[k].pc = pc
      BY GoesTo DEF Kept, Moved
    <3>2. CASE Refused(k)
      BY <3>1, <3>2 DEF Refused, RollsBack
    <3>3. CASE MistralStores(k) \/ CascadeFindsOld(k)
      BY <3>3 DEF MistralStores, CascadeFindsOld, TypeOK, StartState
    <3>4. CASE FindSession(k) /\ ~Refused(k)
      BY <3>4 DEF FindSession, TypeOK, StartState
    <3>5. CASE AddSubscriber(k) \/ RaceGuard(k)
      <4>1. CASE starting' = [starting EXCEPT ![k] = NextSub(k)]
        BY <4>1, NextSubMoves DEF Kept, Moved
      <4>2. CASE starting' = [starting EXCEPT ![k] = [@ EXCEPT !.pc = "check"]]
        BY <4>2 DEF TypeOK, StartState
      <4>3. QED
        BY <3>5, <4>1, <4>2 DEF AddSubscriber, RaceGuard
    <3>6. CASE \/ StartSession(k) \/ Fails(k) \/ NativeStores(k) \/ CascadeStores(k)
               \/ CascadeReplaces(k) \/ MistralAttaches(k) \/ GetChannels(k) \/ RolledBack(k)
      BY <3>1, <3>6 DEF StartSession, Fails, NativeStores, CascadeStores, CascadeReplaces,
         MistralAttaches, GetChannels, RollsBack, RolledBack
    <3>7. QED
      BY <1>6, <3>2, <3>3, <3>4, <3>5, <3>6 DEF Calls, RefusesClosed
  <2>5. Bridged' /\ Entered' /\ Unregistered'
    BY <1>1, <1>3, <2>1, <2>3, <2>4 DEF LeftInv, Bridged, Entered, Unregistered, Served
  <2>6. QED
    BY <2>5, CallOpened DEF LeftInv
<1>7. QED
  BY <1>4, <1>5, <1>6

LEMMA OpenedKept ==
  ASSUME LeftInv, UNCHANGED starting, SameStates \/ \A k \in Starts : ~Subscribed(k)
  PROVE  Opened'
<1>1. \A k \in Starts : Chan(k, 2) \in Chans
  BY ChanInRange
<1>2. QED
  BY <1>1 DEF LeftInv, Opened, Subscribed, SameStates, Chan

LEMMA BridgeLeft ==
  ASSUME TypeOK, LeftInv, NEW k \in Starts, Bridges(k)
  PROVE  LeftInv'
<1>0. k # 0
  BY DEF Starts
<1>1. UNCHANGED <<starting, closing, ended>> /\ SameStates
  BY DEF Bridges, BridgeForwards, BridgeEnds, ClosesEntry, ClosesErrCh, SameStates, TypeOK, ChanState
<1>2. Opened'
  BY <1>1, OpenedKept
<1>3. CASE BridgeForwards(k)
  <2>1. UNCHANGED <<bridge, closer, registry>>
    BY <1>3 DEF BridgeForwards
  <2>2. QED
    BY <1>1, <1>2, <2>1 DEF LeftInv, Bridged, Entered, Unregistered, Served
<1>4. CASE BridgeEnds(k)
  <2>1. /\ bridge[k] = "reads" /\ UNCHANGED <<closer, registry>>
        /\ \A l \in Starts : l # k => bridge'[l] = bridge[l]
        /\ k \in ended \/ chan[Chan(k, 2)].state = "closed"
    BY <1>4 DEF BridgeEnds, TypeOK
  <2>2. starting[k].pc # "register"
    BY <2>1 DEF LeftInv, Opened, Subscribed, Entered, Served
  <2>3. Served(k)
    BY <2>1, <2>2 DEF LeftInv, Bridged, Served
  <2>4. Bridged' /\ Entered' /\ Unregistered'
    BY <1>1, <2>1, <2>3 DEF LeftInv, Bridged, Entered, Unregistered, Served
  <2>5. QED
    BY <1>2, <2>4 DEF LeftInv
<1>5. CASE ClosesEntry(k) \/ ClosesErrCh(k)
  <2>1. /\ closer[k] = "deleted" \/ (closer[k] = "waits" /\ bridge[k] = "over")
        /\ \A l \in Starts : l # k => closer'[l] = closer[l]
        /\ UNCHANGED bridge /\ registry' \in {registry, 0}
        /\ registry' = 0 \/ closer[k] = "deleted"
    BY <1>5 DEF ClosesEntry, ClosesErrCh, TypeOK
  <2>2. Served(k)
    BY <2>1 DEF LeftInv, Bridged, Served
  <2>3. Bridged' /\ Entered'
    BY <1>1, <2>1, <2>2 DEF LeftInv, Bridged, Entered, Served
  <2>4. Unregistered'
    BY <1>0, <1>1, <2>1, <2>2 DEF LeftInv, Unregistered, Served, Starts
  <2>5. QED
    BY <1>2, <2>3, <2>4 DEF LeftInv
<1>6. QED
  BY <1>3, <1>4, <1>5 DEF Bridges

LEMMA ClosingLeft ==
  ASSUME TypeOK, OneRuns, Calm, LeftInv, NEW c \in Closes, Closing(c)
  PROVE  LeftInv'
<1>1. /\ UNCHANGED <<starting, bridge, closer>>
      /\ \A d \in Closes : d # c => closing'[d] = closing[d]
      /\ registry' \in {registry, 0}
  BY DEF Closing, CloseSession, CloseUnsubscribes, CloseCancels, CloseDisconnects, CloseReturns,
         goroutines, TypeOK
<1>2. Opened'
  <2>1. CASE CloseUnsubscribes(c)
    <3>1. CloseUnderWay(c)
      BY <2>1 DEF CloseUnsubscribes, CloseUnderWay
    <3>2. \A k \in Starts : ~Subscribed(k)
      BY <3>1 DEF OneRuns, Calm, Subscribed, StartUnderWay
    <3>3. QED
      BY <1>1, <3>2, OpenedKept
  <2>2. CASE ~CloseUnsubscribes(c)
    <3>1. SameStates
      BY <2>2 DEF Closing, CloseSession, CloseCancels, CloseDisconnects, CloseReturns, SameStates
    <3>2. QED
      BY <1>1, <3>1, OpenedKept
  <2>3. QED
    BY <2>1, <2>2
<1>3. Bridged' /\ Unregistered'
  <2>1. 0 \notin Starts
    BY DEF Starts
  <2>2. QED
    BY <1>1, <2>1 DEF LeftInv, Bridged, Unregistered, Served
<1>4. /\ closing'[c].pc \in {"unsubscribe", "cancel"} =>
           \/ closing'[c].entry = registry /\ registry # 0
           \/ closing'[c].entry = closing[c].entry /\ closing[c].pc \in {"unsubscribe", "cancel"}
      /\ ended' = ended \/ (ended' = ended \cup {closing[c].entry} /\ closing[c].pc = "cancel")
  BY DEF Closing, CloseSession, CloseUnsubscribes, CloseCancels, CloseDisconnects, CloseReturns,
         TypeOK, CloseState
<1>5. Entered'
  BY <1>1, <1>4 DEF LeftInv, Entered, Served
<1>6. QED
  BY <1>2, <1>3, <1>5 DEF LeftInv

LEMMA ShutsLeft ==
  ASSUME TypeOK, AloneInv, Calm, LeftInv, NEW c \in Caller, Shuts(c)
  PROVE  LeftInv'
<1>1. UNCHANGED <<starting, bridge, closer, registry, closing, ended>>
  BY DEF Shuts, CloseChannels, CancelUpstream, goroutines
<1>2. Shutter(c)
  BY DEF Shuts, CloseChannels, CancelUpstream, AloneInv, ShutterOnly, Resting
<1>3. \A k \in Starts : ~Subscribed(k)
  <2> SUFFICES ASSUME NEW k \in Starts, Subscribed(k) PROVE FALSE
    OBVIOUS
  <2>1. /\ StartUnderWay(k) /\ starting[k].pc \notin {"old", "rollback"}
    BY DEF Subscribed, StartUnderWay
  <2>2. CASE c \in Starts /\ starting[c].pc \in {"old", "rollback"}
    BY <2>1, <2>2 DEF AloneInv, OneRuns, Calm, StartUnderWay
  <2>3. CASE c \in Closes /\ closing[c].pc = "shut"
    BY <2>1, <2>3 DEF AloneInv, OneRuns, Calm, CloseUnderWay
  <2>4. CASE disconnect = "shut"
    BY <2>1, <2>4 DEF AloneInv, OneRuns, Calm
  <2>5. QED
    BY <1>2, <2>2, <2>3, <2>4 DEF Shutter
<1>4. Opened'
  BY <1>1, <1>3, OpenedKept
<1>5. QED
  BY <1>1, <1>4 DEF LeftInv, Bridged, Entered, Unregistered, Served

LEMMA OtherLeft ==
  ASSUME TypeOK, LeftInv,
         \/ \E s \in Sessions : Pumps(s)
         \/ DisconnectUser \/ DisconnectReturns
         \/ \E h \in Chans : GuardSends(h)
         \/ UNCHANGED vars
  PROVE  LeftInv'
<1>1. UNCHANGED <<starting, bridge, closer, registry, closing, ended>>
  BY DEF Pumps, PumpEnds, PumpCancels, SttEnds, DisconnectUser, DisconnectReturns, GuardSends,
         goroutines, vars
<1>2. SameStates
  <2>1. ASSUME NEW s \in Sessions, Published(s) PROVE SameStates
    BY <2>1 DEF Published, TypeOK, ChanState, SameStates
  <2>2. ASSUME NEW h \in Chans, chan' = [chan EXCEPT ![h].error = TRUE] PROVE SameStates
    BY <2>2 DEF TypeOK, ChanState, SameStates
  <2>3. CASE UNCHANGED chan
    BY <2>3 DEF SameStates
  <2>4. QED
    BY <2>1, <2>2, <2>3 DEF Pumps, PumpEnds, PumpCancels, SttEnds, DisconnectUser,
       DisconnectReturns, GuardSends, goroutines, vars
<1>3. Opened'
  BY <1>1, <1>2, OpenedKept
<1>4. QED
  BY <1>1, <1>3 DEF LeftInv, Bridged, Entered, Unregistered, Served

\* Calls of one respId that overlap: only Mistral asks again whether it is the first.
OverlapsServed == setup.concurrent => Is("mistral")

LEMMA LeftInit == Init => HeldInv /\ AloneInv /\ LeftInv
<1> SUFFICES ASSUME Init PROVE HeldInv /\ AloneInv /\ LeftInv
  OBVIOUS
<1>1. /\ held = 0 /\ made = 0 /\ registry = 0 /\ ended = {} /\ disconnect = "idle"
      /\ \A k \in Starts : /\ starting[k].pc = "idle" /\ starting[k].of = 0
                           /\ bridge[k] = "none" /\ closer[k] = "none"
      /\ \A c \in Closes : closing[c].pc = "idle"
      /\ \A c \in Caller : shutting[c] = Resting
  BY DEF Init
<1>2. Resting.of = 0 /\ Resting.step = "none"
  BY DEF Resting
<1>3. HeldInv
  <2>1. MadeSoFar
    BY <1>1, <1>2 DEF MadeSoFar
  <2>2. CancelFirst /\ DialsFirst /\ OldGoing
    BY <1>1, <1>2 DEF CancelFirst, DialsFirst, OldGoing
  <2>3. UpstreamIsHeld
    <3>1. 1 .. made = {}
      BY <1>1
    <3>2. QED
      BY <3>1 DEF UpstreamIsHeld
  <2>4. QED
    BY <2>1, <2>2, <2>3 DEF HeldInv
<1>4. AloneInv
  BY <1>1 DEF AloneInv, ShutterOnly, OneRuns, StartUnderWay
<1>5. LeftInv
  BY <1>1 DEF LeftInv, Opened, Subscribed, Bridged, Entered, Unregistered, Served
<1>6. QED
  BY <1>3, <1>4, <1>5

LEMMA SetupStays == [Next]_vars => setup' = setup
BY DEF Next, Calls, StartSession, Fails, NativeStores, MistralStores, CascadeStores, CascadeFindsOld,
       CascadeReplaces, MistralAttaches, GetChannels, FindSession, RefusesClosed, AddSubscriber,
       RaceGuard, ForkBridge, RegisterSession, RolledBack, Making, Bridges, BridgeForwards,
       BridgeEnds, ClosesEntry, ClosesErrCh, Closing, CloseSession, CloseUnsubscribes, CloseCancels,
       CloseDisconnects, CloseReturns, Shuts, CloseChannels, CancelUpstream, DisconnectUser,
       DisconnectReturns, Pumps, PumpEnds, PumpCancels, SttEnds, GuardSends, vars

(***************************************************************************)
(* No connection of a provider outlives the last one who can close it, and *)
(* no entry of an ended session stays in the registry of Start: for any    *)
(* number of calls, with any provider, whatever DisconnectUser falls into, *)
(* as long as the calls for one respId do not overlap, or overlap with     *)
(* Mistral.  With the others overlapping calls do leave a connection.      *)
(***************************************************************************)
THEOREM NothingStaysBehind == Spec => [](OverlapsServed => NothingLeftBehind)
<1> DEFINE Keeps == OverlapsServed => HeldInv /\ AloneInv /\ (Calm => LeftInv)
<1>1. Init => Keeps
  BY LeftInit
<1>2. TypeOK /\ ListsInv /\ Keeps /\ [Next]_vars => Keeps'
  <2> SUFFICES ASSUME TypeOK, ListsInv, Keeps, [Next]_vars, OverlapsServed'
               PROVE  HeldInv' /\ AloneInv' /\ (Calm' => LeftInv')
    OBVIOUS
  <2>1. /\ OverlapsServed /\ (setup.concurrent => Is("mistral")) /\ (Calm' <=> Calm)
        /\ HeldInv /\ AloneInv /\ OneRuns /\ ShutsOne /\ (Calm => LeftInv)
    BY SetupStays DEF OverlapsServed, Is, Calm, AloneInv, ListsInv
  <2> HIDE DEF Keeps
  <2>2. AloneInv'
    BY <2>1, AloneStep
  <2>3. HeldInv'
    BY <2>1, CallHeld, ShutsHeld, PumpsHeld, OtherHeld DEF Next
  <2>4. Calm => LeftInv'
    BY <2>1, CallLeft, BridgeLeft, ClosingLeft, ShutsLeft, OtherLeft DEF Next
  <2>5. QED
    BY <2>1, <2>2, <2>3, <2>4
<1>3. Keeps => (OverlapsServed => NothingLeftBehind)
  <2> SUFFICES ASSUME Keeps, OverlapsServed PROVE UpstreamIsHeld /\ EndedLeavesRegistry
    BY DEF NothingLeftBehind
  <2>1. UpstreamIsHeld
    BY DEF HeldInv
  <2>2. EndedLeavesRegistry
    BY DEF EndedLeavesRegistry, LeftInv, Unregistered, Served, Calm
  <2>3. QED
    BY <2>1, <2>2
<1>4. QED
  BY <1>1, <1>2, <1>3, RealtimeTypeCorrect, NoListedChannelIsClosed, PTL DEF Spec

-----------------------------------------------------------------------------

\* Whoever told of the end, is about to tell, or is to end the session in silence,
\* left the flag up; only one is about to tell, and only if nobody has told.
Telling(i) == panic[i] = "telling"
Flagged ==
  /\ panic \in [Timers -> {"off", "armed", "asked", "telling", "told"}]
  /\ called \in BOOLEAN
  /\ disconnects \in {0, 1} /\ disconnects <= 2 * MaxResponses
  /\ disconnects # 0 \/ hangup # "no" => called
  /\ \A i \in Timers : Telling(i) => called /\ disconnects = 0
  /\ \A i, j \in Timers : Telling(i) /\ Telling(j) => i = j
\* What a step may do to them.
Tells ==
  /\ disconnects' # disconnects => disconnects = 0
  /\ \A i \in Timers : Telling(i)' /\ ~Telling(i) =>
       hangup = "no" /\ \A j \in Timers : ~Telling(j)

LEMMA FlaggedInit == ResponseInit => Flagged
<1> SUFFICES ASSUME ResponseInit PROVE Flagged
  OBVIOUS
<1>1. /\ panic = [i \in Timers |-> "off"] /\ called = FALSE
      /\ disconnects = 0 /\ hangup = "no"
  BY DEF ResponseInit
<1>2. 0 <= 2 * MaxResponses
  BY ResponseBoundsAssumption
<1>3. \A i \in Timers : ~Telling(i)
  BY <1>1 DEF Telling
<1> QED
  BY <1>1, <1>2, <1>3 DEF Flagged

\* Stopping a timer leaves who is about to tell as it is.
LEMMA StopTells ==
  ASSUME Flagged,
         panic' = panic \/ panic' = Stopped(panic, watchdogPanicTimer),
         UNCHANGED <<called, disconnects, hangup>>
  PROVE  Flagged' /\ Tells
<1>1. panic' \in [Timers -> {"off", "armed", "asked", "telling", "told"}]
  BY DEF Flagged, Stopped
<1>2. \A i \in Timers : Telling(i)' <=> Telling(i)
  BY DEF Flagged, Stopped, Telling
<1>3. QED
  BY <1>1, <1>2 DEF Flagged, Tells

\* What the pump and OpenAI do leaves the flag and the calls alone.
LEMMA OthersKeep ==
  ASSUME Service \/ Pump \/ ConnGuard \/ ActionReturns
  PROVE  /\ panic' = panic \/ panic' = Stopped(panic, watchdogPanicTimer)
         /\ UNCHANGED <<called, disconnects, hangup>>
<1>1. CASE Service
  BY <1>1 DEF Service, ServiceStarts, ServiceGoesOn, ServiceEnds, ServiceFails, ServiceTakes,
              conversation, timers
<1>2. CASE Pump
  <2> USE DEF Reads, shared, timers
  <2>1. CASE PumpGreets \/ PumpCreated \/ PumpSpoken \/ PumpInterrupted \/ PumpCompleted
    BY <2>1 DEF PumpGreets, PumpCreated, PumpSpoken, PumpInterrupted, PumpCompleted, fireWatchdog
  <2>2. CASE PumpRunsAction \/ PumpSkips \/ ReaderEnds \/ PumpStops
    BY <2>2 DEF PumpRunsAction, PumpSkips, ReaderEnds, PumpStops
  <2> QED
    BY <1>2, <2>1, <2>2 DEF Pump
<1>3. CASE ConnGuard \/ ActionReturns
  BY <1>3 DEF ConnGuard, ActionReturns, shared, timers
<1> QED
  BY <1>1, <1>2, <1>3

\* A callback takes it upon itself to tell only while the flag is down, and puts
\* it up; it tells only if it took the flag.
LEMMA CallbackTells ==
  ASSUME Flagged, NEW i \in Timers, Callback(i)
  PROVE  Flagged' /\ Tells
<1>0. UNCHANGED hangup
  BY DEF Callback, TimerFires, CallbackArms, PanicAsks, PanicSwaps, PanicTells, PanicCancels, rest
<1>1. CASE TimerFires(i)
  BY <1>0, <1>1, StopTells DEF TimerFires
<1>2. CASE CallbackArms(i) \/ PanicAsks(i) \/ PanicCancels(i)
  <2>1. /\ UNCHANGED <<called, disconnects>>
        /\ \E stage \in {"off", "armed", "asked", "told"} : panic' = [panic EXCEPT ![i] = stage]
    BY <1>2 DEF CallbackArms, PanicAsks, PanicCancels
  <2>2. panic' \in [Timers -> {"off", "armed", "asked", "telling", "told"}]
    BY <2>1 DEF Flagged
  <2>3. \A j \in Timers : Telling(j)' => Telling(j)
    BY <2>1 DEF Flagged, Telling
  <2>4. QED
    BY <1>0, <2>1, <2>2, <2>3 DEF Flagged, Tells
<1>3. CASE PanicSwaps(i)
  <2>1. panic' = [panic EXCEPT ![i] = IF called THEN "told" ELSE "telling"]
        /\ called' = TRUE /\ UNCHANGED disconnects
    BY <1>3 DEF PanicSwaps
  <2>2. panic' \in [Timers -> {"off", "armed", "asked", "telling", "told"}]
    BY <2>1 DEF Flagged
  <2>3. CASE called
    <3>1. \A j \in Timers : Telling(j)' => Telling(j)
      BY <2>1, <2>3 DEF Flagged, Telling
    <3>2. QED
      BY <1>0, <2>1, <2>2, <2>3, <3>1 DEF Flagged, Tells
  <2>4. CASE ~called
    <3>1. \A j \in Timers : Telling(j)' => j = i
      BY <2>1, <2>4 DEF Flagged, Telling
    <3>2. \A j \in Timers : ~Telling(j)
      BY <2>4 DEF Flagged
    <3>3. disconnects = 0 /\ hangup = "no"
      BY <2>4 DEF Flagged
    <3>4. QED
      BY <1>0, <2>1, <2>2, <3>1, <3>2, <3>3 DEF Flagged, Tells
  <2>5. QED
    BY <2>3, <2>4
<1>4. CASE PanicTells(i)
  <2>1. panic[i] = "telling" /\ panic' = [panic EXCEPT ![i] = "told"]
        /\ UNCHANGED called /\ disconnects' = disconnects + 1
    BY <1>4 DEF PanicTells
  <2>2. disconnects = 0 /\ disconnects' = 1 /\ called
    BY <2>1 DEF Flagged, Telling
  <2>3. panic' \in [Timers -> {"off", "armed", "asked", "telling", "told"}]
    BY <2>1 DEF Flagged
  <2>4. \A j \in Timers : ~Telling(j)'
    BY <2>1 DEF Flagged, Telling
  <2>5. 1 <= 2 * MaxResponses
    BY ResponseBoundsAssumption DEF Timers
  <2>6. QED
    BY <1>0, <2>1, <2>2, <2>3, <2>4, <2>5 DEF Flagged, Tells
<1> QED
  BY <1>1, <1>2, <1>3, <1>4 DEF Callback

LEMMA StepTells ==
  ASSUME Flagged, [ResponseNext]_responsevars
  PROVE  Flagged' /\ Tells
<1>1. CASE Service \/ Pump \/ ConnGuard \/ ActionReturns
  BY <1>1, OthersKeep, StopTells
<1>2. CASE Close
  <2>1. CASE HangupFlags
    <3>1. UNCHANGED <<panic, disconnects>> /\ called' = TRUE
      BY <2>1 DEF HangupFlags, timers
    <3>2. QED
      BY <3>1 DEF Flagged, Tells, Telling
  <2>2. CASE HangupCancels
    <3>1. UNCHANGED <<panic, disconnects, called>> /\ hangup = "flagged"
      BY <2>2 DEF HangupCancels, timers
    <3>2. QED
      BY <3>1 DEF Flagged, Tells, Telling
  <2>3. QED
    BY <1>2, <2>1, <2>2 DEF Close
<1>3. CASE \E i \in Timers : Callback(i)
  BY <1>3, CallbackTells
<1>4. CASE UNCHANGED responsevars
  BY <1>4, StopTells DEF responsevars
<1> QED
  BY <1>1, <1>2, <1>3, <1>4 DEF ResponseNext

-----------------------------------------------------------------------------
\* OnDisconnect is called once at most, whichever callbacks of the watchdog are
\* under way, and only by one that took the flag before CloseRealtimeSession did.
THEOREM DisconnectsOnce == ResponseSpec => DisconnectOnce
<1>1. Flagged /\ [ResponseNext]_responsevars =>
         [/\ disconnects' # disconnects => disconnects = 0
          /\ \A i \in Timers : panic'[i] = "telling" /\ panic[i] # "telling" =>
               hangup = "no" /\ \A j \in Timers : panic[j] # "telling"]_responsevars
  BY StepTells DEF Tells, Telling
<1>2. Flagged /\ [ResponseNext]_responsevars => Flagged'
  BY StepTells
<1> QED
  BY <1>1, <1>2, FlaggedInit, PTL DEF ResponseSpec, DisconnectOnce

-----------------------------------------------------------------------------
(***************************************************************************)
(* Results and files of the responses.  On the wire a response calls, then *)
(* ends, and only then may the next one call: each result is waiting when  *)
(* the end of its own response is read, and no other's.                    *)
(***************************************************************************)
\* The events that begin and end what a response leaves for others.
Done == {"completed", "cancelled"}
Keyed(e) == e.type \in Done \cup {"call"}
Key(e) == IF e.type = "call" THEN 2 * e.of ELSE 2 * e.of + 1

\* The responses whose call was read, and those whose result is still to be sent.
Acting == IF pump.at = "action" THEN {pump.call} ELSE {}
Given == Range(sent) \cup Range(handed) \cup Range(results) \cup Range(files)
Past == Given \cup Acting
Pending == Range(results) \cup Acting

\* On the wire a response calls once, then ends, then the next one may call; what
\* the pump has read is before all that.
Rises(w) == \A i, j \in 1 .. Len(w) :
              i < j /\ Keyed(w[i]) /\ Keyed(w[j]) => Key(w[i]) < Key(w[j])
Told(w, v) ==
  \A i \in 1 .. Len(w) : Keyed(w[i]) =>
    /\ w[i].of \in 1 .. v.made
    /\ v.active # 0 => Key(w[i]) <= 2 * v.active
    /\ v.active # 0 /\ ~v.asked => Key(w[i]) < 2 * v.active
    /\ w[i].type = "completed" => w[i].of \in v.completed
Read(w, v, past) ==
  /\ \A i \in 1 .. Len(w), x \in past : Keyed(w[i]) => 2 * x < Key(w[i])
  /\ \A x \in past : x \in 1 .. v.made /\ (v.active # 0 /\ ~v.asked => x < v.active)

\* A response whose result is not sent has not ended, or its end is on the wire.
Open(w, v, x) == \/ v.active = x
                 \/ \E i \in 1 .. Len(w) : w[i].type \in Done /\ w[i].of = x
Ends(w, v, pending) ==
  /\ \A x \in pending : Open(w, v, x)
  /\ \A i \in 1 .. Len(w) : w[i].type = "call" => Open(w, v, w[i].of)

Ordered ==
  /\ service.active \in {0, service.made}
  /\ Rises(wire) /\ Told(wire, service) /\ Read(wire, service, Past)
  /\ conn = "open" => Ends(wire, service, Pending)
  /\ pump.at = "action" => results = <<>> /\ \A x \in Given : x < pump.call
ServiceState == [active : 0 .. MaxResponses, made : 0 .. MaxResponses, spoken : BOOLEAN,
                 asked : BOOLEAN, completed : SUBSET Responses]
PumpState == [at : {"read", "action", "ending", "over"}, call : 0 .. MaxResponses]
OutputTypes ==
  /\ talk \in Talk /\ service \in ServiceState /\ wire \in Seq(Event) /\ pump \in PumpState
  /\ results \in Seq(Responses) /\ files \in Seq(Responses)
  /\ sent \in Seq(Responses) /\ handed \in Seq(Responses)

Once ==
  /\ IsInjective(sent \o results) /\ IsInjective(handed \o files)
  /\ Range(sent) \subseteq service.completed

LEMMA InjectiveAppend ==
  ASSUME NEW S, NEW s \in Seq(S), NEW x \in S, IsInjective(s), x \notin Range(s)
  PROVE  IsInjective(Append(s, x))
<1> DEFINE longer == Append(s, x)
<1>1. /\ DOMAIN s = 1 .. Len(s) /\ DOMAIN longer = 1 .. Len(longer) /\ Len(s) \in Nat
      /\ Len(longer) = Len(s) + 1 /\ longer[Len(s) + 1] = x
      /\ \A i \in 1 .. Len(s) : longer[i] = s[i]
  OBVIOUS
<1> HIDE DEF longer
<1>2. \A i \in 1 .. Len(longer) : (i \in 1 .. Len(s) /\ longer[i] = s[i])
                                   \/ (i = Len(s) + 1 /\ longer[i] = x)
  BY <1>1
<1>3. \A i, j \in 1 .. Len(longer) : longer[i] = longer[j] => i = j
  BY <1>1, <1>2 DEF IsInjective, Range
<1>4. QED
  BY <1>1, <1>3 DEF IsInjective, longer

LEMMA InjectiveFirst ==
  ASSUME NEW S, NEW s \in Seq(S), NEW t \in Seq(S), IsInjective(s \o t)
  PROVE  IsInjective(s)
<1> DEFINE both == s \o t
<1>1. /\ DOMAIN s = 1 .. Len(s) /\ DOMAIN both = 1 .. Len(both)
      /\ Len(both) = Len(s) + Len(t) /\ Len(s) \in Nat /\ Len(t) \in Nat
      /\ \A i \in 1 .. Len(s) : both[i] = s[i]
  BY ConcatProperties
<1>2. IsInjective(both)
  OBVIOUS
<1> HIDE DEF both
<1>3. \A i \in 1 .. Len(s) : i \in 1 .. Len(both)
  BY <1>1
<1>4. QED
  BY <1>1, <1>2, <1>3 DEF IsInjective

\* What OpenAI does when it sends e: v and u are its states before and after.
Same(v, u) == u.active = v.active /\ u.asked = v.asked
Arises(v, u, e) ==
  /\ v.completed \subseteq u.completed /\ v.made <= u.made
  /\ \/ ~Keyed(e) /\ Same(v, u) /\ u.made = v.made
     \/ ~Keyed(e) /\ v.active = 0 /\ u.made = v.made + 1 /\ u.active = u.made /\ ~u.asked
     \/ /\ e = E("call", v.active) /\ v.active # 0 /\ ~v.asked
        /\ u.active = v.active /\ u.made = v.made /\ u.asked
     \/ /\ e.type \in Done /\ e.of = v.active /\ v.active # 0 /\ u.active = 0
        /\ u.made = v.made /\ (e.type = "completed" => v.active \in u.completed)

LEMMA KeyNat == \A e \in Event : Key(e) \in Nat /\ e.of \in 0 .. MaxResponses
  BY ResponseBoundsAssumption DEF Event, Key

LEMMA SendKeeps ==
  ASSUME NEW w \in Seq(Event), NEW v \in ServiceState, NEW u \in ServiceState,
         NEW e \in Event, NEW past \in SUBSET Responses,
         v.active \in {0, v.made}, Rises(w), Told(w, v), Read(w, v, past), Arises(v, u, e)
  PROVE  /\ u.active \in {0, u.made} /\ Rises(Append(w, e)) /\ Told(Append(w, e), u)
         /\ Read(Append(w, e), u, past)
         /\ \A pending \in SUBSET past :
               Ends(w, v, pending) => Ends(Append(w, e), u, pending)
<1> DEFINE W == Append(w, e)
<1>a. /\ Len(w) \in Nat /\ Len(W) = Len(w) + 1 /\ W[Len(w) + 1] = e
      /\ \A i \in 1 .. Len(w) : W[i] = w[i] /\ w[i] \in Event
  OBVIOUS
<1> HIDE DEF W
<1>b. /\ \A i \in 1 .. Len(W) : (i \in 1 .. Len(w) /\ W[i] = w[i]) \/ (i = Len(w) + 1 /\ W[i] = e)
      /\ \A i \in 1 .. Len(w) : i \in 1 .. Len(W)
      /\ Len(w) + 1 \in 1 .. Len(W)
  BY <1>a
<1>c. /\ v.active \in Nat /\ v.made \in Nat /\ u.active \in Nat /\ u.made \in Nat
      /\ v.asked \in BOOLEAN /\ u.asked \in BOOLEAN
      /\ \A x \in past : x \in Nat
  BY ResponseBoundsAssumption DEF ServiceState, Responses
<1>d. \A i \in 1 .. Len(w) : Key(w[i]) \in Nat /\ w[i].of \in Nat
  BY <1>a, KeyNat
<1>1. u.active \in {0, u.made}
  BY <1>c DEF Arises, Same
<1>2. Keyed(e) => /\ v.active # 0 /\ e.of = v.active /\ Key(e) \in {2 * v.active, 2 * v.active + 1}
                  /\ (Key(e) = 2 * v.active => ~v.asked)
  BY <1>c DEF Arises, Keyed, Key, Done, E
<1>3. Keyed(e) => \A i \in 1 .. Len(w) : Keyed(w[i]) => Key(w[i]) < Key(e)
  BY <1>2, <1>c, <1>d DEF Told
<1>4. Rises(W)
  <2> SUFFICES ASSUME NEW i \in 1 .. Len(W), NEW j \in 1 .. Len(W), i < j, Keyed(W[i]), Keyed(W[j])
               PROVE  Key(W[i]) < Key(W[j])
    BY DEF Rises
  <2>1. i \in 1 .. Len(w) /\ W[i] = w[i]
    BY <1>a, <1>b
  <2>2. QED
    BY <2>1, <1>b, <1>3 DEF Rises
<1>5. Told(W, u)
  <2> SUFFICES ASSUME NEW i \in 1 .. Len(W), Keyed(W[i])
               PROVE  /\ W[i].of \in 1 .. u.made
                      /\ u.active # 0 => Key(W[i]) <= 2 * u.active
                      /\ u.active # 0 /\ ~u.asked => Key(W[i]) < 2 * u.active
                      /\ W[i].type = "completed" => W[i].of \in u.completed
    BY DEF Told
  <2>1. CASE i \in 1 .. Len(w) /\ W[i] = w[i]
    <3>1. /\ w[i].of \in 1 .. v.made
          /\ v.active # 0 => Key(w[i]) <= 2 * v.active
          /\ v.active # 0 /\ ~v.asked => Key(w[i]) < 2 * v.active
          /\ w[i].type = "completed" => w[i].of \in v.completed
      BY <2>1 DEF Told
    <3>2. Key(w[i]) <= 2 * w[i].of + 1
      BY <2>1, <1>d DEF Key
    <3>3. w[i].of \in 1 .. u.made
      BY <3>1, <1>c DEF Arises
    <3>4. u.active # 0 => /\ Key(w[i]) <= 2 * u.active
                          /\ ~u.asked => Key(w[i]) < 2 * u.active
      <4> DEFINE k == Key(w[i])
      <4>1. k \in Nat /\ k <= 2 * w[i].of + 1 /\ w[i].of <= v.made
        BY <2>1, <3>1, <3>2, <1>c, <1>d
      <4>2. /\ v.active # 0 => k <= 2 * v.active
            /\ v.active # 0 /\ ~v.asked => k < 2 * v.active
        BY <3>1
      <4> HIDE DEF k
      <4>3. CASE Same(v, u)
        BY <4>2, <4>3 DEF Same, k
      <4>4. CASE u.made = v.made + 1 /\ u.active = u.made
        <5>1. k < 2 * u.active
          BY <4>1, <4>4, <1>c, <1>d, <2>1
        <5>2. QED
          BY <5>1, <4>1, <1>c DEF k
      <4>5. CASE u.active = v.active /\ u.asked
        BY <4>2, <4>5 DEF k
      <4>6. CASE u.active = 0
        BY <4>6
      <4>7. QED
        BY <4>3, <4>4, <4>5, <4>6 DEF Arises
    <3>5. QED
      BY <2>1, <3>1, <3>3, <3>4 DEF Arises
  <2>2. CASE W[i] = e
    <3>1. Keyed(e) /\ v.active # 0 /\ v.active = v.made /\ e.of = v.active
      BY <2>2, <1>2
    <3>2. /\ u.made = v.made
          /\ \/ e.type = "call" /\ Key(e) = 2 * v.active /\ u.active = v.active /\ u.asked
             \/ e.type \in Done /\ u.active = 0 /\ (e.type = "completed" => e.of \in u.completed)
      BY <3>1, <1>c DEF Arises, E, Key
    <3>3. QED
      BY <2>2, <3>1, <3>2, <1>c DEF Done
  <2>3. QED
    BY <2>1, <2>2, <1>b
<1>6. Read(W, u, past)
  <2>1. ASSUME NEW i \in 1 .. Len(W), NEW x \in past, Keyed(W[i]) PROVE 2 * x < Key(W[i])
    <3>1. CASE i \in 1 .. Len(w) /\ W[i] = w[i]
      BY <3>1, <2>1 DEF Read
    <3>2. CASE W[i] = e
      <4>1. x \in 1 .. v.made /\ (~v.asked => x < v.active) /\ v.active = v.made
        BY <3>2, <2>1, <1>2 DEF Read
      <4>2. QED
        BY <3>2, <2>1, <4>1, <1>2, <1>c
    <3>3. QED
      BY <3>1, <3>2, <1>b
  <2>2. ASSUME NEW x \in past PROVE x \in 1 .. u.made /\ (u.active # 0 /\ ~u.asked => x < u.active)
    <3>1. x \in 1 .. v.made /\ (v.active # 0 /\ ~v.asked => x < v.active)
      BY DEF Read
    <3>2. QED
      BY <3>1, <1>c DEF Arises, Same
  <2>3. QED
    BY <2>1, <2>2 DEF Read
<1>7. ASSUME NEW pending \in SUBSET past, Ends(w, v, pending) PROVE Ends(W, u, pending)
  <2>1. ASSUME NEW x \in Nat, x # 0, Open(w, v, x) PROVE Open(W, u, x)
    <3>1. CASE v.active = x
      <4>1. u.active = x \/ (e.type \in Done /\ e.of = x)
        BY <3>1, <2>1, <1>c DEF Arises, Same
      <4>2. QED
        BY <4>1, <1>a, <1>b DEF Open
    <3>2. CASE \E i \in 1 .. Len(w) : w[i].type \in Done /\ w[i].of = x
      BY <3>2, <1>a, <1>b DEF Open
    <3>3. QED
      BY <2>1, <3>1, <3>2 DEF Open
  <2>2. ASSUME NEW x \in pending PROVE Open(W, u, x)
    <3>1. x \in Nat /\ x # 0
      BY <1>7, <1>c DEF Responses
    <3>2. Open(w, v, x)
      BY <1>7 DEF Ends
    <3>3. QED
      BY <2>1, <3>1, <3>2
  <2>3. ASSUME NEW i \in 1 .. Len(W), W[i].type = "call" PROVE Open(W, u, W[i].of)
    <3>1. CASE i \in 1 .. Len(w) /\ W[i] = w[i]
      <4>1. Keyed(w[i]) /\ w[i].of \in 1 .. v.made /\ Open(w, v, w[i].of)
        BY <3>1, <2>3, <1>7 DEF Told, Ends, Keyed
      <4>2. QED
        BY <4>1, <3>1, <2>1, <1>c
    <3>2. CASE W[i] = e
      <4>1. Keyed(e) /\ e.type \notin Done
        BY <3>2, <2>3 DEF Keyed, Done
      <4>2. u.active = v.active /\ e.of = v.active
        BY <4>1, <1>2 DEF Arises
      <4>3. QED
        BY <4>2, <3>2 DEF Open
    <3>3. QED
      BY <3>1, <3>2, <1>b
  <2>4. QED
    BY <2>2, <2>3 DEF Ends
<1>8. QED
  BY <1>1, <1>4, <1>5, <1>6, <1>7 DEF W

LEMMA ReadKeeps ==
  ASSUME NEW w \in Seq(Event), w # <<>>, NEW v \in ServiceState, NEW past \in SUBSET Responses,
         Rises(w), Told(w, v), Read(w, v, past)
  PROVE  /\ Rises(Tail(w)) /\ Told(Tail(w), v) /\ Read(Tail(w), v, past)
         /\ Head(w).type = "call" =>
               /\ Head(w).of \in Responses /\ Read(Tail(w), v, past \cup {Head(w).of})
               /\ \A x \in past : x < Head(w).of
         /\ \A pending \in SUBSET past : Ends(w, v, pending) =>
               /\ (Head(w).type \in Done => Head(w).of \notin pending) =>
                     Ends(Tail(w), v, pending)
               /\ Head(w).type = "call" => pending = {} /\ Open(Tail(w), v, Head(w).of)
               /\ Head(w).type \in Done => pending \subseteq {Head(w).of}
<1> DEFINE W == Tail(w)
           e == Head(w)
<1>a. /\ Len(w) \in Nat /\ Len(w) >= 1 /\ Len(W) = Len(w) - 1 /\ e = w[1] /\ e \in Event
      /\ \A i \in 1 .. Len(W) : W[i] = w[i + 1]
      /\ \A i \in 1 .. Len(w) : w[i] \in Event
  BY HeadTailProperties
<1> HIDE DEF W, e
<1>b. /\ \A i \in 1 .. Len(W) : i + 1 \in 1 .. Len(w) /\ 1 < i + 1
      /\ \A i \in 1 .. Len(w) : i # 1 => i - 1 \in 1 .. Len(W) /\ W[i - 1] = w[i]
      /\ 1 \in 1 .. Len(w)
  BY <1>a
<1>c. /\ v.active \in 0 .. MaxResponses /\ v.made \in 0 .. MaxResponses /\ MaxResponses \in Nat
      /\ \A x \in past : x \in Nat
  BY ResponseBoundsAssumption DEF ServiceState, Responses
<1>d. \A i \in 1 .. Len(w) : Key(w[i]) \in Nat /\ w[i].of \in Nat
  BY <1>a, KeyNat, <1>c
<1>1. Rises(W)
  <2> SUFFICES ASSUME NEW i \in 1 .. Len(W), NEW j \in 1 .. Len(W), i < j, Keyed(W[i]), Keyed(W[j])
               PROVE  Key(W[i]) < Key(W[j])
    BY DEF Rises
  <2>1. i + 1 < j + 1
    OBVIOUS
  <2>2. QED
    BY <2>1, <1>a, <1>b DEF Rises
<1>2. Told(W, v)
  BY <1>a, <1>b DEF Told
<1>3. Read(W, v, past)
  BY <1>a, <1>b DEF Read
<1>4. ASSUME e.type = "call"
      PROVE  e.of \in Responses /\ Read(W, v, past \cup {e.of}) /\ \A x \in past : x < e.of
  <2>1. /\ Keyed(e) /\ Key(e) = 2 * e.of /\ e.of \in 1 .. v.made
        /\ v.active # 0 /\ ~v.asked => Key(e) < 2 * v.active
    BY <1>4, <1>a, <1>b DEF Told, Keyed, Key
  <2>2. \A i \in 1 .. Len(W) : Keyed(W[i]) => 2 * e.of < Key(W[i])
    BY <2>1, <1>a, <1>b DEF Rises
  <2>3. v.active # 0 /\ ~v.asked => e.of < v.active
    BY <2>1, <1>c
  <2>4. \A x \in past : x < e.of
    BY <2>1, <1>a, <1>b, <1>c DEF Read
  <2>5. e.of \in Responses
    BY <2>1, <1>c DEF Responses
  <2>6. QED
    BY <2>1, <2>2, <2>3, <2>4, <2>5, <1>3 DEF Read
<1>5. ASSUME NEW pending \in SUBSET past, Ends(w, v, pending)
      PROVE  /\ (e.type \in Done => e.of \notin pending) => Ends(W, v, pending)
             /\ e.type = "call" => pending = {} /\ Open(W, v, e.of)
             /\ e.type \in Done => pending \subseteq {e.of}
  <2>1. ASSUME NEW x, Open(w, v, x), e.type \in Done => e.of # x PROVE Open(W, v, x)
    BY <2>1, <1>a, <1>b DEF Open
  <2>2. ASSUME e.type \in Done => e.of \notin pending PROVE Ends(W, v, pending)
    <3>1. \A x \in pending : Open(W, v, x)
      BY <2>1, <2>2, <1>5 DEF Ends
    <3>2. ASSUME NEW i \in 1 .. Len(W), W[i].type = "call" PROVE Open(W, v, W[i].of)
      <4>1. Open(w, v, W[i].of)
        BY <3>2, <1>a, <1>b, <1>5 DEF Ends
      <4>2. ASSUME e.type \in Done PROVE e.of # W[i].of
        <5>1. Keyed(e) /\ Keyed(W[i])
          BY <4>2, <3>2 DEF Keyed
        <5>2. Key(e) < Key(W[i])
          BY <5>1, <1>a, <1>b DEF Rises
        <5>3. Key(e) = 2 * e.of + 1 /\ Key(W[i]) = 2 * W[i].of
          BY <4>2, <3>2 DEF Key, Done
        <5>4. e.of \in Nat /\ W[i].of \in Nat
          BY <1>a, <1>b, <1>d
        <5>5. QED
          BY <5>2, <5>3, <5>4
      <4>3. QED
        BY <4>1, <4>2, <2>1
    <3>3. QED
      BY <3>1, <3>2 DEF Ends
  \* The end of a call comes before any later call and any other end.
  <2>3. ASSUME NEW x \in pending, Keyed(e)
        PROVE  e.type \in Done /\ e.of = x
    <3>1. 2 * x < Key(e) /\ x \in Nat /\ x # 0
      BY <2>3, <1>a, <1>b, <1>c DEF Read, Responses
    <3>2. v.active # x
      <4>1. v.active # 0 => Key(e) <= 2 * v.active
        BY <2>3, <1>a, <1>b DEF Told
      <4>2. QED
        BY <4>1, <3>1, <1>a, <1>c, KeyNat
    <3>3. PICK i \in 1 .. Len(w) : w[i].type \in Done /\ w[i].of = x
      BY <3>2, <1>5 DEF Ends, Open
    <3>4. Key(w[i]) = 2 * x + 1 /\ Keyed(w[i])
      BY <3>3 DEF Key, Keyed, Done
    <3>5. i = 1
      <4>1. i # 1 => Key(e) < Key(w[i])
        BY <3>4, <2>3, <1>a, <1>b DEF Rises
      <4>2. QED
        BY <4>1, <3>1, <3>4, <1>a, KeyNat
    <3>6. QED
      BY <3>3, <3>5, <1>a
  <2>4. ASSUME e.type = "call" PROVE pending = {} /\ Open(W, v, e.of)
    <3>1. pending = {}
      BY <2>3, <2>4 DEF Keyed, Done
    <3>2. Open(w, v, e.of)
      BY <2>4, <1>5, <1>a, <1>b DEF Ends
    <3>3. QED
      BY <3>1, <3>2, <2>1, <2>4 DEF Done
  <2>5. e.type \in Done => pending \subseteq {e.of}
    BY <2>3 DEF Keyed
  <2>6. QED
    BY <2>2, <2>4, <2>5
<1>6. QED
  BY <1>1, <1>2, <1>3, <1>4, <1>5 DEF W, e

\* What is seen of the pump and its outputs.
beside == <<talk, conn, pump, results, files, sent, handed>>

LEMMA EventsTyped == \A type \in Events, k \in 0 .. MaxResponses :
                       E(type, k) \in Event /\ E(type, k).type = type /\ E(type, k).of = k
  BY DEF E, Event

LEMMA Finished ==
  ASSUME NEW v \in ServiceState, NEW c \in SUBSET Responses
  PROVE  [v EXCEPT !.active = 0, !.completed = c] \in ServiceState
<1> DEFINE u == [v EXCEPT !.active = 0]
<1>1. u \in ServiceState
  BY ResponseBoundsAssumption DEF ServiceState
<1> HIDE DEF u
<1>2. [u EXCEPT !.completed = c] \in ServiceState
  BY <1>1 DEF ServiceState
<1>3. QED
  BY <1>2 DEF u

LEMMA ServiceStep ==
  ASSUME OutputTypes, service.active \in {0, service.made}, Service
  PROVE  /\ UNCHANGED beside
         /\ \/ UNCHANGED <<service, wire>>
            \/ \E e \in Event : /\ conn = "open" /\ wire' = Append(wire, e)
                                /\ Arises(service, service', e) /\ service' \in ServiceState
<1> DEFINE Sent(e) == /\ conn = "open" /\ wire' = Append(wire, e)
                      /\ Arises(service, service', e) /\ service' \in ServiceState
<1>a. /\ service \in ServiceState /\ talk.responses \in 0 .. MaxResponses
      /\ service.active \in 0 .. MaxResponses /\ service.made \in 0 .. MaxResponses
      /\ service.completed \in SUBSET Responses
      /\ service.active # 0 => service.active \in Responses
      /\ MaxResponses \in Nat
  BY ResponseBoundsAssumption DEF OutputTypes, ServiceState, Talk, Responses
<1>b. UNCHANGED beside
  BY DEF Service, ServiceStarts, ServiceGoesOn, ServiceEnds, ServiceFails, ServiceTakes,
         conversation, beside, outputs
<1>1. ASSUME service.active = 0, service.made < talk.responses,
             Sends(E("created", service.made + 1)), service' = Began
      PROVE  Sent(E("created", service.made + 1))
  <2>1. service.made + 1 \in 0 .. MaxResponses
    BY <1>a, <1>1
  <2>2. E("created", service.made + 1).type = "created"
    BY DEF E
  <2>3. ~Keyed(E("created", service.made + 1))
    BY <2>2 DEF Keyed, Done
  <2>4. /\ service'.active = service.made + 1 /\ service'.made = service.made + 1
        /\ ~service'.asked /\ service'.completed = service.completed
        /\ service' \in ServiceState
    BY <1>1, <1>a, <2>1 DEF Began, ServiceState
  <2>5. Arises(service, service', E("created", service.made + 1))
    BY <1>1, <1>a, <2>3, <2>4 DEF Arises
  <2>6. QED
    BY <1>1, <2>4, <2>5 DEF Sends
<1>2. ASSUME NEW e \in Event, ~Keyed(e), Sends(e), service' \in ServiceState,
             Same(service, service'), service'.made = service.made,
             service'.completed = service.completed
      PROVE  Sent(e)
  BY <1>2, <1>a DEF Sends, Arises
<1>3. ASSUME NEW type \in Done, service.active # 0, Sends(E(type, service.active)),
             service' = [service EXCEPT !.active = 0]
               \/ service' = [service EXCEPT !.active = 0, !.completed = @ \cup {service.active}],
             type = "completed" => service.active \in service'.completed
      PROVE  Sent(E(type, service.active))
  <2>1. E(type, service.active).type = type /\ E(type, service.active).of = service.active
    BY DEF E
  <2>2. /\ service'.active = 0 /\ service'.made = service.made
        /\ service.completed \subseteq service'.completed
    BY <1>3 DEF OutputTypes, ServiceState
  <2>3. service' \in ServiceState
    <3>1. CASE service' = [service EXCEPT !.active = 0]
      BY <3>1, <1>a DEF ServiceState
    <3>2. CASE service' = [service EXCEPT !.active = 0, !.completed = @ \cup {service.active}]
      <4>1. service.completed \cup {service.active} \in SUBSET Responses
        BY <1>3, <1>a
      <4>2. \A c \in SUBSET Responses :
              [service EXCEPT !.active = 0, !.completed = c] \in ServiceState
        BY <1>a, Finished
      <4>3. [service EXCEPT !.active = 0, !.completed = @ \cup {service.active}]
              = [service EXCEPT !.active = 0, !.completed = service.completed \cup {service.active}]
        BY <1>a DEF ServiceState
      <4>4. QED
        BY <3>2, <4>1, <4>2, <4>3
    <3>3. QED
      BY <3>1, <3>2, <1>3
  <2>4. Arises(service, service', E(type, service.active))
    BY <1>3, <1>a, <2>1, <2>2 DEF Arises
  <2>5. QED
    BY <1>3, <2>3, <2>4 DEF Sends
<1>4. \A type \in Events, k \in 0 .. MaxResponses :
        E(type, k) \in Event /\ (Keyed(E(type, k)) => type \in Done \cup {"call"})
  BY EventsTyped DEF Keyed
<1>5. CASE ServiceStarts
  <2>1. service.made + 1 \in 0 .. MaxResponses
    BY <1>5, <1>a DEF ServiceStarts
  <2>2. Sent(E("created", service.made + 1)) /\ E("created", service.made + 1) \in Event
    BY <1>5, <1>1, <1>4, <2>1 DEF ServiceStarts, Events
  <2>3. QED
    BY <1>b, <2>2
<1>6. CASE ServiceGoesOn
  <2>1. CASE Sends(E("spoken", service.active)) /\ service' = [service EXCEPT !.spoken = TRUE]
    <3>1. E("spoken", service.active) \in Event /\ ~Keyed(E("spoken", service.active))
      BY <1>4, <1>a DEF Events, Done
    <3>2. /\ service' \in ServiceState /\ Same(service, service')
          /\ service'.made = service.made /\ service'.completed = service.completed
      BY <2>1, <1>a DEF ServiceState, Same
    <3>3. QED
      BY <3>1, <3>2, <2>1, <1>2, <1>b
  <2>2. CASE /\ ~service.asked /\ Sends(E("call", service.active))
             /\ service' = [service EXCEPT !.asked = TRUE]
    <3>1. E("call", service.active) \in Event
      BY <1>4, <1>a DEF Events
    <3>2. /\ service' \in ServiceState /\ service'.active = service.active /\ service'.asked
          /\ service'.made = service.made /\ service'.completed = service.completed
      BY <2>2, <1>a DEF ServiceState
    <3>3. Arises(service, service', E("call", service.active))
      BY <3>2, <2>2, <1>6, <1>a DEF Arises, ServiceGoesOn
    <3>4. QED
      BY <3>1, <3>2, <3>3, <2>2, <1>b DEF Sends
  <2>3. QED
    BY <1>6, <2>1, <2>2 DEF ServiceGoesOn
<1>7. CASE ServiceEnds
  <2>1. PICK type \in Done :
          /\ Sends(E(type, service.active))
          /\ service' = [service EXCEPT !.active = 0]
               \/ service' = [service EXCEPT !.active = 0, !.completed = @ \cup {service.active}]
          /\ type = "completed" => service.active \in service'.completed
    BY <1>7 DEF ServiceEnds, Done, OutputTypes, ServiceState
  <2>2. Sent(E(type, service.active)) /\ E(type, service.active) \in Event
    BY <2>1, <1>3, <1>4, <1>7, <1>a DEF ServiceEnds, Events, Done
  <2>3. QED
    BY <2>2, <1>b
<1>8. CASE ServiceFails
  <2>1. E("fatal", 0) \in Event /\ ~Keyed(E("fatal", 0))
    BY <1>4, <1>a DEF Events, Done
  <2>2. QED
    BY <2>1, <1>8, <1>2, <1>a, <1>b DEF ServiceFails, Same
<1>9. CASE ServiceTakes
  <2>1. CASE UNCHANGED <<service, wire>>
    BY <2>1, <1>b
  <2>2. CASE /\ service.active # 0 /\ Sends(E("cancelled", service.active))
             /\ service' = [service EXCEPT !.active = 0]
    <3>1. Sent(E("cancelled", service.active)) /\ E("cancelled", service.active) \in Event
      BY <2>2, <1>3, <1>4, <1>a DEF Done, Events
    <3>2. QED
      BY <3>1, <1>b
  <2>3. CASE /\ service.active = 0 /\ service.made < talk.responses
             /\ Sends(E("created", service.made + 1)) /\ service' = Began
    <3>1. service.made + 1 \in 0 .. MaxResponses
      BY <2>3, <1>a
    <3>2. Sent(E("created", service.made + 1)) /\ E("created", service.made + 1) \in Event
      BY <2>3, <1>1, <1>4, <3>1 DEF Events
    <3>3. QED
      BY <3>2, <1>b
  <2>4. CASE Sends(E("refused", 0)) /\ UNCHANGED service
    <3>1. E("refused", 0) \in Event /\ ~Keyed(E("refused", 0))
      BY <1>4, <1>a DEF Events, Done
    <3>2. QED
      BY <3>1, <2>4, <1>2, <1>a, <1>b DEF Same
  <2>5. QED
    BY <1>9, <2>1, <2>2, <2>3, <2>4 DEF ServiceTakes
<1>10. QED
  BY <1>5, <1>6, <1>7, <1>8, <1>9 DEF Service

OutputInv == OutputTypes /\ Ordered /\ Once

LEMMA PastTyped ==
  ASSUME OutputTypes, Ordered
  PROVE  /\ Past \in SUBSET Responses /\ Pending \subseteq Past
         /\ pump.at = "action" => pump.call \in Responses /\ pump.call \in Pending
<1>1. /\ Range(sent) \subseteq Responses /\ Range(handed) \subseteq Responses
      /\ Range(results) \subseteq Responses /\ Range(files) \subseteq Responses
  BY RangeOfSeq DEF OutputTypes
<1>2. pump.at = "action" => pump.call \in Past /\ pump.call \in Pending
  BY DEF Past, Pending, Acting
<1>3. service.made \in 0 .. MaxResponses
  BY DEF OutputTypes, ServiceState
<1>4. pump.at = "action" => pump.call \in Responses
  BY <1>2, <1>3, ResponseBoundsAssumption DEF Ordered, Read, Responses
<1>5. QED
  BY <1>1, <1>2, <1>4 DEF Past, Pending, Given, Acting

LEMMA ServiceKeeps == OutputInv /\ Service => OutputInv'
<1> SUFFICES ASSUME OutputInv, Service PROVE OutputInv'
  OBVIOUS
<1> USE DEF OutputInv
<1>a. service.active \in {0, service.made}
  BY DEF Ordered
<1>1. /\ UNCHANGED beside
      /\ \/ UNCHANGED <<service, wire>>
         \/ \E e \in Event : /\ conn = "open" /\ wire' = Append(wire, e)
                             /\ Arises(service, service', e) /\ service' \in ServiceState
  BY <1>a, ServiceStep
<1>2. /\ Given' = Given /\ Acting' = Acting /\ Past' = Past /\ Pending' = Pending
      /\ UNCHANGED <<talk, conn, pump, results, files, sent, handed>>
  BY <1>1 DEF beside, Given, Acting, Past, Pending
<1>3. CASE UNCHANGED <<service, wire>>
  <2>1. OutputTypes' /\ Once'
    BY <1>2, <1>3 DEF OutputTypes, Once
  <2>2. Ordered'
    BY <1>2, <1>3 DEF Ordered, Rises, Told, Read, Ends, Open
  <2>3. QED
    BY <2>1, <2>2
<1>4. ASSUME NEW e \in Event, conn = "open", wire' = Append(wire, e),
             Arises(service, service', e), service' \in ServiceState
      PROVE  OutputInv'
  <2>1. OutputTypes'
    BY <1>2, <1>4 DEF OutputTypes
  <2>2. Past \in SUBSET Responses /\ Pending \subseteq Past
    BY PastTyped
  <2>3. /\ service'.active \in {0, service'.made} /\ Rises(wire') /\ Told(wire', service')
        /\ Read(wire', service', Past) /\ Ends(wire', service', Pending)
    <3>1. /\ service \in ServiceState /\ wire \in Seq(Event)
          /\ Rises(wire) /\ Told(wire, service) /\ Read(wire, service, Past)
          /\ Ends(wire, service, Pending)
      BY <1>4 DEF OutputTypes, Ordered
    <3>2. QED
      BY <3>1, <2>2, <1>a, <1>4, SendKeeps
  <2>4. Ordered'
    BY <2>3, <1>2 DEF Ordered
  <2>5. Once'
    BY <1>2, <1>4 DEF Once, Arises
  <2>6. QED
    BY <2>1, <2>4, <2>5
<1>5. QED
  BY <1>1, <1>3, <1>4

\* A step that is not the pump's reading, and leaves what it has to send.
LEMMA AsideKeeps ==
  ASSUME OutputInv, UNCHANGED <<talk, service, results, files, sent, handed>>,
         pump' \in PumpState, pump' = pump \/ (pump.at # "action" /\ pump'.at # "action"),
         UNCHANGED <<wire, conn>> \/ (wire' = <<>> /\ conn' = "closed")
  PROVE  OutputInv'
<1> USE DEF OutputInv
<1>1. /\ Given' = Given /\ Acting' = Acting /\ Past' = Past /\ Pending' = Pending
      /\ (pump'.at = "action" => pump' = pump)
  BY DEF Given, Acting, Past, Pending
<1>2. OutputTypes' /\ Once'
  <2>1. wire \in Seq(Event) /\ <<>> \in Seq(Event) /\ (wire' = wire \/ wire' = <<>>)
    BY EmptySeq DEF OutputTypes
  <2>2. OutputTypes'
    BY <2>1 DEF OutputTypes
  <2>3. Once'
    BY DEF Once
  <2>4. QED
    BY <2>2, <2>3
<1>3. /\ Rises(wire') /\ Told(wire', service') /\ Read(wire', service', Past')
      /\ service'.active \in {0, service'.made}
  <2>1. CASE UNCHANGED wire
    BY <1>1, <2>1 DEF Ordered, Rises, Told, Read
  <2>2. CASE wire' = <<>>
    <3>1. 1 .. Len(wire') = {}
      BY <2>2
    <3>2. QED
      BY <1>1, <3>1 DEF Ordered, Rises, Told, Read
  <2>3. QED
    BY <2>1, <2>2
<1>4. conn' = "open" => Ends(wire', service', Pending')
  BY <1>1 DEF Ordered, Ends, Open
<1>5. pump'.at = "action" => results' = <<>> /\ \A x \in Given' : x < pump'.call
  BY <1>1 DEF Ordered
<1>6. QED
  BY <1>2, <1>3, <1>4, <1>5 DEF Ordered

LEMMA TailTyped ==
  ASSUME OutputTypes, wire # <<>>
  PROVE  Tail(wire) \in Seq(Event) /\ Head(wire) \in Event
  BY HeadTailProperties DEF OutputTypes

\* What the pump has ahead of it once the head is read.
LEMMA HeadRead ==
  ASSUME OutputInv, conn = "open", wire # <<>>
  PROVE  LET e == Head(wire)  w == Tail(wire) IN
         /\ Rises(w) /\ Told(w, service) /\ Read(w, service, Past)
         /\ e.type = "call" => /\ e.of \in Responses /\ Read(w, service, Past \cup {e.of})
                               /\ \A x \in Past : x < e.of
                               /\ Pending = {} /\ Open(w, service, e.of)
         /\ (e.type \in Done => e.of \notin Pending) => Ends(w, service, Pending)
         /\ e.type \in Done => Pending \subseteq {e.of}
         /\ Ends(w, service, {})
<1> USE DEF OutputInv
<1>1. /\ service \in ServiceState /\ wire \in Seq(Event)
      /\ Rises(wire) /\ Told(wire, service) /\ Read(wire, service, Past)
      /\ Ends(wire, service, Pending)
  BY DEF OutputTypes, Ordered
<1>2. Past \in SUBSET Responses /\ Pending \in SUBSET Past /\ {} \in SUBSET Past
  BY PastTyped
<1>3. Ends(wire, service, {})
  BY <1>1 DEF Ends
<1>4. /\ Rises(Tail(wire)) /\ Told(Tail(wire), service) /\ Read(Tail(wire), service, Past)
      /\ Head(wire).type = "call" =>
            /\ Head(wire).of \in Responses /\ Read(Tail(wire), service, Past \cup {Head(wire).of})
            /\ \A x \in Past : x < Head(wire).of
      /\ \A pending \in SUBSET Past : Ends(wire, service, pending) =>
            /\ (Head(wire).type \in Done => Head(wire).of \notin pending) =>
                  Ends(Tail(wire), service, pending)
            /\ Head(wire).type = "call" => pending = {} /\ Open(Tail(wire), service, Head(wire).of)
            /\ Head(wire).type \in Done => pending \subseteq {Head(wire).of}
  <2> HIDE DEF OutputInv
  <2>1. QED
    BY <1>1, <1>2, ReadKeeps
<1>5. QED
  BY <1>1, <1>2, <1>3, <1>4

LEMMA OtherRead ==
  ASSUME OutputInv, pump.at = "read", conn = "open", wire # <<>>,
         ~Keyed(Head(wire)), wire' = Tail(wire),
         UNCHANGED <<talk, conn, service, results, files, sent, handed>>,
         pump' \in PumpState, pump'.at # "action"
  PROVE  OutputInv'
<1>1. /\ Given' = Given /\ Past' = Past /\ Pending' = Pending
  BY DEF Given, Acting, Past, Pending
<1>2. OutputTypes' /\ Once'
  BY TailTyped DEF OutputTypes, Once, OutputInv
<1>3. Head(wire).type \notin Done
  BY DEF Keyed
<1>4. /\ Rises(wire') /\ Told(wire', service') /\ Read(wire', service', Past')
      /\ Ends(wire', service', Pending')
  BY <1>1, <1>3, HeadRead
<1>5. service'.active \in {0, service'.made}
  BY DEF OutputInv, Ordered
<1>6. QED
  BY <1>2, <1>4, <1>5 DEF OutputInv, Ordered

\* The facts of a step that reads the head of the wire.
ReadsHead(type) ==
  /\ pump.at = "read" /\ conn = "open" /\ wire # <<>> /\ Head(wire).type = type
  /\ wire' = Tail(wire)
  /\ UNCHANGED <<talk, conn, service>>

LEMMA LoopsOn == Loops => pump' \in PumpState /\ pump'.at # "action"
  BY ResponseBoundsAssumption DEF Loops, PumpState

LEMMA InterruptedKeeps ==
  ASSUME OutputInv, ReadsHead("cancelled"), Loops, results' = <<>>,
         UNCHANGED <<files, sent, handed>>
  PROVE  OutputInv'
<1>1. /\ Range(<<>>) = {} /\ <<>> \in Seq(Responses)
  BY EmptySeq DEF Range
<1>2. Acting = {} /\ Acting' = {} /\ pump' \in PumpState /\ pump'.at # "action"
  BY LoopsOn DEF ReadsHead, Acting
<1>3. Given' \subseteq Given /\ Past' \subseteq Past /\ Pending' = {}
  <2>1. Range(results') = {}
    BY <1>1
  <2>2. /\ Range(sent') = Range(sent) /\ Range(files') = Range(files)
        /\ Range(handed') = Range(handed)
    OBVIOUS
  <2>3. Given' \subseteq Given
    BY <2>1, <2>2 DEF Given
  <2>4. QED
    BY <1>2, <2>1, <2>3 DEF Past, Pending
<1>4. OutputTypes'
  BY <1>1, <1>2, TailTyped DEF OutputTypes, OutputInv, ReadsHead
<1>5. /\ Rises(wire') /\ Told(wire', service') /\ Read(wire', service', Past)
      /\ Ends(wire', service', {})
  BY HeadRead DEF ReadsHead
<1>6. Read(wire', service', Past')
  BY <1>3, <1>5 DEF Read
<1>7. Ordered'
  BY <1>2, <1>3, <1>5, <1>6 DEF Ordered, OutputInv, ReadsHead
<1>8. Once'
  <2>1. sent \in Seq(Responses) /\ results \in Seq(Responses) /\ IsInjective(sent \o results)
    BY DEF OutputInv, OutputTypes, Once
  <2>2. IsInjective(sent)
    BY <2>1, InjectiveFirst
  <2>3. sent' \o results' = sent
    BY <2>1, ConcatEmptySeq
  <2>4. QED
    BY <2>2, <2>3 DEF Once, OutputInv, ReadsHead
<1>9. QED
  BY <1>4, <1>7, <1>8 DEF OutputInv

LEMMA CompletedKeeps ==
  ASSUME OutputInv, ReadsHead("completed"), Loops,
         sent' = sent \o results, results' = <<>>, handed' = handed \o files, files' = <<>>
  PROVE  OutputInv'
<1>a. /\ sent \in Seq(Responses) /\ results \in Seq(Responses)
      /\ handed \in Seq(Responses) /\ files \in Seq(Responses)
  BY DEF OutputInv, OutputTypes
<1>1. Range(<<>>) = {} /\ <<>> \in Seq(Responses)
  BY EmptySeq DEF Range
<1>2. /\ Range(sent') = Range(sent) \cup Range(results)
      /\ Range(handed') = Range(handed) \cup Range(files)
      /\ sent' \in Seq(Responses) /\ handed' \in Seq(Responses)
  BY <1>a, RangeConcatenation, ConcatProperties
<1>3. Acting = {} /\ Acting' = {} /\ pump' \in PumpState /\ pump'.at # "action"
  BY LoopsOn DEF ReadsHead, Acting
<1>4. Given' = Given /\ Past' = Past /\ Pending' = {}
  <2>1. Range(results') = {} /\ Range(files') = {}
    BY <1>1
  <2>2. Given' = Given
    BY <2>1, <1>2 DEF Given
  <2>3. QED
    BY <2>1, <2>2, <1>3 DEF Past, Pending
<1>5. OutputTypes'
  BY <1>1, <1>2, <1>3, TailTyped DEF OutputTypes, OutputInv, ReadsHead
<1>6. /\ Rises(wire') /\ Told(wire', service') /\ Read(wire', service', Past')
      /\ Ends(wire', service', {}) /\ Pending \subseteq {Head(wire).of}
  BY <1>4, HeadRead DEF ReadsHead, Done
<1>7. Ordered'
  BY <1>3, <1>4, <1>6 DEF Ordered, OutputInv, ReadsHead
<1>8. Once'
  <2>1. /\ IsInjective(sent \o results) /\ IsInjective(handed \o files)
        /\ Range(sent) \subseteq service.completed
    BY DEF OutputInv, Once
  <2>2. sent' \o results' = sent \o results /\ handed' \o files' = handed \o files
    BY <1>2, ConcatEmptySeq
  <2>3. Head(wire).of \in service.completed
    <3>1. wire \in Seq(Event) /\ Told(wire, service)
      BY DEF OutputInv, OutputTypes, Ordered
    <3>2. 1 \in 1 .. Len(wire) /\ Head(wire) = wire[1]
      BY <3>1, HeadTailProperties DEF ReadsHead
    <3>3. Keyed(wire[1]) /\ wire[1].type = "completed"
      BY <3>2 DEF ReadsHead, Keyed, Done
    <3>4. QED
      BY <3>1, <3>2, <3>3 DEF Told
  <2>4. Range(results) \subseteq {Head(wire).of}
    BY <1>6 DEF Pending
  <2>5. Range(sent') \subseteq service'.completed
    BY <1>2, <2>1, <2>3, <2>4 DEF ReadsHead
  <2>6. QED
    BY <2>1, <2>2, <2>5 DEF Once
<1>9. QED
  BY <1>5, <1>7, <1>8 DEF OutputInv

LEMMA CallKeeps ==
  ASSUME OutputInv, ReadsHead("call"), pump' = [at |-> "action", call |-> Head(wire).of],
         UNCHANGED <<results, files, sent, handed>>
  PROVE  OutputInv'
<1> DEFINE k == Head(wire).of
<1>1. /\ k \in Responses /\ Rises(wire') /\ Told(wire', service')
      /\ Read(wire', service', Past \cup {k}) /\ (\A x \in Past : x < k)
      /\ Pending = {} /\ Open(wire', service', k) /\ Ends(wire', service', {})
  BY HeadRead DEF ReadsHead
<1>2. pump'.at = "action" /\ pump'.call = k /\ Acting = {}
  BY DEF ReadsHead, Acting
<1> HIDE DEF k
<1>3. Acting' = {k}
  BY <1>2 DEF Acting
<1>4. Given' = Given /\ Past' = Past \cup {k} /\ Given \subseteq Past /\ Range(results) = {}
  BY <1>1, <1>2, <1>3 DEF Given, Past, Pending
<1>5. Pending' = {k}
  BY <1>3, <1>4 DEF Pending
<1>6. pump' \in PumpState
  BY <1>1, <1>2, ResponseBoundsAssumption DEF PumpState, Responses, k
<1>7. OutputTypes' /\ Once'
  BY <1>6, TailTyped DEF OutputTypes, Once, OutputInv, ReadsHead
<1>8. results = <<>>
  <2>1. results \in Seq(Responses)
    BY DEF OutputInv, OutputTypes
  <2>2. Range(results) = {results[i] : i \in 1 .. Len(results)} /\ Len(results) \in Nat
    BY <2>1, RangeEquality
  <2>3. Len(results) = 0
    BY <1>4, <2>2
  <2>4. QED
    BY <2>1, <2>3
<1>9. Ends(wire', service', Pending')
  BY <1>1, <1>5 DEF Ends
<1>10. Ordered'
  <2>1. Read(wire', service', Past')
    BY <1>1, <1>4
  <2>2. service'.active \in {0, service'.made}
    BY DEF OutputInv, Ordered, ReadsHead
  <2>3. results' = <<>> /\ \A x \in Given' : x < pump'.call
    BY <1>1, <1>2, <1>4, <1>8
  <2>4. QED
    BY <1>1, <1>9, <2>1, <2>2, <2>3 DEF Ordered
<1>11. QED
  BY <1>7, <1>10 DEF OutputInv

LEMMA ReturnKeeps == OutputInv /\ ActionReturns => OutputInv'
<1> SUFFICES ASSUME OutputInv, ActionReturns PROVE OutputInv'
  OBVIOUS
<1> DEFINE k == pump.call
<1>a. /\ sent \in Seq(Responses) /\ results \in Seq(Responses)
      /\ handed \in Seq(Responses) /\ files \in Seq(Responses)
      /\ pump.at = "action" /\ results = <<>> /\ (\A x \in Given : x < k)
  BY DEF OutputInv, OutputTypes, Ordered, ActionReturns
<1>b. k \in Responses /\ k \in Nat /\ Acting = {k}
  BY <1>a, PastTyped, ResponseBoundsAssumption DEF OutputInv, Responses, Acting
<1>c. /\ results' = Append(results, k) /\ files' = Append(files, k)
      /\ UNCHANGED <<talk, service, wire, conn, sent, handed>>
      /\ pump' \in PumpState /\ pump'.at # "action"
  BY LoopsOn DEF ActionReturns, shared, outputs
<1> HIDE DEF k
<1>1. k \notin Given
  BY <1>a, <1>b
<1>2. /\ Range(results') = Range(results) \cup {k} /\ Range(files') = Range(files) \cup {k}
      /\ results' \in Seq(Responses) /\ files' \in Seq(Responses)
  <2>1. ASSUME NEW s \in Seq(Responses)
        PROVE  Append(s, k) \in Seq(Responses) /\ Range(Append(s, k)) = Range(s) \cup {k}
    <3>1. /\ Append(s, k) = s \o <<k>> /\ <<k>> \in Seq(Responses)
          /\ Append(s, k) \in Seq(Responses)
      BY <1>b
    <3>2. Range(<<k>>) = {k}
      BY DEF Range
    <3>3. Range(s \o <<k>>) = Range(s) \cup Range(<<k>>)
      BY <3>1, RangeConcatenation
    <3>4. QED
      BY <3>1, <3>2, <3>3
  <2>2. QED
    BY <2>1, <1>a, <1>c
<1>3. Given' = Given \cup {k} /\ Acting' = {} /\ Past' = Past /\ Pending' = Pending
  <2>1. Acting' = {}
    BY <1>c DEF Acting
  <2>2. Given' = Given \cup {k}
    BY <1>2, <1>c DEF Given
  <2>3. QED
    BY <2>1, <2>2, <1>2, <1>b DEF Past, Pending
<1>4. OutputTypes'
  BY <1>2, <1>c DEF OutputTypes, OutputInv
<1>5. Ordered'
  BY <1>3, <1>c DEF Ordered, OutputInv, Rises, Told, Read, Ends, Open
<1>6. Once'
  <2>1. ASSUME NEW s \in Seq(Responses), NEW t \in Seq(Responses), IsInjective(s \o t),
               k \notin Range(s), k \notin Range(t)
        PROVE  IsInjective(s \o Append(t, k))
    <3>1. s \o Append(t, k) = Append(s \o t, k) /\ s \o t \in Seq(Responses)
      BY <1>b
    <3>2. k \notin Range(s \o t)
      BY <2>1, RangeConcatenation
    <3>3. QED
      BY <3>1, <3>2, <2>1, <1>b, InjectiveAppend
  <2>2. /\ k \notin Range(sent) /\ k \notin Range(results)
        /\ k \notin Range(handed) /\ k \notin Range(files)
    BY <1>1 DEF Given
  <2>3. IsInjective(sent \o results) /\ IsInjective(handed \o files)
    BY DEF OutputInv, Once
  <2>4. IsInjective(sent \o Append(results, k)) /\ IsInjective(handed \o Append(files, k))
    BY <2>1, <2>2, <2>3, <1>a
  <2>5. QED
    BY <2>4, <1>c DEF Once, OutputInv
<1>7. QED
  BY <1>4, <1>5, <1>6 DEF OutputInv

LEMMA OutputInit == ResponseInit => OutputInv
<1> SUFFICES ASSUME ResponseInit PROVE OutputInv
  OBVIOUS
<1>1. /\ wire = <<E("updated", 0)>> /\ E("updated", 0) \in Event
      /\ E("updated", 0).type = "updated"
  BY EventsTyped, ResponseBoundsAssumption DEF ResponseInit, Events
<1>2. /\ Len(wire) = 1 /\ wire[1].type = "updated" /\ wire \in Seq(Event)
  BY <1>1
<1>3. \A i \in 1 .. Len(wire) : ~Keyed(wire[i]) /\ wire[i].type # "call"
  BY <1>2 DEF Keyed, Done
<1>4. /\ sent = <<>> /\ handed = <<>> /\ results = <<>> /\ files = <<>>
      /\ <<>> \in Seq(Responses) /\ Range(<<>>) = {} /\ pump.at = "read"
  BY EmptySeq DEF ResponseInit, Range
<1>5. Given = {} /\ Acting = {} /\ Past = {} /\ Pending = {}
  BY <1>4 DEF Given, Acting, Past, Pending
<1>6. OutputTypes
  <2>1. service \in ServiceState /\ pump \in PumpState
    BY ResponseBoundsAssumption DEF ResponseInit, ServiceState, PumpState
  <2>2. talk \in Talk
    BY TalksAssumption DEF ResponseInit
  <2>3. QED
    BY <1>2, <1>4, <2>1, <2>2 DEF OutputTypes
<1>7. Ordered
  BY <1>3, <1>4, <1>5 DEF Ordered, Rises, Told, Read, Ends, ResponseInit
<1>8. Once
  <2>1. <<>> \o <<>> = <<>> /\ IsInjective(<<>>)
    BY DEF IsInjective
  <2>2. QED
    BY <1>4, <2>1 DEF Once
<1>9. QED
  BY <1>6, <1>7, <1>8 DEF OutputInv

LEMMA OutputStep == OutputInv /\ [ResponseNext]_responsevars => OutputInv'
<1> SUFFICES ASSUME OutputInv, [ResponseNext]_responsevars PROVE OutputInv'
  OBVIOUS
<1>a. pump \in PumpState /\ pump.call \in 0 .. MaxResponses
  BY DEF OutputInv, OutputTypes, PumpState
<1>1. CASE Service
  BY <1>1, ServiceKeeps
<1>2. CASE Pump
  <2>1. CASE PumpGreets \/ PumpCreated \/ PumpSpoken \/ PumpSkips
    <3>1. /\ pump.at = "read" /\ conn = "open" /\ wire # <<>> /\ ~Keyed(Head(wire))
          /\ wire' = Tail(wire) /\ Loops
          /\ UNCHANGED <<talk, conn, service, results, files, sent, handed>>
      BY <2>1 DEF PumpGreets, PumpCreated, PumpSpoken, PumpSkips, Reads, shared, Keyed, Done,
                  outputs
    <3>2. QED
      BY <3>1, LoopsOn, OtherRead
  <2>2. CASE PumpInterrupted
    BY <2>2, InterruptedKeeps DEF PumpInterrupted, Reads, ReadsHead, shared, outputs
  <2>3. CASE PumpCompleted
    BY <2>3, CompletedKeeps DEF PumpCompleted, Reads, ReadsHead, shared
  <2>4. CASE PumpRunsAction
    BY <2>4, CallKeeps DEF PumpRunsAction, Reads, ReadsHead, shared, outputs, n
  <2>5. CASE ReaderEnds
    <3>1. /\ pump.at = "read" /\ pump' \in PumpState /\ pump'.at = "ending"
          /\ UNCHANGED <<talk, conn, service, results, files, sent, handed>>
      BY <2>5, <1>a DEF ReaderEnds, Reads, shared, outputs, PumpState
    <3>2. CASE Reads("fatal")
      <4>1. /\ conn = "open" /\ wire # <<>> /\ ~Keyed(Head(wire)) /\ wire' = Tail(wire)
        BY <3>2 DEF Reads, Keyed, Done
      <4>2. QED
        BY <3>1, <4>1, OtherRead
    <3>3. CASE UNCHANGED wire
      BY <3>1, <3>3, AsideKeeps
    <3>4. QED
      BY <2>5, <3>2, <3>3 DEF ReaderEnds
  <2>6. CASE PumpStops
    <3>1. /\ pump.at = "ending" /\ pump' \in PumpState /\ pump'.at = "over"
          /\ UNCHANGED <<talk, conn, service, wire, results, files, sent, handed>>
      BY <2>6, <1>a DEF PumpStops, shared, outputs, PumpState
    <3>2. QED
      BY <3>1, AsideKeeps
  <2>7. QED
    BY <1>2, <2>1, <2>2, <2>3, <2>4, <2>5, <2>6 DEF Pump
<1>3. CASE ActionReturns
  BY <1>3, ReturnKeeps
<1>4. CASE Close \/ ConnGuard \/ (\E i \in Timers : Callback(i)) \/ UNCHANGED responsevars
  <2>1. /\ UNCHANGED <<talk, service, results, files, sent, handed, pump>>
        /\ UNCHANGED <<wire, conn>> \/ (wire' = <<>> /\ conn' = "closed")
    BY <1>4 DEF Close, HangupFlags, HangupCancels, ConnGuard, ConnCloses, Callback, TimerFires,
                CallbackArms, PanicAsks, PanicSwaps, PanicTells, PanicCancels, rest, outputs, responsevars
  <2>2. QED
    BY <2>1, <1>a, AsideKeeps
<1>5. QED
  BY <1>1, <1>2, <1>3, <1>4 DEF ResponseNext

(***************************************************************************)
(* Whatever OpenAI sends and the user breaks into: pumpFromOpenAI sends    *)
(* the result of a function call at most once and only when its response   *)
(* completed, and passes a file on at most once.                           *)
(***************************************************************************)
THEOREM ResultsSentOnce == ResponseSpec => []OutputOnce
<1>1. OutputInv => OutputOnce
  <2> SUFFICES ASSUME OutputInv PROVE OutputOnce
    OBVIOUS
  <2>1. /\ sent \in Seq(Responses) /\ results \in Seq(Responses)
        /\ handed \in Seq(Responses) /\ files \in Seq(Responses)
        /\ IsInjective(sent \o results) /\ IsInjective(handed \o files)
        /\ Range(sent) \subseteq service.completed
    BY DEF OutputInv, OutputTypes, Once
  <2>2. IsInjective(sent) /\ IsInjective(handed)
    BY <2>1, InjectiveFirst
  <2>3. QED
    BY <2>1, <2>2 DEF OutputOnce
<1>2. QED
  BY <1>1, OutputInit, OutputStep, PTL DEF ResponseSpec

(***************************************************************************)
(* The types of a session with OpenAI.  The timers of the watchdog are     *)
(* numbered in the order they are made: the event that begins a response   *)
(* and the end of its audio arm one each, and come on the wire in that     *)
(* order, so that MaxResponses responses arm no more than Timers has.      *)
(***************************************************************************)
Arms(e) == e.type \in {"created", "spoken"}
Nth(e) == IF e.type = "created" THEN 2 * e.of - 1 ELSE 2 * e.of
\* The timers that what OpenAI has sent so far may arm.
Top(v) == IF v.active # 0 /\ ~v.spoken THEN 2 * v.made - 1 ELSE 2 * v.made
Arming(w, v, a) ==
  /\ a <= Top(v)
  /\ \A i \in 1 .. Len(w) : Arms(w[i]) => a < Nth(w[i]) /\ Nth(w[i]) <= Top(v)
  /\ \A i, j \in 1 .. Len(w) : i < j /\ Arms(w[i]) /\ Arms(w[j]) => Nth(w[i]) < Nth(w[j])

Clock ==
  /\ timer \in [Timers -> {"off", "armed", "sent"}]
  /\ panic \in [Timers -> {"off", "armed", "asked", "telling", "told"}]
  /\ armed \in 0 .. 2 * MaxResponses
  /\ watchdogTimer \in 0 .. armed /\ watchdogPanicTimer \in 0 .. armed
  /\ \A i \in Timers : timer[i] # "off" => i <= armed
Line ==
  /\ Len(wire) <= MaxWire /\ out \in Seq({"cancel", "create", "result"})
  /\ conn \in {"open", "closed"} /\ answering \in 0 .. MaxResponses
Flags ==
  /\ talk \in Talks /\ ctx \in {"live", "done"} /\ hangup \in {"no", "flagged", "over"}
  /\ generating \in BOOLEAN /\ called \in BOOLEAN /\ greeted \in BOOLEAN
SessionTypes == Clock /\ Line /\ Flags /\ Arming(wire, service, armed)

LEMMA NthNat == \A e \in Event : Nth(e) \in Int
BY ResponseBoundsAssumption DEF Nth, Event

LEMMA TopNat ==
  ASSUME NEW v \in ServiceState PROVE Top(v) \in Int /\ Top(v) <= 2 * MaxResponses
BY ResponseBoundsAssumption DEF Top, ServiceState

\* OpenAI sends e, which arms nothing or the next timer.
LEMMA SendArms ==
  ASSUME NEW w \in Seq(Event), NEW e \in Event, NEW a \in Nat,
         NEW v \in ServiceState, NEW u \in ServiceState,
         Arming(w, v, a), Top(v) <= Top(u), Arms(e) => Top(v) < Nth(e) /\ Nth(e) <= Top(u)
  PROVE  Arming(Append(w, e), u, a)
<1> DEFINE longer == Append(w, e)
<1>1. /\ Len(longer) = Len(w) + 1 /\ Len(w) \in Nat /\ longer[Len(w) + 1] = e
      /\ \A i \in 1 .. Len(w) : longer[i] = w[i] /\ w[i] \in Event
  OBVIOUS
<1> HIDE DEF longer
<1>2. Top(v) \in Int /\ Top(u) \in Int /\ Nth(e) \in Int /\ \A i \in 1 .. Len(w) : Nth(w[i]) \in Int
  BY <1>1, NthNat, TopNat
<1>3. \A i \in 1 .. Len(longer) : (i \in 1 .. Len(w) /\ longer[i] = w[i]) \/ (i = Len(w) + 1 /\ longer[i] = e)
  BY <1>1
<1>4. a <= Top(u)
  BY <1>2 DEF Arming
<1>5. ASSUME NEW i \in 1 .. Len(longer), Arms(longer[i]) PROVE a < Nth(longer[i]) /\ Nth(longer[i]) <= Top(u)
  BY <1>2, <1>3, <1>5 DEF Arming
<1>6. ASSUME NEW i \in 1 .. Len(longer), NEW j \in 1 .. Len(longer), i < j, Arms(longer[i]), Arms(longer[j])
      PROVE  Nth(longer[i]) < Nth(longer[j])
  <2>1. i \in 1 .. Len(w) /\ longer[i] = w[i]
    BY <1>1, <1>3, <1>6
  <2>2. CASE j \in 1 .. Len(w) /\ longer[j] = w[j]
    BY <1>6, <2>1, <2>2 DEF Arming
  <2>3. CASE longer[j] = e
    BY <1>2, <1>6, <2>1, <2>3 DEF Arming
  <2>4. QED
    BY <1>3, <2>2, <2>3
<1>7. QED
  BY <1>4, <1>5, <1>6 DEF Arming, longer

\* The pump reads the head, and arms a timer if it has to.
LEMMA ReadArms ==
  ASSUME NEW w \in Seq(Event), w # <<>>, NEW a \in Nat, NEW v \in ServiceState, Arming(w, v, a)
  PROVE  /\ Arming(Tail(w), v, a)
         /\ Arms(Head(w)) => Arming(Tail(w), v, a + 1)
<1>1. /\ Len(w) \in Nat \ {0} /\ Len(Tail(w)) = Len(w) - 1 /\ Head(w) = w[1]
      /\ \A i \in 1 .. Len(w) - 1 : Tail(w)[i] = w[i + 1]
      /\ \A i \in 1 .. Len(w) : w[i] \in Event
  BY HeadTailProperties
<1> DEFINE later == Tail(w)
<1>2. Len(later) = Len(w) - 1 /\ \A i \in 1 .. Len(later) : later[i] = w[i + 1]
  BY <1>1
<1> HIDE DEF later
<1>3. Top(v) \in Int /\ \A i \in 1 .. Len(w) : Nth(w[i]) \in Int
  BY <1>1, NthNat, TopNat
<1>4. \A i \in 1 .. Len(later) : i + 1 \in 1 .. Len(w) /\ 1 < i + 1
  BY <1>1, <1>2
<1>5. Arming(later, v, a)
  BY <1>1, <1>2, <1>4 DEF Arming
<1>6. ASSUME Arms(w[1]) PROVE Arming(later, v, a + 1)
  <2>1. a < Nth(w[1]) /\ Nth(w[1]) <= Top(v) /\ Nth(w[1]) \in Int
    BY <1>1, <1>3, <1>6 DEF Arming
  <2>2. \A i \in 1 .. Len(later) : Arms(later[i]) => Nth(w[1]) < Nth(later[i])
    BY <1>1, <1>2, <1>4, <1>6 DEF Arming
  <2>3. \A i \in 1 .. Len(later) : Nth(later[i]) \in Int
    BY <1>2, <1>3, <1>4
  <2>4. a + 1 <= Top(v) /\ \A i \in 1 .. Len(later) : Arms(later[i]) => a + 1 < Nth(later[i])
    BY <1>3, <2>1, <2>2, <2>3
  <2>5. QED
    BY <1>5, <2>4 DEF Arming
<1>7. QED
  BY <1>1, <1>5, <1>6 DEF later

LEMMA ReadArming ==
  ASSUME OutputTypes, SessionTypes, wire # <<>>
  PROVE  /\ Arming(Tail(wire), service, armed)
         /\ Arms(Head(wire)) => Arming(Tail(wire), service, armed + 1) /\ armed + 1 \in Timers
         /\ Tail(wire) \in Seq(Event) /\ Len(Tail(wire)) <= MaxWire
         /\ Head(wire).of \in 0 .. MaxResponses
<1>1. /\ wire \in Seq(Event) /\ service \in ServiceState /\ armed \in Nat /\ Arming(wire, service, armed)
  BY ResponseBoundsAssumption DEF OutputTypes, SessionTypes, Clock
<1>2. /\ Arming(Tail(wire), service, armed)
      /\ Arms(Head(wire)) => Arming(Tail(wire), service, armed + 1)
  BY <1>1, ReadArms
<1>3. Arms(Head(wire)) => armed + 1 <= 2 * MaxResponses
  BY <1>1, <1>2, TopNat, ResponseBoundsAssumption DEF Arming
<1>4. Tail(wire) \in Seq(Event) /\ Head(wire) \in Event /\ Len(Tail(wire)) = Len(wire) - 1 /\ Len(wire) \in Nat
  BY <1>1, HeadTailProperties
<1>5. Head(wire).of \in 0 .. MaxResponses /\ Len(Tail(wire)) <= MaxWire
  BY <1>4, ResponseBoundsAssumption DEF Event, SessionTypes, Line
<1>6. QED
  BY <1>1, <1>2, <1>3, <1>4, <1>5, ResponseBoundsAssumption DEF Timers

\* Stop leaves a timer off or as it was.
LEMMA StopTypes ==
  /\ \A t \in [Timers -> {"off", "armed", "sent"}], i \in Nat :
        /\ Stopped(t, i) \in [Timers -> {"off", "armed", "sent"}]
        /\ \A j \in Timers : Stopped(t, i)[j] = t[j] \/ Stopped(t, i)[j] = "off"
  /\ \A t \in [Timers -> {"off", "armed", "asked", "telling", "told"}], i \in Nat :
        Stopped(t, i) \in [Timers -> {"off", "armed", "asked", "telling", "told"}]
BY DEF Stopped

LEMMA ClockStops ==
  ASSUME Clock, timer' = timer \/ stopWatchdog, UNCHANGED armed,
         timer' = timer => watchdogTimer' \in {0, watchdogTimer},
         \/ UNCHANGED <<panic, watchdogPanicTimer>>
         \/ panic' = Stopped(panic, watchdogPanicTimer) /\ watchdogPanicTimer' = 0
  PROVE  Clock'
<1>0. watchdogTimer \in Nat /\ watchdogPanicTimer \in Nat
  BY ResponseBoundsAssumption DEF Clock
<1>1. /\ timer' \in [Timers -> {"off", "armed", "sent"}]
      /\ \A j \in Timers : timer'[j] = timer[j] \/ timer'[j] = "off"
  BY <1>0, StopTypes DEF Clock, stopWatchdog
<1>2. panic' \in [Timers -> {"off", "armed", "asked", "telling", "told"}]
  BY <1>0, StopTypes DEF Clock
<1>3. watchdogTimer' \in {0, watchdogTimer} /\ watchdogPanicTimer' \in {0, watchdogPanicTimer}
  BY DEF stopWatchdog
<1>4. armed \in Nat
  BY ResponseBoundsAssumption DEF Clock
<1>5. QED
  BY <1>1, <1>2, <1>3, <1>4 DEF Clock

LEMMA ClockFires ==
  ASSUME Clock, fireWatchdog, armed + 1 \in Timers
  PROVE  Clock' /\ armed' = armed + 1
<1> DEFINE stopped == Stopped(timer, watchdogTimer)
<1>0. watchdogTimer \in Nat /\ watchdogPanicTimer \in Nat
  BY ResponseBoundsAssumption DEF Clock
<1>1. /\ stopped \in [Timers -> {"off", "armed", "sent"}]
      /\ \A j \in Timers : stopped[j] = timer[j] \/ stopped[j] = "off"
  BY <1>0, StopTypes DEF Clock
<1>2. panic' \in [Timers -> {"off", "armed", "asked", "telling", "told"}]
  BY <1>0, StopTypes DEF Clock, fireWatchdog
<1>3. timer' = [stopped EXCEPT ![armed + 1] = "armed"] /\ armed' = armed + 1
  BY DEF fireWatchdog
<1>4. armed \in Nat /\ armed' \in 0 .. 2 * MaxResponses
  BY <1>3, ResponseBoundsAssumption DEF Clock, Timers
<1>5. watchdogTimer' \in 0 .. armed' /\ watchdogPanicTimer' \in 0 .. armed'
  BY <1>3, <1>4 DEF fireWatchdog
<1> HIDE DEF stopped
<1>6. timer' \in [Timers -> {"off", "armed", "sent"}]
  BY <1>1, <1>3
<1>7. ASSUME NEW i \in Timers, timer'[i] # "off" PROVE i <= armed'
  <2>1. CASE i = armed + 1
    BY <1>3, <1>4, <2>1
  <2>2. CASE i # armed + 1
    <3>1. timer[i] # "off"
      BY <1>1, <1>3, <1>7, <2>2
    <3>2. QED
      BY <1>3, <1>4, <3>1 DEF Clock, Timers
  <2>3. QED
    BY <2>1, <2>2
<1>8. QED
  BY <1>2, <1>3, <1>4, <1>5, <1>6, <1>7 DEF Clock

LEMMA ClockCallback ==
  ASSUME Clock, NEW i \in Timers, Callback(i)
  PROVE  Clock'
<1>0. armed \in Nat /\ i \in Nat /\ i # 0
  BY ResponseBoundsAssumption DEF Clock, Timers
<1>1. UNCHANGED <<armed, watchdogTimer>>
  BY DEF Callback, TimerFires, CallbackArms, PanicAsks, PanicSwaps, PanicTells, PanicCancels, rest
<1>2. /\ timer' \in [Timers -> {"off", "armed", "sent"}]
      /\ \A j \in Timers : timer'[j] # "off" => timer[j] # "off"
  <2>1. timer' = timer \/ timer' = [timer EXCEPT ![i] = "off"] \/ (timer[i] = "armed" /\ timer' = [timer EXCEPT ![i] = "sent"])
    BY DEF Callback, TimerFires, CallbackArms, PanicAsks, PanicSwaps, PanicTells, PanicCancels
  <2>2. QED
    BY <2>1 DEF Clock
<1>3. panic' \in [Timers -> {"off", "armed", "asked", "telling", "told"}]
  <2>1. \E stage \in {"off", "armed", "asked", "telling", "told"} : panic' = panic \/ panic' = [panic EXCEPT ![i] = stage]
    BY DEF Callback, TimerFires, CallbackArms, PanicAsks, PanicSwaps, PanicTells, PanicCancels
  <2>2. QED
    BY <2>1 DEF Clock
<1>4. watchdogPanicTimer' = watchdogPanicTimer \/ (watchdogPanicTimer' = i /\ timer[i] = "sent")
  BY DEF Callback, TimerFires, CallbackArms, PanicAsks, PanicSwaps, PanicTells, PanicCancels
<1>5. watchdogPanicTimer' \in 0 .. armed
  BY <1>0, <1>4 DEF Clock
<1>6. QED
  BY <1>1, <1>2, <1>3, <1>5 DEF Clock

LEMMA SessionTypesInit == ResponseInit => SessionTypes
<1> SUFFICES ASSUME ResponseInit PROVE SessionTypes
  OBVIOUS
<1>1. Len(wire) = 1 /\ wire[1].type = "updated"
  BY DEF ResponseInit, E
<1>2. Arming(wire, service, armed)
  BY <1>1 DEF ResponseInit, Arming, Arms, Top
<1>3. Clock
  BY ResponseBoundsAssumption DEF ResponseInit, Clock
<1>4. Line
  <2>1. <<>> \in Seq({"cancel", "create", "result"})
    BY EmptySeq
  <2>2. QED
    BY <1>1, <2>1, ResponseBoundsAssumption DEF ResponseInit, Line
<1>5. Flags
  <2>1. disconnects \in {0, 1} /\ disconnects <= 2 * MaxResponses /\ disconnects = 0
    BY ResponseBoundsAssumption DEF ResponseInit
  <2>2. talk \in Talks /\ ctx = "live" /\ generating = FALSE /\ called = FALSE /\ greeted = FALSE /\ hangup = "no"
    BY DEF ResponseInit
  <2>3. QED
    BY <2>1, <2>2, Zenon DEF Flags
<1>6. QED
  BY <1>2, <1>3, <1>4, <1>5 DEF SessionTypes

LEMMA ServiceTypes == OutputInv /\ SessionTypes /\ Service => SessionTypes'
<1> SUFFICES ASSUME OutputInv, SessionTypes, Service PROVE SessionTypes'
  OBVIOUS
<1>a. /\ service \in ServiceState /\ wire \in Seq(Event) /\ armed \in Nat
      /\ service.active \in {0, service.made} /\ service.made \in Nat /\ service.active \in Nat
      /\ service.active \in 0 .. MaxResponses /\ talk.responses \in 0 .. MaxResponses
      /\ service' \in ServiceState
  <2>1. service' \in ServiceState
    BY ServiceStep DEF OutputInv, OutputTypes, Ordered
  <2>2. QED
    BY <2>1, ResponseBoundsAssumption DEF OutputInv, OutputTypes, Ordered, ServiceState, SessionTypes, Clock, Talk
<1>1. /\ UNCHANGED <<talk, conn, ctx, generating, called, greeted, answering, timers, disconnects, hangup>>
      /\ out' = out \/ (out # <<>> /\ out' = Tail(out))
  BY DEF Service, ServiceStarts, ServiceGoesOn, ServiceEnds, ServiceFails, ServiceTakes, conversation
<1>2. Clock' /\ Flags'
  BY <1>1 DEF SessionTypes, Clock, Flags, timers
<1>3. out' \in Seq({"cancel", "create", "result"})
  BY <1>1 DEF SessionTypes, Line
<1>4. ASSUME NEW e \in Event, Sends(e), Top(service) <= Top(service'),
             Arms(e) => Top(service) < Nth(e) /\ Nth(e) <= Top(service')
      PROVE  Len(wire') <= MaxWire /\ Arming(wire', service', armed)
  <2>1. wire' = Append(wire, e) /\ Len(wire) < MaxWire /\ Len(wire') = Len(wire) + 1 /\ Len(wire) \in Nat
    BY <1>4, <1>a DEF Sends
  <2>2. Arming(wire', service', armed)
    BY <1>4, <1>a, <2>1, SendArms DEF SessionTypes
  <2>3. QED
    BY <2>1, <2>2, ResponseBoundsAssumption
<1>5. ASSUME NEW type \in Events, NEW of \in 0 .. MaxResponses
      PROVE  /\ E(type, of) \in Event /\ (Arms(E(type, of)) <=> type \in {"created", "spoken"})
             /\ Nth(E(type, of)) = IF type = "created" THEN 2 * of - 1 ELSE 2 * of
  BY EventsTyped DEF Arms, Nth
<1>6. ASSUME service.active = 0, service.made < talk.responses, Sends(E("created", service.made + 1)),
             service' = Began
      PROVE  Len(wire') <= MaxWire /\ Arming(wire', service', armed)
  <2>1. Top(service) = 2 * service.made /\ Top(service') = 2 * (service.made + 1) - 1
    BY <1>6, <1>a DEF Top, Began, ServiceState
  <2>2. service.made + 1 \in 0 .. MaxResponses
    BY <1>6, <1>a, ResponseBoundsAssumption
  <2>3. E("created", service.made + 1) \in Event /\ Nth(E("created", service.made + 1)) = 2 * (service.made + 1) - 1
    BY <1>5, <2>2 DEF Events
  <2>4. QED
    BY <1>4, <1>6, <1>a, <2>1, <2>3
<1>7. ASSUME NEW type \in {"completed", "cancelled", "call", "fatal", "refused"}, NEW of \in 0 .. MaxResponses,
             Sends(E(type, of)), Top(service) <= Top(service')
      PROVE  Len(wire') <= MaxWire /\ Arming(wire', service', armed)
  BY <1>4, <1>5, <1>7 DEF Events
<1>8. ASSUME service'.made = service.made, service'.active = 0 \/ service'.spoken = service.spoken,
             service'.active \in {0, service.active}
      PROVE  Top(service) <= Top(service')
  BY <1>8, <1>a DEF Top
<1>9. Len(wire') <= MaxWire /\ Arming(wire', service', armed)
  <2>1. CASE ServiceStarts
    BY <2>1, <1>6 DEF ServiceStarts
  <2>2. CASE ServiceGoesOn
    <3>1. CASE ~service.spoken /\ Sends(E("spoken", service.active)) /\ service' = [service EXCEPT !.spoken = TRUE]
      <4>1. service.active = service.made /\ service.active # 0
        BY <2>2, <1>a DEF ServiceGoesOn
      <4>2. Top(service) = 2 * service.made - 1 /\ Top(service') = 2 * service.made
        BY <3>1, <4>1, <1>a DEF Top, ServiceState
      <4>3. E("spoken", service.active) \in Event /\ Nth(E("spoken", service.active)) = 2 * service.active
        BY <1>5, <1>a DEF Events
      <4>4. QED
        <5>1. Top(service) <= Top(service') /\ Top(service) < 2 * service.active /\ 2 * service.active <= Top(service')
          BY <1>a, <4>1, <4>2
        <5>2. QED
          BY <1>4, <3>1, <4>3, <5>1
    <3>2. CASE Sends(E("call", service.active)) /\ service' = [service EXCEPT !.asked = TRUE]
      <4>1. Top(service) <= Top(service')
        BY <3>2, <1>8, <1>a DEF ServiceState
      <4>2. QED
        BY <3>2, <4>1, <1>7, <1>a
    <3>3. QED
      BY <2>2, <3>1, <3>2 DEF ServiceGoesOn
  <2>3. CASE ServiceEnds
    <3>1. service'.made = service.made /\ service'.active = 0
      BY <2>3, <1>a DEF ServiceEnds, ServiceState
    <3>2. QED
      BY <2>3, <3>1, <1>7, <1>8, <1>a DEF ServiceEnds
  <2>4. CASE ServiceFails
    <3>1. Sends(E("fatal", 0)) /\ Top(service) <= Top(service') /\ 0 \in 0 .. MaxResponses
      BY <2>4, <1>8, <1>a, ResponseBoundsAssumption DEF ServiceFails
    <3>2. QED
      BY <3>1, <1>7
  <2>5. CASE ServiceTakes
    <3>1. CASE UNCHANGED <<service, wire>>
      BY <3>1 DEF SessionTypes, Line
    <3>2. CASE Sends(E("cancelled", service.active)) /\ service' = [service EXCEPT !.active = 0]
      <4>1. service'.made = service.made /\ service'.active = 0
        BY <3>2, <1>a DEF ServiceState
      <4>2. QED
        BY <3>2, <4>1, <1>7, <1>8, <1>a
    <3>3. CASE /\ service.active = 0 /\ service.made < talk.responses
               /\ Sends(E("created", service.made + 1)) /\ service' = Began
      BY <3>3, <1>6
    <3>4. CASE Sends(E("refused", 0)) /\ UNCHANGED service
      <4>1. Top(service) <= Top(service') /\ 0 \in 0 .. MaxResponses
        BY <3>4, <1>8, <1>a, ResponseBoundsAssumption
      <4>2. QED
        BY <3>4, <4>1, <1>7
    <3>5. QED
      BY <2>5, <3>1, <3>2, <3>3, <3>4 DEF ServiceTakes
  <2>6. QED
    BY <2>1, <2>2, <2>3, <2>4, <2>5 DEF Service
<1>10. QED
  BY <1>1, <1>2, <1>3, <1>9 DEF SessionTypes, Line, timers

LEMMA PumpFromTypes == OutputInv /\ SessionTypes /\ Pump => SessionTypes'
<1> SUFFICES ASSUME OutputInv, SessionTypes, Pump PROVE SessionTypes'
  OBVIOUS
<1>a. OutputTypes /\ armed \in Nat /\ armed <= Top(service) /\ results \in Seq(Responses)
  BY ResponseBoundsAssumption DEF OutputInv, OutputTypes, SessionTypes, Clock, Arming
<1>b. /\ UNCHANGED <<talk, service, conn, called, disconnects, hangup>>
      /\ ctx' = ctx \/ ctx' = "done"
      /\ generating' \in BOOLEAN /\ greeted' \in BOOLEAN
  BY DEF Pump, PumpGreets, PumpCreated, PumpSpoken, PumpInterrupted, PumpCompleted, PumpRunsAction, PumpSkips,
         ReaderEnds, PumpStops, Reads, shared, SessionTypes, Flags
<1>1. Flags'
  BY <1>b DEF SessionTypes, Flags
<1>2. out' \in Seq({"cancel", "create", "result"})
  <2> DEFINE S == {"cancel", "create", "result"}
  <2>1. out \in Seq(S) /\ <<"create">> \in Seq(S) /\ <<>> \in Seq(S) /\ "create" \in S
    BY DEF SessionTypes, Line
  <2>2. [i \in 1 .. Len(results) |-> "result"] \in Seq(S)
    <3>1. Len(results) \in Nat /\ "result" \in S
      BY <1>a
    <3> HIDE DEF S
    <3>2. [i \in 1 .. Len(results) |-> "result"] \in [1 .. Len(results) -> S]
      BY <3>1
    <3>3. QED
      BY <3>1, <3>2, SeqDef
  <2>3. CASE PumpCompleted
    <3>1. \A tail \in Seq(S) : out \o [i \in 1 .. Len(results) |-> "result"] \o tail \in Seq(S)
      <4> HIDE DEF S
      <4>1. out \o [i \in 1 .. Len(results) |-> "result"] \in Seq(S)
        BY <2>1, <2>2, ConcatProperties
      <4>2. QED
        BY <4>1, ConcatProperties
    <3>2. QED
      BY <2>1, <2>3, <3>1 DEF PumpCompleted
  <2>4. CASE ~PumpCompleted
    <3>1. out' = out \/ out' = Append(out, "create")
      BY <2>4 DEF Pump, PumpGreets, PumpCreated, PumpSpoken, PumpInterrupted, PumpRunsAction, PumpSkips,
         ReaderEnds, PumpStops, Reads
    <3>2. QED
      BY <2>1, <3>1
  <2>5. QED
    BY <2>3, <2>4
<1>3. ASSUME wire # <<>>, wire' = Tail(wire), UNCHANGED armed \/ (Arms(Head(wire)) /\ armed' = armed + 1)
      PROVE  Len(wire') <= MaxWire /\ Arming(wire', service', armed')
  BY <1>3, <1>a, <1>b, ReadArming
<1>4. CASE PumpCreated \/ PumpSpoken
  <2>1. wire # <<>> /\ wire' = Tail(wire) /\ Arms(Head(wire)) /\ fireWatchdog
    BY <1>4 DEF PumpCreated, PumpSpoken, Reads, Arms
  <2>2. Clock' /\ armed' = armed + 1
    BY <1>a, <2>1, ReadArming, ClockFires DEF SessionTypes
  <2>3. answering' \in 0 .. MaxResponses
    BY <1>4, <1>a, <2>1, ReadArming DEF PumpCreated, PumpSpoken, n, SessionTypes, Line
  <2>4. QED
    BY <1>1, <1>2, <1>3, <1>b, <2>1, <2>2, <2>3 DEF SessionTypes, Line
<1>5. CASE PumpGreets \/ PumpInterrupted \/ PumpCompleted \/ PumpRunsAction \/ PumpSkips \/ ReaderEnds \/ PumpStops
  <2>1. /\ timer' = timer \/ stopWatchdog
        /\ UNCHANGED armed
        /\ timer' = timer => watchdogTimer' \in {0, watchdogTimer}
        /\ \/ UNCHANGED <<panic, watchdogPanicTimer>>
           \/ panic' = Stopped(panic, watchdogPanicTimer) /\ watchdogPanicTimer' = 0
    BY <1>5 DEF PumpGreets, PumpInterrupted, PumpCompleted, PumpRunsAction, PumpSkips, ReaderEnds, PumpStops, timers,
       stopWatchdog
  <2>2. Clock'
    BY <2>1, ClockStops DEF SessionTypes
  <2>3. answering' \in {0, answering} /\ (UNCHANGED wire \/ (wire # <<>> /\ wire' = Tail(wire)))
    BY <1>5 DEF PumpGreets, PumpInterrupted, PumpCompleted, PumpRunsAction, PumpSkips, ReaderEnds, PumpStops, Reads
  <2>4. Len(wire') <= MaxWire /\ Arming(wire', service', armed')
    BY <1>3, <1>b, <2>1, <2>3 DEF SessionTypes, Line
  <2>5. answering' \in 0 .. MaxResponses
    BY <2>3, ResponseBoundsAssumption DEF SessionTypes, Line
  <2>6. QED
    BY <1>1, <1>2, <1>b, <2>2, <2>4, <2>5 DEF SessionTypes, Line
<1>6. QED
  BY <1>4, <1>5 DEF Pump

\* A step beside the pump and OpenAI: the wire stays, or the connection is closed.
LEMMA BesideTypes ==
  OutputInv /\ SessionTypes /\ (Close \/ ConnGuard \/ ActionReturns \/ \E i \in Timers : Callback(i)) => SessionTypes'
<1> SUFFICES ASSUME OutputInv, SessionTypes, Close \/ ConnGuard \/ ActionReturns \/ \E i \in Timers : Callback(i)
             PROVE  SessionTypes'
  OBVIOUS
<1>a. armed \in Nat /\ armed <= Top(service)
  BY ResponseBoundsAssumption DEF SessionTypes, Clock, Arming
<1>1. UNCHANGED <<service, armed>>
  BY DEF Close, HangupFlags, HangupCancels, ConnGuard, ConnCloses, ActionReturns, Callback, TimerFires, CallbackArms,
         PanicAsks, PanicSwaps, PanicTells, PanicCancels, rest, timers, shared
<1>2. Clock'
  <2>1. CASE \E i \in Timers : Callback(i)
    BY <2>1, ClockCallback DEF SessionTypes
  <2>2. CASE Close \/ ConnGuard \/ ActionReturns
    BY <2>2 DEF Close, HangupFlags, HangupCancels, ConnGuard, ActionReturns, timers, SessionTypes, Clock
  <2>3. QED
    BY <2>1, <2>2
<1>3. /\ UNCHANGED wire \/ wire' = <<>>
      /\ UNCHANGED out \/ out' = <<>> \/ out' = Append(out, "cancel")
      /\ conn' \in {conn, "closed"} /\ UNCHANGED answering
  BY DEF Close, HangupFlags, HangupCancels, ConnGuard, ConnCloses, ActionReturns, Callback, TimerFires, CallbackArms,
         PanicAsks, PanicSwaps, PanicTells, PanicCancels, rest, shared
<1>4. Line'
  <2> DEFINE S == {"cancel", "create", "result"}
  <2>1. \A s \in Seq(S) : Append(s, "cancel") \in Seq(S) /\ <<>> \in Seq(S)
    OBVIOUS
  <2>2. Len(wire') <= MaxWire
    BY <1>3, ResponseBoundsAssumption DEF SessionTypes, Line
  <2>3. out' \in Seq(S)
    BY <1>3, <2>1 DEF SessionTypes, Line
  <2>4. QED
    BY <1>3, <2>2, <2>3 DEF SessionTypes, Line
<1>5. Arming(wire', service', armed')
  <2>1. CASE UNCHANGED wire
    BY <1>1, <2>1 DEF SessionTypes
  <2>2. CASE wire' = <<>>
    BY <1>1, <1>a, <2>2 DEF Arming, Top
  <2>3. QED
    BY <1>3, <2>1, <2>2
<1>6. Flags'
  <2>1. /\ UNCHANGED talk /\ ctx' \in {ctx, "done"} /\ hangup' \in {hangup, "flagged", "over"}
        /\ generating' \in BOOLEAN /\ called' \in BOOLEAN /\ UNCHANGED greeted
    BY DEF Close, HangupFlags, HangupCancels, ConnGuard, ConnCloses, ActionReturns, Callback, TimerFires, CallbackArms,
           PanicAsks, PanicSwaps, PanicTells, PanicCancels, rest, shared, SessionTypes, Flags
  <2>2. talk' \in Talks /\ ctx' \in {"live", "done"} /\ hangup' \in {"no", "flagged", "over"} /\ greeted' \in BOOLEAN
    BY <2>1 DEF SessionTypes, Flags
  <2>3. QED
    BY <2>1, <2>2 DEF Flags
<1>7. QED
  BY <1>2, <1>4, <1>5, <1>6 DEF SessionTypes

(***************************************************************************)
(* Every variable of a session with OpenAI keeps its type: its responses   *)
(* arm two timers each at most, and OnDisconnect is called no more often   *)
(* than there are timers to call it.                                       *)
(***************************************************************************)
THEOREM ResponseTypeCorrect == ResponseSpec => []ResponseTypeOK
<1>1. OutputInv /\ SessionTypes /\ Flagged => ResponseTypeOK
  <2> SUFFICES ASSUME OutputInv, SessionTypes, Flagged PROVE ResponseTypeOK
    OBVIOUS
  <2>1. disconnects \in 0 .. 2 * MaxResponses
    BY ResponseBoundsAssumption DEF Flagged
  <2>2. QED
    BY <2>1 DEF OutputInv, OutputTypes, ServiceState, PumpState, SessionTypes, Clock, Line, Flags, ResponseTypeOK
<1>2. OutputInv /\ SessionTypes /\ [ResponseNext]_responsevars => SessionTypes'
  <2> SUFFICES ASSUME OutputInv, SessionTypes, [ResponseNext]_responsevars PROVE SessionTypes'
    OBVIOUS
  <2>1. CASE UNCHANGED responsevars
    BY <2>1 DEF responsevars, timers, SessionTypes, Clock, Line, Flags
  <2>2. CASE Service \/ Pump
    BY <2>2, ServiceTypes, PumpFromTypes
  <2>3. CASE Close \/ ConnGuard \/ ActionReturns \/ \E i \in Timers : Callback(i)
    BY <2>3, BesideTypes
  <2>4. QED
    BY <2>1, <2>2, <2>3 DEF ResponseNext
<1>3. Flagged /\ [ResponseNext]_responsevars => Flagged'
  BY StepTells
<1>4. QED
  BY <1>1, <1>2, <1>3, OutputInit, OutputStep, SessionTypesInit, FlaggedInit, PTL DEF ResponseSpec

-----------------------------------------------------------------------------
(***************************************************************************)
(* The watchdog never lets go of a response that is open: what stops a     *)
(* timer arms the next, and a callback hands on to the second timer, whose *)
(* callback ends the session.                                              *)
(***************************************************************************)
Watching(i) == timer[i] \in {"armed", "sent"} \/ panic[i] # "off"

LEMMA WatchedStep ==
  ResponseTypeOK /\ ResponseTypeOK' /\ OpenIsWatched /\ [ResponseNext]_responsevars => OpenIsWatched'
<1> SUFFICES ASSUME ResponseTypeOK, ResponseTypeOK', OpenIsWatched, [ResponseNext]_responsevars,
                    answering' # 0, ctx' = "live"
             PROVE  \E i \in Timers : Watching(i)'
  BY DEF OpenIsWatched, Watching
<1>1. /\ timer \in [Timers -> {"off", "armed", "sent"}]
      /\ panic \in [Timers -> {"off", "armed", "asked", "telling", "told"}]
      /\ armed \in Nat /\ armed' \in 0 .. 2 * MaxResponses
      /\ watchdogTimer \in 0 .. armed
  <2>1. /\ timer \in [Timers -> {"off", "armed", "sent"}]
        /\ panic \in [Timers -> {"off", "armed", "asked", "telling", "told"}]
    BY DEF ResponseTypeOK
  <2>2. armed \in 0 .. 2 * MaxResponses /\ watchdogTimer \in 0 .. armed
    BY DEF ResponseTypeOK
  <2>3. armed' \in 0 .. 2 * MaxResponses
    BY DEF ResponseTypeOK
  <2>4. QED
    BY <2>1, <2>2, <2>3, ResponseBoundsAssumption
<1>2. ASSUME answering # 0, ctx = "live" PROVE \E i \in Timers : Watching(i)
  BY <1>2 DEF OpenIsWatched, Watching
<1>3. ASSUME fireWatchdog PROVE \E i \in Timers : Watching(i)'
  <2>1. armed' = armed + 1 /\ armed + 1 \in Timers
    BY <1>1, <1>3, ResponseBoundsAssumption DEF fireWatchdog, Timers
  <2>2. Stopped(timer, watchdogTimer) \in [Timers -> {"off", "armed", "sent"}]
    BY <1>1 DEF Stopped
  <2>3. timer'[armed + 1] = "armed"
    BY <1>3, <2>1, <2>2 DEF fireWatchdog
  <2>4. QED
    BY <2>1, <2>3 DEF Watching
<1>4. ASSUME UNCHANGED <<answering, ctx, timer, panic>> PROVE \E i \in Timers : Watching(i)'
  BY <1>2, <1>4 DEF Watching
<1>5. CASE Service
  BY <1>4, <1>5 DEF Service, ServiceStarts, ServiceGoesOn, ServiceEnds, ServiceFails, ServiceTakes,
     conversation, timers
<1>6. CASE PumpCreated \/ PumpSpoken
  BY <1>3, <1>6 DEF PumpCreated, PumpSpoken
<1>7. CASE PumpInterrupted \/ PumpCompleted \/ PumpStops
  BY <1>7 DEF PumpInterrupted, PumpCompleted, PumpStops
<1>8. CASE PumpGreets \/ PumpRunsAction \/ PumpSkips \/ ReaderEnds \/ ActionReturns
  BY <1>4, <1>8 DEF PumpGreets, PumpRunsAction, PumpSkips, ReaderEnds, ActionReturns, Reads, timers
<1>9. CASE Close \/ ConnGuard
  BY <1>4, <1>9 DEF Close, HangupFlags, HangupCancels, ConnGuard, timers
<1>10. ASSUME NEW i \in Timers, Callback(i) PROVE \E j \in Timers : Watching(j)'
  <2>1. answering # 0
    BY <1>10 DEF Callback, TimerFires, CallbackArms, PanicAsks, PanicSwaps, PanicTells, PanicCancels, rest
  <2>2. CASE TimerFires(i)
    BY <1>1, <2>2 DEF TimerFires, Watching
  <2>3. CASE CallbackArms(i)
    BY <1>1, <2>3 DEF CallbackArms, Watching
  <2>4. CASE PanicAsks(i) \/ PanicSwaps(i) \/ PanicTells(i)
    BY <1>1, <2>4 DEF PanicAsks, PanicSwaps, PanicTells, Watching
  <2>5. CASE PanicCancels(i)
    BY <2>5 DEF PanicCancels
  <2>6. QED
    BY <1>10, <2>2, <2>3, <2>4, <2>5 DEF Callback
<1>11. CASE UNCHANGED responsevars
  BY <1>4, <1>11 DEF responsevars
<1>12. QED
  BY <1>5, <1>6, <1>7, <1>8, <1>9, <1>10, <1>11 DEF ResponseNext, Pump

(***************************************************************************)
(* For any number of responses, events and callbacks: while a response is  *)
(* open and the session lives, the watchdog is on it.                      *)
(***************************************************************************)
THEOREM OpenResponseIsWatched == ResponseSpec => []OpenIsWatched
<1>1. ResponseInit => OpenIsWatched
  BY DEF ResponseInit, OpenIsWatched
<1>2. QED
  BY <1>1, WatchedStep, ResponseTypeCorrect, PTL DEF ResponseSpec

(***************************************************************************)
(* Both promises of the watchdog, however its callbacks and the pump meet. *)
(***************************************************************************)
THEOREM WatchdogIsSound == ResponseSpec => WatchdogHolds
  BY OpenResponseIsWatched, DisconnectsOnce, PTL DEF WatchdogHolds

-----------------------------------------------------------------------------
(***************************************************************************)
(* A behaviour of the run is one of the voice sessions and one of the      *)
(* responses of an OpenAI session: what is proved of each of them alone    *)
(* holds in the specification the run checks.                              *)
(***************************************************************************)
THEOREM VoicesAreTheirParts == VoiceSpec => Spec /\ ResponseSpec
<1>1. VoiceInit => Init /\ ResponseInit
  BY DEF VoiceInit, SessionsRest, ResponsesRest
<1>2. [VoiceNext]_voicevars => [Next]_vars /\ [ResponseNext]_responsevars
  <2>1. VoiceNext => [Next]_vars /\ [ResponseNext]_responsevars
    BY DEF VoiceNext
  <2>2. UNCHANGED voicevars => UNCHANGED vars /\ UNCHANGED responsevars
    BY DEF voicevars
  <2>3. QED
    BY <2>1, <2>2
<1>3. QED
  BY <1>1, <1>2, PTL DEF VoiceSpec, Spec, ResponseSpec

(***************************************************************************)
(* Whichever part acts, the variables of both keep their types.            *)
(***************************************************************************)
THEOREM VoiceTypeCorrect == VoiceSpec => []VoiceTypeOK
<1>1. TypeOK /\ ResponseTypeOK => VoiceTypeOK
  BY DEF VoiceTypeOK
<1>2. QED
  BY <1>1, VoicesAreTheirParts, RealtimeTypeCorrect, ResponseTypeCorrect, PTL

(***************************************************************************)
(* What the run checks of the steps and states of both parts holds for any *)
(* number of calls, sessions, channels, responses and timers.              *)
(***************************************************************************)
THEOREM VoicesAreSafe ==
  VoiceSpec => /\ [](OnlyGuardPanics /\ OutputOnce /\ (OverlapsServed => NothingLeftBehind))
               /\ WatchdogHolds
  BY VoicesAreTheirParts, NoListedChannelIsClosed, NothingStaysBehind, ResultsSentOnce, WatchdogIsSound, PTL
=============================================================================
