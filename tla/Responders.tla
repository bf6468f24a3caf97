------------------------------ MODULE Responders ------------------------------
(* The responders of one respId: GetOrSetRespGPT makes them and hands them to   *)
(* sessions, GetCh waits for one, and five operations take them away. Every     *)
(* provider keeps its own sync.Map of responders and of wait channels; each     *)
(* call on such a map is one step, and what is done with the answer another.    *)
EXTENDS AgentConfig, Integers, FiniteSets, Sequences

CONSTANTS Callers,      \* goroutines that call GetOrSetRespGPT
          Waiters,      \* goroutines that call GetCh
          Sweepers,     \* goroutines that take responders away
          Dialogs,      \* dialogs that share the respId
          MaxResp,      \* responders made in a behaviour
          MaxWaits,     \* wait channels made in a behaviour
          Setups        \* what a behaviour is up against, see Init

ASSUME RespondersAssumption ==
    /\ MaxResp \in Nat /\ MaxWaits \in Nat
    /\ Callers # {} /\ Waiters # {} /\ Sweepers # {}

VARIABLES setup,        \* the record chosen in Init
          slot,         \* per provider: the responder stored for respId, or 0
          resp,         \* the responders made
          wait,         \* per provider: the wait channel stored for respId, or 0
          waits,        \* wait channels made; closed holds those closed
          closed,
          caller, waiter, sweeper,
          down,         \* providers whose m.ctx is cancelled
          panicked      \* a channel was closed twice

vars == <<setup, slot, resp, wait, waits, closed, caller, waiter, sweeper, down, panicked>>

Provider == {"openai", "mistral", "google"}
Op == {"expire", "invalidate", "disconnect", "clean", "shutdown", "forget"}

(* order:     the providers the router was given, in its order                  *)
(* provider:  the one the assistant of the user is at                           *)
(* ops:       what may take responders away                                     *)
(* alone:     one goroutine of each kind acts                                   *)
(* answers:   what loading a configuration may get, see Envs                    *)
(* dialogs:   the dialogs the respId is asked for                               *)
Setup == [order : Seq(Provider), provider : Provider, ops : SUBSET Op, alone : BOOLEAN,
          answers : {"good", "nokey", "any"}, dialogs : SUBSET Dialogs]

ASSUME SetupsAssumption == Setups \subseteq {s \in Setup : Len(s.order) \in 1 .. 3}

Good == [key |-> "given", model |-> "named", data |-> "read", interpreter |-> TRUE,
         web |-> TRUE, hint |-> TRUE, functions |-> TRUE]
Envs == CASE setup.answers = "good"  -> {Good}
          [] setup.answers = "nokey" -> {Good, [Good EXCEPT !.key = "none"]}
          [] OTHER                   -> Env

(* live: its context is not cancelled; open: its channels are not closed;       *)
(* main, chans: the dialog of Chan and the dialogs of ChanMap                   *)
Resp == [provider : Provider, live : BOOLEAN, open : BOOLEAN, expired : BOOLEAN,
         config : Config, main : Dialogs, chans : SUBSET Dialogs]
Made == 1 .. Len(resp)
CallerState == [pc : {"idle", "config", "store", "notify", "close", "holds", "failed"},
                i : 0 .. MaxResp, w : 0 .. MaxWaits]
WaiterState == [pc : {"idle", "make", "try", "select", "again", "got", "failed"},
                at : 1 .. 3, w : 0 .. MaxWaits]
Step == {"pick", "cancel", "close", "delete", "stop", "waits", "waitclose", "forget"}
SweeperState == [plan : Seq(Step), op : Op, i : 0 .. MaxResp, w : 0 .. MaxWaits]

TypeOK ==
    /\ setup \in Setups
    /\ slot \in [Provider -> 0 .. MaxResp]
    /\ resp \in Seq(Resp) /\ Len(resp) <= MaxResp
    /\ wait \in [Provider -> 0 .. MaxWaits]
    /\ waits \in 0 .. MaxWaits /\ closed \subseteq 1 .. waits
    /\ caller \in [Callers -> CallerState]
    /\ waiter \in [Waiters -> WaiterState]
    /\ sweeper \in [Sweepers -> SweeperState]
    /\ down \subseteq Provider /\ panicked \in BOOLEAN

Init ==
    /\ setup \in Setups
    /\ slot = [p \in Provider |-> 0] /\ resp = <<>>
    /\ wait = [p \in Provider |-> 0] /\ waits = 0 /\ closed = {}
    /\ caller = [c \in Callers |-> [pc |-> "idle", i |-> 0, w |-> 0]]
    /\ waiter = [g \in Waiters |-> [pc |-> "idle", at |-> 1, w |-> 0]]
    /\ sweeper = [s \in Sweepers |-> [plan |-> <<>>, op |-> "expire", i |-> 0, w |-> 0]]
    /\ down = {} /\ panicked = FALSE

P == setup.provider
SetCaller(c, pc, i, w) == caller' = [caller EXCEPT ![c] = [pc |-> pc, i |-> i, w |-> w]]

--------------------------------------------------------------------------------
(* GetOrSetRespGPT                                                              *)

(* model.CreateBaseResponder: the context is a child of m.ctx. *)
CreateBaseResponder(c, d) ==
    /\ slot[P] = 0 /\ Len(resp) < MaxResp
    /\ resp' = Append(resp, [provider |-> P, live |-> P \notin down, open |-> TRUE,
                             expired |-> FALSE, config |-> NoConfig, main |-> d, chans |-> {d}])
    /\ SetCaller(c, "config", Len(resp) + 1, 0)

(* A responder that is found serves one more TTL. *)
Hits(c) ==
    /\ slot[P] # 0
    /\ resp' = [resp EXCEPT ![slot[P]].expired = FALSE]
    /\ SetCaller(c, "holds", slot[P], 0)

OpenAILoads(c, d) == Hits(c) \/ CreateBaseResponder(c, d)

(* Google makes a channel for a dialog that comes to a responder it finds, and  *)
(* makes it the main one.                                                       *)
GoogleHits(c, d) ==
    LET i == slot[P] IN
    /\ i # 0
    /\ resp' = [resp EXCEPT ![i].expired = FALSE, ![i].chans = @ \cup {d},
                            ![i].main = IF d \in resp[i].chans THEN @ ELSE d]
    /\ SetCaller(c, "holds", i, 0)
GoogleLoads(c, d) == GoogleHits(c, d) \/ CreateBaseResponder(c, d)

(* Mistral asks for the key before it makes anything. *)
MistralLoads(c, d) ==
    \/ Hits(c)
    \/ \E e \in Envs :
          \/ e.key = "given" /\ CreateBaseResponder(c, d)
          \/ slot[P] = 0 /\ e.key # "given" /\ SetCaller(c, "failed", 0, 0) /\ UNCHANGED resp

CallerLoads(c) ==
    /\ caller[c].pc = "idle" /\ c = CHOOSE b \in Callers : caller[b].pc = "idle"
    /\ \E d \in setup.dialogs :
          \/ P = "openai" /\ OpenAILoads(c, d)
          \/ P = "google" /\ GoogleLoads(c, d)
          \/ P = "mistral" /\ MistralLoads(c, d)
    /\ UNCHANGED <<setup, slot, wait, waits, closed, waiter, sweeper, down, panicked>>

(* OpenAI keeps a responder without a configuration, Google gives the call up,  *)
(* Mistral has its configuration on the other side and reads two flags.         *)
OpenAIConfigures(c, e) ==
    /\ resp' = [resp EXCEPT ![caller[c].i].config = OpenAIConfig(e)]
    /\ SetCaller(c, "store", caller[c].i, 0)
GoogleConfigures(c, e) ==
    IF GoogleFinds(e)
    THEN /\ resp' = [resp EXCEPT ![caller[c].i].config = GoogleConfig(e)]
         /\ SetCaller(c, "store", caller[c].i, 0)
    ELSE /\ resp' = [resp EXCEPT ![caller[c].i].live = FALSE]
         /\ SetCaller(c, "failed", 0, 0)
MistralConfigures(c) == UNCHANGED resp /\ SetCaller(c, "store", caller[c].i, 0)

CallerConfigures(c) ==
    /\ caller[c].pc = "config"
    /\ \E e \in Envs :
          \/ P = "openai" /\ OpenAIConfigures(c, e)
          \/ P = "google" /\ GoogleConfigures(c, e)
          \/ P = "mistral" /\ MistralConfigures(c)
    /\ UNCHANGED <<setup, slot, wait, waits, closed, waiter, sweeper, down, panicked>>

(* mutant: OpenAI and Google forget to notify too *)
StoresSilently(c) ==
    /\ caller[c].pc = "store"
    /\ slot' = [slot EXCEPT ![P] = caller[c].i]
    /\ SetCaller(c, "holds", caller[c].i, 0)
    /\ UNCHANGED <<setup, resp, wait, waits, closed, waiter, sweeper, down, panicked>>

(* Mistral stores a second time where the others notify. *)
CallerStores(c) ==
    /\ caller[c].pc = "store"
    /\ slot' = [slot EXCEPT ![P] = caller[c].i]
    /\ SetCaller(c, IF P = "mistral" THEN "holds" ELSE "notify", caller[c].i, 0)
    /\ UNCHANGED <<setup, resp, wait, waits, closed, waiter, sweeper, down, panicked>>

(* NotifyWaitChannels *)
NotifyLoads(c) ==
    /\ caller[c].pc = "notify"
    /\ SetCaller(c, IF wait[P] = 0 THEN "holds" ELSE "close", caller[c].i, wait[P])
    /\ UNCHANGED <<setup, slot, resp, wait, waits, closed, waiter, sweeper, down, panicked>>

NotifyCloses(c) ==
    /\ caller[c].pc = "close"
    /\ panicked' = (caller[c].w \in closed)
    /\ closed' = closed \cup {caller[c].w}
    /\ wait' = [wait EXCEPT ![P] = 0]
    /\ SetCaller(c, "holds", caller[c].i, 0)
    /\ UNCHANGED <<setup, slot, resp, waits, waiter, sweeper, down>>

(* The session is over, or the call failed; the goroutine may call again. *)
CallerLeaves(c) ==
    /\ caller[c].pc \in {"holds", "failed"}
    /\ SetCaller(c, "idle", 0, 0)
    /\ UNCHANGED <<setup, slot, resp, wait, waits, closed, waiter, sweeper, down, panicked>>

(* The clock: nobody asked for the responder for a TTL. *)
Expires ==
    /\ \E i \in Made : resp[i].live /\ ~resp[i].expired /\ resp' = [resp EXCEPT ![i].expired = TRUE]
    /\ UNCHANGED <<setup, slot, wait, waits, closed, caller, waiter, sweeper, down, panicked>>

--------------------------------------------------------------------------------
(* Router.GetCh asks one provider after the other; each makes its caller wait.  *)

SetWaiter(g, pc, at, w) == waiter' = [waiter EXCEPT ![g] = [pc |-> pc, at |-> at, w |-> w]]
At(g) == setup.order[waiter[g].at]

WaiterLoads(g) ==
    /\ waiter[g].pc = "idle"
    /\ SetWaiter(g, IF wait[At(g)] = 0 THEN "make" ELSE "try", waiter[g].at, wait[At(g)])
    /\ UNCHANGED <<setup, slot, resp, wait, waits, closed, caller, sweeper, down, panicked>>

WaiterMakes(g) ==
    /\ waiter[g].pc = "make" /\ waits < MaxWaits
    /\ waits' = waits + 1
    /\ wait' = [wait EXCEPT ![At(g)] = waits + 1]
    /\ SetWaiter(g, "try", waiter[g].at, waits + 1)
    /\ UNCHANGED <<setup, slot, resp, closed, caller, sweeper, down, panicked>>

WaiterTries(g) ==
    /\ waiter[g].pc = "try"
    /\ SetWaiter(g, IF slot[At(g)] # 0 THEN "got" ELSE "select", waiter[g].at, waiter[g].w)
    /\ UNCHANGED <<setup, slot, resp, wait, waits, closed, caller, sweeper, down, panicked>>

(* The router goes on to the next provider when one failed. *)
NextProvider(g) ==
    IF waiter[g].at < Len(setup.order) THEN SetWaiter(g, "idle", waiter[g].at + 1, 0)
                                       ELSE SetWaiter(g, "failed", 1, 0)

WaiterWakes(g) ==
    /\ waiter[g].pc = "select" /\ waiter[g].w \in closed
    /\ SetWaiter(g, "again", waiter[g].at, 0)
    /\ UNCHANGED <<setup, slot, resp, wait, waits, closed, caller, sweeper, down, panicked>>

(* After a second, or with the end of m.ctx. *)
WaiterGivesUp(g) ==
    /\ waiter[g].pc = "select" /\ NextProvider(g)
    /\ UNCHANGED <<setup, slot, resp, wait, waits, closed, caller, sweeper, down, panicked>>

WaiterTriesAgain(g) ==
    /\ waiter[g].pc = "again"
    /\ IF slot[At(g)] # 0 THEN SetWaiter(g, "got", waiter[g].at, 0) ELSE NextProvider(g)
    /\ UNCHANGED <<setup, slot, resp, wait, waits, closed, caller, sweeper, down, panicked>>

WaiterLeaves(g) ==
    /\ waiter[g].pc \in {"got", "failed"} /\ SetWaiter(g, "idle", 1, 0)
    /\ UNCHANGED <<setup, slot, resp, wait, waits, closed, caller, sweeper, down, panicked>>

--------------------------------------------------------------------------------
(* What takes responders away: the steps of each operation with the responder   *)
(* that its Range met.                                                          *)

(* mutant: DisconnectUser drops the responder and forgets its context *)
DisconnectOnlyDrops == <<"pick", "delete">>

OpenAICleanUp == <<"pick", "cancel", "close", "delete">>
OpenAIInvalidate == <<"pick", "delete">>
OpenAIDisconnectUser == <<"pick", "cancel", "delete">>
OpenAICleanDialogData == <<"pick", "cancel", "close", "delete">>
OpenAIShutdown == <<"stop", "pick", "cancel", "close", "delete", "waits">>

GooglePeriodicFlush == <<"pick", "cancel", "delete">>
GoogleInvalidate == <<"pick", "delete">>
GoogleDisconnectUser == <<"pick", "cancel", "delete">>
GoogleCleanDialogData == <<"pick", "cancel", "delete">>
GoogleShutdown == <<"pick", "cancel", "stop">>
GoogleForgetsWaits == <<"forget">>

MistralCleanUp == <<"pick", "cancel", "close", "delete">>
MistralInvalidate == <<"pick", "delete">>
MistralDisconnectUser == <<"pick", "cancel", "delete">>
MistralShutdown == <<"stop", "pick", "cancel", "close", "delete", "waits">>

(* Mistral's CleanDialogData clears the context of the responder it finds, and  *)
(* only Google forgets wait channels.                                           *)
Plan(op) ==
    CASE op = "expire"     -> [openai |-> OpenAICleanUp, google |-> GooglePeriodicFlush,
                               mistral |-> MistralCleanUp][P]
      [] op = "invalidate" -> [openai |-> OpenAIInvalidate, google |-> GoogleInvalidate,
                               mistral |-> MistralInvalidate][P]
      [] op = "disconnect" -> [openai |-> OpenAIDisconnectUser, google |-> GoogleDisconnectUser,
                               mistral |-> MistralDisconnectUser][P]
      [] op = "clean"      -> [openai |-> OpenAICleanDialogData, google |-> GoogleCleanDialogData,
                               mistral |-> <<>>][P]
      [] op = "shutdown"   -> [openai |-> OpenAIShutdown, google |-> GoogleShutdown,
                               mistral |-> MistralShutdown][P]
      [] op = "forget"     -> [openai |-> <<>>, google |-> GoogleForgetsWaits, mistral |-> <<>>][P]

At1(s, step) == sweeper[s].plan # <<>> /\ Head(sweeper[s].plan) = step
Goes(s, i, w) == sweeper' = [sweeper EXCEPT ![s].plan = Tail(@), ![s].i = i, ![s].w = w]

SweeperStarts(s) ==
    /\ sweeper[s].plan = <<>>
    /\ \E op \in setup.ops :
          /\ op = "expire" => \E i \in Made : slot[P] = i /\ resp[i].expired
          /\ op = "shutdown" => P \notin down
          /\ sweeper' = [sweeper EXCEPT ![s] = [plan |-> Plan(op), op |-> op, i |-> 0, w |-> 0]]
    /\ UNCHANGED <<setup, slot, resp, wait, waits, closed, caller, waiter, down, panicked>>

(* GetRespIdByDialogID asks for the dialog of the main channel. *)
GetRespIdByDialogID(d) == slot[P] # 0 /\ resp[slot[P]].main = d

(* mutant: the tick takes the responder whose time is not over *)
MeetsFresh(s) == slot[P] # 0 /\ (sweeper[s].op = "expire" => ~resp[slot[P]].expired)

Meets(s) ==
    /\ slot[P] # 0
    /\ sweeper[s].op = "expire" => resp[slot[P]].expired
    /\ sweeper[s].op = "clean" => \E d \in setup.dialogs : GetRespIdByDialogID(d)

(* Only a shutdown has something to do after its Range: its last step. *)
AfterRange(plan) ==
    LET last == plan[Len(plan)] IN IF last \in {"stop", "waits"} THEN <<last>> ELSE <<>>

(* The Range and the test; a Range over nothing goes to what follows it. *)
SweeperPicks(s) ==
    /\ At1(s, "pick")
    /\ IF Meets(s) THEN Goes(s, slot[P], 0)
       ELSE sweeper' = [sweeper EXCEPT ![s].plan = AfterRange(@)]
    /\ UNCHANGED <<setup, slot, resp, wait, waits, closed, caller, waiter, down, panicked>>

SweeperCancels(s) ==
    /\ At1(s, "cancel")
    /\ resp' = [resp EXCEPT ![sweeper[s].i].live = FALSE]
    /\ Goes(s, sweeper[s].i, 0)
    /\ UNCHANGED <<setup, slot, wait, waits, closed, caller, waiter, down, panicked>>

(* CloseResponderChannelsUniversal *)
SweeperCloses(s) ==
    /\ At1(s, "close")
    /\ resp' = [resp EXCEPT ![sweeper[s].i].open = FALSE]
    /\ Goes(s, sweeper[s].i, 0)
    /\ UNCHANGED <<setup, slot, wait, waits, closed, caller, waiter, down, panicked>>

(* By key: whatever is stored there by now. *)
SweeperDeletes(s) ==
    /\ At1(s, "delete")
    /\ slot' = [slot EXCEPT ![P] = 0]
    /\ Goes(s, 0, 0)
    /\ UNCHANGED <<setup, resp, wait, waits, closed, caller, waiter, down, panicked>>

(* m.cancel ends every context made from m.ctx. *)
SweeperStops(s) ==
    /\ At1(s, "stop")
    /\ down' = down \cup {P}
    /\ resp' = [i \in Made |-> [resp[i] EXCEPT !.live = @ /\ resp[i].provider # P]]
    /\ Goes(s, 0, 0)
    /\ UNCHANGED <<setup, slot, wait, waits, closed, caller, waiter, panicked>>

(* CleanupWaitChannelsUniversal: is the channel closed already?, and the close. *)
SweeperChecksWait(s) ==
    LET w == wait[P] IN
    /\ At1(s, "waits")
    /\ IF w # 0 /\ slot[P] = 0 /\ w \notin closed
       THEN sweeper' = [sweeper EXCEPT ![s].plan = <<"waitclose">>, ![s].w = w] /\ UNCHANGED wait
       ELSE Goes(s, 0, 0) /\ wait' = [wait EXCEPT ![P] = IF slot[P] = 0 THEN 0 ELSE @]
    /\ UNCHANGED <<setup, slot, resp, waits, closed, caller, waiter, down, panicked>>

SweeperClosesWait(s) ==
    /\ At1(s, "waitclose")
    /\ panicked' = (sweeper[s].w \in closed)
    /\ closed' = closed \cup {sweeper[s].w}
    /\ wait' = [wait EXCEPT ![P] = 0]
    /\ Goes(s, 0, 0)
    /\ UNCHANGED <<setup, slot, resp, waits, caller, waiter, down>>

(* cleanupExpiredWaitChannels drops the channel and leaves it open. *)
SweeperForgetsWait(s) ==
    /\ At1(s, "forget")
    /\ wait' = [wait EXCEPT ![P] = IF slot[P] = 0 THEN 0 ELSE @]
    /\ Goes(s, 0, 0)
    /\ UNCHANGED <<setup, slot, resp, waits, closed, caller, waiter, down, panicked>>

--------------------------------------------------------------------------------
Calls(c) == CallerLoads(c) \/ CallerConfigures(c) \/ CallerStores(c) \/ NotifyLoads(c)
              \/ NotifyCloses(c)
Waits(g) == WaiterLoads(g) \/ WaiterMakes(g) \/ WaiterTries(g) \/ WaiterWakes(g)
              \/ WaiterGivesUp(g) \/ WaiterTriesAgain(g)
Sweeps(s) == SweeperPicks(s) \/ SweeperCancels(s) \/ SweeperCloses(s) \/ SweeperDeletes(s)
               \/ SweeperStops(s) \/ SweeperChecksWait(s) \/ SweeperClosesWait(s)
               \/ SweeperForgetsWait(s)

Acting(actors) == IF setup.alone THEN {CHOOSE a \in actors : TRUE} ELSE actors

(* A panic ends the process. *)
Next ==
    /\ ~panicked
    /\ \/ \E c \in Acting(Callers) : Calls(c) \/ CallerLeaves(c)
       \/ \E g \in Acting(Waiters) : Waits(g) \/ WaiterLeaves(g)
       \/ \E s \in Acting(Sweepers) : SweeperStarts(s) \/ Sweeps(s)
       \/ Expires

(* Goroutines go on with what they began; the ticker comes again and again, and *)
(* sees the responder that expired each time; nobody has to call.               *)
Fairness ==
    /\ \A c \in Callers : WF_vars(~panicked /\ (CallerConfigures(c) \/ CallerStores(c)
                                       \/ NotifyLoads(c) \/ NotifyCloses(c)))
    /\ \A s \in Sweepers : WF_vars(~panicked /\ Sweeps(s))
    /\ \A s \in Sweepers : SF_vars(~panicked /\ SweeperStarts(s) /\ sweeper'[s].op = "expire")

Spec == Init /\ [][Next]_vars
FairSpec == Spec /\ Fairness

--------------------------------------------------------------------------------
Making(i) == \E c \in Callers : caller[c].pc \in {"config", "store"} /\ caller[c].i = i

(* While one goroutine makes and one takes away, and nothing is invalidated, a  *)
(* responder that works can be found: the map has it, or is about to. What the  *)
(* map has lost is out of reach of CleanUp and DisconnectUser, and a second     *)
(* responder of the respId starts a second Listener, as the flag is its own.    *)
LiveIsMapped ==
    setup.alone /\ "invalidate" \notin setup.ops =>
        \A i \in Made : resp[i].live => slot[resp[i].provider] = i \/ Making(i)

Unwoken(g) == /\ waiter[g].pc = "select" /\ slot[At(g)] # 0
              /\ \A c \in Callers : caller[c].pc \notin {"notify", "close"}
              /\ waiter[g].w \notin closed

(* Who waits in GetCh is woken by the responder it waits for: once it is stored *)
(* and its maker is through NotifyWaitChannels, nobody sits out the timeout.    *)
(* Mistral never notifies: see NotifiesWaiters.                                 *)
WaiterWoken ==
    setup.alone /\ "forget" \notin setup.ops /\ P # "mistral" =>
        \A g \in Waiters : ~Unwoken(g)

(* model/mistral/model.go says of its second Store that it notifies those who   *)
(* wait for the responder, as the other providers do.                           *)
NotifiesWaiters == \A g \in Waiters : ~Unwoken(g)

(* The prompt and the tools of a responder fit each other. *)
ToolsFit == \A i \in Made : Fits(resp[i].provider, resp[i].config)

(* A responder nobody asks for any more is cancelled: the ticker finds it. *)
ExpiredGoes ==
    setup.alone /\ setup.ops = {"expire"} =>
        \A i \in 1 .. MaxResp :
            (i \in Made /\ resp[i].live /\ resp[i].expired)
                ~> (i \in Made /\ (~resp[i].live \/ ~resp[i].expired))
================================================================================
