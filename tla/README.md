# TLA+ models of air-common

air-common is the common library of a service that lets users talk, in writing or by voice, to
assistants of several providers (OpenAI, Google, Mistral, and a cascade of STT, text model and TTS),
with a human operator who can take over. This directory models the parts of it where goroutines meet, or
where a call changes the database and a provider one after the other: the life of a session, the pipeline of
its messages, the operator hub, the history buffer, the voice sessions, the responders of the providers and
the requests they make, the models a user keeps and the catalogs they are chosen from. The modules are
translated from the code under `src/pkg`; line numbers below are of those files.

Read a module beside its code: `PROJECT.json` gives, for every definition, the lines it stands for.

## 1. The system

### 1.1 Components

| Component | Code | State it keeps | Operations | Modelled by |
|---|---|---|---|---|
| Start: life of text sessions | `startpoint/startpoint.go` | per model: flags `Services.Listener`, `Services.Respondent`, `Ctx`; `respondentWG` by dialog; the five channels of a session | `StartSession`, `runTextSession`, `Listener`, `StarterRespondent`, `Respondent` (start and tear-down), `Shutdown` | `TextSession` |
| Start: message pipeline | `startpoint/startpoint.go` | the five bounded channels, the batch, operator mode and its timers | every select case of `Listener` and `Respondent`, `SendToTx`, the save worker | `DialogPipeline` |
| Start: one request | `startpoint/startpoint.go` (`ask`), `errors.go` | attempt, deltas of a batch, the two channels of a request | `AskWithRetry`, `ask`, its streaming goroutine, the classes of errors | `AskRetry` |
| Start: realtime sessions | `startpoint/realtime.go` | registry `sessions` by respId | `StartSession` (voice), `bridgeRealtimeErrors`, `registerSession`, `CloseSession` | `RealtimeSession` |
| Operator hub | `operator/operator.go` | map of operator sessions by dialog, their channels and contexts | `getOrCreateSession`, `SendToOperator`, `ReceiveFromOperator`, `AskOperator`, `DeleteSession`, `CloseOperatorSSE`, `Close`, `listenerSession`, `cleanup` | `OperatorHub` |
| Endpoint | `endpoint/endpoint.go` | `messageBatch` by dialog, `arrMsg` | `SaveDialog`, four flushes, `GetDialogHistory`, `SetUserAsk`, `GetUserAsk`, `Shutdown` | `DialogBatch`, `DialogPipeline` |
| Responders of the providers | `model/{openai,google,mistral}/model.go`, `model/helpers.go` | per provider: responders by respId with context, channels, TTL and agent configuration; wait channels by respId | `GetOrSetRespGPT`, `GetCh`, `NotifyWaitChannels`, `CleanUp`, `Invalidate`, `DisconnectUser`, `CleanDialogData`, `Shutdown` | `Responders`, `AgentConfig` |
| Requests to OpenAI and Google | `model/openai/{model,request}.go`, `model/google/{model,request}.go` | `DialogCache`, `AgentConfig.SystemPrompt` | `RequestStreaming` with RAG, tool rounds, quota retries, media, history | `RequestLoop` |
| Requests to Mistral | `model/mistral/{model,mistral,request}.go` | conversation id in the responder and in the database; conversations at Mistral; tools of the agent | `Request`, `RequestStreaming`, `syncAgentTools`, loss and recovery of a conversation | `MistralRequest` |
| Model router | `model/router.go` | refresh throttle; order of the providers | `GetCh`, `DisconnectUser`, model management, catalog refresh | `Responders`, `RealtimeSession`, `ModelStore`, `Catalog` |
| Models of a user | `model/create/*.go`, `model/*/manager.go`, `comdb/model.go`, `comdb/vector.go` | rows of `user_models` and `user_gpt`; agents and libraries at Mistral; embeddings; the channels of the user | create, store, update, delete, switch; upload and drop of documents; `SyncProviderModels` | `ModelStore`, `UserModels` |
| Provider catalog | `model/router.go`, `model/provider_catalog`, `comdb/provider.go`, `comdb/voice_models.go` | `catalogThrottle`; lists of models and voices in the database | `syncProviderModelsCatalog`, `UpdateModelsListByProvider`, `ensureVoiceCatalogFresh` | `Catalog` |
| Voice sessions of the providers | `model/openai/realtime*.go`, `model/google/realtime*.go`, `model/mistral/realtime_*.go`, `model/realtime_cascade.go` | sessions by respId, subscribers, the upstream connection, turns | `StartRealtimeSession`, `SubscribeEvents`, `UnsubscribeEvents`, `CloseRealtimeSession`, `DisconnectUser`, pumps | `RealtimeSession`; for OpenAI also `OpenAIResponse` |
| Action handler | `model/action_handler.go`, `model/helpers.go` | none | `RunAction`, translation of function results | the function rounds of `RequestLoop` and `MistralRequest` |
| CRM | `crm/*.go` | worker channels | `SendMessage`, `Shutdown` | not modelled |
| RPC, Google services, ElevenLabs, custom voices, notifications, crypto, constants | `rpc`, `google_services`, `model/elevenlabs`, `model/mistral/{audio,voice_*}.go`, `endpoint/notification.go`, `crypto`, `com*`, `mode` | none a protocol depends on | calls of external services | not modelled |

### 1.2 How they interact

A bot or a WebSocket handler asks the router's `GetCh` for the responder of a respId, which waits until some
goroutine has made it with `GetOrSetRespGPT`, and calls `StartSession`. For text it starts a **Listener** for
the dialog (if none runs), which forks **StarterRespondent**, which starts a **Respondent**. The bot writes
messages into `RxCh`; the Listener forwards them on `question`; the Respondent collects a batch
(`Endpoint.SetUserAsk`), asks the model (**AskWithRetry**, `ask`, the provider's `RequestStreaming` in
**RequestLoop** or **MistralRequest**) or the operator (**OperatorHub**, SSE), and sends the answer on
`answers`; the Listener hands it to `TxCh` and to the save worker, which calls **Endpoint.SaveDialog**. The
next request to OpenAI or Google is told the history from a cache that is filled from the same database;
Mistral keeps the dialog itself. Errors go to the Listener on a channel of their own and end the session. For
voice, `StartSession` makes a session at the provider, subscribes twice to its events and forks a bridge that
turns `error` events into `errCh`, and a closer that removes the registry entry when both bridges ended.

The administration of the service calls the router beside all that: it changes models and documents
(**ModelStore**), whose data the next responder loads (**AgentConfig**), and lists what the providers offer
(**Catalog**), which removes models the provider no longer has.

### 1.3 What is hard here

* Flags are tested and set in two steps; maps are looked up and stored in two steps (Listener flag, operator
  sessions, voice sessions, responders, wait channels).
* Channels are closed by one goroutine while others send: text session tear-down, `ask`, subscribers of
  a voice session.
* Every channel is bounded and most sends have a `default`: the loss is silent.
* Timers outlive what they were made for: the ask timer, the timer of operator mode, the idle timer of an
  operator session, the two levels of the voice watchdog, the time-out of RAG.
* Deleting by key removes whatever is there by now: `respondentWG`, operator sessions, the voice registry,
  responders.
* Writes to the database may fail in the middle of a batch; the database is read outside the mutex. A change of
  a model is several calls of the database and of the provider, any of which may fail or meet another change.
* A request may be left behind by `ask` and go on: it shares the history cache, the prompt and the conversation
  with the request that follows it.

`PROJECT.json` lists each of these as a hazard at the line where it bites, with the properties that
cover it or the reason why none does.

## 2. The modules

| Module | Actors | What is abstracted |
|---|---|---|
| `TextSession` | StartSession calls, Listeners, StarterRespondents, Respondents of one dialog; bot; Shutdown | messages; a panic stops everything |
| `DialogPipeline` | user, Listener, Respondent, save worker, operator, timers of one session | a message is a number and a kind, a request has an outcome |
| `OperatorHub` | clients of one dialog's session, its listener goroutine, its watcher, cleanup | the SSE stream and POSTs are events that succeed or fail |
| `AskRetry` | AskWithRetry, ask, its streaming goroutine, the bot that reads TxCh | deltas are counted; an error is its class |
| `HistoryLog` | | the abstract history: saved, pending, stored |
| `DialogBatch` | callers of SaveDialog, the ticker, end-of-dialog events, Shutdown, GetDialogHistory | messages are numbered per dialog |
| `AgentConfig` | | the answers of the database and of MCP are a record; prompt and tools are their kinds |
| `Responders` | makers, waiters and sweepers of the responders of one respId | a responder is alive, open, expired, configured; a sweep is a list of steps |
| `RequestLoop` | requests of one dialog to OpenAI or Google, late writers of the cache | a message is who said it in answer to what |
| `MistralRequest` | requests of one dialog to Mistral, Mistral itself, restarts | a conversation is ok, gone or stuck, and owes results |
| `ModelStore` | calls of the router for one user, the clock | a row has its provider, agent, files, library and flags |
| `UserModels` | | the abstract models of a user: their content, which is active |
| `Catalog` | refreshes of one provider, the provider, the clock | a list is the version of the offer it was made from |
| `RealtimeSession` | StartSession, CloseSession and DisconnectUser calls, bridges, closers, the reader of each provider | events but the last, audio |
| `OpenAIResponse` | OpenAI, the pump, watchdog callbacks, CloseRealtimeSession | audio, transcripts; durations of timers |
| `MC...` | | values of the constants for TLC |
| `...Proofs` | | theorems and proofs; where an `MC` module has two or three parts its proof module extends it and ends with theorems about the whole |

One action stands for one step of one goroutine between two points where another can run: a channel
operation, a lock section, an atomic load or store, a call of another component. Go maps guarded by a
mutex or `sync.Map` are touched atomically; what the code does after an unlock is another action.

**TextSession.** `StartLoad`/`StartStore` are the test and the set of `Services.Listener` (1463-1470);
`Listener...` its select and its deferred tear-down, in the order of the code: look up the WaitGroup, wait,
close the five channels, lower the flag. `StarterNext` is StarterRespondent (1400-1430),
`Respondent...` the Respondent as a sender. `ConcurrentStarts` says whether two callers may be inside
`runTextSession` at once. A send on a closed channel sets `panicked`, which stops the process.

**DialogPipeline.** One record `setup`, chosen in `Init`, says what the session is up against; each TLC run
explores a set of them. The Respondent has a `pc` with one value per select or blocking point
(`main`, `input`, `collect`, `ai`, `operator`, `stuck` and so on). A `default` case is an action of its own,
enabled when the channel is full. Timers are booleans; `orphans` counts operator timers whose variable
was overwritten. A message may ask for the operator's answer, set operator mode, or both (`Kinds`); `errCh` is the error
channel of the operator as the Respondent gets it at its start: closed in an ordinary session, open when an operator
session outlived the Respondent before. `metaFails` lets `End.Meta` fail, whose error ends the Listener like any other.

**OperatorHub.** `entry` is the dialog's slot in the session map. `ClientLoads` and `ClientCreates` are the
two steps of `getOrCreateSession` (105-142); `Cleanup` is the `sync.Once` body of `cleanup` (199-216) in two
steps, cancel and delete by key; the listener subscribes, posts, pushes replies into `RxCh` (capacity one), may lose its
connection or idle out.

**AskRetry.** `Ask` is the caller's side: attempt, wait, decide, back off. `Stream` is the goroutine of
`ask`: batches deltas, flushes what it can, makes the blocking last send, reports. `Decide` asks the three
pattern lists in the code's order. When the context ends the callback refuses deltas, and what that comes to depends on
the provider (`StreamCancelled`): Google hands the error on, OpenAI and Mistral go on and report an answer, whose `body`
then is empty or has a rest unsent. `DeltaCut` is a context that ends inside the callback, with a full batch in hand.

**DialogBatch** and **HistoryLog.** `lock` is `e.mu`, which a flush holds while it writes. `Write`,
`WriteFails`, `Written`, `Unlock` are the steps of `flushThreadBatch`; `SaveDialog`, `EndDialog`,
`PeriodicFlush`, `ShutdownFlushes` its four callers. `HistoryLog` knows nothing of batches: messages are
saved, stored in order, or lost by a refused write. `DialogBatch` maps what is in flight and what is
buffered to `pending` and implements it (`ImplementsLog`).

**AgentConfig** and **Responders.** `slot[p]` and `wait[p]` are the entries of a provider's two `sync.Map`s for one
respId, `resp` the responders ever made. A maker loads, creates, configures, stores and notifies in five
steps; a waiter of `GetCh` loads or makes its channel, tries, selects; a sweep (`OpenAICleanUp` and so on) is the list of
its steps - pick, cancel, close, delete - because the providers differ in which they have and in which order.
`AgentConfig` says what `loadAgentConfig` makes of every combination of answers.

**RequestLoop.** One request walks from the history it loads through RAG, the question, the rounds of function calls
and the media to the answer; `cache` is the dialog's `DialogCache`, `late` the goroutines that will write a history
into it, `prompt` the shared `AgentConfig.SystemPrompt`. Where OpenAI and Google differ a definition of each says so
(`OpenAIAsks`, `GoogleAsks`).

**MistralRequest.** Each call of the API is two steps: Mistral acts on `convs`, and the request takes the reply, which
may have been lost in between. `holder` is the responder's copy of the conversation id, `kept` the one in the database,
`owed` the function results a conversation waits for. `copy` says whether the id in the responder could be saved, or
could not be read: `GetOrSetRespGPT` takes a failed `ReadContext` for a dialog without a conversation (`ReadsContext`).

**ModelStore.** A call of the router is a goroutine whose `at` names its next statement, transaction or request. A
transaction reads when it begins and writes when it commits, so that two may cross (`past` then holds `"crossed"`);
an UPDATE that switches the active model is one step. The schema is not in the repository: no unique key is assumed,
`ON DELETE CASCADE` is taken from the comment in `comdb/model.go`, and `CreatedAt` has the granularity of a second.
`Fails` ends a call at any of its requests, before or after it was carried out; `RemoveUnpicked` is the failure that
ends nothing: the SELECT of the next active model, whose error the transaction drops before it commits. One request
fails in a behaviour at most. `past` remembers what a property has to except.

**UserModels** knows nothing of rows, transactions, agents and files: a provider has a model or none, some of them are
active, and a call creates, writes, deletes or activates one in a single step, or deletes the active one and picks no
other (`DeletesUnpicked`). `ModelStore` maps the rows of the two tables to it
(`model`: what the reader of a provider's model is given; `active`: the providers of the rows marked active) and
implements it until two transactions are open at once (`ImplementsUserModels`).

**Catalog.** `claimed` and `fresh` are `busy` and the recent keys of `last` in `catalogThrottle`; a refresh is a
script of steps. `syncProviderModelsCatalog` and `ensureVoiceCatalogFresh` claim first, `UpdateModelsListByProvider`
only asks whether the models are fresh. A list is the version of the offer (`offered`) it was made from; ElevenLabs'
four kinds of voice lists are abstracted to the two whose order of steps differs. The throttle does not say who has
a key: `HoldsKey` reads it from how far a refresh has come, and `StepsLeft` counts what it has before it.

**RealtimeSession.** One module for the four providers: `setup.provider` selects the order in which a
provider stores, attaches, closes and cancels, as their code differs there. `Calls(k)` walks
`runRealtimeSession` from the dial to `registerSession`, errors and rollback included; `Bridges(k)` the two
bridges and the closer; `Closing(c)` CloseSession; `Pumps(s)` the end of the provider's reader.
Subscriber channels are numbered by call and subscription, so that a double close is visible.

**OpenAIResponse.** `wire` and `out` are the two directions of the connection; `timer[i]` and `panic[i]` the first
and second timer that the i-th `fireWatchdog` made and the state of their callbacks: the second asks for the context
and for OnDisconnect (`PanicAsks`), takes the flag (`PanicSwaps`) and calls (`PanicTells`), and anything may happen
between these. The callbacks run beside the pump and share `watchdogTimer` and `watchdogPanicTimer` with it without
a lock. How long a timer waits is not modelled: any timer that is armed may fire, which covers every timing of
OpenAI and of RunAction.

## 3. The runs

Each run checks every property named; `tlc -config <cfg> <module>`. All pass runs exhaust their state
space; deadlock is not checked because every modelled process may come to its end.

A module's safety specification and the one with fairness are two formulas where its proofs need the first alone
(`Spec`, `LoopSpec`, `MistralSpec`, and with fairness `FairSpec`, `LoopFairSpec`, `MistralFairSpec`).

Four runs hold more than one component: `MCTextSession` (TextSession and AskRetry), `MCVoiceSession` (RealtimeSession
and OpenAIResponse), `MCProviders` (Responders, RequestLoop and MistralRequest) and `MCManagement` (ModelStore and
Catalog). Their variable `part` says which component a behaviour is about; the others rest in an initial
state. It is one question asked of neighbours, not a composition: the components of such a run share no variable
(that they interleave freely would only multiply the states), and each `MC` module restates the fairness of its
components for the part that acts. That a behaviour of such a run is one of each component is a theorem (section 4).
What the components share in the code is inside one module: `AgentConfig` in
`Responders`, the two versions of the conversation id in `MistralRequest`, rows, agents and embeddings in
`ModelStore`.

| Run | Module, cfg | Bounds | Distinct states | Properties |
|---|---|---|---|---|
| `text_session` | `MCTextSession` | two calls of StartSession, serial; one question, 3 attempts, 7 deltas, batches of 3, TxCh of 2, every class of errors | 83 091 | `TearDownIsSound`, `DeltasAccounted`, `DialogReleased`, `RetriesInTurn`, `CallReturns` |
| `dialog` | `MCDialogPipeline` | five setups, up to 3 messages, channels of 2, batch limit 2, one reply of the operator | 11 048 980 | `TypeOK`, `SavedWasShown`, `RecordedOnce` |
| `dialog_served` | `MCDialogServed.cfg` | no operator mode, channels of 1 | 12 987 | `DialogGoesOn` |
| `hub` | `MCOperatorHub` | one client, two sessions, one POST each, every fault | 1 067 496 | `OneLiveSession`, `MappedIsServed`, `EntryMatchesSession` |
| `batch` | `MCDialogBatch` | two dialogs, 3 messages each, batches of 2, one tick or end of dialog, limit 2, failing writes | 1 249 523 | `DbHistoryIsLastN`, `ImplementsLog`, `StopSaves` |
| `voice` | `MCVoiceSession` | two StartSession, one CloseSession, DisconnectUser, each of four providers; two responses with one function call and no OnDisconnect, or one response with OnDisconnect, errors and a close, one event in flight | 1 140 127 | `VoiceTypeOK`, `OnlyGuardPanics`, `NothingLeftBehind`, `OutputOnce`, `VoiceEnds`, `WatchdogHolds` |
| `providers` | `MCProviders` | two makers, one waiter, one sweeper, two responders, each provider and kind of sweep; two questions, one repeated, history limit 4, two tool rounds, each kind of late cache; two requests to Mistral, three conversations, two calls at once, one restart | 411 567 | `ProvidersTypeOK`, `LiveIsMapped`, `WaiterWoken`, `ToolsFit`, `ToldWhatWasSaid`, `ConversationLasts`, `AnswersAdvance`, `ExpiredGoes`, `AnswerComes` |
| `management` | `MCManagement` | two goroutines, 3 to 6 calls out of nine sets, two documents, three rows; two refreshes, three visits, two versions of the offer | 368 970 | `ManagementTypeOK`, `OneActiveOrOff`, `AgentsMatch`, `FilesMatch`, `ImplementsUserModels`, `FreshIsCurrent`, `ThrottleHolds`, `ClaimsReturn` |

Four more runs are counterexamples, see section 6.1: `text_late_sender`, `ask_abort`, `operator_bypassed` and
`library_lost`. Each checks one property, which states what a comment promises. Six more promises that the code
breaks are definitions of the modules that no run checks: section 6.2 names the bounds that show each.

### 3.1 What the properties say

Some properties are a conjunction of two or three that a definition of their own states; the run checks them together.

* **The end of a session**: the channels are not closed under a Respondent that was waited for (`AwaitedIsQuiet`),
  who is waited for was told to end (`AwaitedIsTold`), a flag or an entry has a goroutine that will take it down
  (`NothingOrphaned`; the three are `TearDownIsSound`), the end of the bot frees the dialog although the Respondent
  may be waiting for the model, and Shutdown drains everything (`DialogReleased`: `BotEndReleases`,
  `ShutdownDrains`).
* **What is in the history is what the user saw** (`SavedWasShown`), each message is part of one recorded question
  (`RecordedOnce`), a question is not left lying, and a cancelled Respondent ends (`DialogGoesOn`:
  `QuestionsServed`, `RespondentEnds`).
* **An operator session** is alone for its dialog (`OneLiveSession`), is served as long as it is in the map
  (`MappedIsServed`), its entry goes only with it and a cancelled one leaves the map (`EntryMatchesSession`:
  `EntryEndsWithSession`, `CancelledLeavesMap`).
* **A request**: one stream at a time into TxCh, and network errors are retried to the last attempt
  (`RetriesInTurn`: `OneStream`, `NetworkGivesUpLate`), every delta is accounted for and, while the context of the
  request lives, an answer is reported whole (`DeltasAccounted`), the call returns (`CallReturns`).
* **The history buffer** implements the abstract history (`ImplementsLog`), is saved by Shutdown, which returns
  (`StopSaves`: `ShutdownSaves`, `ShutdownReturns`); reading the database without the mutex is safe
  (`DbHistoryIsLastN`).
* **A responder** that works can be found in the map (`LiveIsMapped`), wakes those who wait for it (`WaiterWoken`),
  carries a prompt and tools that fit (`ToolsFit`), and goes when nobody asks for it (`ExpiredGoes`).
* **A model** is told what was said in its dialog and nothing else (`ToldWhatWasSaid`: `HistoryHolds`,
  `PromptIsOwn`), is asked to go on only when each of its calls has a result (`CallsAnswered`), and every request
  comes nearer to its end with each step (`RequestAdvances`, `TalkAdvances` for Mistral; with `CallsAnswered` they
  are `AnswersAdvance`) and to it (`AnswerComes`).
* **A conversation at Mistral** is the one a restart finds, is given up only for a reason, is written over in the
  database only for a reason or after a save or a read of it failed, and spoils no later request
  (`ConversationLasts`: `SavedIsCurrent`, `AbandonedForReason`, `SavedLasts`, `OutcomeHasReason`).
* **The models of a user**: one is active (unless a deletion lost the SELECT of its successor, and then none is
  until `DeleteModel` has made up for it), never two, and the channels are off when the last is gone
  (`OneActiveOrOff`: `OneActive`, `ChannelsOff`); each agent at Mistral belongs to a row and each row has its own
  (`AgentsMatch`); a library has the documents its row lists, a Google model the embeddings of its files
  (`FilesMatch`: `LibraryMatches`, `ListedAreSearchable`); and seen from outside each call changes one model in one
  step (`ImplementsUserModels`).
* **A catalog** that counts as fresh is complete and not older than its mark (`FreshIsCurrent`), is refreshed by one
  at a time and not while fresh (`OneRefresh`); a key is busy only while somebody is to release it
  (`ClaimsAreHeld`), no failure sends a refresh back (`RefreshAdvances`; the three are `ThrottleHolds`), and a claim
  is given back (`ClaimsReturn`).
* **A voice session**: no channel is closed twice or used when closed but for one known send (`OnlyGuardPanics`), no
  upstream connection is left to nobody and an ended session leaves the registry (`NothingLeftBehind`:
  `UpstreamIsHeld`, `EndedLeavesRegistry`).
* **A response of OpenAI**: results and files go out once (`OutputOnce`), OnDisconnect is called once at most, by a
  callback that took the flag before a normal close raised it (`DisconnectOnce`), and a response the pump has seen
  begin is under the watchdog until it is done (`OpenIsWatched`; both are `WatchdogHolds`). CloseSession ends both
  bridges, and a response left open by OpenAI does not hold the session (`VoiceEnds`: `CloseEnds`, `SilentEnds`).

Every property has a mutant in `PROJECT.json`: an operator next to the definition it replaces, marked `mutant`
in the module, that breaks the property the way a slip in the code would; a conjunction has one for each part where
the parts are about different code.

Several of these properties hold only under a condition they name (one client at a time, no two transactions
at once, nothing invalidated, no request left behind). The condition is where the code stops keeping the promise;
section 6 says what happens beyond it.

### 3.2 Why the bounds are enough

Two calls, sessions or dialogs are what the races are between: all of them are between one session and the
next of the same key. In `dialog` three messages are the smallest number with one in a batch, one in a
channel and one that overflows it; channels of two elements can be full and half full, channels of one
(`dialog_served`) make every default case frequent. `AskLimit` 2 is reached by the third message. In
`text_session` seven deltas are two full batches and a rest, and a TxCh of two drops a batch; three attempts
is the code's own constant. In `batch` three messages are a full batch and a rest. In `voice` two calls
give a stale session and its successor; the second response is the one that a late callback of the first, or what
the first left, could hit; `MaxWire` 1 still lets the pump lag behind OpenAI by an event, and `out` is unbounded.

In `providers` two responders are a stale one and its successor, and one sweep of each kind meets each step of a
maker. Two questions and a repeated one are a history, the question that reads it and a failure in between; a
limit of four messages is reached by the second question after a stored dialog. Three conversations are a lost one,
its replacement, and one more that should not be made. In `management` six calls in turn are what it takes to create,
upload, update, drop and drop again; overlapping calls are fewer, since two transactions or a transaction and a
request are all that can cross. Not every combination of faults is in one behaviour: the sets in the MC modules say
which meet.

The goroutines of a kind are interchangeable: which of them makes the next call is fixed by a CHOOSE among the
idle ones (`CallerLoads`, `Begins`, `Visits`), which removes permutations and, unlike TLC's symmetry, is sound for
liveness.

Unbounded counters are capped in guards: `MaxMsgs`, `MaxReplies`, `MaxSessions`, `MaxPosts`, `MaxDeltas`,
`MaxFlushes`, `MaxStarts`, `MaxCloses`, `MaxResponses`, `MaxResp`, `MaxWaits`, `MaxQuestions`, `MaxRetries`,
`MaxTurns`, `MaxConvs`, `MaxRestarts`, `MaxRows`, `MaxAgents`, `MaxLibraries`, `MaxSeconds`, `MaxOffers`, and the calls
of a scene or a market.

### 3.3 Fairness

* `TextSession`: weak fairness of each goroutine's next step, as the Go scheduler gives it. Strong fairness of
  `RespondentCancelled`: a `select` with several ready cases picks one at random, so a goroutine that is
  back in its select again and again with its context done takes that case. A busy Respondent returns because
  `ask` has a timeout.
* `DialogPipeline`: weak fairness of SaveWorker, Listener and Respondent; strong fairness of the Listener's
  cases and of the Respondent's cancellation, for the same reason.
* `OperatorHub`: weak fairness of cleanup, watcher and subscription. The service and the clients owe nothing.
* `AskRetry`: weak fairness of the caller and of the timeout. The provider and the bot owe nothing.
* `DialogBatch`: weak fairness of a flush; strong fairness of Shutdown's turn at the mutex, which Go's mutex
  guarantees (starvation mode).
* `Responders`: weak fairness of a maker that has begun and of a sweep under way; strong fairness of the start of
  the ticker's sweep, since a ticker fires for ever and a responder that is asked for again in between only
  postpones it.
* `RequestLoop`, `MistralRequest`: weak fairness of a request that has begun: every HTTP call of it comes back, with an
  answer or an error. (The clients set no timeout of their own; the context of a request that `ask` left behind does
  not end every one of these calls, see 6.3.)
* `Catalog`: weak fairness of a refresh that has begun. `ModelStore` states no liveness and has none.
* `RealtimeSession`: weak fairness of every step of a call or goroutine that has begun; nobody has to call,
  and a live upstream need not fail.
* `OpenAIResponse`: weak fairness of the pump, of each timer's callback and of the goroutine that closes the
  connection; RunAction returns when its context ends (it is handed the session's context). OpenAI owes nothing.

## 4. The proofs

Checked by `tlapm` for every value of the constants the named assumptions allow.

**TextSessionProofs.** `TypeCorrect`: the type of `wgCount` (0 or 1: `wg.Done` never panics) is not inductive;
`Counted` adds that the counter is 1 exactly from the fork of the Respondent to its `wg.Done`.
`SerialStartsOneListener`, the half of `OneListener` that holds (6.2 has the other): with `~ConcurrentStarts`,
`Serial` says the flag is up while a Listener runs and down while a caller stands between test and set, which is
what makes the two steps act as one. `WaitingProtects`: `Waited` ties a tear-down past `wg.Wait` to a counter that
is and stays 0. `TearDownWaitsForTheTold`: `Told` says that a Respondent's context is of a session whose Listener is
in its select or whose user is gone (`Opened`). The entry a tear-down finds may be of an earlier session, whose
context then is done: with serial starts its Listener has left the select before the next begins. `FlagsHaveOwners`
needs no strengthening but the types: what sets a flag, or deletes an entry of somebody else, is on its way to take
its own down.

Of a request in the same module: `AskTypeCorrect`, `DeltasAreAccounted` and `RetriesComeInTurn` follow from one
inductive invariant, `AskIInv`: the types, the sum of what was received (`Accounts`: in TxCh or read, in the batch,
dropped with a full batch, and an answer that is whole only with an empty batch), and where caller and goroutine of
an attempt stand to one another (`Turns`). The last is what lets `Decide` start a retry: without it a retry could
begin beside the stream of the attempt before.

**OperatorHubProofs.** `HubTypeCorrect`. `OneClientOneSession` and `OneClientEntryEndsWithSession`, under
`OneClientOnly` (one goroutine uses the hub for the dialog): `Delete(key)` names the entry, not the session, so
the invariant must say whose entry it is: `Mapped` (the entry is the session whose cleanup is not over) and
`Fresh` (what is not created yet is untouched); together `OrderlyInv`. It holds until a subscription fails.
`MappedSessionIsServed` needs none of these conditions: the goroutine of a session ends for good only with its context
done or in `cleanup`, which has then removed the entry.

**DialogPipelineProofs.** For any kind of session, any capacity of the channels and any batch limit. `TypeCorrect`: a
Respondent past its input has a current message (`HasCurrent`). `OnlyShownIsSaved`: an answer in `answers` is a notice or
answers a message that will be shown when it is saved (`NoticesSound`). `NoneRecordedTwice` follows a message on
its way: the places `RxCh`, `question`, the batch, `fullQuestCh` and what was recorded hold each message once and are
apart from one another (`OnePlace`), as long as no message sets operator mode (`NoSet`); with such messages the code
records a question twice, see 6.3.

**VoiceSessionProofs.** `RealtimeTypeCorrect`. `NoListedChannelIsClosed`: `[](ListsInv /\ OnlyGuardPanics)`
for any number of overlapping calls. `ListsInv` says that a listed channel is open (`SubsOpen`), listed by one
session only (`SubsDisjoint`), and in no list before its SubscribeEvents (`UnmadeFree`, with `EarlyFirst` about
which subscription a call is at); `ShutsOne` gives the session a closer has in hand. Without disjointness the
close in one session would break openness in the other; without `UnmadeFree` a subscription would.

`NothingStaysBehind`: `NothingLeftBehind` for any number of calls, whatever DisconnectUser falls into, while calls
of one respId do not overlap, or overlap with Mistral (`OverlapsServed`); for the other providers overlapping calls do
break it, see 6.2. `AloneInv` says who is at work: only who is to shut a session has one in hand (`ShutterOnly`), and
calls in turn are under way one at a time (`OneRuns`). `HeldInv` is about connections: Mistral and the cascade cancel
before they close the channels (`CancelFirst`), who dials OpenAI or Google found no session and none came since
(`DialsFirst`), and the cascade shuts the old session before the new one takes its place (`OldGoing`); so a
connection that is up is of the respId's session, or in the hand of who is about to close it. `LeftInv` is about the
registry, for calls in turn without a DisconnectUser inside one (`Calm`): a call's subscription stays open until it
registers (`Opened`), its bridge and closer wait until then (`Bridged`), an entry is of a call that has returned
(`Entered`), and a closer that went through took its entry along (`Unregistered`).

Of a response of OpenAI in the same module: `DisconnectsOnce`, for any number of responses and events and every fall
of the callbacks. `DisconnectOnce` is about a step; the invariant `Flagged` says that a callback is about to tell,
or has told, only with the flag of the session set, which it tests and sets in one step, and that one is about to at
most. That the call itself comes before the close is not true, see 6.2. `ResultsSentOnce`, for any number of
responses, calls and files: `Ordered` says that on the wire a response makes its calls, then ends, and only then the
next may call, and that the reader and the callbacks stand at one place of that order. A result not yet sent has the
end of its response still ahead, so the pending result `response.done` finds is of the response that ends, and what
went out (`Once`) is of responses that ended before. `ResponseTypeCorrect`: the types hold although the watchdog
makes a timer anew each time, because an event that begins a response and one that ends its audio make one each and
come in that order (`Arming`: the number of the next timer is less than that of every such event on the wire, which
is no greater than OpenAI can have reached).

**DialogBatchProofs.** `BatchImplementsLog`: `DialogBatch` implements `HistoryLog`, for any batch size. A step of the
mapping is a save, a store, a loss or a stutter; that taking a buffer into a batch is a stutter needs to know
that no other batch is in flight, which is what the mutex is for: `Guarded` (a free mutex means no batch under
way), with the types (`Typed`) that the laws of sequences ask for. On top of the abstract steps `Ordered` (the
history of a dialog rises and has no number beyond the last) and `Whole` (until a write fails it is all of them)
are inductive, and give `BatchAscends` and `BatchIsWhole`. The lemmas about heads, tails and rests of
concatenations and about rising sequences that lose a piece in their middle are stated once. `DbReadIsLastN` and
`ShutdownKeepsAll` rest on `ReadInv`: a history is read at a moment when the mutex was free and nothing buffered, and
then, unless a write failed, the database had all that was saved (`Stored`); what it has later begins with that, because
it always holds a beginning of the history. Shutdown's last flush keeps the mutex until every buffer is empty
(`LastFlush`), so when it is over the database has at least what was saved at its start.

**ModelStoreProofs.** `OneActiveHolds`, for any goroutines, calls and faults. Between the begin of a transaction and its
commit the rows may change, so the invariant `StoreInv` carries what was read: while no two transactions crossed,
at most one is open (`Apart`), what it read of the rows and their flags is still so (`SnapsAgree`), a removal is of a row
that is there (`RemovesRow`), and one row is active (`Unique`; none, if a deletion lost the SELECT of its successor).
That for calls in turn one is active at the end even so is `MendInv`: while none is, the call that lost it has its second
switch ahead (`Mends`). `SnapshotsHold` states the first two for their own sake:
they are why a transaction may decide from what it read. `ChannelsGoOff`: once the last model is gone the channels
are off or a manager is about to disable them (`Off`); that `LastOne` decides so from its snapshot is `SnapshotsHold`.
`AgentsAreNamed` is about calls in turn: `TurnInv` says that one call is under way, a provider has one model, each step
belongs to some kinds of calls (`Course`) and what a call read of its model is still so when it writes (`Current`).
`AgentInv` says which agents there are in the middle of a call (`Due`): none between the deletion of the old agent and
the creation of the new, the new one while it waits to be saved, none once a deletion has begun with it, else those the
rows name.

`FilesAreFound` is about calls in turn too and rests on the types (`StoreTypeCorrect`, which holds however calls overlap;
that a query takes a row that is there needs a greatest Id, by well-foundedness). Its half about Mistral: `LibraryInv` keeps
apart what the row says and what it will say when the call is through (`Truth`: with the document uploaded, without the
one deleted, empty after the library went), and it is the second that the library matches (`Matched`). Along the way a
manager knows the library it handles (`Handles`), and what an update is about to write has the files and library of
the row (`Brings`): the router takes them from the client, or leaves out the library, and restores them from what it
read. Its half about Google: `SearchInv`, that what is embedded and what is left to embed are the files that were sent
(`Embeds`), that files count as unchanged only against the row as it is (`Reads`), and that a model to come has no
embeddings (`Dated`). Assumed of the scenes: an upload or a deletion names one document (`DocumentAssumption`), and the
clock does not show 0 (`MaxSeconds` is at least 1).

`RowsImplementUserModels` is about calls that overlap and fail: `ModelStore` implements `UserModels`. Reading a provider's
model takes one of its rows, so each step must leave one row per provider (`Single`), also the commit of a transaction that
counted the rows at its begin: `SnapsNamed` says which row that transaction found (together `ProviderInv`), and `SnapsKept`
carries it over the steps of the others. A commit is then `Creates`, `Writes`, `Deletes` or `Activates` of one provider, a
request to a provider or a failure a stutter, and a step that opens a second transaction ends the promise. In the
abstract specification one model is active in every state, until a deletion picks none, and never two
(`UserHasOneActive`).

**CatalogProofs.** `OneRefreshHolds`, for any goroutines and versions. `CatalogInv` says who holds a claim (`HoldsKey`):
what is held is claimed (`Claimed`) by one (`OneHolder`) and not fresh (`VoiceStale`, `HoldersStale`), and without a crossing
whoever refreshes the models is alone with them (`ModelsApart`). The models' claim is held over the refresh of the
voices, which is why the invariant speaks of stages and not of keys alone; `LlmListed` (models that are fresh are in
the database) is why a caller without a claim does not ask the provider for them. `FreshIsCurrentHolds` adds
`CurrentInv`: a refresh does not begin after the offer of the moment (`Dates`), the names it fetched (`NamesRecent`), the
models it wrote and has yet to mark (`ModelsRecent`) and the voices (`VoicesRecent`) are not older than its
beginning. In the middle of a script `Going` says so of every list it need not fetch, or write, any more,
and that it fetches a list before it writes it. The first invariant is what keeps the others' writes out.
`CatalogTypeCorrect` is about the types: what is left of a script is an end of the script of the provider (`Remainders`), so
that a failed fetch of ElevenLabs has the list to skip behind it. What the return of a claim rests on is proved too:
`ClaimsHaveHolders`, the converse of `Claimed`, for which a step that gives up one key must be shown to keep the other; and
`RefreshesAdvance`, that no step, failed or not, takes a refresh back (`ScriptShortens`: a fetch that fails skips at
least one list more). Assumed of the markets: they are of the type
(`MarketsAssumption`).

`ManagementTypeCorrect` and `ManagementIsSafe` put both parts together: every behaviour of the run's specification
is one of `StoreSpec` and one of `CatalogSpec` (`ManagementIsItsParts`), since what one part does leaves the other's
variables alone and the scene at rest is one of its initial states. `TextIsSafe`, `VoiceTypeCorrect` with
`VoicesAreSafe`, and `ProvidersTypeCorrect` with `ProvidersAreSafe` do the same for the other three runs of more
than one part: they state every property of these runs but liveness for the very formula the cfg names as
SPECIFICATION.

**ProvidersProofs, the responders.** The assumptions are that there is a goroutine of each kind and that a session's
order of providers names one to three of them. `RespondersTypeCorrect` rests on `Plans`, the nineteen rests of the
sweepers' scripts, which are closed under taking a step. `ToolsAlwaysFit` holds for any goroutines: a configuration is
written at once and never changed. `LiveResponderIsMapped`, for one maker and one sweeper (`OthersRest`): `Handled` says that
a maker in the middle finds its slot still empty, and a sweeper holds what the slot holds and has cancelled it before
it closes or deletes. `StoredResponderWakes`: `Wakeful` says that who waits has the channel of the map or a closed one
(`Known`), and so have those who are to close it.

**ProvidersProofs, the requests.** For any history limit, number of questions, retries, rounds and calls. Each action has a
lemma on what it does to its request (`LoadFields`, `SendFields` and so on) and `SharedStep` on what it does to the
rest; the invariants use only those. `LoopTypeCorrect`: who called for functions has a round left (`LoopTyped`).
`CallsHaveResults`: a request that is not waiting for results has them all (`CallsMatch`). `ModelHearsTheDialog`: a
request that is alone (`OneRequest`) leaves the prompt as it was (`PromptKept`); and with a cache that lives
`HistoryTells` relates three things: a cache that is not full tells all that was said, a request has what the cache had
and then its question, and from the question to the answer the cache ends with the question, so that the
answer is stored behind it. Before there is a cache the database tells all (`WholeFirst`). That a history that
grew and is still short lost nothing (`NotFull`) is what the limit is for in these proofs: the histories
themselves may be trimmed at any time.

`RequestsAdvance`: `RequestLeft` ranks a request by the rounds it has left, the tries of a quota, the calls without a
result and the place it is at, in this order, and every step goes down in it: a request that goes back for another round
has one less (`RoundsFall`), one that is sent again a try less (`TriesCounted`), and the way from the question to
the first call is a straight line (`Preparing`). `PlacesFall` says so of the places, and `StepNears` of each action.

**ProvidersProofs, the requests to Mistral.** For any requests, conversations, rounds and calls. The types
(`MistralTypeCorrect`) carry that the ids in the responder, in the database and in a reply are of conversations
there are, and that functions are what a reply called (`MistralTyped`). Each step has a lemma on what it does
(`PutsIs`, `TakesContinuedIs` and so on), and `TalkEffects` says what they have in common. `ConversationIsKept`, the
four parts of `ConversationLasts`: while requests come one at a time (`OneAttends`) a request's reply is of the
conversation the responder holds, what that conversation waits for is what the reply called, a request about to
begin a conversation has given up the last, and it is refused only by one that is stuck or waits for results
(`Attends`). So what is given up was useless or went out, and a streamed request that fails met a trouble of its own
(`Reasons`). For the saved id `IdsFollow` says that it follows the responder's with every adoption; the exceptions
are a responder that could not read it (`copy`) and `Request`, which forgets a conversation that is gone without
saving that. The database then still names it, which is harmless as long as it is that one (`OneAttends`). The
attempt showed what else can happen: two calls of `Request` that overlap, both refused with 404; the first has begun
and saved another conversation when the second forgets the id, which is that of a sound conversation now. The
theorem asks that this does not meet (`OneGivesUp`: requests overlap only with streaming, or where conversations do
not break), and section 6.2 lists it.

`TalksAdvance` says the same of a request to Mistral as `RequestsAdvance`: a conversation that is refused is given up and
begun anew once (`continued`, `recover`, `begun`: no way leads back to `ask`), and each round of results takes one from the
rounds left, which is more than a round has steps (`TalkPasses` lists what can follow what, `TalkFalls` that all of it
goes down). `AnswersComeNearer` is both in the specification of the run.

**Only model-checked**: liveness, which is out of the prover's reach: `DialogReleased`, `CallReturns`, `DialogGoesOn`,
`CancelledLeavesMap` (in `EntryMatchesSession`), `ShutdownReturns` (in `StopSaves`), `ExpiredGoes`, `AnswerComes`,
`ClaimsReturn` and `VoiceEnds`. For several of them the half that is not about fairness is a theorem: who holds what is to be
released (`ClaimsHaveHolders`, `FlagsHaveOwners`), that who is waited for has been told (`TearDownWaitsForTheTold`), that
somebody watches (`OpenResponseIsWatched`), and that each step leads towards the end (`RefreshesAdvance`,
`AnswersComeNearer`). What is left to fairness there is that a goroutine with something to do does it.

## 5. Not modelled

* Test mode and notifications of a session: they change no state another goroutine reads. Of Meta events the errors are
  modelled (`MetaSent`), of which one to errCh stands for several: the first ends the Listener.
* More than one function call in a response of OpenAI's voice sessions: `ServiceGoesOn` makes one. The code keeps the
  pending results in a list that `response.done` sends or drops as a whole, as the model does its one.
* The parser of streamed JSON (`ProcessStreamDelta`) and the chunkers of text for TTS.
* The turns of a voice session at Google, Mistral and the cascade (interruption, tool calls, speech): the life of
  these sessions is modelled, what happens between its events is not.
* Audio, transcripts, usage; translation of requests and answers to wire formats; prompts; generated media but for
  success and failure.
* The stored procedures behind `comdb/dialog.go`; contacts, OAuth tokens and storage counters, which are single
  statements.
* CRM: a pool of workers whose results go to an external system and that no dialog waits for.
* `rpc`, `google_services`, `model/elevenlabs`, the audio requests and custom voices of Mistral, `endpoint/notification.go`,
  `crypto`, `com*`, `mode`: calls of external services, texts or constants.

## 6. Where the code differs from what it says

### 6.1 Checked by a run

| Run | What happens |
|---|---|
| `text_late_sender` | The tear-down waits for a WaitGroup only if `respondentWG` already holds one (startpoint.go:1534-1538). A Listener that ends before its StarterRespondent stored it (1412), or whose entry an older Respondent deleted (1418), closes the channels under the Respondent that starts afterwards: it sends on a closed channel. |
| `operator_bypassed` | The Respondent asks for the error channel of the operator once, at its start (startpoint.go:932), when an ordinary dialog has no operator session, and gets a closed one (operator.go:154-158). In operator mode it is always ready, its case has no body for the empty string, and control leaves the select for the input loop (944-976): the next question is batched and put to the model while operator mode is on, against the comment at 1095. |
| `ask_abort` | `ask` closes its two channels when its context ends (701-702, 907-909); the goroutine then sends the cancellation or a late answer on them (881, 896) and panics. |
| `library_lost` | `UpdateModelToDB` writes the column Ids without the list of files. The next deletion of a document finds no file listed and deletes the whole library, which still holds the others, against mistral/manager.go. |

### 6.2 Seen with other constants

The definitions named here are kept in the modules; use them in a cfg to see the trace.

* **Two StartSessions of a dialog that overlap** both find the flag `Services.Listener` down before either sets it
  (startpoint.go:1463-1464) and start two Listeners on the same RxCh, against the comment at 1447: `OneListener` in
  `MCTextLateSender.cfg` with `ConcurrentStarts = TRUE`. For calls in turn there is one, for any number of them
  (`SerialStartsOneListener`).
* **A conversation that could not be read** is given up: `GetOrSetRespGPT` takes an error of `ReadContext` for a dialog
  without one (mistral/model.go:954-962), the next question begins another and saves its id over that of a sound one,
  which no later restart can find. `UnreadIsKept` in `MCProviders.cfg`.
* **The first request of every responder** of Mistral resets the conversation, whether the tools changed or not
  (mistral/request.go:1012; the comment at 953 says "if the tools changed"): what was said before is lost to the model
  after each TTL. `ToolsChangeResets` in `MCProviders.cfg`.
* **No model is left active**: `RemoveModelFromUser` drops every error of the SELECT of the model to activate next, not
  only that there is none (comdb/model.go:216-228), and commits. `DeleteModel` switches once more, but only if the model
  was active in the list it read at its start (model_storage.go:146); when another call activates it in between the
  user has models and none active, against the comments at model_storage.go:90 and comdb/model.go:211.
  `AnotherIsSwitchedTo` in `MCManagement.cfg` with `Scenes <- MCChoice` under `StoreAlone`.
* **OnDisconnect after the close**: the second timer of the watchdog takes the flag `onDisconnectCalled` and then calls
  OnDisconnect (realtime_pump.go:99-101). CloseRealtimeSession may store the flag and return in between, and the
  callback comes after the point at which openai/realtime.go:378-382 says it must not. `NoLateDisconnect` in
  `MCVoiceSession.cfg` under `ResponsesAlone`.
* **The watchdog ends a session that answered**: `response.done` stops the first timer only (realtime_pump.go:273, 281).
  The second, armed at 85, ends the session two seconds later although OpenAI answered the cancel, unless another
  response was created meanwhile, against the comments at 46 and 84. `EndsOnlyUnanswered`, likewise.
* **A Respondent hangs** on the channel of a stopped timer (startpoint.go:1193, `pc = "stuck"`):
  `RespondentEnds` under `FairSpec` with the setup `NoOperator`.
* **Two clients of one dialog** may create two operator sessions (operator.go:107): `Clients <- TwoClients`,
  `OneLiveSession`. A failed subscription deletes by key and may remove another session's entry (235), which
  is why `OneLiveSession` and `EntryEndsWithSession` stop at the first failure.
* **The idle timer** ends the goroutine of a session that stays in the map (operator.go:343-346):
  `MappedIsServed` without the exception in `IdleTimeout`.
* **Overlapping voice calls** of one respId (the records of `Setup` that `Uses` leaves out): OpenAI and Google violate
  `UpstreamIsHeld` (realtime.go:190: lookup and store are two steps), and every provider violates `CloseEnds` and
  `EndedLeavesRegistry` without its condition (startpoint/realtime.go:113: the closer may run before
  `registerSession`). With DisconnectUser inside a StartSession OpenAI, Google and the cascade violate the
  unconditional `EndedLeavesRegistry`, Google and the cascade `CloseEnds`. With Mistral the loser's rollback closes
  the winner's session (mistral/model.go:184, 197). The cascade violates `UpstreamIsHeld` with three overlapping calls
  (`MaxStarts = 3`; the run's two are too few): two of them find the same old session, each closes it outside the
  lock, and each stores its own, the second over the first (realtime_cascade.go:213-218). With Mistral it holds for
  three overlapping calls too (5.6 million states), and for any number by `NothingStaysBehind`.
* **Google's race guard** sends outside the lock (google/realtime.go:101-113) and panics if the session is closed
  first: the one panic `OnlyGuardPanics` allows. It also misses a reader that has published but not yet
  cancelled (realtime_pump.go:29-33).
* With `MaxCloses = 2` the invariants of `RealtimeSession` hold too (2.4 million states).
* **Mistral's waiters** are never woken (mistral/model.go:1012-1013 stores where the others notify): `NotifiesWaiters`.
* **An invalidated responder** is taken from the map and not cancelled, and two makers overwrite one another: both leave
  a live responder outside the map. `LiveIsMapped` without its condition.
* **Requests that overlap** (a request left behind by `ask`) leave the history of one in the prompt of the other
  (openai/request.go:255-259, 360): `PromptIsOwn` without its condition. A late write of the cache or its
  expiry in the middle of a request loses history: `HistoryHolds` without `Quiet`.
* **Two calls of Mistral's `Request` that overlap** and are both told that the conversation is gone: the first begins
  another and saves its id, the second then forgets it without saving that (mistral/request.go:166), and the database goes
  on naming a sound conversation the responder does not have: `SavedIsCurrent` with a place that overlaps without
  streaming and has "dies" among its troubles.
* **Transactions that cross** (the first models of two providers at once; a deletion beside a switch) leave two active
  models or none, after which `GetActiveProvider` fails (comdb/provider.go:55): `OneActive` without its condition. Two
  deletions at once leave the channels on without a model: `ChannelsOff` likewise.
* **A refresh without a claim** (router.go:1150-1155) runs beside another and may write an older list over a newer
  one that counts as fresh for a day; when the database does not answer it asks the provider although the list is fresh:
  `FreshIsCurrent` and `OneRefresh` for models with `crossed`.

### 6.3 Read in the code while modelling it

Part of the models, or next to them; no run states them.

* An answer may be saved before its question (startpoint.go:1549, 1631, 1642); a message of unknown type ends the
  session (1570, 1601-1603); a failure of the operator ends the session before the fallback answer is
  delivered (1258-1262); a question that was answered is asked again after the operator's timeout (1002-1003,
  1278).
* When the context of a request ends, OpenAI and Mistral drop the error of the callback (create/open.go:537-539,
  mistral/mistral.go:731, mistral/request.go:799, 913, 943): `ask` may report an answer that is empty, or whose last deltas
  were never sent (887-898). `DeltasAccounted` excepts it.
* A 5xx answer is never retried and a 401 or 403 never critical, as `isProviderResponseError` is asked first
  (errors.go:186, 117), against the comments at 125, 145, 195 and 210.
* The deletion of `respondentWG` by key (startpoint.go:1418) and the timer of operator mode whose variable is
  overwritten (1109) outlive what they belong to.
* A failed write loses the rest of its batch and stops the flush of the other dialogs (endpoint.go:197-199, 212);
  `Shutdown` does not make up for it, against the comments at 170 and 205. A buffer that is not empty answers
  `GetDialogHistory` alone, with fewer messages than asked for (275, 283).
* Mistral's `DisconnectUser` leaves the voice session open (mistral/model.go:1312-1313), although the router
  promises to close it (router.go:1564): the model has it (`DisconnectUser` for Mistral shuts nothing).
* A reader of Mistral's STT that ends with a normal close ends silently (realtime_stt.go:252-254).
* `SubscribeEvents` after the close of a session gives a channel nobody closes (cascade, Mistral, Google).
* OpenAI: audio does not stop the three-second timer (realtime_pump.go:161-164 is commented out), so a response
  that speaks longer is cancelled; a RunAction of more than three seconds does the same; files of an interrupted
  response go out with the next one (271, 346). A call that finds a session in the map returns it although its pump
  has ended (realtime.go:187).
* Operator: a client that does not read blocks the session's goroutine at `RxCh` (operator.go:336).
* Cascade: the deferred end of an old turn clears `generating` of the newer one (realtime_cascade.go:319); an empty
  last delta never flushes the chunker (330-340).

Responders (`Responders`):

* `Router.GetCh` waits a second at each provider before the one of the user and leaves a wait channel there.
* `Delete(key)` after a `Range` removes whatever is stored by then; a request may refresh the TTL between the test
  of `CleanUp` and its cancel.
* `NotifyWaitChannels` loads and closes in two steps, `CleanupWaitChannels` tests and closes in two: two at once
  panic. Google's `cleanupExpiredWaitChannels` drops a channel without closing it.
* OpenAI swallows errors of its configuration and keeps a responder without one until its TTL ends; a second
  dialog of a Google responder replaces its main channel.

Requests (`RequestLoop`, `MistralRequest`):

* OpenAI and Google: a retry adds the question to the history again; no HTTP client has a timeout.
* OpenAI: at the limit of tool rounds the last functions are run and their results not sent. The preloading goroutine
  writes over a cache that is not empty (openai/model.go:250, 595).
* Google: `ExpireAt` of the cache is written and not read; an error of the embedding is said to be survived
  (google/request.go:1205, 1223) and ends the request (1286); function calls of the second round are ignored;
  `applyRAG` past its 15 seconds writes over the cache.
* Mistral: `CleanDialogData` sets `Context` to nil under a request, which then panics; `Context.Messages` is never
  trimmed; when `FetchToolsList` fails the agent is patched to the built-in tools alone; results of a request that
  was left behind go to the conversation of the next and make it unusable; `Request` returns an error although the
  regained conversation took the result; an error in the middle of a stream gives the user an empty answer; errors
  of `SaveContext` are ignored.

Models and files (`ModelStore`):

* `DeleteModel` switches the active model a second time from what it read before (model_storage.go:146-175), and may undo
  a switch of the user.
* `decompressModelData` takes FileIds and VectorId from Data where Ids is empty (compression.go:48-55, against the
  comment at 68): after upload, update, deletion of the last document and update the deleted library is back in the row.
* `updateMistralModelInPlace` deletes the agent before the new one is made and saved; a failure in between leaves the
  row with an agent that is gone. Creating a model over one that exists leaves the old agent at Mistral.
* An update beside a deletion inserts the model again. `UpdateUserGPT` tests the AssistantId and drops the
  write when it changed, without an error.
* Two first uploads at once make two libraries ("one user, one library", mistral/manager.go:25), as does an error of
  the first read. An agent does not search a library made after it.
* `UpdateModelToDB` writes the files it is given over those of a Google model and embeds none of them
  (model_storage.go:181-227): they are listed and not found.
* Google: search switched off and on with the same files leaves them listed without embeddings; a failed embedding is
  skipped; the deletion of an embedding leaves its file listed. The id of a document is the second of its upload
  (openai/manager.go:33): of two in one second the later replaces the earlier.
* `SyncProviderModels` empties the AssistantId: updates of OpenAI and Google models are refused ever after, an agent of
  Mistral is left behind.
* `GetModelByProvider` is said to read the active model (comdb/model.go:728-729); its query does not ask.
* Notices about removed models are lost when their channel is full (router.go).

## 7. Plan

Written so far, in this order: `TextSession`, `DialogPipeline`, `OperatorHub`, `AskRetry`, `DialogBatch` with `HistoryLog`,
`RealtimeSession`, `OpenAIResponse`, `AgentConfig` with `Responders`, `RequestLoop`, `MistralRequest`, `ModelStore` with
`UserModels` and `Catalog`, and the proofs of section 4.

What would be next, if the project grows: the turns of the cascade and of Mistral's voice sessions against one abstract
specification of a turn (no audio of an interrupted turn after the interruption); the pool of `crm`; the parser of
streamed JSON and the chunkers as recursive functions checked against a reference.
