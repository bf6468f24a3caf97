------------------------------ MODULE RequestLoop ------------------------------
(* One dialog's requests to OpenAI and to Gemini: RequestStreaming from the     *)
(* history it loads to the answer it hands on, with the history cache that all  *)
(* requests of the dialog share. AskWithRetry calls again with the question of  *)
(* a request that failed.                                                       *)
EXTENDS Integers, Sequences

CONSTANTS Requests,     \* goroutines inside RequestStreaming
          MaxQuestions, \* questions asked in a behaviour
          MaxRetries,   \* times a question is asked again
          Limit,        \* DialogHistoryLimit
          MaxDepth,     \* maxToolCallDepth
          MaxCalls,     \* function calls in one answer of the model
          MaxQuota,     \* maxRetries of sendToGeminiAPIStreaming
          LoopSetups    \* what a behaviour is up against, see Setup

ASSUME LoopAssumption ==
    /\ MaxQuestions \in Nat /\ MaxRetries \in Nat /\ Limit \in Nat \ {0} /\ MaxDepth \in Nat \ {0}
    /\ MaxCalls \in Nat /\ MaxQuota \in Nat

VARIABLES scene,        \* the record chosen in Init
          cache,        \* the DialogCache of the dialog
          late,         \* goroutines that will write a history of the database into it
          stored,       \* the dialog in the database
          asked,        \* the number of the last question
          retries,      \* requests made again after they failed
          delivered,    \* questions whose answer was handed on, in order
          prompt,       \* whose history AgentConfig.SystemPrompt holds; 0: nobody's
          req

loopvars == <<scene, cache, late, stored, asked, retries, delivered, prompt, req>>

(* provider:  where the dialog is                                               *)
(* past:      the database has a question, number 0, and its answer             *)
(* overlap:   a request abandoned by ask goes on while the next one is made     *)
(* hazards:   "preload" GetOrSetRespGPT loads the history beside the request,   *)
(*            "slow" applyRAG outlives its timeout, "expires" the cache gets old *)
(* faults:    what can go wrong in a request                                    *)
Hazard == {"preload", "slow", "expires"}
Fault == {"responder", "rag", "quota", "api", "empty", "gone", "media"}
Setting == [provider : {"openai", "google"}, past : BOOLEAN, overlap : BOOLEAN, hazards : SUBSET Hazard,
            faults : SUBSET Fault]

Message == [by : {"user", "model"}, q : 0 .. MaxQuestions]
History == Seq(Message)
By(who, q) == [by |-> who, q |-> q]
LastOf(h) == SubSeq(h, Len(h) - Limit + 1, Len(h))
Trim(h) == IF Len(h) > Limit THEN LastOf(h) ELSE h

(* history:  what the request loaded, then what it sends                        *)
(* slice:    the messages read by an addMessageToCache under way                *)
(* original: originalSystemPrompt; carried: whose history the instructions hold *)
(* calls, outputs: function calls of the model so far, and their results        *)
(* text:     what the model answered at last                                    *)
Request == [pc : {"idle", "load", "fill", "responder", "rag", "question", "keep", "prompt",
                  "send", "tools", "answer", "media", "remember", "done", "failed"},
            q : 0 .. MaxQuestions, history : History, slice : History,
            original : 0 .. MaxQuestions, carried : 0 .. MaxQuestions,
            depth : 0 .. MaxDepth, calls : Nat, outputs : Nat, quota : 0 .. MaxQuota,
            text : {"none", "text", "null", "file"}, gone : BOOLEAN]
NoRequest == [pc |-> "idle", q |-> 0, history |-> <<>>, slice |-> <<>>, original |-> 0,
              carried |-> 0, depth |-> 0, calls |-> 0, outputs |-> 0, quota |-> 0,
              text |-> "none", gone |-> FALSE]

Cache == [there : BOOLEAN, old : BOOLEAN, msgs : History]
NoCache == [there |-> FALSE, old |-> FALSE, msgs |-> <<>>]
Late == [read : BOOLEAN, history : History]

LoopTypeOK ==
    /\ scene \in LoopSetups /\ cache \in Cache /\ late \in Seq(Late)
    /\ stored \in History /\ asked \in 0 .. MaxQuestions /\ retries \in 0 .. MaxRetries
    /\ delivered \in Seq(0 .. MaxQuestions) /\ prompt \in 0 .. MaxQuestions
    /\ req \in [Requests -> Request]

LoopInit ==
    /\ scene \in LoopSetups
    /\ cache = NoCache /\ late = <<>> /\ asked = 0 /\ retries = 0
    /\ stored = IF scene.past THEN <<By("user", 0), By("model", 0)>> ELSE <<>>
    /\ delivered = IF scene.past THEN <<0>> ELSE <<>>
    /\ prompt = 0 /\ req = [r \in Requests |-> NoRequest]

OpenAI == scene.provider = "openai"
Set(r, changed) == req' = [req EXCEPT ![r] = changed]
To(r, pc) == [req[r] EXCEPT !.pc = pc]

(* The request is over; AskWithRetry may come back with the question. *)
Over(r, pc) == [NoRequest EXCEPT !.pc = pc, !.q = req[r].q]
Fails(r) == Set(r, Over(r, "failed"))

--------------------------------------------------------------------------------
(* The cache                                                                    *)

(* getDialogHistoryFromCache: only OpenAI asks whether it is too old. *)
OpenAICacheHits == cache.there /\ ~cache.old
GoogleCacheHits == cache.there
CacheHits == IF OpenAI THEN OpenAICacheHits ELSE GoogleCacheHits

(* getOrCreateDialogCache, and the slice of it that is stored. *)
OpenAIStoresMessages(h) == cache' = [there |-> TRUE, old |-> FALSE, msgs |-> h]
GoogleStoresContents(h) == cache' = [there |-> TRUE, old |-> FALSE, msgs |-> h]
StoresHistory(h) == IF OpenAI THEN OpenAIStoresMessages(h) ELSE GoogleStoresContents(h)

(* addMessageToCache reads the slice and stores a longer one. *)
OpenAIAdds(slice, m) == OpenAIStoresMessages(Trim(Append(slice, m)))
GoogleAdds(slice, m) == GoogleStoresContents(Trim(Append(slice, m)))
AddsMessage(slice, m) == IF OpenAI THEN OpenAIAdds(slice, m) ELSE GoogleAdds(slice, m)

(* The ticker of periodicFlush. *)
CacheExpires ==
    /\ "expires" \in scene.hazards /\ cache.there /\ ~cache.old
    /\ cache' = [cache EXCEPT !.old = TRUE]
    /\ UNCHANGED <<scene, late, stored, asked, retries, delivered, prompt, req>>
OpenAIFlushes ==
    /\ OpenAI /\ cache.old /\ cache' = NoCache
    /\ UNCHANGED <<scene, late, stored, asked, retries, delivered, prompt, req>>
GoogleFlushes ==
    /\ ~OpenAI /\ cache.old /\ cache' = NoCache
    /\ UNCHANGED <<scene, late, stored, asked, retries, delivered, prompt, req>>

(* ReadDialog and the conversion: the last messages. A dialog that cannot be    *)
(* read is taken for an empty one.                                              *)
ParseDialogHistory == Trim(stored)
Unread == IF "api" \in scene.faults THEN {<<>>} ELSE {}
ConvertDialogToOpenAIFormat == {ParseDialogHistory} \cup Unread
ConvertDialogToGoogleFormat == {ParseDialogHistory} \cup Unread
DbHistory == IF OpenAI THEN ConvertDialogToOpenAIFormat ELSE ConvertDialogToGoogleFormat

(* preloadDialogHistoryIfNeeded of GetOrSetRespGPT: a goroutine, if the cache   *)
(* is empty now.                                                                *)
Preloads ==
    /\ OpenAI /\ "preload" \in scene.hazards /\ late = <<>> /\ ~OpenAICacheHits
    /\ late' = <<[read |-> FALSE, history |-> <<>>]>>
    /\ cache' = IF cache.old THEN NoCache ELSE cache
    /\ UNCHANGED <<scene, stored, asked, retries, delivered, prompt, req>>

LateReads ==
    /\ late # <<>> /\ ~late[1].read
    /\ \E h \in DbHistory : late' = <<[read |-> TRUE, history |-> h]>>
    /\ UNCHANGED <<scene, cache, stored, asked, retries, delivered, prompt, req>>

LateFills ==
    /\ late # <<>> /\ late[1].read
    /\ StoresHistory(late[1].history) /\ late' = <<>>
    /\ UNCHANGED <<scene, stored, asked, retries, delivered, prompt, req>>

--------------------------------------------------------------------------------
(* applyRAG                                                                     *)

Busy(r) == req[r].pc \notin {"idle", "done", "failed"}
Abandoned(r) == scene.overlap /\ req[r].gone

(* A new question, or the one that failed; ask does not overlap its requests,   *)
(* but when a session ends it leaves one behind.                                *)
RequestStreaming(r) ==
    /\ r \in (IF scene.overlap THEN Requests ELSE {CHOOSE one \in Requests : TRUE})
    /\ ~Busy(r) /\ \A other \in Requests : Busy(other) => Abandoned(other)
    /\ \/ /\ asked < MaxQuestions /\ asked' = asked + 1 /\ UNCHANGED retries
          /\ Set(r, [NoRequest EXCEPT !.pc = "load", !.q = asked + 1])
       \/ /\ req[r].pc = "failed" /\ req[r].q = asked /\ retries < MaxRetries
          /\ retries' = retries + 1 /\ UNCHANGED asked
          /\ Set(r, [NoRequest EXCEPT !.pc = "load", !.q = req[r].q])
    /\ UNCHANGED <<scene, cache, late, stored, delivered, prompt>>

(* Without a cache Gemini wants the responder first. *)
LoadsHistory(r) ==
    /\ req[r].pc = "load"
    /\ \/ CacheHits /\ Set(r, [To(r, "responder") EXCEPT !.history = cache.msgs]) /\ UNCHANGED cache
       \/ /\ ~CacheHits /\ cache' = IF OpenAI /\ cache.old THEN NoCache ELSE cache
          /\ \/ \E h \in DbHistory : Set(r, [To(r, "fill") EXCEPT !.history = h])
             \/ ~OpenAI /\ "responder" \in scene.faults /\ Fails(r)
    /\ UNCHANGED <<scene, late, stored, asked, retries, delivered, prompt>>

FillsCache(r) ==
    /\ req[r].pc = "fill" /\ StoresHistory(req[r].history) /\ Set(r, To(r, "responder"))
    /\ UNCHANGED <<scene, late, stored, asked, retries, delivered, prompt>>

(* RequestStreaming stops waiting for applyRAG, which goes on: if the cache was  *)
(* empty when it began, it will still write the history into it.                *)
TimesOut(r) ==
    /\ "slow" \in scene.hazards /\ Fails(r)
    /\ \/ /\ req[r].pc \in {"load", "fill"} /\ late = <<>>
          /\ late' = <<[read |-> req[r].pc = "fill", history |-> req[r].history]>>
       \/ req[r].pc \in {"responder", "rag"} /\ UNCHANGED late
    /\ UNCHANGED <<scene, cache, stored, asked, retries, delivered, prompt>>

(* The responder, or its configuration, is not there. *)
FindsResponder(r) ==
    /\ req[r].pc = "responder"
    /\ \/ Set(r, To(r, "rag"))
       \/ "responder" \in scene.faults /\ Fails(r)
    /\ UNCHANGED <<scene, cache, late, stored, asked, retries, delivered, prompt>>

(* The embedding of the question and the search for documents: when they fail   *)
(* OpenAI goes on without documents, and Gemini's request fails.                *)
MayFail == IF "rag" \in scene.faults THEN {"ok", "failed"} ELSE {"ok"}
generateOpenAIEmbedding == MayFail
GoogleEmbedding == MayFail
OpenAISearches(r) == \E e \in generateOpenAIEmbedding : Set(r, To(r, "question"))
GoogleSearches(r) == \E e \in GoogleEmbedding : IF e = "ok" THEN Set(r, To(r, "question")) ELSE Fails(r)
AppliesRAG(r) ==
    /\ req[r].pc = "rag" /\ IF OpenAI THEN OpenAISearches(r) ELSE GoogleSearches(r)
    /\ UNCHANGED <<scene, cache, late, stored, asked, retries, delivered, prompt>>

--------------------------------------------------------------------------------
(* The request                                                                  *)

(* The question with its files, and the first half of addMessageToCache. *)
createUserMessageWithFiles(q) == By("user", q)
createUserMessage(q) == By("user", q)
OpenAIAsks(r) == [To(r, "keep") EXCEPT !.history = Append(@, createUserMessageWithFiles(req[r].q)),
                                       !.slice = cache.msgs]
GoogleAsks(r) == [To(r, "keep") EXCEPT !.history = Append(@, createUserMessage(req[r].q)),
                                       !.slice = cache.msgs]
AsksQuestion(r) ==
    /\ req[r].pc = "question" /\ Set(r, IF OpenAI THEN OpenAIAsks(r) ELSE GoogleAsks(r))
    /\ UNCHANGED <<scene, cache, late, stored, asked, retries, delivered, prompt>>

(* mutant: the question is sent and not remembered *)
SendsQuestion(r) ==
    /\ req[r].pc = "keep" /\ Set(r, To(r, IF OpenAI THEN "prompt" ELSE "send"))
    /\ UNCHANGED <<scene, cache, late, stored, asked, retries, delivered, prompt>>

KeepsQuestion(r) ==
    /\ req[r].pc = "keep" /\ AddsMessage(req[r].slice, By("user", req[r].q))
    /\ Set(r, To(r, IF OpenAI THEN "prompt" ELSE "send"))
    /\ UNCHANGED <<scene, late, stored, asked, retries, delivered, prompt>>

(* OpenAI has no messages: the history goes into the instructions, for which    *)
(* the prompt of the responder's configuration is changed.                      *)
ChangesPrompt(r) ==
    /\ req[r].pc = "prompt"
    /\ prompt' = IF Len(req[r].history) > 1 THEN req[r].q ELSE prompt
    /\ Set(r, [To(r, "send") EXCEPT !.original = prompt])
    /\ UNCHANGED <<scene, cache, late, stored, asked, retries, delivered>>

(* mutant: the prompt stays changed when CreateResponse fails *)
RestoresOnSuccess(r) == prompt' = IF OpenAI /\ req'[r].pc = "answer" THEN req[r].original ELSE prompt

(* originalSystemPrompt comes back, whatever CreateResponse says. *)
RestoresPrompt(r) == prompt' = IF OpenAI THEN req[r].original ELSE prompt

(* What the API answers to one request.                                         *)
Reply == [kind : {"text", "empty", "calls", "quota", "error"}, calls : 0 .. MaxCalls]
Says(kind) == [kind |-> kind, calls |-> 0]
OpenAIReplies == {Says("text")} \cup [kind : {"calls"}, calls : 1 .. MaxCalls]
            \cup (IF "api" \in scene.faults THEN {Says("error")} ELSE {})
            \cup (IF "empty" \in scene.faults THEN {Says("empty")} ELSE {})
GeminiReplies == OpenAIReplies \cup (IF "quota" \in scene.faults THEN {Says("quota")} ELSE {})

Answers(r, text) == [To(r, "answer") EXCEPT !.text = text]
CallsFor(r, n) == [To(r, "tools") EXCEPT !.calls = @ + n]

(* streamGenerateContent: 429 is tried again, silence is an error, functions    *)
(* beside a text are left, and only the first answer may call for functions.    *)
TriesForever(r) == Set(r, [req[r] EXCEPT !.quota = @ + 1])  \* mutant: the tries are not counted
GeminiTriesAgain(r) ==
    /\ req[r].quota < MaxQuota
    /\ Set(r, [req[r] EXCEPT !.quota = @ + 1])
GeminiRefuses(r, reply) == reply.kind \in {"error", "empty"} /\ Fails(r)
GeminiAnswers(r, reply) ==
    \/ reply.kind = "text" /\ Set(r, Answers(r, "text"))
    \/ reply.kind = "calls" /\ req[r].depth = 0 /\ Set(r, CallsFor(r, reply.calls))
    \/ reply.kind = "calls" /\ req[r].depth > 0 /\ Set(r, Answers(r, "none"))
sendToGeminiAPIStreaming(r, reply) ==
    \/ reply.kind = "quota" /\ (GeminiTriesAgain(r) \/ (req[r].quota = MaxQuota /\ Fails(r)))
    \/ GeminiRefuses(r, reply)
    \/ (req[r].gone => reply.kind = "calls") /\ GeminiAnswers(r, reply)
    \/ req[r].gone /\ reply.kind \in {"text", "calls"} /\ Fails(r)

(* createResponseInternal: functions come before the text, round after round;   *)
(* an answer without text is an answer; nobody has to listen.                   *)
OpenAIBuilds(r) == [req[r] EXCEPT !.carried = prompt]
OpenAIRefuses(r, reply) == reply.kind = "error" /\ Fails(r)
OpenAIStreams(r, reply) ==
    \/ reply.kind = "text" /\ Set(r, [Answers(r, "text") EXCEPT !.carried = OpenAIBuilds(r).carried])
    \/ reply.kind = "empty" /\ Set(r, [Answers(r, "none") EXCEPT !.carried = OpenAIBuilds(r).carried])
    \/ reply.kind = "calls" /\ Set(r, [CallsFor(r, reply.calls)
                                          EXCEPT !.carried = OpenAIBuilds(r).carried])
createResponseInternal(r, reply) ==
    IF req[r].depth = MaxDepth THEN Fails(r)
    ELSE \/ OpenAIRefuses(r, reply)
         \/ OpenAIStreams(r, reply)

Sends(r) ==
    /\ req[r].pc = "send"
    /\ IF OpenAI THEN \E reply \in OpenAIReplies : createResponseInternal(r, reply)
                 ELSE \E reply \in GeminiReplies : sendToGeminiAPIStreaming(r, reply)
    /\ IF req'[r].pc \in {"answer", "failed"} THEN RestoresPrompt(r) ELSE UNCHANGED prompt
    /\ UNCHANGED <<scene, cache, late, stored, asked, retries, delivered>>

(* tools/call: one call after the other; what fails gives a result, too. *)
callMCP(r) == [req[r] EXCEPT !.outputs = @ + 1]

(* mutant: the result of a call that failed is left out *)
SkipsFailed(r) ==
    /\ req[r].pc = "tools" /\ req[r].outputs < req[r].calls
    /\ Set(r, callMCP(r)) \/ Set(r, [To(r, "send") EXCEPT !.depth = @ + 1])
    /\ UNCHANGED <<scene, cache, late, stored, asked, retries, delivered, prompt>>

(* onToolCall. *)
OpenAIRuns(r) == Set(r, callMCP(r))
GoogleRuns(r) == Set(r, callMCP(r))
RunsAction(r) ==
    /\ req[r].pc = "tools" /\ req[r].outputs < req[r].calls
    /\ IF OpenAI THEN OpenAIRuns(r) ELSE GoogleRuns(r)
    /\ UNCHANGED <<scene, cache, late, stored, asked, retries, delivered, prompt>>

(* mutant: rounds are not counted *)
OpenAISendsFreely(r) == Set(r, [To(r, "send") EXCEPT !.calls = 0, !.outputs = 0])

(* The results go back with the calls; Gemini's 429 is counted anew. *)
OpenAIContinues(r) == Set(r, [To(r, "send") EXCEPT !.depth = @ + 1])
GoogleContinues(r) == Set(r, [To(r, "send") EXCEPT !.depth = @ + 1, !.quota = 0])
SendsOutputs(r) ==
    /\ req[r].pc = "tools" /\ req[r].outputs = req[r].calls
    /\ IF OpenAI THEN OpenAIContinues(r) ELSE GoogleContinues(r)
    /\ UNCHANGED <<scene, cache, late, stored, asked, retries, delivered, prompt>>

(* ask's context is done: onDelta fails from now on, the request goes on. Before *)
(* it streams nothing tells.                                                    *)
SessionEnds(r) ==
    /\ "gone" \in scene.faults /\ req[r].pc \in {"send", "tools", "remember"} /\ ~req[r].gone
    /\ Set(r, [req[r] EXCEPT !.gone = TRUE])
    /\ UNCHANGED <<scene, cache, late, stored, asked, retries, delivered, prompt>>

--------------------------------------------------------------------------------
(* The answer                                                                   *)

(* An object, an object in a string or in a fence, or plain text: the message   *)
(* is what there is.                                                            *)
OpenAIParses(r) == To(r, "remember")
GoogleParses(r) == To(r, "media")
ParsesAnswer(r) ==
    /\ req[r].pc = "answer"
    /\ Set(r, [(IF OpenAI THEN OpenAIParses(r) ELSE GoogleParses(r)) EXCEPT !.slice = cache.msgs])
    /\ UNCHANGED <<scene, cache, late, stored, asked, retries, delivered, prompt>>

(* A video that was asked for adds a file and a line to the message, a picture  *)
(* takes the message for its caption; what fails adds a line.                   *)
processVideoGeneration(text) == {text} \cup (IF "media" \in scene.faults THEN {"text"} ELSE {})
processImageGeneration(text) == {text} \cup (IF "media" \in scene.faults THEN {"text", "file"} ELSE {})
createModelMessage(text) == IF text = "text" THEN "text" ELSE "null"

GeneratesMedia(r) ==
    /\ req[r].pc = "media"
    /\ \E v \in processVideoGeneration(req[r].text) : \E text \in processImageGeneration(v) :
          Set(r, [To(r, "remember") EXCEPT !.text = text, !.slice = cache.msgs])
    /\ UNCHANGED <<scene, cache, late, stored, asked, retries, delivered, prompt>>

(* The rest of addMessageToCache; onDelta with done: OpenAI does not mind when  *)
(* nobody takes the answer.                                                     *)
OpenAIDelivers(r) == Set(r, Over(r, "done"))
GoogleDelivers(r) ==
    IF req[r].gone THEN Fails(r) ELSE Set(r, Over(r, "done"))
Delivers(r) ==
    /\ req[r].pc = "remember"
    /\ AddsMessage(req[r].slice, By("model", req[r].q))
    /\ IF OpenAI THEN OpenAIDelivers(r) ELSE GoogleDelivers(r)
    /\ delivered' = IF req[r].gone THEN delivered ELSE Append(delivered, req[r].q)
    /\ UNCHANGED <<scene, late, stored, asked, retries, prompt>>

(* Endpoint.SaveDialog, some time after the answer. *)
Saves ==
    /\ Len(stored) < 2 * Len(delivered)
    /\ LET q == delivered[Len(stored) \div 2 + 1]
       IN stored' = stored \o <<By("user", q), By("model", q)>>
    /\ UNCHANGED <<scene, cache, late, asked, retries, delivered, prompt, req>>

--------------------------------------------------------------------------------
Loads(r) == LoadsHistory(r) \/ FillsCache(r) \/ FindsResponder(r) \/ AppliesRAG(r)
RequestGoes(r) == \/ Loads(r) \/ AsksQuestion(r) \/ KeepsQuestion(r) \/ ChangesPrompt(r) \/ Sends(r)
           \/ RunsAction(r) \/ SendsOutputs(r) \/ ParsesAnswer(r) \/ GeneratesMedia(r) \/ Delivers(r)

LoopNext ==
    \/ \E r \in Requests : RequestStreaming(r) \/ RequestGoes(r) \/ TimesOut(r) \/ SessionEnds(r)
    \/ CacheExpires \/ OpenAIFlushes \/ GoogleFlushes \/ Preloads \/ LateReads \/ LateFills \/ Saves

(* A request goes on by itself; the provider answers it, as no request to it    *)
(* has a timeout of its own.                                                    *)
LoopFairness == \A r \in Requests : WF_loopvars(RequestGoes(r))

LoopSpec == LoopInit /\ [][LoopNext]_loopvars
LoopFairSpec == LoopSpec /\ LoopFairness

--------------------------------------------------------------------------------
Contains(h, m) == \E i \in 1 .. Len(h) : h[i] = m
Quiet == scene.hazards = {} /\ ~scene.overlap

(* The model is not asked with a hole in what was said: whatever failed, was    *)
(* retried, went unheard or fell off the end of the history, the history of a   *)
(* request that is shorter than the limit holds every answer the user was given *)
(* before, and the questions of all its answers. It takes a cache that lives    *)
(* and one request at a time.                                                   *)
HistoryHolds ==
    Quiet => \A r \in Requests : req[r].pc = "send" /\ Len(req[r].history) <= Limit =>
        LET h == req[r].history IN
        /\ "api" \notin scene.faults =>
              \A i \in 1 .. Len(delivered) : Contains(h, By("model", delivered[i]))
        /\ \A i \in 1 .. Len(h) : h[i].by = "model" =>
              \E k \in 1 .. i - 1 : h[k] = By("user", h[i].q)

(* The instructions of a request carry its own history, and the prompt of the   *)
(* responder is as configured when no request is under way - as long as no      *)
(* request was left behind: two that overlap leave the history in the prompt.   *)
PromptIsOwn ==
    ~scene.overlap =>
        /\ \A r \in Requests : req[r].carried \in {0, req[r].q}
        /\ (\A r \in Requests : ~Busy(r)) => prompt = 0

(* What a model is told is what was said in its dialog, no less and no more.    *)
ToldWhatWasSaid == HistoryHolds /\ PromptIsOwn

(* A model that called functions is never asked to go on before each of its     *)
(* calls has a result, whatever the functions did and in however many rounds.   *)
CallsAnswered == \A r \in Requests : req[r].pc = "send" => req[r].calls = req[r].outputs

(* The calls of a request that wait for a result, and how many steps it has     *)
(* before it at most: every round may call and be refused for as many again.    *)
Waiting(k) == k.calls - k.outputs
RoundsLeft(depth) == (MaxDepth - depth) * (MaxCalls + MaxQuota + 2)
Preparing == [load |-> 7, fill |-> 6, responder |-> 5, rag |-> 4, question |-> 3, keep |-> 2, prompt |-> 1]
RequestLeft(k) ==
    CASE k.pc = "send" -> RoundsLeft(k.depth) + (MaxQuota - k.quota) + 4
      [] k.pc = "tools" -> RoundsLeft(k.depth + 1) + MaxQuota + 5 + Waiting(k)
      [] k.pc = "answer" -> 3 [] k.pc = "media" -> 2 [] k.pc = "remember" -> 1
      [] k.pc \in DOMAIN Preparing -> RoundsLeft(0) + MaxQuota + 4 + Preparing[k.pc]
      [] OTHER -> 0

(* Retries, rounds and results are counted: whatever is answered, fails or runs *)
(* out of time, each step of a request brings it nearer to its end.             *)
RequestAdvances ==
    [][\A r \in Requests : Busy(r) /\ req'[r] # req[r] =>
          \/ RequestLeft(req'[r]) \in 0 .. RequestLeft(req[r]) - 1
          \/ req'[r] = [req[r] EXCEPT !.gone = TRUE]]_loopvars
================================================================================
