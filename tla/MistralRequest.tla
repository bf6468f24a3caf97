------------------------------ MODULE MistralRequest ------------------------------
(* One dialog's requests to Mistral. The dialog itself is at Mistral, in a      *)
(* conversation; the responder holds its id and the database a copy of the id.  *)
(* RequestStreaming and Request start conversations, go on with them, give      *)
(* them up and start others. Each call of the API is two steps: Mistral acts,   *)
(* and the request takes the reply.                                             *)
EXTENDS Integers, Sequences

CONSTANTS Askers,       \* goroutines inside Request or RequestStreaming
          MaxTurns,     \* requests made in a behaviour
          MaxConvs,     \* conversations Mistral makes in a behaviour
          MaxRounds,    \* maxRounds and MaxFunctionCalls
          MaxParallel,  \* function calls in one reply
          MaxRestarts,  \* restarts in a behaviour
          Places        \* what a behaviour is up against, see Place

ASSUME MistralAssumption ==
    /\ MaxTurns \in Nat /\ MaxConvs \in Nat \ {0} /\ MaxRounds \in Nat \ {0}
    /\ MaxParallel \in Nat /\ MaxRestarts \in Nat

VARIABLES place,        \* the record chosen in Init
          holder,       \* the responder: conversation id, ToolsSynced, Context # nil
          kept,         \* the conversation id in the database
          copy,         \* "unsaved": the last SaveContext failed; "unread": ReadContext
          convs,        \* the conversations at Mistral
          tools,        \* versions of the tools: the MCP server's, the agent's
          turns,        \* requests made
          restarts,
          talk,         \* what each request is doing
          crashed       \* a request wrote to a Context that is nil

mistralvars == <<place, holder, kept, copy, convs, tools, turns, restarts, talk, crashed>>

(* stream: RequestStreaming, else Request; overlap: ask leaves requests behind. *)
(* troubles: "network" calls fail, "lost" a reply is lost after Mistral acted,  *)
(*           "dies" the agent is made anew, "breaks" a conversation is stuck,   *)
(*           "patch", "save", "fetch", "read" that call fails, "clean"          *)
(*           CleanDialogData, "bare" the agent has no tools, "restart"          *)
Trouble == {"network", "lost", "dies", "breaks", "patch", "save", "fetch", "read",
            "clean", "bare", "new tools", "restart"}
Place == [stream : BOOLEAN, overlap : BOOLEAN, troubles : SUBSET Trouble]

ASSUME PlacesAssumption == Places \subseteq Place

Ids == 0 .. MaxConvs
Copy == {"current", "unsaved", "unread"}
Holder == [id : Ids, synced : BOOLEAN, context : BOOLEAN]
Conv == [state : {"ok", "gone", "broken"}, owed : 0 .. MaxParallel, by : 0 .. MaxTurns]
Failure == {"400", "404", "503", "500", "error", "network"}
Received == [kind : {"none", "text", "empty", "calls"} \cup Failure, calls : 0 .. MaxParallel, id : Ids]
Nothing == [kind |-> "none", calls |-> 0, id |-> 0]

(* faulty: the request met a trouble of its own, not one it inherited           *)
Talk == [pc : {"idle", "sync", "ask", "recover", "begun", "continued", "functions", "reported",
               "retold", "regain", "regained", "answered", "emptied", "failed"},
         turn : 0 .. MaxTurns, reply : Received, results : 0 .. MaxParallel,
         rounds : 0 .. MaxRounds, faulty : BOOLEAN]
Silent == [pc |-> "idle", turn |-> 0, reply |-> Nothing, results |-> 0, rounds |-> 0, faulty |-> FALSE]

MistralTypeOK ==
    /\ place \in Places /\ holder \in Holder /\ kept \in Ids /\ copy \in Copy
    /\ convs \in Seq(Conv) /\ Len(convs) <= MaxConvs
    /\ tools \in [server : {0, 1}, agent : {0, 1, 2}]
    /\ turns \in 0 .. MaxTurns /\ restarts \in 0 .. MaxRestarts
    /\ talk \in [Askers -> Talk] /\ crashed \in BOOLEAN

(* A dialog of an earlier run of the program has a conversation. *)
MistralInit ==
    /\ place \in Places
    /\ holder = [id |-> 1, synced |-> FALSE, context |-> TRUE] /\ kept = 1 /\ copy = "current"
    /\ convs = <<[state |-> "ok", owed |-> 0, by |-> 0]>>
    /\ tools = [server |-> 0, agent |-> 0] /\ turns = 0 /\ restarts = 0
    /\ talk = [a \in Askers |-> Silent] /\ crashed = FALSE

Troubled(t) == t \in place.troubles
Becomes(a, t) == talk' = [talk EXCEPT ![a] = t]
TalkAt(a, pc) == ~crashed /\ talk[a].pc = pc
Now(a, pc) == [talk[a] EXCEPT !.pc = pc]
Suffers(a, pc) == [talk[a] EXCEPT !.pc = pc, !.faulty = TRUE]
TalkFails(a, failure) == IF failure = "400" THEN Now(a, "failed") ELSE Suffers(a, "failed")
Talking(a) == talk[a].pc \notin {"idle", "answered", "emptied", "failed"}

(* What a request does that appends to the messages of Context. *)
Appends(a, t) ==
    IF holder.context THEN Becomes(a, t) /\ UNCHANGED crashed
    ELSE crashed' = TRUE /\ UNCHANGED talk

--------------------------------------------------------------------------------
(* The id of the conversation                                                   *)

(* saveConversationId: an error is left. *)
saveConversationId(id) ==
    \/ kept' = id /\ copy' = "current"
    \/ Troubled("save") /\ copy' = "unsaved" /\ UNCHANGED kept
Holds(id) == holder' = [holder EXCEPT !.id = id]

(* mutant: the new id is not saved *)
HoldsOnly(id) == Holds(id) /\ UNCHANGED <<kept, copy>>

Adopts(id) == Holds(id) /\ saveConversationId(id)
KeepsId == UNCHANGED <<holder, kept, copy>>

(* The id is taken over when the reply names another one. *)
AdoptsNew(id) == IF id \in {0, holder.id} THEN KeepsId ELSE Adopts(id)

(* GetOrSetRespGPT after a restart, or for a session after the responder's end: *)
(* the id comes from the database, the tools are to be synchronised again. An   *)
(* error of ReadContext is no error: the responder holds no conversation.       *)
ReadsContext ==
    /\ Troubled("restart") /\ restarts < MaxRestarts /\ restarts' = restarts + 1
    /\ \E id \in {0, kept} :
          /\ holder' = [id |-> id, synced |-> FALSE, context |-> TRUE]
          /\ \/ id = kept /\ copy' = "current"
             \/ id # kept /\ Troubled("read") /\ copy' = "unread"
    /\ crashed' = FALSE /\ talk' = [a \in Askers |-> Silent]
    /\ UNCHANGED <<place, kept, convs, tools, turns>>

(* SaveAllContextDuringExit. *)
SavesContext ==
    /\ ~crashed /\ copy = "unsaved" /\ holder.id # 0 /\ saveConversationId(holder.id)
    /\ UNCHANGED <<place, holder, convs, tools, turns, restarts, talk, crashed>>

(* CleanDialogData takes the Context away and nothing gives it back. *)
CleansContext ==
    /\ ~crashed /\ Troubled("clean") /\ holder' = [holder EXCEPT !.context = FALSE]
    /\ UNCHANGED <<place, kept, copy, convs, tools, turns, restarts, talk, crashed>>

--------------------------------------------------------------------------------
(* Mistral                                                                      *)

ConvGone ==
    /\ \E i \in {holder.id, kept} \ {0} : convs[i].state = "ok" /\
          \/ Troubled("dies") /\ convs' = [convs EXCEPT ![i].state = "gone"]
          \/ Troubled("breaks") /\ convs' = [convs EXCEPT ![i].state = "broken"]
    /\ UNCHANGED <<place, holder, kept, copy, tools, turns, restarts, talk, crashed>>

ToolsChange ==
    /\ Troubled("new tools") /\ tools' = [tools EXCEPT !.server = 1]
    /\ UNCHANGED <<place, holder, kept, copy, convs, turns, restarts, talk, crashed>>

(* What comes back: the reply, or nothing of it; errors before Mistral acts.    *)
Speech == [kind : {"text", "empty"}, calls : {0}] \cup [kind : {"calls"}, calls : 1 .. MaxParallel]
Outages == IF Troubled("network") THEN {"500", "error", "network"} ELSE {}
Receive(a, pc, kind, n, id) == Becomes(a, [Now(a, pc) EXCEPT !.reply = [kind |-> kind, calls |-> n, id |-> id]])
ReplyComes(a, pc, s, id) ==
    \/ Receive(a, pc, s.kind, s.calls, id)
    \/ Troubled("lost") /\ Receive(a, pc, "network", 0, 0)
ReplyRefuses(a, pc, failures) == UNCHANGED convs /\ \E f \in failures : Receive(a, pc, f, 0, 0)

(* A conversation begins, for the question or for the result of a function. *)
StartConversation(a, pc) ==
    \/ /\ Len(convs) < MaxConvs
       /\ \E s \in Speech : /\ convs' = Append(convs, [state |-> "ok", owed |-> s.calls, by |-> talk[a].turn])
                            /\ ReplyComes(a, pc, s, Len(convs) + 1)
    \/ ReplyRefuses(a, pc, Outages \cup (IF Len(convs) = MaxConvs THEN {"network"} ELSE {}))
StartConversationStreaming(a, pc) == StartConversation(a, pc)
Starts(a, pc) == IF place.stream THEN StartConversationStreaming(a, pc) ELSE StartConversation(a, pc)

GoesOn(a, pc, i) ==
    \/ \E s \in Speech : /\ convs' = [convs EXCEPT ![i].owed = s.calls, ![i].by = talk[a].turn]
                         /\ ReplyComes(a, pc, s, i)
    \/ ReplyRefuses(a, pc, Outages)
Standing(i) == CASE convs[i].state = "gone" -> {"404"} [] convs[i].state = "broken" -> {"503"} [] OTHER -> {}

(* A conversation that waits for results of functions takes nothing else. *)
Continues(a, i) ==
    IF Standing(i) # {} THEN ReplyRefuses(a, "continued", Standing(i))
    ELSE IF convs[i].owed > 0 THEN ReplyRefuses(a, "continued", {"400"}) ELSE GoesOn(a, "continued", i)
ContinueConversationStreaming(a) == Continues(a, holder.id)
ContinueConversation(a) == Continues(a, holder.id)

(* It wants a result for each call, and none of another call. *)
Results(a, i, n) ==
    IF Standing(i) # {} THEN ReplyRefuses(a, "reported", Standing(i))
    ELSE IF convs[i].owed # n \/ convs[i].by # talk[a].turn THEN ReplyRefuses(a, "reported", {"400"})
    ELSE GoesOn(a, "reported", i)
SendMultipleFunctionResultsStreaming(a) == Results(a, holder.id, talk[a].results)
SendFunctionResult(a) == Results(a, holder.id, 1)

--------------------------------------------------------------------------------
(* The request                                                                  *)

AsksMistral(a) ==
    /\ ~crashed /\ ~Talking(a) /\ turns < MaxTurns /\ turns' = turns + 1
    /\ place.overlap \/ \A b \in Askers : ~Talking(b)
    /\ a = CHOOSE b \in Askers : ~Talking(b)
    /\ LET asks(pc) == [Silent EXCEPT !.turn = turns + 1, !.pc = pc, !.faulty = pc = "failed"]
       IN Becomes(a, IF ~holder.context THEN asks("failed")
                     ELSE IF place.stream /\ ~holder.synced THEN asks("sync") ELSE asks("ask"))
    /\ UNCHANGED <<place, holder, kept, copy, convs, tools, restarts, crashed>>

(* FetchToolsList, and the tools built in: with version 2 the agent has only    *)
(* these. Without tools nothing is patched.                                     *)
FetchToolsList == {tools.server} \cup (IF Troubled("fetch") THEN {2} ELSE {})
PatchAgent(a) ==
    \E version \in FetchToolsList : tools' = [tools EXCEPT !.agent = version]

(* The old conversation was made with the old tools: it is given up. *)
syncAgentTools(a) ==
    /\ TalkAt(a, "sync")
    /\ \/ /\ ~Troubled("bare") /\ PatchAgent(a) /\ Becomes(a, Now(a, "ask"))
          /\ holder' = [holder EXCEPT !.synced = TRUE, !.id = 0]
          /\ IF holder.id # 0 THEN saveConversationId(0) ELSE UNCHANGED <<kept, copy>>
       \/ /\ Troubled("bare") \/ Troubled("fetch")
          /\ Becomes(a, Now(a, "ask"))
          /\ holder' = [holder EXCEPT !.synced = TRUE] /\ UNCHANGED <<kept, copy, tools>>
       \/ /\ ~Troubled("bare") /\ Troubled("patch")
          /\ Becomes(a, Suffers(a, "failed")) /\ KeepsId /\ UNCHANGED tools
    /\ UNCHANGED <<place, convs, turns, restarts, crashed>>

(* The question goes into Context, and to Mistral. *)
PutsQuestion(a) ==
    /\ TalkAt(a, "ask")
    /\ IF ~holder.context THEN crashed' = TRUE /\ UNCHANGED <<convs, talk>>
       ELSE /\ UNCHANGED crashed
            /\ \/ holder.id = 0 /\ Starts(a, "begun")
               \/ holder.id # 0 /\ place.stream /\ ContinueConversationStreaming(a)
               \/ holder.id # 0 /\ ~place.stream /\ ContinueConversation(a)
    /\ UNCHANGED <<place, holder, kept, copy, tools, turns, restarts>>

(* A conversation that cannot be continued is replaced, once. *)
StartsAnew(a) ==
    /\ TalkAt(a, "recover") /\ Starts(a, "begun")
    /\ UNCHANGED <<place, holder, kept, copy, tools, turns, restarts, crashed>>

(* What the answer comes to: its text with the files it names, or functions.    *)
Spoke(a) == talk[a].reply.kind \in {"text", "empty", "calls"}
processResponse(reply) == CASE reply.kind = "text" -> "answered" [] reply.kind = "calls" -> "functions"
                            [] OTHER -> "emptied"
TakesAnswer(a) ==
    CASE processResponse(talk[a].reply) = "answered"  -> Appends(a, Now(a, "answered"))
      [] processResponse(talk[a].reply) = "functions" ->
            Becomes(a, [Now(a, "functions") EXCEPT !.results = 0]) /\ UNCHANGED crashed
      [] OTHER -> Becomes(a, Suffers(a, "emptied")) /\ UNCHANGED crashed

TakesBegun(a) ==
    /\ TalkAt(a, "begun")
    /\ \/ Spoke(a) /\ Adopts(talk[a].reply.id) /\ TakesAnswer(a)
       \/ ~Spoke(a) /\ KeepsId /\ Becomes(a, Suffers(a, "failed")) /\ UNCHANGED crashed
    /\ UNCHANGED <<place, convs, tools, turns, restarts>>

(* mutant: a conversation that waits for results is not given up *)
NoticesOutages(failure) == place.stream /\ failure \in {"404", "503", "500"}

(* mutant: a conversation is given up for a broken connection *)
GivesUpOnAll(failure) == place.stream /\ failure \in {"400", "404", "503", "500", "network"}

(* The statuses after which a conversation is given up. *)
GivesUpStreaming(failure) == place.stream /\ failure \in {"400", "404", "503", "500"}
RequestGivesUp(failure) == ~place.stream /\ failure \in {"400", "404", "503", "500"}

(* Request does not save that there is none after 404 and 503. *)
Forgets(failure) == IF ~place.stream /\ failure \in {"404", "503"} THEN Holds(0) /\ UNCHANGED <<kept, copy>>
                    ELSE Adopts(0)

TakesContinued(a) ==
    /\ TalkAt(a, "continued")
    /\ LET failure == talk[a].reply.kind IN
       \/ Spoke(a) /\ AdoptsNew(talk[a].reply.id) /\ TakesAnswer(a)
       \/ /\ GivesUpStreaming(failure) \/ RequestGivesUp(failure)
          /\ Forgets(failure) /\ Becomes(a, Now(a, "recover")) /\ UNCHANGED crashed
       \/ /\ ~Spoke(a) /\ ~GivesUpStreaming(failure) /\ ~RequestGivesUp(failure)
          /\ KeepsId /\ Becomes(a, TalkFails(a, failure)) /\ UNCHANGED crashed
    /\ UNCHANGED <<place, convs, tools, turns, restarts>>

--------------------------------------------------------------------------------
(* Functions                                                                    *)

(* ParseConversationResponse, for Request, sees the last call only. *)
extractFunctionCalls(reply) == reply.calls
ParseConversationResponse(reply) == IF reply.calls > 0 THEN 1 ELSE 0
Wanted(a) == IF place.stream THEN extractFunctionCalls(talk[a].reply) ELSE ParseConversationResponse(talk[a].reply)

RunsFunction(a) ==
    /\ TalkAt(a, "functions") /\ talk[a].results < Wanted(a)
    /\ Appends(a, [talk[a] EXCEPT !.results = @ + 1])
    /\ UNCHANGED <<place, holder, kept, copy, convs, tools, turns, restarts>>

(* The results go to the conversation the responder has now. *)
ReportsResults(a) ==
    /\ TalkAt(a, "functions") /\ talk[a].results = Wanted(a)
    /\ \/ holder.id # 0 /\ place.stream /\ SendMultipleFunctionResultsStreaming(a)
       \/ holder.id # 0 /\ ~place.stream /\ SendFunctionResult(a)
       \/ holder.id = 0 /\ place.stream /\ Becomes(a, Now(a, "emptied")) /\ UNCHANGED convs
       \/ holder.id = 0 /\ ~place.stream /\ StartConversation(a, "retold")
    /\ UNCHANGED <<place, holder, kept, copy, tools, turns, restarts, crashed>>

(* mutant: any number of rounds *)
AnotherRound(a) == Becomes(a, [Now(a, "functions") EXCEPT !.results = 0])

(* After the last round there is no answer. *)
NextRound(a) ==
    IF talk[a].rounds + 1 < MaxRounds
    THEN Becomes(a, [Now(a, "functions") EXCEPT !.results = 0, !.rounds = @ + 1])
    ELSE Becomes(a, Suffers(a, "emptied"))

(* Results that are not taken: the conversation is given up, the answer stays   *)
(* empty; or, in Request, a new conversation is told the result.                *)
StreamingFailed(a, failure) ==
    /\ place.stream /\ UNCHANGED crashed
    /\ \/ failure \in {"400", "503", "error"} /\ Adopts(0)
          /\ Becomes(a, IF failure = "400" THEN Now(a, "emptied") ELSE Suffers(a, "emptied"))
       \/ failure \notin {"400", "503", "error"} /\ KeepsId /\ Becomes(a, Suffers(a, "failed"))
RequestFailed(a, failure) ==
    /\ ~place.stream /\ UNCHANGED crashed
    /\ \/ failure = "400" /\ Adopts(0) /\ Becomes(a, Now(a, "regain"))
       \/ failure = "503" /\ Adopts(0) /\ Becomes(a, Suffers(a, "failed"))
       \/ failure \notin {"400", "503"} /\ KeepsId /\ Becomes(a, Suffers(a, "failed"))
NotRetold(a) == KeepsId /\ Becomes(a, Suffers(a, "emptied")) /\ UNCHANGED crashed

TakesReported(a) ==
    /\ TalkAt(a, "reported") \/ TalkAt(a, "retold")
    /\ \/ /\ Spoke(a) /\ AdoptsNew(talk[a].reply.id)
          /\ IF talk[a].reply.kind = "calls" THEN NextRound(a) /\ UNCHANGED crashed ELSE TakesAnswer(a)
       \/ ~Spoke(a) /\ TalkAt(a, "retold") /\ NotRetold(a)
       \/ ~Spoke(a) /\ TalkAt(a, "reported")
          /\ (StreamingFailed(a, talk[a].reply.kind) \/ RequestFailed(a, talk[a].reply.kind))
    /\ UNCHANGED <<place, convs, tools, turns, restarts>>

(* Request is told of an error even when the new conversation took the result. *)
RegainsConversation(a) ==
    \/ /\ TalkAt(a, "regain") /\ StartConversation(a, "regained")
       /\ UNCHANGED <<place, holder, kept, copy, tools, turns, restarts, crashed>>
    \/ /\ TalkAt(a, "regained") /\ Becomes(a, IF Spoke(a) THEN Now(a, "failed") ELSE Suffers(a, "failed"))
       /\ IF Spoke(a) THEN Adopts(talk[a].reply.id) ELSE KeepsId
       /\ UNCHANGED <<place, convs, tools, turns, restarts, crashed>>

--------------------------------------------------------------------------------
TalkGoes(a) == \/ syncAgentTools(a) \/ PutsQuestion(a) \/ StartsAnew(a) \/ TakesBegun(a)
               \/ TakesContinued(a) \/ RunsFunction(a) \/ ReportsResults(a) \/ TakesReported(a)
               \/ RegainsConversation(a)

MistralNext ==
    \/ \E a \in Askers : AsksMistral(a) \/ TalkGoes(a)
    \/ ReadsContext \/ SavesContext \/ CleansContext \/ ConvGone \/ ToolsChange

(* A request goes on by itself; every call of the API comes back. *)
MistralFairness == \A a \in Askers : WF_mistralvars(TalkGoes(a))

MistralSpec == MistralInit /\ [][MistralNext]_mistralvars
MistralFairSpec == MistralSpec /\ MistralFairness

--------------------------------------------------------------------------------
(* What a restart finds: the id in the database is the responder's, unless it   *)
(* could not be saved, or the responder has none: for it could not read it, or  *)
(* nobody can continue that conversation.                                       *)
SavedIsCurrent ==
    \/ copy = "unsaved" \/ kept = holder.id
    \/ holder.id = 0 /\ kept # 0 /\ (copy = "unread" \/ convs[kept].state # "ok")

(* A dialog's conversation is given up only for the new tools, for an outage,   *)
(* or when it is gone, stuck or waits for results nobody has: what was said is  *)
(* in it. A restart loses it only if its id could not be saved or read. Results *)
(* of a request that was left behind, sent to the conversation of the next one, *)
(* do make the dialog lose it.                                                  *)
Useless(i) == convs[i].state # "ok" \/ convs[i].owed > 0
Outage(a) == talk[a].reply.kind \in {"500", "503", "error"}
GivenUpForReason(i) == Useless(i) \/ \E a \in Askers : talk[a].pc = "sync" \/ Outage(a)
AbandonedForReason ==
    [][~place.overlap /\ holder.id # 0 /\ holder'.id # holder.id =>
          \/ GivenUpForReason(holder.id)
          \/ restarts' # restarts /\ (copy = "unsaved" \/ copy' = "unread")]_mistralvars

(* The saved id is what is left of a dialog after a restart: it is written over *)
(* for the same reasons, or by a responder that could not save or read it.      *)
KeptUnless(excuses) ==
    ~place.overlap /\ kept # 0 /\ kept' # kept => GivenUpForReason(kept) \/ copy \in excuses
SavedLasts == [][KeptUnless({"unsaved", "unread"})]_mistralvars

(* A conversation that was left waiting for results, that is gone or stuck, is  *)
(* no burden for later questions: a request that was not abandoned and did not  *)
(* follow one fails, or answers with nothing, only for what happened to it.     *)
(* (Request fails, too, when the model calls two functions at once.)            *)
OutcomeHasReason ==
    place.stream /\ ~place.overlap =>
        \A a \in Askers : talk[a].pc \in {"failed", "emptied"} => talk[a].faulty

(* A conversation lasts: over restarts, over failures, and over other requests,  *)
(* but for the calls of the database that fail.                                 *)
ConversationLasts == []SavedIsCurrent /\ AbandonedForReason /\ SavedLasts /\ []OutcomeHasReason

(* "Mistral keeps the whole history, by its conversation_id", says the comment  *)
(* of GetOrSetRespGPT, which loads the id "if there is one": a sound one is not *)
(* written over for having been unreadable once. It is, which is why SavedLasts *)
(* excepts a failed read.                                                       *)
UnreadIsKept == [][KeptUnless({"unsaved"})]_mistralvars

(* How many steps a request has before it at most: every round may take as many *)
(* calls again.                                                                 *)
TalkStage(t) ==
    CASE t.pc = "sync" -> MaxParallel + 10 [] t.pc = "ask" -> MaxParallel + 9
      [] t.pc = "continued" -> MaxParallel + 8 [] t.pc = "recover" -> MaxParallel + 7
      [] t.pc = "begun" -> MaxParallel + 6 [] t.pc = "functions" -> MaxParallel - t.results + 5
      [] t.pc \in {"reported", "retold"} -> 4 [] t.pc = "regain" -> 3 [] OTHER -> 2
TalkLeft(t) ==
    IF t.pc \in {"idle", "answered", "emptied", "failed"} THEN 0
    ELSE (MaxRounds - t.rounds) * (MaxParallel + 2) + TalkStage(t)

(* A conversation is replaced once, and rounds and results are counted: whatever *)
(* Mistral answers, each step of a request brings it nearer to its end.         *)
TalkAdvances ==
    [][\A a \in Askers : Talking(a) /\ talk'[a] # talk[a] =>
          TalkLeft(talk'[a]) \in 0 .. TalkLeft(talk[a]) - 1]_mistralvars

(* "If the tools changed" the conversation is reset, says the comment of        *)
(* syncAgentTools; it always is.                                                *)
ToolsChangeResets ==
    [][holder.id # 0 /\ holder'.id = 0 /\ (\E a \in Askers : talk[a].pc = "sync" /\ talk'[a].pc = "ask")
          => tools'.agent # tools.agent]_mistralvars
================================================================================
