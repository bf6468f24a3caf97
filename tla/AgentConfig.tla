------------------------------ MODULE AgentConfig ------------------------------
(* What loadAgentConfig of a provider makes of the database and of the MCP      *)
(* server: the prompt and the tools that every request of a responder carries.  *)
(* The answers that the calls give are an environment record; a failed call is  *)
(* an answer like any other.                                                    *)
EXTENDS Naturals

(* key:   GetUserAPIKey gives a key, none, or fails                             *)
(* model: GetAllUserModels fails, has no model of the provider, has one with a  *)
(*        name, or one without a name (and the default is known or not)         *)
(* data:  ReadUserModelByProvider fails, gives nothing, garbage, or the model   *)
(* interpreter, web: what the model asks for                                    *)
(* hint, functions: FetchSystemPrompt and FetchToolsList answer                 *)
Env == [key : {"given", "none", "fails"},
        model : {"fails", "none", "named", "default", "nodefault"},
        data : {"fails", "nil", "garbage", "read"},
        interpreter : BOOLEAN, web : BOOLEAN, hint : BOOLEAN, functions : BOOLEAN]

NoConfig == [prompt |-> "absent", tools |-> {}]

Tool == {"interpreter", "web", "function"}
Config == [prompt : {"absent", "none", "plain", "hint"}, tools : SUBSET Tool]

If(condition, tools) == IF condition THEN tools ELSE {}

(* Both providers give up on the same answers.                                  *)
OpenAIFinds(e) == e.key = "given" /\ e.model \in {"named", "default"}
GoogleFinds(e) == e.key = "given" /\ e.model \in {"named", "default"}

(* mutant: functions whether or not the prompt came from MCP *)
BuildWithStrayFunctions(e) ==
    [prompt |-> IF e.hint THEN "hint" ELSE "plain",
     tools |-> If(e.interpreter, {"interpreter"}) \cup If(e.web, {"web"})
                 \cup If(e.functions, {"function"})]

(* OpenAI: functions only if the system prompt came from MCP; the tools of      *)
(* OpenAI itself do not depend on it.                                           *)
BuildAgentConfiguration(e) ==
    [prompt |-> IF e.hint THEN "hint" ELSE "plain",
     tools |-> If(e.interpreter, {"interpreter"}) \cup If(e.web, {"web"})
                 \cup If(e.hint /\ e.functions, {"function"})]

OpenAIConfig(e) ==
    CASE ~OpenAIFinds(e)                      -> NoConfig
      [] OpenAIFinds(e) /\ e.data # "read"    -> [prompt |-> "none", tools |-> {}]
      [] OTHER                                -> BuildAgentConfiguration(e)

(* Google: the interpreter gives way to functions, which do not depend on the   *)
(* prompt; a model that cannot be read has no flags, but still has functions.   *)
GoogleConfig(e) ==
    LET read == e.data = "read" IN
    IF ~GoogleFinds(e) THEN NoConfig
    ELSE [prompt |-> CASE ~read        -> "none"
                       [] read /\ e.hint -> "hint"
                       [] OTHER        -> "plain",
          tools |-> If(read /\ e.web, {"web"}) \cup If(e.functions, {"function"})
                      \cup If(read /\ e.interpreter /\ ~e.functions, {"interpreter"})]

(* What a request may carry: OpenAI's prompt explains the functions it lists,   *)
(* and Gemini takes no functions beside the interpreter.                        *)
Fits(provider, c) ==
    CASE provider = "openai" -> "function" \in c.tools => c.prompt = "hint"
      [] provider = "google" -> ~({"function", "interpreter"} \subseteq c.tools)
      [] OTHER               -> TRUE
================================================================================
