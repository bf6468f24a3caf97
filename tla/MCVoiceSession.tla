---------------------------- MODULE MCVoiceSession ----------------------------
(* Voice sessions in one run: the life of the sessions of one respId with    *)
(* each of the four providers, and the responses of one OpenAI session. A    *)
(* behaviour is one of one part, the other rests.                            *)
EXTENDS RealtimeSession, OpenAIResponse

VARIABLE part

voicevars == <<part, vars, responsevars>>

\* One client that calls in turn.  With OpenAI DisconnectUser may fall into a
\* StartSession as well.
Uses == {s \in Setup : ~s.concurrent /\ (s.racing => s.provider = "openai")}

\* Two responses, the first calls a function, with no OnDisconnect; one with
\* everything.
TwoResponses == [responses |-> 2, calls |-> 1, closes |-> FALSE, fails |-> FALSE,
                 callback |-> FALSE]
OneResponse == [responses |-> 1, calls |-> 1, closes |-> TRUE, fails |-> TRUE,
                callback |-> TRUE]
OneOrTwo == {TwoResponses, OneResponse}

SessionsRest == Init /\ setup = CHOOSE s \in Setups : TRUE
ResponsesRest == ResponseInit /\ talk = CHOOSE t \in Talks : TRUE

VoiceInit == \/ part = "session" /\ Init /\ ResponsesRest
             \/ part = "response" /\ SessionsRest /\ ResponseInit
VoiceNext == \/ part = "session" /\ Next /\ UNCHANGED <<part, responsevars>>
             \/ part = "response" /\ ResponseNext /\ UNCHANGED <<part, vars>>
\* The fairness of both, each for its own part.
Calling == part = "session" /\ Up
Answering == part = "response"
VoiceFairness ==
  /\ \A k \in Starts : /\ WF_vars(Calling /\ starting[k].pc # "idle" /\ Calls(k))
                       /\ WF_vars(Calling /\ Bridges(k))
  /\ \A c \in Closes : WF_vars(Calling /\ closing[c].pc # "idle" /\ Closing(c))
  /\ \A c \in Caller : WF_vars(Calling /\ Shuts(c))
  /\ WF_vars(Calling /\ DisconnectReturns)
  /\ \A s \in Sessions : /\ WF_vars(Calling /\ session[s].ctx = "done" /\ Pumps(s))
                         /\ WF_vars(Calling /\ PumpCancels(s))
  /\ \A h \in Chans : WF_vars(Calling /\ GuardSends(h))
  /\ WF_responsevars(Answering /\ Pump) /\ WF_responsevars(Answering /\ ConnGuard)
  /\ WF_responsevars(Answering /\ ctx = "done" /\ ActionReturns)
  /\ \A i \in Timers : WF_responsevars(Answering /\ Callback(i))
  /\ WF_responsevars(Answering /\ HangupCancels)
VoiceSpec == VoiceInit /\ [][VoiceNext]_voicevars /\ VoiceFairness

\* The responses alone.
ResponsesAlone == VoiceInit /\ part = "response" /\ [][VoiceNext]_voicevars

\* The variables of the part under way have their types.
VoiceTypeOK == IF part = "session" THEN TypeOK ELSE ResponseTypeOK

\* What is to end ends: the calls of a session that was closed, a response that
\* OpenAI leaves open.
VoiceEnds == CloseEnds /\ SilentEnds
=============================================================================
