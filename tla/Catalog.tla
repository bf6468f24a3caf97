-------------------------------- MODULE Catalog --------------------------------
(* The catalogs of one provider: its language models and its voices, kept in    *)
(* the database and refreshed from the provider. A refresh is claimed from the  *)
(* throttle of the router, except by UpdateModelsListByProvider, which only     *)
(* asks whether the language models are fresh and marks them afterwards. The    *)
(* provider changes what it offers between two requests.                        *)
EXTENDS Integers, Sequences

CONSTANTS Refreshers,   \* goroutines that refresh
          MaxOffers,    \* versions of what the provider offers
          Markets       \* what a behaviour is made of, see Market

ASSUME OffersAssumption == MaxOffers \in Nat \ {0}

VARIABLES market,       \* the record chosen in CatalogInit
          offered,      \* the version the provider offers now
          models,       \* version of the language models in the database, 0: none
          voices,       \* version of each list of voice models there
          fresh,        \* keys refreshed less than catalogTTL ago
          claimed,      \* busy: keys somebody refreshes
          refresher,    \* what each goroutine is at
          since,        \* version offered when the refresh that marked a key began
          visits,       \* calls still to come
          crossed       \* somebody without a claim refreshed models beside another,
                        \* or while they were fresh, because the database failed

throttle == <<fresh, claimed, since>>
lists == <<models, voices>>
catalogvars == <<market, offered, lists, throttle, refresher, visits, crossed>>

Key == {"llm", "voice"}
VoiceKind == {"stt", "tts", "sts"}
Version == 0 .. MaxOffers
Market == [provider : {"mistral", "elevenlabs", "google"}, calls : SUBSET {"create", "list"},
           visits : Nat, expires : BOOLEAN, faults : BOOLEAN]
ASSUME MarketsAssumption == Markets \subseteq Market
Stage == {"idle", "claim", "key", "ask", "fetch", "sync", "mark", "voice", "voicekey", "voices", "free", "release"}

Resting == [stage |-> "idle", claims |-> FALSE, began |-> [k \in Key |-> 0],
            names |-> 0, kinds |-> [l \in VoiceKind |-> 0], script |-> <<>>, failed |-> FALSE]

CatalogTypeOK ==
    /\ market \in Markets /\ offered \in 1 .. MaxOffers
    /\ models \in Version /\ voices \in [VoiceKind -> Version] /\ fresh \subseteq Key /\ claimed \subseteq Key
    /\ since \in [Key -> Version] /\ visits \in 0 .. market.visits /\ crossed \in BOOLEAN
    /\ \A r \in Refreshers :
          /\ refresher[r].stage \in Stage /\ refresher[r].names \in Version
          /\ refresher[r].kinds \in [VoiceKind -> Version]
          /\ refresher[r].began \in [Key -> Version] /\ Len(refresher[r].script) <= 4

CatalogInit ==
    /\ market \in Markets
    /\ offered = 1 /\ models = 0 /\ voices = [l \in VoiceKind |-> 0]
    /\ fresh = {} /\ claimed = {} /\ since = [k \in Key |-> 0]
    /\ refresher = [r \in Refreshers |-> Resting]
    /\ visits = market.visits /\ crossed = FALSE

--------------------------------------------------------------------------------
Stands(r, stage) == refresher[r].stage = stage
Moves(r, stage) == refresher' = [refresher EXCEPT ![r].stage = stage]
Rests(r) == refresher' = [refresher EXCEPT ![r] = Resting]

(* mutant: busy is not tested *)
ClaimableTwice(k) == k \notin fresh

(* claim, release and mark of the throttle                                      *)
Claimable(k) == k \notin fresh \cup claimed
Claims(k) == claimed' = claimed \cup {k} /\ UNCHANGED <<fresh, since>>
Freshens(r, k) == fresh' = fresh \cup {k} /\ since' = [since EXCEPT ![k] = refresher[r].began[k]]
(* mutant: a refresh that failed counts as fresh *)
MarksAnyway(r, k, success) == claimed' = claimed \ {k} /\ Freshens(r, k)
Releases(r, k, success) ==
    /\ claimed' = claimed \ {k}
    /\ IF success THEN Freshens(r, k) ELSE UNCHANGED <<fresh, since>>

(* r is between asking for the list of a key and having it in the database.     *)
Refreshing(r, k) ==
    refresher[r].stage \in IF k = "voice" THEN {"voicekey", "voices", "free"} ELSE {"key", "fetch", "sync", "mark"}
Others(r, k) == \E q \in Refreshers \ {r} : Refreshing(q, k)

(* CreateModel and UpdateModelsListByProvider                                   *)
Visits(r) ==
    /\ Stands(r, "idle") /\ visits > 0 /\ visits' = visits - 1
    /\ \E call \in market.calls :
          Moves(r, IF market.provider = "elevenlabs" THEN "voice" ELSE IF call = "create" THEN "claim" ELSE "ask")
    /\ UNCHANGED <<market, offered, lists, throttle, crossed>>

ClaimsModels(r) ==
    /\ Stands(r, "claim")
    /\ IF Claimable("llm")
       THEN /\ Claims("llm") /\ crossed' = (crossed \/ Others(r, "llm"))
            /\ refresher' = [refresher EXCEPT ![r].stage = "key", ![r].claims = TRUE, ![r].began["llm"] = offered]
       ELSE Rests(r) /\ UNCHANGED <<throttle, crossed>>
    /\ UNCHANGED <<market, offered, lists, visits>>

FindsKey(r) ==
    /\ Stands(r, "key") /\ Moves(r, "fetch")
    /\ UNCHANGED <<market, offered, lists, throttle, visits, crossed>>

(* Models that are fresh are read from the database, if it has any and answers. *)
AsksFresh(r) ==
    /\ Stands(r, "ask")
    /\ \/ "llm" \in fresh /\ models # 0 /\ Moves(r, "voice") /\ UNCHANGED crossed
       \/ /\ "llm" \notin fresh \/ models = 0 \/ market.faults
          /\ refresher' = [refresher EXCEPT ![r].stage = "fetch", ![r].began["llm"] = offered]
          /\ crossed' = (crossed \/ Others(r, "llm") \/ "llm" \in claimed \cup fresh)
    /\ UNCHANGED <<market, offered, lists, throttle, visits>>

FetchModelNames(r) ==
    /\ Stands(r, "fetch")
    /\ refresher' = [refresher EXCEPT ![r].stage = "sync", ![r].names = offered]
    /\ UNCHANGED <<market, offered, lists, throttle, visits, crossed>>

SyncsModels(r) ==
    /\ Stands(r, "sync")
    /\ models' = refresher[r].names
    /\ Moves(r, IF refresher[r].claims THEN "voice" ELSE "mark")
    /\ UNCHANGED <<market, offered, voices, throttle, visits, crossed>>

MarksModels(r) ==
    /\ Stands(r, "mark") /\ Moves(r, "voice")
    /\ Freshens(r, "llm")
    /\ UNCHANGED <<market, offered, lists, claimed, visits, crossed>>

(* mutant: an early return keeps the claim *)
KeepsClaim(r) == UNCHANGED throttle

(* No key, no list or no commit: the deferred release gives the claim back.     *)
GivesBack(r) == IF refresher[r].claims THEN Releases(r, "llm", FALSE) ELSE UNCHANGED throttle
ModelsFail(r) ==
    /\ market.faults /\ refresher[r].stage \in {"key", "fetch", "sync"}
    /\ GivesBack(r) /\ Rests(r)
    /\ UNCHANGED <<market, offered, lists, visits, crossed>>

--------------------------------------------------------------------------------
(* ensureVoiceCatalogFresh and syncVoiceModels: the lists of Mistral are both   *)
(* fetched before one is written, those of ElevenLabs come one after another.   *)
Script ==
    CASE market.provider = "mistral" ->
            <<<<"fetch", "stt">>, <<"fetch", "tts">>, <<"sync", "stt">>, <<"sync", "tts">>>>
      [] market.provider = "elevenlabs" ->
            <<<<"fetch", "tts">>, <<"sync", "tts">>, <<"fetch", "sts">>, <<"sync", "sts">>>>
      [] OTHER -> <<>>
Versions(k) == IF k = "llm" THEN {models} ELSE {voices[Script[i][2]] : i \in DOMAIN Script}

AfterVoice(r) == IF refresher[r].claims THEN Moves(r, "release") ELSE Rests(r)

ClaimsVoice(r) ==
    /\ Stands(r, "voice")
    /\ IF Claimable("voice")
       THEN /\ Claims("voice")
            /\ refresher' = [refresher EXCEPT ![r].stage = "voicekey", ![r].began["voice"] = offered]
       ELSE AfterVoice(r) /\ UNCHANGED throttle
    /\ UNCHANGED <<market, offered, lists, visits, crossed>>

FindsVoiceKey(r) ==
    /\ Stands(r, "voicekey")
    /\ \/ /\ UNCHANGED throttle
          /\ refresher' = [refresher EXCEPT ![r].script = Script,
                             ![r].stage = IF Script = <<>> THEN "free" ELSE "voices"]
       \/ market.faults /\ Releases(r, "voice", FALSE) /\ AfterVoice(r)
    /\ UNCHANGED <<market, offered, lists, visits, crossed>>

(* An error ends the refresh of Mistral; that of ElevenLabs goes on with the    *)
(* next list and remembers it.                                                  *)
LeftTriesAgain(r) == refresher[r].script    (* mutant: a step that failed is repeated *)
LeftAfter(r) ==
    LET script == refresher[r].script IN
    IF market.provider = "mistral" THEN <<>>
    ELSE IF Head(script)[1] = "fetch" THEN Tail(Tail(script)) ELSE Tail(script)
Follows(r, script, kinds, failed) ==
    refresher' = [refresher EXCEPT ![r].script = script, ![r].kinds = kinds, ![r].failed = failed,
                                   ![r].stage = IF script = <<>> THEN "free" ELSE "voices"]

syncVoiceModels(r) ==
    LET me == refresher[r]
        step == Head(me.script) IN
    /\ Stands(r, "voices")
    /\ \/ /\ step[1] = "fetch" /\ UNCHANGED voices
          /\ Follows(r, Tail(me.script), [me.kinds EXCEPT ![step[2]] = offered], me.failed)
       \/ /\ step[1] = "sync" /\ voices' = [voices EXCEPT ![step[2]] = me.kinds[step[2]]]
          /\ Follows(r, Tail(me.script), me.kinds, me.failed)
       \/ market.faults /\ UNCHANGED voices /\ Follows(r, LeftAfter(r), me.kinds, TRUE)
    /\ UNCHANGED <<market, offered, models, throttle, visits, crossed>>

ReleasesVoice(r) ==
    /\ Stands(r, "free")
    /\ Releases(r, "voice", ~refresher[r].failed)
    /\ AfterVoice(r)
    /\ UNCHANGED <<market, offered, lists, visits, crossed>>

ReleasesModels(r) ==
    /\ Stands(r, "release")
    /\ Releases(r, "llm", TRUE)
    /\ Rests(r)
    /\ UNCHANGED <<market, offered, lists, visits, crossed>>

--------------------------------------------------------------------------------
OffersChange ==
    /\ offered < MaxOffers /\ offered' = offered + 1
    /\ UNCHANGED <<market, lists, throttle, refresher, visits, crossed>>

(* A key that is fresh while somebody refreshes it was marked during that       *)
(* refresh, which takes seconds: it is no day old.                              *)
Expires(k) ==
    /\ market.expires /\ k \in fresh /\ ~\E r \in Refreshers : Refreshing(r, k)
    /\ fresh' = fresh \ {k}
    /\ UNCHANGED <<market, offered, lists, claimed, since, refresher, visits, crossed>>

Refreshes(r) ==
    \/ ClaimsModels(r) \/ FindsKey(r) \/ AsksFresh(r) \/ FetchModelNames(r) \/ SyncsModels(r)
    \/ MarksModels(r) \/ ModelsFail(r) \/ ClaimsVoice(r) \/ FindsVoiceKey(r) \/ syncVoiceModels(r)
    \/ ReleasesVoice(r) \/ ReleasesModels(r)

CatalogNext ==
    \/ \E r \in Refreshers : Visits(r) \/ Refreshes(r)
    \/ OffersChange \/ \E k \in Key : Expires(k)

CatalogFairness == \A r \in Refreshers : WF_catalogvars(Refreshes(r))
CatalogSpec == CatalogInit /\ [][CatalogNext]_catalogvars
CatalogFairSpec == CatalogSpec /\ CatalogFairness

--------------------------------------------------------------------------------
(* A list that is served as fresh is complete and not older than the refresh    *)
(* that marked it, whatever fails: for voices always, for models unless one     *)
(* that lists them refreshed them without a claim where it needed one.          *)
FreshIsCurrent ==
    \A k \in fresh : k = "voice" \/ ~crossed => \A v \in Versions(k) : v >= since[k] /\ v # 0

(* The same exception aside, a list is refreshed by one at a time and is not    *)
(* asked of the provider while it is fresh.                                     *)
OneRefresh ==
    \A k \in Key, r \in Refreshers :
        Refreshing(r, k) /\ (k = "voice" \/ ~crossed) => k \notin fresh /\ ~Others(r, k)

(* Who has a claim to give back: a holder of the models keeps them through the  *)
(* refresh of the voices.                                                       *)
VoiceStages == {"voicekey", "voices", "free"}
HoldsKey(r, k) ==
    IF k = "voice" THEN refresher[r].stage \in VoiceStages
    ELSE /\ refresher[r].claims
         /\ refresher[r].stage \in {"key", "fetch", "sync", "voice", "release"} \cup VoiceStages

(* The throttle stores that a key is busy and not who refreshes it: whatever    *)
(* failed, a key is busy only as long as some goroutine is to release it.       *)
ClaimsAreHeld == \A k \in claimed : \E r \in Refreshers : HoldsKey(r, k)

(* How many steps a refresh has before it at most.                              *)
StepsFrom(stage, script) ==
    CASE stage = "claim" -> 13 [] stage \in {"key", "ask"} -> 12 [] stage = "fetch" -> 11
      [] stage = "sync" -> 10 [] stage = "mark" -> 9 [] stage = "voice" -> 8 [] stage = "voicekey" -> 7
      [] stage = "voices" -> 2 + Len(script) [] stage = "free" -> 2 [] stage = "release" -> 1 [] OTHER -> 0
StepsLeft(r) == StepsFrom(refresher[r].stage, refresher[r].script)

(* No failure sends a refresh back: each of its steps brings it nearer to its   *)
(* end, where it holds nothing.                                                 *)
RefreshAdvances ==
    [][\A r \in Refreshers :
          ~Stands(r, "idle") /\ refresher'[r] # refresher[r] => StepsLeft(r)' < StepsLeft(r)]_catalogvars

(* The throttle lets one refresh at a time, and the next one after it: whoever  *)
(* holds a key is alone, is there, and comes nearer to giving it back.          *)
ThrottleHolds == []OneRefresh /\ []ClaimsAreHeld /\ RefreshAdvances

(* Whatever fails, a claim is given back, so that the next call can refresh.    *)
ClaimsReturn == \A k \in Key : k \in claimed ~> k \notin claimed
================================================================================
