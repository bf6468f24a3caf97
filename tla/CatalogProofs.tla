---------------------------- MODULE CatalogProofs ----------------------------
(***************************************************************************)
(* What TLAPS proves of Catalog, for any goroutines, offers and markets:   *)
(* the throttle lets one of them refresh a list at a time, nobody asks the *)
(* provider for a list that is fresh, and a list that is fresh is not      *)
(* older than the refresh that marked it - the exception of the callers    *)
(* without a claim aside. A busy claim has its holder, who comes nearer to *)
(* giving it back with every step. At the end, together with               *)
(* ModelStoreProofs, the composed specification of MCManagement.           *)
(***************************************************************************)
EXTENDS MCManagement, ModelStoreProofs

(***************************************************************************)
(* What the records of the goroutines are.                                 *)
(***************************************************************************)
Shaped ==
  /\ DOMAIN refresher = Refreshers /\ crossed \in BOOLEAN
  /\ \A r \in Refreshers :
        /\ {"stage", "claims", "began", "names", "script", "failed"} \subseteq DOMAIN refresher[r]
        /\ refresher[r].claims \in BOOLEAN
        /\ refresher[r].stage \in {"idle", "claim", "ask", "mark"} => ~refresher[r].claims
        /\ refresher[r].stage \in {"key", "release"} => refresher[r].claims

(***************************************************************************)
(* Models that are fresh are in the database: a lister that finds them     *)
(* fresh does not ask the provider.                                        *)
(***************************************************************************)
LlmListed ==
  /\ offered \in Nat \ {0} /\ models \in Nat
  /\ "llm" \in fresh => models # 0
  /\ \A r \in Refreshers :
        /\ refresher[r].stage = "sync" => refresher[r].names \in Nat \ {0}
        /\ refresher[r].stage \in {"mark", "release"} => models # 0
        /\ refresher[r].claims /\ refresher[r].stage \in {"voice"} \cup VoiceStages => models # 0

(***************************************************************************)
(* Every claim has one holder, a holder of the voices finds them not       *)
(* fresh, and without a crossing whoever refreshes the models is alone     *)
(* with them.                                                              *)
(***************************************************************************)
Claimed == \A k \in Key, r \in Refreshers : HoldsKey(r, k) => k \in claimed
OneHolder == \A k \in Key, q, r \in Refreshers : HoldsKey(q, k) /\ HoldsKey(r, k) => q = r
VoiceStale == \A r \in Refreshers : HoldsKey(r, "voice") => "voice" \notin fresh
ModelsApart ==
  \A q, r \in Refreshers :
     Refreshing(r, "llm") => "llm" \notin fresh /\ (Refreshing(q, "llm") \/ HoldsKey(q, "llm") => q = r)
HoldersStale == \A r \in Refreshers : HoldsKey(r, "llm") => "llm" \notin fresh

CatalogInv ==
  Shaped /\ LlmListed /\ Claimed /\ OneHolder /\ VoiceStale /\ (~crossed => ModelsApart /\ HoldersStale)

(***************************************************************************)
(* A step of r that changes only its own record.                           *)
(***************************************************************************)
OnlyOf(r) ==
  /\ DOMAIN refresher' = Refreshers
  /\ \A q \in Refreshers \ {r} : refresher'[q] = refresher[q]

LEMMA CatalogInvInit == CatalogInit => CatalogInv
<1> SUFFICES ASSUME CatalogInit PROVE CatalogInv
  OBVIOUS
<1>1. Shaped
  BY DEF CatalogInit, Shaped, Resting
<1>3. LlmListed
  BY DEF CatalogInit, LlmListed, Resting, VoiceStages
<1>2. \A r \in Refreshers, k \in Key : ~HoldsKey(r, k) /\ ~Refreshing(r, k)
  BY DEF CatalogInit, HoldsKey, Refreshing, Resting, VoiceStages, Key
<1>4. QED
  BY <1>1, <1>2, <1>3 DEF CatalogInv, Claimed, OneHolder, VoiceStale, ModelsApart, HoldersStale, Key

(***************************************************************************)
(* r goes on with the same claims, or fewer of its own: nothing becomes    *)
(* fresh, no claim of another is lost and it begins no refresh.            *)
(***************************************************************************)
LEMMA GoingOn ==
  ASSUME CatalogInv, NEW r \in Refreshers, OnlyOf(r), Shaped', LlmListed', fresh' \subseteq fresh,
         crossed' = crossed, claimed' \subseteq claimed,
         \A k \in Key : HoldsKey(r, k)' => HoldsKey(r, k) /\ k \in claimed',
         \A k \in Key : Refreshing(r, k)' => Refreshing(r, k),
         \A k \in claimed \ claimed' : HoldsKey(r, k)
  PROVE  CatalogInv'
<1> USE DEF CatalogInv, OnlyOf
<1>1. \A q \in Refreshers, k \in Key :
         /\ HoldsKey(q, k)' => HoldsKey(q, k)
         /\ Refreshing(q, k)' => Refreshing(q, k)
  BY DEF HoldsKey, Refreshing
<1>2. Claimed'
  <2> SUFFICES ASSUME NEW k \in Key, NEW q \in Refreshers, HoldsKey(q, k)' PROVE k \in claimed'
    BY DEF Claimed
  <2>1. HoldsKey(q, k) /\ k \in claimed
    BY <1>1 DEF Claimed
  <2>2. CASE q = r
    BY <2>2
  <2>3. CASE q # r
    BY <2>1, <2>3 DEF OneHolder
  <2>4. QED
    BY <2>2, <2>3
<1>3. (OneHolder /\ VoiceStale)'
  BY <1>1 DEF OneHolder, VoiceStale, Key
<1>4. (~crossed => ModelsApart /\ HoldersStale)'
  BY <1>1 DEF ModelsApart, HoldersStale, Key
<1>5. QED
  BY <1>2, <1>3, <1>4

(***************************************************************************)
(* r ends its refresh of k, which becomes fresh; its claim, if it had one, *)
(* is given back.                                                          *)
(***************************************************************************)
LEMMA Freshening ==
  ASSUME CatalogInv, NEW r \in Refreshers, NEW k \in Key, OnlyOf(r), Shaped', LlmListed',
         fresh' = fresh \cup {k}, crossed' = crossed, claimed' \subseteq claimed,
         HoldsKey(r, k) \/ (k = "llm" /\ Refreshing(r, k)), ~HoldsKey(r, k)', ~Refreshing(r, k)',
         \A j \in Key \ {k} : (HoldsKey(r, j)' <=> HoldsKey(r, j)) /\ (Refreshing(r, j)' => Refreshing(r, j)),
         claimed \ claimed' \subseteq {k}, k \in claimed \ claimed' => HoldsKey(r, k)
  PROVE  CatalogInv'
<1> USE DEF CatalogInv, OnlyOf
<1>1. \A q \in Refreshers, j \in Key :
         /\ HoldsKey(q, j)' => HoldsKey(q, j) /\ (q # r \/ j # k)
         /\ Refreshing(q, j)' => Refreshing(q, j) /\ (q # r \/ j # k)
  BY DEF HoldsKey, Refreshing
<1>2. Claimed'
  <2> SUFFICES ASSUME NEW j \in Key, NEW q \in Refreshers, HoldsKey(q, j)' PROVE j \in claimed'
    BY DEF Claimed
  <2>1. HoldsKey(q, j) /\ j \in claimed /\ (q # r \/ j # k)
    BY <1>1 DEF Claimed
  <2>2. QED
    BY <2>1 DEF OneHolder
<1>3. OneHolder'
  BY <1>1 DEF OneHolder
<1>4. VoiceStale'
  BY <1>1 DEF VoiceStale, OneHolder, Key
<1>5. (~crossed => ModelsApart /\ HoldersStale)'
  BY <1>1 DEF ModelsApart, HoldersStale, Key, OneHolder
<1>6. QED
  BY <1>2, <1>3, <1>4, <1>5

(***************************************************************************)
(* r claims k.                                                             *)
(***************************************************************************)
LEMMA Claiming ==
  ASSUME CatalogInv, NEW r \in Refreshers, NEW k \in Key, OnlyOf(r), Shaped', LlmListed',
         Claimable(k), claimed' = claimed \cup {k}, fresh' = fresh, crossed => crossed',
         k = "llm" /\ Others(r, "llm") => crossed', k = "voice" => crossed' = crossed,
         \A j \in Key \ {k} : (HoldsKey(r, j)' <=> HoldsKey(r, j)) /\ (Refreshing(r, j)' => Refreshing(r, j))
  PROVE  CatalogInv'
<1> USE DEF CatalogInv, OnlyOf
<1>1. \A q \in Refreshers, j \in Key : q # r \/ j # k =>
         /\ HoldsKey(q, j)' => HoldsKey(q, j)
         /\ Refreshing(q, j)' => Refreshing(q, j)
  BY DEF HoldsKey, Refreshing
<1>2. \A q \in Refreshers : ~HoldsKey(q, k)
  BY DEF Claimed, Claimable
<1>3. Claimed'
  BY <1>1 DEF Claimed
<1>4. OneHolder'
  BY <1>1, <1>2 DEF OneHolder
<1>5. VoiceStale'
  BY <1>1 DEF VoiceStale, Claimable, Key
<1>6. ASSUME ~crossed' PROVE (ModelsApart /\ HoldersStale)'
  <2>1. ~crossed /\ ModelsApart /\ HoldersStale
    BY <1>6
  <2>2. CASE k = "voice"
    BY <1>1, <2>1, <2>2 DEF ModelsApart, HoldersStale, Key
  <2>3. CASE k = "llm"
    <3>1. \A q \in Refreshers \ {r} : ~Refreshing(q, "llm") /\ ~HoldsKey(q, "llm")
      BY <1>2, <1>6, <2>3 DEF Others
    <3>2. \A q \in Refreshers \ {r} : ~Refreshing(q, "llm")' /\ ~HoldsKey(q, "llm")'
      BY <1>1, <3>1 DEF Key
    <3>3. "llm" \notin fresh'
      BY <2>3 DEF Claimable
    <3>4. QED
      BY <3>2, <3>3 DEF ModelsApart, HoldersStale
  <2>4. QED
    BY <2>2, <2>3 DEF Key
<1>7. QED
  BY <1>3, <1>4, <1>5, <1>6

(***************************************************************************)
(* The steps that claim nothing and freshen nothing.                       *)
(***************************************************************************)
LEMMA KeySteps ==
  ASSUME CatalogInv, NEW r \in Refreshers,
         Visits(r) \/ FindsKey(r) \/ FetchModelNames(r) \/ SyncsModels(r)
  PROVE  CatalogInv'
<1> USE DEF CatalogInv, Stands, Moves
<1>1. OnlyOf(r)
  BY DEF Visits, FindsKey, FetchModelNames, SyncsModels, OnlyOf, Shaped
<1>2. Shaped'
  BY DEF Visits, FindsKey, FetchModelNames, SyncsModels, Shaped
<1>3. LlmListed'
  <2>1. CASE Visits(r)
    BY <2>1 DEF Visits, Shaped, LlmListed, VoiceStages, throttle, lists
  <2>2. CASE FindsKey(r)
    BY <2>2 DEF FindsKey, Shaped, LlmListed, VoiceStages, throttle, lists
  <2>3. CASE FetchModelNames(r)
    BY <2>3 DEF FetchModelNames, Shaped, LlmListed, VoiceStages, throttle, lists
  <2>4. CASE SyncsModels(r)
    BY <2>4 DEF SyncsModels, Shaped, LlmListed, VoiceStages, throttle
  <2>5. QED
    BY <2>1, <2>2, <2>3, <2>4
<1>4. /\ \A k \in Key : HoldsKey(r, k)' => HoldsKey(r, k)
      /\ \A k \in Key : Refreshing(r, k)' => Refreshing(r, k)
  BY DEF Visits, FindsKey, FetchModelNames, SyncsModels, Shaped, HoldsKey, Refreshing, VoiceStages, Key
<1>5. fresh' = fresh /\ crossed' = crossed /\ claimed' = claimed
  BY DEF Visits, FindsKey, FetchModelNames, SyncsModels, throttle, lists
<1>6. \A k \in Key : HoldsKey(r, k)' => k \in claimed'
  BY <1>4, <1>5 DEF Claimed
<1>7. QED
  BY <1>1, <1>2, <1>3, <1>4, <1>5, <1>6, GoingOn

LEMMA AtRest ==
  ASSUME Shaped, NEW r \in Refreshers, Rests(r)
  PROVE  OnlyOf(r) /\ refresher'[r] = Resting /\ \A k \in Key : ~HoldsKey(r, k)' /\ ~Refreshing(r, k)'
BY DEF Shaped, Rests, OnlyOf, Resting, HoldsKey, Refreshing, VoiceStages, Key

LEMMA RestShaped ==
  ASSUME CatalogInv, NEW r \in Refreshers, Rests(r), crossed' = crossed, UNCHANGED <<offered, models>>, fresh' \subseteq fresh
  PROVE  Shaped' /\ LlmListed'
<1>1. Shaped'
  BY DEF CatalogInv, Shaped, Rests, Resting
<1>2. LlmListed'
  BY DEF CatalogInv, Shaped, LlmListed, Rests, Resting, VoiceStages
<1>3. QED
  BY <1>1, <1>2

LEMMA ModelsFailStep ==
  ASSUME CatalogInv, NEW r \in Refreshers, ModelsFail(r) PROVE CatalogInv'
<1> USE DEF CatalogInv
<1>1. /\ Rests(r) /\ fresh' = fresh /\ crossed' = crossed /\ UNCHANGED <<offered, models>>
      /\ claimed' = IF refresher[r].claims THEN claimed \ {"llm"} ELSE claimed
  BY DEF ModelsFail, GivesBack, Releases, throttle, lists
<1>2. \A k \in claimed \ claimed' : HoldsKey(r, k)
  BY <1>1 DEF ModelsFail, HoldsKey
<1>3. QED
  BY <1>1, <1>2, AtRest, RestShaped, GoingOn

LEMMA AsksFreshStep ==
  ASSUME CatalogInv, NEW r \in Refreshers, AsksFresh(r) PROVE CatalogInv'
<1> USE DEF CatalogInv, Stands, Moves
<1>1. OnlyOf(r) /\ fresh' = fresh /\ claimed' = claimed
  BY DEF AsksFresh, OnlyOf, Shaped, throttle, lists
<1>2. Shaped'
  <2>1. crossed' \in BOOLEAN
    BY DEF AsksFresh, Shaped
  <2>2. \/ refresher' = [refresher EXCEPT ![r].stage = "fetch", ![r].began["llm"] = offered]
        \/ refresher' = [refresher EXCEPT ![r].stage = "voice"]
    BY DEF AsksFresh
  <2>3. QED
    BY <2>1, <2>2 DEF AsksFresh, Shaped
<1>3. LlmListed'
  BY DEF AsksFresh, Shaped, LlmListed, VoiceStages, throttle, lists
<1>4. \A k \in Key : ~HoldsKey(r, k)'
  BY DEF AsksFresh, Shaped, HoldsKey, VoiceStages, Key
<1>5. \A q \in Refreshers \ {r}, k \in Key :
         (HoldsKey(q, k)' <=> HoldsKey(q, k)) /\ (Refreshing(q, k)' <=> Refreshing(q, k))
  BY <1>1 DEF OnlyOf, HoldsKey, Refreshing
<1>6. (Claimed /\ OneHolder /\ VoiceStale)'
  BY <1>1, <1>4, <1>5 DEF Claimed, OneHolder, VoiceStale, Key
<1>7. ASSUME ~crossed' PROVE (ModelsApart /\ HoldersStale)'
  <2>1. ~crossed
    BY <1>7 DEF AsksFresh
  <2>2. HoldersStale'
    BY <1>1, <1>4, <1>5, <2>1 DEF HoldersStale, Key
  <2>3. CASE Moves(r, "voice")
    <3>1. ~Refreshing(r, "llm")'
      BY <2>3 DEF AsksFresh, Refreshing, Shaped
    <3>2. ModelsApart'
      BY <1>1, <1>4, <1>5, <2>1, <3>1 DEF ModelsApart, Key
    <3>3. QED
      BY <2>2, <3>2
  <2>4. CASE ~Moves(r, "voice")
    <3>1. "llm" \notin claimed /\ ~Others(r, "llm") /\ "llm" \notin fresh
      BY <1>7, <2>4 DEF AsksFresh
    <3>2. \A q \in Refreshers \ {r} : ~HoldsKey(q, "llm")' /\ ~Refreshing(q, "llm")'
      BY <1>5, <3>1 DEF Claimed, Others, Key
    <3>3. ModelsApart'
      BY <1>1, <3>1, <3>2 DEF ModelsApart
    <3>4. QED
      BY <2>2, <3>3
  <2>5. QED
    BY <2>3, <2>4
<1>8. QED
  BY <1>2, <1>3, <1>6, <1>7

LEMMA ClaimsModelsStep ==
  ASSUME CatalogInv, NEW r \in Refreshers, ClaimsModels(r) PROVE CatalogInv'
<1> USE DEF CatalogInv, Stands, Moves
<1>1. CASE Claimable("llm")
  <2>1. OnlyOf(r) /\ fresh' = fresh /\ claimed' = claimed \cup {"llm"} /\ crossed' = (crossed \/ Others(r, "llm"))
    BY <1>1 DEF ClaimsModels, Claims, OnlyOf, Shaped
  <2>2. Shaped'
    BY <1>1 DEF ClaimsModels, Shaped
  <2>3. LlmListed'
    BY <1>1, <2>1 DEF ClaimsModels, Shaped, LlmListed, VoiceStages, lists
  <2>4. \A j \in Key \ {"llm"} : (HoldsKey(r, j)' <=> HoldsKey(r, j)) /\ (Refreshing(r, j)' => Refreshing(r, j))
    BY <1>1 DEF ClaimsModels, HoldsKey, Refreshing, VoiceStages, Key, Shaped
  <2>5. QED
    BY <1>1, <2>1, <2>2, <2>3, <2>4, Claiming DEF Key
<1>2. CASE ~Claimable("llm")
  BY <1>2, AtRest, RestShaped, GoingOn DEF ClaimsModels, throttle, lists
<1>3. QED
  BY <1>1, <1>2

LEMMA ReleasesModelsStep ==
  ASSUME CatalogInv, NEW r \in Refreshers, ReleasesModels(r) PROVE CatalogInv'
<1> USE DEF CatalogInv, Stands
<1>1. /\ Rests(r) /\ fresh' = fresh \cup {"llm"} /\ claimed' = claimed \ {"llm"}
      /\ crossed' = crossed /\ UNCHANGED <<offered, models>>
  BY DEF ReleasesModels, Releases, Freshens, lists
<1>2. HoldsKey(r, "llm") /\ ~HoldsKey(r, "voice") /\ models # 0
  BY DEF ReleasesModels, HoldsKey, Shaped, LlmListed, VoiceStages
<1>3. Shaped'
  BY <1>1 DEF Shaped, Rests, Resting
<1>4. LlmListed'
  BY <1>1, <1>2 DEF Shaped, LlmListed, Rests, Resting, VoiceStages
<1>5. QED
  BY <1>1, <1>2, <1>3, <1>4, AtRest, Freshening DEF Key

LEMMA MarksModelsStep ==
  ASSUME CatalogInv, NEW r \in Refreshers, MarksModels(r) PROVE CatalogInv'
<1> USE DEF CatalogInv, Stands, Moves
<1>1. /\ OnlyOf(r) /\ fresh' = fresh \cup {"llm"} /\ claimed' = claimed /\ crossed' = crossed
      /\ Refreshing(r, "llm") /\ models # 0 /\ UNCHANGED <<offered, models>>
  BY DEF MarksModels, Freshens, OnlyOf, Shaped, Refreshing, LlmListed, lists
<1>2. Shaped'
  BY DEF MarksModels, Shaped
<1>3. LlmListed'
  BY <1>1 DEF MarksModels, Shaped, LlmListed, VoiceStages
<1>4. /\ \A k \in Key : ~HoldsKey(r, k)' /\ ~HoldsKey(r, k) /\ ~Refreshing(r, k)'
  BY DEF MarksModels, Shaped, HoldsKey, Refreshing, VoiceStages, Key
<1>5. QED
  BY <1>1, <1>2, <1>3, <1>4, Freshening DEF Key

LEMMA AfterVoiceStage ==
  ASSUME CatalogInv, NEW r \in Refreshers, AfterVoice(r), refresher[r].stage \in {"voice"} \cup VoiceStages,
         UNCHANGED <<offered, models, crossed>>, "llm" \in fresh' => "llm" \in fresh
  PROVE  /\ OnlyOf(r) /\ Shaped' /\ LlmListed'
         /\ \A k \in Key : ~Refreshing(r, k)'
         /\ ~HoldsKey(r, "voice")' /\ (HoldsKey(r, "llm")' <=> HoldsKey(r, "llm"))
<1> USE DEF CatalogInv
<1>1. CASE refresher[r].claims
  <2>1. Moves(r, "release")
    BY <1>1 DEF AfterVoice
  <2>2. OnlyOf(r) /\ Shaped'
    BY <1>1, <2>1 DEF Moves, OnlyOf, Shaped
  <2>3. LlmListed'
    BY <1>1, <2>1 DEF Moves, Shaped, LlmListed, VoiceStages
  <2>4. QED
    BY <1>1, <2>1, <2>2, <2>3 DEF Moves, Shaped, HoldsKey, Refreshing, VoiceStages, Key
<1>2. CASE ~refresher[r].claims
  <2>1. Rests(r)
    BY <1>2 DEF AfterVoice
  <2>2. Shaped' /\ LlmListed'
    <3>1. Shaped'
      BY <2>1 DEF Shaped, Rests, Resting
    <3>2. LlmListed'
      BY <2>1 DEF Shaped, LlmListed, Rests, Resting, VoiceStages
    <3>3. QED
      BY <3>1, <3>2
  <2>3. ~HoldsKey(r, "llm") /\ \A k \in Key : ~HoldsKey(r, k)' /\ ~Refreshing(r, k)'
    BY <1>2, <2>1, AtRest DEF HoldsKey
  <2>4. QED
    BY <2>1, <2>2, <2>3, AtRest DEF Key
<1>3. QED
  BY <1>1, <1>2

LEMMA ClaimsVoiceStep ==
  ASSUME CatalogInv, NEW r \in Refreshers, ClaimsVoice(r) PROVE CatalogInv'
<1> USE DEF CatalogInv, Stands
<1>1. CASE Claimable("voice")
  <2>1. OnlyOf(r) /\ fresh' = fresh /\ claimed' = claimed \cup {"voice"} /\ crossed' = crossed
    BY <1>1 DEF ClaimsVoice, Claims, OnlyOf, Shaped
  <2>2. Shaped'
    BY <1>1 DEF ClaimsVoice, Shaped
  <2>3. LlmListed'
    BY <1>1, <2>1 DEF ClaimsVoice, Shaped, LlmListed, VoiceStages, lists
  <2>4. \A j \in Key \ {"voice"} : (HoldsKey(r, j)' <=> HoldsKey(r, j)) /\ (Refreshing(r, j)' => Refreshing(r, j))
    BY <1>1 DEF ClaimsVoice, HoldsKey, Refreshing, VoiceStages, Key, Shaped
  <2>5. QED
    BY <1>1, <2>1, <2>2, <2>3, <2>4, Claiming DEF Key
<1>2. CASE ~Claimable("voice")
  <2>1. AfterVoice(r) /\ fresh' = fresh /\ claimed' = claimed /\ UNCHANGED <<offered, models, crossed>>
    BY <1>2 DEF ClaimsVoice, throttle, lists
  <2>2. /\ OnlyOf(r) /\ Shaped' /\ LlmListed' /\ \A k \in Key : ~Refreshing(r, k)'
        /\ ~HoldsKey(r, "voice")' /\ (HoldsKey(r, "llm")' <=> HoldsKey(r, "llm"))
    BY <2>1, AfterVoiceStage DEF ClaimsVoice
  <2>3. \A k \in Key : HoldsKey(r, k)' => HoldsKey(r, k) /\ k \in claimed'
    BY <2>1, <2>2 DEF Claimed, Key
  <2>4. QED
    BY <2>1, <2>2, <2>3, GoingOn
<1>3. QED
  BY <1>1, <1>2

LEMMA FindsVoiceKeyStep ==
  ASSUME CatalogInv, NEW r \in Refreshers, FindsVoiceKey(r) PROVE CatalogInv'
<1> USE DEF CatalogInv, Stands
<1> DEFINE goes == refresher' = [refresher EXCEPT ![r].script = Script,
                                   ![r].stage = IF Script = <<>> THEN "free" ELSE "voices"]
<1>1. CASE goes /\ UNCHANGED throttle
  <2>1. OnlyOf(r) /\ fresh' = fresh /\ claimed' = claimed /\ crossed' = crossed
    BY <1>1 DEF FindsVoiceKey, OnlyOf, Shaped, throttle, lists
  <2>2. Shaped'
    BY <1>1 DEF FindsVoiceKey, Shaped
  <2>3. LlmListed'
    BY <1>1, <2>1 DEF FindsVoiceKey, Shaped, LlmListed, VoiceStages, lists
  <2>4. /\ \A k \in Key : HoldsKey(r, k)' => HoldsKey(r, k)
        /\ \A k \in Key : Refreshing(r, k)' => Refreshing(r, k)
    BY <1>1 DEF FindsVoiceKey, Shaped, HoldsKey, Refreshing, VoiceStages, Key
  <2>5. QED
    BY <2>1, <2>2, <2>3, <2>4, GoingOn DEF Claimed
<1>2. CASE Releases(r, "voice", FALSE) /\ AfterVoice(r)
  <2>1. fresh' = fresh /\ claimed' = claimed \ {"voice"} /\ UNCHANGED <<offered, models, crossed>>
    BY <1>2 DEF FindsVoiceKey, Releases, lists
  <2>2. /\ OnlyOf(r) /\ Shaped' /\ LlmListed' /\ \A k \in Key : ~Refreshing(r, k)'
        /\ ~HoldsKey(r, "voice")' /\ (HoldsKey(r, "llm")' <=> HoldsKey(r, "llm"))
    BY <1>2, <2>1, AfterVoiceStage DEF FindsVoiceKey, VoiceStages
  <2>3. HoldsKey(r, "voice")
    BY DEF FindsVoiceKey, HoldsKey, VoiceStages
  <2>4. \A k \in Key : HoldsKey(r, k)' => HoldsKey(r, k) /\ k \in claimed'
    BY <2>1, <2>2 DEF Claimed, Key
  <2>5. QED
    BY <2>1, <2>2, <2>3, <2>4, GoingOn
<1>3. QED
  BY <1>1, <1>2 DEF FindsVoiceKey

LEMMA SyncVoiceModelsStep ==
  ASSUME CatalogInv, NEW r \in Refreshers, syncVoiceModels(r) PROVE CatalogInv'
<1> USE DEF CatalogInv, Stands
<1>1. PICK script, kinds, failed : Follows(r, script, kinds, failed)
  BY DEF syncVoiceModels
<1>2. /\ OnlyOf(r) /\ fresh' = fresh /\ claimed' = claimed /\ crossed' = crossed
      /\ UNCHANGED <<offered, models>>
  BY <1>1 DEF syncVoiceModels, Follows, OnlyOf, Shaped, throttle, lists
<1>3. Shaped'
  BY <1>1 DEF syncVoiceModels, Follows, Shaped
<1>4. LlmListed'
  BY <1>1, <1>2 DEF syncVoiceModels, Follows, Shaped, LlmListed, VoiceStages
<1>5. /\ \A k \in Key : HoldsKey(r, k)' => HoldsKey(r, k)
      /\ \A k \in Key : Refreshing(r, k)' => Refreshing(r, k)
  BY <1>1 DEF syncVoiceModels, Follows, Shaped, HoldsKey, Refreshing, VoiceStages, Key
<1>6. QED
  BY <1>2, <1>3, <1>4, <1>5, GoingOn DEF Claimed

LEMMA ReleasesVoiceStep ==
  ASSUME CatalogInv, NEW r \in Refreshers, ReleasesVoice(r) PROVE CatalogInv'
<1> USE DEF CatalogInv, Stands
<1>1. /\ AfterVoice(r) /\ claimed' = claimed \ {"voice"} /\ UNCHANGED <<offered, models, crossed>>
      /\ fresh' = fresh \/ fresh' = fresh \cup {"voice"}
  BY DEF ReleasesVoice, Releases, Freshens, lists
<1>2. HoldsKey(r, "voice")
  BY DEF ReleasesVoice, HoldsKey, VoiceStages
<1>3. /\ OnlyOf(r) /\ Shaped' /\ LlmListed' /\ \A k \in Key : ~Refreshing(r, k)'
      /\ ~HoldsKey(r, "voice")' /\ (HoldsKey(r, "llm")' <=> HoldsKey(r, "llm"))
  BY <1>1, AfterVoiceStage DEF ReleasesVoice, VoiceStages
<1>4. CASE fresh' = fresh
  <2>1. \A k \in Key : HoldsKey(r, k)' => HoldsKey(r, k) /\ k \in claimed'
    BY <1>1, <1>3 DEF Claimed, Key
  <2>2. QED
    BY <1>1, <1>2, <1>3, <1>4, <2>1, GoingOn
<1>5. CASE fresh' = fresh \cup {"voice"}
  BY <1>1, <1>2, <1>3, <1>5, Freshening DEF Key
<1>6. QED
  BY <1>1, <1>4, <1>5

LEMMA OthersStep ==
  ASSUME CatalogInv, OffersChange \/ (\E k \in Key : Expires(k)) \/ UNCHANGED catalogvars
  PROVE  CatalogInv'
<1> USE DEF CatalogInv
<1>1. /\ UNCHANGED <<refresher, claimed, crossed, models>> /\ fresh' \subseteq fresh
      /\ offered' \in Nat \ {0}
  BY DEF OffersChange, Expires, catalogvars, throttle, lists, LlmListed
<1>2. Shaped' /\ LlmListed'
  BY <1>1 DEF Shaped, LlmListed
<1>3. \A q \in Refreshers, k \in Key : (HoldsKey(q, k)' <=> HoldsKey(q, k)) /\ (Refreshing(q, k)' <=> Refreshing(q, k))
  BY <1>1 DEF HoldsKey, Refreshing
<1>4. (Claimed /\ OneHolder /\ VoiceStale /\ (~crossed => ModelsApart /\ HoldersStale))'
  BY <1>1, <1>3 DEF Claimed, OneHolder, VoiceStale, ModelsApart, HoldersStale, Key
<1>5. QED
  BY <1>2, <1>4

LEMMA CatalogInvStep == CatalogInv /\ [CatalogNext]_catalogvars => CatalogInv'
<1>1. ASSUME CatalogInv, NEW r \in Refreshers, Visits(r) \/ Refreshes(r) PROVE CatalogInv'
  BY <1>1, KeySteps, ModelsFailStep, AsksFreshStep, ClaimsModelsStep, ReleasesModelsStep, MarksModelsStep,
     ClaimsVoiceStep, FindsVoiceKeyStep, SyncVoiceModelsStep, ReleasesVoiceStep DEF Refreshes
<1>2. QED
  BY <1>1, OthersStep DEF CatalogNext

(***************************************************************************)
(* The throttle of the router: voices are refreshed by one goroutine at a  *)
(* time and never asked for while fresh, and so are the language models as *)
(* long as no lister without a claim refreshed them where it needed one.   *)
(***************************************************************************)
THEOREM OneRefreshHolds == CatalogSpec => []OneRefresh
<1>1. CatalogInv => OneRefresh
  <2> SUFFICES ASSUME CatalogInv, NEW k \in Key, NEW r \in Refreshers, Refreshing(r, k), k = "voice" \/ ~crossed
               PROVE  k \notin fresh /\ ~Others(r, k)
    BY DEF OneRefresh
  <2>1. CASE k = "voice"
    <3>1. \A q \in Refreshers : Refreshing(q, k) => HoldsKey(q, k)
      BY <2>1 DEF Refreshing, HoldsKey, VoiceStages
    <3>2. QED
      BY <2>1, <3>1 DEF CatalogInv, OneHolder, VoiceStale, Others
  <2>2. CASE k = "llm" /\ ~crossed
    BY <2>2 DEF CatalogInv, ModelsApart, Others
  <2>3. QED
    BY <2>1, <2>2 DEF Key
<1>2. QED
  BY <1>1, CatalogInvInit, CatalogInvStep, PTL DEF CatalogSpec

(***************************************************************************)
(* How old a list is: what r began with is not newer than the offer, what  *)
(* it fetched not older than what it began with, and what it has written   *)
(* stays until it marks the list - the models while nothing crossed, the   *)
(* voices always.                                                          *)
(***************************************************************************)
VoiceStep == {"fetch", "sync"} \X VoiceKind
VoiceLists == {Script[i][2] : i \in DOMAIN Script}
Has(script, step) == \E i \in DOMAIN script : script[i] = step
Recent(n, r, k) == n \in Nat \ {0} /\ n >= refresher[r].began[k]

Begun(me) ==
  /\ {"stage", "claims", "began", "names", "kinds", "script", "failed"} \subseteq DOMAIN me
  /\ DOMAIN me.began = Key /\ DOMAIN me.kinds = VoiceKind
  /\ \A k \in Key : me.began[k] \in 0 .. offered
Dates ==
  /\ fresh \subseteq Key /\ DOMAIN since = Key /\ DOMAIN voices = VoiceKind
  /\ \A r \in Refreshers : Begun(refresher[r])

Wrote(r) == \/ refresher[r].stage = "mark"
            \/ refresher[r].claims /\ refresher[r].stage \in {"voice", "release"} \cup VoiceStages
NamesRecent == \A r \in Refreshers : refresher[r].stage = "sync" => Recent(refresher[r].names, r, "llm")
ModelsRecent ==
  /\ "llm" \in fresh => models >= since["llm"]
  /\ \A r \in Refreshers : Wrote(r) => Recent(models, r, "llm")

(***************************************************************************)
(* A list of voices that r need not fetch any more is recent, one that it  *)
(* need not write any more is so in the database, and it fetches a list    *)
(* before it writes it.                                                    *)
(***************************************************************************)
Going(r) ==
  LET script == refresher[r].script IN
  /\ script \in Seq(VoiceStep)
  /\ \A l \in VoiceLists :
        /\ Has(script, <<"fetch", l>>) \/ Recent(refresher[r].kinds[l], r, "voice")
        /\ Has(script, <<"sync", l>>) \/ Recent(voices[l], r, "voice")
  /\ \A i, j \in DOMAIN script :
        script[i][1] = "sync" /\ script[j] = <<"fetch", script[i][2]>> => j < i
  /\ \A i \in DOMAIN script : script[i][2] \in VoiceLists
VoicesRecent ==
  /\ "voice" \in fresh => \A l \in VoiceLists : voices[l] \in Nat \ {0} /\ voices[l] >= since["voice"]
  /\ \A r \in Refreshers : ~refresher[r].failed =>
        /\ refresher[r].stage = "voices" => Going(r) /\ refresher[r].script # <<>>
        /\ refresher[r].stage = "free" => \A l \in VoiceLists : Recent(voices[l], r, "voice")

CurrentInv == Dates /\ NamesRecent /\ (~crossed => ModelsRecent) /\ VoicesRecent

LEMMA CurrentInit == CatalogInit => CurrentInv
<1> SUFFICES ASSUME CatalogInit PROVE CurrentInv
  OBVIOUS
<1>1. Dates
  BY OffersAssumption DEF CatalogInit, Dates, Begun, Resting, Key
<1>2. NamesRecent /\ ModelsRecent /\ VoicesRecent
  BY DEF CatalogInit, NamesRecent, ModelsRecent, VoicesRecent, Wrote, VoiceStages, Resting
<1>3. QED
  BY <1>1, <1>2 DEF CurrentInv

(***************************************************************************)
(* The script of every provider fetches each list before it writes it.     *)
(***************************************************************************)
LEMMA ScriptFacts ==
  /\ Script \in Seq(VoiceStep)
  /\ \A l \in VoiceLists : l \in VoiceKind /\ Has(Script, <<"fetch", l>>) /\ Has(Script, <<"sync", l>>)
  /\ \A i, j \in DOMAIN Script :
        Script[i][1] = "sync" /\ Script[j] = <<"fetch", Script[i][2]>> => j < i
  /\ \A i \in DOMAIN Script : Script[i][2] \in VoiceLists
<1>1. /\ <<"fetch", "stt">> \in VoiceStep /\ <<"sync", "stt">> \in VoiceStep
      /\ <<"fetch", "tts">> \in VoiceStep /\ <<"sync", "tts">> \in VoiceStep
      /\ <<"fetch", "sts">> \in VoiceStep /\ <<"sync", "sts">> \in VoiceStep
  BY DEF VoiceStep, VoiceKind
<1>2. CASE market.provider = "mistral"
  <2>1. Script = <<<<"fetch", "stt">>, <<"fetch", "tts">>, <<"sync", "stt">>, <<"sync", "tts">>>>
    BY <1>2 DEF Script
  <2>2. Script \in Seq(VoiceStep) /\ DOMAIN Script = 1 .. 4
    BY <1>1, <2>1
  <2>3. VoiceLists = {"stt", "tts"}
    BY <2>1, <2>2 DEF VoiceLists
  <2>4. QED
    BY <2>1, <2>2, <2>3 DEF Has, VoiceKind
<1>3. CASE market.provider = "elevenlabs"
  <2>1. Script = <<<<"fetch", "tts">>, <<"sync", "tts">>, <<"fetch", "sts">>, <<"sync", "sts">>>>
    BY <1>3 DEF Script
  <2>2. Script \in Seq(VoiceStep) /\ DOMAIN Script = 1 .. 4
    BY <1>1, <2>1
  <2>3. VoiceLists = {"tts", "sts"}
    BY <2>1, <2>2 DEF VoiceLists
  <2>4. QED
    BY <2>1, <2>2, <2>3 DEF Has, VoiceKind
<1>4. CASE market.provider \notin {"mistral", "elevenlabs"}
  <2>1. Script = <<>>
    BY <1>4 DEF Script
  <2>2. QED
    BY <2>1 DEF VoiceLists
<1>5. QED
  BY <1>2, <1>3, <1>4

LEMMA TailHas ==
  ASSUME NEW script \in Seq(VoiceStep), script # <<>>, NEW step, Has(script, step)
  PROVE  step = Head(script) \/ Has(Tail(script), step)
<1>1. PICK i \in DOMAIN script : script[i] = step
  BY DEF Has
<1>2. CASE i = 1
  BY <1>1, <1>2
<1>3. CASE i # 1
  <2>1. i - 1 \in DOMAIN Tail(script) /\ Tail(script)[i - 1] = step
    BY <1>1, <1>3
  <2>2. QED
    BY <2>1 DEF Has
<1>4. QED
  BY <1>2, <1>3

(***************************************************************************)
(* What each step makes of the record of r.                                *)
(***************************************************************************)
LEMMA MovesRecord ==
  ASSUME CatalogInv, NEW r \in Refreshers, NEW stage, Moves(r, stage)
  PROVE  OnlyOf(r) /\ refresher'[r] = [refresher[r] EXCEPT !.stage = stage]
BY DEF CatalogInv, Shaped, Moves, OnlyOf

LEMMA RestsRecord ==
  ASSUME CatalogInv, NEW r \in Refreshers, Rests(r)
  PROVE  OnlyOf(r) /\ refresher'[r] = Resting
BY DEF CatalogInv, Shaped, Rests, OnlyOf

LEMMA BecomesRecord ==
  ASSUME CatalogInv, NEW r \in Refreshers, NEW me, refresher' = [refresher EXCEPT ![r] = me]
  PROVE  OnlyOf(r) /\ refresher'[r] = me
BY DEF CatalogInv, Shaped, OnlyOf

(***************************************************************************)
(* The record that Follows leaves, in place of old.                        *)
(***************************************************************************)
Left(old, me, script, kinds, failed) ==
  /\ DOMAIN me = DOMAIN old /\ me.began = old.began /\ me.claims = old.claims /\ me.names = old.names
  /\ me.script = script /\ me.kinds = kinds /\ me.failed = failed
  /\ me.stage = IF script = <<>> THEN "free" ELSE "voices"

LEMMA FollowsRecord ==
  ASSUME CatalogInv, Dates, NEW r \in Refreshers, NEW script, NEW kinds, NEW failed,
         Follows(r, script, kinds, failed)
  PROVE  OnlyOf(r) /\ Left(refresher[r], refresher'[r], script, kinds, failed)
<1> DEFINE me == [refresher[r] EXCEPT !.script = script, !.kinds = kinds, !.failed = failed,
                                      !.stage = IF script = <<>> THEN "free" ELSE "voices"]
<1>1. refresher' = [refresher EXCEPT ![r] = me]
  BY DEF Follows
<1>2. Left(refresher[r], me, script, kinds, failed)
  BY DEF Left, Dates, Begun
<1> HIDE DEF me
<1>3. QED
  BY <1>1, <1>2, BecomesRecord

(***************************************************************************)
(* Dates: a refresh begins with the offer of the moment.                   *)
(***************************************************************************)
LEMMA DatesOf ==
  ASSUME CatalogInv, Dates, NEW r \in Refreshers, OnlyOf(r), Begun(refresher'[r]), UNCHANGED offered,
         UNCHANGED <<fresh, since>> \/ (\E k \in Key : Freshens(r, k)), DOMAIN voices' = VoiceKind
  PROVE  Dates'
BY DEF Dates, Begun, OnlyOf, Freshens

LEMMA DatedSteps ==
  ASSUME CatalogInv, Dates, NEW r \in Refreshers
  PROVE  /\ \A stage : Moves(r, stage) => OnlyOf(r) /\ Begun(refresher'[r])
         /\ Rests(r) => OnlyOf(r) /\ Begun(refresher'[r])
         /\ AfterVoice(r) => OnlyOf(r) /\ Begun(refresher'[r])
<1>0. offered \in Nat \ {0}
  BY DEF CatalogInv, LlmListed
<1>1. ASSUME NEW stage, Moves(r, stage) PROVE OnlyOf(r) /\ Begun(refresher'[r])
  <2>1. Begun([refresher[r] EXCEPT !.stage = stage])
    BY DEF Dates, Begun
  <2>2. QED
    BY <1>1, <2>1, MovesRecord
<1>2. ASSUME Rests(r) PROVE OnlyOf(r) /\ Begun(refresher'[r])
  <2>1. Begun(Resting)
    BY <1>0 DEF Begun, Resting
  <2>2. QED
    BY <1>2, <2>1, RestsRecord
<1>3. QED
  BY <1>1, <1>2 DEF AfterVoice

LEMMA DatesStep == CatalogInv /\ Dates /\ [CatalogNext]_catalogvars => Dates'
<1> SUFFICES ASSUME CatalogInv, Dates, [CatalogNext]_catalogvars PROVE Dates'
  OBVIOUS
<1> USE DEF throttle, lists
<1>0. offered \in Nat \ {0} /\ Key = {"llm", "voice"}
  BY DEF CatalogInv, LlmListed, Key
<1>1. CASE OffersChange \/ (\E k \in Key : Expires(k)) \/ UNCHANGED catalogvars
  <2>1. /\ UNCHANGED <<refresher, since, voices>> /\ fresh' \subseteq fresh
        /\ offered' = offered \/ offered' = offered + 1
    BY <1>1 DEF OffersChange, Expires, catalogvars
  <2>2. ASSUME NEW r \in Refreshers PROVE Begun(refresher[r])'
    BY <1>0, <2>1 DEF Dates, Begun
  <2>3. QED
    BY <2>1, <2>2 DEF Dates
<1>2. ASSUME NEW r \in Refreshers,
             Visits(r) \/ FindsKey(r) \/ SyncsModels(r) \/ MarksModels(r) \/ ModelsFail(r) \/ ReleasesModels(r)
             \/ ReleasesVoice(r)
      PROVE  Dates'
  <2>1. OnlyOf(r) /\ Begun(refresher'[r])
    BY <1>2, DatedSteps DEF Visits, FindsKey, SyncsModels, MarksModels, ModelsFail, ReleasesModels, ReleasesVoice
  <2>2. /\ UNCHANGED <<fresh, since>> \/ (\E k \in Key : Freshens(r, k))
        /\ UNCHANGED <<offered, voices>>
    BY <1>0, <1>2 DEF Visits, FindsKey, SyncsModels, MarksModels, ModelsFail, ReleasesModels, ReleasesVoice,
         Releases, GivesBack
  <2>3. QED
    BY <2>1, <2>2, DatesOf DEF Dates
<1>3. ASSUME NEW r \in Refreshers, ClaimsModels(r) \/ AsksFresh(r) \/ ClaimsVoice(r) PROVE Dates'
  <2>1. UNCHANGED <<fresh, since, offered, voices>>
    BY <1>3 DEF ClaimsModels, AsksFresh, ClaimsVoice, Claims
  <2>2. CASE Rests(r) \/ (\E stage : Moves(r, stage))
    BY <2>1, <2>2, DatedSteps, DatesOf DEF Dates
  <2>3. CASE \/ refresher' = [refresher EXCEPT ![r].stage = "key", ![r].claims = TRUE, ![r].began["llm"] = offered]
             \/ refresher' = [refresher EXCEPT ![r].stage = "fetch", ![r].began["llm"] = offered]
             \/ refresher' = [refresher EXCEPT ![r].stage = "voicekey", ![r].began["voice"] = offered]
    <3>1. \/ refresher' = [refresher EXCEPT ![r] = [@ EXCEPT !.stage = "key", !.claims = TRUE, !.began["llm"] = offered]]
          \/ refresher' = [refresher EXCEPT ![r] = [@ EXCEPT !.stage = "fetch", !.began["llm"] = offered]]
          \/ refresher' = [refresher EXCEPT ![r] = [@ EXCEPT !.stage = "voicekey", !.began["voice"] = offered]]
      BY <2>3
    <3>3. /\ Begun([refresher[r] EXCEPT !.stage = "key", !.claims = TRUE, !.began["llm"] = offered])
          /\ Begun([refresher[r] EXCEPT !.stage = "fetch", !.began["llm"] = offered])
          /\ Begun([refresher[r] EXCEPT !.stage = "voicekey", !.began["voice"] = offered])
      BY <1>0 DEF Dates, Begun
    <3>4. OnlyOf(r) /\ Begun(refresher'[r])
      BY <3>1, <3>3, BecomesRecord
    <3>2. QED
      BY <2>1, <3>4, DatesOf DEF Dates
  <2>4. QED
    BY <1>3, <2>2, <2>3 DEF ClaimsModels, AsksFresh, ClaimsVoice, AfterVoice
<1>4. ASSUME NEW r \in Refreshers, FindsVoiceKey(r) PROVE Dates'
  <2>1. UNCHANGED <<fresh, since, offered, voices>>
    BY <1>4 DEF FindsVoiceKey, Releases
  <2>2. OnlyOf(r) /\ Begun(refresher'[r])
    <3>1. CASE AfterVoice(r)
      BY <3>1, DatedSteps
    <3>2. CASE ~AfterVoice(r)
      BY ZenonT(40), <1>4, <3>2 DEF FindsVoiceKey, OnlyOf, Dates, Begun, CatalogInv, Shaped
    <3>3. QED
      BY <3>1, <3>2
  <2>3. QED
    BY <2>1, <2>2, DatesOf DEF Dates
<1>5. ASSUME NEW r \in Refreshers, syncVoiceModels(r) PROVE Dates'
  <2>1. \E script, kinds, failed : Follows(r, script, kinds, failed) /\ DOMAIN kinds = VoiceKind
    <3> DEFINE me == refresher[r]
               step == Head(me.script)
    <3>1. DOMAIN me.kinds = VoiceKind
      BY DEF Dates, Begun
    <3>2. DOMAIN [me.kinds EXCEPT ![step[2]] = offered] = VoiceKind
      BY <3>1
    <3>3. \/ Follows(r, Tail(me.script), [me.kinds EXCEPT ![step[2]] = offered], me.failed)
          \/ Follows(r, Tail(me.script), me.kinds, me.failed)
          \/ Follows(r, LeftAfter(r), me.kinds, TRUE)
      BY <1>5 DEF syncVoiceModels
    <3> HIDE DEF me, step
    <3>4. QED
      BY <3>1, <3>2, <3>3
  <2>2. OnlyOf(r) /\ Begun(refresher'[r])
    <3>1. PICK script, kinds, failed : Follows(r, script, kinds, failed) /\ DOMAIN kinds = VoiceKind
      BY <2>1
    <3>2. OnlyOf(r) /\ Left(refresher[r], refresher'[r], script, kinds, failed)
      BY <3>1, FollowsRecord
    <3>3. QED
      BY <3>1, <3>2 DEF Left, Dates, Begun
  <2>3. UNCHANGED <<fresh, since, offered>> /\ DOMAIN voices' = VoiceKind
    BY <1>5 DEF syncVoiceModels, Dates
  <2>4. QED
    BY <2>2, <2>3, DatesOf
<1>6. ASSUME NEW r \in Refreshers, FetchModelNames(r) PROVE Dates'
  <2>1. OnlyOf(r) /\ Begun(refresher'[r]) /\ UNCHANGED <<fresh, since, offered, voices>>
    BY <1>6 DEF FetchModelNames, OnlyOf, Dates, Begun, CatalogInv, Shaped
  <2>2. QED
    BY <2>1, DatesOf DEF Dates
<1>7. QED
  BY <1>1, <1>2, <1>3, <1>4, <1>5, <1>6 DEF CatalogNext, Refreshes

(***************************************************************************)
(* MovesOn: only the stage of r changes. Quits: r ends its voices, keeping    *)
(* the claim of the models if it has it.                                   *)
(***************************************************************************)
Same(old, me) ==
  /\ me.claims = old.claims /\ me.began = old.began /\ me.names = old.names /\ me.kinds = old.kinds
  /\ me.script = old.script /\ me.failed = old.failed
MovesOn(r, stage) == OnlyOf(r) /\ Same(refresher[r], refresher'[r]) /\ refresher'[r].stage = stage
Finishes(r) == OnlyOf(r) /\ refresher'[r].stage = "idle" /\ ~refresher'[r].claims
Quits(r) == (MovesOn(r, "release") /\ refresher[r].claims) \/ Finishes(r)

LEMMA Whereto ==
  ASSUME CatalogInv, Dates, NEW r \in Refreshers
  PROVE  /\ \A stage : Moves(r, stage) => MovesOn(r, stage)
         /\ Rests(r) => Finishes(r)
         /\ AfterVoice(r) => Quits(r)
<1>1. ASSUME NEW stage, Moves(r, stage) PROVE MovesOn(r, stage)
  <2>1. OnlyOf(r) /\ refresher'[r] = [refresher[r] EXCEPT !.stage = stage]
    BY <1>1, MovesRecord
  <2>2. {"stage", "claims", "began", "names", "kinds", "script", "failed"} \subseteq DOMAIN refresher[r]
    BY DEF Dates, Begun
  <2>3. QED
    BY <2>1, <2>2 DEF MovesOn, Same
<1>2. ASSUME Rests(r) PROVE Finishes(r)
  BY <1>2, RestsRecord DEF Finishes, Resting
<1>3. ASSUME AfterVoice(r) PROVE Quits(r)
  BY <1>1, <1>2, <1>3 DEF AfterVoice, Quits
<1>4. QED
  BY <1>1, <1>2, <1>3

LEMMA VisitsTo ==
  ASSUME CatalogInv, Dates, NEW r \in Refreshers, Visits(r)
  PROVE  ~refresher[r].claims /\ (MovesOn(r, "voice") \/ MovesOn(r, "claim") \/ MovesOn(r, "ask"))
BY Whereto DEF Visits, CatalogInv, Shaped, Stands

LEMMA ClaimsModelsTo ==
  ASSUME CatalogInv, Dates, NEW r \in Refreshers, ClaimsModels(r)
  PROVE  OnlyOf(r) /\ refresher'[r].stage \in {"key", "idle"}
<1>1. CASE Rests(r)
  BY <1>1, Whereto DEF Finishes
<1>2. CASE ~Rests(r)
  BY <1>2 DEF ClaimsModels, CatalogInv, Shaped, OnlyOf
<1>3. QED
  BY <1>1, <1>2

LEMMA AsksFreshTo ==
  ASSUME CatalogInv, Dates, NEW r \in Refreshers, AsksFresh(r)
  PROVE  /\ OnlyOf(r) /\ ~refresher[r].claims
         /\ MovesOn(r, "voice") \/ refresher'[r].stage = "fetch"
<1>1. CASE Moves(r, "voice")
  BY <1>1, Whereto DEF AsksFresh, Stands, CatalogInv, Shaped, MovesOn
<1>2. CASE ~Moves(r, "voice")
  BY <1>2 DEF AsksFresh, Stands, CatalogInv, Shaped, OnlyOf
<1>3. QED
  BY <1>1, <1>2

LEMMA FetchTo ==
  ASSUME CatalogInv, Dates, NEW r \in Refreshers, FetchModelNames(r)
  PROVE  /\ OnlyOf(r) /\ refresher'[r].stage = "sync"
         /\ refresher'[r].names = offered /\ refresher'[r].began = refresher[r].began
BY DEF FetchModelNames, CatalogInv, Shaped, OnlyOf

LEMMA ClaimsVoiceTo ==
  ASSUME CatalogInv, Dates, NEW r \in Refreshers, ClaimsVoice(r)
  PROVE  \/ Quits(r) /\ UNCHANGED throttle
         \/ /\ OnlyOf(r) /\ refresher'[r].stage = "voicekey" /\ refresher'[r].claims = refresher[r].claims
            /\ refresher'[r].began["llm"] = refresher[r].began["llm"] /\ UNCHANGED <<fresh, since>>
<1>1. CASE ~Claimable("voice")
  BY <1>1, Whereto DEF ClaimsVoice, Claims, throttle
<1>2. CASE Claimable("voice")
  <2> DEFINE me == [refresher[r] EXCEPT !.stage = "voicekey", !.began["voice"] = offered]
  <2>1. UNCHANGED <<fresh, since>> /\ refresher' = [refresher EXCEPT ![r] = me]
    BY <1>2 DEF ClaimsVoice, Claims
  <2>2. me.stage = "voicekey" /\ me.claims = refresher[r].claims /\ me.began["llm"] = refresher[r].began["llm"]
    BY DEF Dates, Begun, Key
  <2> HIDE DEF me
  <2>3. QED
    BY <2>1, <2>2, BecomesRecord
<1>3. QED
  BY <1>1, <1>2

LEMMA FindsVoiceKeyTo ==
  ASSUME CatalogInv, Dates, NEW r \in Refreshers, FindsVoiceKey(r)
  PROVE  /\ UNCHANGED <<fresh, since>>
         /\ \/ Quits(r)
            \/ Left(refresher[r], refresher'[r], Script, refresher[r].kinds, refresher[r].failed) /\ OnlyOf(r)
<1>1. CASE AfterVoice(r)
  BY <1>1, Whereto DEF FindsVoiceKey, Releases, throttle
<1>2. CASE ~AfterVoice(r)
  <2> DEFINE me == [refresher[r] EXCEPT !.script = Script, !.stage = IF Script = <<>> THEN "free" ELSE "voices"]
  <2>1. UNCHANGED throttle /\ refresher' = [refresher EXCEPT ![r] = me]
    BY <1>2 DEF FindsVoiceKey
  <2>2. Left(refresher[r], me, Script, refresher[r].kinds, refresher[r].failed)
    BY DEF Left, Dates, Begun
  <2> HIDE DEF me
  <2>3. QED
    BY <2>1, <2>2, BecomesRecord DEF throttle
<1>3. QED
  BY <1>1, <1>2

LEMMA syncVoiceModelsTo ==
  ASSUME CatalogInv, Dates, NEW r \in Refreshers, syncVoiceModels(r)
  PROVE  /\ OnlyOf(r) /\ refresher'[r].stage \in {"voices", "free"}
         /\ refresher'[r].began = refresher[r].began /\ refresher'[r].claims = refresher[r].claims
<1>1. PICK script, kinds, failed : Follows(r, script, kinds, failed)
  BY DEF syncVoiceModels
<1>2. QED
  BY <1>1, FollowsRecord DEF Left

(***************************************************************************)
(* Names that were fetched are not older than the refresh they belong to.  *)
(***************************************************************************)
LEMMA NamesOf ==
  ASSUME NamesRecent, NEW r \in Refreshers, OnlyOf(r),
         refresher'[r].stage = "sync" => Recent(refresher[r].names, r, "llm")'
  PROVE  NamesRecent'
BY DEF NamesRecent, Recent, OnlyOf

LEMMA NamesStep == CatalogInv /\ Dates /\ NamesRecent /\ [CatalogNext]_catalogvars => NamesRecent'
<1> SUFFICES ASSUME CatalogInv, Dates, NamesRecent, [CatalogNext]_catalogvars PROVE NamesRecent'
  OBVIOUS
<1>1. CASE OffersChange \/ (\E k \in Key : Expires(k)) \/ UNCHANGED catalogvars
  BY <1>1 DEF OffersChange, Expires, catalogvars, NamesRecent, Recent
<1>2. ASSUME NEW r \in Refreshers,
             Visits(r) \/ FindsKey(r) \/ SyncsModels(r) \/ MarksModels(r) \/ ModelsFail(r) \/ ReleasesModels(r)
             \/ ReleasesVoice(r) \/ ClaimsModels(r) \/ AsksFresh(r) \/ ClaimsVoice(r) \/ FindsVoiceKey(r)
             \/ syncVoiceModels(r)
      PROVE  NamesRecent'
  <2>1. OnlyOf(r) /\ refresher'[r].stage # "sync"
    <3>1. ASSUME NEW stage, Moves(r, stage), stage # "sync" PROVE OnlyOf(r) /\ refresher'[r].stage # "sync"
      BY <3>1, Whereto DEF MovesOn
    <3>2. ASSUME Rests(r) \/ AfterVoice(r) \/ Quits(r) PROVE OnlyOf(r) /\ refresher'[r].stage # "sync"
      BY <3>2, Whereto DEF MovesOn, Finishes, Quits
    <3>3. CASE Visits(r) \/ FindsKey(r) \/ SyncsModels(r) \/ MarksModels(r)
      BY <3>1, <3>3 DEF Visits, FindsKey, SyncsModels, MarksModels
    <3>4. CASE ModelsFail(r) \/ ReleasesModels(r) \/ ReleasesVoice(r)
      BY <3>2, <3>4 DEF ModelsFail, ReleasesModels, ReleasesVoice
    <3>5. CASE ClaimsModels(r)
      BY <3>5, ClaimsModelsTo
    <3>6. CASE AsksFresh(r)
      BY <3>6, AsksFreshTo DEF MovesOn
    <3>7. CASE ClaimsVoice(r)
      BY <3>2, <3>7, ClaimsVoiceTo
    <3>8. CASE FindsVoiceKey(r)
      BY <3>2, <3>8, FindsVoiceKeyTo DEF Left
    <3>9. CASE syncVoiceModels(r)
      BY <3>9, syncVoiceModelsTo
    <3>10. QED
      BY <1>2, <3>3, <3>4, <3>5, <3>6, <3>7, <3>8, <3>9
  <2>2. QED
    BY <2>1, NamesOf
<1>3. ASSUME NEW r \in Refreshers, FetchModelNames(r) PROVE NamesRecent'
  <2>1. Recent(refresher[r].names, r, "llm")'
    BY <1>3, FetchTo DEF Recent, CatalogInv, LlmListed, Dates, Begun, Key
  <2>2. QED
    BY <1>3, <2>1, FetchTo, NamesOf
<1>4. QED
  BY <1>1, <1>2, <1>3 DEF CatalogNext, Refreshes

(***************************************************************************)
(* While nobody crossed, the models in the database are not older than     *)
(* the refresh that marked them, nor than the one that wrote them and has  *)
(* yet to mark them.                                                       *)
(***************************************************************************)
LEMMA ModelsOf ==
  ASSUME ModelsRecent, NEW r \in Refreshers, OnlyOf(r), models' = models,
         "llm" \in fresh' => "llm" \in fresh /\ since'["llm"] = since["llm"],
         Wrote(r)' => Wrote(r) /\ refresher'[r].began["llm"] = refresher[r].began["llm"]
  PROVE  ModelsRecent'
<1>1. \A q \in Refreshers : Wrote(q)' => Wrote(q) /\ refresher'[q].began["llm"] = refresher[q].began["llm"]
  BY DEF OnlyOf, Wrote
<1>2. QED
  BY <1>1 DEF ModelsRecent, Recent

LEMMA ModelsMarked ==
  ASSUME CatalogInv, ModelsRecent, Dates, NEW r \in Refreshers, OnlyOf(r), models' = models, Wrote(r),
         Freshens(r, "llm"), ~Wrote(r)'
  PROVE  ModelsRecent'
<1>1. \A q \in Refreshers : Wrote(q)' => Wrote(q) /\ refresher'[q].began["llm"] = refresher[q].began["llm"]
  BY DEF OnlyOf, Wrote
<1>2. since'["llm"] = refresher[r].began["llm"] /\ models >= refresher[r].began["llm"]
  BY DEF Freshens, Dates, Key, ModelsRecent, Recent
<1>3. QED
  BY <1>1, <1>2 DEF ModelsRecent, Recent

LEMMA ModelsStep ==
  CatalogInv /\ Dates /\ NamesRecent /\ ModelsRecent /\ ~crossed /\ [CatalogNext]_catalogvars => ModelsRecent'
<1> SUFFICES ASSUME CatalogInv, Dates, NamesRecent, ModelsRecent, ~crossed, [CatalogNext]_catalogvars
             PROVE  ModelsRecent'
  OBVIOUS
<1> USE DEF throttle, lists
<1>1. CASE OffersChange \/ (\E k \in Key : Expires(k)) \/ UNCHANGED catalogvars
  BY <1>1 DEF OffersChange, Expires, catalogvars, ModelsRecent, Wrote, Recent
<1>2. ASSUME NEW r \in Refreshers, Visits(r) \/ ClaimsModels(r) \/ FindsKey(r) \/ AsksFresh(r) \/ FetchModelNames(r)
             \/ ModelsFail(r)
      PROVE  ModelsRecent'
  <2>1. OnlyOf(r) /\ ~Wrote(r)'
    <3>1. CASE Visits(r)
      BY <3>1, VisitsTo DEF MovesOn, Same, Wrote
    <3>2. CASE ClaimsModels(r)
      BY <3>2, ClaimsModelsTo DEF Wrote, VoiceStages
    <3>3. CASE FindsKey(r)
      BY <3>3, Whereto DEF FindsKey, MovesOn, Wrote, VoiceStages
    <3>4. CASE AsksFresh(r)
      BY <3>4, AsksFreshTo DEF MovesOn, Same, Wrote, VoiceStages
    <3>5. CASE FetchModelNames(r)
      BY <3>5, FetchTo DEF Wrote, VoiceStages
    <3>6. CASE ModelsFail(r)
      BY <3>6, Whereto DEF ModelsFail, Finishes, Wrote
    <3>7. QED
      BY <1>2, <3>1, <3>2, <3>3, <3>4, <3>5, <3>6
  <2>2. UNCHANGED <<models, fresh, since>>
    BY <1>2 DEF Visits, ClaimsModels, FindsKey, AsksFresh, FetchModelNames, ModelsFail, GivesBack, Releases, Claims
  <2>3. QED
    BY <2>1, <2>2, ModelsOf
<1>3. ASSUME NEW r \in Refreshers, ClaimsVoice(r) \/ FindsVoiceKey(r) \/ syncVoiceModels(r) \/ ReleasesVoice(r)
      PROVE  ModelsRecent'
  <2>1. refresher[r].stage \in {"voice"} \cup VoiceStages
    BY <1>3 DEF ClaimsVoice, FindsVoiceKey, syncVoiceModels, ReleasesVoice, Stands, VoiceStages
  <2>2. ASSUME Quits(r)
        PROVE  OnlyOf(r) /\ (Wrote(r)' => Wrote(r) /\ refresher'[r].began["llm"] = refresher[r].began["llm"])
    BY <2>1, <2>2 DEF Quits, MovesOn, Same, Finishes, Wrote
  <2>3. OnlyOf(r) /\ (Wrote(r)' => Wrote(r) /\ refresher'[r].began["llm"] = refresher[r].began["llm"])
    <3>1. CASE ClaimsVoice(r)
      BY <2>1, <2>2, <3>1, ClaimsVoiceTo DEF Wrote
    <3>2. CASE FindsVoiceKey(r)
      BY <2>1, <2>2, <3>2, FindsVoiceKeyTo DEF Left, Wrote
    <3>3. CASE syncVoiceModels(r)
      BY <2>1, <3>3, syncVoiceModelsTo DEF Wrote
    <3>4. CASE ReleasesVoice(r)
      BY <2>2, <3>4, Whereto DEF ReleasesVoice
    <3>5. QED
      BY <1>3, <3>1, <3>2, <3>3, <3>4
  <2>4. models' = models
    BY <1>3 DEF ClaimsVoice, FindsVoiceKey, syncVoiceModels, ReleasesVoice
  <2>5. "llm" \in fresh' => "llm" \in fresh /\ since'["llm"] = since["llm"]
    <3>1. UNCHANGED <<fresh, since>> \/ Freshens(r, "voice")
      BY <1>3 DEF ClaimsVoice, FindsVoiceKey, syncVoiceModels, ReleasesVoice, Releases, Claims
    <3>2. QED
      BY <3>1 DEF Freshens, Dates, Key
  <2>6. QED
    BY <2>3, <2>4, <2>5, ModelsOf
<1>4. ASSUME NEW r \in Refreshers, SyncsModels(r) PROVE ModelsRecent'
  <2>1. Refreshing(r, "llm") /\ Recent(refresher[r].names, r, "llm")
    BY <1>4 DEF SyncsModels, Stands, Refreshing, NamesRecent
  <2>2. \A q \in Refreshers \ {r} : ~Wrote(q)
    BY <2>1 DEF CatalogInv, ModelsApart, Wrote, Refreshing, HoldsKey
  <2>3. "llm" \notin fresh'
    BY <1>4, <2>1 DEF SyncsModels, CatalogInv, ModelsApart
  <2>4. OnlyOf(r) /\ refresher'[r].began = refresher[r].began /\ models' = refresher[r].names
    BY <1>4, Whereto DEF SyncsModels, MovesOn, Same
  <2>5. QED
    BY <2>1, <2>2, <2>3, <2>4 DEF ModelsRecent, Recent, Wrote, OnlyOf
<1>5. ASSUME NEW r \in Refreshers, MarksModels(r) PROVE ModelsRecent'
  <2>1. OnlyOf(r) /\ Wrote(r) /\ ~Wrote(r)'
    BY <1>5, Whereto DEF MarksModels, Stands, MovesOn, Same, Wrote, CatalogInv, Shaped
  <2>2. QED
    BY <1>5, <2>1, ModelsMarked DEF MarksModels
<1>6. ASSUME NEW r \in Refreshers, ReleasesModels(r) PROVE ModelsRecent'
  <2>1. OnlyOf(r) /\ Wrote(r) /\ ~Wrote(r)'
    BY <1>6, Whereto DEF ReleasesModels, Stands, Finishes, Wrote, CatalogInv, Shaped
  <2>2. QED
    BY <1>6, <2>1, ModelsMarked DEF ReleasesModels, Releases
<1>7. QED
  BY <1>1, <1>2, <1>3, <1>4, <1>5, <1>6 DEF CatalogNext, Refreshes

(***************************************************************************)
(* A step of the voices that did not fail leaves less to do: the step at   *)
(* the head of the script is done, and was due.                            *)
(***************************************************************************)
LEMMA VoicesGoOn ==
  ASSUME CatalogInv, Dates, VoicesRecent, NEW r \in Refreshers, syncVoiceModels(r), ~refresher'[r].failed
  PROVE  Going(r)'
<1> DEFINE script == refresher[r].script
           kinds == refresher[r].kinds
           step == Head(script)
           l0 == step[2]
<1>1. \/ /\ step[1] = "fetch" /\ voices' = voices
         /\ Follows(r, Tail(script), [kinds EXCEPT ![l0] = offered], refresher[r].failed)
      \/ /\ step[1] = "sync" /\ voices' = [voices EXCEPT ![l0] = kinds[l0]]
         /\ Follows(r, Tail(script), kinds, refresher[r].failed)
      \/ Follows(r, LeftAfter(r), kinds, TRUE)
  BY DEF syncVoiceModels
<1>2. \/ /\ step[1] = "fetch" /\ voices' = voices
         /\ Left(refresher[r], refresher'[r], Tail(script), [kinds EXCEPT ![l0] = offered], refresher[r].failed)
      \/ /\ step[1] = "sync" /\ voices' = [voices EXCEPT ![l0] = kinds[l0]]
         /\ Left(refresher[r], refresher'[r], Tail(script), kinds, refresher[r].failed)
      \/ Left(refresher[r], refresher'[r], LeftAfter(r), kinds, TRUE)
  BY <1>1, FollowsRecord
<1>3. /\ step[1] = "fetch" \/ step[1] = "sync"
      /\ step[1] = "fetch" => voices' = voices /\ refresher'[r].kinds = [kinds EXCEPT ![l0] = offered]
      /\ step[1] = "sync" => voices' = [voices EXCEPT ![l0] = kinds[l0]] /\ refresher'[r].kinds = kinds
      /\ refresher'[r].script = Tail(script) /\ refresher'[r].began = refresher[r].began
      /\ ~refresher[r].failed
  BY <1>2 DEF Left
<1>4. Going(r) /\ script # <<>>
  BY <1>3 DEF VoicesRecent, syncVoiceModels, Stands
<1>5. /\ script \in Seq(VoiceStep) /\ step \in VoiceStep /\ Tail(script) \in Seq(VoiceStep) /\ script[1] = step
      /\ \A i \in DOMAIN Tail(script) : i + 1 \in DOMAIN script /\ Tail(script)[i] = script[i + 1]
      /\ 1 \in DOMAIN script /\ DOMAIN script \subseteq Nat /\ DOMAIN Tail(script) \subseteq Nat
  BY <1>4 DEF Going
<1>6. /\ DOMAIN kinds = VoiceKind /\ DOMAIN voices = VoiceKind
      /\ Recent(offered, r, "voice")
  BY DEF Dates, Begun, CatalogInv, LlmListed, Recent, Key
<1>7. /\ l0 \in VoiceLists /\ l0 \in VoiceKind /\ step = <<step[1], l0>>
      /\ VoiceLists \subseteq VoiceKind /\ VoiceLists' = VoiceLists
  <2>1. l0 \in VoiceLists
    BY <1>4, <1>5 DEF Going
  <2>2. step = <<step[1], l0>>
    <3> HIDE DEF step
    <3>1. PICK what \in {"fetch", "sync"}, l \in VoiceKind : step = <<what, l>>
      BY <1>5 DEF VoiceStep
    <3>2. QED
      BY <3>1
  <2>3. VoiceLists' = VoiceLists
    BY DEF syncVoiceModels, VoiceLists, Script
  <2>4. VoiceLists \subseteq VoiceKind
    BY ScriptFacts
  <2>5. QED
    BY <2>1, <2>2, <2>3, <2>4
<1>8. \A n : Recent(n, r, "voice")' <=> Recent(n, r, "voice")
  BY <1>3 DEF Recent
<1>9. ASSUME NEW s, NEW l, Has(script, <<s, l>>), <<s, l>> # step PROVE Has(Tail(script), <<s, l>>)
  BY <1>4, <1>5, <1>9, TailHas
<1>10. step[1] = "sync" => Recent(kinds[l0], r, "voice")
  <2>1. SUFFICES ASSUME step[1] = "sync", Has(script, <<"fetch", l0>>) PROVE FALSE
    BY <1>4, <1>7 DEF Going
  <2>2. PICK j \in DOMAIN script : script[j] = <<"fetch", l0>>
    BY <2>1 DEF Has
  <2>3. j < 1
    BY <1>4, <1>5, <2>1, <2>2 DEF Going
  <2>4. QED
    BY <1>5, <2>3
<1>11. ASSUME NEW l \in VoiceLists
       PROVE  Has(Tail(script), <<"fetch", l>>) \/ Recent(refresher'[r].kinds[l], r, "voice")
  <2>1. CASE <<"fetch", l>> = step
    <3>1. l = l0 /\ step[1] = "fetch"
      BY <2>1, <1>7
    <3>2. QED
      BY <3>1, <1>3, <1>6, <1>7
  <2>2. CASE <<"fetch", l>> # step
    <3>1. Has(Tail(script), <<"fetch", l>>) \/ Recent(kinds[l], r, "voice")
      BY <1>4, <1>9, <2>2 DEF Going
    <3>2. refresher'[r].kinds[l] = kinds[l]
      BY <1>3, <1>6, <1>7, <2>2
    <3>3. QED
      BY <3>1, <3>2
  <2>3. QED
    BY <2>1, <2>2
<1>12. ASSUME NEW l \in VoiceLists
       PROVE  Has(Tail(script), <<"sync", l>>) \/ Recent(voices'[l], r, "voice")
  <2>1. CASE <<"sync", l>> = step
    <3>1. l = l0 /\ step[1] = "sync"
      BY <2>1, <1>7
    <3>2. QED
      BY <3>1, <1>3, <1>6, <1>7, <1>10
  <2>2. CASE <<"sync", l>> # step
    <3>1. Has(Tail(script), <<"sync", l>>) \/ Recent(voices[l], r, "voice")
      BY <1>4, <1>9, <2>2 DEF Going
    <3>2. voices'[l] = voices[l]
      BY <1>3, <1>6, <1>7, <2>2
    <3>3. QED
      BY <3>1, <3>2
  <2>3. QED
    BY <2>1, <2>2
<1>13. ASSUME NEW i \in DOMAIN Tail(script), NEW j \in DOMAIN Tail(script),
              Tail(script)[i][1] = "sync", Tail(script)[j] = <<"fetch", Tail(script)[i][2]>>
       PROVE  j < i
  <2>1. j + 1 < i + 1
    BY <1>4, <1>5, <1>13 DEF Going
  <2>2. QED
    BY <1>5, <2>1
<1>14. \A i \in DOMAIN Tail(script) : Tail(script)[i][2] \in VoiceLists
  BY <1>4, <1>5 DEF Going
<1>15. refresher'[r].script = Tail(script) /\ Tail(script) \in Seq(VoiceStep)
  BY <1>3, <1>5
<1> HIDE DEF script, kinds, step, l0
<1>16. QED
  BY <1>7, <1>8, <1>11, <1>12, <1>13, <1>14, <1>15 DEF Going

(***************************************************************************)
(* A step after which r is not at the voices disturbs nothing, when it     *)
(* leaves their lists and their mark alone.                                *)
(***************************************************************************)
LEMMA VoicesOf ==
  ASSUME VoicesRecent, NEW r \in Refreshers, OnlyOf(r), UNCHANGED <<market, voices>>,
         "voice" \in fresh' => "voice" \in fresh /\ since'["voice"] = since["voice"],
         refresher'[r].stage \notin {"voices", "free"}
  PROVE  VoicesRecent'
<1>1. VoiceLists' = VoiceLists
  BY DEF VoiceLists, Script
<1>2. \A q \in Refreshers \ {r} : Going(q)' <=> Going(q)
  BY <1>1 DEF OnlyOf, Going, Recent
<1>3. QED
  BY <1>1, <1>2 DEF VoicesRecent, OnlyOf, Recent

LEMMA VoicesStep == CatalogInv /\ Dates /\ VoicesRecent /\ [CatalogNext]_catalogvars => VoicesRecent'
<1> SUFFICES ASSUME CatalogInv, Dates, VoicesRecent, [CatalogNext]_catalogvars PROVE VoicesRecent'
  OBVIOUS
<1> USE DEF throttle, lists
<1>1. CASE OffersChange \/ (\E k \in Key : Expires(k)) \/ UNCHANGED catalogvars
  <2>1. UNCHANGED <<market, refresher, voices, since>> /\ fresh' \subseteq fresh
    BY <1>1 DEF OffersChange, Expires, catalogvars
  <2>2. VoiceLists' = VoiceLists
    BY <2>1 DEF VoiceLists, Script
  <2>3. \A r \in Refreshers : Going(r)' <=> Going(r)
    BY <2>1, <2>2 DEF Going, Recent
  <2>4. QED
    BY <2>1, <2>2, <2>3 DEF VoicesRecent, Recent
<1>2. ASSUME NEW r \in Refreshers,
             Visits(r) \/ ClaimsModels(r) \/ FindsKey(r) \/ AsksFresh(r) \/ FetchModelNames(r) \/ SyncsModels(r)
             \/ MarksModels(r) \/ ModelsFail(r) \/ ReleasesModels(r) \/ ClaimsVoice(r)
      PROVE  VoicesRecent'
  <2>1. OnlyOf(r) /\ refresher'[r].stage \notin {"voices", "free"}
    <3>1. ASSUME NEW stage, Moves(r, stage), stage \notin {"voices", "free"}
          PROVE  OnlyOf(r) /\ refresher'[r].stage \notin {"voices", "free"}
      BY <3>1, Whereto DEF MovesOn
    <3>2. CASE Visits(r) \/ FindsKey(r) \/ SyncsModels(r) \/ MarksModels(r)
      BY <3>1, <3>2 DEF Visits, FindsKey, SyncsModels, MarksModels
    <3>3. CASE ModelsFail(r) \/ ReleasesModels(r)
      BY <3>3, Whereto DEF ModelsFail, ReleasesModels, Finishes
    <3>4. CASE ClaimsModels(r)
      BY <3>4, ClaimsModelsTo
    <3>5. CASE AsksFresh(r)
      BY <3>5, AsksFreshTo DEF MovesOn
    <3>6. CASE FetchModelNames(r)
      BY <3>6, FetchTo
    <3>7. CASE ClaimsVoice(r)
      BY <3>7, ClaimsVoiceTo DEF Quits, MovesOn, Finishes
    <3>8. QED
      BY <1>2, <3>2, <3>3, <3>4, <3>5, <3>6, <3>7
  <2>2. UNCHANGED <<market, voices>>
    BY <1>2 DEF Visits, ClaimsModels, FindsKey, AsksFresh, FetchModelNames, SyncsModels, MarksModels, ModelsFail,
         ReleasesModels, ClaimsVoice
  <2>3. UNCHANGED <<fresh, since>> \/ Freshens(r, "llm")
    BY <1>2 DEF Visits, ClaimsModels, FindsKey, AsksFresh, FetchModelNames, SyncsModels, MarksModels, ModelsFail,
         ReleasesModels, ClaimsVoice, GivesBack, Releases, Claims
  <2>4. "voice" \in fresh' => "voice" \in fresh /\ since'["voice"] = since["voice"]
    BY <2>3 DEF Freshens, Dates, Key
  <2>5. QED
    BY <2>1, <2>2, <2>4, VoicesOf
<1>3. ASSUME NEW r \in Refreshers, HoldsKey(r, "voice"), OnlyOf(r), fresh' = fresh, UNCHANGED market,
             ~refresher'[r].failed =>
                /\ refresher'[r].stage = "voices" => Going(r)' /\ refresher'[r].script # <<>>
                /\ refresher'[r].stage = "free" => \A l \in VoiceLists : Recent(voices[l], r, "voice")'
      PROVE  VoicesRecent'
  <2>1. "voice" \notin fresh'
    BY <1>3 DEF CatalogInv, VoiceStale
  <2>2. \A q \in Refreshers \ {r} : refresher'[q].stage \notin {"voices", "free"}
    BY <1>3 DEF CatalogInv, OneHolder, HoldsKey, VoiceStages, OnlyOf, Key
  <2>3. VoiceLists' = VoiceLists
    BY <1>3 DEF VoiceLists, Script
  <2>4. QED
    BY <1>3, <2>1, <2>2, <2>3 DEF VoicesRecent
<1>4. ASSUME NEW r \in Refreshers, FindsVoiceKey(r) PROVE VoicesRecent'
  <2>1. UNCHANGED <<fresh, since, market, voices>> /\ HoldsKey(r, "voice")
    BY <1>4 DEF FindsVoiceKey, Releases, Stands, HoldsKey, VoiceStages
  <2>2. CASE Quits(r)
    BY <2>1, <2>2, VoicesOf DEF Quits, MovesOn, Finishes
  <2>3. CASE ~Quits(r)
    <3>1. OnlyOf(r) /\ Left(refresher[r], refresher'[r], Script, refresher[r].kinds, refresher[r].failed)
      BY <1>4, <2>3, FindsVoiceKeyTo
    <3>2. Script' = Script /\ VoiceLists' = VoiceLists /\ refresher'[r].script = Script
      BY <2>1, <3>1 DEF Script, VoiceLists, Left
    <3>3. Going(r)'
      BY <3>2, ScriptFacts DEF Going
    <3>4. Script = <<>> => VoiceLists = {}
      BY DEF VoiceLists
    <3>5. QED
      BY <1>3, <2>1, <3>1, <3>2, <3>3, <3>4 DEF Left
  <2>4. QED
    BY <2>2, <2>3
<1>5. ASSUME NEW r \in Refreshers, syncVoiceModels(r) PROVE VoicesRecent'
  <2>1. UNCHANGED <<fresh, since, market>> /\ HoldsKey(r, "voice")
    BY <1>5 DEF syncVoiceModels, Stands, HoldsKey, VoiceStages
  <2>2. PICK script, kinds, failed : Follows(r, script, kinds, failed)
    BY <1>5 DEF syncVoiceModels
  <2>3. OnlyOf(r) /\ refresher'[r].script = script /\ refresher'[r].stage = IF script = <<>> THEN "free" ELSE "voices"
    BY <2>2, FollowsRecord DEF Left
  <2>4. ~refresher'[r].failed => Going(r)'
    BY <1>5, VoicesGoOn
  <2>5. \A step : ~Has(<<>>, step)
    BY DEF Has
  <2>6. VoiceLists' = VoiceLists
    BY <2>1 DEF VoiceLists, Script
  <2>7. ~refresher'[r].failed /\ script = <<>> => \A l \in VoiceLists : Recent(voices[l], r, "voice")'
    BY <2>3, <2>4, <2>5, <2>6 DEF Going
  <2>8. QED
    BY <1>3, <2>1, <2>3, <2>4, <2>7
<1>6. ASSUME NEW r \in Refreshers, ReleasesVoice(r) PROVE VoicesRecent'
  <2>1. UNCHANGED <<market, voices>> /\ Quits(r) /\ refresher[r].stage = "free"
    BY <1>6, Whereto DEF ReleasesVoice, Stands
  <2>2. OnlyOf(r) /\ refresher'[r].stage \notin {"voices", "free"}
    BY <2>1 DEF Quits, MovesOn, Finishes
  <2>3. CASE refresher[r].failed
    BY <1>6, <2>1, <2>2, <2>3, VoicesOf DEF ReleasesVoice, Releases
  <2>4. CASE ~refresher[r].failed
    <3>1. \A l \in VoiceLists : Recent(voices[l], r, "voice")
      BY <2>1, <2>4 DEF VoicesRecent
    <3>2. since'["voice"] = refresher[r].began["voice"]
      BY <1>6, <2>4 DEF ReleasesVoice, Releases, Freshens, Dates, Key
    <3>3. \A q \in Refreshers \ {r} : refresher'[q].stage \notin {"voices", "free"}
      BY <2>1, <2>2 DEF CatalogInv, OneHolder, HoldsKey, VoiceStages, OnlyOf, Key
    <3>4. VoiceLists' = VoiceLists
      BY <2>1 DEF VoiceLists, Script
    <3>5. QED
      BY <2>1, <2>2, <3>1, <3>2, <3>3, <3>4 DEF VoicesRecent, Recent
  <2>5. QED
    BY <2>3, <2>4
<1>7. QED
  BY <1>1, <1>2, <1>4, <1>5, <1>6 DEF CatalogNext, Refreshes

(***************************************************************************)
(* A list that is served as fresh is complete and not older than the       *)
(* refresh that marked it, whatever fails, the models as long as no lister *)
(* without a claim refreshed them where it needed one.                     *)
(***************************************************************************)
THEOREM FreshIsCurrentHolds == CatalogSpec => []FreshIsCurrent
<1>1. CatalogInv /\ CurrentInv => FreshIsCurrent
  <2> SUFFICES ASSUME CatalogInv, CurrentInv, NEW k \in fresh, k = "voice" \/ ~crossed, NEW v \in Versions(k)
               PROVE  v >= since[k] /\ v # 0
    BY DEF FreshIsCurrent
  <2>1. CASE k = "voice"
    <3>1. PICK i \in DOMAIN Script : v = voices[Script[i][2]]
      BY <2>1 DEF Versions
    <3>2. Script[i][2] \in VoiceLists
      BY DEF VoiceLists
    <3>3. QED
      BY <2>1, <3>1, <3>2 DEF CurrentInv, VoicesRecent
  <2>2. CASE k # "voice"
    <3>1. k = "llm" /\ ~crossed
      BY <2>2 DEF CurrentInv, Dates, Key
    <3>2. v = models
      BY <3>1 DEF Versions
    <3>3. QED
      BY <3>1, <3>2 DEF CurrentInv, ModelsRecent, CatalogInv, LlmListed
  <2>3. QED
    BY <2>1, <2>2
<1>2. CatalogInv /\ CurrentInv /\ [CatalogNext]_catalogvars => CurrentInv'
  <2> SUFFICES ASSUME CatalogInv, CurrentInv, [CatalogNext]_catalogvars PROVE CurrentInv'
    OBVIOUS
  <2>1. crossed => crossed'
    BY DEF CatalogNext, Refreshes, Visits, ClaimsModels, FindsKey, AsksFresh, FetchModelNames, SyncsModels,
         MarksModels, ModelsFail, ClaimsVoice, FindsVoiceKey, syncVoiceModels, ReleasesVoice, ReleasesModels,
         OffersChange, Expires, catalogvars
  <2>2. QED
    BY <2>1, DatesStep, NamesStep, ModelsStep, VoicesStep DEF CurrentInv
<1>3. QED
  BY <1>1, <1>2, CatalogInvInit, CatalogInvStep, CurrentInit, PTL DEF CatalogSpec

(***************************************************************************)
(* The types. What is left of a script is an end of the script of the      *)
(* provider, so that a failed fetch of ElevenLabs has a list to skip.      *)
(***************************************************************************)
Tails(fa, sa, fb, sb) ==
  IF market.provider = "mistral"
  THEN {<<>>, <<sb>>, <<sa, sb>>, <<fb, sa, sb>>, <<fa, fb, sa, sb>>}
  ELSE {<<>>, <<sb>>, <<fb, sb>>, <<sa, fb, sb>>, <<fa, sa, fb, sb>>}
Remainders ==
  CASE market.provider = "mistral" -> Tails(<<"fetch", "stt">>, <<"sync", "stt">>, <<"fetch", "tts">>, <<"sync", "tts">>)
    [] market.provider = "elevenlabs" -> Tails(<<"fetch", "tts">>, <<"sync", "tts">>, <<"fetch", "sts">>, <<"sync", "sts">>)
    [] OTHER -> {<<>>}
Refresher ==
  [stage : Stage, claims : BOOLEAN, began : [Key -> Version], names : Version,
   kinds : [VoiceKind -> Version], script : Seq(VoiceStep), failed : BOOLEAN]
Scripted ==
  \A r \in Refreshers : /\ refresher[r].script \in Remainders
                        /\ refresher[r].stage = "voices" => refresher[r].script # <<>>
CatalogTypes ==
  /\ market \in Markets /\ offered \in 1 .. MaxOffers
  /\ models \in Version /\ voices \in [VoiceKind -> Version] /\ fresh \subseteq Key /\ claimed \subseteq Key
  /\ since \in [Key -> Version] /\ visits \in 0 .. market.visits /\ crossed \in BOOLEAN
  /\ refresher \in [Refreshers -> Refresher]

LEMMA EndsFacts ==
  /\ Script \in Remainders /\ <<>> \in Remainders /\ Remainders \subseteq Seq(VoiceStep)
  /\ \A s \in Remainders : Len(s) <= 4
  /\ \A s \in Remainders \ {<<>>} :
        /\ Head(s)[1] \in {"fetch", "sync"} /\ Head(s)[2] \in VoiceKind /\ Tail(s) \in Remainders
        /\ market.provider # "mistral" /\ Head(s)[1] = "fetch" => Tail(Tail(s)) \in Remainders
<1>1. /\ <<"fetch", "stt">> \in VoiceStep /\ <<"sync", "stt">> \in VoiceStep
      /\ <<"fetch", "tts">> \in VoiceStep /\ <<"sync", "tts">> \in VoiceStep
      /\ <<"fetch", "sts">> \in VoiceStep /\ <<"sync", "sts">> \in VoiceStep
  BY DEF VoiceStep, VoiceKind
<1>7. \A step \in VoiceStep : step[1] \in {"fetch", "sync"} /\ step[2] \in VoiceKind
  BY DEF VoiceStep
<1>2. ASSUME NEW fa \in VoiceStep, NEW sa \in VoiceStep, NEW fb \in VoiceStep, NEW sb \in VoiceStep,
             sa[1] # "fetch", sb[1] # "fetch"
      PROVE  /\ Tails(fa, sa, fb, sb) \subseteq Seq(VoiceStep)
             /\ \A s \in Tails(fa, sa, fb, sb) : Len(s) <= 4
             /\ \A s \in Tails(fa, sa, fb, sb) \ {<<>>} :
                   /\ Head(s) \in VoiceStep /\ Tail(s) \in Tails(fa, sa, fb, sb)
                   /\ market.provider # "mistral" /\ Head(s)[1] = "fetch" => Tail(Tail(s)) \in Tails(fa, sa, fb, sb)
  <2> SUFFICES ASSUME NEW s \in Tails(fa, sa, fb, sb)
               PROVE  /\ s \in Seq(VoiceStep) /\ Len(s) <= 4
                      /\ s # <<>> =>
                            /\ Head(s) \in VoiceStep /\ Tail(s) \in Tails(fa, sa, fb, sb)
                            /\ market.provider # "mistral" /\ Head(s)[1] = "fetch" => Tail(Tail(s)) \in Tails(fa, sa, fb, sb)
    OBVIOUS
  <2>1. CASE market.provider = "mistral"
    <3>1. CASE s = <<>>
      BY <1>2, <2>1, <3>1 DEF Tails
    <3>2. CASE s = <<sb>>
      BY <1>2, <2>1, <3>2 DEF Tails
    <3>3. CASE s = <<sa, sb>>
      <4>1. s \in Seq(VoiceStep) /\ Len(s) = 2 /\ Head(s) = sa
        BY <3>3
      <4>2. Tail(s) = <<sb>>
        BY <3>3
      <4>3. QED
        BY <1>2, <2>1, <4>1, <4>2 DEF Tails
    <3>4. CASE s = <<fb, sa, sb>>
      <4>1. s \in Seq(VoiceStep) /\ Len(s) = 3 /\ Head(s) = fb
        BY <3>4
      <4>2. Tail(s) = <<sa, sb>>
        BY <3>4
      <4>3. QED
        BY <1>2, <2>1, <4>1, <4>2 DEF Tails
    <3>5. CASE s = <<fa, fb, sa, sb>>
      <4>1. s \in Seq(VoiceStep) /\ Len(s) = 4 /\ Head(s) = fa
        BY <3>5
      <4>2. Tail(s) = <<fb, sa, sb>>
        BY <3>5
      <4>3. QED
        BY <1>2, <2>1, <4>1, <4>2 DEF Tails
    <3>6. QED
      BY <2>1, <3>1, <3>2, <3>3, <3>4, <3>5 DEF Tails
  <2>2. CASE market.provider # "mistral"
    <3>1. CASE s = <<>>
      BY <1>2, <2>2, <3>1 DEF Tails
    <3>2. CASE s = <<sb>>
      BY <1>2, <2>2, <3>2 DEF Tails
    <3>3. CASE s = <<fb, sb>>
      <4>1. s \in Seq(VoiceStep) /\ Len(s) = 2 /\ Head(s) = fb
        BY <3>3
      <4>2. Tail(s) = <<sb>>
        BY <3>3
      <4>3. Tail(<<sb>>) = <<>>
        OBVIOUS
      <4>4. QED
        BY <1>2, <2>2, <4>1, <4>2, <4>3 DEF Tails
    <3>4. CASE s = <<sa, fb, sb>>
      <4>1. s \in Seq(VoiceStep) /\ Len(s) = 3 /\ Head(s) = sa
        BY <3>4
      <4>2. Tail(s) = <<fb, sb>>
        BY <3>4
      <4>3. Tail(<<fb, sb>>) = <<sb>>
        OBVIOUS
      <4>4. QED
        BY <1>2, <2>2, <4>1, <4>2, <4>3 DEF Tails
    <3>5. CASE s = <<fa, sa, fb, sb>>
      <4>1. s \in Seq(VoiceStep) /\ Len(s) = 4 /\ Head(s) = fa
        BY <3>5
      <4>2. Tail(s) = <<sa, fb, sb>>
        BY <3>5
      <4>3. Tail(<<sa, fb, sb>>) = <<fb, sb>>
        OBVIOUS
      <4>4. Tail(s) \in Tails(fa, sa, fb, sb) /\ Tail(Tail(s)) \in Tails(fa, sa, fb, sb)
        BY <2>2, <4>2, <4>3 DEF Tails
      <4>5. QED
        BY <4>1, <4>4
    <3>6. QED
      BY <2>2, <3>1, <3>2, <3>3, <3>4, <3>5 DEF Tails
  <2>3. QED
    BY <2>1, <2>2
<1>3. CASE market.provider = "mistral"
  <2>1. Remainders = Tails(<<"fetch", "stt">>, <<"sync", "stt">>, <<"fetch", "tts">>, <<"sync", "tts">>)
    BY <1>3 DEF Remainders
  <2>2. Script \in Remainders /\ <<>> \in Remainders
    BY <1>3, <2>1 DEF Script, Tails
  <2>3. QED
    BY <1>1, <1>2, <1>7, <2>1, <2>2
<1>4. CASE market.provider = "elevenlabs"
  <2>1. Remainders = Tails(<<"fetch", "tts">>, <<"sync", "tts">>, <<"fetch", "sts">>, <<"sync", "sts">>)
    BY <1>4 DEF Remainders
  <2>2. Script \in Remainders /\ <<>> \in Remainders
    BY <1>4, <2>1 DEF Script, Tails
  <2>3. QED
    BY <1>1, <1>2, <1>7, <2>1, <2>2
<1>5. CASE market.provider \notin {"mistral", "elevenlabs"}
  <2>1. Remainders = {<<>>} /\ Script = <<>>
    BY <1>5 DEF Remainders, Script
  <2>2. QED
    BY <2>1
<1>6. QED
  BY <1>3, <1>4, <1>5

LEMMA CatalogTypesInit == CatalogInit => CatalogTypes /\ Scripted
<1> SUFFICES ASSUME CatalogInit PROVE CatalogTypes /\ Scripted
  OBVIOUS
<1>1. market.visits \in Nat
  BY MarketsAssumption DEF CatalogInit, Market
<1>2. Resting \in Refresher
  BY OffersAssumption DEF Resting, Refresher, Stage, Version
<1>3. CatalogTypes
  <2>1. /\ 0 \in Version /\ 1 \in 1 .. MaxOffers /\ market.visits \in 0 .. market.visits
        /\ [l \in VoiceKind |-> 0] \in [VoiceKind -> Version] /\ [k \in Key |-> 0] \in [Key -> Version]
    BY <1>1, OffersAssumption DEF Version
  <2>2. refresher \in [Refreshers -> Refresher]
    BY <1>2 DEF CatalogInit
  <2>3. QED
    BY <2>1, <2>2 DEF CatalogInit, CatalogTypes
<1>4. Scripted
  BY EndsFacts DEF CatalogInit, Scripted, Resting
<1>5. QED
  BY <1>3, <1>4

(***************************************************************************)
(* A step of r that leaves it a record of the type, and a script of the    *)
(* provider.                                                               *)
(***************************************************************************)
Fits(me) == me \in Refresher /\ me.script \in Remainders /\ (me.stage = "voices" => me.script # <<>>)

LEMMA FitsRecord ==
  ASSUME CatalogTypes, Scripted, UNCHANGED market, NEW r \in Refreshers, NEW me, Fits(me),
         refresher' = [refresher EXCEPT ![r] = me]
  PROVE  refresher' \in [Refreshers -> Refresher] /\ Scripted'
<1>1. refresher' \in [Refreshers -> Refresher]
  BY DEF CatalogTypes, Fits
<1>2. Remainders' = Remainders
  BY DEF Remainders, Tails
<1>3. \A q \in Refreshers : refresher'[q] = IF q = r THEN me ELSE refresher[q]
  BY DEF CatalogTypes
<1>4. QED
  BY <1>1, <1>2, <1>3 DEF Scripted, Fits

LEMMA FitsSteps ==
  ASSUME CatalogTypes, Scripted, UNCHANGED market, NEW r \in Refreshers
  PROVE  /\ \A stage \in Stage \ {"voices"} : Moves(r, stage) => refresher' \in [Refreshers -> Refresher] /\ Scripted'
         /\ Rests(r) \/ AfterVoice(r) => refresher' \in [Refreshers -> Refresher] /\ Scripted'
<1>1. Fits(refresher[r]) /\ refresher[r] \in Refresher
  BY DEF CatalogTypes, Scripted, Fits
<1>2. ASSUME NEW stage \in Stage \ {"voices"}, Moves(r, stage)
      PROVE  refresher' \in [Refreshers -> Refresher] /\ Scripted'
  <2>1. refresher' = [refresher EXCEPT ![r] = [refresher[r] EXCEPT !.stage = stage]]
    BY <1>2 DEF Moves, CatalogTypes
  <2>2. Fits([refresher[r] EXCEPT !.stage = stage])
    BY <1>1 DEF Fits, Refresher
  <2>3. QED
    BY <2>1, <2>2, FitsRecord
<1>3. ASSUME Rests(r) PROVE refresher' \in [Refreshers -> Refresher] /\ Scripted'
  <2>1. Fits(Resting)
    BY EndsFacts, OffersAssumption DEF Fits, Resting, Refresher, Stage, Version
  <2>2. QED
    BY <1>3, <2>1, FitsRecord DEF Rests
<1>4. QED
  BY <1>2, <1>3 DEF AfterVoice, Stage

LEMMA ThrottleTypes ==
  ASSUME CatalogTypes, NEW r \in Refreshers, NEW k \in Key,
         \/ UNCHANGED throttle \/ Claims(k) \/ (Freshens(r, k) /\ UNCHANGED claimed)
         \/ (\E success \in BOOLEAN : Releases(r, k, success)) \/ GivesBack(r)
  PROVE  fresh' \subseteq Key /\ claimed' \subseteq Key /\ since' \in [Key -> Version]
<1>1. refresher[r].began[k] \in Version /\ "llm" \in Key
  BY DEF CatalogTypes, Refresher, Key
<1>2. QED
  BY <1>1 DEF CatalogTypes, throttle, Claims, Freshens, Releases, GivesBack

LEMMA CatalogTypesStep == CatalogTypes /\ Scripted /\ [CatalogNext]_catalogvars => CatalogTypes' /\ Scripted'
<1> SUFFICES ASSUME CatalogTypes, Scripted, [CatalogNext]_catalogvars PROVE CatalogTypes' /\ Scripted'
  OBVIOUS
<1> USE DEF throttle, lists
<1>0. /\ offered \in Version /\ Key = {"llm", "voice"} /\ market.visits \in Nat
      /\ \A r \in Refreshers : refresher[r] \in Refresher
  BY OffersAssumption, MarketsAssumption DEF CatalogTypes, Version, Key, Market
<1>1. CASE OffersChange \/ (\E k \in Key : Expires(k)) \/ UNCHANGED catalogvars
  <2>1. /\ UNCHANGED <<market, lists, claimed, since, refresher, visits, crossed>>
        /\ fresh' \subseteq fresh /\ offered' \in 1 .. MaxOffers
    BY <1>1, OffersAssumption DEF OffersChange, Expires, catalogvars, CatalogTypes
  <2>2. Remainders' = Remainders
    BY <2>1 DEF Remainders, Tails
  <2>3. QED
    BY <2>1, <2>2 DEF CatalogTypes, Scripted
<1>2. ASSUME NEW r \in Refreshers, UNCHANGED <<market, offered>>, models' \in Version, voices' \in [VoiceKind -> Version],
             fresh' \subseteq Key, claimed' \subseteq Key, since' \in [Key -> Version],
             visits' \in 0 .. market.visits, crossed' \in BOOLEAN,
             refresher' \in [Refreshers -> Refresher], Scripted'
      PROVE  CatalogTypes' /\ Scripted'
  BY <1>2 DEF CatalogTypes
<1>3. ASSUME NEW r \in Refreshers, Visits(r) \/ FindsKey(r) \/ SyncsModels(r) \/ MarksModels(r) \/ ModelsFail(r)
             \/ ReleasesVoice(r) \/ ReleasesModels(r)
      PROVE  CatalogTypes' /\ Scripted'
  <2>1. /\ UNCHANGED <<market, offered, voices, crossed>>
        /\ models' = models \/ models' = refresher[r].names
        /\ visits' = visits \/ (visits > 0 /\ visits' = visits - 1)
    BY <1>3 DEF Visits, FindsKey, SyncsModels, MarksModels, ModelsFail, ReleasesVoice, ReleasesModels
  <2>2. models' \in Version /\ visits' \in 0 .. market.visits
    BY <1>0, <2>1 DEF CatalogTypes, Refresher
  <2>3. fresh' \subseteq Key /\ claimed' \subseteq Key /\ since' \in [Key -> Version]
    BY <1>0, <1>3, ThrottleTypes DEF Visits, FindsKey, SyncsModels, MarksModels, ModelsFail, ReleasesVoice,
         ReleasesModels, Refresher
  <2>4. (\E stage \in Stage \ {"voices"} : Moves(r, stage)) \/ Rests(r) \/ AfterVoice(r)
    BY <1>3 DEF Visits, FindsKey, SyncsModels, MarksModels, ModelsFail, ReleasesVoice, ReleasesModels, Stage
  <2>5. refresher' \in [Refreshers -> Refresher] /\ Scripted'
    BY <2>1, <2>4, FitsSteps
  <2>6. QED
    BY <1>2, <2>1, <2>2, <2>3, <2>5 DEF CatalogTypes
<1>4. ASSUME NEW r \in Refreshers, ClaimsModels(r) \/ AsksFresh(r) \/ FetchModelNames(r) \/ ClaimsVoice(r)
      PROVE  CatalogTypes' /\ Scripted'
  <2>1. UNCHANGED <<market, offered, models, voices, visits>> /\ crossed' \in BOOLEAN
    BY <1>4 DEF ClaimsModels, AsksFresh, FetchModelNames, ClaimsVoice, CatalogTypes
  <2>2. fresh' \subseteq Key /\ claimed' \subseteq Key /\ since' \in [Key -> Version]
    BY <1>0, <1>4, ThrottleTypes DEF ClaimsModels, AsksFresh, FetchModelNames, ClaimsVoice
  <2> DEFINE me == refresher[r]
             claimsModels == [me EXCEPT !.stage = "key", !.claims = TRUE, !.began["llm"] = offered]
             asks == [me EXCEPT !.stage = "fetch", !.began["llm"] = offered]
             fetches == [me EXCEPT !.stage = "sync", !.names = offered]
             claimsVoice == [me EXCEPT !.stage = "voicekey", !.began["voice"] = offered]
  <2>3. Fits(claimsModels) /\ Fits(asks) /\ Fits(fetches) /\ Fits(claimsVoice)
    BY <1>0 DEF Fits, Refresher, Stage, Scripted
  <2>4. \/ refresher' = [refresher EXCEPT ![r] = claimsModels] \/ refresher' = [refresher EXCEPT ![r] = asks]
        \/ refresher' = [refresher EXCEPT ![r] = fetches] \/ refresher' = [refresher EXCEPT ![r] = claimsVoice]
        \/ (\E stage \in Stage \ {"voices"} : Moves(r, stage)) \/ Rests(r) \/ AfterVoice(r)
    BY <1>4 DEF ClaimsModels, AsksFresh, FetchModelNames, ClaimsVoice, Stage
  <2> HIDE DEF claimsModels, asks, fetches, claimsVoice
  <2>5. refresher' \in [Refreshers -> Refresher] /\ Scripted'
    BY <2>1, <2>3, <2>4, FitsRecord, FitsSteps
  <2>6. QED
    BY <1>2, <2>1, <2>2, <2>5 DEF CatalogTypes
<1>5. ASSUME NEW r \in Refreshers, FindsVoiceKey(r) PROVE CatalogTypes' /\ Scripted'
  <2>1. UNCHANGED <<market, offered, models, voices, visits, crossed>>
    BY <1>5 DEF FindsVoiceKey
  <2>2. fresh' \subseteq Key /\ claimed' \subseteq Key /\ since' \in [Key -> Version]
    BY <1>0, <1>5, ThrottleTypes DEF FindsVoiceKey
  <2> DEFINE started == [refresher[r] EXCEPT !.script = Script, !.stage = IF Script = <<>> THEN "free" ELSE "voices"]
  <2>3. Fits(started)
    BY <1>0, EndsFacts DEF Fits, Refresher, Stage
  <2>4. refresher' = [refresher EXCEPT ![r] = started] \/ AfterVoice(r)
    BY <1>5 DEF FindsVoiceKey
  <2> HIDE DEF started
  <2>5. refresher' \in [Refreshers -> Refresher] /\ Scripted'
    BY <2>1, <2>3, <2>4, FitsRecord, FitsSteps
  <2>6. QED
    BY <1>2, <2>1, <2>2, <2>5 DEF CatalogTypes
<1>6. ASSUME NEW r \in Refreshers, syncVoiceModels(r) PROVE CatalogTypes' /\ Scripted'
  <2> DEFINE script == refresher[r].script
             kind == Head(script)[2]
  <2>1. script \in Remainders \ {<<>>} /\ kind \in VoiceKind /\ Tail(script) \in Remainders /\ LeftAfter(r) \in Remainders
    BY <1>6, EndsFacts DEF syncVoiceModels, Stands, Scripted, LeftAfter
  <2>2. UNCHANGED <<market, offered, models, throttle, visits, crossed>>
    BY <1>6 DEF syncVoiceModels
  <2>0. refresher[r].kinds \in [VoiceKind -> Version] /\ refresher[r].failed \in BOOLEAN
    BY <1>0 DEF Refresher
  <2>3. voices' \in [VoiceKind -> Version]
    <3>1. UNCHANGED voices \/ voices' = [voices EXCEPT ![kind] = refresher[r].kinds[kind]]
      BY <1>6 DEF syncVoiceModels
    <3> HIDE DEF kind
    <3>2. QED
      BY <2>0, <2>1, <3>1 DEF CatalogTypes
  <2>4. PICK left \in Remainders, kinds \in [VoiceKind -> Version], failed \in BOOLEAN : Follows(r, left, kinds, failed)
    <3>1. \/ Follows(r, Tail(script), [refresher[r].kinds EXCEPT ![kind] = offered], refresher[r].failed)
          \/ Follows(r, Tail(script), refresher[r].kinds, refresher[r].failed)
          \/ Follows(r, LeftAfter(r), refresher[r].kinds, TRUE)
      BY <1>6 DEF syncVoiceModels
    <3>2. [refresher[r].kinds EXCEPT ![kind] = offered] \in [VoiceKind -> Version]
      BY <1>0, <2>0, <2>1
    <3> HIDE DEF script, kind
    <3>3. QED
      BY <2>0, <2>1, <3>1, <3>2
  <2> DEFINE me == [refresher[r] EXCEPT !.script = left, !.kinds = kinds, !.failed = failed,
                                        !.stage = IF left = <<>> THEN "free" ELSE "voices"]
  <2>5. refresher' = [refresher EXCEPT ![r] = me]
    BY <2>4 DEF Follows
  <2>6. Fits(me)
    BY <1>0, <2>4, EndsFacts DEF Fits, Refresher, Stage
  <2> HIDE DEF me
  <2>7. refresher' \in [Refreshers -> Refresher] /\ Scripted'
    BY <2>2, <2>5, <2>6, FitsRecord
  <2>8. QED
    BY <1>2, <2>2, <2>3, <2>7 DEF CatalogTypes
<1>7. QED
  BY <1>1, <1>3, <1>4, <1>5, <1>6 DEF CatalogNext, Refreshes

(***************************************************************************)
(* Every list, the throttle and what each goroutine is at keep their       *)
(* types: no list is of a version the provider never offered, and no       *)
(* refresh goes on past the end of its lists.                              *)
(***************************************************************************)
THEOREM CatalogTypeCorrect == CatalogSpec => []CatalogTypeOK
<1>1. CatalogTypes /\ Scripted => CatalogTypeOK
  BY EndsFacts DEF CatalogTypes, Scripted, CatalogTypeOK, Refresher
<1>2. QED
  BY <1>1, CatalogTypesInit, CatalogTypesStep, PTL DEF CatalogSpec

--------------------------------------------------------------------------------
(***************************************************************************)
(* A claim is given back: it has a holder, and each step of the holder     *)
(* brings it nearer to its end.                                            *)
(***************************************************************************)
LEMMA HeldOn ==
  ASSUME ClaimsAreHeld, NEW r \in Refreshers, OnlyOf(r),
         \A k \in claimed' : (k \in claimed /\ (HoldsKey(r, k) => HoldsKey(r, k)')) \/ HoldsKey(r, k)'
  PROVE  ClaimsAreHeld'
<1> SUFFICES ASSUME NEW k \in claimed' PROVE \E q \in Refreshers : HoldsKey(q, k)'
  BY DEF ClaimsAreHeld
<1>1. \A q \in Refreshers \ {r} : HoldsKey(q, k) => HoldsKey(q, k)'
  BY DEF OnlyOf, HoldsKey
<1>2. QED
  BY <1>1 DEF ClaimsAreHeld

LEMMA HeldStep == CatalogInv /\ Dates /\ claimed \subseteq Key /\ ClaimsAreHeld /\ [CatalogNext]_catalogvars => ClaimsAreHeld'
<1> SUFFICES ASSUME CatalogInv, Dates, claimed \subseteq Key, ClaimsAreHeld, [CatalogNext]_catalogvars
             PROVE  ClaimsAreHeld'
  OBVIOUS
<1> USE DEF throttle, lists
<1>1. CASE OffersChange \/ (\E k \in Key : Expires(k)) \/ UNCHANGED catalogvars
  <2>1. refresher' = refresher /\ claimed' = claimed
    BY <1>1 DEF OffersChange, Expires, catalogvars
  <2>2. QED
    BY <2>1 DEF ClaimsAreHeld, HoldsKey
<1>2. ASSUME NEW r \in Refreshers, Visits(r) \/ FindsKey(r) \/ SyncsModels(r) \/ MarksModels(r)
      PROVE  ClaimsAreHeld'
  <2>1. claimed' = claimed
    BY <1>2 DEF Visits, FindsKey, SyncsModels, MarksModels
  <2>2. PICK stage : Moves(r, stage)
    BY <1>2 DEF Visits, FindsKey, SyncsModels, MarksModels
  <2>3. MovesOn(r, stage) /\ \A k \in Key : HoldsKey(r, k) => HoldsKey(r, k)'
    <3>1. MovesOn(r, stage)
      BY <2>2, Whereto
    <3>2. refresher'[r].stage = stage /\ refresher'[r].claims = refresher[r].claims
      BY <3>1 DEF MovesOn, Same
    <3>3. CASE Visits(r) \/ MarksModels(r)
      <4>1. refresher[r].stage \in {"idle", "mark"}
        BY <3>3 DEF Visits, MarksModels, Stands
      <4>2. QED
        BY <3>1, <4>1 DEF HoldsKey, Key, VoiceStages
    <3>4. CASE FindsKey(r)
      <4>1. Moves(r, "fetch")
        BY <3>4 DEF FindsKey
      <4>2. MovesOn(r, "fetch")
        BY <4>1, Whereto
      <4>3. QED
        BY <3>1, <3>2, <3>4, <4>2 DEF FindsKey, HoldsKey, Stands, Key, VoiceStages, MovesOn
    <3>5. CASE SyncsModels(r)
      <4>1. refresher[r].claims => Moves(r, "voice")
        BY <3>5 DEF SyncsModels
      <4>2. refresher[r].claims => MovesOn(r, "voice")
        BY <4>1, Whereto
      <4>3. QED
        BY <3>1, <3>2, <3>5, <4>2 DEF SyncsModels, HoldsKey, Stands, Key, VoiceStages, MovesOn
    <3>6. QED
      BY <1>2, <3>1, <3>3, <3>4, <3>5
  <2>4. QED
    BY <2>1, <2>3, HeldOn DEF MovesOn
<1>3. ASSUME NEW r \in Refreshers, ClaimsModels(r) PROVE ClaimsAreHeld'
  <2>1. CASE Claimable("llm")
    <3>1. OnlyOf(r) /\ claimed' = claimed \cup {"llm"} /\ HoldsKey(r, "llm")'
      BY <1>3, <2>1 DEF ClaimsModels, Claims, HoldsKey, CatalogInv, Shaped, OnlyOf
    <3>2. ~HoldsKey(r, "voice")
      BY <1>3 DEF ClaimsModels, Stands, HoldsKey, VoiceStages
    <3>3. QED
      BY <3>1, <3>2, HeldOn DEF Key
  <2>2. CASE ~Claimable("llm")
    <3>1. claimed' = claimed /\ Finishes(r)
      BY <1>3, <2>2, Whereto DEF ClaimsModels
    <3>2. \A k \in Key : ~HoldsKey(r, k)
      BY <1>3 DEF ClaimsModels, Stands, HoldsKey, VoiceStages, Key
    <3>3. QED
      BY <3>1, <3>2, HeldOn DEF Finishes
  <2>3. QED
    BY <2>1, <2>2
<1>4. ASSUME NEW r \in Refreshers, AsksFresh(r) \/ FetchModelNames(r) PROVE ClaimsAreHeld'
  <2>1. claimed' = claimed /\ OnlyOf(r)
    BY <1>4, AsksFreshTo, FetchTo DEF AsksFresh, FetchModelNames
  <2>2. \A k \in Key : HoldsKey(r, k) => HoldsKey(r, k)'
    <3>1. CASE AsksFresh(r)
      BY <3>1 DEF AsksFresh, Stands, HoldsKey, VoiceStages, Key
    <3>2. CASE FetchModelNames(r)
      <4>1. refresher'[r].stage = "sync" /\ refresher'[r].claims = refresher[r].claims
        BY <3>2 DEF FetchModelNames, CatalogInv, Shaped
      <4>2. QED
        BY <3>2, <4>1 DEF FetchModelNames, Stands, HoldsKey, VoiceStages, Key
    <3>3. QED
      BY <1>4, <3>1, <3>2
  <2>3. QED
    BY <2>1, <2>2, HeldOn
<1>5. ASSUME NEW r \in Refreshers, ModelsFail(r) \/ ReleasesModels(r) PROVE ClaimsAreHeld'
  <2>1. Finishes(r)
    BY <1>5, Whereto DEF ModelsFail, ReleasesModels
  <2>2. claimed' \subseteq claimed /\ (HoldsKey(r, "llm") => "llm" \notin claimed') /\ ~HoldsKey(r, "voice")
    BY <1>5 DEF ModelsFail, ReleasesModels, GivesBack, Releases, HoldsKey, Stands, VoiceStages
  <2>3. QED
    BY <2>1, <2>2, HeldOn DEF Finishes, Key
<1>6. ASSUME NEW r \in Refreshers, AfterVoice(r), claimed' \subseteq claimed,
             HoldsKey(r, "voice") => "voice" \notin claimed'
      PROVE  ClaimsAreHeld'
  <2>1. CASE refresher[r].claims
    <3>1. MovesOn(r, "release")
      BY <1>6, <2>1, Whereto DEF AfterVoice
    <3>2. OnlyOf(r) /\ HoldsKey(r, "llm")'
      BY <2>1, <3>1 DEF MovesOn, Same, HoldsKey
    <3>3. QED
      BY <1>6, <3>2, HeldOn DEF Key
  <2>2. CASE ~refresher[r].claims
    <3>1. Finishes(r) /\ ~HoldsKey(r, "llm")
      BY <1>6, <2>2, Whereto DEF AfterVoice, HoldsKey
    <3>2. QED
      BY <1>6, <3>1, HeldOn DEF Finishes, Key
  <2>3. QED
    BY <2>1, <2>2
<1>7. ASSUME NEW r \in Refreshers, ClaimsVoice(r) PROVE ClaimsAreHeld'
  <2>1. ~HoldsKey(r, "voice")
    BY <1>7 DEF ClaimsVoice, Stands, HoldsKey, VoiceStages
  <2>2. CASE Claimable("voice")
    <3>1. /\ claimed' = claimed \cup {"voice"} /\ OnlyOf(r)
          /\ refresher'[r].stage = "voicekey" /\ refresher'[r].claims = refresher[r].claims
      BY <1>7, <2>2 DEF ClaimsVoice, Claims, CatalogInv, Shaped, OnlyOf
    <3>2. HoldsKey(r, "voice")' /\ (HoldsKey(r, "llm") => HoldsKey(r, "llm")')
      BY <3>1 DEF HoldsKey, VoiceStages
    <3>3. QED
      BY <3>1, <3>2, HeldOn DEF Key
  <2>3. CASE ~Claimable("voice")
    BY <1>6, <1>7, <2>1, <2>3 DEF ClaimsVoice
  <2>4. QED
    BY <2>2, <2>3
<1>8. ASSUME NEW r \in Refreshers, FindsVoiceKey(r) \/ ReleasesVoice(r) PROVE ClaimsAreHeld'
  <2>1. CASE AfterVoice(r) /\ claimed' = claimed \ {"voice"}
    BY <1>6, <2>1
  <2>2. CASE ~(AfterVoice(r) /\ claimed' = claimed \ {"voice"})
    <3>1. /\ refresher' = [refresher EXCEPT ![r].script = Script, ![r].stage = IF Script = <<>> THEN "free" ELSE "voices"]
          /\ claimed' = claimed
      BY <1>8, <2>2 DEF FindsVoiceKey, ReleasesVoice, Releases
    <3>2. OnlyOf(r) /\ refresher'[r].stage \in {"free", "voices"} /\ refresher'[r].claims = refresher[r].claims
      BY <3>1 DEF CatalogInv, Shaped, OnlyOf
    <3>3. HoldsKey(r, "voice")' /\ (HoldsKey(r, "llm") => HoldsKey(r, "llm")')
      BY <3>2 DEF HoldsKey, VoiceStages
    <3>4. QED
      BY <3>1, <3>2, <3>3, HeldOn DEF Key
  <2>3. QED
    BY <2>1, <2>2
<1>9. ASSUME NEW r \in Refreshers, syncVoiceModels(r) PROVE ClaimsAreHeld'
  <2>1. claimed' = claimed
    BY <1>9 DEF syncVoiceModels
  <2>2. OnlyOf(r) /\ refresher'[r].stage \in {"free", "voices"} /\ refresher'[r].claims = refresher[r].claims
    BY <1>9, syncVoiceModelsTo
  <2>3. HoldsKey(r, "voice")' /\ (HoldsKey(r, "llm") => HoldsKey(r, "llm")')
    BY <2>2 DEF HoldsKey, VoiceStages
  <2>4. QED
    BY <2>1, <2>2, <2>3, HeldOn DEF Key
<1>10. QED
  BY <1>1, <1>2, <1>3, <1>4, <1>5, <1>7, <1>8, <1>9 DEF CatalogNext, Refreshes

(***************************************************************************)
(* For any goroutines, providers and failures: a key the throttle has as   *)
(* busy is held by a goroutine that will release it.                       *)
(***************************************************************************)
THEOREM ClaimsHaveHolders == CatalogSpec => []ClaimsAreHeld
<1>1. CatalogInit => ClaimsAreHeld
  BY DEF CatalogInit, ClaimsAreHeld
<1>2. CatalogTypes => claimed \subseteq Key
  BY DEF CatalogTypes
<1>3. QED
  BY <1>1, <1>2, CatalogInvInit, CatalogInvStep, CurrentInit, DatesStep, CatalogTypesInit, CatalogTypesStep, HeldStep,
     PTL DEF CatalogSpec, CurrentInv

(***************************************************************************)
(* A script gets shorter, when a step fails too: behind a list ElevenLabs  *)
(* could not fetch there is one to skip.                                   *)
(***************************************************************************)
LEMMA FetchFollowed ==
  ASSUME NEW s \in Remainders, s # <<>>, market.provider # "mistral", Head(s)[1] = "fetch"
  PROVE  Len(s) >= 2
<1>1. market.provider = "elevenlabs"
  BY DEF Remainders
<1>2. Remainders = {<<>>, <<<<"sync", "sts">>>>, <<<<"fetch", "sts">>, <<"sync", "sts">>>>,
                    <<<<"sync", "tts">>, <<"fetch", "sts">>, <<"sync", "sts">>>>,
                    <<<<"fetch", "tts">>, <<"sync", "tts">>, <<"fetch", "sts">>, <<"sync", "sts">>>>}
  BY <1>1 DEF Remainders, Tails
<1>3. s # <<<<"sync", "sts">>>>
  OBVIOUS
<1>4. QED
  BY <1>2, <1>3

LEMMA TwoOff ==
  ASSUME NEW S, NEW s \in Seq(S), Len(s) >= 2
  PROVE  Len(Tail(Tail(s))) = Len(s) - 2 /\ Len(s) \in Nat
<1>1. \A t \in Seq(S) : Len(t) >= 1 => Tail(t) \in Seq(S) /\ Len(Tail(t)) = Len(t) - 1 /\ Len(t) \in Nat
  OBVIOUS
<1>2. Tail(s) \in Seq(S) /\ Len(Tail(s)) = Len(s) - 1 /\ Len(s) \in Nat
  BY <1>1
<1> DEFINE t == Tail(s)
<1> HIDE DEF t
<1>3. t \in Seq(S) /\ Len(t) >= 1
  BY <1>2 DEF t
<1>4. Len(Tail(t)) = Len(t) - 1
  BY <1>1, <1>3
<1>5. QED
  BY <1>2, <1>4 DEF t

LEMMA ScriptShortens ==
  ASSUME Scripted, NEW r \in Refreshers, refresher[r].stage = "voices"
  PROVE  \A s \in {Tail(refresher[r].script), LeftAfter(r)} :
            s \in Remainders /\ Len(s) \in Nat /\ Len(s) < Len(refresher[r].script)
<1> DEFINE script == refresher[r].script
           Shorter(s) == s \in Remainders /\ Len(s) \in Nat /\ Len(s) < Len(script)
<1>1. script \in Remainders /\ script # <<>> /\ script \in Seq(VoiceStep)
  BY EndsFacts DEF Scripted
<1>2. Tail(script) \in Remainders
  BY <1>1, EndsFacts
<1>3. <<>> \in Remainders
  BY EndsFacts
<1>4. LeftAfter(r) = IF market.provider = "mistral" THEN <<>>
                     ELSE IF Head(script)[1] = "fetch" THEN Tail(Tail(script)) ELSE Tail(script)
  BY DEF LeftAfter
<1>5. market.provider # "mistral" /\ Head(script)[1] = "fetch" =>
        Tail(Tail(script)) \in Remainders /\ Len(script) >= 2
  BY <1>1, EndsFacts, FetchFollowed
<1> HIDE DEF script
<1>6. Shorter(Tail(script)) /\ Shorter(<<>>)
  <2>1. Len(Tail(script)) = Len(script) - 1 /\ Len(script) \in Nat /\ Len(script) >= 1
    BY <1>1
  <2>2. QED
    BY <1>2, <1>3, <2>1
<1>7. market.provider # "mistral" /\ Head(script)[1] = "fetch" => Shorter(Tail(Tail(script)))
  <2> SUFFICES ASSUME market.provider # "mistral", Head(script)[1] = "fetch" PROVE Shorter(Tail(Tail(script)))
    OBVIOUS
  <2>1. script \in Seq(VoiceStep) /\ Len(script) >= 2 /\ Tail(Tail(script)) \in Remainders
    BY <1>1, <1>5
  <2>2. Len(Tail(Tail(script))) = Len(script) - 2 /\ Len(script) \in Nat
    BY <2>1, TwoOff
  <2>3. Len(Tail(Tail(script))) \in Nat /\ Len(Tail(Tail(script))) < Len(script)
    BY <2>1, <2>2
  <2>4. QED
    BY <2>1, <2>3
<1> HIDE DEF Shorter
<1>8. Shorter(LeftAfter(r))
  BY <1>4, <1>6, <1>7
<1>9. QED
  BY <1>6, <1>8 DEF Shorter, script

Advances(r) == StepsLeft(r)' < StepsLeft(r)

LEMMA StagesFall ==
  ASSUME NEW r \in Refreshers,
         \/ refresher[r].stage = "claim" /\ refresher'[r].stage \in {"key", "idle"}
         \/ refresher[r].stage = "key" /\ refresher'[r].stage \in {"fetch", "idle"}
         \/ refresher[r].stage = "ask" /\ refresher'[r].stage \in {"voice", "fetch"}
         \/ refresher[r].stage = "fetch" /\ refresher'[r].stage \in {"sync", "idle"}
         \/ refresher[r].stage = "sync" /\ refresher'[r].stage \in {"voice", "mark", "idle"}
         \/ refresher[r].stage = "mark" /\ refresher'[r].stage = "voice"
         \/ refresher[r].stage = "voice" /\ refresher'[r].stage \in {"release", "idle", "voicekey"}
         \/ refresher[r].stage = "voicekey" /\ refresher'[r].stage \in {"release", "idle", "free"}
         \/ refresher[r].stage = "free" /\ refresher'[r].stage \in {"release", "idle"}
         \/ refresher[r].stage = "release" /\ refresher'[r].stage = "idle"
  PROVE  Advances(r)
BY DEF Advances, StepsLeft, StepsFrom

LEMMA StagesStep ==
  ASSUME CatalogInv, Dates, NEW r \in Refreshers,
         \/ ClaimsModels(r) \/ FindsKey(r) \/ AsksFresh(r) \/ FetchModelNames(r) \/ SyncsModels(r) \/ MarksModels(r)
         \/ ModelsFail(r) \/ ClaimsVoice(r) \/ ReleasesVoice(r) \/ ReleasesModels(r)
  PROVE  OnlyOf(r) /\ Advances(r)
<1> USE DEF Stands
<1>1. CASE ClaimsModels(r)
  BY <1>1, ClaimsModelsTo, StagesFall DEF ClaimsModels
<1>2. CASE FindsKey(r)
  <2>1. MovesOn(r, "fetch") /\ refresher[r].stage = "key"
    BY <1>2, Whereto DEF FindsKey
  <2>2. QED
    BY <2>1, StagesFall DEF MovesOn
<1>3. CASE AsksFresh(r)
  <2>1. OnlyOf(r) /\ refresher[r].stage = "ask" /\ refresher'[r].stage \in {"voice", "fetch"}
    BY <1>3, AsksFreshTo DEF MovesOn, AsksFresh
  <2>2. QED
    BY <2>1, StagesFall
<1>4. CASE FetchModelNames(r)
  BY <1>4, FetchTo, StagesFall DEF FetchModelNames
<1>5. CASE SyncsModels(r)
  <2>1. refresher[r].stage = "sync" /\ (MovesOn(r, "voice") \/ MovesOn(r, "mark"))
    BY <1>5, Whereto DEF SyncsModels
  <2>2. QED
    BY <2>1, StagesFall DEF MovesOn
<1>6. CASE MarksModels(r)
  <2>1. refresher[r].stage = "mark" /\ MovesOn(r, "voice")
    BY <1>6, Whereto DEF MarksModels
  <2>2. QED
    BY <2>1, StagesFall DEF MovesOn
<1>7. CASE ModelsFail(r) \/ ReleasesModels(r)
  <2>1. Finishes(r)
    BY <1>7, Whereto DEF ModelsFail, ReleasesModels
  <2>2. refresher[r].stage \in {"key", "fetch", "sync", "release"}
    BY <1>7 DEF ModelsFail, ReleasesModels
  <2>3. QED
    BY <2>1, <2>2, StagesFall DEF Finishes
<1>8. CASE ClaimsVoice(r)
  <2>1. /\ refresher[r].stage = "voice" /\ OnlyOf(r)
        /\ refresher'[r].stage \in {"release", "idle", "voicekey"}
    BY <1>8, ClaimsVoiceTo DEF ClaimsVoice, Quits, MovesOn, Finishes
  <2>2. QED
    BY <2>1, StagesFall
<1>9. CASE ReleasesVoice(r)
  <2>1. Quits(r) /\ refresher[r].stage = "free"
    BY <1>9, Whereto DEF ReleasesVoice
  <2>2. OnlyOf(r) /\ refresher'[r].stage \in {"release", "idle"}
    BY <2>1 DEF Quits, MovesOn, Finishes
  <2>3. QED
    BY <2>1, <2>2, StagesFall
<1>10. QED
  BY <1>1, <1>2, <1>3, <1>4, <1>5, <1>6, <1>7, <1>8, <1>9

LEMMA FindsVoiceKeyAdvances ==
  ASSUME CatalogInv, Dates, NEW r \in Refreshers, FindsVoiceKey(r)
  PROVE  OnlyOf(r) /\ Advances(r)
<1>1. refresher[r].stage = "voicekey"
  BY DEF FindsVoiceKey, Stands
<1>2. CASE Quits(r)
  <2>1. OnlyOf(r) /\ refresher'[r].stage \in {"release", "idle"}
    BY <1>2 DEF Quits, MovesOn, Finishes
  <2>2. QED
    BY <1>1, <2>1, StagesFall
<1>3. CASE ~Quits(r)
  <2>1. OnlyOf(r) /\ Left(refresher[r], refresher'[r], Script, refresher[r].kinds, refresher[r].failed)
    BY <1>3, FindsVoiceKeyTo
  <2>2. refresher'[r].stage \in {"free", "voices"} /\ refresher'[r].script = Script
    BY <2>1 DEF Left
  <2>3. Script \in Seq(VoiceStep) /\ Len(Script) <= 4
    BY EndsFacts
  <2>4. Len(Script) \in Nat
    BY <2>3
  <2>5. QED
    BY <1>1, <2>1, <2>2, <2>3, <2>4 DEF Advances, StepsLeft, StepsFrom
<1>4. QED
  BY <1>2, <1>3

LEMMA syncVoiceModelsAdvances ==
  ASSUME CatalogInv, Dates, Scripted, NEW r \in Refreshers, syncVoiceModels(r)
  PROVE  OnlyOf(r) /\ Advances(r)
<1>1. refresher[r].stage = "voices"
  BY DEF syncVoiceModels, Stands
<1>a. PICK script \in {Tail(refresher[r].script), LeftAfter(r)} : \E kinds, failed : Follows(r, script, kinds, failed)
  BY DEF syncVoiceModels
<1>2. PICK kinds, failed : Follows(r, script, kinds, failed)
  BY <1>a
<1>3. OnlyOf(r) /\ Left(refresher[r], refresher'[r], script, kinds, failed)
  BY <1>2, FollowsRecord
<1>4. Len(script) \in Nat /\ Len(script) < Len(refresher[r].script)
  BY <1>1, <1>2, ScriptShortens
<1>5. Len(refresher[r].script) \in Nat
  <2>1. refresher[r].script \in Seq(VoiceStep)
    BY EndsFacts DEF Scripted
  <2>2. QED
    BY <2>1
<1>6. refresher'[r].script = script /\ refresher'[r].stage \in {"free", "voices"}
  BY <1>3 DEF Left
<1>7. StepsLeft(r) = 2 + Len(refresher[r].script)
  BY <1>1 DEF StepsLeft, StepsFrom
<1>8. StepsLeft(r)' \in {2, 2 + Len(script)}
  BY <1>6 DEF StepsLeft, StepsFrom
<1>9. QED
  BY <1>3, <1>4, <1>5, <1>7, <1>8 DEF Advances

(***************************************************************************)
(* For any goroutines, providers and failures: a refresh under way is at   *)
(* most thirteen steps from its end, and each step takes it nearer.        *)
(***************************************************************************)
THEOREM RefreshesAdvance == CatalogSpec => RefreshAdvances
<1>1. ASSUME CatalogInv, Dates, Scripted, [CatalogNext]_catalogvars, NEW r \in Refreshers,
             ~Stands(r, "idle"), refresher'[r] # refresher[r]
      PROVE  Advances(r)
  <2>1. refresher' # refresher
    BY <1>1
  <2>2. PICK q \in Refreshers : Visits(q) \/ Refreshes(q)
    BY <1>1, <2>1 DEF CatalogNext, OffersChange, Expires, catalogvars
  <2>3. CASE Visits(q)
    BY <1>1, <2>3, VisitsTo DEF Visits, MovesOn, OnlyOf, Stands
  <2>4. CASE Refreshes(q)
    <3>1. OnlyOf(q) /\ Advances(q)
      BY <1>1, <2>4, StagesStep, FindsVoiceKeyAdvances, syncVoiceModelsAdvances DEF Refreshes
    <3>2. QED
      BY <1>1, <3>1 DEF OnlyOf
  <2>5. QED
    BY <2>2, <2>3, <2>4
<1>2. CatalogInv /\ Dates /\ Scripted /\ [CatalogNext]_catalogvars =>
        [\A r \in Refreshers :
           ~Stands(r, "idle") /\ refresher'[r] # refresher[r] => StepsLeft(r)' < StepsLeft(r)]_catalogvars
  BY <1>1 DEF Advances
<1>3. QED
  BY <1>2, CatalogInvInit, CatalogInvStep, CurrentInit, DatesStep, CatalogTypesInit, CatalogTypesStep,
     PTL DEF CatalogSpec, CurrentInv, RefreshAdvances

(***************************************************************************)
(* For any goroutines, providers and failures: the throttle refreshes a    *)
(* list once at a time and is never left busy by nobody.                   *)
(***************************************************************************)
THEOREM ThrottleIsSound == CatalogSpec => ThrottleHolds
  BY OneRefreshHolds, ClaimsHaveHolders, RefreshesAdvance, PTL DEF ThrottleHolds

--------------------------------------------------------------------------------
(***************************************************************************)
(* A behaviour of the run is one of the models of a user and one of the    *)
(* catalogs: what is proved of each of them alone holds in the             *)
(* specification the run checks.                                           *)
(***************************************************************************)
THEOREM ManagementIsItsParts == ManagementSpec => StoreSpec /\ CatalogSpec
<1>1. ManagementInit => StoreInit /\ CatalogInit
  BY DEF ManagementInit, StoreRests, CatalogRests
<1>2. [ManagementNext]_managementvars => [StoreNext]_storevars /\ [CatalogNext]_catalogvars
  <2>1. ManagementNext => [StoreNext]_storevars /\ [CatalogNext]_catalogvars
    BY DEF ManagementNext
  <2>2. UNCHANGED managementvars => UNCHANGED storevars /\ UNCHANGED catalogvars
    BY DEF managementvars
  <2>3. QED
    BY <2>1, <2>2
<1>3. QED
  BY <1>1, <1>2, PTL DEF ManagementSpec, StoreSpec, CatalogSpec

(***************************************************************************)
(* Whichever part acts, the variables of both keep their types.            *)
(***************************************************************************)
THEOREM ManagementTypeCorrect == ManagementSpec => []ManagementTypeOK
  BY ManagementIsItsParts, StoreTypeCorrect, CatalogTypeCorrect, PTL DEF ManagementTypeOK

(***************************************************************************)
(* What the run checks of both parts, but liveness, holds for any number   *)
(* of managers, documents, refreshers and versions, and any scenes.        *)
(***************************************************************************)
THEOREM ManagementIsSafe ==
  ManagementSpec => /\ [](OneActiveOrOff /\ AgentsMatch /\ FilesMatch /\ FreshIsCurrent)
                    /\ ImplementsUserModels /\ ThrottleHolds
  BY ManagementIsItsParts, OneIsActiveOrOff, AgentsAreNamed, FilesAreFound, RowsImplementUserModels,
     FreshIsCurrentHolds, ThrottleIsSound, PTL
================================================================================
