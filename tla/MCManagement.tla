------------------------------ MODULE MCManagement ------------------------------
(* What the router keeps of models, in one run: the models of a user, and the   *)
(* catalogs of a provider. A behaviour is one of one part, the other rests.     *)
EXTENDS ModelStore, Catalog

VARIABLE part

managementvars == <<part, storevars, catalogvars>>

(* Which calls come, how many, whether they overlap, whether one step fails. *)
Asks(kind, p, docs, flag) == [kind |-> kind, p |-> p, docs |-> docs, flag |-> flag]
Plain(kind, p) == Asks(kind, p, {}, FALSE)
Place(jobs, calls, overlap, faults) == [jobs |-> jobs, calls |-> calls, overlap |-> overlap, faults |-> faults]
MistralFiles ==
    {Plain("create", "mistral"), Plain("update", "mistral"), Plain("delete", "mistral"),
     Asks("delete", "mistral", {}, TRUE), Asks("upload", "mistral", {"d1"}, FALSE),
     Asks("upload", "mistral", {"d2"}, FALSE), Asks("drop", "mistral", {"d1"}, FALSE),
     Asks("drop", "mistral", {"d2"}, FALSE)}
GoogleFiles ==
    {Plain("create", "google"), Asks("create", "google", {}, TRUE), Plain("delete", "google"),
     Asks("embed", "google", {"d1"}, FALSE), Plain("forget", "google"),
     Asks("store", "google", {"d1"}, TRUE)}
    \cup {Asks("update", "google", docs, TRUE) : docs \in SUBSET {"d1", "d2"}}
Choice ==
    {Plain(kind, p) : kind \in {"create", "delete"}, p \in {"openai", "google"}}
    \cup {Plain("activate", "google"), Plain("update", "openai")}
Overlapping ==
    {Plain("create", "mistral"), Plain("update", "mistral"), Asks("delete", "mistral", {}, TRUE),
     Asks("upload", "mistral", {"d1"}, FALSE), Asks("drop", "mistral", {"d1"}, FALSE)}
Searched ==
    {Asks("create", "google", {}, TRUE), Plain("delete", "google"), Asks("embed", "google", {"d1"}, FALSE),
     Plain("forget", "google"), Asks("update", "google", {"d1"}, TRUE)}
Lists ==
    {Plain("create", "mistral"), Plain("store", "mistral"), Plain("update", "mistral"), Plain("delete", "mistral"),
     Asks("upload", "mistral", {"d1"}, FALSE), Asks("drop", "mistral", {"d1"}, FALSE),
     Plain("sync", "mistral"), Plain("sync", "google"), Plain("create", "google")}
MCScenes ==
    {Place(MistralFiles, 6, FALSE, FALSE), Place(MistralFiles, 4, FALSE, TRUE),
     Place(GoogleFiles, 5, FALSE, FALSE), Place(GoogleFiles, 4, FALSE, TRUE),
     Place(Choice, 5, TRUE, FALSE), Place(Choice, 4, TRUE, TRUE),
     Place(Overlapping, 4, TRUE, FALSE), Place(Searched, 3, TRUE, FALSE), Place(Lists, 5, FALSE, FALSE)}
MCChoice == {Place(Choice, 4, TRUE, TRUE)}
MCLost == {Place((MistralFiles \cup {Plain("store", "mistral")}) , 5, FALSE, FALSE)}

(* Who asks for the catalogs, how often, whether they get old, whether steps fail. *)
Fair1(p, calls, n, expires, faults) ==
    [provider |-> p, calls |-> calls, visits |-> n, expires |-> expires, faults |-> faults]
MCMarkets ==
    {Fair1(p, {"create", "list"}, 3, TRUE, FALSE) : p \in {"mistral", "google"}}
    \cup {Fair1(p, {"create", "list"}, 3, FALSE, TRUE) : p \in {"mistral", "google"}}
    \cup {Fair1("mistral", {"create"}, 3, TRUE, TRUE), Fair1("elevenlabs", {"list"}, 3, TRUE, TRUE)}

StoreRests == StoreInit /\ scene = CHOOSE s \in Scenes : TRUE
CatalogRests == CatalogInit /\ market = CHOOSE m \in Markets : TRUE

ManagementInit ==
    \/ part = "store" /\ StoreInit /\ CatalogRests
    \/ part = "catalog" /\ StoreRests /\ CatalogInit
ManagementNext ==
    \/ part = "store" /\ StoreNext /\ UNCHANGED <<part, catalogvars>>
    \/ part = "catalog" /\ CatalogNext /\ UNCHANGED <<part, storevars>>
ManagementFairness == \A r \in Refreshers : WF_catalogvars(part = "catalog" /\ Refreshes(r))
ManagementSpec == ManagementInit /\ [][ManagementNext]_managementvars /\ ManagementFairness

StoreAlone == StoreInit /\ CatalogRests /\ part = "store" /\ [][ManagementNext]_managementvars

(* The variables of both parts have their types. *)
ManagementTypeOK == StoreTypeOK /\ CatalogTypeOK
================================================================================
