------------------------------ MODULE ModelStore ------------------------------
(* The models of one user: the rows of user_models joined with user_gpt, the    *)
(* agents and libraries they stand for at Mistral, the documents kept as        *)
(* embeddings, and the calls of the router that change them. A call is a        *)
(* goroutine that takes one statement, transaction or request after another;    *)
(* nothing locks a model between them. A transaction reads when it begins and   *)
(* writes when it commits; an UPDATE that switches the active model is one step.*)
EXTENDS Integers, FiniteSets, Functions

CONSTANTS Managers,     \* goroutines that carry the calls out
          Docs,         \* documents of the user
          MaxRows,      \* models made in a behaviour
          MaxAgents,    \* agents made at Mistral
          MaxLibraries, \* libraries made at Mistral
          MaxSeconds,   \* seconds the clock shows
          Scenes        \* what a behaviour is made of, see Scene

ASSUME BoundsAssumption ==
    /\ MaxRows \in Nat /\ MaxAgents \in Nat /\ MaxLibraries \in Nat /\ MaxSeconds \in Nat \ {0}

VARIABLES scene,        \* the record chosen in StoreInit
          rows,         \* the models, by the Id of user_gpt
          last,         \* the last Id of a row, an agent and a library
          agents,       \* agents at Mistral, with the library each searches
          libraries,    \* libraries at Mistral, with their documents
          embeddings,   \* rows of vector_embeddings
          channels,     \* the channels of the user are not disabled
          second,       \* time.Now().Unix()
          manager,      \* the call each goroutine carries out
          todo,         \* calls still to come
          past          \* what has happened: see Mark

remote == <<agents, libraries>>
storevars == <<scene, rows, last, remote, embeddings, channels, second, manager, todo, past>>

Provider == {"openai", "mistral", "google"}
Kind == {"create", "update", "store", "delete", "activate", "upload", "drop", "sync", "embed", "forget"}

(* An AssistantId: an agent of Mistral, the name of a model, or '' (None).      *)
None == 0
ModelName == MaxAgents + 1
Agent == 0 .. MaxAgents + 1
Library == 0 .. MaxLibraries
Ids == 1 .. MaxRows

(* VecIds of a row, and the same with the Search flag: UniversalModelData.      *)
VecIds == [files : SUBSET Docs, library : Library]
Data == [files : SUBSET Docs, library : Library, search : BOOLEAN]
NoIds == [files |-> {}, library |-> None]
NoData == [files |-> {}, library |-> None, search |-> FALSE]
Row == [provider : Provider, active : BOOLEAN, agent : Agent, ids : VecIds, data : Data]
Rows == UNION {[I -> Row] : I \in SUBSET Ids}

(* docs: the document of an upload or a drop, or the files a client sends for   *)
(* a Google model; flag: Search of the model, or deleteFiles.                   *)
Job == [kind : Kind, p : Provider, docs : SUBSET Docs, flag : BOOLEAN]
Scene == [jobs : SUBSET Job, calls : Nat, overlap : BOOLEAN, faults : BOOLEAN]
ASSUME SceneAssumption == Scenes \subseteq Scene
ASSUME DocumentAssumption ==
    \A s \in Scenes : \A job \in s.jobs : job.kind \in {"upload", "drop"} => \E d \in Docs : job.docs = {d}

At == {"idle", "make", "save", "commit", "read", "record", "agent", "clean", "fetch", "files", "remove",
       "unlink", "channels", "next", "switch", "sync", "library", "makelib", "keep", "keeping", "undo",
       "upload", "listing", "list", "drop", "unlisting", "unlist", "emptied", "clearing", "clear",
       "embed", "embedding", "forget"}
Mark == {"overlapped", "crossed", "failed", "unpicked", "fell", "stored", "kept", "replaced", "synced", "hidden"}

NoRow == [id |-> None, active |-> FALSE, agent |-> None, ids |-> NoIds]
Manager == [at : At, job : Job, sent : Data, read : Data,
            saw : [id : 0 .. MaxRows, active : BOOLEAN, agent : Agent, ids : VecIds],
            umcr : [agent : Agent, ids : VecIds], snap : Rows, library : Library, left : SUBSET Docs,
            key : Nat]

AnyJob == [kind |-> "sync", p |-> "google", docs |-> {}, flag |-> FALSE]
Idle == [at |-> "idle", job |-> AnyJob, sent |-> NoData, read |-> NoData, saw |-> NoRow,
         umcr |-> [agent |-> None, ids |-> NoIds], snap |-> <<>>, library |-> None, left |-> {}, key |-> 0]

StoreTypeOK ==
    /\ scene \in Scenes
    /\ \E I \in SUBSET Ids : rows \in [I -> Row]
    /\ last \in [row : 0 .. MaxRows, agent : 0 .. MaxAgents, library : Library]
    /\ \E I \in SUBSET (1 .. MaxAgents) : agents \in [I -> Library]
    /\ \E I \in SUBSET (1 .. MaxLibraries) : libraries \in [I -> SUBSET Docs]
    /\ embeddings \subseteq [model : Ids, key : 0 .. MaxSeconds, text : Docs]
    /\ channels \in BOOLEAN /\ second \in 1 .. MaxSeconds
    /\ \A m \in Managers :
          /\ manager[m].at \in At /\ manager[m].job \in Job
          /\ manager[m].sent \in Data /\ manager[m].read \in Data
          /\ manager[m].umcr \in [agent : Agent, ids : VecIds] /\ manager[m].left \subseteq Docs
          /\ DOMAIN manager[m].snap \subseteq Ids
    /\ todo \in 0 .. scene.calls /\ past \subseteq Mark

StoreInit ==
    /\ scene \in Scenes
    /\ rows = <<>> /\ last = [row |-> 0, agent |-> 0, library |-> 0]
    /\ agents = <<>> /\ libraries = <<>> /\ embeddings = {}
    /\ channels = TRUE /\ second = 1
    /\ manager = [m \in Managers |-> Idle]
    /\ todo = scene.calls /\ past = {}

--------------------------------------------------------------------------------
(* What the queries return                                                      *)

Of(p, t) == {i \in DOMAIN t : t[i].provider = p}
Newest(I) == CHOOSE i \in I : \A j \in I : j <= i

(* GetAllUserModels lists the active model first, the others from the newest.   *)
FirstOf(I) == IF \E i \in I : rows[i].active THEN Newest({i \in I : rows[i].active}) ELSE Newest(I)
Seen(i) == [id |-> i, active |-> rows[i].active, agent |-> rows[i].agent, ids |-> rows[i].ids]
RecordOf(p) == IF Of(p, rows) = {} THEN NoRow ELSE Seen(FirstOf(Of(p, rows)))

(* DecompressModelData: the column Ids replaces what Data holds where it is not *)
(* empty; that of a Google model is not read.                                   *)
Decompress(r) ==
    IF r.provider = "google" THEN r.data
    ELSE [files   |-> IF r.ids.files = {} THEN r.data.files ELSE r.ids.files,
          library |-> IF r.ids.library = None THEN r.data.library ELSE r.ids.library,
          search  |-> r.data.search]
Falls(r) == r.provider = "mistral" /\ (Decompress(r).library # r.ids.library \/ Decompress(r).files # r.ids.files)

Goes(m, at) == manager' = [manager EXCEPT ![m].at = at]
Ends(m) == manager' = [manager EXCEPT ![m] = Idle]
GoesOr(m, at) == IF at = "idle" THEN Ends(m) ELSE Goes(m, at)
Now(m, at) == manager[m].at = at
JobOf(m) == manager[m].job
Busy(m) == ~Now(m, "idle")
Marks(S) == past' = past \cup S

--------------------------------------------------------------------------------
(* A call begins. The client sends the model as it is shown to it.              *)

FirstStep ==
    [k \in Kind |-> CASE k = "create" -> "make"
                      [] k \in {"update", "store"} -> "read"
                      [] k \in {"delete", "embed", "forget"} -> "record"
                      [] k = "activate" -> "switch"
                      [] k \in {"upload", "drop"} -> "library"
                      [] OTHER -> "sync"]

Sent(job) ==
    IF job.kind = "create" \/ Of(job.p, rows) = {} THEN {[NoData EXCEPT !.search = job.flag]}
    ELSE LET shown == Decompress(rows[FirstOf(Of(job.p, rows))]) IN
         IF job.p = "google" THEN {[shown EXCEPT !.files = job.docs, !.search = job.flag]} ELSE {shown}

Begins(m, job) ==
    /\ Now(m, "idle") /\ todo > 0 /\ todo' = todo - 1
    /\ scene.overlap \/ \A n \in Managers : ~Busy(n)
    /\ m = CHOOSE k \in Managers : Now(k, "idle")
    /\ \E sent \in Sent(job) :
          manager' = [manager EXCEPT ![m] = [Idle EXCEPT !.at = FirstStep[job.kind], !.job = job, !.sent = sent]]
    /\ Marks(IF \E n \in Managers : Busy(n) THEN {"overlapped"} ELSE {})
    /\ UNCHANGED <<scene, rows, last, remote, embeddings, channels, second>>

--------------------------------------------------------------------------------
(* Reading the model that a call is about                                       *)

(* UpdateModelEveryWhere and UpdateModelToDB read the model as it is.           *)
ReadsModel(m) ==
    /\ Now(m, "read")
    /\ \/ Of(JobOf(m).p, rows) = {} /\ Ends(m) /\ UNCHANGED past
       \/ \E i \in Of(JobOf(m).p, rows) :
             /\ manager' = [manager EXCEPT ![m].at = "record", ![m].read = Decompress(rows[i])]
             /\ Marks(IF Falls(rows[i]) THEN {"fell"} ELSE {})
    /\ UNCHANGED <<scene, rows, last, remote, embeddings, channels, second, todo>>

(* The files a client sends are those of the model: their library is kept.      *)
Unchanged(m) == manager[m].sent.files = manager[m].read.files
Updated(m) ==
    LET sent == manager[m].sent IN
    CASE JobOf(m).p = "google" -> [sent EXCEPT !.library = None]
      [] JobOf(m).p = "mistral" /\ JobOf(m).kind = "update" /\ Unchanged(m) ->
            [sent EXCEPT !.library = manager[m].read.library]
      [] OTHER -> sent
(* mutant: the library is not written *)
OnlyFiles(d) == [files |-> d.files]
Column(d) == [files |-> d.files, library |-> d.library]

(* Cases 1 and 2 of updateGoogleModelInPlace: the embeddings of the model go,   *)
(* those of the files that are sent come.                                       *)
SearchOff(m) == manager[m].read.search /\ ~manager[m].sent.search
FilesChanged(m) == manager[m].sent.search /\ ~Unchanged(m)
(* mutant: the embeddings of the files before are not deleted *)
KeepsEmbeddings(m) == IF SearchOff(m) THEN "clean" ELSE IF FilesChanged(m) THEN "fetch" ELSE "save"
GoogleStep(m) ==
    IF SearchOff(m) \/ (FilesChanged(m) /\ manager[m].read.files # {}) THEN "clean"
    ELSE IF FilesChanged(m) THEN "fetch" ELSE "save"

AfterRecord(m) ==
    LET job == JobOf(m) IN
    CASE job.kind = "embed" -> "embed"
      [] job.kind = "forget" -> "forget"
      [] job.p = "mistral" /\ job.kind \in {"update", "delete"} -> "agent"
      [] job.kind = "delete" /\ job.p # "mistral" -> IF job.p = "openai" THEN "clean" ELSE "remove"
      [] job.p = "google" /\ job.kind = "update" -> GoogleStep(m)
      [] OTHER -> "save"

(* The ids a model is saved with when no agent is made: OpenAI keeps the column,*)
(* Google empties it, and UpdateModelToDB writes data.VecIds, whose FileIds the *)
(* model never fills.                                                           *)
KeptIds(m, saw) ==
    CASE JobOf(m).kind = "store" -> [NoIds EXCEPT !.library = manager[m].sent.library]
      [] JobOf(m).kind # "store" /\ JobOf(m).p = "google" -> NoIds
      [] OTHER -> saw.ids

ReadsRecord(m) ==
    /\ Now(m, "record")
    /\ LET saw == RecordOf(JobOf(m).p)
           refused == saw = NoRow \/ (JobOf(m).kind = "update" /\ JobOf(m).p = "google" /\ saw.agent = None) IN
       IF refused THEN Ends(m)
       ELSE manager' = [manager EXCEPT ![m].at = AfterRecord(m), ![m].saw = saw, ![m].sent = Updated(m),
                          ![m].left = IF FilesChanged(m) THEN manager[m].sent.files ELSE {},
                          ![m].umcr = [agent |-> saw.agent, ids |-> KeptIds(m, saw)]]
    /\ LET kind == JobOf(m).kind
           p == JobOf(m).p
           unsearched == (kind = "update" /\ ~manager[m].sent.search) \/ (kind = "store" /\ ~Unchanged(m)) IN
       Marks((IF p = "mistral" /\ kind = "store" /\ manager[m].sent.files # {} THEN {"stored"} ELSE {})
             \cup (IF p = "google" /\ unsearched THEN {"hidden"} ELSE {}))
    /\ UNCHANGED <<scene, rows, last, remote, embeddings, channels, second, todo>>

--------------------------------------------------------------------------------
(* Agents and libraries of Mistral: what a request does there. One that fails   *)
(* may have been carried out, its answer lost.                                  *)

Without(f, k) == Restrict(f, DOMAIN f \ {k})
With(f, k, v) == [x \in DOMAIN f \cup {k} |-> IF x = k THEN v ELSE f[x]]

(* deleteMistralModel reads the library again before it deletes its documents.  *)
Target(m) ==
    IF Now(m, "files") /\ Of("mistral", rows) # {}
    THEN Decompress(rows[FirstOf(Of("mistral", rows))]).library ELSE manager[m].library

MakesAgent(library) ==
    /\ last' = [last EXCEPT !.agent = @ + 1] /\ UNCHANGED libraries
    /\ agents' = With(agents, last.agent + 1, library)

(* CreateLibrary, UploadDocumentToLibrary, DeleteDocumentFromLibrary, DeleteLibrary *)
Carries(m) ==
    LET me == manager[m] IN
    CASE me.at = "make" -> MakesAgent(me.sent.library)
      [] me.at = "agent" -> agents' = Without(agents, me.saw.agent) /\ UNCHANGED <<last, libraries>>
      [] me.at = "makelib" ->
            /\ last' = [last EXCEPT !.library = @ + 1] /\ UNCHANGED agents
            /\ libraries' = With(libraries, last.library + 1, {})
      [] me.at = "upload" ->
            /\ libraries' = [libraries EXCEPT ![me.library] = @ \cup me.job.docs] /\ UNCHANGED <<last, agents>>
      [] me.at = "drop" ->
            /\ libraries' = [l \in DOMAIN libraries |->
                                IF l = me.library THEN libraries[l] \ me.job.docs ELSE libraries[l]]
            /\ UNCHANGED <<last, agents>>
      [] OTHER -> libraries' = Without(libraries, Target(m)) /\ UNCHANGED <<last, agents>>
Calls == {"make", "agent", "makelib", "upload", "drop", "files", "emptied", "undo"}
CanCall(m) ==
    /\ manager[m].at \in Calls
    /\ Now(m, "make") => JobOf(m).p = "mistral" /\ last.agent < MaxAgents
    /\ Now(m, "makelib") => last.library < MaxLibraries
    /\ Now(m, "upload") => manager[m].library \in DOMAIN libraries

(* mutant: no new agent after the old one is deleted; files are kept *)
AgentStays(m) == IF JobOf(m).kind = "update" THEN "save" ELSE "remove"

(* What follows: deleteMistralModel goes on to the files it was asked to delete.*)
AfterAgent(m) ==
    IF JobOf(m).kind = "update" THEN "make"
    ELSE IF JobOf(m).flag /\ manager[m].saw.ids.files # {} THEN "files" ELSE "remove"
AfterCall(m) ==
    LET me == manager[m] IN
    CASE me.at = "agent" -> AfterAgent(m)
      [] me.at = "makelib" -> "keep"
      [] me.at = "upload" -> "listing"
      [] me.at = "drop" -> "unlisting"
      [] me.at = "files" -> "remove"
      [] me.at = "emptied" -> "clearing"
      [] OTHER -> "idle"

CallsMistral(m) ==
    /\ CanCall(m)
    /\ Carries(m)
    /\ IF Now(m, "make")
       THEN manager' = [manager EXCEPT ![m].at = "save",
                          ![m].umcr = [agent |-> last.agent + 1, ids |-> Column(manager[m].sent)]]
       ELSE IF Now(m, "makelib")
       THEN manager' = [manager EXCEPT ![m].at = "keep", ![m].library = last.library + 1]
       ELSE GoesOr(m, AfterCall(m))
    /\ Marks(IF Now(m, "agent") /\ JobOf(m).kind = "delete" /\ AfterCall(m) = "remove" THEN {"kept"} ELSE {})
    /\ UNCHANGED <<scene, rows, embeddings, channels, second, todo>>

(* OpenAI and Google have no agents: the model is saved under its name.         *)
MakesNoAgent(m) ==
    /\ Now(m, "make") /\ JobOf(m).p # "mistral"
    /\ manager' = [manager EXCEPT ![m].at = "save", ![m].umcr = [agent |-> ModelName, ids |-> NoIds]]
    /\ UNCHANGED <<scene, rows, last, remote, embeddings, channels, second, todo, past>>

(* The library of the row is not at Mistral any more.                           *)
UploadRefused(m) ==
    /\ Now(m, "upload") /\ manager[m].library \notin DOMAIN libraries
    /\ Ends(m)
    /\ UNCHANGED <<scene, rows, last, remote, embeddings, channels, second, todo, past>>

--------------------------------------------------------------------------------
(* SaveUserModel and RemoveModelFromUser                                        *)

InTransaction(m) == manager[m].at \in {"commit", "unlink"}
Crossing(m) == IF \E n \in Managers \ {m} : InTransaction(n) THEN {"crossed"} ELSE {}

SaveBegins(m) ==
    /\ Now(m, "save")
    /\ IF manager[m].umcr.agent = None THEN Ends(m)
       ELSE manager' = [manager EXCEPT ![m].at = "commit", ![m].snap = rows]
    /\ Marks(Crossing(m))
    /\ UNCHANGED <<scene, rows, last, remote, embeddings, channels, second, todo>>

(* The first model of a user becomes the active one.                            *)
Inserts(m) ==
    /\ Of(JobOf(m).p, manager[m].snap) = {} /\ last.row < MaxRows
    /\ last' = [last EXCEPT !.row = @ + 1]
    /\ rows' = With(rows, last.row + 1,
                    [provider |-> JobOf(m).p, active |-> DOMAIN manager[m].snap = {},
                     agent |-> manager[m].umcr.agent, ids |-> manager[m].umcr.ids, data |-> manager[m].sent])
    /\ UNCHANGED past
(* mutant: the statement that saves a model has no provider in its WHERE *)
UpdatesEvery(m) ==
    /\ Of(JobOf(m).p, manager[m].snap) # {}
    /\ rows' = [k \in DOMAIN rows |-> [rows[k] EXCEPT !.agent = manager[m].umcr.agent,
                                      !.ids = manager[m].umcr.ids, !.data = manager[m].sent]]
    /\ Marks(IF JobOf(m).kind = "create" THEN {"replaced"} ELSE {})
    /\ UNCHANGED last
Updates(m) ==
    /\ \E i \in Of(JobOf(m).p, manager[m].snap) :
          rows' = [k \in DOMAIN rows |->
                     IF k = i THEN [rows[k] EXCEPT !.agent = manager[m].umcr.agent,
                                      !.ids = manager[m].umcr.ids, !.data = manager[m].sent]
                     ELSE rows[k]]
    /\ Marks(IF JobOf(m).kind = "create" THEN {"replaced"} ELSE {})
    /\ UNCHANGED last

SaveCommits(m) ==
    /\ Now(m, "commit")
    /\ Inserts(m) \/ Updates(m)
    /\ Ends(m)
    /\ UNCHANGED <<scene, remote, embeddings, channels, second, todo>>

RemoveBegins(m) ==
    /\ Now(m, "remove")
    /\ IF manager[m].saw.id \notin DOMAIN rows THEN Ends(m)
       ELSE manager' = [manager EXCEPT ![m].at = "unlink", ![m].snap = rows]
    /\ Marks(Crossing(m))
    /\ UNCHANGED <<scene, rows, last, remote, embeddings, channels, second, todo>>

(* DeleteModel switches the active model once more if that it read was active.  *)
AfterRemoval(m) == IF manager[m].saw.active THEN "next" ELSE "idle"
LastOne(m) == manager[m].snap[manager[m].saw.id].active /\ DOMAIN manager[m].snap = {manager[m].saw.id}
(* mutant: channels are left on after the last model *)
ChannelsStay(m) == AfterRemoval(m)
AfterUnlink(m) == IF LastOne(m) THEN "channels" ELSE AfterRemoval(m)

RemoveCommits(m) ==
    LET id == manager[m].saw.id
        wasActive == manager[m].snap[id].active
        others == DOMAIN manager[m].snap \ {id}
        remaining == Without(rows, id) IN
    /\ Now(m, "unlink")
    /\ IF wasActive /\ others # {}
       THEN \E next \in others :
               rows' = [k \in DOMAIN remaining |->
                          IF k = next THEN [remaining[k] EXCEPT !.active = TRUE] ELSE remaining[k]]
       ELSE rows' = remaining
    /\ embeddings' = {e \in embeddings : e.model # id}
    /\ GoesOr(m, AfterUnlink(m))
    /\ UNCHANGED <<scene, last, remote, channels, second, todo, past>>

(* The SELECT of the model to activate next fails, not for want of a row: the   *)
(* transaction commits all the same, none is activated and no channel disabled. *)
RemoveUnpicked(m) ==
    LET id == manager[m].saw.id IN
    /\ Now(m, "unlink") /\ manager[m].snap[id].active
    /\ scene.faults /\ "failed" \notin past
    /\ rows' = Without(rows, id)
    /\ embeddings' = {e \in embeddings : e.model # id}
    /\ GoesOr(m, AfterRemoval(m))
    /\ Marks({"failed", "unpicked"})
    /\ UNCHANGED <<scene, last, remote, channels, second, todo>>

DisableAllUserChannel(m) ==
    /\ Now(m, "channels")
    /\ channels' = FALSE
    /\ GoesOr(m, AfterRemoval(m))
    /\ UNCHANGED <<scene, rows, last, remote, embeddings, second, todo, past>>

ReadsNext(m) ==
    /\ Now(m, "next")
    /\ IF rows = <<>> THEN Ends(m)
       ELSE manager' = [manager EXCEPT ![m].at = "switch", ![m].job.p = rows[FirstOf(DOMAIN rows)].provider]
    /\ UNCHANGED <<scene, rows, last, remote, embeddings, channels, second, todo, past>>

(* mutant: the other models stay active *)
LeavesActive(i) == [k \in DOMAIN rows |-> [rows[k] EXCEPT !.active = @ \/ k = i]]

(* SetActiveModelByProvider is rolled back when the provider has no model; it   *)
(* takes any of two that were created in one second.                            *)
Switched(i) == [k \in DOMAIN rows |-> [rows[k] EXCEPT !.active = (k = i)]]
SetActiveModelByProvider(m) ==
    LET mine == Of(JobOf(m).p, rows) IN
    /\ Now(m, "switch")
    /\ IF mine = {} THEN UNCHANGED rows ELSE \E i \in mine : rows' = Switched(i)
    /\ Ends(m) /\ Marks(Crossing(m))
    /\ UNCHANGED <<scene, last, remote, embeddings, channels, second, todo>>

(* SyncProviderModels: the provider has no longer the model that a row is for.  *)
SyncProviderModels(m) ==
    /\ Now(m, "sync")
    /\ rows' = [i \in DOMAIN rows |->
                  IF rows[i].provider = JobOf(m).p THEN [rows[i] EXCEPT !.agent = None] ELSE rows[i]]
    /\ Ends(m) /\ Marks({"synced"})
    /\ UNCHANGED <<scene, last, remote, embeddings, channels, second, todo>>

--------------------------------------------------------------------------------
(* The library of the user and the files listed in its row                      *)

(* getUserLibraryID; getOrCreateUserLibrary makes one when none is found.       *)
FindsLibrary(m) ==
    /\ Now(m, "library")
    /\ LET library == RecordOf("mistral").ids.library IN
       IF library # None
       THEN manager' = [manager EXCEPT ![m].library = library,
                          ![m].at = IF JobOf(m).kind = "upload" THEN "upload" ELSE "drop"]
       ELSE GoesOr(m, IF JobOf(m).kind = "upload" THEN "makelib" ELSE "idle")
    /\ UNCHANGED <<scene, rows, last, remote, embeddings, channels, second, todo, past>>

(* saveLibraryID, addFileToDatabase, removeFileFromDatabase and clearLibraryID  *)
(* read the row, then write the whole column.                                   *)
AfterRow(m, saw) ==
    LET files == saw.ids.files
        there == JobOf(m).docs \subseteq files IN
    CASE Now(m, "keep") -> IF saw = NoRow THEN "undo" ELSE "keeping"
      [] Now(m, "listing") -> IF saw = NoRow \/ there THEN "idle" ELSE "list"
      [] Now(m, "unlisting") -> IF saw = NoRow \/ files = {} THEN "emptied"
                                ELSE IF there THEN "unlist" ELSE "idle"
      [] OTHER -> IF saw = NoRow THEN "idle" ELSE "clear"
ReadsRow(m) ==
    /\ manager[m].at \in {"keep", "listing", "unlisting", "clearing"}
    /\ LET saw == RecordOf("mistral") IN
       IF AfterRow(m, saw) = "idle" THEN Ends(m)
       ELSE manager' = [manager EXCEPT ![m].at = AfterRow(m, saw), ![m].saw = saw]
    /\ UNCHANGED <<scene, rows, last, remote, embeddings, channels, second, todo, past>>

(* mutant: a file replaces the list of files *)
WrittenOver(m) ==
    LET ids == manager[m].saw.ids IN
    CASE Now(m, "keeping") -> [ids EXCEPT !.library = manager[m].library]
      [] Now(m, "list") -> [ids EXCEPT !.files = JobOf(m).docs]
      [] Now(m, "unlist") -> [ids EXCEPT !.files = @ \ JobOf(m).docs]
      [] OTHER -> NoIds
Written(m) ==
    LET ids == manager[m].saw.ids IN
    CASE Now(m, "keeping") -> [ids EXCEPT !.library = manager[m].library]
      [] Now(m, "list") -> [ids EXCEPT !.files = @ \cup JobOf(m).docs]
      [] Now(m, "unlist") -> [ids EXCEPT !.files = @ \ JobOf(m).docs]
      [] OTHER -> NoIds
AfterWrite(m) ==
    CASE Now(m, "keeping") -> "upload"
      [] Now(m, "unlist") /\ Written(m).files = {} -> "emptied"
      [] OTHER -> "idle"
(* A row that is gone or has another agent by now is not written, and nobody is *)
(* told.                                                                        *)
UpdateUserGPT(m) ==
    /\ manager[m].at \in {"keeping", "list", "unlist", "clear"}
    /\ rows' = [i \in DOMAIN rows |->
                  IF i = manager[m].saw.id /\ rows[i].agent = manager[m].saw.agent
                  THEN [rows[i] EXCEPT !.ids = Written(m)] ELSE rows[i]]
    /\ GoesOr(m, AfterWrite(m))
    /\ UNCHANGED <<scene, last, remote, embeddings, channels, second, todo, past>>

--------------------------------------------------------------------------------
(* Documents kept as embeddings                                                 *)

Upserts(id, key, text) ==
    embeddings' = {e \in embeddings : <<e.model, e.key>> # <<id, key>>} \cup {[model |-> id, key |-> key, text |-> text]}

(* UploadDocumentWithEmbedding: the embedding, the docID from the second, the   *)
(* row. A model that is gone by then has none: a foreign key.                   *)
GeneratesEmbedding(m) ==
    /\ Now(m, "embed")
    /\ manager' = [manager EXCEPT ![m].at = "embedding", ![m].key = second]
    /\ UNCHANGED <<scene, rows, last, remote, embeddings, channels, second, todo, past>>
SaveEmbedding(m) ==
    /\ Now(m, "embedding")
    /\ IF manager[m].saw.id \in DOMAIN rows
       THEN \E text \in JobOf(m).docs : Upserts(manager[m].saw.id, manager[m].key, text)
       ELSE UNCHANGED embeddings
    /\ Ends(m)
    /\ UNCHANGED <<scene, rows, last, remote, channels, second, todo, past>>
DeleteEmbedding(m) ==
    /\ Now(m, "forget")
    /\ LET mine == {e \in embeddings : e.model = manager[m].saw.id} IN
       \/ mine = {} /\ UNCHANGED <<embeddings, past>>
       \/ \E e \in mine : /\ embeddings' = embeddings \ {e}
                          /\ Marks(IF e.key = 0 THEN {"hidden"} ELSE {})
    /\ Ends(m)
    /\ UNCHANGED <<scene, rows, last, remote, channels, second, todo>>

(* The embeddings of all files go at once, those of new ones come one by one,   *)
(* each under a docID of its own (key 0 here).                                  *)
AfterClean(m) ==
    IF JobOf(m).kind = "delete" THEN "remove" ELSE IF manager[m].left = {} THEN "save" ELSE "fetch"
DeleteAllModelEmbeddings(m) ==
    /\ Now(m, "clean")
    /\ embeddings' = {e \in embeddings : e.model # manager[m].saw.id}
    /\ Goes(m, AfterClean(m))
    /\ UNCHANGED <<scene, rows, last, remote, channels, second, todo, past>>
AfterFile(m, text) ==
    manager' = [manager EXCEPT ![m].left = @ \ {text},
                               ![m].at = IF manager[m].left = {text} THEN "save" ELSE "fetch"]
EmbedsFile(m) ==
    /\ Now(m, "fetch")
    /\ \E text \in manager[m].left :
          /\ AfterFile(m, text)
          /\ IF manager[m].saw.id \in DOMAIN rows
             THEN embeddings' = embeddings \cup {[model |-> manager[m].saw.id, key |-> 0, text |-> text]}
             ELSE UNCHANGED embeddings
    /\ UNCHANGED <<scene, rows, last, remote, channels, second, todo, past>>

SecondPasses ==
    /\ second < MaxSeconds /\ second' = second + 1
    /\ \E m \in Managers : JobOf(m).kind = "embed"
    /\ UNCHANGED <<scene, rows, last, remote, embeddings, channels, manager, todo, past>>

--------------------------------------------------------------------------------
(* A query, transaction or request fails, once in a behaviour. What the code    *)
(* goes on with:                                                                *)

OnError(m) ==
    LET me == manager[m] IN
    CASE me.at \in {"agent", "files", "emptied"} -> AfterCall(m)
      [] me.at = "library" /\ me.job.kind = "upload" -> "makelib"
      [] me.at \in {"keep", "keeping"} -> "undo"
      [] me.at \in {"unlisting", "unlist"} -> "emptied"
      [] me.at = "clean" -> AfterClean(m)
      [] OTHER -> "idle"

Fails(m) ==
    /\ Busy(m) /\ scene.faults /\ "failed" \notin past
    /\ \/ Now(m, "fetch") /\ (\E text \in manager[m].left : AfterFile(m, text)) /\ UNCHANGED <<last, remote>>
       \/ ~Now(m, "fetch") /\ GoesOr(m, OnError(m)) /\ UNCHANGED <<last, remote>>
       \/ CanCall(m) /\ GoesOr(m, OnError(m)) /\ Carries(m)
    /\ Marks({"failed"})
    /\ UNCHANGED <<scene, rows, embeddings, channels, second, todo>>

Does(m) ==
    \/ ReadsModel(m) \/ ReadsRecord(m) \/ CallsMistral(m) \/ MakesNoAgent(m) \/ UploadRefused(m)
    \/ SaveBegins(m) \/ SaveCommits(m) \/ RemoveBegins(m) \/ RemoveCommits(m)
    \/ DisableAllUserChannel(m) \/ ReadsNext(m) \/ SetActiveModelByProvider(m) \/ SyncProviderModels(m)
    \/ FindsLibrary(m) \/ ReadsRow(m) \/ UpdateUserGPT(m)
    \/ GeneratesEmbedding(m) \/ SaveEmbedding(m) \/ DeleteEmbedding(m)
    \/ DeleteAllModelEmbeddings(m) \/ EmbedsFile(m)

StoreNext ==
    \/ \E m \in Managers : (\E job \in scene.jobs : Begins(m, job)) \/ Does(m) \/ Fails(m) \/ RemoveUnpicked(m)
    \/ SecondPasses

StoreSpec == StoreInit /\ [][StoreNext]_storevars

--------------------------------------------------------------------------------
Rest == \A m \in Managers : ~Busy(m)
Never(S) == past \cap S = {}

Active == {i \in DOMAIN rows : rows[i].active}
SoleActive == \A i, j \in Active : i = j

(* A user with models has exactly one that is active: GetActiveProvider fails   *)
(* otherwise. That takes that no two transactions of the user overlap, and that *)
(* no deletion of the active model lost the SELECT of its successor; the calls  *)
(* themselves may overlap. If that SELECT was lost no more than one is active,  *)
(* and DeleteModel's second switch has made up for it at the end of the call    *)
(* when the calls came in turn.                                                 *)
OneActive ==
    /\ Never({"crossed"}) => SoleActive
    /\ Never({"crossed", "unpicked"}) \/ (Rest /\ Never({"overlapped"}))
          => (DOMAIN rows # {} => \E i \in DOMAIN rows : Active = {i})

(* DeleteModel says of itself that it switches to another model when the active *)
(* one goes and others are left: none stays without. Beside an activation the   *)
(* model reaches the contrary.                                                  *)
AnotherIsSwitchedTo == Rest /\ Never({"crossed"}) /\ DOMAIN rows # {} => Active # {}

(* When the last model of a user is removed its channels are disabled, however  *)
(* the calls overlap.                                                           *)
ChannelsOff == Rest /\ Never({"crossed", "failed"}) /\ rows = <<>> /\ last.row > 0 => ~channels

(* A user has one active model, or none and no channels.                        *)
OneActiveOrOff == OneActive /\ ChannelsOff

(* Replacing, saving and deleting agents one call after another leaves exactly  *)
(* the agents at Mistral that a row names, even if files come and go between.   *)
AgentsMatch ==
    Rest /\ Never({"overlapped", "failed", "synced", "replaced"})
        => {rows[i].agent : i \in Of("mistral", rows)} = DOMAIN agents

(* Uploads, drops, updates and deletions one after another leave the library of *)
(* the row at Mistral with the documents the row lists, and no other library    *)
(* but that of a model deleted without its files.                               *)
LibraryMatches ==
    Rest /\ Never({"overlapped", "failed", "fell", "stored", "replaced"})
        => LET ids == {rows[i].ids : i \in Of("mistral", rows)} IN
           /\ \A d \in ids : IF d.library = None THEN d.files = {}
                             ELSE d.library \in DOMAIN libraries /\ libraries[d.library] = d.files
           /\ Never({"kept"}) => DOMAIN libraries \subseteq {d.library : d \in ids}

(* The files a searchable Google model lists are those it has embeddings of,    *)
(* as long as its search is not switched off and UpdateModelToDB, which embeds  *)
(* nothing, writes no other files.                                              *)
ListedAreSearchable ==
    Rest /\ Never({"overlapped", "failed", "hidden", "replaced"})
        => \A i \in Of("google", rows) :
              rows[i].data.search => rows[i].data.files = {e.text : e \in {x \in embeddings : x.model = i /\ x.key = 0}}

(* The files a model lists are those its provider can search.                   *)
FilesMatch == LibraryMatches /\ ListedAreSearchable

(* manager.go says a library is deleted when it is empty after a document went. *)
OnlyEmptyLibraryGoes ==
    [][\A l \in DOMAIN libraries \ DOMAIN libraries' :
          libraries[l] = {} \/ \E m \in Managers : Now(m, "files")]_storevars

--------------------------------------------------------------------------------
(* The models of the user as UserModels has them: of a provider with several    *)
(* rows the one that is shown.                                                  *)
Content == [agent : Agent, ids : VecIds, data : Data]
ContentOf(r) == [agent |-> r.agent, ids |-> r.ids, data |-> r.data]
WithModel == {rows[i].provider : i \in DOMAIN rows}
ShownModel == [p \in WithModel |-> ContentOf(rows[FirstOf(Of(p, rows))])]
ActiveProviders == {rows[i].provider : i \in Active}

OfUser == INSTANCE UserModels WITH model <- ShownModel, active <- ActiveProviders,
                                       apart <- Never({"crossed"}), picked <- Never({"unpicked"})

(* To whoever looks from outside every call on the models of a user happens at  *)
(* once and to one model: a transaction that commits does what it would have    *)
(* done had it read when it writes, however the calls around it overlap, until  *)
(* two transactions are open at once; a deletion that lost the SELECT of its    *)
(* successor shows as one that leaves no model active.                          *)
ImplementsUserModels == OfUser!Spec
================================================================================
