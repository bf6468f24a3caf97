--------------------------- MODULE ModelStoreProofs ---------------------------
(***************************************************************************)
(* What TLAPS proves of ModelStore, for any managers, documents and bounds.*)
(* For calls that overlap and fail as they like: the variables have their  *)
(* types, and a user with models has exactly one that is active unless two *)
(* transactions ran side by side or a deletion lost the SELECT of its      *)
(* successor. For calls one after another: the agents at Mistral are those *)
(* of the rows, its library has the documents that are listed, and a       *)
(* Google model is searched by the files it lists. The transactions on the *)
(* rows implement UserModels, the list of models its readers see.          *)
(***************************************************************************)
EXTENDS ModelStore, Sequences, WellFoundedInduction, TLAPS

(***************************************************************************)
(* The fields the proof reads are there, and an Id of user_gpt is new.     *)
(***************************************************************************)
ManagerShape ==
  /\ DOMAIN manager = Managers
  /\ \A m \in Managers : {"at", "snap", "saw", "job"} \subseteq DOMAIN manager[m]
RowShape ==
  /\ last.row \in Nat /\ "row" \in DOMAIN last
  /\ DOMAIN rows \subseteq 1 .. last.row
  /\ \A k \in DOMAIN rows : "active" \in DOMAIN rows[k] /\ rows[k].active \in BOOLEAN
Shape == scene \in Scenes /\ ManagerShape /\ RowShape

(***************************************************************************)
(* While no transaction has crossed another: at most one is open, the rows *)
(* it read and which of them is active are still those of the table, and a *)
(* removal is of a row that is there. One model is active, or none after a *)
(* deletion that lost the SELECT of its successor.                         *)
(***************************************************************************)
Apart == \A m, n \in Managers : InTransaction(m) /\ InTransaction(n) => m = n
Agrees(t) == DOMAIN t = DOMAIN rows /\ \A k \in DOMAIN rows : t[k].active = rows[k].active
SnapsAgree == \A m \in Managers : InTransaction(m) => Agrees(manager[m].snap)
RemovesRow == \A m \in Managers : Now(m, "unlink") => manager[m].saw.id \in DOMAIN rows
OnlyActive(i) == \A j \in DOMAIN rows : rows[j].active <=> j = i
NoneActive == \A j \in DOMAIN rows : ~rows[j].active
Unique ==
  DOMAIN rows # {} => (\E i \in DOMAIN rows : OnlyActive(i)) \/ ("unpicked" \in past /\ NoneActive)

StoreInv == Shape /\ (Never({"crossed"}) => Apart /\ SnapsAgree /\ RemovesRow /\ Unique)

LEMMA StoreInvInit == StoreInit => StoreInv
<1> SUFFICES ASSUME StoreInit PROVE StoreInv
  OBVIOUS
<1>1. Shape
  BY DEF StoreInit, Shape, ManagerShape, RowShape, Idle
<1>2. Apart /\ SnapsAgree /\ RemovesRow /\ Unique
  BY DEF StoreInit, Apart, SnapsAgree, RemovesRow, Unique, InTransaction, Now, Idle
<1>3. QED
  BY <1>1, <1>2 DEF StoreInv

(***************************************************************************)
(* A step of m that neither opens a transaction nor adds, removes or       *)
(* switches a model.                                                       *)
(***************************************************************************)
SameRows ==
  /\ UNCHANGED <<scene, last.row>> /\ "row" \in DOMAIN last'
  /\ DOMAIN rows' = DOMAIN rows
  /\ \A k \in DOMAIN rows : "active" \in DOMAIN rows'[k] /\ rows'[k].active = rows[k].active
Alone(m) ==
  /\ DOMAIN manager' = Managers
  /\ {"at", "snap", "saw", "job"} \subseteq DOMAIN manager'[m]
  /\ \A n \in Managers \ {m} : manager'[n] = manager[n]

(***************************************************************************)
(* What a transaction read stays what it read; one that opens reads the    *)
(* rows as they are.                                                       *)
(***************************************************************************)
SnapsKept ==
  \A n \in Managers :
     InTransaction(n)' => \/ InTransaction(n) /\ manager'[n].snap = manager[n].snap
                          \/ manager'[n].snap = rows /\ rows' = rows

LEMMA QuietStep ==
  ASSUME StoreInv, NEW m \in Managers, Alone(m), SameRows, past \subseteq past',
         manager'[m].at \notin {"commit", "unlink"}
  PROVE  StoreInv' /\ SnapsKept
<1>1. Shape'
  BY DEF StoreInv, Shape, ManagerShape, RowShape, Alone, SameRows
<1>2. ASSUME Never({"crossed"})' PROVE (Apart /\ SnapsAgree /\ RemovesRow /\ Unique)'
  <2>1. Never({"crossed"})
    BY <1>2 DEF Never
  <2>2. Apart'
    BY <2>1 DEF StoreInv, Apart, InTransaction, Alone
  <2>3. SnapsAgree'
    BY <2>1 DEF StoreInv, SnapsAgree, Agrees, InTransaction, Alone, SameRows
  <2>4. RemovesRow'
    BY <2>1 DEF StoreInv, RemovesRow, Now, Alone, SameRows
  <2>5. Unique'
    BY <2>1 DEF StoreInv, Unique, OnlyActive, NoneActive, SameRows
  <2>6. QED
    BY <2>2, <2>3, <2>4, <2>5
<1>3. SnapsKept
  BY DEF SnapsKept, InTransaction, Alone
<1>4. QED
  BY <1>1, <1>2, <1>3 DEF StoreInv

(***************************************************************************)
(* A transaction opens. If it crosses another the step is marked, else it  *)
(* is the only one that is open.                                           *)
(***************************************************************************)
LEMMA OpeningStep ==
  ASSUME StoreInv, NEW m \in Managers, Alone(m), UNCHANGED <<scene, rows, last>>, Marks(Crossing(m)),
         manager'[m].at \in {"commit", "unlink"}, manager'[m].snap = rows,
         manager'[m].at = "unlink" => manager'[m].saw.id \in DOMAIN rows
  PROVE  StoreInv' /\ SnapsKept
<1>1. Shape'
  BY DEF StoreInv, Shape, ManagerShape, RowShape, Alone
<1>2. ASSUME Never({"crossed"})' PROVE (Apart /\ SnapsAgree /\ RemovesRow /\ Unique)'
  <2>1. Never({"crossed"}) /\ \A n \in Managers \ {m} : ~InTransaction(n)
    BY <1>2 DEF Never, Marks, Crossing
  <2>2. \A n \in Managers \ {m} : ~InTransaction(n)'
    BY <2>1 DEF InTransaction, Alone
  <2>3. Apart'
    BY <2>2 DEF Apart
  <2>4. SnapsAgree'
    BY <2>2 DEF SnapsAgree, Agrees
  <2>5. RemovesRow'
    BY <2>1 DEF StoreInv, RemovesRow, Now, Alone
  <2>6. Unique'
    BY <2>1 DEF StoreInv, Unique, OnlyActive, NoneActive, Marks
  <2>7. QED
    BY <2>3, <2>4, <2>5, <2>6
<1>3. SnapsKept
  BY DEF SnapsKept, InTransaction, Alone
<1>4. QED
  BY <1>1, <1>2, <1>3 DEF StoreInv

(***************************************************************************)
(* A step of m that changes which models there are or which is active: no  *)
(* other transaction may be open, and the active one is settled.           *)
(***************************************************************************)
LEMMA WritingStep ==
  ASSUME StoreInv, NEW m \in Managers, Alone(m), RowShape', UNCHANGED scene, past \subseteq past',
         manager'[m].at \notin {"commit", "unlink"},
         Never({"crossed"})' => Unique' /\ \A n \in Managers \ {m} : ~InTransaction(n)
  PROVE  StoreInv' /\ SnapsKept
<1>1. Shape'
  BY DEF StoreInv, Shape, ManagerShape, Alone
<1>2. ASSUME Never({"crossed"})' PROVE (Apart /\ SnapsAgree /\ RemovesRow /\ Unique)'
  <2>1. \A n \in Managers : ~InTransaction(n)'
    BY <1>2 DEF InTransaction, Alone
  <2>2. (Apart /\ SnapsAgree)'
    BY <2>1 DEF Apart, SnapsAgree
  <2>3. RemovesRow'
    BY <2>1 DEF RemovesRow, Now, InTransaction
  <2>4. QED
    BY <1>2, <2>2, <2>3
<1>3. SnapsKept
  BY DEF SnapsKept, InTransaction, Alone
<1>4. QED
  BY <1>1, <1>2, <1>3 DEF StoreInv

LEMMA AtIdle ==
  ASSUME NEW m \in Managers, ManagerShape, Ends(m)
  PROVE  Alone(m) /\ manager'[m].at = "idle"
BY DEF ManagerShape, Ends, Alone, Idle

LEMMA GoesTo ==
  ASSUME NEW m \in Managers, ManagerShape, NEW at, GoesOr(m, at)
  PROVE  Alone(m) /\ manager'[m].at \in {"idle", at}
BY AtIdle DEF ManagerShape, GoesOr, Goes, Alone

LEMMA BeginsStep ==
  ASSUME StoreInv, NEW m \in Managers, NEW job \in scene.jobs, Begins(m, job)
  PROVE  StoreInv' /\ SnapsKept
<1>1. PICK sent : manager' = [manager EXCEPT ![m] = [Idle EXCEPT !.at = FirstStep[job.kind], !.job = job, !.sent = sent]]
  BY DEF Begins
<1>2. FirstStep[job.kind] \notin {"commit", "unlink"}
  <2>1. job.kind \in Kind
    BY SceneAssumption DEF StoreInv, Shape, Scene, Job
  <2>2. QED
    BY <2>1 DEF FirstStep, Kind
<1>3. Alone(m) /\ manager'[m].at = FirstStep[job.kind]
  BY <1>1 DEF StoreInv, Shape, ManagerShape, Alone, Idle
<1>4. SameRows
  BY DEF Begins, SameRows, StoreInv, Shape, RowShape
<1>5. QED
  BY <1>2, <1>3, <1>4, QuietStep DEF Begins, Marks

(***************************************************************************)
(* The steps outside of transactions, one lemma for each action.           *)
(***************************************************************************)
LEMMA RowsStay ==
  ASSUME StoreInv, UNCHANGED <<scene, rows, last>>
  PROVE  SameRows
BY DEF StoreInv, Shape, RowShape, SameRows

LEMMA ReadsModelStep ==
  ASSUME StoreInv, NEW m \in Managers, ReadsModel(m) PROVE StoreInv' /\ SnapsKept
<1>1. Alone(m) /\ manager'[m].at \in {"idle", "record"}
  BY AtIdle DEF ReadsModel, StoreInv, Shape, ManagerShape, Alone
<1>2. QED
  BY <1>1, RowsStay, QuietStep DEF ReadsModel, Marks

LEMMA ReadsRecordStep ==
  ASSUME StoreInv, NEW m \in Managers, ReadsRecord(m) PROVE StoreInv' /\ SnapsKept
<1>1. AfterRecord(m) \notin {"commit", "unlink"}
  BY DEF AfterRecord, GoogleStep
<1>2. Alone(m) /\ manager'[m].at \in {"idle", AfterRecord(m)}
  BY AtIdle DEF ReadsRecord, StoreInv, Shape, ManagerShape, Alone
<1>3. QED
  BY <1>1, <1>2, RowsStay, QuietStep DEF ReadsRecord, Marks

LEMMA AfterCallQuiet ==
  ASSUME NEW m \in Managers
  PROVE  AfterCall(m) \notin {"commit", "unlink"}
BY DEF AfterCall, AfterAgent

LEMMA CarriesKeeps ==
  ASSUME StoreInv, NEW m \in Managers, Carries(m)
  PROVE  last'.row = last.row /\ "row" \in DOMAIN last'
BY DEF Carries, MakesAgent, StoreInv, Shape, RowShape

LEMMA CallsMistralStep ==
  ASSUME StoreInv, NEW m \in Managers, CallsMistral(m) PROVE StoreInv' /\ SnapsKept
<1>1. Alone(m) /\ manager'[m].at \notin {"commit", "unlink"}
  <2>1. CASE Now(m, "make") \/ Now(m, "makelib")
    BY <2>1 DEF CallsMistral, StoreInv, Shape, ManagerShape, Alone
  <2>2. CASE ~(Now(m, "make") \/ Now(m, "makelib"))
    BY <2>2, AfterCallQuiet, GoesTo DEF CallsMistral, StoreInv, Shape
  <2>3. QED
    BY <2>1, <2>2
<1>2. SameRows
  BY CarriesKeeps DEF CallsMistral, SameRows, StoreInv, Shape, RowShape
<1>3. QED
  BY <1>1, <1>2, QuietStep DEF CallsMistral, Marks

LEMMA FailsStep ==
  ASSUME StoreInv, NEW m \in Managers, Fails(m) PROVE StoreInv' /\ SnapsKept
<1>1. OnError(m) \notin {"commit", "unlink"}
  BY AfterCallQuiet DEF OnError, AfterClean
<1>2. Alone(m) /\ manager'[m].at \notin {"commit", "unlink"}
  <2>1. CASE GoesOr(m, OnError(m))
    BY <1>1, <2>1, GoesTo DEF StoreInv, Shape
  <2>2. ASSUME NEW text, AfterFile(m, text)
        PROVE  Alone(m) /\ manager'[m].at \in {"save", "fetch"}
    BY <2>2 DEF AfterFile, StoreInv, Shape, ManagerShape, Alone
  <2>3. QED
    BY <2>1, <2>2 DEF Fails
<1>3. SameRows
  <2>1. last'.row = last.row /\ "row" \in DOMAIN last'
    BY CarriesKeeps DEF Fails, StoreInv, Shape, RowShape
  <2>2. QED
    BY <2>1 DEF Fails, SameRows, StoreInv, Shape, RowShape
<1>4. QED
  BY <1>2, <1>3, QuietStep DEF Fails, Marks

LEMMA PlainSteps ==
  ASSUME StoreInv, NEW m \in Managers,
         \/ MakesNoAgent(m) \/ UploadRefused(m) \/ ReadsNext(m) \/ DisableAllUserChannel(m)
         \/ GeneratesEmbedding(m) \/ SaveEmbedding(m) \/ DeleteEmbedding(m)
         \/ DeleteAllModelEmbeddings(m) \/ EmbedsFile(m)
  PROVE  StoreInv' /\ SnapsKept
<1> USE DEF StoreInv, Shape
<1>1. CASE MakesNoAgent(m) \/ GeneratesEmbedding(m)
  <2>1. Alone(m) /\ manager'[m].at \notin {"commit", "unlink"}
    BY <1>1 DEF MakesNoAgent, GeneratesEmbedding, ManagerShape, Alone
  <2>2. QED
    BY <1>1, <2>1, RowsStay, QuietStep DEF MakesNoAgent, GeneratesEmbedding
<1>2. CASE UploadRefused(m) \/ SaveEmbedding(m) \/ DeleteEmbedding(m)
  BY <1>2, AtIdle, RowsStay, QuietStep DEF UploadRefused, SaveEmbedding, DeleteEmbedding, Marks
<1>3. CASE ReadsNext(m)
  <2>1. Alone(m) /\ manager'[m].at \in {"idle", "switch"}
    BY <1>3, AtIdle DEF ReadsNext, ManagerShape, Alone
  <2>2. QED
    BY <1>3, <2>1, RowsStay, QuietStep DEF ReadsNext
<1>4. CASE DisableAllUserChannel(m)
  <2>1. AfterRemoval(m) \notin {"commit", "unlink"}
    BY DEF AfterRemoval
  <2>2. QED
    BY <1>4, <2>1, GoesTo, RowsStay, QuietStep DEF DisableAllUserChannel
<1>5. CASE DeleteAllModelEmbeddings(m)
  <2>1. Alone(m) /\ manager'[m].at \in {"remove", "save", "fetch"}
    BY <1>5 DEF DeleteAllModelEmbeddings, AfterClean, Goes, ManagerShape, Alone
  <2>2. QED
    BY <1>5, <2>1, RowsStay, QuietStep DEF DeleteAllModelEmbeddings
<1>6. CASE EmbedsFile(m)
  <2>1. Alone(m) /\ manager'[m].at \in {"save", "fetch"}
    BY <1>6 DEF EmbedsFile, AfterFile, ManagerShape, Alone
  <2>2. QED
    BY <1>6, <2>1, RowsStay, QuietStep DEF EmbedsFile
<1>7. QED
  BY <1>1, <1>2, <1>3, <1>4, <1>5, <1>6

LEMMA FindsLibraryStep ==
  ASSUME StoreInv, NEW m \in Managers, FindsLibrary(m) PROVE StoreInv' /\ SnapsKept
<1>1. Alone(m) /\ manager'[m].at \notin {"commit", "unlink"}
  BY GoesTo DEF FindsLibrary, StoreInv, Shape, ManagerShape, Alone
<1>2. QED
  BY <1>1, RowsStay, QuietStep DEF FindsLibrary

LEMMA ReadsRowStep ==
  ASSUME StoreInv, NEW m \in Managers, ReadsRow(m) PROVE StoreInv' /\ SnapsKept
<1> DEFINE saw == RecordOf("mistral")
<1>1. AfterRow(m, saw) \notin {"commit", "unlink"}
  BY DEF AfterRow
<1>2. Alone(m) /\ manager'[m].at \in {"idle", AfterRow(m, saw)}
  BY AtIdle DEF ReadsRow, StoreInv, Shape, ManagerShape, Alone
<1>3. QED
  BY <1>1, <1>2, RowsStay, QuietStep DEF ReadsRow

LEMMA UpdateUserGPTStep ==
  ASSUME StoreInv, NEW m \in Managers, UpdateUserGPT(m) PROVE StoreInv' /\ SnapsKept
<1>1. AfterWrite(m) \notin {"commit", "unlink"}
  BY DEF AfterWrite
<1>2. Alone(m) /\ manager'[m].at \notin {"commit", "unlink"}
  BY <1>1, GoesTo DEF UpdateUserGPT, StoreInv, Shape
<1>3. SameRows
  BY DEF UpdateUserGPT, SameRows, StoreInv, Shape, RowShape
<1>4. QED
  BY <1>2, <1>3, QuietStep DEF UpdateUserGPT

LEMMA SyncProviderModelsStep ==
  ASSUME StoreInv, NEW m \in Managers, SyncProviderModels(m) PROVE StoreInv' /\ SnapsKept
<1>1. SameRows
  BY DEF SyncProviderModels, SameRows, StoreInv, Shape, RowShape
<1>2. QED
  BY <1>1, AtIdle, QuietStep DEF SyncProviderModels, StoreInv, Shape, Marks

(***************************************************************************)
(* The steps of transactions.                                              *)
(***************************************************************************)
LEMMA BeginningSteps ==
  ASSUME StoreInv, NEW m \in Managers, SaveBegins(m) \/ RemoveBegins(m) PROVE StoreInv' /\ SnapsKept
<1> USE DEF StoreInv, Shape
<1>1. CASE Ends(m)
  BY <1>1, AtIdle, RowsStay, QuietStep DEF SaveBegins, RemoveBegins, Marks
<1>2. CASE SaveBegins(m) /\ manager' = [manager EXCEPT ![m].at = "commit", ![m].snap = rows]
  <2>1. Alone(m) /\ manager'[m].at = "commit" /\ manager'[m].snap = rows
    BY <1>2 DEF ManagerShape, Alone
  <2>2. QED
    BY <1>2, <2>1, OpeningStep DEF SaveBegins
<1>3. CASE /\ RemoveBegins(m) /\ manager[m].saw.id \in DOMAIN rows
           /\ manager' = [manager EXCEPT ![m].at = "unlink", ![m].snap = rows]
  <2>1. /\ Alone(m) /\ manager'[m].at = "unlink" /\ manager'[m].snap = rows
        /\ manager'[m].saw.id \in DOMAIN rows
    BY <1>3 DEF ManagerShape, Alone
  <2>2. QED
    BY <1>3, <2>1, OpeningStep DEF RemoveBegins
<1>4. QED
  BY <1>1, <1>2, <1>3 DEF SaveBegins, RemoveBegins

LEMMA SetActiveModelByProviderStep ==
  ASSUME StoreInv, NEW m \in Managers, SetActiveModelByProvider(m) PROVE StoreInv' /\ SnapsKept
<1> USE DEF StoreInv, Shape
<1>1. Alone(m) /\ manager'[m].at = "idle"
  BY AtIdle DEF SetActiveModelByProvider
<1>2. CASE UNCHANGED rows
  BY <1>1, <1>2, RowsStay, QuietStep DEF SetActiveModelByProvider, Marks
<1>3. ASSUME NEW i \in Of(JobOf(m).p, rows), rows' = Switched(i) PROVE StoreInv' /\ SnapsKept
  <2>1. i \in DOMAIN rows /\ DOMAIN rows' = DOMAIN rows
    BY <1>3 DEF Of, Switched
  <2>2. \A k \in DOMAIN rows : "active" \in DOMAIN rows'[k] /\ rows'[k].active = (k = i)
    BY <1>3 DEF Switched, RowShape
  <2>3. RowShape'
    BY <2>1, <2>2 DEF SetActiveModelByProvider, RowShape
  <2>4. Unique'
    BY <2>1, <2>2 DEF Unique, OnlyActive
  <2>5. Never({"crossed"})' => \A n \in Managers \ {m} : ~InTransaction(n)
    BY DEF SetActiveModelByProvider, Never, Marks, Crossing
  <2>6. QED
    BY <1>1, <2>3, <2>4, <2>5, WritingStep DEF SetActiveModelByProvider, Marks
<1>4. QED
  BY <1>2, <1>3 DEF SetActiveModelByProvider

(***************************************************************************)
(* What the manager that commits knows while nothing crossed: it is alone, *)
(* and its snapshot still tells which models there are and which is active.*)
(***************************************************************************)
LEMMA Committing ==
  ASSUME StoreInv, NEW m \in Managers, InTransaction(m), Never({"crossed"})
  PROVE  /\ \A n \in Managers \ {m} : ~InTransaction(n)
         /\ Agrees(manager[m].snap)
         /\ Unique
BY DEF StoreInv, Apart, SnapsAgree

LEMMA InsertsStep ==
  ASSUME StoreInv, NEW m \in Managers, SaveCommits(m), Inserts(m) PROVE StoreInv' /\ SnapsKept
<1> USE DEF StoreInv, Shape
<1>1. Alone(m) /\ manager'[m].at = "idle"
  BY AtIdle DEF SaveCommits
<1> DEFINE new == last.row + 1
<1>2. new \notin DOMAIN rows /\ DOMAIN rows' = DOMAIN rows \cup {new}
  BY DEF Inserts, With, RowShape
<1>3. /\ rows'[new].active = (DOMAIN manager[m].snap = {}) /\ "active" \in DOMAIN rows'[new]
      /\ \A k \in DOMAIN rows : rows'[k] = rows[k]
  BY <1>2 DEF Inserts, With
<1>4. RowShape'
  <2>1. last'.row = last.row + 1 /\ "row" \in DOMAIN last'
    BY DEF Inserts, RowShape
  <2>2. DOMAIN rows' \subseteq 1 .. last'.row
    BY <1>2, <2>1 DEF RowShape
  <2>3. \A k \in DOMAIN rows' : "active" \in DOMAIN rows'[k] /\ rows'[k].active \in BOOLEAN
    BY <1>2, <1>3 DEF RowShape
  <2>4. QED
    BY <2>1, <2>2, <2>3 DEF RowShape
<1>5. ASSUME Never({"crossed"})' PROVE Unique' /\ \A n \in Managers \ {m} : ~InTransaction(n)
  <2>1. InTransaction(m) /\ Never({"crossed"})
    BY <1>5 DEF SaveCommits, Inserts, InTransaction, Now, Never
  <2>2. DOMAIN manager[m].snap = DOMAIN rows /\ Unique /\ \A n \in Managers \ {m} : ~InTransaction(n)
    BY <2>1, Committing DEF Agrees
  <2>3. CASE DOMAIN rows = {}
    BY <1>2, <1>3, <2>2, <2>3 DEF Unique, OnlyActive
  <2>4. CASE DOMAIN rows # {}
    <3>1. ASSUME NEW i \in DOMAIN rows, OnlyActive(i) PROVE OnlyActive(i)'
      BY <1>2, <1>3, <2>2, <2>4, <3>1 DEF OnlyActive
    <3>2. NoneActive => NoneActive'
      BY <1>2, <1>3, <2>2, <2>4 DEF NoneActive
    <3>3. past' = past
      BY DEF Inserts
    <3>4. QED
      BY <1>2, <2>2, <2>4, <3>1, <3>2, <3>3 DEF Unique
  <2>5. QED
    BY <2>2, <2>3, <2>4
<1>6. QED
  BY <1>1, <1>4, <1>5, WritingStep DEF SaveCommits, Inserts

LEMMA SaveCommitsStep ==
  ASSUME StoreInv, NEW m \in Managers, SaveCommits(m) PROVE StoreInv' /\ SnapsKept
<1> USE DEF StoreInv, Shape
<1>1. CASE Updates(m)
  <2>1. SameRows
    BY <1>1 DEF SaveCommits, Updates, SameRows, RowShape
  <2>2. QED
    BY <1>1, <2>1, AtIdle, QuietStep DEF SaveCommits, Updates, Marks
<1>2. QED
  BY <1>1, InsertsStep DEF SaveCommits

LEMMA RemoveCommitsStep ==
  ASSUME StoreInv, NEW m \in Managers, RemoveCommits(m) PROVE StoreInv' /\ SnapsKept
<1> USE DEF StoreInv, Shape
<1> DEFINE id == manager[m].saw.id
           others == DOMAIN manager[m].snap \ {id}
           remaining == Without(rows, id)
           switches == manager[m].snap[id].active /\ others # {}
<1>1. Alone(m) /\ manager'[m].at \notin {"commit", "unlink"}
  <2>1. AfterUnlink(m) \notin {"commit", "unlink"}
    BY DEF AfterUnlink, AfterRemoval
  <2>2. QED
    BY <2>1, GoesTo DEF RemoveCommits
<1>2. /\ DOMAIN remaining = DOMAIN rows \ {id}
      /\ \A k \in DOMAIN rows \ {id} : remaining[k] = rows[k]
  BY DEF Without, Restrict
<1>3. /\ DOMAIN rows' = DOMAIN rows \ {id}
      /\ switches => \E next \in others : \A k \in DOMAIN rows \ {id} :
            "active" \in DOMAIN rows'[k] /\ rows'[k].active = (IF k = next THEN TRUE ELSE rows[k].active)
      /\ ~switches => \A k \in DOMAIN rows \ {id} : rows'[k] = rows[k]
  <2>1. CASE switches
    <3>1. PICK next \in others :
             rows' = [k \in DOMAIN remaining |->
                        IF k = next THEN [remaining[k] EXCEPT !.active = TRUE] ELSE remaining[k]]
      BY <2>1 DEF RemoveCommits
    <3>2. QED
      BY <1>2, <2>1, <3>1 DEF RowShape
  <2>2. CASE ~switches
    BY <1>2, <2>2 DEF RemoveCommits
  <2>3. QED
    BY <2>1, <2>2
<1>4. RowShape'
  <2>1. \A k \in DOMAIN rows' : "active" \in DOMAIN rows'[k] /\ rows'[k].active \in BOOLEAN
    BY <1>3 DEF RowShape
  <2>2. QED
    BY <1>3, <2>1 DEF RemoveCommits, RowShape
<1>5. ASSUME Never({"crossed"})' PROVE Unique' /\ \A n \in Managers \ {m} : ~InTransaction(n)
  <2>1. InTransaction(m) /\ Never({"crossed"}) /\ id \in DOMAIN rows
    BY <1>5 DEF RemoveCommits, InTransaction, Now, Never, RemovesRow
  <2>2. /\ Agrees(manager[m].snap) /\ \A n \in Managers \ {m} : ~InTransaction(n)
        /\ Unique
    BY <2>1, Committing
  <2>3. others = DOMAIN rows \ {id} /\ manager[m].snap[id].active = rows[id].active
    BY <2>1, <2>2 DEF Agrees
  <2>4. (\E i \in DOMAIN rows : OnlyActive(i)) \/ ("unpicked" \in past' /\ NoneActive)
    BY <2>1, <2>2 DEF Unique, RemoveCommits
  <2>5. CASE switches
    <3>1. PICK next \in others : \A k \in DOMAIN rows \ {id} :
             rows'[k].active = (IF k = next THEN TRUE ELSE rows[k].active)
      BY <1>3, <2>5
    <3>2. \A k \in DOMAIN rows \ {id} : ~rows[k].active
      BY <2>1, <2>3, <2>4, <2>5 DEF OnlyActive, NoneActive
    <3>3. OnlyActive(next)' /\ next \in DOMAIN rows'
      BY <1>3, <2>3, <3>1, <3>2 DEF OnlyActive
    <3>4. QED
      BY <2>2, <3>3 DEF Unique
  <2>6. CASE ~switches
    <3>1. \A k \in DOMAIN rows' : rows'[k] = rows[k] /\ k # id /\ k \in DOMAIN rows
      BY <1>3, <2>6
    <3>2. CASE OnlyActive(id)
      <4>1. others = {}
        BY <2>1, <2>3, <2>6, <3>2 DEF OnlyActive
      <4>2. QED
        BY <1>3, <2>2, <2>3, <4>1 DEF Unique
    <3>3. ASSUME NEW i \in DOMAIN rows \ {id}, OnlyActive(i) PROVE Unique'
      BY <1>3, <3>1, <3>3 DEF Unique, OnlyActive
    <3>4. CASE "unpicked" \in past' /\ NoneActive
      BY <2>2, <3>1, <3>4 DEF Unique, NoneActive
    <3>5. QED
      BY <2>2, <2>4, <3>2, <3>3, <3>4
  <2>7. QED
    BY <2>5, <2>6
<1>6. QED
  BY <1>1, <1>4, <1>5, WritingStep DEF RemoveCommits

LEMMA RemoveUnpickedStep ==
  ASSUME StoreInv, NEW m \in Managers, RemoveUnpicked(m) PROVE StoreInv' /\ SnapsKept
<1> USE DEF StoreInv, Shape
<1> DEFINE id == manager[m].saw.id
<1>1. Alone(m) /\ manager'[m].at \notin {"commit", "unlink"}
  <2>1. AfterRemoval(m) \notin {"commit", "unlink"}
    BY DEF AfterRemoval
  <2>2. QED
    BY <2>1, GoesTo DEF RemoveUnpicked
<1>2. DOMAIN rows' = DOMAIN rows \ {id} /\ \A k \in DOMAIN rows' : rows'[k] = rows[k]
  BY DEF RemoveUnpicked, Without, Restrict
<1>3. RowShape'
  BY <1>2 DEF RemoveUnpicked, RowShape
<1>4. ASSUME Never({"crossed"})' PROVE Unique' /\ \A n \in Managers \ {m} : ~InTransaction(n)
  <2>1. InTransaction(m) /\ Never({"crossed"}) /\ id \in DOMAIN rows
    BY <1>4 DEF RemoveUnpicked, InTransaction, Now, Never, Marks, RemovesRow
  <2>2. /\ Agrees(manager[m].snap) /\ \A n \in Managers \ {m} : ~InTransaction(n)
        /\ Unique
    BY <2>1, Committing
  <2>3. rows[id].active
    BY <2>1, <2>2 DEF RemoveUnpicked, Agrees
  <2>4. NoneActive'
    BY <1>2, <2>1, <2>2, <2>3 DEF Unique, OnlyActive, NoneActive
  <2>5. QED
    BY <2>2, <2>4 DEF Unique, RemoveUnpicked, Marks
<1>5. QED
  BY <1>1, <1>3, <1>4, WritingStep DEF RemoveUnpicked, Marks

LEMMA DoesStep ==
  ASSUME StoreInv, NEW m \in Managers, Does(m) PROVE StoreInv' /\ SnapsKept
BY PlainSteps, ReadsModelStep, ReadsRecordStep, CallsMistralStep, FindsLibraryStep, ReadsRowStep,
   UpdateUserGPTStep, SyncProviderModelsStep, BeginningSteps, SaveCommitsStep, RemoveCommitsStep,
   SetActiveModelByProviderStep DEF Does

LEMMA TransactionStep == StoreInv /\ [StoreNext]_storevars => StoreInv' /\ SnapsKept
<1> SUFFICES ASSUME StoreInv, [StoreNext]_storevars PROVE StoreInv' /\ SnapsKept
  OBVIOUS
<1>1. ASSUME NEW m \in Managers,
             (\E job \in scene.jobs : Begins(m, job)) \/ Does(m) \/ Fails(m) \/ RemoveUnpicked(m)
      PROVE  StoreInv' /\ SnapsKept
  BY <1>1, BeginsStep, DoesStep, FailsStep, RemoveUnpickedStep
<1>2. CASE SecondPasses \/ UNCHANGED storevars
  <2>1. UNCHANGED <<scene, rows, last, manager, past>>
    BY <1>2 DEF SecondPasses, storevars
  <2>2. SnapsKept
    BY <2>1 DEF SnapsKept, InTransaction
  <2>3. QED
    BY <2>1, <2>2 DEF StoreInv, Shape, ManagerShape, RowShape, Apart, SnapsAgree, Agrees, RemovesRow, Unique,
                OnlyActive, NoneActive, InTransaction, Now, Never
<1>3. QED
  BY <1>1, <1>2 DEF StoreNext

LEMMA StoreInvStep == StoreInv /\ [StoreNext]_storevars => StoreInv'
  BY TransactionStep

(***************************************************************************)
(* Only a deletion that lost the SELECT of its successor is marked so, and *)
(* it is the one step that failed.                                         *)
(***************************************************************************)
LEMMA MarksAdded ==
  ASSUME [StoreNext]_storevars, ~\E m \in Managers : RemoveUnpicked(m)
  PROVE  past \subseteq past' /\ past' \subseteq past \cup (Mark \ {"unpicked"})
<1>1. ASSUME NEW m \in Managers, (\E job \in scene.jobs : Begins(m, job)) \/ Fails(m)
      PROVE  past \subseteq past' /\ past' \subseteq past \cup (Mark \ {"unpicked"})
  BY <1>1 DEF Begins, Fails, Marks, Mark
<1>2. ASSUME NEW m \in Managers, Does(m)
      PROVE  past \subseteq past' /\ past' \subseteq past \cup (Mark \ {"unpicked"})
  BY <1>2 DEF Does, ReadsModel, ReadsRecord, CallsMistral, MakesNoAgent, UploadRefused, SaveBegins, SaveCommits,
     Inserts, Updates, RemoveBegins, RemoveCommits, DisableAllUserChannel, ReadsNext, SetActiveModelByProvider,
     SyncProviderModels, FindsLibrary, ReadsRow, UpdateUserGPT, GeneratesEmbedding, SaveEmbedding,
     DeleteEmbedding, DeleteAllModelEmbeddings, EmbedsFile, Marks, Crossing, Mark
<1>3. QED
  BY <1>1, <1>2 DEF StoreNext, SecondPasses, storevars

Lost == "unpicked" \in past => "failed" \in past

LEMMA LostInit == StoreInit => Lost
  BY DEF StoreInit, Lost

LEMMA LostStep == Lost /\ [StoreNext]_storevars => Lost'
  BY MarksAdded DEF Lost, RemoveUnpicked, Marks

(***************************************************************************)
(* While nothing crossed, a transaction that is open is the only one, and  *)
(* what it read of the models and their flags still holds when it commits. *)
(***************************************************************************)
THEOREM SnapshotsHold == StoreSpec => [](Never({"crossed"}) => Apart /\ SnapsAgree)
<1>1. StoreInv => (Never({"crossed"}) => Apart /\ SnapsAgree)
  BY DEF StoreInv
<1>2. QED
  BY <1>1, StoreInvInit, StoreInvStep, PTL DEF StoreSpec

--------------------------------------------------------------------------------
(***************************************************************************)
(* The channels. Once the last model is gone they are off, or the manager  *)
(* that removed it is about to disable them.                               *)
(***************************************************************************)
Off == Never({"crossed", "failed"}) /\ DOMAIN rows = {} /\ last.row > 0 /\ channels
         => \E m \in Managers : Now(m, "channels")

LEMMA OffStays ==
  ASSUME Off, DOMAIN rows' = {} => DOMAIN rows = {}, last'.row > 0 /\ DOMAIN rows = {} => last.row > 0,
         UNCHANGED channels, past \subseteq past',
         \A m \in Managers : Now(m, "channels") => Now(m, "channels")'
  PROVE  Off'
BY DEF Off, Never

LEMMA OffStep == StoreInv /\ StoreInv' /\ Lost /\ Off /\ [StoreNext]_storevars => Off'
<1> SUFFICES ASSUME StoreInv, StoreInv', Lost, Off, [StoreNext]_storevars PROVE Off'
  OBVIOUS
<1> USE DEF StoreInv, Shape
<1>1. ASSUME NEW m \in Managers, DisableAllUserChannel(m) PROVE Off'
  BY <1>1 DEF DisableAllUserChannel, Off
<1>2. ASSUME NEW m \in Managers, Fails(m) \/ RemoveUnpicked(m) PROVE Off'
  BY <1>2 DEF Fails, RemoveUnpicked, Marks, Off, Never
<1>3. ASSUME NEW m \in Managers, RemoveCommits(m) PROVE Off'
  <2> SUFFICES ASSUME Never({"crossed", "failed"})', DOMAIN rows' = {}
               PROVE  \E n \in Managers : Now(n, "channels")'
    BY DEF Off
  <2> DEFINE id == manager[m].saw.id
             others == DOMAIN manager[m].snap \ {id}
             remaining == Without(rows, id)
  <2>1. InTransaction(m) /\ Never({"crossed"}) /\ id \in DOMAIN rows
    BY <1>3 DEF RemoveCommits, InTransaction, Now, Never, RemovesRow
  <2>2. Agrees(manager[m].snap) /\ Unique /\ "unpicked" \notin past
    BY <1>3, <2>1, Committing DEF Lost, Never, RemoveCommits
  <2>3. DOMAIN remaining = DOMAIN rows \ {id}
    BY DEF Without, Restrict
  <2>4. DOMAIN rows' = DOMAIN remaining
    BY <1>3 DEF RemoveCommits
  <2>5. DOMAIN manager[m].snap = {id} /\ manager[m].snap[id].active
    BY <2>1, <2>2, <2>3, <2>4 DEF Agrees, Unique, OnlyActive
  <2>6. AfterUnlink(m) = "channels"
    BY <2>5 DEF AfterUnlink, LastOne
  <2>7. manager'[m].at = "channels"
    BY <1>3, <2>6 DEF RemoveCommits, GoesOr, Goes, ManagerShape
  <2>8. QED
    BY <2>7 DEF Now
<1>4. ASSUME NEW m \in Managers, SaveCommits(m) PROVE Off'
  <2>1. CASE Inserts(m)
    <3>1. DOMAIN rows' # {}
      BY <2>1 DEF Inserts, With
    <3>2. QED
      BY <3>1 DEF Off
  <2>2. CASE Updates(m)
    <3>1. DOMAIN rows' = DOMAIN rows /\ UNCHANGED last
      BY <2>2 DEF Updates
    <3>2. ~Now(m, "channels") /\ Alone(m)
      BY <1>4, AtIdle DEF SaveCommits, Now
    <3>3. QED
      BY <1>4, <2>2, <3>1, <3>2, OffStays DEF SaveCommits, Updates, Marks, Alone, Now
  <2>3. QED
    BY <1>4, <2>1, <2>2 DEF SaveCommits
<1>5. ASSUME NEW m \in Managers, ~DisableAllUserChannel(m), ~RemoveCommits(m), ~SaveCommits(m),
             (\E job \in scene.jobs : Begins(m, job)) \/ Does(m)
      PROVE  Off'
  <2>1. DOMAIN rows' = DOMAIN rows /\ UNCHANGED channels
    BY <1>5 DEF Begins, Does, ReadsModel, ReadsRecord, CallsMistral, MakesNoAgent, UploadRefused, SaveBegins,
       RemoveBegins, ReadsNext, SetActiveModelByProvider, Switched, SyncProviderModels, FindsLibrary,
       ReadsRow, UpdateUserGPT, GeneratesEmbedding, SaveEmbedding, DeleteEmbedding,
       DeleteAllModelEmbeddings, EmbedsFile
  <2>2. last'.row = last.row
    BY <1>5, CarriesKeeps DEF Begins, Does, ReadsModel, ReadsRecord, CallsMistral, MakesNoAgent, UploadRefused,
       SaveBegins, RemoveBegins, ReadsNext, SetActiveModelByProvider, SyncProviderModels, FindsLibrary,
       ReadsRow, UpdateUserGPT, GeneratesEmbedding, SaveEmbedding, DeleteEmbedding,
       DeleteAllModelEmbeddings, EmbedsFile
  <2>3. past \subseteq past'
    BY <1>5 DEF Begins, Does, ReadsModel, ReadsRecord, CallsMistral, MakesNoAgent, UploadRefused,
       SaveBegins, RemoveBegins, ReadsNext, SetActiveModelByProvider, SyncProviderModels, FindsLibrary,
       ReadsRow, UpdateUserGPT, GeneratesEmbedding, SaveEmbedding, DeleteEmbedding,
       DeleteAllModelEmbeddings, EmbedsFile, Marks
  <2>4. ~Now(m, "channels")
    BY <1>5 DEF Begins, Does, ReadsModel, ReadsRecord, CallsMistral, CanCall, Calls, MakesNoAgent, UploadRefused,
       SaveBegins, RemoveBegins, ReadsNext, SetActiveModelByProvider, SyncProviderModels, FindsLibrary,
       ReadsRow, UpdateUserGPT, GeneratesEmbedding, SaveEmbedding, DeleteEmbedding,
       DeleteAllModelEmbeddings, EmbedsFile, Now
  <2>5. \A n \in Managers \ {m} : manager'[n] = manager[n]
    BY <1>5 DEF Begins, Does, ReadsModel, ReadsRecord, CallsMistral, MakesNoAgent, UploadRefused,
       SaveBegins, RemoveBegins, ReadsNext, SetActiveModelByProvider, SyncProviderModels, FindsLibrary,
       ReadsRow, UpdateUserGPT, GeneratesEmbedding, SaveEmbedding, DeleteEmbedding,
       DeleteAllModelEmbeddings, EmbedsFile, AfterFile, Goes, GoesOr, Ends, ManagerShape
  <2>6. QED
    BY <2>1, <2>2, <2>3, <2>4, <2>5, OffStays DEF Now
<1>6. CASE SecondPasses \/ UNCHANGED storevars
  BY <1>6 DEF SecondPasses, storevars, Off, Never, Now
<1>7. QED
  BY <1>1, <1>2, <1>3, <1>4, <1>5, <1>6 DEF StoreNext

(***************************************************************************)
(* When the last model of a user has been removed and the calls are over   *)
(* the channels are off, however the calls overlapped, unless transactions *)
(* crossed or a step failed: DeleteModel, RemoveModelFromUser.             *)
(***************************************************************************)
THEOREM ChannelsGoOff == StoreSpec => []ChannelsOff
<1>1. StoreInit => Off
  BY DEF StoreInit, Off
<1>2. Off => ChannelsOff
  BY DEF Off, ChannelsOff, Rest, Busy, Now, Never
<1>3. QED
  BY <1>1, <1>2, OffStep, LostInit, LostStep, StoreInvInit, StoreInvStep, PTL DEF StoreSpec

--------------------------------------------------------------------------------
(***************************************************************************)
(* Calls one after another, none of whose steps failed: one is under way,  *)
(* a provider has one model, each step belongs to some kinds of calls, and *)
(* what a call read of the model is still so when it writes.               *)
(***************************************************************************)
InTurn == Never({"overlapped", "failed"})

Fields ==
  /\ \A m \in Managers : "umcr" \in DOMAIN manager[m] /\ {"kind", "p"} \subseteq DOMAIN manager[m].job
  /\ \A k \in DOMAIN rows : {"provider", "agent", "ids"} \subseteq DOMAIN rows[k]
  /\ last.agent \in Nat /\ "agent" \in DOMAIN last
OneBusy == \A m, n \in Managers : Busy(m) /\ Busy(n) => m = n
Single == \A i, j \in DOMAIN rows : rows[i].provider = rows[j].provider => i = j

\* Which calls a step belongs to.
Course(m) ==
  LET at == manager[m].at
      kind == JobOf(m).kind
      p == JobOf(m).p IN
  /\ at = "read" => kind \in {"update", "store"}
  /\ at = "record" => kind \in {"update", "store", "delete", "embed", "forget"}
  /\ at = "make" => kind = "create" \/ (kind = "update" /\ p = "mistral")
  /\ at = "agent" => kind \in {"update", "delete"} /\ p = "mistral"
  /\ at = "clean" => (kind = "delete" /\ p = "openai") \/ (kind = "update" /\ p = "google")
  /\ at = "fetch" => kind = "update" /\ p = "google"
  /\ at \in {"save", "commit"} => kind \in {"create", "update", "store"}
  /\ at \in {"files", "remove", "unlink"} => kind = "delete"

\* What a call read of a model holds.
Current(m, p) ==
  LET id == manager[m].saw.id IN
  /\ id \in DOMAIN rows /\ rows[id].provider = p
  /\ rows[id].agent = manager[m].saw.agent /\ rows[id].ids = manager[m].saw.ids
AboutModel(m) == \/ manager[m].at \in {"agent", "clean", "fetch", "files", "remove", "unlink"}
                 \/ manager[m].at \in {"make", "save", "commit"} /\ JobOf(m).kind # "create"
AboutRow(m) == manager[m].at \in {"keeping", "list", "unlist", "clear"}
Told(m) ==
  /\ Course(m)
  /\ AboutModel(m) => Current(m, JobOf(m).p)
  /\ AboutRow(m) => Current(m, "mistral")
  /\ InTransaction(m) => manager[m].snap = rows

Turns == Fields /\ OneBusy /\ Single /\ \A m \in Managers : Told(m)
TurnInv == InTurn => Turns

\* A step after which its manager has nothing in hand.
Free == {"idle", "channels", "next", "switch", "sync", "library", "makelib", "keep", "undo", "upload",
         "listing", "drop", "unlisting", "emptied", "clearing", "embed", "embedding", "forget"}

LEMMA TurnFrame ==
  ASSUME Turns, NEW m \in Managers, Busy(m) \/ Rest, Alone(m), (Fields /\ Single /\ Told(m))'
  PROVE  Turns'
<1>1. \A n \in Managers \ {m} : manager'[n] = manager[n] /\ manager[n].at = "idle"
  BY DEF Turns, OneBusy, Alone, Busy, Now, Rest
<1>2. OneBusy'
  BY <1>1 DEF OneBusy, Busy, Now
<1>3. \A n \in Managers \ {m} : Told(n)'
  BY <1>1 DEF Told, Course, AboutModel, AboutRow, InTransaction
<1>4. QED
  BY <1>2, <1>3 DEF Turns

LEMMA TurnFree ==
  ASSUME Turns, NEW m \in Managers, Busy(m) \/ Rest, Alone(m), Fields', Single', manager'[m].at \in Free
  PROVE  Turns'
<1>1. Told(m)'
  BY DEF Free, Told, Course, AboutModel, AboutRow, InTransaction
<1>2. QED
  BY <1>1, TurnFrame

\* What a step leaves of the models, and what it leaves of the other fields.
SameModels ==
  /\ DOMAIN rows' = DOMAIN rows
  /\ \A k \in DOMAIN rows : /\ {"provider", "agent", "ids"} \subseteq DOMAIN rows'[k]
                            /\ rows'[k].provider = rows[k].provider
LastKept == last'.agent \in Nat /\ "agent" \in DOMAIN last'
FieldsOf(m) == "umcr" \in DOMAIN manager'[m] /\ {"kind", "p"} \subseteq DOMAIN manager'[m].job

LEMMA FieldsStay ==
  ASSUME Turns, NEW m \in Managers, Alone(m), FieldsOf(m), SameModels, LastKept
  PROVE  Fields' /\ Single'
BY DEF Turns, Fields, Single, Alone, FieldsOf, SameModels, LastKept

LEMMA ModelsStay ==
  ASSUME Turns, UNCHANGED rows
  PROVE  SameModels
BY DEF Turns, Fields, SameModels

LEMMA LastStays ==
  ASSUME Turns, UNCHANGED last
  PROVE  LastKept
BY DEF Turns, Fields, LastKept

LEMMA IdleFields ==
  ASSUME StoreInv, NEW m \in Managers, Ends(m)
  PROVE  Alone(m) /\ FieldsOf(m) /\ manager'[m].at = "idle"
BY AtIdle DEF StoreInv, Shape, ManagerShape, Ends, FieldsOf, Idle, AnyJob

LEMMA GoFields ==
  ASSUME StoreInv, Turns, NEW m \in Managers, NEW at, GoesOr(m, at)
  PROVE  /\ Alone(m) /\ FieldsOf(m) /\ manager'[m].at = at
         /\ at # "idle" => \A f \in DOMAIN manager[m] \ {"at"} : manager'[m][f] = manager[m][f]
<1>1. CASE at = "idle"
  BY <1>1, IdleFields DEF GoesOr
<1>2. CASE at # "idle"
  BY <1>2, GoesTo DEF GoesOr, Goes, StoreInv, Shape, ManagerShape, Turns, Fields, FieldsOf
<1>3. QED
  BY <1>1, <1>2

(***************************************************************************)
(* The one model of a provider is the one its record shows.                *)
(***************************************************************************)
LEMMA RecordIsModel ==
  ASSUME StoreInv, Turns, NEW p, RecordOf(p) # NoRow
  PROVE  /\ RecordOf(p).id \in DOMAIN rows /\ rows[RecordOf(p).id].provider = p
         /\ RecordOf(p).agent = rows[RecordOf(p).id].agent /\ RecordOf(p).ids = rows[RecordOf(p).id].ids
         /\ Of(p, rows) = {RecordOf(p).id}
<1>1. Of(p, rows) # {} /\ RecordOf(p) = Seen(FirstOf(Of(p, rows)))
  BY DEF RecordOf
<1>2. PICK i \in DOMAIN rows : rows[i].provider = p /\ Of(p, rows) = {i}
  BY <1>1 DEF Of, Turns, Single
<1>3. i \in Nat
  BY <1>2 DEF StoreInv, Shape, RowShape
<1>4. Newest({i}) = i
  BY <1>3 DEF Newest
<1>5. {j \in {i} : rows[j].active} = {i} \/ ~\E j \in {i} : rows[j].active
  OBVIOUS
<1>6. FirstOf({i}) = i
  BY <1>4, <1>5 DEF FirstOf
<1>7. RecordOf(p) = Seen(i)
  BY <1>1, <1>2, <1>6
<1>8. QED
  BY <1>2, <1>7 DEF Seen

LEMMA NoModel ==
  ASSUME StoreInv, Turns, NEW p, Of(p, rows) # {}
  PROVE  RecordOf(p) # NoRow
<1>1. PICK i \in DOMAIN rows : rows[i].provider = p /\ Of(p, rows) = {i}
  BY DEF Of, Turns, Single
<1>2. i \in Nat /\ i >= 1
  BY <1>1 DEF StoreInv, Shape, RowShape
<1>3. Newest({i}) = i
  BY <1>2 DEF Newest
<1>4. {j \in {i} : rows[j].active} = {i} \/ ~\E j \in {i} : rows[j].active
  OBVIOUS
<1>5. FirstOf({i}) = i
  BY <1>3, <1>4 DEF FirstOf
<1>6. RecordOf(p).id = i
  BY <1>1, <1>5 DEF RecordOf, Seen
<1>7. QED
  BY <1>2, <1>6 DEF NoRow, None

(***************************************************************************)
(* The steps of calls in turn.                                             *)
(***************************************************************************)
LEMMA TurnBegins ==
  ASSUME StoreInv, Turns, Rest, NEW m \in Managers, NEW job \in scene.jobs, Begins(m, job) PROVE Turns'
<1>1. PICK sent : manager' = [manager EXCEPT ![m] = [Idle EXCEPT !.at = FirstStep[job.kind], !.job = job, !.sent = sent]]
  BY DEF Begins
<1>2. job \in Job
  BY SceneAssumption DEF StoreInv, Shape, Scene
<1>3. /\ Alone(m) /\ FieldsOf(m) /\ manager'[m].at = FirstStep[job.kind] /\ manager'[m].job = job
  BY <1>1, <1>2 DEF StoreInv, Shape, ManagerShape, Alone, Idle, FieldsOf, Job
<1>4. Fields' /\ Single'
  BY <1>3, FieldsStay, ModelsStay, LastStays DEF Begins
<1>5. /\ job.kind \in Kind
      /\ FirstStep[job.kind] \in Free \cup {"make", "read", "record"}
      /\ FirstStep[job.kind] = "make" => job.kind = "create"
      /\ FirstStep[job.kind] = "read" => job.kind \in {"update", "store"}
      /\ FirstStep[job.kind] = "record" => job.kind \in {"delete", "embed", "forget"}
  BY <1>2 DEF FirstStep, Kind, Job, Free
<1>6. Told(m)'
  <2>1. Course(m)'
    BY <1>3, <1>5 DEF Course, JobOf, Free
  <2>2. ~AboutModel(m)' /\ ~AboutRow(m)' /\ ~InTransaction(m)'
    BY <1>3, <1>5 DEF AboutModel, AboutRow, InTransaction, JobOf, Free
  <2>3. QED
    BY <2>1, <2>2 DEF Told
<1>7. QED
  BY <1>3, <1>4, <1>6, TurnFrame

LEMMA TurnReadsModel ==
  ASSUME StoreInv, Turns, NEW m \in Managers, ReadsModel(m) PROVE Turns'
<1>1. Busy(m) /\ JobOf(m).kind \in {"update", "store"}
  BY DEF ReadsModel, Busy, Now, Turns, Told, Course
<1>2. /\ Alone(m) /\ FieldsOf(m) /\ manager'[m].at \in {"idle", "record"}
      /\ manager'[m].at = "record" => manager'[m].job = manager[m].job
  BY IdleFields DEF ReadsModel, StoreInv, Shape, ManagerShape, Alone, FieldsOf, Turns, Fields
<1>3. Fields' /\ Single'
  BY <1>2, FieldsStay, ModelsStay, LastStays DEF ReadsModel
<1>4. Told(m)'
  BY <1>1, <1>2 DEF Told, Course, AboutModel, AboutRow, InTransaction, JobOf
<1>5. QED
  BY <1>1, <1>2, <1>3, <1>4, TurnFrame

LEMMA TurnReadsRecord ==
  ASSUME StoreInv, Turns, NEW m \in Managers, ReadsRecord(m) PROVE Turns'
<1> DEFINE saw == RecordOf(JobOf(m).p)
<1>1. Busy(m) /\ JobOf(m).kind \in {"update", "store", "delete", "embed", "forget"}
  BY DEF ReadsRecord, Busy, Now, Turns, Told, Course
<1>2. CASE Ends(m)
  BY <1>1, <1>2, IdleFields, FieldsStay, ModelsStay, LastStays, TurnFree DEF ReadsRecord, Free
<1>3. CASE ~Ends(m)
  <2>1. /\ saw # NoRow
        /\ manager' = [manager EXCEPT ![m].at = AfterRecord(m), ![m].saw = saw, ![m].sent = Updated(m),
                          ![m].left = IF FilesChanged(m) THEN manager[m].sent.files ELSE {},
                          ![m].umcr = [agent |-> saw.agent, ids |-> KeptIds(m, saw)]]
        /\ UNCHANGED <<rows, last>>
    BY <1>3 DEF ReadsRecord
  <2>2. /\ Alone(m) /\ FieldsOf(m) /\ manager'[m].at = AfterRecord(m) /\ manager'[m].saw = saw
        /\ manager'[m].job = manager[m].job
    BY <2>1 DEF StoreInv, Shape, ManagerShape, Alone, FieldsOf, Turns, Fields
  <2>3. Fields' /\ Single'
    BY <2>1, <2>2, FieldsStay, ModelsStay, LastStays
  <2>4. Current(m, JobOf(m).p)'
    BY <2>1, <2>2, RecordIsModel DEF Current, JobOf
  <2>5. /\ AfterRecord(m) \in {"embed", "forget", "agent", "clean", "remove", "fetch", "save"}
        /\ AfterRecord(m) = "agent" => JobOf(m).p = "mistral" /\ JobOf(m).kind \in {"update", "delete"}
        /\ AfterRecord(m) = "clean" => \/ JobOf(m).kind = "delete" /\ JobOf(m).p = "openai"
                                       \/ JobOf(m).kind = "update" /\ JobOf(m).p = "google"
        /\ AfterRecord(m) = "fetch" => JobOf(m).kind = "update" /\ JobOf(m).p = "google"
        /\ AfterRecord(m) = "save" => JobOf(m).kind \in {"update", "store"}
        /\ AfterRecord(m) = "remove" => JobOf(m).kind = "delete"
    BY <1>1 DEF AfterRecord, GoogleStep
  <2>6. Told(m)'
    <3>1. Course(m)'
      BY <2>2, <2>5 DEF Course, JobOf
    <3>2. ~AboutRow(m)' /\ ~InTransaction(m)'
      BY <2>2, <2>5 DEF AboutRow, InTransaction
    <3>3. QED
      BY <2>4, <3>1, <3>2 DEF Told
  <2>7. QED
    BY <1>1, <2>2, <2>3, <2>6, TurnFrame
<1>4. QED
  BY <1>2, <1>3

\* m goes on with the same call and the same reading of it.
GoesOn(m, at) ==
  /\ Alone(m) /\ FieldsOf(m) /\ manager'[m].at = at
  /\ manager'[m].job = manager[m].job /\ manager'[m].saw = manager[m].saw

LEMMA TurnGoesOn ==
  ASSUME StoreInv, Turns, NEW m \in Managers, Busy(m), NEW at, GoesOn(m, at), UNCHANGED rows, LastKept,
         at \notin {"commit", "unlink"}, Course(m)',
         AboutModel(m)' => AboutModel(m), AboutRow(m)' => AboutRow(m)
  PROVE  Turns'
<1>1. Fields' /\ Single'
  BY FieldsStay, ModelsStay DEF GoesOn
<1>2. Told(m)'
  BY DEF Turns, Told, GoesOn, Current, JobOf, InTransaction
<1>3. QED
  BY <1>1, <1>2, TurnFrame DEF GoesOn

LEMMA CarriesNumbers ==
  ASSUME Turns, NEW m \in Managers, Carries(m)
  PROVE  LastKept
BY DEF Carries, MakesAgent, Turns, Fields, LastKept

LEMMA TurnCallsMistral ==
  ASSUME StoreInv, Turns, NEW m \in Managers, CallsMistral(m) PROVE Turns'
<1> USE DEF CallsMistral
<1>1. Busy(m) /\ Told(m) /\ LastKept /\ UNCHANGED rows
  BY CarriesNumbers DEF CanCall, Calls, Busy, Now, Turns
<1>2. CASE Now(m, "make")
  <2>1. GoesOn(m, "save")
    BY <1>2 DEF StoreInv, Shape, ManagerShape, Alone, FieldsOf, Turns, Fields, GoesOn
  <2>2. Course(m)'
    BY <1>1, <1>2, <2>1 DEF GoesOn, Course, Told, JobOf, Now
  <2>3. AboutModel(m)' => AboutModel(m)
    BY <1>2, <2>1 DEF AboutModel, GoesOn, JobOf, Now
  <2>4. ~AboutRow(m)'
    BY <2>1 DEF AboutRow, GoesOn
  <2>5. QED
    BY <1>1, <2>1, <2>2, <2>3, <2>4, TurnGoesOn
<1>3. CASE Now(m, "makelib")
  <2>1. Alone(m) /\ FieldsOf(m) /\ manager'[m].at = "keep"
    BY <1>3 DEF Now, StoreInv, Shape, ManagerShape, Alone, FieldsOf, Turns, Fields
  <2>2. QED
    BY <1>1, <2>1, FieldsStay, ModelsStay, TurnFree DEF Free
<1>4. CASE ~Now(m, "make") /\ ~Now(m, "makelib")
  <2>1. GoesOr(m, AfterCall(m))
    BY <1>4
  <2>2. CASE AfterCall(m) \in Free
    <3>1. Alone(m) /\ FieldsOf(m) /\ manager'[m].at = AfterCall(m)
      BY <2>1, GoFields
    <3>2. QED
      BY <1>1, <2>2, <3>1, FieldsStay, ModelsStay, TurnFree
  <2>3. CASE AfterCall(m) \notin Free
    <3>1. /\ AfterCall(m) \in {"make", "files", "remove"} /\ manager[m].at \in {"agent", "files"}
          /\ AfterCall(m) = "make" => JobOf(m).kind = "update" /\ Now(m, "agent")
          /\ AfterCall(m) \in {"files", "remove"} => JobOf(m).kind = "delete"
      BY <1>1, <2>3 DEF AfterCall, AfterAgent, Free, Told, Course, Now, CanCall, Calls
    <3>2. GoesOn(m, AfterCall(m))
      BY <2>1, <3>1, GoFields DEF GoesOn, StoreInv, Shape, ManagerShape
    <3>3. Course(m)'
      BY <1>1, <3>1, <3>2 DEF GoesOn, Course, Told, JobOf, Now
    <3>4. AboutModel(m)
      BY <3>1 DEF AboutModel
    <3>5. ~AboutRow(m)'
      BY <3>1, <3>2 DEF AboutRow, GoesOn
    <3>6. QED
      BY <1>1, <3>1, <3>2, <3>3, <3>4, <3>5, TurnGoesOn
  <2>4. QED
    BY <2>2, <2>3
<1>5. QED
  BY <1>2, <1>3, <1>4

LEMMA TurnMakesNoAgent ==
  ASSUME StoreInv, Turns, NEW m \in Managers, MakesNoAgent(m) PROVE Turns'
<1>1. Busy(m) /\ Told(m) /\ LastKept
  BY LastStays DEF MakesNoAgent, Busy, Now, Turns
<1>2. GoesOn(m, "save")
  BY DEF MakesNoAgent, StoreInv, Shape, ManagerShape, Alone, FieldsOf, Turns, Fields, GoesOn
<1>3. Course(m)' /\ (AboutModel(m)' => AboutModel(m)) /\ ~AboutRow(m)'
  BY <1>1, <1>2 DEF MakesNoAgent, GoesOn, Course, Told, JobOf, Now, AboutModel, AboutRow
<1>4. QED
  BY <1>1, <1>2, <1>3, TurnGoesOn DEF MakesNoAgent

\* The actions that leave the models and their manager with nothing in hand.
LEMMA TurnPlain ==
  ASSUME StoreInv, Turns, NEW m \in Managers,
         \/ UploadRefused(m) \/ DisableAllUserChannel(m) \/ ReadsNext(m) \/ SetActiveModelByProvider(m)
         \/ SyncProviderModels(m) \/ FindsLibrary(m) \/ UpdateUserGPT(m)
         \/ GeneratesEmbedding(m) \/ SaveEmbedding(m) \/ DeleteEmbedding(m)
  PROVE  Turns'
<1>1. Busy(m)
  BY DEF UploadRefused, DisableAllUserChannel, ReadsNext, SetActiveModelByProvider, SyncProviderModels,
         FindsLibrary, UpdateUserGPT, GeneratesEmbedding, SaveEmbedding, DeleteEmbedding, Busy, Now
<1>2. LastKept
  BY LastStays DEF UploadRefused, DisableAllUserChannel, ReadsNext, SetActiveModelByProvider, SyncProviderModels,
         FindsLibrary, UpdateUserGPT, GeneratesEmbedding, SaveEmbedding, DeleteEmbedding
<1>3. SameModels
  <2>1. CASE UNCHANGED rows
    BY <2>1, ModelsStay
  <2>2. CASE SyncProviderModels(m) \/ UpdateUserGPT(m)
    BY <2>2 DEF SyncProviderModels, UpdateUserGPT, SameModels, Turns, Fields
  <2>3. ASSUME NEW i, rows' = Switched(i) PROVE SameModels
    BY <2>3 DEF Switched, SameModels, Turns, Fields
  <2>4. QED
    BY <2>1, <2>2, <2>3 DEF UploadRefused, DisableAllUserChannel, ReadsNext, SetActiveModelByProvider,
       FindsLibrary, GeneratesEmbedding, SaveEmbedding, DeleteEmbedding
<1>4. Alone(m) /\ FieldsOf(m) /\ manager'[m].at \in Free
  <2>1. CASE UploadRefused(m) \/ SetActiveModelByProvider(m) \/ SyncProviderModels(m) \/ SaveEmbedding(m) \/ DeleteEmbedding(m)
    BY <2>1, IdleFields DEF UploadRefused, SetActiveModelByProvider, SyncProviderModels, SaveEmbedding, DeleteEmbedding, Free
  <2>2. CASE DisableAllUserChannel(m)
    BY <2>2, GoFields DEF DisableAllUserChannel, AfterRemoval, Free
  <2>3. CASE ReadsNext(m)
    BY <2>3, IdleFields DEF ReadsNext, Free, StoreInv, Shape, ManagerShape, Alone, FieldsOf, Turns, Fields
  <2>4. CASE FindsLibrary(m)
    <3>1. CASE RecordOf("mistral").ids.library # None
      BY <2>4, <3>1 DEF FindsLibrary, Free, StoreInv, Shape, ManagerShape, Alone, FieldsOf, Turns, Fields
    <3>2. CASE RecordOf("mistral").ids.library = None
      BY <2>4, <3>2, GoFields DEF FindsLibrary, Free
    <3>3. QED
      BY <3>1, <3>2
  <2>5. CASE UpdateUserGPT(m)
    BY <2>5, GoFields DEF UpdateUserGPT, AfterWrite, Free
  <2>6. CASE GeneratesEmbedding(m)
    BY <2>6 DEF GeneratesEmbedding, Free, StoreInv, Shape, ManagerShape, Alone, FieldsOf, Turns, Fields
  <2>7. QED
    BY <2>1, <2>2, <2>3, <2>4, <2>5, <2>6
<1>5. QED
  BY <1>1, <1>2, <1>3, <1>4, FieldsStay, TurnFree

LEMMA TurnReadsRow ==
  ASSUME StoreInv, Turns, NEW m \in Managers, ReadsRow(m) PROVE Turns'
<1> DEFINE saw == RecordOf("mistral")
<1>1. Busy(m)
  BY DEF ReadsRow, Busy, Now
<1>2. CASE AfterRow(m, saw) = "idle"
  BY <1>1, <1>2, IdleFields, FieldsStay, ModelsStay, LastStays, TurnFree DEF ReadsRow, Free
<1>3. CASE AfterRow(m, saw) # "idle"
  <2>1. /\ Alone(m) /\ FieldsOf(m) /\ manager'[m].at = AfterRow(m, saw) /\ manager'[m].saw = saw
    BY <1>3 DEF ReadsRow, StoreInv, Shape, ManagerShape, Alone, FieldsOf, Turns, Fields
  <2>2. Fields' /\ Single'
    BY <2>1, FieldsStay, ModelsStay, LastStays DEF ReadsRow
  <2>3. /\ AfterRow(m, saw) \in {"undo", "keeping", "list", "emptied", "unlist", "clear"}
        /\ AfterRow(m, saw) \in {"keeping", "list", "unlist", "clear"} => saw # NoRow
    BY <1>3 DEF AfterRow
  <2>4. AboutRow(m)' => Current(m, "mistral")'
    BY <2>1, <2>3, RecordIsModel DEF ReadsRow, AboutRow, Current
  <2>5. Told(m)'
    BY <2>1, <2>3, <2>4 DEF Told, Course, AboutModel, InTransaction
  <2>6. QED
    BY <1>1, <2>1, <2>2, <2>5, TurnFrame
<1>4. QED
  BY <1>2, <1>3

LEMMA TurnTransactionBegins ==
  ASSUME StoreInv, Turns, NEW m \in Managers, SaveBegins(m) \/ RemoveBegins(m) PROVE Turns'
<1>1. Busy(m) /\ Told(m) /\ UNCHANGED <<rows, last>>
  BY DEF SaveBegins, RemoveBegins, Busy, Now, Turns
<1>2. CASE Ends(m)
  BY <1>1, <1>2, IdleFields, FieldsStay, ModelsStay, LastStays, TurnFree DEF Free
<1>3. ASSUME NEW at \in {"commit", "unlink"}, manager' = [manager EXCEPT ![m].at = at, ![m].snap = rows],
             at = "commit" => Now(m, "save"), at = "unlink" => Now(m, "remove")
      PROVE  Turns'
  <2>1. GoesOn(m, at) /\ manager'[m].snap = rows
    BY <1>3 DEF StoreInv, Shape, ManagerShape, Alone, FieldsOf, Turns, Fields, GoesOn
  <2>2. Fields' /\ Single'
    BY <1>1, <2>1, FieldsStay, ModelsStay, LastStays DEF GoesOn
  <2>3. Course(m)'
    BY <1>1, <1>3, <2>1 DEF GoesOn, Course, Told, JobOf, Now
  <2>4. (AboutModel(m)' => AboutModel(m)) /\ ~AboutRow(m)'
    BY <1>3, <2>1 DEF AboutModel, AboutRow, GoesOn, JobOf, Now
  <2>5. Told(m)'
    BY <1>1, <2>1, <2>3, <2>4 DEF Told, Current, JobOf, GoesOn
  <2>6. QED
    BY <1>1, <2>1, <2>2, <2>5, TurnFrame DEF GoesOn
<1>4. QED
  BY <1>2, <1>3 DEF SaveBegins, RemoveBegins

LEMMA TurnSaveCommits ==
  ASSUME StoreInv, Turns, NEW m \in Managers, SaveCommits(m) PROVE Turns'
<1>1. /\ Busy(m) /\ Alone(m) /\ FieldsOf(m) /\ manager'[m].at = "idle"
      /\ manager[m].snap = rows
  BY IdleFields DEF SaveCommits, Busy, Now, Turns, Told, InTransaction
<1>2. CASE Updates(m)
  <2>1. SameModels
    BY <1>2 DEF Updates, SameModels, Turns, Fields
  <2>2. QED
    BY <1>1, <1>2, <2>1, FieldsStay, LastStays, TurnFree DEF Updates, Free
<1>3. CASE Inserts(m)
  <2> DEFINE new == last.row + 1
  <2>1. /\ DOMAIN rows' = DOMAIN rows \cup {new} /\ new \notin DOMAIN rows
        /\ rows'[new].provider = JobOf(m).p /\ {"provider", "agent", "ids"} \subseteq DOMAIN rows'[new]
        /\ \A k \in DOMAIN rows : rows'[k] = rows[k] /\ rows[k].provider # JobOf(m).p
    BY <1>1, <1>3 DEF Inserts, With, Of, StoreInv, Shape, RowShape
  <2>2. LastKept
    BY <1>3 DEF Inserts, LastKept, Turns, Fields
  <2>3. Fields'
    BY <1>1, <2>1, <2>2 DEF Fields, Turns, Alone, FieldsOf, LastKept
  <2>4. Single'
    BY <2>1 DEF Single, Turns
  <2>5. QED
    BY <1>1, <2>3, <2>4, TurnFree DEF Free
<1>4. QED
  BY <1>2, <1>3 DEF SaveCommits

LEMMA RemovalRows ==
  ASSUME NEW m \in Managers, RemoveCommits(m)
  PROVE  /\ DOMAIN rows' = DOMAIN rows \ {manager[m].saw.id}
         /\ \A k \in DOMAIN rows' : rows'[k] = rows[k] \/ rows'[k] = [rows[k] EXCEPT !.active = TRUE]
<1> DEFINE remaining == Without(rows, manager[m].saw.id)
<1>1. /\ DOMAIN remaining = DOMAIN rows \ {manager[m].saw.id}
      /\ \A k \in DOMAIN remaining : remaining[k] = rows[k]
  BY DEF Without, Restrict
<1>2. \/ rows' = remaining
      \/ \E next : rows' = [k \in DOMAIN remaining |->
                              IF k = next THEN [remaining[k] EXCEPT !.active = TRUE] ELSE remaining[k]]
  BY DEF RemoveCommits
<1>3. QED
  BY <1>1, <1>2

LEMMA TurnRemoveCommits ==
  ASSUME StoreInv, Turns, NEW m \in Managers, RemoveCommits(m) PROVE Turns'
<1>1. Busy(m) /\ Alone(m) /\ FieldsOf(m) /\ manager'[m].at \in Free
  <2>1. AfterUnlink(m) \in Free
    BY DEF AfterUnlink, AfterRemoval, Free
  <2>2. QED
    BY <2>1, GoFields DEF RemoveCommits, Busy, Now
<1>2. /\ DOMAIN rows' \subseteq DOMAIN rows
      /\ \A k \in DOMAIN rows' : /\ {"provider", "agent", "ids"} \subseteq DOMAIN rows'[k]
                                 /\ rows'[k].provider = rows[k].provider
  BY RemovalRows DEF Turns, Fields
<1>3. Fields' /\ Single'
  BY <1>1, <1>2, LastStays DEF RemoveCommits, Fields, Single, Turns, Alone, FieldsOf, LastKept
<1>4. QED
  BY <1>1, <1>3, TurnFree

LEMMA TurnFiles ==
  ASSUME StoreInv, Turns, NEW m \in Managers, DeleteAllModelEmbeddings(m) \/ EmbedsFile(m) PROVE Turns'
<1>1. /\ Busy(m) /\ Told(m) /\ AboutModel(m) /\ LastKept /\ UNCHANGED rows
  BY LastStays DEF DeleteAllModelEmbeddings, EmbedsFile, Busy, Now, Turns, AboutModel
<1>2. PICK at \in {"remove", "save", "fetch"} :
        /\ GoesOn(m, at)
        /\ at = "remove" => JobOf(m).kind = "delete"
        /\ at # "remove" => JobOf(m).kind = "update" /\ JobOf(m).p = "google"
  <2>1. CASE DeleteAllModelEmbeddings(m)
    <3>1. PICK at \in {"remove", "save", "fetch"} : Goes(m, at) /\ (at = "remove" <=> JobOf(m).kind = "delete")
      BY <2>1 DEF DeleteAllModelEmbeddings, AfterClean
    <3>2. GoesOn(m, at)
      BY <3>1 DEF Goes, StoreInv, Shape, ManagerShape, Alone, FieldsOf, Turns, Fields, GoesOn
    <3>3. JobOf(m).kind = "delete" \/ (JobOf(m).kind = "update" /\ JobOf(m).p = "google")
      BY <1>1, <2>1 DEF DeleteAllModelEmbeddings, Told, Course, Now
    <3>4. QED
      BY <3>1, <3>2, <3>3
  <2>2. CASE EmbedsFile(m)
    <3>1. PICK text : AfterFile(m, text)
      BY <2>2 DEF EmbedsFile
    <3>2. PICK at \in {"save", "fetch"} : at = IF manager[m].left = {text} THEN "save" ELSE "fetch"
      OBVIOUS
    <3>3. GoesOn(m, at)
      BY <3>1, <3>2 DEF AfterFile, StoreInv, Shape, ManagerShape, Alone, FieldsOf, Turns, Fields, GoesOn
    <3>4. JobOf(m).kind = "update" /\ JobOf(m).p = "google"
      BY <1>1, <2>2 DEF EmbedsFile, Told, Course, Now
    <3>5. QED
      BY <3>3, <3>4
  <2>3. QED
    BY <2>1, <2>2
<1>3. Course(m)' /\ ~AboutRow(m)'
  BY <1>2 DEF Course, AboutRow, GoesOn, JobOf
<1>4. QED
  BY <1>1, <1>2, <1>3, TurnGoesOn

LEMMA TurnDoes ==
  ASSUME StoreInv, Turns, NEW m \in Managers, Does(m) PROVE Turns'
BY TurnReadsModel, TurnReadsRecord, TurnCallsMistral, TurnMakesNoAgent, TurnPlain, TurnReadsRow,
   TurnTransactionBegins, TurnSaveCommits, TurnRemoveCommits, TurnFiles DEF Does

\* In turn a call begins when no other is under way, and no step fails.
LEMMA TurnKinds ==
  ASSUME InTurn', NEW m \in Managers,
             (\E job \in scene.jobs : Begins(m, job)) \/ Does(m) \/ Fails(m) \/ RemoveUnpicked(m)
  PROVE  InTurn /\ ~Fails(m) /\ ~RemoveUnpicked(m) /\ ((\E job \in scene.jobs : Begins(m, job)) => Rest)
<1>1. past \subseteq past'
  BY DEF Marks, Begins, Does, Fails, RemoveUnpicked, ReadsModel, ReadsRecord, CallsMistral, MakesNoAgent,
     UploadRefused, SaveBegins, RemoveBegins, SaveCommits, Inserts, Updates, RemoveCommits, DisableAllUserChannel, ReadsNext,
     SetActiveModelByProvider, SyncProviderModels, FindsLibrary, ReadsRow, UpdateUserGPT, GeneratesEmbedding,
     SaveEmbedding, DeleteEmbedding, DeleteAllModelEmbeddings, EmbedsFile
<1>2. ~Fails(m) /\ ~RemoveUnpicked(m)
  BY DEF InTurn, Never, Fails, RemoveUnpicked, Marks
<1>3. (\E job \in scene.jobs : Begins(m, job)) => Rest
  BY DEF InTurn, Never, Begins, Marks, Rest
<1>4. QED
  BY <1>1, <1>2, <1>3 DEF InTurn, Never

LEMMA TurnStep == StoreInv /\ TurnInv /\ [StoreNext]_storevars => TurnInv'
<1> SUFFICES ASSUME StoreInv, TurnInv, [StoreNext]_storevars, InTurn' PROVE Turns'
  BY DEF TurnInv
<1>1. ASSUME NEW m \in Managers,
             (\E job \in scene.jobs : Begins(m, job)) \/ Does(m) \/ Fails(m) \/ RemoveUnpicked(m)
      PROVE  Turns'
  BY <1>1, TurnKinds, TurnBegins, TurnDoes DEF TurnInv
<1>2. CASE SecondPasses \/ UNCHANGED storevars
  <2>1. UNCHANGED <<rows, last, manager, past>>
    BY <1>2 DEF SecondPasses, storevars
  <2>2. QED
    BY <2>1 DEF TurnInv, InTurn, Never, Turns, Fields, OneBusy, Single, Told, Course, Current, AboutModel,
       AboutRow, InTransaction, JobOf, Busy, Now
<1>3. QED
  BY <1>1, <1>2 DEF StoreNext

LEMMA TurnInit == StoreInit => TurnInv
BY DEF StoreInit, TurnInv, Turns, Fields, OneBusy, Single, Told, Course, AboutModel, AboutRow, InTransaction,
   Busy, Now, Idle, AnyJob

--------------------------------------------------------------------------------
(***************************************************************************)
(* The agents at Mistral. A manager in the middle of a call has yet to     *)
(* write the agent it made, or to remove the row of the one it deleted.    *)
(***************************************************************************)
AgentsInTurn == InTurn /\ Never({"synced", "replaced"})
Named == {rows[i].agent : i \in Of("mistral", rows)}
Saves(m) == manager[m].at \in {"save", "commit"}
Due(m) ==
  IF JobOf(m).p # "mistral" THEN Named
  ELSE IF manager[m].at \in {"files", "remove", "unlink"} \/ (Now(m, "make") /\ JobOf(m).kind = "update") THEN {}
  ELSE IF Saves(m) /\ JobOf(m).kind = "update" THEN {manager[m].umcr.agent}
  ELSE IF Saves(m) /\ JobOf(m).kind = "create" THEN Named \cup {manager[m].umcr.agent}
  ELSE Named
Made(m) == Saves(m) /\ JobOf(m).p = "mistral" =>
  IF JobOf(m).kind = "store" THEN manager[m].umcr.agent = manager[m].saw.agent
  ELSE manager[m].umcr.agent # None

AgentsDue ==
  /\ Rest => DOMAIN agents = Named
  /\ \A m \in Managers : Busy(m) => DOMAIN agents = Due(m) /\ Made(m)
AgentInv == AgentsInTurn => AgentsDue

LEMMA DueFrame ==
  ASSUME Turns, NEW m \in Managers, Busy(m) \/ Rest, Alone(m), DOMAIN agents' = Due(m)', Made(m)'
  PROVE  AgentsDue'
<1>1. \A n \in Managers \ {m} : ~Busy(n)'
  BY DEF Turns, OneBusy, Alone, Busy, Now, Rest
<1>2. ASSUME Rest' PROVE Due(m)' = Named'
  BY <1>2 DEF Rest, Busy, Due, Now, Saves
<1>3. QED
  BY <1>1, <1>2 DEF AgentsDue

\* Between such steps the agents are those of the rows.
Heavy == {"make", "files", "remove", "unlink", "save", "commit"}
LEMMA LightDue ==
  ASSUME NEW m \in Managers, manager[m].at \notin Heavy
  PROVE  Due(m) = Named /\ Made(m)
BY DEF Heavy, Due, Made, Saves, Now

LEMMA DueBefore ==
  ASSUME AgentsDue, NEW m \in Managers, Busy(m) \/ Rest
  PROVE  DOMAIN agents = Due(m) /\ Made(m)
BY LightDue DEF AgentsDue, Rest, Busy, Now, Heavy

LEMMA NamedStays ==
  ASSUME DOMAIN rows' = DOMAIN rows,
         \A k \in DOMAIN rows : rows'[k].provider = rows[k].provider /\ rows'[k].agent = rows[k].agent
  PROVE  Named' = Named
BY DEF Named, Of

LEMMA DueLight ==
  ASSUME Turns, AgentsDue, NEW m \in Managers, Busy(m) \/ Rest, Alone(m), DOMAIN agents' = DOMAIN agents,
         Named' = Named, manager[m].at \notin Heavy, manager'[m].at \notin Heavy
  PROVE  AgentsDue'
<1>1. DOMAIN agents = Named
  BY DueBefore, LightDue
<1>2. Due(m)' = Named' /\ Made(m)'
  BY DEF Heavy, Due, Made, Saves, Now
<1>3. QED
  BY <1>1, <1>2, DueFrame

LEMMA NamedOne ==
  ASSUME Turns, NEW m \in Managers, Current(m, "mistral")
  PROVE  Of("mistral", rows) = {manager[m].saw.id} /\ Named = {manager[m].saw.agent}
<1>1. Of("mistral", rows) = {manager[m].saw.id}
  BY DEF Turns, Single, Current, Of
<1>2. QED
  BY <1>1 DEF Named, Current

LEMMA DueBegins ==
  ASSUME StoreInv, Turns, AgentsDue, Rest, NEW m \in Managers, NEW job \in scene.jobs, Begins(m, job)
  PROVE  AgentsDue'
<1>1. PICK sent : manager' = [manager EXCEPT ![m] = [Idle EXCEPT !.at = FirstStep[job.kind], !.job = job, !.sent = sent]]
  BY DEF Begins
<1>2. job.kind \in Kind
  BY SceneAssumption DEF StoreInv, Shape, Scene, Job
<1>3. /\ Alone(m) /\ manager'[m].at = FirstStep[job.kind] /\ manager'[m].job = job
  BY <1>1 DEF StoreInv, Shape, ManagerShape, Alone, Idle
<1>4. FirstStep[job.kind] \notin Heavy \/ (FirstStep[job.kind] = "make" /\ job.kind = "create")
  BY <1>2 DEF FirstStep, Kind, Heavy
<1>5. Due(m)' = Named' /\ Made(m)'
  BY <1>3, <1>4 DEF Due, Made, Saves, JobOf, Now, Heavy
<1>6. Named' = Named /\ DOMAIN agents' = Named
  BY NamedStays DEF Begins, remote, AgentsDue
<1>7. QED
  BY <1>3, <1>5, <1>6, DueFrame

LEMMA DueReadsRecord ==
  ASSUME StoreInv, Turns, AgentsDue, NEW m \in Managers, ReadsRecord(m) PROVE AgentsDue'
<1> DEFINE saw == RecordOf(JobOf(m).p)
<1>1. /\ Busy(m) /\ manager[m].at \notin Heavy /\ UNCHANGED <<rows, agents>> /\ Told(m) /\ Now(m, "record")
  BY DEF ReadsRecord, Busy, Now, Turns, Heavy, remote
<1>2. Named' = Named /\ DOMAIN agents' = Named
  BY <1>1, NamedStays, DueBefore, LightDue
<1>3. CASE Ends(m)
  BY <1>1, <1>2, <1>3, IdleFields, DueLight DEF Heavy
<1>4. CASE ~Ends(m)
  <2>1. manager' = [manager EXCEPT ![m].at = AfterRecord(m), ![m].saw = saw, ![m].sent = Updated(m),
                      ![m].left = IF FilesChanged(m) THEN manager[m].sent.files ELSE {},
                      ![m].umcr = [agent |-> saw.agent, ids |-> KeptIds(m, saw)]]
    BY <1>4 DEF ReadsRecord
  <2>2. /\ Alone(m) /\ manager'[m].at = AfterRecord(m) /\ manager'[m].saw = saw
        /\ manager'[m].job = manager[m].job /\ manager'[m].umcr.agent = saw.agent
    BY <2>1 DEF StoreInv, Shape, ManagerShape, Alone, Turns, Fields
  <2>3. /\ AfterRecord(m) \in Heavy => AfterRecord(m) \in {"save", "remove"}
        /\ AfterRecord(m) = "save" => JobOf(m).p # "mistral" \/ JobOf(m).kind = "store"
        /\ AfterRecord(m) = "remove" => JobOf(m).p # "mistral"
    <3>1. JobOf(m).kind \in {"update", "store", "delete", "embed", "forget"}
      BY <1>1 DEF Told, Course, Now
    <3>2. CASE JobOf(m).p = "mistral" /\ JobOf(m).kind \in {"update", "delete"}
      <4>1. AfterRecord(m) = "agent"
        BY <3>2 DEF AfterRecord
      <4>2. QED
        BY <4>1 DEF Heavy
    <3>3. CASE ~(JobOf(m).p = "mistral" /\ JobOf(m).kind \in {"update", "delete"})
      <4>1. AfterRecord(m) \in {"embed", "forget", "clean", "remove", "fetch", "save"}
        BY <3>1, <3>3 DEF AfterRecord, GoogleStep
      <4>2. AfterRecord(m) \in {"remove", "save"} => JobOf(m).kind \in {"update", "delete", "store"}
        BY <3>1, <3>3 DEF AfterRecord, GoogleStep
      <4>3. JobOf(m).kind = "store" => AfterRecord(m) = "save"
        BY <3>1, <3>3 DEF AfterRecord
      <4>4. QED
        BY <3>3, <4>1, <4>2, <4>3 DEF Heavy
    <3>4. QED
      BY <3>2, <3>3
  <2>4. Due(m)' = Named' /\ Made(m)'
    BY <2>2, <2>3 DEF Due, Made, Saves, JobOf, Now, Heavy
  <2>5. QED
    BY <1>1, <1>2, <2>2, <2>4, DueFrame
<1>5. QED
  BY <1>3, <1>4

LEMMA DueCallsMistral ==
  ASSUME StoreInv, Turns, AgentsDue, NEW m \in Managers, CallsMistral(m) PROVE AgentsDue'
<1> USE DEF CallsMistral
<1>1. Busy(m) /\ Told(m) /\ UNCHANGED rows /\ Named' = Named /\ DOMAIN agents = Due(m)
  <2>1. Busy(m)
    BY DEF CanCall, Calls, Busy, Now
  <2>2. QED
    BY <2>1, NamedStays, DueBefore DEF Turns
<1>2. CASE Now(m, "make")
  <2>1. /\ JobOf(m).p = "mistral" /\ JobOf(m).kind \in {"create", "update"}
        /\ DOMAIN agents' = DOMAIN agents \cup {last.agent + 1} /\ last.agent + 1 # None
    BY <1>1, <1>2 DEF CanCall, Told, Course, Carries, MakesAgent, With, Now, Turns, Fields, None
  <2>2. /\ Alone(m) /\ manager'[m].at = "save" /\ manager'[m].job = manager[m].job
        /\ manager'[m].umcr.agent = last.agent + 1
    BY <1>2 DEF StoreInv, Shape, ManagerShape, Alone, Turns, Fields
  <2>3. DOMAIN agents = IF JobOf(m).kind = "update" THEN {} ELSE Named
    BY <1>1, <1>2, <2>1 DEF Due, Now, Saves
  <2>4. DOMAIN agents' = Due(m)' /\ Made(m)'
    BY <1>1, <2>1, <2>2, <2>3 DEF Due, Made, Saves, JobOf, Now
  <2>5. QED
    BY <1>1, <2>2, <2>4, DueFrame
<1>3. CASE Now(m, "agent")
  <2>1. /\ JobOf(m).p = "mistral" /\ JobOf(m).kind \in {"update", "delete"} /\ Current(m, "mistral")
    BY <1>1, <1>3 DEF Told, Course, AboutModel, Now
  <2>2. DOMAIN agents = Named
    BY <1>1, <1>3 DEF Due, Now, Saves
  <2>3. DOMAIN agents' = {}
    BY <1>3, <2>1, <2>2, NamedOne DEF Carries, Without, Restrict, Now
  <2>4. GoesOr(m, AfterCall(m)) /\ AfterCall(m) = AfterAgent(m)
    BY <1>3 DEF AfterCall, Now
  <2>5. /\ AfterCall(m) \in {"make", "files", "remove"}
        /\ AfterCall(m) = "make" => JobOf(m).kind = "update"
    BY <2>4 DEF AfterAgent
  <2>6. Alone(m) /\ manager'[m].at = AfterCall(m) /\ manager'[m].job = manager[m].job
    BY <2>4, <2>5, GoFields DEF StoreInv, Shape, ManagerShape
  <2>7. Due(m)' = {} /\ Made(m)'
    BY <2>1, <2>5, <2>6 DEF Due, Made, Saves, JobOf, Now
  <2>8. QED
    BY <1>1, <2>3, <2>6, <2>7, DueFrame
<1>4. CASE Now(m, "files")
  <2>1. GoesOr(m, "remove") /\ DOMAIN agents' = DOMAIN agents
    BY <1>4 DEF AfterCall, Carries, Now
  <2>2. Alone(m) /\ manager'[m].at = "remove" /\ manager'[m].job = manager[m].job
    BY <2>1, GoFields DEF StoreInv, Shape, ManagerShape
  <2>3. Due(m)' = Due(m) /\ Made(m)'
    BY <1>1, <1>4, <2>2 DEF Due, Made, Saves, JobOf, Now
  <2>4. QED
    BY <1>1, <2>1, <2>2, <2>3, DueFrame
<1>5. CASE manager[m].at \in {"makelib", "upload", "drop", "emptied", "undo"}
  <2>1. DOMAIN agents' = DOMAIN agents
    BY <1>5 DEF Carries
  <2>2. Alone(m) /\ manager'[m].at \notin Heavy
    <3>1. CASE Now(m, "makelib")
      BY <3>1 DEF Now, StoreInv, Shape, ManagerShape, Alone, Heavy
    <3>2. CASE ~Now(m, "makelib")
      <4>1. GoesOr(m, AfterCall(m)) /\ AfterCall(m) \in {"listing", "unlisting", "clearing", "idle"}
        BY <1>5, <3>2 DEF AfterCall, Now
      <4>2. QED
        BY <4>1, GoFields DEF Heavy
    <3>3. QED
      BY <3>1, <3>2
  <2>3. QED
    BY <1>1, <1>5, <2>1, <2>2, DueLight DEF Heavy
<1>6. QED
  BY <1>2, <1>3, <1>4, <1>5 DEF CanCall, Calls, Now

LEMMA DueMakesNoAgent ==
  ASSUME StoreInv, Turns, AgentsDue, NEW m \in Managers, MakesNoAgent(m) PROVE AgentsDue'
<1>1. /\ Busy(m) /\ JobOf(m).p # "mistral" /\ Alone(m) /\ manager'[m].job = manager[m].job
      /\ UNCHANGED <<rows, agents>>
  BY DEF MakesNoAgent, Busy, Now, StoreInv, Shape, ManagerShape, Alone, remote
<1>2. Named' = Named /\ DOMAIN agents = Named
  BY <1>1, NamedStays, DueBefore DEF Due
<1>3. Due(m)' = Named' /\ Made(m)'
  BY <1>1 DEF Due, Made, JobOf
<1>4. QED
  BY <1>1, <1>2, <1>3, DueFrame

LEMMA DuePlain ==
  ASSUME StoreInv, Turns, AgentsDue, NEW m \in Managers, (Never({"synced"}))',
         \/ ReadsModel(m) \/ ReadsRow(m)
         \/ UploadRefused(m) \/ DisableAllUserChannel(m) \/ ReadsNext(m) \/ SetActiveModelByProvider(m)
         \/ SyncProviderModels(m) \/ FindsLibrary(m) \/ UpdateUserGPT(m)
         \/ GeneratesEmbedding(m) \/ SaveEmbedding(m) \/ DeleteEmbedding(m)
  PROVE  AgentsDue'
<1>1. Busy(m) /\ manager[m].at \notin Heavy
  BY DEF ReadsModel, ReadsRow, UploadRefused, DisableAllUserChannel, ReadsNext, SetActiveModelByProvider,
         SyncProviderModels, FindsLibrary, UpdateUserGPT, GeneratesEmbedding, SaveEmbedding, DeleteEmbedding,
         Busy, Now, Heavy
<1>2. ~SyncProviderModels(m)
  BY DEF SyncProviderModels, Never, Marks
<1>3. agents' = agents
  BY <1>2 DEF ReadsModel, ReadsRow, UploadRefused, DisableAllUserChannel, ReadsNext, SetActiveModelByProvider,
         FindsLibrary, UpdateUserGPT, GeneratesEmbedding, SaveEmbedding, DeleteEmbedding, remote
<1>4. Named' = Named
  <2>1. CASE UNCHANGED rows
    BY <2>1, NamedStays
  <2>2. CASE UpdateUserGPT(m)
    BY <2>2, NamedStays DEF UpdateUserGPT, Turns, Fields
  <2>3. ASSUME NEW i, rows' = Switched(i) PROVE Named' = Named
    BY <2>3, NamedStays DEF Switched, Turns, Fields
  <2>4. QED
    BY <1>2, <2>1, <2>2, <2>3 DEF ReadsModel, ReadsRow, UploadRefused, DisableAllUserChannel, ReadsNext,
       SetActiveModelByProvider, FindsLibrary, GeneratesEmbedding, SaveEmbedding, DeleteEmbedding
<1>5. Alone(m) /\ manager'[m].at \notin Heavy
  <2>1. CASE UploadRefused(m) \/ SetActiveModelByProvider(m) \/ SaveEmbedding(m) \/ DeleteEmbedding(m)
    BY <2>1, IdleFields DEF UploadRefused, SetActiveModelByProvider, SaveEmbedding, DeleteEmbedding, Heavy
  <2>2. CASE DisableAllUserChannel(m)
    BY <2>2, GoFields DEF DisableAllUserChannel, AfterRemoval, Heavy
  <2>3. CASE ReadsNext(m)
    BY <2>3, IdleFields DEF ReadsNext, Heavy, StoreInv, Shape, ManagerShape, Alone
  <2>4. CASE FindsLibrary(m)
    <3>1. CASE RecordOf("mistral").ids.library # None
      BY <2>4, <3>1 DEF FindsLibrary, Heavy, StoreInv, Shape, ManagerShape, Alone
    <3>2. CASE RecordOf("mistral").ids.library = None
      BY <2>4, <3>2, GoFields DEF FindsLibrary, Heavy
    <3>3. QED
      BY <3>1, <3>2
  <2>5. CASE UpdateUserGPT(m)
    BY <2>5, GoFields DEF UpdateUserGPT, AfterWrite, Heavy
  <2>6. CASE GeneratesEmbedding(m)
    BY <2>6 DEF GeneratesEmbedding, Heavy, StoreInv, Shape, ManagerShape, Alone
  <2>7. CASE ReadsModel(m)
    BY <2>7, IdleFields DEF ReadsModel, Heavy, StoreInv, Shape, ManagerShape, Alone
  <2>8. CASE ReadsRow(m)
    <3> DEFINE saw == RecordOf("mistral")
    <3>1. AfterRow(m, saw) \notin Heavy
      BY DEF AfterRow, Heavy
    <3>2. QED
      BY <2>8, <3>1, IdleFields DEF ReadsRow, Heavy, StoreInv, Shape, ManagerShape, Alone
  <2>9. QED
    BY <1>2, <2>1, <2>2, <2>3, <2>4, <2>5, <2>6, <2>7, <2>8
<1>6. QED
  BY <1>1, <1>3, <1>4, <1>5, DueLight

LEMMA DueTransactionBegins ==
  ASSUME StoreInv, Turns, AgentsDue, NEW m \in Managers, SaveBegins(m) \/ RemoveBegins(m) PROVE AgentsDue'
<1>1. Busy(m) /\ Told(m) /\ UNCHANGED <<rows, agents>>
  BY DEF SaveBegins, RemoveBegins, Busy, Now, Turns, remote
<1>2. Named' = Named /\ DOMAIN agents = Due(m) /\ Made(m)
  BY <1>1, NamedStays, DueBefore
<1>3. CASE Ends(m)
  <2>1. SaveBegins(m) /\ manager[m].umcr.agent = None
    <3>1. RemoveBegins(m) => manager[m].saw.id \in DOMAIN rows
      BY <1>1 DEF RemoveBegins, Told, AboutModel, Current, Now
    <3>2. ASSUME NEW at \in {"commit", "unlink"}, manager' = [manager EXCEPT ![m].at = at, ![m].snap = rows]
          PROVE  FALSE
      <4>1. manager'[m].at = at
        BY <3>2 DEF StoreInv, Shape, ManagerShape
      <4>2. manager'[m].at = "idle"
        BY <1>3, IdleFields
      <4>3. QED
        BY <4>1, <4>2
    <3>3. QED
      BY <3>1, <3>2 DEF SaveBegins, RemoveBegins
  <2>2. Due(m) = Named
    BY <1>1, <1>2, <2>1 DEF Due, Made, SaveBegins, Saves, Now, Told, Course
  <2>3. Alone(m) /\ manager'[m].at = "idle"
    BY <1>3, IdleFields
  <2>4. Due(m)' = Named' /\ Made(m)'
    BY <2>3 DEF Due, Made, Saves, Now
  <2>5. QED
    BY <1>1, <1>2, <2>2, <2>3, <2>4, DueFrame
<1>4. ASSUME NEW at \in {"commit", "unlink"}, manager' = [manager EXCEPT ![m].at = at, ![m].snap = rows],
             at = "commit" => Now(m, "save"), at = "unlink" => Now(m, "remove")
      PROVE  AgentsDue'
  <2>1. /\ Alone(m) /\ manager'[m].at = at /\ manager'[m].job = manager[m].job
        /\ manager'[m].saw = manager[m].saw /\ manager'[m].umcr = manager[m].umcr
    BY <1>4 DEF StoreInv, Shape, ManagerShape, Alone, Turns, Fields
  <2>2. Due(m)' = Due(m) /\ Made(m)'
    BY <1>2, <1>4, <2>1 DEF Due, Made, Saves, JobOf, Now
  <2>3. QED
    BY <1>1, <1>2, <2>1, <2>2, DueFrame
<1>5. QED
  BY <1>3, <1>4 DEF SaveBegins, RemoveBegins

LEMMA DueSaveCommits ==
  ASSUME StoreInv, Turns, AgentsDue, NEW m \in Managers, SaveCommits(m), Never({"replaced"})' PROVE AgentsDue'
<1>1. /\ Busy(m) /\ Told(m) /\ Alone(m) /\ manager'[m].at = "idle" /\ manager[m].snap = rows
      /\ Now(m, "commit") /\ agents' = agents
  BY IdleFields DEF SaveCommits, Busy, Now, Turns, Told, InTransaction, remote
<1>2. DOMAIN agents = Due(m) /\ Made(m)
  BY <1>1, DueBefore
<1>3. Due(m)' = Named' /\ Made(m)'
  BY <1>1 DEF Due, Made, Saves, Now
<1>4. Named' = Due(m)
  <2>1. CASE JobOf(m).p # "mistral"
    <3>1. Due(m) = Named
      BY <2>1 DEF Due
    <3>2. CASE Inserts(m)
      <4> DEFINE new == last.row + 1
      <4>1. /\ DOMAIN rows' = DOMAIN rows \cup {new} /\ new \notin DOMAIN rows
            /\ rows'[new].provider # "mistral" /\ \A k \in DOMAIN rows : rows'[k] = rows[k]
        BY <2>1, <3>2 DEF Inserts, With, StoreInv, Shape, RowShape
      <4>2. QED
        BY <3>1, <4>1 DEF Named, Of
    <3>3. CASE Updates(m)
      <4>1. /\ DOMAIN rows' = DOMAIN rows
            /\ \A k \in DOMAIN rows : rows'[k].provider = rows[k].provider
            /\ \A k \in Of("mistral", rows) : rows'[k] = rows[k]
        BY <1>1, <2>1, <3>3 DEF Updates, Of, Turns, Fields
      <4>2. QED
        BY <3>1, <4>1 DEF Named, Of
    <3>4. QED
      BY <3>2, <3>3 DEF SaveCommits
  <2>2. CASE JobOf(m).p = "mistral" /\ Inserts(m)
    <3> DEFINE new == last.row + 1
    <3>1. /\ DOMAIN rows' = DOMAIN rows \cup {new} /\ new \notin DOMAIN rows
          /\ rows'[new].provider = "mistral" /\ rows'[new].agent = manager[m].umcr.agent
          /\ \A k \in DOMAIN rows : rows'[k] = rows[k]
          /\ Of("mistral", rows) = {}
      BY <1>1, <2>2 DEF Inserts, With, StoreInv, Shape, RowShape
    <3>2. JobOf(m).kind = "create"
      <4>1. ASSUME Current(m, "mistral") PROVE FALSE
        BY <3>1, <4>1 DEF Current, Of
      <4>2. QED
        BY <1>1, <2>2, <4>1 DEF Told, Course, AboutModel, Now
    <3>3. Due(m) = {manager[m].umcr.agent}
      BY <1>1, <2>2, <3>1, <3>2 DEF Due, Named, Saves, Now
    <3>4. Of("mistral", rows)' = {new}
      BY <3>1 DEF Of
    <3>5. Named' = {rows'[new].agent}
      BY <3>4 DEF Named
    <3>6. QED
      BY <3>1, <3>3, <3>5
  <2>3. CASE JobOf(m).p = "mistral" /\ Updates(m)
    <3>1. JobOf(m).kind \in {"update", "store"}
      BY <1>1, <2>3 DEF Updates, Marks, Never, Told, Course, Now
    <3>2. Current(m, "mistral")
      BY <1>1, <2>3, <3>1 DEF Told, AboutModel, Now
    <3>3. Of("mistral", rows) = {manager[m].saw.id} /\ Named = {manager[m].saw.agent}
      BY <3>2, NamedOne
    <3>4. /\ DOMAIN rows' = DOMAIN rows /\ rows'[manager[m].saw.id].agent = manager[m].umcr.agent
          /\ \A k \in DOMAIN rows : rows'[k].provider = rows[k].provider
      <4>1. PICK i \in Of(JobOf(m).p, manager[m].snap) :
               rows' = [k \in DOMAIN rows |->
                          IF k = i THEN [rows[k] EXCEPT !.agent = manager[m].umcr.agent,
                                           !.ids = manager[m].umcr.ids, !.data = manager[m].sent]
                          ELSE rows[k]]
        BY <2>3 DEF Updates
      <4>2. i = manager[m].saw.id
        BY <1>1, <2>3, <3>3, <4>1
      <4>3. QED
        BY <4>1, <4>2, <3>2 DEF Turns, Fields, Current
    <3>5. Of("mistral", rows)' = {manager[m].saw.id}
      BY <3>3, <3>4 DEF Of
    <3>6. Named' = {manager[m].umcr.agent}
      <4>1. Named' = {rows'[i].agent : i \in {manager[m].saw.id}}
        BY <3>5 DEF Named
      <4>2. QED
        BY <3>4, <4>1
    <3>7. Due(m) = {manager[m].umcr.agent}
      BY <1>1, <1>2, <2>3, <3>1, <3>3 DEF Due, Made, Saves, Now
    <3>8. QED
      BY <3>6, <3>7
  <2>4. QED
    BY <2>1, <2>2, <2>3 DEF SaveCommits
<1>5. QED
  BY <1>1, <1>2, <1>3, <1>4, DueFrame

LEMMA DueRemoveCommits ==
  ASSUME StoreInv, Turns, AgentsDue, NEW m \in Managers, RemoveCommits(m) PROVE AgentsDue'
<1>1. /\ Busy(m) /\ Told(m) /\ Now(m, "unlink") /\ agents' = agents /\ Current(m, JobOf(m).p)
      /\ Alone(m) /\ manager'[m].at \notin Heavy
  <2>1. AfterUnlink(m) \notin Heavy
    BY DEF AfterUnlink, AfterRemoval, Heavy
  <2>2. QED
    BY <2>1, GoFields DEF RemoveCommits, Busy, Now, Turns, Told, AboutModel, remote
<1>2. DOMAIN agents = Due(m)
  BY <1>1, DueBefore
<1>3. Due(m)' = Named' /\ Made(m)'
  BY <1>1 DEF Due, Made, Saves, Now, Heavy
<1>4. /\ DOMAIN rows' = DOMAIN rows \ {manager[m].saw.id}
      /\ \A k \in DOMAIN rows' : rows'[k].provider = rows[k].provider /\ rows'[k].agent = rows[k].agent
  BY RemovalRows DEF Turns, Fields
<1>5. Named' = Due(m)
  <2>1. CASE JobOf(m).p = "mistral"
    <3>1. Of("mistral", rows) = {manager[m].saw.id}
      BY <1>1, <2>1, NamedOne
    <3>2. Of("mistral", rows)' = {}
      BY <1>4, <3>1 DEF Of
    <3>3. Due(m) = {}
      BY <1>1, <2>1 DEF Due, Now
    <3>4. QED
      BY <3>2, <3>3 DEF Named
  <2>2. CASE JobOf(m).p # "mistral"
    <3>1. Due(m) = Named /\ manager[m].saw.id \notin Of("mistral", rows)
      BY <1>1, <2>2 DEF Due, Current, Of
    <3>2. Of("mistral", rows)' = Of("mistral", rows)
      BY <1>4, <3>1 DEF Of
    <3>3. \A k \in Of("mistral", rows) : rows'[k].agent = rows[k].agent
      BY <1>4, <3>1 DEF Of
    <3>4. QED
      BY <3>1, <3>2, <3>3 DEF Named
  <2>3. QED
    BY <2>1, <2>2
<1>6. QED
  BY <1>1, <1>2, <1>3, <1>5, DueFrame

LEMMA DueFiles ==
  ASSUME StoreInv, Turns, AgentsDue, NEW m \in Managers, DeleteAllModelEmbeddings(m) \/ EmbedsFile(m)
  PROVE  AgentsDue'
<1>1. /\ Busy(m) /\ JobOf(m).p # "mistral" /\ UNCHANGED <<rows, agents>>
  BY DEF DeleteAllModelEmbeddings, EmbedsFile, Busy, Now, Turns, Told, Course, remote
<1>2. Alone(m) /\ manager'[m].job = manager[m].job
  BY DEF DeleteAllModelEmbeddings, EmbedsFile, AfterFile, Goes, StoreInv, Shape, ManagerShape, Alone
<1>3. Named' = Named /\ DOMAIN agents = Named
  BY <1>1, NamedStays, DueBefore DEF Due
<1>4. Due(m)' = Named' /\ Made(m)'
  BY <1>1, <1>2 DEF Due, Made, JobOf
<1>5. QED
  BY <1>1, <1>2, <1>3, <1>4, DueFrame

LEMMA MarksStay ==
  ASSUME [StoreNext]_storevars
  PROVE  past \subseteq past'
<1>1. ASSUME NEW m \in Managers, ReadsRecord(m) PROVE past \subseteq past'
  BY <1>1 DEF ReadsRecord, Marks
<1>2. ASSUME NEW m \in Managers, (\E job \in scene.jobs : Begins(m, job)) \/ Fails(m) \/ RemoveUnpicked(m)
      PROVE  past \subseteq past'
  BY <1>2 DEF Begins, Fails, RemoveUnpicked, Marks
<1>3. ASSUME NEW m \in Managers, Does(m), ~ReadsRecord(m) PROVE past \subseteq past'
  BY <1>3 DEF Does, ReadsModel, CallsMistral, MakesNoAgent, UploadRefused, SaveBegins, RemoveBegins, SaveCommits, Inserts,
     Updates, RemoveCommits, DisableAllUserChannel, ReadsNext, SetActiveModelByProvider, SyncProviderModels, FindsLibrary,
     ReadsRow, UpdateUserGPT, GeneratesEmbedding, SaveEmbedding, DeleteEmbedding, DeleteAllModelEmbeddings, EmbedsFile, Marks
<1>4. QED
  BY <1>1, <1>2, <1>3 DEF StoreNext, storevars, SecondPasses

LEMMA AgentStep == StoreInv /\ TurnInv /\ AgentInv /\ [StoreNext]_storevars => AgentInv'
<1> SUFFICES ASSUME StoreInv, TurnInv, AgentInv, [StoreNext]_storevars, AgentsInTurn' PROVE AgentsDue'
  BY DEF AgentInv
<1>1. Turns /\ AgentsDue
  BY MarksStay DEF AgentInv, AgentsInTurn, TurnInv, InTurn, Never
<1>2. ASSUME NEW m \in Managers,
             (\E job \in scene.jobs : Begins(m, job)) \/ Does(m) \/ Fails(m) \/ RemoveUnpicked(m)
      PROVE  AgentsDue'
  <2>1. ~Fails(m) /\ ~RemoveUnpicked(m) /\ ((\E job \in scene.jobs : Begins(m, job)) => Rest)
    BY <1>2, TurnKinds DEF AgentsInTurn
  <2>2. Never({"synced"})' /\ Never({"replaced"})'
    BY DEF AgentsInTurn, Never
  <2>3. QED
    BY <1>1, <1>2, <2>1, <2>2, DueBegins, DueReadsRecord, DueCallsMistral, DueMakesNoAgent, DuePlain,
       DueTransactionBegins, DueSaveCommits, DueRemoveCommits, DueFiles DEF Does
<1>3. CASE SecondPasses \/ UNCHANGED storevars
  <2>1. UNCHANGED <<rows, agents, manager>>
    BY <1>3 DEF SecondPasses, storevars, remote
  <2>2. QED
    BY <1>1, <2>1 DEF AgentsDue, Named, Due, Made, Saves, Of, JobOf, Rest, Busy, Now
<1>4. QED
  BY <1>2, <1>3 DEF StoreNext

(***************************************************************************)
(* Calls one after another, none of whose steps failed, leave exactly the  *)
(* agents at Mistral that a row names, whatever files come and go between: *)
(* UploadModel, updateMistralModelInPlace, deleteMistralModel.             *)
(***************************************************************************)
THEOREM AgentsAreNamed == StoreSpec => []AgentsMatch
<1>1. StoreInit => AgentInv
  <2>1. StoreInit => DOMAIN agents = {} /\ Named = {} /\ \A m \in Managers : ~Busy(m)
    BY DEF StoreInit, Named, Of, Busy, Now, Idle
  <2>2. QED
    BY <2>1 DEF AgentInv, AgentsDue
<1>2. AgentInv => AgentsMatch
  BY DEF AgentInv, AgentsInTurn, InTurn, AgentsDue, AgentsMatch, Never, Named
<1>3. QED
  BY <1>1, <1>2, TurnInit, TurnStep, AgentStep, StoreInvInit, StoreInvStep, PTL DEF StoreSpec

--------------------------------------------------------------------------------
(***************************************************************************)
(* Types, for calls that overlap and fail as they like.                    *)
(***************************************************************************)
RowsTyped == rows \in [DOMAIN rows -> Row] /\ DOMAIN rows \subseteq Ids
LastTyped == last \in [row : 0 .. MaxRows, agent : 0 .. MaxAgents, library : Library]
RemoteTyped ==
  /\ agents \in [DOMAIN agents -> Library] /\ DOMAIN agents \subseteq 1 .. MaxAgents
  /\ libraries \in [DOMAIN libraries -> SUBSET Docs] /\ DOMAIN libraries \subseteq 1 .. MaxLibraries
EmbeddingsTyped == embeddings \subseteq [model : Ids, key : 0 .. MaxSeconds, text : Docs]
RestTyped ==
  /\ scene \in Scenes /\ channels \in BOOLEAN /\ second \in 1 .. MaxSeconds
  /\ todo \in 0 .. scene.calls /\ past \subseteq Mark
SawType == [id : 0 .. MaxRows, active : BOOLEAN, agent : Agent, ids : VecIds]
ManagerTyped(m) ==
  LET me == manager[m] IN
  /\ DOMAIN me = {"at", "job", "sent", "read", "saw", "umcr", "snap", "library", "left", "key"}
  /\ me.at \in At /\ me.job \in Job /\ me.sent \in Data /\ me.read \in Data
  /\ me.saw \in SawType /\ me.umcr \in [agent : Agent, ids : VecIds] /\ DOMAIN me.snap \subseteq Ids
  /\ me.library \in Library /\ me.left \subseteq Docs /\ me.key \in 0 .. MaxSeconds
ManagersTyped == DOMAIN manager = Managers /\ \A m \in Managers : ManagerTyped(m)
TypeInv == RowsTyped /\ LastTyped /\ RemoteTyped /\ EmbeddingsTyped /\ RestTyped /\ ManagersTyped

LEMMA TypesSuffice == TypeInv => StoreTypeOK
<1> SUFFICES ASSUME TypeInv PROVE StoreTypeOK
  OBVIOUS
<1>1. \E I \in SUBSET Ids : rows \in [I -> Row]
  BY DEF TypeInv, RowsTyped
<1>2. /\ \E I \in SUBSET (1 .. MaxAgents) : agents \in [I -> Library]
      /\ \E I \in SUBSET (1 .. MaxLibraries) : libraries \in [I -> SUBSET Docs]
  BY DEF TypeInv, RemoteTyped
<1>3. \A m \in Managers :
          /\ manager[m].at \in At /\ manager[m].job \in Job
          /\ manager[m].sent \in Data /\ manager[m].read \in Data
          /\ manager[m].umcr \in [agent : Agent, ids : VecIds] /\ manager[m].left \subseteq Docs
          /\ DOMAIN manager[m].snap \subseteq Ids
  BY DEF TypeInv, ManagersTyped, ManagerTyped
<1>4. QED
  BY <1>1, <1>2, <1>3 DEF TypeInv, LastTyped, EmbeddingsTyped, RestTyped, StoreTypeOK

LEMMA TypeFrame ==
  ASSUME TypeInv, NEW m \in Managers, Alone(m), (ManagerTyped(m))',
         (RowsTyped /\ LastTyped /\ RemoteTyped /\ EmbeddingsTyped /\ RestTyped)'
  PROVE  TypeInv'
<1>1. \A n \in Managers \ {m} : ManagerTyped(n)'
  BY DEF TypeInv, ManagersTyped, Alone, ManagerTyped
<1>2. QED
  BY <1>1 DEF TypeInv, ManagersTyped, Alone

\* What a step leaves alone keeps its type.
LEMMA TypedStays ==
  ASSUME TypeInv
  PROVE  /\ UNCHANGED rows => RowsTyped'
         /\ UNCHANGED last => LastTyped'
         /\ UNCHANGED remote => RemoteTyped'
         /\ UNCHANGED embeddings => EmbeddingsTyped'
         /\ UNCHANGED <<scene, channels, second, todo, past>> => RestTyped'
BY DEF TypeInv, RowsTyped, LastTyped, RemoteTyped, EmbeddingsTyped, RestTyped, remote

LEMMA MarksTyped ==
  ASSUME TypeInv, NEW S, S \subseteq Mark, Marks(S), UNCHANGED <<scene, channels, second, todo>>
  PROVE  RestTyped'
BY DEF TypeInv, RestTyped, Marks

\* A record of a manager whose fields have been given new values.
LEMMA IdleTyped ==
  ASSUME TypeInv, NEW m \in Managers, Ends(m)
  PROVE  Alone(m) /\ ManagerTyped(m)'
<1>1. manager'[m] = Idle /\ Alone(m)
  BY DEF TypeInv, ManagersTyped, Ends, Alone, Idle
<1>2. AnyJob \in Job
  BY DEF AnyJob, Job, Kind, Provider
<1>3. NoData \in Data /\ NoRow \in SawType /\ [agent |-> None, ids |-> NoIds] \in [agent : Agent, ids : VecIds]
  BY BoundsAssumption DEF NoData, Data, NoRow, SawType, NoIds, VecIds, None, Agent, Library
<1>4. "idle" \in At /\ None \in Library /\ DOMAIN <<>> = {} /\ 0 \in 0 .. MaxSeconds
  BY BoundsAssumption DEF At, None, Library
<1>5. QED
  BY <1>1, <1>2, <1>3, <1>4 DEF ManagerTyped, Idle

LEMMA GoesTyped ==
  ASSUME TypeInv, NEW m \in Managers, NEW at \in At, GoesOr(m, at) \/ Goes(m, at)
  PROVE  Alone(m) /\ ManagerTyped(m)'
<1>1. CASE Ends(m)
  BY <1>1, IdleTyped
<1>2. CASE Goes(m, at)
  BY <1>2 DEF Goes, TypeInv, ManagersTyped, ManagerTyped, Alone
<1>3. QED
  BY <1>1, <1>2 DEF GoesOr

(***************************************************************************)
(* The queries.                                                            *)
(***************************************************************************)
LEMMA HasNewest ==
  ASSUME NEW I, I \subseteq Ids, I # {}
  PROVE  Newest(I) \in I
<1> DEFINE T == {MaxRows - i : i \in I}
           R == OpToRel(<, Nat)
<1>1. \A i \in I : i \in Nat /\ MaxRows - i \in Nat
  BY BoundsAssumption DEF Ids
<1>2. T \subseteq Nat /\ T # {}
  BY <1>1
<1>3. PICK x \in T : \A y \in T : ~ (<<y, x>> \in R)
  <2> HIDE DEF T, R
  <2>1. IsWellFoundedOn(R, Nat)
    BY NatLessThanWellFounded DEF R
  <2>2. QED
    BY <1>2, <2>1, WFMin
<1>4. \A y \in T : ~(y < x)
  BY <1>2, <1>3 DEF OpToRel
<1>5. PICK i \in I : x = MaxRows - i
  OBVIOUS
<1>6. ASSUME NEW j \in I PROVE j <= i
  <2>1. ~(MaxRows - j < MaxRows - i)
    BY <1>4, <1>5
  <2>2. i \in Int /\ j \in Int /\ MaxRows \in Int
    BY <1>1, BoundsAssumption
  <2>3. QED
    BY <2>1, <2>2
<1>7. QED
  BY <1>6 DEF Newest

LEMMA FirstIsOne ==
  ASSUME TypeInv, NEW I, I \subseteq DOMAIN rows, I # {}
  PROVE  FirstOf(I) \in I
<1>1. I \subseteq Ids
  BY DEF TypeInv, RowsTyped
<1>2. CASE \E i \in I : rows[i].active
  <2>1. Newest({i \in I : rows[i].active}) \in {i \in I : rows[i].active}
    BY <1>1, <1>2, HasNewest
  <2>2. QED
    BY <1>2, <2>1 DEF FirstOf
<1>3. CASE ~\E i \in I : rows[i].active
  BY <1>1, <1>3, HasNewest DEF FirstOf
<1>4. QED
  BY <1>2, <1>3

LEMMA RecordTyped ==
  ASSUME TypeInv, NEW p
  PROVE  RecordOf(p) \in SawType
<1>1. CASE Of(p, rows) = {}
  BY <1>1, BoundsAssumption DEF RecordOf, NoRow, SawType, NoIds, VecIds, None, Agent, Library
<1>2. CASE Of(p, rows) # {}
  <2> DEFINE i == FirstOf(Of(p, rows))
  <2>1. i \in DOMAIN rows
    BY <1>2, FirstIsOne DEF Of
  <2>2. rows[i] \in Row /\ i \in 0 .. MaxRows
    BY <2>1, BoundsAssumption DEF TypeInv, RowsTyped, Ids
  <2>3. Seen(i) \in SawType
    BY <2>2 DEF Seen, SawType, Row
  <2>4. QED
    BY <1>2, <2>3 DEF RecordOf
<1>3. QED
  BY <1>1, <1>2

LEMMA DecompressTyped ==
  ASSUME NEW r \in Row
  PROVE  Decompress(r) \in Data
BY DEF Row, Decompress, Data, VecIds

(***************************************************************************)
(* The steps.                                                              *)
(***************************************************************************)
LEMMA TypeBegins ==
  ASSUME TypeInv, NEW m \in Managers, NEW job \in scene.jobs, Begins(m, job) PROVE TypeInv'
<1>1. job \in Job /\ scene.calls \in Nat
  BY SceneAssumption DEF TypeInv, RestTyped, Scene
<1>2. PICK sent \in Sent(job) :
         manager' = [manager EXCEPT ![m] = [Idle EXCEPT !.at = FirstStep[job.kind], !.job = job, !.sent = sent]]
  BY DEF Begins
<1>3. sent \in Data
  <2>1. CASE job.kind = "create" \/ Of(job.p, rows) = {}
    BY <1>1, <1>2, <2>1, BoundsAssumption DEF Sent, NoData, Data, Job, Library, None
  <2>2. CASE ~(job.kind = "create" \/ Of(job.p, rows) = {})
    <3> DEFINE shown == Decompress(rows[FirstOf(Of(job.p, rows))])
    <3>1. FirstOf(Of(job.p, rows)) \in DOMAIN rows
      BY <2>2, FirstIsOne DEF Of
    <3>2. shown \in Data
      BY <3>1, DecompressTyped DEF TypeInv, RowsTyped
    <3>3. sent \in {shown, [shown EXCEPT !.files = job.docs, !.search = job.flag]}
      BY <1>2, <2>2 DEF Sent
    <3>4. QED
      BY <1>1, <3>2, <3>3 DEF Data, Job
  <2>3. QED
    BY <2>1, <2>2
<1>4. FirstStep[job.kind] \in At
  BY <1>1 DEF FirstStep, Job, Kind, At
<1>5. Alone(m) /\ manager'[m] = [Idle EXCEPT !.at = FirstStep[job.kind], !.job = job, !.sent = sent]
  BY <1>2 DEF TypeInv, ManagersTyped, Alone, Idle
<1>6. ManagerTyped(m)'
  <2>1. NoData \in Data /\ NoRow \in SawType /\ [agent |-> None, ids |-> NoIds] \in [agent : Agent, ids : VecIds]
    BY BoundsAssumption DEF NoData, Data, NoRow, SawType, NoIds, VecIds, None, Agent, Library
  <2>2. None \in Library /\ DOMAIN <<>> = {} /\ 0 \in 0 .. MaxSeconds
    BY BoundsAssumption DEF None, Library
  <2>3. QED
    BY <1>1, <1>3, <1>4, <1>5, <2>1, <2>2 DEF ManagerTyped, Idle
<1>7. RestTyped'
  BY <1>1 DEF Begins, TypeInv, RestTyped, Marks, Mark
<1>8. QED
  BY <1>5, <1>6, <1>7, TypedStays, TypeFrame DEF Begins

LEMMA TypeReadsModel ==
  ASSUME TypeInv, NEW m \in Managers, ReadsModel(m) PROVE TypeInv'
<1>1. RestTyped'
  BY MarksTyped DEF ReadsModel, TypeInv, RestTyped, Mark, Marks
<1>2. Alone(m) /\ ManagerTyped(m)'
  <2>1. ASSUME NEW i \in Of(JobOf(m).p, rows),
               manager' = [manager EXCEPT ![m].at = "record", ![m].read = Decompress(rows[i])]
        PROVE  Alone(m) /\ ManagerTyped(m)'
    <3>1. Decompress(rows[i]) \in Data
      BY DecompressTyped DEF TypeInv, RowsTyped, Of
    <3>2. QED
      BY <2>1, <3>1 DEF TypeInv, ManagersTyped, ManagerTyped, Alone, At
  <2>2. QED
    BY <2>1, IdleTyped DEF ReadsModel
<1>3. QED
  BY <1>1, <1>2, TypedStays, TypeFrame DEF ReadsModel

LEMMA TypeReadsRecord ==
  ASSUME TypeInv, NEW m \in Managers, ReadsRecord(m) PROVE TypeInv'
<1> DEFINE saw == RecordOf(JobOf(m).p)
<1>1. RestTyped'
  <2>1. PICK S : S \subseteq Mark /\ Marks(S)
    BY DEF ReadsRecord, Mark
  <2>2. QED
    BY <2>1, MarksTyped DEF ReadsRecord
<1>2. Alone(m) /\ ManagerTyped(m)'
  <2>1. CASE Ends(m)
    BY <2>1, IdleTyped
  <2>2. CASE ~Ends(m)
    <3> DEFINE left == IF FilesChanged(m) THEN manager[m].sent.files ELSE {}
               umcr == [agent |-> saw.agent, ids |-> KeptIds(m, saw)]
    <3>1. manager' = [manager EXCEPT ![m].at = AfterRecord(m), ![m].saw = saw, ![m].sent = Updated(m),
                        ![m].left = left, ![m].umcr = umcr]
      BY <2>2 DEF ReadsRecord
    <3>2. ManagerTyped(m) /\ saw \in SawType
      BY RecordTyped DEF TypeInv, ManagersTyped
    <3>3. AfterRecord(m) \in At
      <4>1. manager[m].job \in Job
        BY <3>2 DEF ManagerTyped
      <4>2. GoogleStep(m) \in At
        BY DEF GoogleStep, At
      <4>3. QED
        BY <4>2 DEF AfterRecord, At
    <3>4. Updated(m) \in Data
      BY <3>2, BoundsAssumption DEF Updated, ManagerTyped, Data, None, Library
    <3>5. left \subseteq Docs
      BY <3>2 DEF ManagerTyped, Data
    <3>6. KeptIds(m, saw) \in VecIds
      BY <3>2, BoundsAssumption DEF KeptIds, ManagerTyped, SawType, Data, NoIds, VecIds, None, Library
    <3>7. umcr \in [agent : Agent, ids : VecIds]
      BY <3>2, <3>6 DEF SawType
    <3> HIDE DEF saw, left, umcr
    <3>8. QED
      BY <3>1, <3>2, <3>3, <3>4, <3>5, <3>7 DEF TypeInv, ManagersTyped, ManagerTyped, Alone
  <2>3. QED
    BY <2>1, <2>2
<1>3. QED
  BY <1>1, <1>2, TypedStays, TypeFrame DEF ReadsRecord

\* What a request does at Mistral.
LEMMA CarriesTyped ==
  ASSUME TypeInv, NEW m \in Managers, CanCall(m), Carries(m)
  PROVE  LastTyped' /\ RemoteTyped'
<1> USE BoundsAssumption DEF TypeInv, LastTyped, RemoteTyped, ManagersTyped, ManagerTyped
<1>1. CASE Now(m, "make")
  <2>1. /\ last' = [last EXCEPT !.agent = @ + 1] /\ UNCHANGED libraries
        /\ agents' = With(agents, last.agent + 1, manager[m].sent.library)
    BY <1>1 DEF Carries, MakesAgent, Now
  <2>2. last.agent + 1 \in 1 .. MaxAgents
    BY <1>1 DEF CanCall
  <2>3. manager[m].sent.library \in Library
    BY DEF Data
  <2>4. QED
    BY <2>1, <2>2, <2>3 DEF With
<1>2. CASE Now(m, "agent")
  <2>1. agents' = Without(agents, manager[m].saw.agent) /\ UNCHANGED <<last, libraries>>
    BY <1>2 DEF Carries, Now
  <2>2. QED
    BY <2>1 DEF Without, Restrict
<1>3. CASE Now(m, "makelib")
  <2>1. /\ last' = [last EXCEPT !.library = @ + 1] /\ UNCHANGED agents
        /\ libraries' = With(libraries, last.library + 1, {})
    BY <1>3 DEF Carries, Now
  <2>2. last.library + 1 \in 1 .. MaxLibraries
    BY <1>3 DEF CanCall, Library
  <2>3. QED
    BY <2>1, <2>2 DEF With, Library
<1>4. CASE Now(m, "upload")
  <2>1. libraries' = [libraries EXCEPT ![manager[m].library] = @ \cup manager[m].job.docs] /\ UNCHANGED <<last, agents>>
    BY <1>4 DEF Carries, Now
  <2>2. manager[m].job.docs \subseteq Docs
    BY DEF Job
  <2>3. QED
    BY <2>1, <2>2
<1>5. CASE Now(m, "drop")
  <2>1. /\ libraries' = [l \in DOMAIN libraries |->
                           IF l = manager[m].library THEN libraries[l] \ manager[m].job.docs ELSE libraries[l]]
        /\ UNCHANGED <<last, agents>>
    BY <1>5 DEF Carries, Now
  <2>2. QED
    BY <2>1
<1>6. CASE manager[m].at \in {"files", "emptied", "undo"}
  <2>1. libraries' = Without(libraries, Target(m)) /\ UNCHANGED <<last, agents>>
    BY <1>6 DEF Carries
  <2>2. QED
    BY <2>1 DEF Without, Restrict
<1>7. QED
  BY <1>1, <1>2, <1>3, <1>4, <1>5, <1>6 DEF CanCall, Calls, Now

LEMMA AfterCallAt ==
  ASSUME NEW m \in Managers
  PROVE  AfterCall(m) \in At
BY DEF AfterCall, AfterAgent, At

LEMMA TypeCallsMistral ==
  ASSUME TypeInv, NEW m \in Managers, CallsMistral(m) PROVE TypeInv'
<1>1. LastTyped' /\ RemoteTyped'
  BY CarriesTyped DEF CallsMistral
<1>2. RestTyped'
  <2>1. PICK S : S \subseteq Mark /\ Marks(S)
    BY DEF CallsMistral, Mark
  <2>2. QED
    BY <2>1, MarksTyped DEF CallsMistral
<1>3. Alone(m) /\ ManagerTyped(m)'
  <2>1. CASE Now(m, "make")
    <3> DEFINE umcr == [agent |-> last.agent + 1, ids |-> Column(manager[m].sent)]
    <3>1. manager' = [manager EXCEPT ![m].at = "save", ![m].umcr = umcr]
      BY <2>1 DEF CallsMistral
    <3>2. umcr \in [agent : Agent, ids : VecIds]
      <4>1. last.agent + 1 \in Agent
        BY <2>1, BoundsAssumption DEF CallsMistral, CanCall, TypeInv, LastTyped, Agent
      <4>2. Column(manager[m].sent) \in VecIds
        BY DEF TypeInv, ManagersTyped, ManagerTyped, Data, VecIds, Column
      <4>3. QED
        BY <4>1, <4>2
    <3> HIDE DEF umcr
    <3>3. QED
      BY <3>1, <3>2 DEF TypeInv, ManagersTyped, ManagerTyped, Alone, At
  <2>2. CASE Now(m, "makelib")
    <3>1. manager' = [manager EXCEPT ![m].at = "keep", ![m].library = last.library + 1]
      BY <2>2 DEF CallsMistral, Now
    <3>2. last.library + 1 \in Library
      BY <2>2, BoundsAssumption DEF CallsMistral, CanCall, TypeInv, LastTyped, Library
    <3>3. QED
      BY <3>1, <3>2 DEF TypeInv, ManagersTyped, ManagerTyped, Alone, At
  <2>3. CASE ~(Now(m, "make") \/ Now(m, "makelib"))
    BY <2>3, AfterCallAt, GoesTyped DEF CallsMistral
  <2>4. QED
    BY <2>1, <2>2, <2>3
<1>4. QED
  BY <1>1, <1>2, <1>3, TypedStays, TypeFrame DEF CallsMistral

LEMMA TypeFails ==
  ASSUME TypeInv, NEW m \in Managers, Fails(m) PROVE TypeInv'
<1>1. RestTyped'
  BY MarksTyped DEF Fails, Mark
<1>2. OnError(m) \in At
  BY AfterCallAt DEF OnError, AfterClean, At
<1>3. Alone(m) /\ ManagerTyped(m)'
  <2>1. ASSUME NEW text, AfterFile(m, text) PROVE Alone(m) /\ ManagerTyped(m)'
    BY <2>1 DEF AfterFile, TypeInv, ManagersTyped, ManagerTyped, Alone, At
  <2>2. QED
    BY <1>2, <2>1, GoesTyped DEF Fails
<1>4. LastTyped' /\ RemoteTyped'
  BY CarriesTyped, TypedStays DEF Fails
<1>5. QED
  BY <1>1, <1>3, <1>4, TypedStays, TypeFrame DEF Fails

LEMMA TypeMakesNoAgent ==
  ASSUME TypeInv, NEW m \in Managers, MakesNoAgent(m) PROVE TypeInv'
<1> DEFINE umcr == [agent |-> ModelName, ids |-> NoIds]
<1>1. manager' = [manager EXCEPT ![m].at = "save", ![m].umcr = umcr]
  BY DEF MakesNoAgent
<1>2. umcr \in [agent : Agent, ids : VecIds]
  BY BoundsAssumption DEF ModelName, Agent, NoIds, VecIds, None, Library
<1>3. Alone(m) /\ ManagerTyped(m)'
  <2> HIDE DEF umcr
  <2> QED
    BY <1>1, <1>2 DEF TypeInv, ManagersTyped, ManagerTyped, Alone, At
<1>4. QED
  BY <1>3, TypedStays, TypeFrame DEF MakesNoAgent

LEMMA TypeTransactionBegins ==
  ASSUME TypeInv, NEW m \in Managers, SaveBegins(m) \/ RemoveBegins(m) PROVE TypeInv'
<1>1. RestTyped'
  BY MarksTyped DEF SaveBegins, RemoveBegins, Crossing, Mark
<1>2. Alone(m) /\ ManagerTyped(m)'
  <2>1. ASSUME NEW at \in {"commit", "unlink"}, manager' = [manager EXCEPT ![m].at = at, ![m].snap = rows]
        PROVE  Alone(m) /\ ManagerTyped(m)'
    BY <2>1 DEF TypeInv, RowsTyped, ManagersTyped, ManagerTyped, Alone, At
  <2>2. QED
    BY <2>1, IdleTyped DEF SaveBegins, RemoveBegins
<1>3. QED
  BY <1>1, <1>2, TypedStays, TypeFrame DEF SaveBegins, RemoveBegins

LEMMA TypeSaveCommits ==
  ASSUME StoreInv, TypeInv, NEW m \in Managers, SaveCommits(m) PROVE TypeInv'
<1>1. ManagerTyped(m)
  BY DEF TypeInv, ManagersTyped
<1>2. CASE Inserts(m)
  <2> DEFINE row == [provider |-> JobOf(m).p, active |-> DOMAIN manager[m].snap = {},
                     agent |-> manager[m].umcr.agent, ids |-> manager[m].umcr.ids, data |-> manager[m].sent]
  <2>1. row \in Row
    <3>1. JobOf(m).p \in Provider /\ manager[m].umcr.agent \in Agent /\ manager[m].umcr.ids \in VecIds
      BY <1>1 DEF ManagerTyped, Job, JobOf
    <3>2. QED
      BY <1>1, <3>1 DEF ManagerTyped, Row
  <2>2. rows' = With(rows, last.row + 1, row) /\ last' = [last EXCEPT !.row = @ + 1] /\ last.row + 1 \in Ids
    BY <1>2, BoundsAssumption DEF Inserts, TypeInv, LastTyped, Ids
  <2>3. RowsTyped' /\ LastTyped'
    <3> HIDE DEF row
    <3>1. RowsTyped'
      BY <2>1, <2>2 DEF With, TypeInv, RowsTyped
    <3>2. LastTyped'
      BY <2>2, BoundsAssumption DEF TypeInv, LastTyped, Ids
    <3>3. QED
      BY <3>1, <3>2
  <2>4. QED
    BY <1>2, <2>3, IdleTyped, TypedStays, TypeFrame DEF SaveCommits, Inserts
<1>3. CASE Updates(m)
  <2>1. RestTyped'
    BY <1>3, MarksTyped DEF Updates, Mark, SaveCommits
  <2>2. RowsTyped'
    <3>1. /\ manager[m].umcr.agent \in Agent /\ manager[m].umcr.ids \in VecIds /\ manager[m].sent \in Data
      BY <1>1 DEF ManagerTyped
    <3>2. \A k \in DOMAIN rows :
             [rows[k] EXCEPT !.agent = manager[m].umcr.agent, !.ids = manager[m].umcr.ids,
                             !.data = manager[m].sent] \in Row
      BY <3>1 DEF TypeInv, RowsTyped, Row
    <3>3. QED
      BY <1>3, <3>2 DEF Updates, TypeInv, RowsTyped
  <2>3. QED
    BY <1>3, <2>1, <2>2, IdleTyped, TypedStays, TypeFrame DEF SaveCommits, Updates
<1>4. QED
  BY <1>2, <1>3 DEF SaveCommits

LEMMA TypeRemoveCommits ==
  ASSUME TypeInv, NEW m \in Managers, RemoveCommits(m) PROVE TypeInv'
<1>1. AfterUnlink(m) \in At
  BY DEF AfterUnlink, AfterRemoval, At
<1>2. RowsTyped'
  <2>1. \A k \in DOMAIN rows : rows[k] \in Row /\ [rows[k] EXCEPT !.active = TRUE] \in Row
    BY DEF TypeInv, RowsTyped, Row
  <2>2. DOMAIN rows' \subseteq Ids /\ \A k \in DOMAIN rows' : rows'[k] \in Row
    BY <2>1, RemovalRows DEF TypeInv, RowsTyped
  <2>3. rows' = [k \in DOMAIN rows' |-> rows'[k]]
    BY DEF RemoveCommits, Without, Restrict
  <2>4. QED
    BY <2>2, <2>3 DEF RowsTyped
<1>3. EmbeddingsTyped'
  BY DEF RemoveCommits, TypeInv, EmbeddingsTyped
<1>4. QED
  BY <1>1, <1>2, <1>3, GoesTyped, TypedStays, TypeFrame DEF RemoveCommits

LEMMA TypeRemoveUnpicked ==
  ASSUME TypeInv, NEW m \in Managers, RemoveUnpicked(m) PROVE TypeInv'
<1>1. AfterRemoval(m) \in At
  BY DEF AfterRemoval, At
<1>2. RestTyped'
  BY MarksTyped DEF RemoveUnpicked, Mark
<1>3. RowsTyped'
  BY DEF RemoveUnpicked, Without, Restrict, TypeInv, RowsTyped
<1>4. EmbeddingsTyped'
  BY DEF RemoveUnpicked, TypeInv, EmbeddingsTyped
<1>5. QED
  BY <1>1, <1>2, <1>3, <1>4, GoesTyped, TypedStays, TypeFrame DEF RemoveUnpicked

LEMMA TypeSwitches ==
  ASSUME TypeInv, NEW m \in Managers, SetActiveModelByProvider(m) \/ SyncProviderModels(m) PROVE TypeInv'
<1>1. RowsTyped'
  <2>1. \A k \in DOMAIN rows : /\ [rows[k] EXCEPT !.agent = None] \in Row
                               /\ \A b \in BOOLEAN : [rows[k] EXCEPT !.active = b] \in Row
    BY BoundsAssumption DEF TypeInv, RowsTyped, Row, None, Agent
  <2>2. ASSUME NEW i, rows' = Switched(i) PROVE RowsTyped'
    BY <2>1, <2>2 DEF Switched, TypeInv, RowsTyped
  <2>3. SyncProviderModels(m) => RowsTyped'
    BY <2>1 DEF SyncProviderModels, TypeInv, RowsTyped
  <2>4. QED
    BY <2>2, <2>3, TypedStays DEF SetActiveModelByProvider
<1>2. RestTyped'
  BY MarksTyped DEF SetActiveModelByProvider, SyncProviderModels, Crossing, Mark
<1>3. QED
  BY <1>1, <1>2, IdleTyped, TypedStays, TypeFrame DEF SetActiveModelByProvider, SyncProviderModels

LEMMA TypeReadsNext ==
  ASSUME TypeInv, NEW m \in Managers, ReadsNext(m) PROVE TypeInv'
<1>1. ASSUME rows # <<>>, manager' = [manager EXCEPT ![m].at = "switch", ![m].job.p = rows[FirstOf(DOMAIN rows)].provider]
      PROVE  Alone(m) /\ ManagerTyped(m)'
  <2>1. DOMAIN rows # {}
    <3> SUFFICES ASSUME DOMAIN rows = {} PROVE FALSE
      OBVIOUS
    <3>1. rows \in [1 .. 0 -> Row]
      BY DEF TypeInv, RowsTyped
    <3>2. rows \in Seq(Row) /\ Len(rows) = 0
      BY <3>1
    <3>3. QED
      BY <1>1, <3>2
  <2>2. rows[FirstOf(DOMAIN rows)].provider \in Provider
    BY <2>1, FirstIsOne DEF TypeInv, RowsTyped, Row
  <2>3. \A p \in Provider : [manager[m].job EXCEPT !.p = p] \in Job
    BY DEF TypeInv, ManagersTyped, ManagerTyped, Job
  <2>4. QED
    BY <1>1, <2>2, <2>3 DEF TypeInv, ManagersTyped, ManagerTyped, Alone, At
<1>2. QED
  BY <1>1, IdleTyped, TypedStays, TypeFrame DEF ReadsNext

LEMMA TypeLibrary ==
  ASSUME TypeInv, NEW m \in Managers, FindsLibrary(m) \/ ReadsRow(m) PROVE TypeInv'
<1> DEFINE saw == RecordOf("mistral")
<1>1. saw \in SawType
  BY RecordTyped
<1>2. CASE FindsLibrary(m)
  <2>1. CASE saw.ids.library # None
    <3>1. saw.ids.library \in Library
      BY <1>1 DEF SawType, VecIds
    <3>2. Alone(m) /\ ManagerTyped(m)'
      BY <1>2, <2>1, <3>1 DEF FindsLibrary, TypeInv, ManagersTyped, ManagerTyped, Alone, At
    <3>3. QED
      BY <1>2, <3>2, TypedStays, TypeFrame DEF FindsLibrary
  <2>2. CASE saw.ids.library = None
    <3>1. PICK at \in At : GoesOr(m, at)
      BY <1>2, <2>2 DEF FindsLibrary, At
    <3>2. QED
      BY <1>2, <3>1, GoesTyped, TypedStays, TypeFrame DEF FindsLibrary
  <2>3. QED
    BY <2>1, <2>2
<1>3. CASE ReadsRow(m)
  <2>1. AfterRow(m, saw) \in At
    BY DEF AfterRow, At
  <2>2. ASSUME manager' = [manager EXCEPT ![m].at = AfterRow(m, saw), ![m].saw = saw]
        PROVE  Alone(m) /\ ManagerTyped(m)'
    <3> HIDE DEF saw
    <3> QED
      BY <1>1, <2>1, <2>2 DEF TypeInv, ManagersTyped, ManagerTyped, Alone
  <2>3. QED
    BY <1>3, <2>2, IdleTyped, TypedStays, TypeFrame DEF ReadsRow
<1>4. QED
  BY <1>2, <1>3

LEMMA WrittenTyped ==
  ASSUME TypeInv, NEW m \in Managers
  PROVE  Written(m) \in VecIds
<1>1. manager[m].saw.ids \in VecIds /\ manager[m].library \in Library /\ JobOf(m).docs \subseteq Docs
  BY DEF TypeInv, ManagersTyped, ManagerTyped, SawType, Job, JobOf
<1>2. NoIds \in VecIds
  BY BoundsAssumption DEF NoIds, VecIds, None, Library
<1>3. QED
  BY <1>1, <1>2 DEF Written, VecIds

LEMMA TypeUpdateUserGPT ==
  ASSUME TypeInv, NEW m \in Managers, UpdateUserGPT(m) PROVE TypeInv'
<1>1. \A k \in DOMAIN rows : [rows[k] EXCEPT !.ids = Written(m)] \in Row
  BY WrittenTyped DEF TypeInv, RowsTyped, Row
<1>2. RowsTyped'
  BY <1>1 DEF UpdateUserGPT, TypeInv, RowsTyped
<1>3. AfterWrite(m) \in At
  BY DEF AfterWrite, At
<1>4. QED
  BY <1>2, <1>3, GoesTyped, TypedStays, TypeFrame DEF UpdateUserGPT

LEMMA TypeEmbeddings ==
  ASSUME TypeInv, NEW m \in Managers,
         \/ GeneratesEmbedding(m) \/ SaveEmbedding(m) \/ DeleteEmbedding(m)
         \/ DeleteAllModelEmbeddings(m) \/ EmbedsFile(m)
  PROVE  TypeInv'
<1>1. ManagerTyped(m) /\ \A k \in DOMAIN rows : k \in Ids
  BY DEF TypeInv, ManagersTyped, RowsTyped
<1>2. CASE GeneratesEmbedding(m)
  <2>1. Alone(m) /\ ManagerTyped(m)'
    BY <1>2 DEF GeneratesEmbedding, TypeInv, RestTyped, ManagersTyped, ManagerTyped, Alone, At
  <2>2. QED
    BY <1>2, <2>1, TypedStays, TypeFrame DEF GeneratesEmbedding
<1>3. CASE SaveEmbedding(m)
  <2>1. EmbeddingsTyped'
    <3>1. ASSUME NEW text \in JobOf(m).docs, manager[m].saw.id \in DOMAIN rows,
                 Upserts(manager[m].saw.id, manager[m].key, text)
          PROVE  EmbeddingsTyped'
      <4>1. [model |-> manager[m].saw.id, key |-> manager[m].key, text |-> text]
              \in [model : Ids, key : 0 .. MaxSeconds, text : Docs]
        BY <1>1, <3>1 DEF ManagerTyped, Job, JobOf
      <4>2. QED
        BY <3>1, <4>1 DEF Upserts, TypeInv, EmbeddingsTyped
    <3>2. QED
      BY <1>3, <3>1, TypedStays DEF SaveEmbedding
  <2>2. QED
    BY <1>3, <2>1, IdleTyped, TypedStays, TypeFrame DEF SaveEmbedding
<1>4. CASE DeleteEmbedding(m)
  <2>1. EmbeddingsTyped'
    BY <1>4 DEF DeleteEmbedding, TypeInv, EmbeddingsTyped
  <2>2. RestTyped'
    <3>1. ASSUME UNCHANGED past PROVE RestTyped'
      BY <1>4, <3>1, TypedStays DEF DeleteEmbedding
    <3>2. ASSUME NEW S, S \subseteq Mark, Marks(S) PROVE RestTyped'
      BY <1>4, <3>2, MarksTyped DEF DeleteEmbedding
    <3>3. UNCHANGED past \/ \E S : S \subseteq Mark /\ Marks(S)
      BY <1>4 DEF DeleteEmbedding, Mark
    <3>4. QED
      BY <3>1, <3>2, <3>3
  <2>3. QED
    BY <1>4, <2>1, <2>2, IdleTyped, TypedStays, TypeFrame DEF DeleteEmbedding
<1>5. CASE DeleteAllModelEmbeddings(m)
  <2>1. EmbeddingsTyped' /\ AfterClean(m) \in At
    BY <1>5 DEF DeleteAllModelEmbeddings, TypeInv, EmbeddingsTyped, AfterClean, At
  <2>2. QED
    BY <1>5, <2>1, GoesTyped, TypedStays, TypeFrame DEF DeleteAllModelEmbeddings
<1>6. CASE EmbedsFile(m)
  <2>1. PICK text \in manager[m].left :
          /\ AfterFile(m, text)
          /\ IF manager[m].saw.id \in DOMAIN rows
             THEN embeddings' = embeddings \cup {[model |-> manager[m].saw.id, key |-> 0, text |-> text]}
             ELSE UNCHANGED embeddings
    BY <1>6 DEF EmbedsFile
  <2>2. EmbeddingsTyped'
    <3>1. ASSUME manager[m].saw.id \in DOMAIN rows
          PROVE  [model |-> manager[m].saw.id, key |-> 0, text |-> text]
                   \in [model : Ids, key : 0 .. MaxSeconds, text : Docs]
      BY <1>1, <2>1, <3>1, BoundsAssumption DEF ManagerTyped
    <3>2. QED
      BY <2>1, <3>1 DEF TypeInv, EmbeddingsTyped
  <2>3. Alone(m) /\ ManagerTyped(m)'
    BY <2>1 DEF AfterFile, TypeInv, ManagersTyped, ManagerTyped, Alone, At
  <2>4. QED
    BY <1>6, <2>2, <2>3, TypedStays, TypeFrame DEF EmbedsFile
<1>7. QED
  BY <1>2, <1>3, <1>4, <1>5, <1>6

LEMMA TypeQuiet ==
  ASSUME TypeInv, NEW m \in Managers, UploadRefused(m) \/ DisableAllUserChannel(m) PROVE TypeInv'
<1>1. CASE UploadRefused(m)
  BY <1>1, IdleTyped, TypedStays, TypeFrame DEF UploadRefused
<1>2. CASE DisableAllUserChannel(m)
  <2>1. AfterRemoval(m) \in At
    BY DEF AfterRemoval, At
  <2>2. RestTyped'
    BY <1>2 DEF DisableAllUserChannel, TypeInv, RestTyped
  <2>3. QED
    BY <1>2, <2>1, <2>2, GoesTyped, TypedStays, TypeFrame DEF DisableAllUserChannel
<1>3. QED
  BY <1>1, <1>2

LEMMA TypeStep == StoreInv /\ TypeInv /\ [StoreNext]_storevars => TypeInv'
<1> SUFFICES ASSUME StoreInv, TypeInv, [StoreNext]_storevars PROVE TypeInv'
  OBVIOUS
<1>1. ASSUME NEW m \in Managers, Does(m) PROVE TypeInv'
  BY <1>1, TypeReadsModel, TypeReadsRecord, TypeCallsMistral, TypeMakesNoAgent, TypeTransactionBegins,
     TypeSaveCommits, TypeRemoveCommits, TypeSwitches, TypeReadsNext, TypeLibrary, TypeUpdateUserGPT,
     TypeEmbeddings, TypeQuiet DEF Does
<1>2. CASE SecondPasses
  <2>1. RestTyped'
    BY <1>2, BoundsAssumption DEF SecondPasses, TypeInv, RestTyped
  <2>2. ManagersTyped'
    BY <1>2 DEF SecondPasses, TypeInv, ManagersTyped, ManagerTyped
  <2>3. QED
    BY <1>2, <2>1, <2>2, TypedStays DEF SecondPasses, TypeInv
<1>3. CASE UNCHANGED storevars
  <2>1. ManagersTyped'
    BY <1>3 DEF storevars, TypeInv, ManagersTyped, ManagerTyped
  <2>2. QED
    BY <1>3, <2>1, TypedStays DEF storevars, TypeInv
<1>4. QED
  BY <1>1, <1>2, <1>3, TypeBegins, TypeFails, TypeRemoveUnpicked DEF StoreNext

LEMMA TypeInit == StoreInit => TypeInv
<1> SUFFICES ASSUME StoreInit PROVE TypeInv
  OBVIOUS
<1> USE BoundsAssumption DEF StoreInit
<1>1. RowsTyped /\ LastTyped /\ EmbeddingsTyped
  BY DEF RowsTyped, LastTyped, EmbeddingsTyped, Library
<1>2. RemoteTyped
  BY DEF RemoteTyped
<1>3. RestTyped
  BY SceneAssumption DEF RestTyped, Scene
<1>4. ManagersTyped
  <2>1. AnyJob \in Job
    BY DEF AnyJob, Job, Kind, Provider
  <2>2. NoData \in Data /\ NoRow \in SawType /\ [agent |-> None, ids |-> NoIds] \in [agent : Agent, ids : VecIds]
    BY DEF NoData, Data, NoRow, SawType, NoIds, VecIds, None, Agent, Library
  <2>3. "idle" \in At /\ None \in Library /\ DOMAIN <<>> = {} /\ 0 \in 0 .. MaxSeconds
    BY DEF At, None, Library
  <2>4. QED
    BY <2>1, <2>2, <2>3 DEF ManagersTyped, ManagerTyped, Idle
<1>5. QED
  BY <1>1, <1>2, <1>3, <1>4 DEF TypeInv

(***************************************************************************)
(* Every variable has its type, however calls overlap and fail.            *)
(***************************************************************************)
THEOREM StoreTypeCorrect == StoreSpec => []StoreTypeOK
<1>1. QED
  BY TypesSuffice, TypeInit, TypeStep, StoreInvInit, StoreInvStep, PTL DEF StoreSpec

--------------------------------------------------------------------------------
(***************************************************************************)
(* Calls in turn, one of whose steps may have failed. A deletion knows     *)
(* whether the model it removes is active; if it left none active it is on *)
(* its way to the second switch, and nothing is left to fail.              *)
(***************************************************************************)
Heads(m) == manager[m].at \in {"agent", "clean", "files", "remove", "unlink"}
Knows(m) ==
  LET saw == manager[m].saw IN
  Heads(m) /\ saw.id \in DOMAIN rows => (saw.active <=> rows[saw.id].active)
Bare == DOMAIN rows # {} /\ NoneActive
Mends(m) == Now(m, "next") \/ (Now(m, "switch") /\ Of(JobOf(m).p, rows) # {})
OneGoes == \A m, n \in Managers : Busy(m) /\ Busy(n) => m = n
Mending == Never({"crossed"}) /\ OneGoes /\ (Bare => \E m \in Managers : Mends(m)) /\ \A m \in Managers : Knows(m)
MendInv == Never({"overlapped"}) => Mending

LEMMA MendFrame ==
  ASSUME Mending, NEW m \in Managers, Busy(m) \/ Rest, Alone(m), Never({"crossed"})', Knows(m)', Bare' => Mends(m)'
  PROVE  Mending'
<1>1. \A n \in Managers \ {m} : ~Busy(n) /\ manager'[n] = manager[n]
  BY DEF Mending, OneGoes, Alone, Rest
<1>2. \A n \in Managers \ {m} : ~Busy(n)' /\ Knows(n)'
  BY <1>1 DEF Busy, Now, Knows, Heads
<1>3. OneGoes'
  BY <1>2 DEF OneGoes
<1>4. QED
  BY <1>2, <1>3 DEF Mending

\* Who is not about to switch knows that a model is active.
LEMMA NotBare ==
  ASSUME Mending, NEW m \in Managers, Busy(m) \/ Rest, ~Mends(m)
  PROVE  ~Bare
BY DEF Mending, OneGoes, Mends, Rest, Busy, Now

SameActive == DOMAIN rows' = DOMAIN rows /\ \A k \in DOMAIN rows : rows'[k].active = rows[k].active

LEMMA BareStays ==
  ASSUME SameActive
  PROVE  Bare' <=> Bare
BY DEF SameActive, Bare, NoneActive

\* No other transaction is open when one that is alone opens or switches.
LEMMA NoCrossing ==
  ASSUME Mending, NEW m \in Managers, Busy(m) \/ Rest, Marks(Crossing(m))
  PROVE  Never({"crossed"})'
<1>1. \A n \in Managers \ {m} : ~InTransaction(n)
  BY DEF Mending, OneGoes, Rest, Busy, Now, InTransaction
<1>2. QED
  BY <1>1 DEF Mending, Never, Marks, Crossing

LEMMA MendBegins ==
  ASSUME StoreInv, Mending, NEW m \in Managers, NEW job \in scene.jobs, Begins(m, job), Never({"overlapped"})'
  PROVE  Mending'
<1>1. Rest /\ Never({"crossed"})'
  BY DEF Begins, Marks, Never, Rest, Mending
<1>2. PICK sent : manager' = [manager EXCEPT ![m] = [Idle EXCEPT !.at = FirstStep[job.kind], !.job = job, !.sent = sent]]
  BY DEF Begins
<1>3. FirstStep[job.kind] \notin {"agent", "clean", "files", "remove", "unlink"}
  <2>1. job.kind \in Kind
    BY SceneAssumption DEF StoreInv, Shape, Scene, Job
  <2>2. QED
    BY <2>1 DEF FirstStep, Kind
<1>4. Alone(m) /\ ~Heads(m)'
  BY <1>2, <1>3 DEF StoreInv, Shape, ManagerShape, Alone, Idle, Heads
<1>5. ~Mends(m)
  BY <1>1 DEF Mends, Rest, Busy, Now
<1>6. SameActive
  BY DEF Begins, SameActive
<1>7. QED
  BY <1>1, <1>4, <1>5, <1>6, NotBare, BareStays, MendFrame DEF Knows

\* A step that changes neither which models there are nor which is active.
LEMMA MendPlain ==
  ASSUME Mending, NEW m \in Managers, Busy(m), ~Mends(m), SameActive, Alone(m), Never({"crossed"})',
         Heads(m)' => Heads(m) /\ manager'[m].saw = manager[m].saw
  PROVE  Mending'
<1>1. Knows(m)
  BY DEF Mending
<1>2. Knows(m)'
  BY <1>1 DEF Knows, SameActive
<1>3. QED
  BY <1>2, NotBare, BareStays, MendFrame

LEMMA MendFails ==
  ASSUME StoreInv, Lost, Mending, NEW m \in Managers, Fails(m)
  PROVE  Mending'
<1>1. Alone(m) /\ (manager'[m].saw = manager[m].saw \/ ~Heads(m)')
  <2>1. CASE GoesOr(m, OnError(m))
    <3>1. CASE Ends(m)
      BY <3>1, AtIdle DEF Heads, StoreInv, Shape
    <3>2. CASE ~Ends(m)
      BY <2>1, <3>2 DEF GoesOr, Goes, Alone, StoreInv, Shape, ManagerShape
    <3>3. QED
      BY <3>1, <3>2
  <2>2. ASSUME NEW text, AfterFile(m, text) PROVE Alone(m) /\ manager'[m].saw = manager[m].saw
    BY <2>2 DEF AfterFile, Alone, StoreInv, Shape, ManagerShape
  <2>3. QED
    BY <2>1, <2>2 DEF Fails
<1>2. Heads(m)' => Heads(m)
  <2>1. OnError(m) \in {"agent", "clean", "files", "remove", "unlink"} => Heads(m)
    BY DEF OnError, AfterCall, AfterAgent, AfterClean, Heads
  <2>2. CASE GoesOr(m, OnError(m))
    BY <2>1, <2>2, GoesTo DEF Heads, StoreInv, Shape
  <2>3. ASSUME NEW text, AfterFile(m, text) PROVE ~Heads(m)'
    BY <2>3 DEF AfterFile, Heads, StoreInv, Shape, ManagerShape
  <2>4. QED
    BY <2>2, <2>3 DEF Fails
<1>3. ~Bare
  BY DEF Fails, Lost, Mending, StoreInv, Unique, OnlyActive, Bare, NoneActive
<1>4. Never({"crossed"})' /\ SameActive /\ Busy(m)
  BY DEF Fails, Marks, Never, Mending, SameActive
<1>5. Knows(m)'
  BY <1>1, <1>2, <1>4 DEF Mending, Knows, SameActive
<1>6. QED
  BY <1>1, <1>3, <1>4, <1>5, BareStays, MendFrame

\* What a step does without a transaction, a switch or the reading of the record.
LEMMA MendQuiet ==
  ASSUME StoreInv, Mending, NEW m \in Managers,
         \/ ReadsModel(m) \/ MakesNoAgent(m) \/ UploadRefused(m) \/ DisableAllUserChannel(m) \/ FindsLibrary(m)
         \/ GeneratesEmbedding(m) \/ SaveEmbedding(m) \/ DeleteEmbedding(m) \/ EmbedsFile(m)
  PROVE  Mending'
<1>1. Busy(m) /\ ~Mends(m)
  BY DEF ReadsModel, MakesNoAgent, UploadRefused, DisableAllUserChannel, FindsLibrary,
     GeneratesEmbedding, SaveEmbedding, DeleteEmbedding, EmbedsFile, Busy, Mends, Now
<1>2. SameActive
  BY DEF ReadsModel, MakesNoAgent, UploadRefused, DisableAllUserChannel, FindsLibrary,
     GeneratesEmbedding, SaveEmbedding, DeleteEmbedding, EmbedsFile, SameActive
<1>3. Never({"crossed"})'
  BY DEF ReadsModel, MakesNoAgent, UploadRefused, DisableAllUserChannel, FindsLibrary,
     GeneratesEmbedding, SaveEmbedding, DeleteEmbedding, EmbedsFile, Mending, Never, Marks
<1>4. Alone(m) /\ ~Heads(m)'
  <2>1. AfterRemoval(m) \notin {"agent", "clean", "files", "remove", "unlink"}
    BY DEF AfterRemoval
  <2> USE DEF StoreInv, Shape
  <2>2. CASE ReadsModel(m) \/ MakesNoAgent(m) \/ UploadRefused(m)
    BY <2>2, AtIdle DEF ReadsModel, MakesNoAgent, UploadRefused, Alone, Heads, ManagerShape
  <2>3. CASE DisableAllUserChannel(m)
    BY <2>1, <2>3, GoesTo DEF DisableAllUserChannel, Heads
  <2>4. CASE FindsLibrary(m)
    BY <2>4, GoesTo DEF FindsLibrary, Alone, Heads, ManagerShape
  <2>5. CASE GeneratesEmbedding(m) \/ SaveEmbedding(m) \/ DeleteEmbedding(m)
    BY <2>5, AtIdle DEF GeneratesEmbedding, SaveEmbedding, DeleteEmbedding, Alone, Heads, ManagerShape
  <2>6. CASE EmbedsFile(m)
    <3>1. PICK text : AfterFile(m, text)
      BY <2>6 DEF EmbedsFile
    <3>2. Alone(m)
      BY <3>1 DEF AfterFile, Alone, ManagerShape
    <3>3. ~Heads(m)'
      BY <3>1 DEF AfterFile, Heads, ManagerShape
    <3>4. QED
      BY <3>2, <3>3
  <2>7. QED
    BY <2>2, <2>3, <2>4, <2>5, <2>6
<1>5. QED
  BY <1>1, <1>2, <1>3, <1>4, MendPlain

LEMMA MendRows ==
  ASSUME StoreInv, Mending, NEW m \in Managers,
         CallsMistral(m) \/ ReadsRow(m) \/ UpdateUserGPT(m) \/ DeleteAllModelEmbeddings(m) \/ SyncProviderModels(m)
  PROVE  Mending'
<1> USE DEF StoreInv, Shape
<1>1. Busy(m) /\ ~Mends(m)
  BY DEF CallsMistral, CanCall, Calls, ReadsRow, UpdateUserGPT, DeleteAllModelEmbeddings, SyncProviderModels, Busy,
     Mends, Now
<1>2. SameActive
  BY DEF CallsMistral, ReadsRow, UpdateUserGPT, DeleteAllModelEmbeddings, SyncProviderModels, SameActive, RowShape
<1>3. Never({"crossed"})'
  BY DEF CallsMistral, ReadsRow, UpdateUserGPT, DeleteAllModelEmbeddings, SyncProviderModels, Mending, Never, Marks
<1>4. Alone(m) /\ (Heads(m)' => Heads(m) /\ manager'[m].saw = manager[m].saw)
  <2>1. CASE CallsMistral(m)
    <3>1. AfterCall(m) \in {"agent", "clean", "files", "remove", "unlink"} => Heads(m)
      BY DEF AfterCall, AfterAgent, Heads
    <3>2. CASE Now(m, "make") \/ Now(m, "makelib")
      BY <2>1, <3>2 DEF CallsMistral, Now, Alone, Heads, ManagerShape
    <3>3. CASE GoesOr(m, AfterCall(m))
      BY <3>1, <3>3, AtIdle DEF GoesOr, Goes, Alone, Heads, ManagerShape
    <3>4. QED
      BY <2>1, <3>2, <3>3 DEF CallsMistral
  <2>2. CASE ReadsRow(m)
    <3>1. AfterRow(m, RecordOf("mistral")) \notin {"agent", "clean", "files", "remove", "unlink"}
      BY DEF AfterRow
    <3>2. QED
      BY <2>2, <3>1, AtIdle DEF ReadsRow, Alone, Heads, ManagerShape
  <2>3. CASE UpdateUserGPT(m)
    <3>1. AfterWrite(m) \notin {"agent", "clean", "files", "remove", "unlink"}
      BY DEF AfterWrite
    <3>2. QED
      BY <2>3, <3>1, GoesTo DEF UpdateUserGPT, Heads
  <2>4. CASE DeleteAllModelEmbeddings(m)
    BY <2>4 DEF DeleteAllModelEmbeddings, Goes, Now, Alone, Heads, ManagerShape
  <2>5. CASE SyncProviderModels(m)
    BY <2>5, AtIdle DEF SyncProviderModels, Heads
  <2>6. QED
    BY <2>1, <2>2, <2>3, <2>4, <2>5
<1>5. QED
  BY <1>1, <1>2, <1>3, <1>4, MendPlain

LEMMA MendReadsRecord ==
  ASSUME StoreInv, Mending, NEW m \in Managers, ReadsRecord(m) PROVE Mending'
<1>1. Busy(m) /\ ~Mends(m)
  BY DEF ReadsRecord, Busy, Mends, Now
<1>2. SameActive /\ rows' = rows
  BY DEF ReadsRecord, SameActive
<1>3. Never({"crossed"})'
  BY DEF ReadsRecord, Mending, Never, Marks
<1>4. Alone(m) /\ Knows(m)'
  <2> DEFINE saw == RecordOf(JobOf(m).p)
  <2>1. CASE Ends(m)
    BY <2>1, AtIdle DEF StoreInv, Shape, Knows, Heads
  <2>2. CASE ~Ends(m)
    <3>1. saw # NoRow /\ Alone(m) /\ manager'[m].saw = saw
      BY <2>2 DEF ReadsRecord, StoreInv, Shape, ManagerShape, Alone
    <3>2. saw = Seen(FirstOf(Of(JobOf(m).p, rows)))
      BY <3>1 DEF RecordOf
    <3>3. saw.active = rows[saw.id].active
      BY <3>2 DEF Seen
    <3>4. QED
      BY <1>2, <3>1, <3>3 DEF Knows
  <2>3. QED
    BY <2>1, <2>2
<1>5. QED
  BY <1>1, <1>2, <1>3, <1>4, NotBare, BareStays, MendFrame

LEMMA MendOpens ==
  ASSUME StoreInv, Mending, NEW m \in Managers, SaveBegins(m) \/ RemoveBegins(m) PROVE Mending'
<1>1. Busy(m) /\ ~Mends(m) /\ SameActive
  BY DEF SaveBegins, RemoveBegins, Busy, Mends, Now, SameActive
<1>2. Never({"crossed"})'
  BY <1>1, NoCrossing DEF SaveBegins, RemoveBegins
<1>3. Alone(m) /\ (Heads(m)' => Heads(m) /\ manager'[m].saw = manager[m].saw)
  BY AtIdle DEF SaveBegins, RemoveBegins, Now, Alone, Heads, StoreInv, Shape, ManagerShape
<1>4. QED
  BY <1>1, <1>2, <1>3, MendPlain

LEMMA MendSaves ==
  ASSUME StoreInv, Mending, NEW m \in Managers, SaveCommits(m) PROVE Mending'
<1>1. Busy(m) /\ ~Mends(m) /\ InTransaction(m)
  BY DEF SaveCommits, Busy, Mends, Now, InTransaction
<1>2. Alone(m) /\ ~Heads(m)'
  BY AtIdle DEF SaveCommits, StoreInv, Shape, Heads
<1>3. Never({"crossed"})'
  BY DEF SaveCommits, Inserts, Updates, Mending, Never, Marks
<1>4. ~Bare
  BY <1>1, NotBare
<1>5. ~Bare'
  <2>1. CASE Updates(m)
    <3>1. SameActive
      BY <2>1 DEF Updates, SameActive, StoreInv, Shape, RowShape
    <3>2. QED
      BY <1>4, <3>1, BareStays
  <2>2. CASE Inserts(m)
    <3>1. DOMAIN manager[m].snap = DOMAIN rows
      BY <1>1, Committing DEF Mending, Agrees
    <3>2. last.row + 1 \notin DOMAIN rows
      BY DEF StoreInv, Shape, RowShape
    <3>3. /\ DOMAIN rows' = DOMAIN rows \cup {last.row + 1} /\ \A k \in DOMAIN rows : rows'[k] = rows[k]
          /\ rows'[last.row + 1].active = (DOMAIN rows = {})
      BY <2>2, <3>1, <3>2 DEF Inserts, With
    <3>4. QED
      BY <1>4, <3>3 DEF Bare, NoneActive
  <2>3. QED
    BY <2>1, <2>2 DEF SaveCommits
<1>6. QED
  BY <1>1, <1>2, <1>3, <1>5, MendFrame DEF Knows

LEMMA MendRemoves ==
  ASSUME StoreInv, Mending, NEW m \in Managers, RemoveCommits(m) PROVE Mending'
<1> DEFINE id == manager[m].saw.id
           others == DOMAIN manager[m].snap \ {id}
           remaining == Without(rows, id)
<1>1. Busy(m) /\ ~Mends(m) /\ InTransaction(m) /\ id \in DOMAIN rows
  BY DEF RemoveCommits, Busy, Mends, Now, InTransaction, Mending, StoreInv, RemovesRow
<1>2. Alone(m) /\ ~Heads(m)'
  <2>1. AfterUnlink(m) \notin {"agent", "clean", "files", "remove", "unlink"}
    BY DEF AfterUnlink, AfterRemoval
  <2>2. QED
    BY <2>1, GoesTo DEF RemoveCommits, StoreInv, Shape, Heads
<1>3. Never({"crossed"})'
  BY DEF RemoveCommits, Mending, Never
<1>4. ~Bare
  BY <1>1, NotBare
<1>5. others = DOMAIN rows \ {id} /\ manager[m].snap[id].active = rows[id].active
  BY <1>1, Committing DEF Mending, Agrees
<1>6. DOMAIN remaining = DOMAIN rows \ {id} /\ \A k \in DOMAIN remaining : remaining[k] = rows[k]
  BY DEF Without, Restrict
<1>7. ~Bare'
  <2>1. CASE rows[id].active /\ others # {}
    <3>1. PICK next \in others : rows' = [k \in DOMAIN remaining |->
                                           IF k = next THEN [remaining[k] EXCEPT !.active = TRUE] ELSE remaining[k]]
      BY <1>5, <2>1 DEF RemoveCommits
    <3>2. next \in DOMAIN rows' /\ rows'[next].active
      BY <1>5, <1>6, <3>1 DEF StoreInv, Shape, RowShape
    <3>3. QED
      BY <3>2 DEF Bare, NoneActive
  <2>2. CASE ~(rows[id].active /\ others # {})
    <3>1. DOMAIN rows' = DOMAIN rows \ {id} /\ \A k \in DOMAIN rows' : rows'[k] = rows[k]
      BY <1>5, <1>6, <2>2 DEF RemoveCommits
    <3>2. QED
      BY <1>1, <1>4, <1>5, <2>2, <3>1 DEF Bare, NoneActive
  <2>3. QED
    BY <2>1, <2>2
<1>8. QED
  BY <1>1, <1>2, <1>3, <1>7, MendFrame DEF Knows

LEMMA MendUnpicked ==
  ASSUME StoreInv, Mending, NEW m \in Managers, RemoveUnpicked(m) PROVE Mending'
<1> DEFINE id == manager[m].saw.id
<1>1. Busy(m) /\ Heads(m) /\ InTransaction(m) /\ id \in DOMAIN rows
  BY DEF RemoveUnpicked, Busy, Heads, Now, InTransaction, Mending, StoreInv, RemovesRow
<1>2. manager[m].snap[id].active = rows[id].active
  BY <1>1, Committing DEF Mending, Agrees
<1>3. AfterRemoval(m) = "next"
  BY <1>1, <1>2 DEF Mending, Knows, RemoveUnpicked, AfterRemoval
<1>4. Alone(m) /\ manager'[m].at = "next"
  BY <1>3 DEF RemoveUnpicked, GoesOr, Goes, StoreInv, Shape, ManagerShape, Alone
<1>5. Never({"crossed"})'
  BY DEF RemoveUnpicked, Marks, Mending, Never
<1>6. QED
  BY <1>1, <1>4, <1>5, MendFrame DEF Knows, Heads, Mends, Now

LEMMA MendSwitches ==
  ASSUME StoreInv, TypeInv, Mending, NEW m \in Managers, ReadsNext(m) \/ SetActiveModelByProvider(m)
  PROVE  Mending'
<1> USE DEF StoreInv, Shape
<1>1. Busy(m)
  BY DEF ReadsNext, SetActiveModelByProvider, Busy, Now
<1>2. CASE ReadsNext(m)
  <2>1. Alone(m) /\ ~Heads(m)'
    BY <1>2, AtIdle DEF ReadsNext, Alone, Heads, ManagerShape
  <2>2. Never({"crossed"})' /\ rows' = rows
    BY <1>2 DEF ReadsNext, Mending, Never
  <2>3. ASSUME Bare' PROVE Mends(m)'
    <3>1. DOMAIN rows # {}
      BY <2>2, <2>3 DEF Bare
    <3>2. FirstOf(DOMAIN rows) \in DOMAIN rows
      BY <3>1, FirstIsOne
    <3>3. rows # <<>>
      BY <3>1
    <3>4. manager'[m].at = "switch" /\ manager'[m].job.p = rows[FirstOf(DOMAIN rows)].provider
      BY <1>2, <3>3 DEF ReadsNext, ManagerShape, TypeInv, ManagersTyped, ManagerTyped, Job
    <3>5. QED
      BY <2>2, <3>2, <3>4 DEF Mends, Now, JobOf, Of
  <2>4. QED
    BY <1>1, <2>1, <2>2, <2>3, MendFrame DEF Knows
<1>3. CASE SetActiveModelByProvider(m)
  <2>1. Alone(m) /\ ~Heads(m)'
    BY <1>3, AtIdle DEF SetActiveModelByProvider, Heads
  <2>2. Never({"crossed"})'
    BY <1>1, <1>3, NoCrossing DEF SetActiveModelByProvider
  <2>3. CASE Of(JobOf(m).p, rows) = {}
    <3>1. ~Mends(m) /\ SameActive
      BY <1>3, <2>3 DEF SetActiveModelByProvider, Mends, Now, SameActive
    <3>2. QED
      BY <1>1, <2>1, <2>2, <3>1, NotBare, BareStays, MendFrame DEF Knows
  <2>4. ASSUME NEW i \in Of(JobOf(m).p, rows), rows' = Switched(i) PROVE Mending'
    <3>1. i \in DOMAIN rows' /\ rows'[i].active
      BY <2>4 DEF Of, Switched, RowShape
    <3>2. ~Bare'
      BY <3>1 DEF Bare, NoneActive
    <3>3. QED
      BY <1>1, <2>1, <2>2, <3>2, MendFrame DEF Knows
  <2>5. QED
    BY <1>3, <2>3, <2>4 DEF SetActiveModelByProvider
<1>4. QED
  BY <1>2, <1>3

LEMMA MendInit == StoreInit => MendInv
BY DEF StoreInit, MendInv, Mending, Never, OneGoes, Bare, Knows, Busy, Now, Idle

LEMMA MendStep == StoreInv /\ TypeInv /\ Lost /\ MendInv /\ [StoreNext]_storevars => MendInv'
<1> SUFFICES ASSUME StoreInv, TypeInv, Lost, MendInv, [StoreNext]_storevars, Never({"overlapped"})' PROVE Mending'
  BY DEF MendInv
<1>1. Mending
  BY MarksStay DEF MendInv, Never
<1>2. ASSUME NEW m \in Managers, Does(m) PROVE Mending'
  BY <1>1, <1>2, MendQuiet, MendRows, MendReadsRecord, MendOpens, MendSaves, MendRemoves, MendSwitches DEF Does
<1>3. CASE SecondPasses \/ UNCHANGED storevars
  <2>1. UNCHANGED <<rows, manager, past>>
    BY <1>3 DEF SecondPasses, storevars
  <2>2. QED
    BY <1>1, <2>1 DEF Mending, Never, OneGoes, Bare, NoneActive, Mends, Knows, Heads, Busy, Now, JobOf, Of
<1>4. QED
  BY <1>1, <1>2, <1>3, MendBegins, MendFails, MendUnpicked DEF StoreNext

(***************************************************************************)
(* Exactly one model of a user with models is active, through every create,*)
(* update, delete, switch, failure and overlap of the calls, as long as no *)
(* two transactions on the rows of the user are open at once and no        *)
(* deletion lost the SELECT of its successor; after one that did there is  *)
(* none or one, and one again when a call made in turn has ended.          *)
(***************************************************************************)
THEOREM OneActiveHolds == StoreSpec => []OneActive
<1>1. StoreInv /\ MendInv => OneActive
  <2> SUFFICES ASSUME StoreInv, MendInv PROVE OneActive
    OBVIOUS
  <2>1. Never({"crossed"}) => SoleActive
    BY DEF StoreInv, Unique, OnlyActive, NoneActive, SoleActive, Active
  <2>2. ASSUME Never({"crossed", "unpicked"}) \/ (Rest /\ Never({"overlapped"})), DOMAIN rows # {}
        PROVE  \E i \in DOMAIN rows : Active = {i}
    <3>1. Never({"crossed"}) /\ ("unpicked" \notin past \/ ~NoneActive)
      BY <2>2 DEF Never, MendInv, Mending, Bare, Mends, Rest, Busy, Now
    <3>2. PICK i \in DOMAIN rows : OnlyActive(i)
      BY <2>2, <3>1 DEF StoreInv, Unique
    <3>3. Active = {i}
      BY <3>2 DEF OnlyActive, Active
    <3>4. QED
      BY <3>3
  <2>3. QED
    BY <2>1, <2>2 DEF OneActive
<1>2. QED
  BY <1>1, StoreInvInit, StoreInvStep, TypeInit, TypeStep, LostInit, LostStep, MendInit, MendStep, PTL
     DEF StoreSpec

(***************************************************************************)
(* For any goroutines, calls and faults: a user is served by one model, or *)
(* has none and his channels are off, with the exceptions the two halves   *)
(* name.                                                                   *)
(***************************************************************************)
THEOREM OneIsActiveOrOff == StoreSpec => []OneActiveOrOff
  BY OneActiveHolds, ChannelsGoOff, PTL DEF OneActiveOrOff

--------------------------------------------------------------------------------
(***************************************************************************)
(* The library. A manager in the middle of a call has changed the library  *)
(* and not yet the row: Truth is what the row will say when it has.        *)
(***************************************************************************)
FilesInTurn == InTurn /\ Never({"fell", "stored", "replaced"})
Mistral == Of("mistral", rows)
Holds(ids) ==
  IF ids.library = None THEN ids.files = {}
  ELSE ids.library \in DOMAIN libraries /\ libraries[ids.library] = ids.files
Truth(m, ids) ==
  LET at == manager[m].at IN
  CASE at \in {"keep", "keeping"} -> [ids EXCEPT !.library = manager[m].library]
    [] at \in {"listing", "list"} -> [ids EXCEPT !.files = @ \cup JobOf(m).docs]
    [] at \in {"unlisting", "unlist"} -> [ids EXCEPT !.files = @ \ JobOf(m).docs]
    [] at \in {"clearing", "clear"} \/ (at \in {"remove", "unlink"} /\ JobOf(m).p = "mistral") -> NoIds
    [] OTHER -> ids
Extra(m) == IF manager[m].at \in {"keep", "undo"} THEN {manager[m].library} ELSE {}

Held == \A i \in Mistral : Holds(rows[i].ids)
Kept == Never({"kept"}) => DOMAIN libraries \subseteq {rows[i].ids.library : i \in Mistral}
Matched(m) ==
  /\ \A i \in Mistral : Holds(Truth(m, rows[i].ids))
  /\ Never({"kept"}) => DOMAIN libraries \subseteq {Truth(m, rows[i].ids).library : i \in Mistral} \cup Extra(m)

\* What a manager knows of the library it handles.
Handles(m) ==
  LET me == manager[m] IN
  /\ me.at \in {"library", "drop", "unlisting"} => \E d \in Docs : me.job.docs = {d}
  /\ me.at = "makelib" => \A i \in Mistral : rows[i].ids.library = None
  /\ me.at \in {"keep", "keeping"} => me.library # None /\ \A i \in Mistral : rows[i].ids.library = None
  /\ me.at \in {"upload", "listing", "list", "drop", "unlisting", "unlist", "emptied"} =>
        me.library # None /\ \E i \in Mistral : rows[i].ids.library = me.library
  /\ me.at = "emptied" => \A i \in Mistral : rows[i].ids.files = {}
  /\ me.at = "undo" => Mistral = {}
  /\ me.at = "files" => me.job.p = "mistral"

\* What it is about to save is what the row says.
Alike(x, y) == x.files = y.files /\ x.library = y.library
Brings(m) ==
  LET me == manager[m]
      kind == JobOf(m).kind IN
  JobOf(m).p = "mistral" =>
    /\ me.at = "read" => \A i \in Mistral : Alike(me.sent, Decompress(rows[i]))
    /\ me.at = "record" /\ kind \in {"update", "store"} =>
          \A i \in Mistral : Alike(me.sent, rows[i].ids) /\ Alike(me.read, rows[i].ids)
    /\ me.at \in {"agent", "make"} /\ kind = "update" => Alike(me.sent, me.saw.ids)
    /\ me.at = "make" /\ kind = "create" => Alike(me.sent, NoIds)
    /\ me.at \in {"save", "commit"} =>
          IF kind = "create" THEN Alike(me.umcr.ids, NoIds) ELSE Alike(me.umcr.ids, me.saw.ids)

LibraryDue ==
  /\ Rest => Held /\ Kept
  /\ \A m \in Managers : Busy(m) => Matched(m) /\ Handles(m) /\ Brings(m)
LibraryInv == FilesInTurn => LibraryDue

LEMMA LibraryFrame ==
  ASSUME Turns, NEW m \in Managers, Busy(m) \/ Rest, Alone(m), Matched(m)', Handles(m)', Brings(m)'
  PROVE  LibraryDue'
<1>1. \A n \in Managers \ {m} : ~Busy(n)'
  BY DEF Turns, OneBusy, Alone, Busy, Now, Rest
<1>2. ASSUME Rest' PROVE (Held /\ Kept)'
  <2>1. manager'[m].at = "idle"
    BY <1>2 DEF Rest, Busy, Now
  <2>2. (\A ids : Truth(m, ids) = ids)' /\ Extra(m)' = {}
    BY <2>1 DEF Truth, Extra
  <2>3. QED
    BY <2>2 DEF Matched, Held, Kept
<1>3. QED
  BY <1>1, <1>2 DEF LibraryDue

\* A manager whose library and row agree.
Level(m) ==
  /\ manager[m].at \notin {"keep", "keeping", "undo", "listing", "list", "unlisting", "unlist", "clearing", "clear"}
  /\ manager[m].at \in {"remove", "unlink"} => JobOf(m).p # "mistral"
SameIds == Mistral' = Mistral /\ \A i \in Mistral : rows'[i].ids = rows[i].ids

LEMMA LevelTruth ==
  ASSUME NEW m \in Managers, Level(m)
  PROVE  Matched(m) <=> Held /\ Kept
<1>1. (\A ids : Truth(m, ids) = ids) /\ Extra(m) = {}
  BY DEF Level, Truth, Extra
<1>2. QED
  BY <1>1 DEF Matched, Held, Kept

LEMMA LibraryBefore ==
  ASSUME LibraryDue, NEW m \in Managers, Busy(m) \/ Rest
  PROVE  Matched(m) /\ Handles(m) /\ Brings(m)
<1>1. CASE Busy(m)
  BY <1>1 DEF LibraryDue
<1>2. CASE ~Busy(m)
  <2>1. manager[m].at = "idle" /\ Level(m)
    BY <1>2 DEF Busy, Now, Level
  <2>2. Handles(m) /\ Brings(m)
    BY <2>1 DEF Handles, Brings
  <2>3. QED
    BY <1>2, <2>1, <2>2, LevelTruth DEF LibraryDue
<1>3. QED
  BY <1>1, <1>2

LEMMA LevelStep ==
  ASSUME Turns, LibraryDue, NEW m \in Managers, Busy(m) \/ Rest, Alone(m), Level(m), Level(m)', SameIds,
         UNCHANGED libraries, past \subseteq past', Handles(m)', Brings(m)'
  PROVE  LibraryDue'
<1>1. Held /\ Kept
  BY LibraryBefore, LevelTruth
<1>2. (Held /\ Kept)'
  BY <1>1 DEF Held, Kept, SameIds, Holds, Never
<1>3. Matched(m)'
  BY <1>2, LevelTruth DEF Level, Matched, Held, Kept, Truth, Extra
<1>4. QED
  BY <1>3, LibraryFrame

\* Steps after which a manager knows nothing of a library.
Unaware == {"idle", "channels", "next", "switch", "sync", "clean", "fetch", "embed", "embedding", "forget"}
LEMMA UnawareStep ==
  ASSUME Turns, LibraryDue, NEW m \in Managers, Busy(m) \/ Rest, Alone(m), Level(m), SameIds,
         UNCHANGED libraries, past \subseteq past', manager'[m].at \in Unaware
  PROVE  LibraryDue'
<1>1. Level(m)' /\ Handles(m)' /\ Brings(m)'
  BY DEF Unaware, Level, Handles, Brings
<1>2. QED
  BY <1>1, LevelStep

LEMMA IdsStay ==
  ASSUME UNCHANGED rows
  PROVE  SameIds
BY DEF SameIds, Mistral

LEMMA MistralRow ==
  ASSUME Turns, NEW m \in Managers, Current(m, "mistral")
  PROVE  Mistral = {manager[m].saw.id} /\ rows[manager[m].saw.id].ids = manager[m].saw.ids
BY NamedOne DEF Current, Mistral

LEMMA MistralRecord ==
  ASSUME StoreInv, Turns
  PROVE  LET saw == RecordOf("mistral") IN
         /\ saw = NoRow => Mistral = {}
         /\ saw # NoRow => Mistral = {saw.id} /\ rows[saw.id].ids = saw.ids
<1> DEFINE saw == RecordOf("mistral")
<1>1. saw = NoRow => Mistral = {}
  BY NoModel DEF Mistral
<1>2. saw # NoRow => Mistral = {saw.id} /\ rows[saw.id].ids = saw.ids
  BY RecordIsModel DEF Mistral
<1>3. QED
  BY <1>1, <1>2

LEMMA LibraryBegins ==
  ASSUME StoreInv, TypeInv, Turns, LibraryDue, Rest, NEW m \in Managers, NEW job \in scene.jobs, Begins(m, job)
  PROVE  LibraryDue'
<1>1. PICK sent \in Sent(job) :
         manager' = [manager EXCEPT ![m] = [Idle EXCEPT !.at = FirstStep[job.kind], !.job = job, !.sent = sent]]
  BY DEF Begins
<1>2. job.kind \in Kind
  BY SceneAssumption DEF StoreInv, Shape, Scene, Job
<1>3. /\ Alone(m) /\ manager'[m].at = FirstStep[job.kind] /\ manager'[m].job = job /\ manager'[m].sent = sent
      /\ UNCHANGED <<rows, libraries>> /\ past \subseteq past' /\ manager[m].at = "idle"
  BY <1>1 DEF Begins, StoreInv, Shape, ManagerShape, Alone, Idle, remote, Marks, Now
<1>4. /\ FirstStep[job.kind] \in {"make", "read", "record", "switch", "library", "sync"}
      /\ FirstStep[job.kind] = "make" => job.kind = "create"
      /\ FirstStep[job.kind] = "record" => job.kind \in {"delete", "embed", "forget"}
      /\ FirstStep[job.kind] = "library" => job.kind \in {"upload", "drop"}
  BY <1>2 DEF FirstStep, Kind
<1>5. Level(m) /\ Level(m)'
  BY <1>3, <1>4 DEF Level
<1>6. Handles(m)'
  <2>1. job.kind \in {"upload", "drop"} => \E d \in Docs : job.docs = {d}
    BY DocumentAssumption DEF TypeInv, RestTyped
  <2>2. QED
    BY <1>3, <1>4, <2>1 DEF Handles
<1>7. Brings(m)'
  <2>1. ASSUME job.p = "mistral", job.kind = "create" PROVE Alike(sent, NoIds)
    BY <1>1, <2>1 DEF Sent, NoData, NoIds, Alike
  <2>2. ASSUME job.p = "mistral", job.kind # "create", NEW i \in Mistral PROVE Alike(sent, Decompress(rows[i]))
    <3>1. Of("mistral", rows) = {i} /\ i \in DOMAIN rows
      BY <2>2 DEF Mistral, Of, Turns, Single
    <3>2. FirstOf({i}) = i
      BY <3>1, FirstIsOne
    <3>3. sent = Decompress(rows[i])
      BY <1>1, <2>2, <3>1, <3>2 DEF Sent
    <3>4. QED
      BY <3>3 DEF Alike
  <2>3. ASSUME job.p = "mistral", FirstStep[job.kind] = "read" PROVE job.kind # "create"
    BY <2>3 DEF FirstStep, Kind
  <2>4. Mistral' = Mistral /\ \A i \in Mistral : (Decompress(rows[i]))' = Decompress(rows[i])
    BY <1>3 DEF Mistral, Decompress
  <2>5. QED
    BY <1>3, <1>4, <2>1, <2>2, <2>3, <2>4 DEF Brings, JobOf
<1>8. QED
  BY <1>3, <1>5, <1>6, <1>7, LevelStep, IdsStay

LEMMA LibraryReadsModel ==
  ASSUME StoreInv, TypeInv, Turns, LibraryDue, FilesInTurn', NEW m \in Managers, ReadsModel(m)
  PROVE  LibraryDue'
<1>1. /\ Busy(m) /\ Now(m, "read") /\ Level(m) /\ UNCHANGED <<rows, libraries>> /\ past \subseteq past'
  BY DEF ReadsModel, Busy, Now, Level, remote, Marks
<1>2. CASE Ends(m)
  BY <1>1, <1>2, IdleFields, UnawareStep, IdsStay DEF Unaware
<1>3. CASE ~Ends(m)
  <2>1. PICK i \in Of(JobOf(m).p, rows) :
          /\ manager' = [manager EXCEPT ![m].at = "record", ![m].read = Decompress(rows[i])]
          /\ Marks(IF Falls(rows[i]) THEN {"fell"} ELSE {})
    BY <1>3 DEF ReadsModel
  <2>2. /\ Alone(m) /\ manager'[m].at = "record" /\ manager'[m].job = manager[m].job
        /\ manager'[m].sent = manager[m].sent /\ manager'[m].read = Decompress(rows[i])
    BY <2>1 DEF TypeInv, ManagersTyped, ManagerTyped, Alone
  <2>3. ASSUME JobOf(m).p = "mistral", NEW j \in Mistral
        PROVE  Alike(manager[m].sent, rows[j].ids) /\ Alike(Decompress(rows[i]), rows[j].ids)
    <3>1. j = i /\ rows[i].provider = "mistral"
      BY <2>3 DEF Mistral, Of, Turns, Single
    <3>2. ~Falls(rows[i])
      BY <2>1 DEF FilesInTurn, Never, Marks
    <3>3. Alike(Decompress(rows[i]), rows[i].ids)
      BY <3>1, <3>2 DEF Falls, Alike
    <3>4. Alike(manager[m].sent, Decompress(rows[i]))
      BY <1>1, <2>3, <3>1, LibraryBefore DEF Brings, Now
    <3>5. QED
      BY <3>1, <3>3, <3>4 DEF Alike
  <2>4. Brings(m)'
    <3>1. Mistral' = Mistral
      BY <1>1 DEF Mistral
    <3>2. QED
      BY <1>1, <2>2, <2>3, <3>1 DEF Brings, JobOf
  <2>5. Level(m)' /\ Handles(m)'
    BY <2>2 DEF Level, Handles
  <2>6. QED
    BY <1>1, <2>2, <2>4, <2>5, LevelStep, IdsStay
<1>4. QED
  BY <1>2, <1>3

LEMMA LibraryReadsRecord ==
  ASSUME StoreInv, TypeInv, Turns, LibraryDue, FilesInTurn', NEW m \in Managers, ReadsRecord(m)
  PROVE  LibraryDue'
<1> DEFINE saw == RecordOf(JobOf(m).p)
<1>1. /\ Busy(m) /\ Now(m, "record") /\ Level(m) /\ UNCHANGED <<rows, libraries>> /\ past \subseteq past' /\ Told(m)
  BY DEF ReadsRecord, Busy, Now, Level, remote, Marks, Turns
<1>2. CASE Ends(m)
  BY <1>1, <1>2, IdleFields, UnawareStep, IdsStay DEF Unaware
<1>3. CASE ~Ends(m)
  <2>1. /\ saw # NoRow
        /\ manager' = [manager EXCEPT ![m].at = AfterRecord(m), ![m].saw = saw, ![m].sent = Updated(m),
                          ![m].left = IF FilesChanged(m) THEN manager[m].sent.files ELSE {},
                          ![m].umcr = [agent |-> saw.agent, ids |-> KeptIds(m, saw)]]
    BY <1>3 DEF ReadsRecord
  <2>2. /\ Alone(m) /\ manager'[m].at = AfterRecord(m) /\ manager'[m].job = manager[m].job
        /\ manager'[m].sent = Updated(m) /\ manager'[m].saw = saw /\ manager'[m].umcr.ids = KeptIds(m, saw)
    BY <2>1 DEF TypeInv, ManagersTyped, ManagerTyped, Alone
  <2>3. JobOf(m).kind \in {"update", "store", "delete", "embed", "forget"}
    BY <1>1 DEF Told, Course, Now
  <2>4. CASE JobOf(m).p # "mistral"
    <3>1. AfterRecord(m) \in {"embed", "forget", "clean", "remove", "fetch", "save"}
      BY <2>3, <2>4 DEF AfterRecord, GoogleStep
    <3>2. Level(m)' /\ Handles(m)' /\ Brings(m)'
      BY <2>2, <2>4, <3>1 DEF Level, Handles, Brings, JobOf
    <3>3. QED
      BY <1>1, <2>2, <3>2, LevelStep, IdsStay
  <2>5. CASE JobOf(m).p = "mistral"
    <3>1. Mistral = {saw.id} /\ rows[saw.id].ids = saw.ids
      BY <2>1, <2>5, MistralRecord
    <3>2. /\ AfterRecord(m) \in {"agent", "save", "embed", "forget"}
          /\ AfterRecord(m) = "save" => JobOf(m).kind = "store"
      BY <2>3, <2>5 DEF AfterRecord
    <3>3. ASSUME JobOf(m).kind \in {"update", "store"}
          PROVE  Alike(manager[m].sent, saw.ids) /\ Alike(manager[m].read, saw.ids)
      <4>1. Brings(m)
        BY <1>1, LibraryBefore
      <4>2. QED
        BY <1>1, <2>5, <3>1, <3>3, <4>1 DEF Brings, Now
    <3>4. ASSUME JobOf(m).kind = "update" PROVE Alike(Updated(m), saw.ids)
      <4>1. Updated(m) = [manager[m].sent EXCEPT !.library = manager[m].read.library]
        BY <2>5, <3>3, <3>4 DEF Updated, Unchanged, Alike
      <4>2. manager[m].sent \in Data
        BY DEF TypeInv, ManagersTyped, ManagerTyped
      <4>3. QED
        BY <3>3, <3>4, <4>1, <4>2 DEF Data, Alike
    <3>5. ASSUME JobOf(m).kind = "store" PROVE Alike(KeptIds(m, saw), saw.ids)
      <4>1. manager[m].sent.files = {}
        BY <2>5, <3>5 DEF ReadsRecord, FilesInTurn, Never, Marks
      <4>2. KeptIds(m, saw) = [NoIds EXCEPT !.library = manager[m].sent.library]
        BY <3>5 DEF KeptIds
      <4>3. QED
        BY <3>3, <3>5, <4>1, <4>2 DEF NoIds, Alike
    <3>6. Level(m)' /\ Handles(m)'
      BY <2>2, <3>2 DEF Level, Handles
    <3>7. Brings(m)'
      BY <2>2, <2>3, <3>2, <3>4, <3>5 DEF Brings, JobOf
    <3>8. QED
      BY <1>1, <2>2, <3>6, <3>7, LevelStep, IdsStay
  <2>6. QED
    BY <2>4, <2>5
<1>4. QED
  BY <1>2, <1>3

\* Requests at Mistral, one by one.
LEMMA LibraryAgents ==
  ASSUME StoreInv, TypeInv, Turns, LibraryDue, NEW m \in Managers, CallsMistral(m), Now(m, "make") \/ Now(m, "agent")
  PROVE  LibraryDue'
<1>1. /\ Busy(m) /\ Told(m) /\ Level(m) /\ UNCHANGED <<rows, libraries>> /\ past \subseteq past'
  BY DEF CallsMistral, Carries, MakesAgent, Busy, Now, Level, Marks, Turns
<1>2. Brings(m) /\ Held /\ Kept
  BY <1>1, LibraryBefore, LevelTruth
<1>3. CASE Now(m, "make")
  <2> DEFINE umcr == [agent |-> last.agent + 1, ids |-> Column(manager[m].sent)]
  <2>1. manager' = [manager EXCEPT ![m].at = "save", ![m].umcr = umcr] /\ JobOf(m).p = "mistral"
    BY <1>3 DEF CallsMistral, CanCall
  <2>2. /\ Alone(m) /\ manager'[m].at = "save" /\ manager'[m].job = manager[m].job
        /\ manager'[m].saw = manager[m].saw /\ manager'[m].umcr = umcr
    <3> HIDE DEF umcr
    <3> QED
      BY <2>1 DEF TypeInv, ManagersTyped, ManagerTyped, Alone
  <2>3. Alike(umcr.ids, manager[m].sent)
    BY DEF Alike, Column
  <2>4. Brings(m)'
    <3>1. JobOf(m).kind \in {"create", "update"}
      BY <1>1, <1>3 DEF Told, Course, Now
    <3>2. Alike(manager[m].sent, IF JobOf(m).kind = "create" THEN NoIds ELSE manager[m].saw.ids)
      BY <1>2, <1>3, <2>1, <3>1 DEF Brings, Now
    <3> HIDE DEF umcr
    <3>3. QED
      BY <2>2, <2>3, <3>1, <3>2 DEF Brings, Alike, JobOf
  <2>5. Level(m)' /\ Handles(m)'
    BY <2>2 DEF Level, Handles
  <2>6. QED
    BY <1>1, <2>2, <2>4, <2>5, LevelStep, IdsStay
<1>4. CASE Now(m, "agent")
  <2>1. GoesOr(m, AfterAgent(m))
    BY <1>4 DEF CallsMistral, AfterCall, Now
  <2>2. JobOf(m).p = "mistral" /\ JobOf(m).kind \in {"update", "delete"} /\ AfterAgent(m) \in {"make", "files", "remove"}
    BY <1>1, <1>4 DEF Told, Course, Now, AfterAgent
  <2>3. /\ Alone(m) /\ manager'[m].at = AfterAgent(m) /\ manager'[m].job = manager[m].job
        /\ manager'[m].saw = manager[m].saw /\ manager'[m].sent = manager[m].sent
    BY <2>1, <2>2, GoFields DEF TypeInv, ManagersTyped, ManagerTyped
  <2>4. CASE AfterAgent(m) = "make"
    <3>1. JobOf(m).kind = "update"
      BY <2>4 DEF AfterAgent
    <3>2. Level(m)' /\ Handles(m)' /\ Brings(m)'
      BY <1>2, <1>4, <2>2, <2>3, <2>4, <3>1 DEF Level, Handles, Brings, JobOf, Now
    <3>3. QED
      BY <1>1, <2>3, <3>2, LevelStep, IdsStay
  <2>5. CASE AfterAgent(m) = "files"
    <3>1. Level(m)' /\ Handles(m)' /\ Brings(m)'
      BY <2>2, <2>3, <2>5 DEF Level, Handles, Brings, JobOf
    <3>2. QED
      BY <1>1, <2>3, <3>1, LevelStep, IdsStay
  <2>6. CASE AfterAgent(m) = "remove"
    <3>1. ~Never({"kept"})'
      <4>1. JobOf(m).kind = "delete" /\ AfterCall(m) = "remove"
        BY <1>4, <2>2, <2>6 DEF AfterAgent, AfterCall, Now
      <4>2. QED
        BY <1>4, <4>1 DEF CallsMistral, Marks, Never
    <3>2. (\A ids : Truth(m, ids) = NoIds)'
      BY <2>2, <2>3, <2>6 DEF Truth, JobOf
    <3>3. Matched(m)'
      BY <3>1, <3>2 DEF Matched, Holds, NoIds
    <3>4. Handles(m)' /\ Brings(m)'
      BY <2>3, <2>6 DEF Handles, Brings
    <3>5. QED
      BY <1>1, <2>3, <3>3, <3>4, LibraryFrame
  <2>7. QED
    BY <2>2, <2>4, <2>5, <2>6
<1>5. QED
  BY <1>3, <1>4

LEMMA LibraryMade ==
  ASSUME StoreInv, TypeInv, Turns, LibraryDue, NEW m \in Managers, CallsMistral(m), Now(m, "makelib")
  PROVE  LibraryDue'
<1>1. /\ Busy(m) /\ Level(m) /\ UNCHANGED rows /\ past \subseteq past'
      /\ manager' = [manager EXCEPT ![m].at = "keep", ![m].library = last.library + 1]
      /\ libraries' = With(libraries, last.library + 1, {})
  BY DEF CallsMistral, Carries, Busy, Now, Level, Marks
<1>2. Handles(m) /\ Held /\ Kept
  BY <1>1, LibraryBefore, LevelTruth
<1>3. Alone(m) /\ manager'[m].at = "keep" /\ manager'[m].library = last.library + 1 /\ last.library + 1 # None
  BY <1>1 DEF TypeInv, LastTyped, Library, ManagersTyped, ManagerTyped, Alone, None
<1>4. Mistral' = Mistral /\ \A i \in Mistral : rows[i].ids \in VecIds /\ rows[i].ids.library = None /\ rows[i].ids.files = {}
  BY <1>1, <1>2 DEF Mistral, Of, Handles, Now, Held, Holds, TypeInv, RowsTyped, Row
<1>5. DOMAIN libraries' = DOMAIN libraries \cup {last.library + 1} /\ libraries'[last.library + 1] = {}
  BY <1>1 DEF With
<1>6. \A i \in Mistral : /\ (Truth(m, rows[i].ids))'.library = last.library + 1
                         /\ (Truth(m, rows[i].ids))'.files = {}
  BY <1>1, <1>3, <1>4 DEF Truth, VecIds
<1>7. Matched(m)'
  <2>1. \A i \in Mistral' : Holds(Truth(m, rows[i].ids))'
    BY <1>3, <1>4, <1>5, <1>6 DEF Holds
  <2>2. ASSUME Never({"kept"})' PROVE DOMAIN libraries' \subseteq {last.library + 1}
    <3>1. DOMAIN libraries \subseteq {None}
      BY <1>1, <1>2, <1>4, <2>2 DEF Kept, Never
    <3>2. None \notin DOMAIN libraries
      BY DEF TypeInv, RemoteTyped, None
    <3>3. QED
      BY <1>5, <3>1, <3>2
  <2>3. Extra(m)' = {last.library + 1}
    BY <1>3 DEF Extra
  <2>4. QED
    BY <2>1, <2>2, <2>3 DEF Matched
<1>8. Handles(m)' /\ Brings(m)'
  BY <1>1, <1>3, <1>4 DEF Handles, Brings
<1>9. QED
  BY <1>1, <1>3, <1>7, <1>8, LibraryFrame

\* A document comes or goes: the row is still to say so.
LEMMA LibraryDocument ==
  ASSUME StoreInv, TypeInv, Turns, LibraryDue, NEW m \in Managers, CallsMistral(m), Now(m, "upload") \/ Now(m, "drop")
  PROVE  LibraryDue'
<1> DEFINE me == manager[m]
           next == IF Now(m, "upload") THEN "listing" ELSE "unlisting"
<1>1. /\ Busy(m) /\ Level(m) /\ UNCHANGED rows /\ past \subseteq past' /\ GoesOr(m, next)
  BY DEF CallsMistral, AfterCall, Busy, Now, Level, Marks
<1>2. Handles(m) /\ Held /\ Kept
  BY <1>1, LibraryBefore, LevelTruth
<1>3. Alone(m) /\ manager'[m].at = next /\ manager'[m].job = me.job /\ manager'[m].library = me.library
  BY <1>1, GoFields DEF TypeInv, ManagersTyped, ManagerTyped
<1>4. /\ me.library # None
      /\ \A i \in Mistral : rows[i].ids \in VecIds /\ rows[i].ids.library = me.library
  BY <1>2 DEF Handles, Now, Mistral, Of, Turns, Single, TypeInv, RowsTyped, Row
<1>5. DOMAIN libraries' = DOMAIN libraries
  BY DEF CallsMistral, Carries, Now
<1>6. \A i \in Mistral : /\ (Truth(m, rows[i].ids))'.library = me.library
                         /\ me.library \in DOMAIN libraries
                         /\ libraries'[me.library] = (Truth(m, rows[i].ids))'.files
  <2> SUFFICES ASSUME NEW i \in Mistral
               PROVE  /\ (Truth(m, rows[i].ids))'.library = me.library
                      /\ me.library \in DOMAIN libraries
                      /\ libraries'[me.library] = (Truth(m, rows[i].ids))'.files
    OBVIOUS
  <2>1. me.library \in DOMAIN libraries /\ libraries[me.library] = rows[i].ids.files
    BY <1>2, <1>4 DEF Held, Holds
  <2>2. CASE Now(m, "upload")
    <3>1. libraries'[me.library] = libraries[me.library] \cup me.job.docs
      BY <2>1, <2>2 DEF CallsMistral, Carries, Now
    <3>2. (Truth(m, rows[i].ids))' = [rows[i].ids EXCEPT !.files = @ \cup me.job.docs]
      BY <1>1, <1>3, <2>2 DEF Truth, JobOf
    <3>3. QED
      BY <1>4, <2>1, <3>1, <3>2 DEF VecIds
  <2>3. CASE Now(m, "drop")
    <3>1. libraries'[me.library] = libraries[me.library] \ me.job.docs
      BY <2>1, <2>3 DEF CallsMistral, Carries, Now
    <3>2. (Truth(m, rows[i].ids))' = [rows[i].ids EXCEPT !.files = @ \ me.job.docs]
      BY <1>1, <1>3, <2>3 DEF Truth, JobOf, Now
    <3>3. QED
      BY <1>4, <2>1, <3>1, <3>2 DEF VecIds
  <2>4. QED
    BY <2>2, <2>3
<1>7. Mistral' = Mistral
  BY <1>1 DEF Mistral
<1>8. Matched(m)'
  <2>1. \A i \in Mistral' : Holds(Truth(m, rows[i].ids))'
    BY <1>4, <1>5, <1>6, <1>7 DEF Holds
  <2>2. Never({"kept"})' => DOMAIN libraries' \subseteq {(Truth(m, rows[i].ids))'.library : i \in Mistral'}
    BY <1>1, <1>2, <1>4, <1>5, <1>6, <1>7 DEF Kept, Never
  <2>3. QED
    BY <2>1, <2>2 DEF Matched
<1>9. Handles(m)' /\ Brings(m)'
  BY <1>1, <1>2, <1>3, <1>7 DEF Handles, Brings, Now
<1>10. QED
  BY <1>1, <1>3, <1>8, <1>9, LibraryFrame

\* A library goes.
LEMMA LibraryGoes ==
  ASSUME StoreInv, TypeInv, Turns, LibraryDue, NEW m \in Managers, CallsMistral(m), manager[m].at \in {"files", "emptied", "undo"}
  PROVE  LibraryDue'
<1> DEFINE me == manager[m]
           next == CASE me.at = "files" -> "remove" [] me.at = "emptied" -> "clearing" [] OTHER -> "idle"
<1>1. /\ Busy(m) /\ UNCHANGED rows /\ past \subseteq past' /\ GoesOr(m, next) /\ Told(m)
      /\ libraries' = Without(libraries, Target(m))
  BY DEF CallsMistral, AfterCall, Carries, Busy, Now, Marks, Turns
<1>2. Handles(m) /\ Matched(m)
  BY <1>1, LibraryBefore
<1>3. Alone(m) /\ manager'[m].at = next
  BY <1>1, GoFields
<1>4. DOMAIN libraries' = DOMAIN libraries \ {Target(m)} /\ Mistral' = Mistral
  BY <1>1 DEF Without, Restrict, Mistral
<1>5. CASE me.at = "undo"
  <2>1. Mistral = {} /\ Target(m) = me.library /\ Extra(m) = {me.library}
    BY <1>2, <1>5 DEF Handles, Target, Now, Extra
  <2>2. Matched(m)'
    BY <1>1, <1>2, <1>4, <2>1 DEF Matched, Never
  <2>3. Handles(m)' /\ Brings(m)'
    BY <1>3, <1>5 DEF Handles, Brings
  <2>4. QED
    BY <1>1, <1>3, <2>2, <2>3, LibraryFrame
<1>6. CASE me.at = "emptied"
  <2>1. (\A ids : Truth(m, ids) = ids) /\ Extra(m) = {} /\ Target(m) = me.library
    BY <1>6 DEF Truth, Extra, Target, Now
  <2>2. \A i \in Mistral : rows[i].ids.library = me.library
    BY <1>2, <1>6 DEF Handles, Mistral, Of, Turns, Single
  <2>3. Never({"kept"})' => DOMAIN libraries' = {}
    BY <1>1, <1>2, <1>4, <2>1, <2>2 DEF Matched, Never
  <2>4. (\A ids : Truth(m, ids) = NoIds)'
    BY <1>3, <1>6 DEF Truth
  <2>5. Matched(m)'
    BY <2>3, <2>4 DEF Matched, Holds, NoIds
  <2>6. Handles(m)' /\ Brings(m)'
    BY <1>3, <1>6 DEF Handles, Brings
  <2>7. QED
    BY <1>1, <1>3, <2>5, <2>6, LibraryFrame
<1>7. CASE me.at = "files"
  <2>1. (\A ids : Truth(m, ids) = ids) /\ Extra(m) = {} /\ manager'[m].job = me.job
    BY <1>1, <1>7, GoFields DEF Truth, Extra, TypeInv, ManagersTyped, ManagerTyped
  <2>2. ASSUME NEW i \in Mistral PROVE rows[i].ids.library \notin DOMAIN libraries \ {Target(m)}
    <3>1. Of("mistral", rows) = {i} /\ i \in DOMAIN rows /\ rows[i].provider = "mistral" /\ rows[i].ids \in VecIds
      BY <2>2 DEF Mistral, Of, Turns, Single, TypeInv, RowsTyped, Row
    <3>2. FirstOf({i}) = i
      BY <3>1, FirstIsOne
    <3>3. Target(m) = Decompress(rows[i]).library
      BY <1>7, <3>1, <3>2 DEF Target, Now
    <3>4. CASE rows[i].ids.library = None
      BY <3>4 DEF TypeInv, RemoteTyped, None
    <3>5. CASE rows[i].ids.library # None
      BY <3>1, <3>3, <3>5 DEF Decompress
    <3>6. QED
      BY <3>4, <3>5
  <2>3. Never({"kept"})' => DOMAIN libraries' = {}
    BY <1>1, <1>2, <1>4, <2>1, <2>2 DEF Matched, Never
  <2>4. (\A ids : Truth(m, ids) = NoIds)'
    <3>1. JobOf(m).p = "mistral"
      BY <1>2, <1>7 DEF Handles, JobOf
    <3>2. QED
      BY <1>3, <1>7, <2>1, <3>1 DEF Truth, JobOf
  <2>5. Matched(m)'
    BY <2>3, <2>4 DEF Matched, Holds, NoIds
  <2>6. Handles(m)' /\ Brings(m)'
    BY <1>3, <1>7 DEF Handles, Brings
  <2>7. QED
    BY <1>1, <1>3, <2>5, <2>6, LibraryFrame
<1>8. QED
  BY <1>5, <1>6, <1>7

LEMMA LibraryCalls ==
  ASSUME StoreInv, TypeInv, Turns, LibraryDue, NEW m \in Managers, CallsMistral(m) PROVE LibraryDue'
BY LibraryAgents, LibraryMade, LibraryDocument, LibraryGoes DEF CallsMistral, CanCall, Calls, Now

LEMMA LibraryMakesNoAgent ==
  ASSUME StoreInv, TypeInv, Turns, LibraryDue, NEW m \in Managers, MakesNoAgent(m) PROVE LibraryDue'
<1>1. /\ Busy(m) /\ Level(m) /\ UNCHANGED <<rows, libraries, past>> /\ JobOf(m).p # "mistral"
      /\ Alone(m) /\ manager'[m].at = "save" /\ manager'[m].job = manager[m].job
  BY DEF MakesNoAgent, Busy, Now, Level, remote, TypeInv, ManagersTyped, ManagerTyped, Alone
<1>2. Level(m)' /\ Handles(m)' /\ Brings(m)'
  BY <1>1 DEF Level, Handles, Brings, JobOf
<1>3. QED
  BY <1>1, <1>2, LevelStep, IdsStay

\* The actions that have to do with no library and leave their manager so.
LEMMA LibraryPlain ==
  ASSUME StoreInv, TypeInv, Turns, LibraryDue, NEW m \in Managers,
         \/ UploadRefused(m) \/ DisableAllUserChannel(m) \/ ReadsNext(m) \/ SetActiveModelByProvider(m)
         \/ SyncProviderModels(m) \/ GeneratesEmbedding(m) \/ SaveEmbedding(m) \/ DeleteEmbedding(m)
  PROVE  LibraryDue'
<1>1. Busy(m) /\ Level(m) /\ UNCHANGED libraries /\ past \subseteq past'
  BY DEF UploadRefused, DisableAllUserChannel, ReadsNext, SetActiveModelByProvider, SyncProviderModels,
         GeneratesEmbedding, SaveEmbedding, DeleteEmbedding, Busy, Now, Level, remote, Marks
<1>2. SameIds
  <2>1. CASE UNCHANGED rows
    BY <2>1, IdsStay
  <2>2. CASE SyncProviderModels(m)
    BY <2>2 DEF SyncProviderModels, SameIds, Mistral, Of, TypeInv, RowsTyped, Row
  <2>3. ASSUME NEW i, rows' = Switched(i) PROVE SameIds
    BY <2>3 DEF Switched, SameIds, Mistral, Of, TypeInv, RowsTyped, Row
  <2>4. QED
    BY <2>1, <2>2, <2>3 DEF UploadRefused, DisableAllUserChannel, ReadsNext, SetActiveModelByProvider,
       GeneratesEmbedding, SaveEmbedding, DeleteEmbedding
<1>3. Alone(m) /\ manager'[m].at \in Unaware
  <2>1. CASE UploadRefused(m) \/ SetActiveModelByProvider(m) \/ SyncProviderModels(m) \/ SaveEmbedding(m) \/ DeleteEmbedding(m)
    BY <2>1, IdleFields DEF UploadRefused, SetActiveModelByProvider, SyncProviderModels, SaveEmbedding, DeleteEmbedding, Unaware
  <2>2. CASE DisableAllUserChannel(m)
    BY <2>2, GoFields DEF DisableAllUserChannel, AfterRemoval, Unaware
  <2>3. CASE ReadsNext(m)
    BY <2>3, IdleFields DEF ReadsNext, Unaware, TypeInv, ManagersTyped, ManagerTyped, Alone
  <2>4. CASE GeneratesEmbedding(m)
    BY <2>4 DEF GeneratesEmbedding, Unaware, TypeInv, ManagersTyped, ManagerTyped, Alone
  <2>5. QED
    BY <2>1, <2>2, <2>3, <2>4
<1>4. QED
  BY <1>1, <1>2, <1>3, UnawareStep

LEMMA LibraryFiles ==
  ASSUME StoreInv, TypeInv, Turns, LibraryDue, NEW m \in Managers, DeleteAllModelEmbeddings(m) \/ EmbedsFile(m)
  PROVE  LibraryDue'
<1>1. /\ Busy(m) /\ JobOf(m).p # "mistral" /\ Level(m) /\ UNCHANGED <<rows, libraries, past>>
  BY DEF DeleteAllModelEmbeddings, EmbedsFile, Busy, Now, Level, Turns, Told, Course, remote
<1>2. Alone(m) /\ manager'[m].job = manager[m].job /\ manager'[m].at \in {"remove", "save", "fetch"}
  BY ZenonT(40) DEF DeleteAllModelEmbeddings, EmbedsFile, AfterFile, AfterClean, Goes, TypeInv, ManagersTyped, ManagerTyped, Alone
<1>3. Level(m)' /\ Handles(m)' /\ Brings(m)'
  BY <1>1, <1>2 DEF Level, Handles, Brings, JobOf
<1>4. QED
  BY <1>1, <1>2, <1>3, LevelStep, IdsStay

LEMMA LibraryFinds ==
  ASSUME StoreInv, TypeInv, Turns, LibraryDue, NEW m \in Managers, FindsLibrary(m) PROVE LibraryDue'
<1> DEFINE saw == RecordOf("mistral")
<1>1. Busy(m) /\ Level(m) /\ UNCHANGED <<rows, libraries, past>> /\ Handles(m) /\ Now(m, "library")
  BY LibraryBefore DEF FindsLibrary, Busy, Now, Level, remote
<1>2. Mistral' = Mistral
  BY <1>1 DEF Mistral
<1>3. CASE saw.ids.library # None
  <2>1. saw # NoRow
    BY <1>3 DEF NoRow, NoIds
  <2>2. \E i \in Mistral : rows[i].ids.library = saw.ids.library
    BY <2>1, MistralRecord
  <2>3. /\ Alone(m) /\ manager'[m].job = manager[m].job /\ manager'[m].library = saw.ids.library
        /\ manager'[m].at \in {"upload", "drop"}
    BY <1>3 DEF FindsLibrary, TypeInv, ManagersTyped, ManagerTyped, Alone
  <2>4. Level(m)' /\ Handles(m)' /\ Brings(m)'
    BY <1>1, <1>2, <1>3, <2>2, <2>3 DEF Level, Handles, Brings, Now
  <2>5. QED
    BY <1>1, <2>3, <2>4, LevelStep, IdsStay
<1>4. CASE saw.ids.library = None
  <2>1. \A i \in Mistral : rows[i].ids.library = None
    BY <1>4, MistralRecord
  <2>2. PICK at \in {"makelib", "idle"} : GoesOr(m, at)
    BY <1>4 DEF FindsLibrary
  <2>3. Alone(m) /\ manager'[m].at = at
    BY <2>2, GoFields
  <2>4. Level(m)' /\ Handles(m)' /\ Brings(m)'
    BY <1>1, <1>2, <2>1, <2>3 DEF Level, Handles, Brings
  <2>5. QED
    BY <1>1, <2>3, <2>4, LevelStep, IdsStay
<1>5. QED
  BY <1>3, <1>4

\* The row is read. What it is to say is written next, or it says so already.
LEMMA LibraryReadsRow ==
  ASSUME StoreInv, TypeInv, Turns, LibraryDue, NEW m \in Managers, ReadsRow(m) PROVE LibraryDue'
<1> DEFINE me == manager[m]
           saw == RecordOf("mistral")
           next == AfterRow(m, saw)
<1>1. Busy(m) /\ UNCHANGED <<rows, libraries, past>> /\ Handles(m) /\ Matched(m) /\ Mistral' = Mistral
  BY LibraryBefore DEF ReadsRow, Busy, Now, remote, Mistral
<1>2. /\ Alone(m) /\ manager'[m].at = next
      /\ next # "idle" => manager'[m].job = me.job /\ manager'[m].library = me.library
  BY IdleFields DEF ReadsRow, TypeInv, ManagersTyped, ManagerTyped, Alone
<1>3. \A i \in Mistral : rows[i].ids \in VecIds /\ saw # NoRow /\ saw.ids = rows[i].ids
  <2>1. \A i \in Mistral : rows[i].ids \in VecIds
    BY DEF Mistral, Of, TypeInv, RowsTyped, Row
  <2>2. QED
    BY <2>1, MistralRecord
<1>4. saw = NoRow => Mistral = {}
  BY MistralRecord
<1>5. Brings(m)'
  <2>1. next \notin {"read", "record", "agent", "make", "save", "commit"}
    BY DEF AfterRow
  <2>2. QED
    BY <1>2, <2>1 DEF Brings
<1>6. CASE me.at = "keep"
  <2>1. next = IF saw = NoRow THEN "undo" ELSE "keeping"
    BY <1>6 DEF AfterRow, Now
  <2>2. Handles(m)'
    BY <1>1, <1>2, <1>4, <1>6, <2>1 DEF Handles
  <2>3. Matched(m)'
    <3>1. CASE saw = NoRow
      BY <1>1, <1>2, <1>4, <1>6, <2>1, <3>1 DEF Matched, Extra, Never
    <3>2. CASE saw # NoRow
      <4>1. \A i \in Mistral : (Truth(m, rows[i].ids))' = Truth(m, rows[i].ids)
        BY <1>1, <1>2, <1>6, <2>1, <3>2 DEF Truth
      <4>2. \E i \in Mistral : Truth(m, rows[i].ids).library = me.library
        <5>1. saw.id \in Mistral
          BY <3>2, MistralRecord
        <5>2. Truth(m, rows[saw.id].ids) = [rows[saw.id].ids EXCEPT !.library = me.library]
          BY <1>6 DEF Truth
        <5>3. QED
          BY <1>3, <5>1, <5>2 DEF VecIds
      <4>3. Extra(m) = {me.library} /\ Extra(m)' = {}
        BY <1>2, <1>6, <2>1, <3>2 DEF Extra
      <4>4. QED
        BY <1>1, <4>1, <4>2, <4>3 DEF Matched, Holds, Never
    <3>3. QED
      BY <3>1, <3>2
  <2>4. QED
    BY <1>1, <1>2, <1>5, <2>2, <2>3, LibraryFrame
<1>7. CASE me.at \in {"listing", "unlisting", "clearing"}
  <2>1. /\ next \in {"idle", "list", "emptied", "unlist", "clear"}
        /\ me.at = "listing" => next \in {"idle", "list"}
        /\ me.at = "unlisting" => next \in {"idle", "emptied", "unlist"}
        /\ me.at = "clearing" => next \in {"idle", "clear"}
    BY <1>7 DEF AfterRow, Now
  <2>2. \A i \in Mistral : (Truth(m, rows[i].ids))' = Truth(m, rows[i].ids)
    <3> SUFFICES ASSUME NEW i \in Mistral PROVE (Truth(m, rows[i].ids))' = Truth(m, rows[i].ids)
      OBVIOUS
    <3>1. CASE next \in {"list", "unlist", "clear"}
      BY <1>1, <1>2, <1>7, <2>1, <3>1 DEF Truth, JobOf
    <3>2. CASE next \in {"idle", "emptied"}
      <4>1. (Truth(m, rows[i].ids))' = rows[i].ids
        BY <1>1, <1>2, <3>2 DEF Truth
      <4>2. me.at # "clearing"
        BY <1>3, <1>7, <3>2 DEF AfterRow, Now
      <4>3. CASE me.at = "listing"
        <5>1. JobOf(m).docs \subseteq rows[i].ids.files
          BY <1>3, <3>2, <4>3 DEF AfterRow, Now
        <5>2. Truth(m, rows[i].ids) = [rows[i].ids EXCEPT !.files = @ \cup JobOf(m).docs]
          BY <4>3 DEF Truth
        <5>3. QED
          BY <1>3, <4>1, <5>1, <5>2 DEF VecIds
      <4>4. CASE me.at = "unlisting"
        <5>1. PICK d \in Docs : JobOf(m).docs = {d}
          BY <1>1, <4>4 DEF Handles, JobOf
        <5>2. d \notin rows[i].ids.files
          BY <1>3, <3>2, <4>4, <5>1 DEF AfterRow, Now
        <5>3. Truth(m, rows[i].ids) = [rows[i].ids EXCEPT !.files = @ \ JobOf(m).docs]
          BY <4>4 DEF Truth
        <5>4. QED
          BY <1>3, <4>1, <5>1, <5>2, <5>3 DEF VecIds
      <4>5. QED
        BY <1>7, <4>2, <4>3, <4>4
    <3>3. QED
      BY <2>1, <3>1, <3>2
  <2>3. Extra(m) = {} /\ Extra(m)' = {}
    BY <1>2, <1>7, <2>1 DEF Extra
  <2>4. Matched(m)'
    BY <1>1, <2>2, <2>3 DEF Matched, Holds, Never
  <2>5. Handles(m)'
    <3>1. next = "emptied" => \A i \in Mistral : rows[i].ids.files = {}
      BY <1>3, <1>7 DEF AfterRow, Now
    <3>2. QED
      BY <1>1, <1>2, <1>7, <2>1, <3>1 DEF Handles
  <2>6. QED
    BY <1>1, <1>2, <1>5, <2>4, <2>5, LibraryFrame
<1>8. QED
  BY <1>6, <1>7 DEF ReadsRow

LEMMA RowWritten ==
  ASSUME StoreInv, TypeInv, Turns, NEW m \in Managers, UpdateUserGPT(m)
  PROVE  /\ Mistral = {manager[m].saw.id} /\ Mistral' = Mistral
         /\ rows[manager[m].saw.id].ids = manager[m].saw.ids /\ rows'[manager[m].saw.id].ids = Written(m)
<1> DEFINE id == manager[m].saw.id
<1>1. Current(m, "mistral")
  BY DEF UpdateUserGPT, Turns, Told, AboutRow
<1>2. Mistral = {id} /\ rows[id].ids = manager[m].saw.ids
  BY <1>1, MistralRow
<1>3. id \in DOMAIN rows /\ rows[id].agent = manager[m].saw.agent /\ rows[id] \in Row
  BY <1>1 DEF Current, TypeInv, RowsTyped
<1>4. /\ DOMAIN rows' = DOMAIN rows /\ rows'[id] = [rows[id] EXCEPT !.ids = Written(m)]
      /\ \A k \in DOMAIN rows : k # id => rows'[k] = rows[k]
  BY <1>3 DEF UpdateUserGPT
<1>5. rows'[id].ids = Written(m) /\ \A k \in DOMAIN rows : rows'[k].provider = rows[k].provider
  BY <1>3, <1>4 DEF Row
<1>6. QED
  BY <1>2, <1>4, <1>5 DEF Mistral, Of

LEMMA LibraryWrites ==
  ASSUME StoreInv, TypeInv, Turns, LibraryDue, NEW m \in Managers, UpdateUserGPT(m) PROVE LibraryDue'
<1> DEFINE me == manager[m]
           id == me.saw.id
           next == AfterWrite(m)
<1>1. Busy(m) /\ UNCHANGED <<libraries, past>> /\ GoesOr(m, next) /\ me.at \in {"keeping", "list", "unlist", "clear"}
  BY DEF UpdateUserGPT, Busy, Now, remote
<1>2. Handles(m) /\ Matched(m) /\ Extra(m) = {}
  BY <1>1, LibraryBefore DEF Extra
<1>3. Mistral = {id} /\ Mistral' = {id} /\ rows[id].ids = me.saw.ids /\ rows'[id].ids = Written(m)
  BY RowWritten
<1>4. Truth(m, rows[id].ids) = Written(m)
  BY <1>1, <1>3 DEF Truth, Written, Now
<1>5. /\ Alone(m) /\ manager'[m].at = next /\ next \in {"upload", "emptied", "idle"}
      /\ next # "idle" => manager'[m].library = me.library
  <2>1. next \in {"upload", "emptied", "idle"}
    BY DEF AfterWrite
  <2>2. QED
    BY <1>1, <2>1, GoFields DEF TypeInv, ManagersTyped, ManagerTyped
<1>6. Written(m) \in VecIds
  BY WrittenTyped
<1>7. Matched(m)'
  <2>1. (\A ids : Truth(m, ids) = ids)' /\ Extra(m)' = {}
    BY <1>5 DEF Truth, Extra
  <2>2. Holds(Written(m))
    BY <1>2, <1>3, <1>4 DEF Matched
  <2>3. Never({"kept"}) => DOMAIN libraries \subseteq {Written(m).library}
    BY <1>2, <1>3, <1>4 DEF Matched
  <2>4. QED
    BY <1>1, <1>3, <2>1, <2>2, <2>3 DEF Matched, Holds, Never
<1>8. Handles(m)'
  <2>1. ASSUME next = "upload" PROVE me.library # None /\ Written(m).library = me.library
    <3>1. me.at = "keeping"
      BY <2>1 DEF AfterWrite, Now
    <3>2. Written(m) = [me.saw.ids EXCEPT !.library = me.library] /\ me.saw.ids \in VecIds
      BY <3>1 DEF Written, Now, TypeInv, ManagersTyped, ManagerTyped, SawType
    <3>3. QED
      BY <1>2, <3>1, <3>2 DEF Handles, VecIds
  <2>2. ASSUME next = "emptied" PROVE me.library # None /\ Written(m).library = me.library /\ Written(m).files = {}
    <3>1. me.at = "unlist" /\ Written(m).files = {}
      BY <2>2 DEF AfterWrite, Now
    <3>2. Written(m) = [me.saw.ids EXCEPT !.files = @ \ JobOf(m).docs] /\ me.saw.ids \in VecIds
      BY <3>1 DEF Written, Now, TypeInv, ManagersTyped, ManagerTyped, SawType
    <3>3. QED
      BY <1>2, <1>3, <3>1, <3>2 DEF Handles, VecIds
  <2>3. QED
    BY <1>3, <1>5, <2>1, <2>2 DEF Handles
<1>9. Brings(m)'
  BY <1>5 DEF Brings
<1>10. QED
  BY <1>1, <1>5, <1>7, <1>8, <1>9, LibraryFrame

\* A transaction begins with the row as it is to be.
LEMMA LibraryTransactionBegins ==
  ASSUME StoreInv, TypeInv, Turns, LibraryDue, NEW m \in Managers, SaveBegins(m) \/ RemoveBegins(m) PROVE LibraryDue'
<1>1. Busy(m) /\ Told(m) /\ UNCHANGED <<rows, libraries>> /\ past \subseteq past'
  BY DEF SaveBegins, RemoveBegins, Busy, Now, Turns, remote, Marks
<1>2. Matched(m) /\ Brings(m)
  BY <1>1, LibraryBefore
<1>3. CASE Ends(m)
  <2>1. SaveBegins(m)
    <3>1. RemoveBegins(m) => manager[m].saw.id \in DOMAIN rows
      BY <1>1 DEF RemoveBegins, Told, AboutModel, Current, Now
    <3>2. RemoveBegins(m) => manager'[m].at = "unlink"
      BY <3>1 DEF RemoveBegins, TypeInv, ManagersTyped, ManagerTyped
    <3>3. QED
      BY <1>3, <3>2, IdleFields
  <2>2. Level(m)
    BY <2>1 DEF SaveBegins, Now, Level
  <2>3. QED
    BY <1>1, <1>3, <2>2, IdleFields, UnawareStep, IdsStay DEF Unaware
<1>4. ASSUME NEW at \in {"commit", "unlink"}, manager' = [manager EXCEPT ![m].at = at, ![m].snap = rows],
             at = "commit" => Now(m, "save"), at = "unlink" => Now(m, "remove")
      PROVE  LibraryDue'
  <2>1. /\ Alone(m) /\ manager'[m].at = at /\ manager'[m].job = manager[m].job
        /\ manager'[m].saw = manager[m].saw /\ manager'[m].umcr = manager[m].umcr
    BY <1>4 DEF TypeInv, ManagersTyped, ManagerTyped, Alone
  <2>2. (\A ids : Truth(m, ids)' = Truth(m, ids)) /\ Extra(m) = {} /\ Extra(m)' = {}
    BY <1>4, <2>1 DEF Truth, Extra, JobOf, Now
  <2>3. Mistral' = Mistral
    BY <1>1 DEF Mistral
  <2>4. Matched(m)'
    <3>1. \A i \in Mistral : Truth(m, rows[i].ids)' = Truth(m, rows[i].ids)
      BY <1>1, <1>4, <2>1 DEF Truth, JobOf, Now
    <3>2. QED
      BY <1>1, <1>2, <2>2, <2>3, <3>1 DEF Matched, Holds, Never
  <2>5. Handles(m)' /\ Brings(m)'
    BY <1>2, <1>4, <2>1 DEF Handles, Brings, JobOf, Now
  <2>6. QED
    BY <1>1, <2>1, <2>4, <2>5, LibraryFrame
<1>5. QED
  BY <1>3, <1>4 DEF SaveBegins, RemoveBegins

\* The same libraries and the same files, written once more.
LEMMA LibrarySameRow ==
  ASSUME StoreInv, TypeInv, Turns, LibraryDue, NEW m \in Managers, Busy(m), Alone(m), Level(m), manager'[m].at \in Unaware,
         Mistral' = Mistral, \A i \in Mistral : Alike(rows'[i].ids, rows[i].ids),
         UNCHANGED libraries, past \subseteq past'
  PROVE  LibraryDue'
<1>1. Held /\ Kept
  BY LibraryBefore, LevelTruth
<1>2. (Held /\ Kept)'
  BY <1>1 DEF Held, Kept, Holds, Never, Alike
<1>3. Level(m)' /\ Handles(m)' /\ Brings(m)'
  BY DEF Unaware, Level, Handles, Brings
<1>4. Matched(m)'
  BY <1>2, <1>3, LevelTruth DEF Level, Matched, Held, Kept, Truth, Extra
<1>5. QED
  BY <1>3, <1>4, LibraryFrame

LEMMA LibrarySaveCommits ==
  ASSUME StoreInv, TypeInv, Turns, LibraryDue, FilesInTurn', NEW m \in Managers, SaveCommits(m) PROVE LibraryDue'
<1>1. /\ Busy(m) /\ Told(m) /\ Alone(m) /\ manager'[m].at = "idle" /\ manager[m].snap = rows
      /\ Now(m, "commit") /\ libraries' = libraries /\ Level(m) /\ past \subseteq past'
  BY IdleFields DEF SaveCommits, Inserts, Updates, Marks, Busy, Now, Turns, Told, InTransaction, remote, Level
<1>2. Brings(m)
  BY <1>1, LibraryBefore
<1> DEFINE id == manager[m].saw.id
<1>3. CASE Inserts(m)
  <2> DEFINE new == last.row + 1
  <2>1. /\ DOMAIN rows' = DOMAIN rows \cup {new} /\ new \notin DOMAIN rows
        /\ rows'[new].provider = JobOf(m).p /\ rows'[new].ids = manager[m].umcr.ids
        /\ \A k \in DOMAIN rows : rows'[k] = rows[k]
        /\ Of(JobOf(m).p, rows) = {}
    BY <1>1, <1>3 DEF Inserts, With, StoreInv, Shape, RowShape
  <2>2. CASE JobOf(m).p # "mistral"
    <3>1. SameIds
      BY <2>1, <2>2 DEF SameIds, Mistral, Of
    <3>2. QED
      BY <1>1, <3>1, UnawareStep DEF Unaware
  <2>3. CASE JobOf(m).p = "mistral"
    <3>1. Mistral = {} /\ Mistral' = {new}
      BY <2>1, <2>3 DEF Mistral, Of
    <3>2. JobOf(m).kind = "create"
      <4>1. ~Current(m, "mistral")
        BY <2>1, <2>3 DEF Current, Of
      <4>2. QED
        BY <1>1, <2>3, <4>1 DEF Told, Course, AboutModel, Now
    <3>3. Alike(rows'[new].ids, NoIds)
      BY <1>1, <1>2, <2>1, <2>3, <3>2 DEF Brings, Now
    <3>4. Kept /\ Held
      BY <1>1, LibraryBefore, LevelTruth
    <3>5. (Held /\ Kept)'
      BY <1>1, <3>1, <3>3, <3>4 DEF Held, Kept, Holds, Never, Alike, NoIds
    <3>6. Level(m)' /\ Handles(m)' /\ Brings(m)'
      BY <1>1 DEF Level, Handles, Brings
    <3>7. Matched(m)'
      BY <3>5, <3>6, LevelTruth DEF Level, Matched, Held, Kept, Truth, Extra
    <3>8. QED
      BY <1>1, <3>6, <3>7, LibraryFrame
  <2>4. QED
    BY <2>2, <2>3
<1>4. CASE Updates(m)
  <2>1. PICK i \in Of(JobOf(m).p, rows) :
           rows' = [k \in DOMAIN rows |->
                      IF k = i THEN [rows[k] EXCEPT !.agent = manager[m].umcr.agent,
                                       !.ids = manager[m].umcr.ids, !.data = manager[m].sent]
                      ELSE rows[k]]
    BY <1>1, <1>4 DEF Updates
  <2>2. /\ DOMAIN rows' = DOMAIN rows /\ i \in DOMAIN rows /\ rows[i].provider = JobOf(m).p
        /\ \A k \in DOMAIN rows : rows[k] \in Row
        /\ \A k \in DOMAIN rows : k # i => rows'[k] = rows[k]
        /\ rows'[i] = [rows[i] EXCEPT !.agent = manager[m].umcr.agent, !.ids = manager[m].umcr.ids, !.data = manager[m].sent]
    BY <2>1 DEF Of, TypeInv, RowsTyped
  <2>3. /\ rows'[i].ids = manager[m].umcr.ids
        /\ \A k \in DOMAIN rows : rows'[k].provider = rows[k].provider
    BY <2>2 DEF Row
  <2>4. Mistral' = Mistral
    BY <2>2, <2>3 DEF Mistral, Of
  <2>5. ASSUME NEW k \in Mistral PROVE Alike(rows'[k].ids, rows[k].ids)
    <3>1. CASE k # i
      BY <2>2, <2>5, <3>1 DEF Mistral, Of, Alike
    <3>2. CASE k = i
      <4>1. JobOf(m).p = "mistral"
        BY <2>2, <2>5, <3>2 DEF Mistral, Of
      <4>2. JobOf(m).kind \in {"update", "store"}
        BY <1>1, <1>4 DEF Updates, Marks, FilesInTurn, Never, Told, Course, Now
      <4>3. Current(m, "mistral")
        BY <1>1, <4>1, <4>2 DEF Told, AboutModel, Now
      <4>4. i = id /\ rows[i].ids = manager[m].saw.ids
        BY <2>5, <3>2, <4>3, MistralRow
      <4>5. Alike(manager[m].umcr.ids, manager[m].saw.ids)
        BY <1>1, <1>2, <4>1, <4>2 DEF Brings, Now
      <4>6. QED
        BY <2>3, <3>2, <4>4, <4>5
    <3>3. QED
      BY <3>1, <3>2
  <2>6. QED
    BY <1>1, <2>4, <2>5, LibrarySameRow DEF Unaware
<1>5. QED
  BY <1>3, <1>4 DEF SaveCommits

LEMMA LibraryRemoveCommits ==
  ASSUME StoreInv, TypeInv, Turns, LibraryDue, NEW m \in Managers, RemoveCommits(m) PROVE LibraryDue'
<1>1. /\ Busy(m) /\ Told(m) /\ Now(m, "unlink") /\ libraries' = libraries /\ UNCHANGED past /\ Current(m, JobOf(m).p)
      /\ Alone(m) /\ manager'[m].at \in Unaware
  <2>1. AfterUnlink(m) \in Unaware
    BY DEF AfterUnlink, AfterRemoval, Unaware
  <2>2. QED
    BY <2>1, GoFields DEF RemoveCommits, Busy, Now, Turns, Told, AboutModel, remote
<1>2. /\ DOMAIN rows' = DOMAIN rows \ {manager[m].saw.id}
      /\ \A k \in DOMAIN rows' : rows'[k].provider = rows[k].provider /\ rows'[k].ids = rows[k].ids
  BY RemovalRows DEF Turns, Fields
<1>3. CASE JobOf(m).p # "mistral"
  <2>1. SameIds
    BY <1>1, <1>2, <1>3 DEF SameIds, Mistral, Of, Current
  <2>2. Level(m)
    BY <1>1, <1>3 DEF Level, Now
  <2>3. QED
    BY <1>1, <2>1, <2>2, UnawareStep
<1>4. CASE JobOf(m).p = "mistral"
  <2>1. Mistral = {manager[m].saw.id}
    BY <1>1, <1>4, MistralRow
  <2>2. Mistral' = {}
    BY <1>2, <2>1 DEF Mistral, Of
  <2>3. (\A ids : Truth(m, ids) = NoIds) /\ Extra(m) = {} /\ Extra(m)' = {}
    BY <1>1, <1>4 DEF Truth, Extra, Now, Unaware
  <2>4. Never({"kept"}) => DOMAIN libraries = {}
    <3>1. Matched(m)
      BY <1>1, LibraryBefore
    <3>2. Never({"kept"}) => DOMAIN libraries \subseteq {None}
      BY <2>1, <2>3, <3>1 DEF Matched, NoIds
    <3>3. None \notin DOMAIN libraries
      BY DEF TypeInv, RemoteTyped, None
    <3>4. QED
      BY <3>2, <3>3
  <2>5. Matched(m)'
    BY <1>1, <2>2, <2>4 DEF Matched, Never
  <2>6. Handles(m)' /\ Brings(m)'
    BY <1>1 DEF Unaware, Handles, Brings
  <2>7. QED
    BY <1>1, <2>5, <2>6, LibraryFrame
<1>5. QED
  BY <1>3, <1>4

LEMMA LibraryDoes ==
  ASSUME StoreInv, TypeInv, Turns, LibraryDue, FilesInTurn', NEW m \in Managers, Does(m) PROVE LibraryDue'
BY LibraryReadsModel, LibraryReadsRecord, LibraryCalls, LibraryMakesNoAgent, LibraryPlain, LibraryFiles, LibraryFinds,
   LibraryReadsRow, LibraryWrites, LibraryTransactionBegins, LibrarySaveCommits, LibraryRemoveCommits DEF Does

LEMMA LibraryStep == StoreInv /\ TypeInv /\ TurnInv /\ LibraryInv /\ [StoreNext]_storevars => LibraryInv'
<1> SUFFICES ASSUME StoreInv, TypeInv, TurnInv, LibraryInv, [StoreNext]_storevars, FilesInTurn' PROVE LibraryDue'
  BY DEF LibraryInv
<1>1. ASSUME NEW m \in Managers,
             (\E job \in scene.jobs : Begins(m, job)) \/ Does(m) \/ Fails(m) \/ RemoveUnpicked(m)
      PROVE  LibraryDue'
  <2>1. InTurn /\ ~Fails(m) /\ ~RemoveUnpicked(m) /\ ((\E job \in scene.jobs : Begins(m, job)) => Rest)
    BY <1>1, TurnKinds DEF FilesInTurn
  <2>2. past \subseteq past'
    BY <1>1, MarksStay
  <2>3. Turns /\ LibraryDue
    BY <2>1, <2>2 DEF TurnInv, LibraryInv, FilesInTurn, Never
  <2>4. QED
    BY <1>1, <2>1, <2>3, LibraryBegins, LibraryDoes
<1>2. CASE SecondPasses \/ UNCHANGED storevars
  <2>1. UNCHANGED <<rows, libraries, manager, past>>
    BY <1>2 DEF SecondPasses, storevars, remote
  <2>2. LibraryDue
    BY <2>1 DEF LibraryInv, FilesInTurn, InTurn, Never
  <2>3. \A m \in Managers : Matched(m)' = Matched(m) /\ Handles(m)' = Handles(m) /\ Brings(m)' = Brings(m)
    BY <2>1 DEF Matched, Handles, Brings, Mistral, Holds, Truth, Extra, Never, JobOf, Decompress
  <2>4. (Held /\ Kept)' = (Held /\ Kept) /\ Rest' = Rest /\ \A m \in Managers : Busy(m)' = Busy(m)
    BY <2>1 DEF Held, Kept, Mistral, Holds, Never, Rest, Busy, Now
  <2>5. QED
    BY <2>2, <2>3, <2>4 DEF LibraryDue
<1>3. QED
  BY <1>1, <1>2 DEF StoreNext

LEMMA LibraryInit == StoreInit => LibraryInv
BY DEF StoreInit, LibraryInv, LibraryDue, Held, Kept, Mistral, Of, Busy, Now, Idle

(***************************************************************************)
(* Calls one after another leave the library of the Mistral row at Mistral *)
(* with the documents the row lists and no other library, unless a model   *)
(* was deleted without its files: UploadFileToMistral, DeleteDocument,     *)
(* updateMistralModelInPlace, deleteMistralModel.                          *)
(***************************************************************************)
THEOREM LibraryIsListed == StoreSpec => []LibraryMatches
<1>1. LibraryInv => LibraryMatches
  <2> SUFFICES ASSUME LibraryInv, Rest, FilesInTurn
               PROVE  LET ids == {rows[i].ids : i \in Of("mistral", rows)} IN
                      /\ \A d \in ids : IF d.library = None THEN d.files = {}
                                        ELSE d.library \in DOMAIN libraries /\ libraries[d.library] = d.files
                      /\ Never({"kept"}) => DOMAIN libraries \subseteq {d.library : d \in ids}
    BY DEF LibraryMatches, FilesInTurn, InTurn, Never
  <2>1. Held /\ Kept
    BY DEF LibraryInv, LibraryDue
  <2>2. QED
    BY <2>1 DEF Held, Kept, Holds, Mistral
<1>2. QED
  BY <1>1, StoreInvInit, StoreInvStep, TypeInit, TypeStep, TurnInit, TurnStep, LibraryInit, LibraryStep, PTL DEF StoreSpec

--------------------------------------------------------------------------------
(***************************************************************************)
(* The embeddings of a Google model. While its files are replaced what is  *)
(* embedded and what is left to embed are the files that were sent.        *)
(***************************************************************************)
SearchInTurn == InTurn /\ Never({"hidden", "replaced"})
Google == Of("google", rows)
Texts(i) == {e.text : e \in {x \in embeddings : x.model = i /\ x.key = 0}}
Listed == \A i \in Google : rows[i].data.files = Texts(i)
Replaces(m) == /\ manager[m].at \in {"clean", "fetch", "save", "commit"}
               /\ JobOf(m).p = "google" /\ JobOf(m).kind # "create"
Embeds(m) ==
  LET me == manager[m] IN
  IF ~Replaces(m) THEN Listed
  ELSE /\ me.at = "clean" => me.left = me.sent.files
       /\ me.at = "fetch" => Texts(me.saw.id) \cup me.left = me.sent.files
       /\ me.at \in {"save", "commit"} => Texts(me.saw.id) = me.sent.files
       /\ JobOf(m).kind = "update" => me.umcr.agent # None
       /\ JobOf(m).kind = "store" => rows[me.saw.id].data.files = me.sent.files
\* What a manager knows of the files it was sent.
Reads(m) ==
  LET me == manager[m]
      kind == JobOf(m).kind IN
  /\ me.at = "embedding" => me.key # 0
  /\ me.at \in {"make", "save", "commit"} /\ kind = "create" => me.sent.files = {}
  /\ me.at = "record" /\ JobOf(m).p = "google" /\ kind \in {"update", "store"} =>
        \A i \in Google : me.read.files = rows[i].data.files

\* A model to come has no embeddings.
Dated == \A e \in embeddings : e.model \in 1 .. last.row
SearchDue ==
  /\ Dated
  /\ Rest => Listed
  /\ \A m \in Managers : Busy(m) => Embeds(m) /\ Reads(m)
SearchInv == SearchInTurn => SearchDue

LEMMA SearchFrame ==
  ASSUME Turns, NEW m \in Managers, Busy(m) \/ Rest, Alone(m), Dated', Embeds(m)', Reads(m)'
  PROVE  SearchDue'
<1>1. \A n \in Managers \ {m} : ~Busy(n)'
  BY DEF Turns, OneBusy, Alone, Busy, Now, Rest
<1>2. ASSUME Rest' PROVE Listed'
  <2>1. manager'[m].at = "idle"
    BY <1>2 DEF Rest, Busy, Now
  <2>2. ~Replaces(m)'
    BY <2>1 DEF Replaces
  <2>3. QED
    BY <2>2 DEF Embeds
<1>3. QED
  BY <1>1, <1>2 DEF SearchDue

LEMMA SearchBefore ==
  ASSUME SearchDue, NEW m \in Managers, Busy(m) \/ Rest
  PROVE  Dated /\ Embeds(m) /\ Reads(m)
<1>1. CASE Busy(m)
  BY <1>1 DEF SearchDue
<1>2. CASE ~Busy(m)
  <2>1. manager[m].at = "idle"
    BY <1>2 DEF Busy, Now
  <2>2. ~Replaces(m) /\ Reads(m)
    BY <2>1 DEF Replaces, Reads
  <2>3. QED
    BY <1>2, <2>2 DEF SearchDue, Embeds
<1>3. QED
  BY <1>1, <1>2

\* A step that changes neither the files of a Google model nor their embeddings.
Still == Google' = Google /\ \A i \in Google : rows'[i].data = rows[i].data /\ Texts(i)' = Texts(i)

LEMMA StillWhen ==
  ASSUME UNCHANGED <<rows, embeddings>>
  PROVE  Still
BY DEF Still, Google, Texts

LEMMA DatedStays ==
  ASSUME Dated, UNCHANGED embeddings, last'.row = last.row
  PROVE  Dated'
BY DEF Dated

LEMMA StillStep ==
  ASSUME Turns, SearchDue, NEW m \in Managers, Busy(m) \/ Rest, Alone(m), ~Replaces(m), ~Replaces(m)', Still, Dated', Reads(m)'
  PROVE  SearchDue'
<1>1. Listed
  BY SearchBefore DEF Embeds
<1>2. Listed'
  BY <1>1 DEF Listed, Still
<1>3. Embeds(m)'
  BY <1>2 DEF Embeds
<1>4. QED
  BY <1>3, SearchFrame

\* Steps after which a manager has no files in hand.
Careless == {"idle", "channels", "next", "switch", "sync", "library", "makelib", "keep", "keeping", "undo", "upload",
             "listing", "list", "drop", "unlisting", "unlist", "emptied", "clearing", "clear", "embed", "forget",
             "agent", "files", "remove", "unlink", "read"}
LEMMA CarelessStep ==
  ASSUME Turns, SearchDue, NEW m \in Managers, Busy(m) \/ Rest, Alone(m), ~Replaces(m), Still, Dated', manager'[m].at \in Careless
  PROVE  SearchDue'
<1>1. ~Replaces(m)' /\ Reads(m)'
  BY DEF Careless, Replaces, Reads
<1>2. QED
  BY <1>1, StillStep

LEMMA GoogleRow ==
  ASSUME Turns, NEW m \in Managers, Current(m, "google")
  PROVE  Google = {manager[m].saw.id}
BY DEF Turns, Single, Current, Of, Google

LEMMA SearchBegins ==
  ASSUME StoreInv, TypeInv, Turns, SearchDue, Rest, NEW m \in Managers, NEW job \in scene.jobs, Begins(m, job)
  PROVE  SearchDue'
<1>1. PICK sent \in Sent(job) :
         manager' = [manager EXCEPT ![m] = [Idle EXCEPT !.at = FirstStep[job.kind], !.job = job, !.sent = sent]]
  BY DEF Begins
<1>2. job.kind \in Kind
  BY SceneAssumption DEF StoreInv, Shape, Scene, Job
<1>3. /\ Alone(m) /\ manager'[m].at = FirstStep[job.kind] /\ manager'[m].job = job /\ manager'[m].sent = sent
      /\ UNCHANGED <<rows, embeddings, last>> /\ manager[m].at = "idle"
  BY <1>1 DEF Begins, StoreInv, Shape, ManagerShape, Alone, Idle, Now
<1>4. /\ FirstStep[job.kind] \in {"make", "read", "record", "switch", "library", "sync"}
      /\ FirstStep[job.kind] = "record" => job.kind \in {"delete", "embed", "forget"}
  BY <1>2 DEF FirstStep, Kind
<1>5. job.kind = "create" => sent.files = {}
  BY <1>1 DEF Sent, NoData
<1>6. ~Replaces(m) /\ ~Replaces(m)' /\ Reads(m)'
  BY <1>3, <1>4, <1>5 DEF Replaces, Reads, JobOf
<1>7. Still /\ Dated'
  BY <1>3, StillWhen, DatedStays DEF SearchDue
<1>8. QED
  BY <1>3, <1>6, <1>7, StillStep

LEMMA SearchReadsModel ==
  ASSUME StoreInv, TypeInv, Turns, SearchDue, NEW m \in Managers, ReadsModel(m)
  PROVE  SearchDue'
<1>1. Busy(m) /\ ~Replaces(m) /\ UNCHANGED <<rows, embeddings, last>>
  BY DEF ReadsModel, Busy, Now, Replaces
<1>2. Still /\ Dated'
  BY <1>1, StillWhen, DatedStays DEF SearchDue
<1>3. CASE Ends(m)
  BY <1>1, <1>2, <1>3, IdleFields, CarelessStep DEF Careless
<1>4. CASE ~Ends(m)
  <2>1. PICK i \in Of(JobOf(m).p, rows) : manager' = [manager EXCEPT ![m].at = "record", ![m].read = Decompress(rows[i])]
    BY <1>4 DEF ReadsModel
  <2>2. /\ Alone(m) /\ manager'[m].at = "record" /\ manager'[m].job = manager[m].job
        /\ manager'[m].read = Decompress(rows[i])
    BY <2>1 DEF TypeInv, ManagersTyped, ManagerTyped, Alone
  <2>3. ASSUME JobOf(m).p = "google", NEW j \in Google PROVE Decompress(rows[i]) = rows[j].data
    BY <2>3 DEF Google, Of, Turns, Single, Decompress
  <2>4. ~Replaces(m)' /\ Reads(m)'
    BY <1>1, <1>2, <2>2, <2>3 DEF Replaces, Reads, JobOf, Still
  <2>5. QED
    BY <1>1, <1>2, <2>2, <2>4, StillStep
<1>5. QED
  BY <1>3, <1>4

\* A model of Google is about to be saved with the files that were sent.
LEMMA SearchReadsRecord ==
  ASSUME StoreInv, TypeInv, Turns, SearchDue, SearchInTurn', NEW m \in Managers, ReadsRecord(m)
  PROVE  SearchDue'
<1> DEFINE me == manager[m]
           saw == RecordOf(JobOf(m).p)
           left == IF FilesChanged(m) THEN me.sent.files ELSE {}
<1>1. Busy(m) /\ Now(m, "record") /\ ~Replaces(m) /\ UNCHANGED <<rows, embeddings, last>> /\ Told(m)
  BY DEF ReadsRecord, Busy, Now, Replaces, Turns
<1>2. Still /\ Dated' /\ Listed /\ Reads(m)
  BY <1>1, StillWhen, DatedStays, SearchBefore DEF SearchDue, Embeds
<1>3. CASE Ends(m)
  BY <1>1, <1>2, <1>3, IdleFields, CarelessStep DEF Careless
<1>4. CASE ~Ends(m)
  <2>1. /\ saw # NoRow /\ ~(JobOf(m).kind = "update" /\ JobOf(m).p = "google" /\ saw.agent = None)
        /\ manager' = [manager EXCEPT ![m].at = AfterRecord(m), ![m].saw = saw, ![m].sent = Updated(m),
                          ![m].left = left, ![m].umcr = [agent |-> saw.agent, ids |-> KeptIds(m, saw)]]
    BY <1>4 DEF ReadsRecord
  <2>2. /\ Alone(m) /\ manager'[m].at = AfterRecord(m) /\ manager'[m].job = me.job
        /\ manager'[m].sent = Updated(m) /\ manager'[m].saw = saw /\ manager'[m].umcr.agent = saw.agent
        /\ manager'[m].left = left
    <3> HIDE DEF left
    <3> QED
      BY <2>1 DEF TypeInv, ManagersTyped, ManagerTyped, Alone
  <2>3. JobOf(m).kind \in {"update", "store", "delete", "embed", "forget"}
    BY <1>1 DEF Told, Course, Now
  <2>4. /\ AfterRecord(m) \in {"embed", "forget", "agent", "clean", "remove", "fetch", "save"}
        /\ Reads(m)'
    <3>1. AfterRecord(m) \in {"embed", "forget", "agent", "clean", "remove", "fetch", "save"}
      BY DEF AfterRecord, GoogleStep
    <3>2. QED
      BY <2>2, <2>3, <3>1 DEF Reads, JobOf
  <2>5. CASE ~Replaces(m)'
    BY <1>1, <1>2, <2>2, <2>4, <2>5, StillStep
  <2>6. CASE Replaces(m)'
    <3>1. /\ JobOf(m).p = "google" /\ JobOf(m).kind \in {"update", "store"}
          /\ AfterRecord(m) \in {"clean", "fetch", "save"}
      <4>1. JobOf(m).p = "google" /\ AfterRecord(m) \in {"clean", "fetch", "save"}
        BY <2>2, <2>4, <2>6 DEF Replaces, JobOf
      <4>2. QED
        BY <2>3, <4>1 DEF AfterRecord
    <3>2. me.sent \in Data /\ Updated(m).files = me.sent.files
      <4>1. me.sent \in Data
        BY DEF TypeInv, ManagersTyped, ManagerTyped
      <4>2. Updated(m) = [me.sent EXCEPT !.library = None]
        BY <3>1 DEF Updated
      <4>3. QED
        BY <4>1, <4>2 DEF Data
    <3>3. PICK id : id = saw.id /\ Google = {id} /\ me.read.files = rows[id].data.files /\ Texts(id) = me.read.files
      <4>1. Google = {saw.id}
        BY <2>1, <3>1, RecordIsModel DEF Google
      <4>2. QED
        BY <1>1, <1>2, <3>1, <4>1 DEF Reads, Now, Listed
    <3>4. /\ JobOf(m).kind = "update" => me.sent.search
          /\ JobOf(m).kind = "store" => Unchanged(m)
      <4>1. "hidden" \notin past'
        BY DEF SearchInTurn, Never
      <4>2. QED
        BY <3>1, <4>1 DEF ReadsRecord, Marks
    <3>5. Texts(id)' = Texts(id) /\ Texts(manager[m].saw.id)' = Texts(id)' /\ rows'[manager'[m].saw.id] = rows[id]
      BY <1>1, <2>2, <3>3 DEF Texts
    <3>6. CASE JobOf(m).kind = "store"
      <4>1. AfterRecord(m) = "save" /\ me.sent.files = me.read.files
        BY <3>1, <3>4, <3>6 DEF AfterRecord, Unchanged
      <4>2. Embeds(m)'
        <5>1. manager'[m].at = "save" /\ manager'[m].sent.files = me.read.files /\ JobOf(m)'.kind = "store"
          BY <2>2, <3>2, <3>6, <4>1 DEF JobOf
        <5>2. QED
          BY <2>6, <3>3, <3>5, <5>1 DEF Embeds
      <4>3. QED
        BY <1>1, <1>2, <2>2, <2>4, <4>2, SearchFrame
    <3>7. CASE JobOf(m).kind = "update"
      <4>1. AfterRecord(m) = GoogleStep(m) /\ ~SearchOff(m) /\ (FilesChanged(m) <=> ~Unchanged(m))
        BY <3>1, <3>4, <3>7 DEF AfterRecord, SearchOff, FilesChanged
      <4>2. /\ AfterRecord(m) = "clean" => left = me.sent.files
            /\ AfterRecord(m) = "fetch" => left = me.sent.files /\ me.read.files = {}
            /\ AfterRecord(m) = "save" => me.sent.files = me.read.files
        BY <4>1 DEF GoogleStep, Unchanged
      <4>3. Embeds(m)'
        <5> HIDE DEF left
        <5>1. /\ manager'[m].at = "clean" => manager'[m].left = manager'[m].sent.files
              /\ manager'[m].at = "fetch" => Texts(id) \cup manager'[m].left = manager'[m].sent.files
              /\ manager'[m].at \in {"save", "commit"} => Texts(id) = manager'[m].sent.files
          BY <2>2, <2>4, <3>2, <3>3, <4>2
        <5>2. saw.agent # None
          BY <2>1, <3>1, <3>7
        <5>3. QED
          BY <2>2, <2>4, <2>6, <3>5, <3>7, <5>1, <5>2 DEF Embeds, JobOf
      <4>4. QED
        BY <1>1, <1>2, <2>2, <2>4, <4>3, SearchFrame
    <3>8. QED
      BY <3>1, <3>6, <3>7
  <2>7. QED
    BY <2>5, <2>6
<1>5. QED
  BY <1>3, <1>4

LEMMA SearchCalls ==
  ASSUME StoreInv, TypeInv, Turns, SearchDue, NEW m \in Managers, CallsMistral(m) PROVE SearchDue'
<1> USE DEF CallsMistral
<1>1. Busy(m) /\ ~Replaces(m) /\ UNCHANGED <<rows, embeddings>> /\ last'.row = last.row /\ Told(m)
  BY CarriesKeeps DEF CanCall, Calls, Busy, Now, Replaces, Turns
<1>2. Still /\ Dated' /\ Reads(m)
  BY <1>1, StillWhen, DatedStays, SearchBefore DEF SearchDue
<1>3. CASE Now(m, "make")
  <2>1. JobOf(m).p = "mistral"
    BY <1>3 DEF CanCall
  <2>2. /\ Alone(m) /\ manager'[m].at = "save" /\ manager'[m].job = manager[m].job
        /\ manager'[m].sent = manager[m].sent
    BY <1>3 DEF TypeInv, ManagersTyped, ManagerTyped, Alone
  <2>3. ~Replaces(m)' /\ Reads(m)'
    BY <1>2, <1>3, <2>1, <2>2 DEF Replaces, Reads, JobOf, Now
  <2>4. QED
    BY <1>1, <1>2, <2>2, <2>3, StillStep
<1>4. CASE Now(m, "makelib")
  <2>1. Alone(m) /\ manager'[m].at = "keep"
    BY <1>4 DEF Now, TypeInv, ManagersTyped, ManagerTyped, Alone
  <2>2. QED
    BY <1>1, <1>2, <2>1, CarelessStep DEF Careless
<1>5. CASE ~Now(m, "make") /\ ~Now(m, "makelib")
  <2>1. GoesOr(m, AfterCall(m))
    BY <1>5
  <2>2. /\ AfterCall(m) \in Careless \cup {"make"}
        /\ AfterCall(m) = "make" => JobOf(m).kind = "update"
    BY <1>5 DEF AfterCall, AfterAgent, Careless, CanCall, Calls, Now
  <2>3. Alone(m) /\ manager'[m].at = AfterCall(m) /\ (AfterCall(m) = "make" => manager'[m].job = manager[m].job)
    BY <2>1, GoFields DEF TypeInv, ManagersTyped, ManagerTyped
  <2>4. CASE AfterCall(m) = "make"
    <3>1. ~Replaces(m)' /\ Reads(m)'
      BY <2>2, <2>3, <2>4 DEF Replaces, Reads, JobOf
    <3>2. QED
      BY <1>1, <1>2, <2>3, <3>1, StillStep
  <2>5. QED
    BY <1>1, <1>2, <2>2, <2>3, <2>4, CarelessStep
<1>6. QED
  BY <1>3, <1>4, <1>5

LEMMA SearchMakesNoAgent ==
  ASSUME StoreInv, TypeInv, Turns, SearchDue, NEW m \in Managers, MakesNoAgent(m) PROVE SearchDue'
<1>1. Busy(m) /\ ~Replaces(m) /\ UNCHANGED <<rows, embeddings, last>> /\ Told(m) /\ Now(m, "make") /\ JobOf(m).p # "mistral"
  BY DEF MakesNoAgent, Busy, Now, Replaces, Turns
<1>2. Still /\ Dated' /\ Reads(m)
  BY <1>1, StillWhen, DatedStays, SearchBefore DEF SearchDue
<1>3. JobOf(m).kind = "create"
  BY <1>1 DEF Told, Course, Now
<1>4. /\ Alone(m) /\ manager'[m].at = "save" /\ manager'[m].job = manager[m].job /\ manager'[m].sent = manager[m].sent
  BY DEF MakesNoAgent, TypeInv, ManagersTyped, ManagerTyped, Alone
<1>5. ~Replaces(m)' /\ Reads(m)'
  BY <1>1, <1>2, <1>3, <1>4 DEF Replaces, Reads, JobOf, Now
<1>6. QED
  BY <1>1, <1>2, <1>4, <1>5, StillStep

\* The actions that have to do with no files and leave their manager so.
LEMMA SearchPlain ==
  ASSUME StoreInv, TypeInv, Turns, SearchDue, NEW m \in Managers,
         \/ UploadRefused(m) \/ DisableAllUserChannel(m) \/ ReadsNext(m) \/ SetActiveModelByProvider(m)
         \/ SyncProviderModels(m) \/ FindsLibrary(m) \/ ReadsRow(m) \/ UpdateUserGPT(m)
  PROVE  SearchDue'
<1>1. Busy(m) /\ ~Replaces(m) /\ UNCHANGED <<embeddings, last>>
  BY DEF UploadRefused, DisableAllUserChannel, ReadsNext, SetActiveModelByProvider, SyncProviderModels,
         FindsLibrary, ReadsRow, UpdateUserGPT, Busy, Now, Replaces
<1>2. Still
  <2>1. CASE UNCHANGED rows
    BY <1>1, <2>1, StillWhen
  <2>2. CASE SyncProviderModels(m)
    BY <1>1, <2>2 DEF SyncProviderModels, Still, Google, Of, Texts, TypeInv, RowsTyped, Row
  <2>3. ASSUME NEW i, rows' = Switched(i) PROVE Still
    BY <1>1, <2>3 DEF Switched, Still, Google, Of, Texts, TypeInv, RowsTyped, Row
  <2>4. CASE UpdateUserGPT(m)
    BY <1>1, <2>4 DEF UpdateUserGPT, Still, Google, Of, Texts, TypeInv, RowsTyped, Row
  <2>5. QED
    BY <2>1, <2>2, <2>3, <2>4 DEF UploadRefused, DisableAllUserChannel, ReadsNext, SetActiveModelByProvider,
       FindsLibrary, ReadsRow
<1>3. Alone(m) /\ manager'[m].at \in Careless
  <2>1. CASE UploadRefused(m) \/ SetActiveModelByProvider(m) \/ SyncProviderModels(m)
    BY <2>1, IdleFields DEF UploadRefused, SetActiveModelByProvider, SyncProviderModels, Careless
  <2>2. CASE DisableAllUserChannel(m)
    BY <2>2, GoFields DEF DisableAllUserChannel, AfterRemoval, Careless
  <2>3. CASE ReadsNext(m)
    BY <2>3, IdleFields DEF ReadsNext, Careless, TypeInv, ManagersTyped, ManagerTyped, Alone
  <2>4. CASE FindsLibrary(m)
    <3>1. CASE RecordOf("mistral").ids.library # None
      BY <2>4, <3>1 DEF FindsLibrary, Careless, TypeInv, ManagersTyped, ManagerTyped, Alone
    <3>2. CASE RecordOf("mistral").ids.library = None
      BY <2>4, <3>2, GoFields DEF FindsLibrary, Careless
    <3>3. QED
      BY <3>1, <3>2
  <2>5. CASE ReadsRow(m)
    <3> DEFINE saw == RecordOf("mistral")
    <3>1. AfterRow(m, saw) \in Careless
      BY DEF AfterRow, Careless
    <3>2. QED
      BY <2>5, <3>1, IdleFields DEF ReadsRow, Careless, TypeInv, ManagersTyped, ManagerTyped, Alone
  <2>6. CASE UpdateUserGPT(m)
    BY <2>6, GoFields DEF UpdateUserGPT, AfterWrite, Careless
  <2>7. QED
    BY <2>1, <2>2, <2>3, <2>4, <2>5, <2>6
<1>4. Dated'
  BY <1>1, DatedStays DEF SearchDue
<1>5. QED
  BY <1>1, <1>2, <1>3, <1>4, CarelessStep

\* Documents uploaded one by one are embedded apart from the files of a model.
LEMMA SearchDocuments ==
  ASSUME StoreInv, TypeInv, Turns, SearchDue, SearchInTurn', NEW m \in Managers,
         GeneratesEmbedding(m) \/ SaveEmbedding(m) \/ DeleteEmbedding(m)
  PROVE  SearchDue'
<1>1. Busy(m) /\ ~Replaces(m) /\ UNCHANGED <<rows, last>>
  BY DEF GeneratesEmbedding, SaveEmbedding, DeleteEmbedding, Busy, Now, Replaces
<1>2. Dated /\ Reads(m)
  BY <1>1, SearchBefore
<1>3. CASE GeneratesEmbedding(m)
  <2>1. Alone(m) /\ manager'[m].at = "embedding" /\ manager'[m].key = second
    BY <1>3 DEF GeneratesEmbedding, TypeInv, ManagersTyped, ManagerTyped, Alone
  <2>2. second # 0
    BY BoundsAssumption DEF TypeInv, RestTyped
  <2>3. ~Replaces(m)' /\ Reads(m)'
    BY <2>1, <2>2 DEF Replaces, Reads
  <2>4. Still /\ Dated'
    BY <1>1, <1>2, <1>3, StillWhen, DatedStays DEF GeneratesEmbedding
  <2>5. QED
    BY <1>1, <2>1, <2>3, <2>4, StillStep
<1>4. CASE SaveEmbedding(m)
  <2>1. Alone(m) /\ manager'[m].at \in Careless
    BY <1>4, IdleFields DEF SaveEmbedding, Careless
  <2>2. Still /\ Dated'
    <3>1. CASE UNCHANGED embeddings
      BY <1>1, <1>2, <3>1, StillWhen, DatedStays
    <3>2. CASE manager[m].saw.id \in DOMAIN rows /\ \E text \in JobOf(m).docs : Upserts(manager[m].saw.id, manager[m].key, text)
      <4> DEFINE id == manager[m].saw.id
                 key == manager[m].key
      <4>1. PICK text : Upserts(id, key, text)
        BY <3>2
      <4>2. key # 0
        BY <1>2, <1>4 DEF SaveEmbedding, Now, Reads
      <4>3. id \in 1 .. last.row
        BY <3>2 DEF StoreInv, Shape, RowShape
      <4>4. embeddings' = {e \in embeddings : <<e.model, e.key>> # <<id, key>>} \cup {[model |-> id, key |-> key, text |-> text]}
        BY <4>1 DEF Upserts
      <4>5. {x \in embeddings' : x.key = 0} = {x \in embeddings : x.key = 0}
        BY <4>2, <4>4
      <4>6. \A i : Texts(i)' = Texts(i)
        <5> SUFFICES ASSUME NEW i PROVE {x \in embeddings' : x.model = i /\ x.key = 0} = {x \in embeddings : x.model = i /\ x.key = 0}
          BY DEF Texts
        <5> QED
          BY <4>5
      <4>7. Still
        BY <1>1, <4>6 DEF Still, Google
      <4>8. Dated'
        BY <1>1, <1>2, <4>3, <4>4 DEF Dated
      <4>9. QED
        BY <4>7, <4>8
    <3>3. QED
      BY <1>4, <3>1, <3>2 DEF SaveEmbedding
  <2>3. QED
    BY <1>1, <2>1, <2>2, CarelessStep
<1>5. CASE DeleteEmbedding(m)
  <2>1. Alone(m) /\ manager'[m].at \in Careless
    BY <1>5, IdleFields DEF DeleteEmbedding, Careless
  <2>2. Still /\ Dated'
    <3>1. CASE UNCHANGED embeddings
      BY <1>1, <1>2, <3>1, StillWhen, DatedStays
    <3>2. ASSUME NEW e \in embeddings, embeddings' = embeddings \ {e}, Marks(IF e.key = 0 THEN {"hidden"} ELSE {})
          PROVE  Still /\ Dated'
      <4>1. e.key # 0
        BY <3>2 DEF Marks, SearchInTurn, Never
      <4>2. \A i : {x \in embeddings' : x.model = i /\ x.key = 0} = {x \in embeddings : x.model = i /\ x.key = 0}
        BY <3>2, <4>1
      <4>3. \A i : Texts(i)' = Texts(i)
        BY <4>2 DEF Texts
      <4>4. QED
        BY <1>1, <1>2, <3>2, <4>3 DEF Still, Google, Dated
    <3>3. QED
      BY <1>5, <3>1, <3>2 DEF DeleteEmbedding
  <2>3. QED
    BY <1>1, <2>1, <2>2, CarelessStep
<1>6. QED
  BY <1>3, <1>4, <1>5

\* The files of a model go all at once and come one by one.
LEMMA SearchCleans ==
  ASSUME StoreInv, TypeInv, Turns, SearchDue, NEW m \in Managers, DeleteAllModelEmbeddings(m) PROVE SearchDue'
<1> DEFINE me == manager[m]
           next == AfterClean(m)
<1>1. /\ Busy(m) /\ Now(m, "clean") /\ UNCHANGED <<rows, last>> /\ Told(m) /\ Current(m, JobOf(m).p)
      /\ embeddings' = {e \in embeddings : e.model # me.saw.id} /\ Goes(m, next)
  BY DEF DeleteAllModelEmbeddings, Busy, Now, Turns, Told, AboutModel
<1>2. /\ Alone(m) /\ manager'[m].at = next /\ manager'[m].job = me.job /\ manager'[m].left = me.left
      /\ manager'[m].sent = me.sent /\ manager'[m].saw = me.saw /\ manager'[m].umcr = me.umcr
  BY <1>1 DEF Goes, TypeInv, ManagersTyped, ManagerTyped, Alone
<1>3. Dated' /\ Embeds(m)
  BY <1>1, SearchBefore DEF Dated
<1>4. CASE JobOf(m).p = "google"
  <2>1. JobOf(m).kind = "update" /\ Replaces(m) /\ me.left = me.sent.files /\ me.umcr.agent # None
    BY <1>1, <1>3, <1>4 DEF Told, Course, Now, Replaces, Embeds
  <2>2. Texts(me.saw.id)' = {} /\ manager'[m].saw.id = me.saw.id
    BY <1>1, <1>2 DEF Texts
  <2>3. next = IF me.left = {} THEN "save" ELSE "fetch"
    BY <2>1 DEF AfterClean
  <2>4. Embeds(m)'
    <3>1. Replaces(m)' /\ JobOf(m)'.kind = "update"
      BY <1>2, <1>4, <2>1, <2>3 DEF Replaces, JobOf
    <3>2. Texts(manager[m].saw.id)' = {}
      BY <1>1, <1>2 DEF Texts
    <3>3. QED
      BY <1>2, <2>1, <2>3, <3>1, <3>2 DEF Embeds
  <2>5. Reads(m)'
    BY <1>2, <2>1, <2>3 DEF Reads, JobOf
  <2>6. QED
    BY <1>1, <1>2, <1>3, <2>4, <2>5, SearchFrame
<1>5. CASE JobOf(m).p # "google"
  <2>1. next = "remove" /\ ~Replaces(m)
    BY <1>1, <1>5 DEF Told, Course, Now, AfterClean, Replaces
  <2>2. me.saw.id \notin Google
    BY <1>1, <1>5 DEF Current, Google, Of
  <2>3. Still
    BY <1>1, <2>2 DEF Still, Google, Texts
  <2>4. QED
    BY <1>1, <1>2, <1>3, <2>1, <2>3, CarelessStep DEF Careless
<1>6. QED
  BY <1>4, <1>5

LEMMA SearchEmbeds ==
  ASSUME StoreInv, TypeInv, Turns, SearchDue, NEW m \in Managers, EmbedsFile(m) PROVE SearchDue'
<1> DEFINE me == manager[m]
<1>1. /\ Busy(m) /\ Now(m, "fetch") /\ UNCHANGED <<rows, last>> /\ Told(m) /\ Current(m, "google")
      /\ JobOf(m).kind = "update" /\ JobOf(m).p = "google"
  BY DEF EmbedsFile, Busy, Now, Turns, Told, AboutModel, Course
<1>2. PICK text \in me.left :
        /\ AfterFile(m, text)
        /\ embeddings' = embeddings \cup {[model |-> me.saw.id, key |-> 0, text |-> text]}
  BY <1>1 DEF EmbedsFile, Current
<1>3. PICK next \in {"save", "fetch"} : next = IF me.left = {text} THEN "save" ELSE "fetch"
  OBVIOUS
<1>4. /\ Alone(m) /\ manager'[m].at = next /\ manager'[m].job = me.job /\ manager'[m].left = me.left \ {text}
      /\ manager'[m].sent = me.sent /\ manager'[m].saw = me.saw /\ manager'[m].umcr = me.umcr
  BY <1>2, <1>3 DEF AfterFile, TypeInv, ManagersTyped, ManagerTyped, Alone
<1>5. me.saw.id \in 1 .. last.row
  BY <1>1 DEF Current, StoreInv, Shape, RowShape
<1>6. Dated' /\ Embeds(m)
  BY <1>1, <1>2, <1>5, SearchBefore DEF Dated
<1>7. Replaces(m) /\ Texts(me.saw.id) \cup me.left = me.sent.files /\ me.umcr.agent # None
  BY <1>1, <1>6 DEF Replaces, Embeds, Now
<1>8. Texts(manager[m].saw.id)' = Texts(me.saw.id) \cup {text}
  <2> DEFINE new == [model |-> me.saw.id, key |-> 0, text |-> text]
             before == {e \in embeddings : e.model = me.saw.id /\ e.key = 0}
             after == {e \in embeddings' : e.model = me.saw.id /\ e.key = 0}
  <2>1. after = before \cup {new}
    BY <1>2
  <2>2. new.text = text
    OBVIOUS
  <2>3. {e.text : e \in after} = {e.text : e \in before} \cup {text}
    <3> HIDE DEF new, before, after
    <3> QED
      BY <2>1, <2>2
  <2>4. Texts(manager[m].saw.id)' = {e.text : e \in after}
    BY <1>4 DEF Texts
  <2>5. QED
    BY <2>3, <2>4 DEF Texts
<1>9. Embeds(m)'
  <2>1. Replaces(m)' /\ JobOf(m)'.kind = "update"
    BY <1>1, <1>3, <1>4 DEF Replaces, JobOf
  <2>2. QED
    BY <1>3, <1>4, <1>7, <1>8, <2>1 DEF Embeds
<1>10. Reads(m)'
  BY <1>1, <1>4 DEF Reads, JobOf
<1>11. QED
  BY <1>1, <1>4, <1>6, <1>9, <1>10, SearchFrame

LEMMA SearchTransactionBegins ==
  ASSUME StoreInv, TypeInv, Turns, SearchDue, NEW m \in Managers, SaveBegins(m) \/ RemoveBegins(m) PROVE SearchDue'
<1>1. Busy(m) /\ Told(m) /\ UNCHANGED <<rows, embeddings, last>>
  BY DEF SaveBegins, RemoveBegins, Busy, Now, Turns
<1>2. Still /\ Dated' /\ Embeds(m) /\ Reads(m)
  BY <1>1, StillWhen, DatedStays, SearchBefore DEF SearchDue
<1>3. CASE Ends(m)
  <2>1. Alone(m) /\ manager'[m].at = "idle"
    BY <1>3, IdleFields
  <2>2. CASE Replaces(m)
    <3>1. SaveBegins(m) /\ manager[m].umcr.agent = None
      <4>1. ~RemoveBegins(m)
        BY <2>2 DEF RemoveBegins, Replaces, Now
      <4>2. manager'[m].at # "commit"
        BY <2>1
      <4>3. QED
        BY <4>1, <4>2 DEF SaveBegins, TypeInv, ManagersTyped, ManagerTyped
    <3>2. JobOf(m).kind = "store"
      BY <1>1, <1>2, <2>2, <3>1 DEF Told, Course, SaveBegins, Replaces, Embeds, Now
    <3>3. Current(m, "google")
      BY <1>1, <2>2, <3>1, <3>2 DEF Told, AboutModel, SaveBegins, Replaces, Now
    <3>4. Listed
      BY <1>2, <2>2, <3>1, <3>2, <3>3, GoogleRow DEF Listed, Embeds, SaveBegins, Now
    <3>5. Listed'
      BY <1>2, <3>4 DEF Listed, Still
    <3>6. Embeds(m)' /\ Reads(m)'
      BY <2>1, <3>5 DEF Embeds, Reads, Replaces
    <3>7. QED
      BY <1>1, <1>2, <2>1, <3>6, SearchFrame
  <2>3. CASE ~Replaces(m)
    BY <1>1, <1>2, <2>1, <2>3, CarelessStep DEF Careless
  <2>4. QED
    BY <2>2, <2>3
<1>4. CASE RemoveBegins(m) /\ manager' = [manager EXCEPT ![m].at = "unlink", ![m].snap = rows]
  <2>1. Alone(m) /\ manager'[m].at = "unlink" /\ ~Replaces(m)
    BY <1>4 DEF RemoveBegins, Now, Replaces, TypeInv, ManagersTyped, ManagerTyped, Alone
  <2>2. QED
    BY <1>1, <1>2, <2>1, CarelessStep DEF Careless
<1>5. CASE SaveBegins(m) /\ manager' = [manager EXCEPT ![m].at = "commit", ![m].snap = rows]
  <2>1. /\ Alone(m) /\ manager'[m].at = "commit" /\ manager'[m].job = manager[m].job /\ manager[m].at = "save"
        /\ manager'[m].saw = manager[m].saw /\ manager'[m].umcr = manager[m].umcr /\ manager'[m].sent = manager[m].sent
    BY <1>5 DEF SaveBegins, Now, TypeInv, ManagersTyped, ManagerTyped, Alone
  <2>2. Replaces(m)' = Replaces(m) /\ Listed' = Listed
    BY <1>1, <2>1 DEF Replaces, JobOf, Listed, Google, Texts
  <2>3. Texts(manager[m].saw.id)' = Texts(manager[m].saw.id) /\ rows'[manager'[m].saw.id] = rows[manager[m].saw.id]
    BY <1>1, <2>1 DEF Texts
  <2>4. JobOf(m)' = JobOf(m)
    BY <2>1 DEF JobOf
  <2>5. Embeds(m)'
    BY <1>2, <2>1, <2>2, <2>3, <2>4 DEF Embeds
  <2>6. Reads(m)'
    BY <1>2, <2>1, <2>4 DEF Reads
  <2>7. QED
    BY <1>1, <1>2, <2>1, <2>5, <2>6, SearchFrame
<1>6. QED
  BY <1>3, <1>4, <1>5 DEF SaveBegins, RemoveBegins

LEMMA SearchSaveCommits ==
  ASSUME StoreInv, TypeInv, Turns, SearchDue, SearchInTurn', NEW m \in Managers, SaveCommits(m) PROVE SearchDue'
<1> DEFINE me == manager[m]
<1>1. /\ Busy(m) /\ Told(m) /\ Alone(m) /\ manager'[m].at = "idle" /\ me.snap = rows
      /\ Now(m, "commit") /\ embeddings' = embeddings
  BY IdleFields DEF SaveCommits, Busy, Now, Turns, Told, InTransaction
<1>2. Dated /\ Embeds(m) /\ Reads(m)
  BY <1>1, SearchBefore
<1>3. ~Replaces(m)' /\ Reads(m)'
  BY <1>1 DEF Replaces, Reads
<1>4. CASE Inserts(m)
  <2> DEFINE new == last.row + 1
  <2>1. /\ DOMAIN rows' = DOMAIN rows \cup {new} /\ new \notin DOMAIN rows
        /\ rows'[new].provider = JobOf(m).p /\ rows'[new].data = me.sent
        /\ \A k \in DOMAIN rows : rows'[k] = rows[k]
        /\ Of(JobOf(m).p, rows) = {} /\ last'.row = new /\ last.row \in Nat
    BY <1>1, <1>4 DEF Inserts, With, StoreInv, Shape, RowShape
  <2>2. Dated'
    BY <1>1, <1>2, <2>1 DEF Dated
  <2>3. JobOf(m).p = "google" => JobOf(m).kind = "create"
    <3>1. ~Current(m, JobOf(m).p)
      BY <2>1 DEF Current, Of
    <3>2. QED
      BY <1>1, <3>1 DEF Told, Course, AboutModel, Now
  <2>4. Listed
    BY <1>2, <2>3 DEF Embeds, Replaces
  <2>5. \A i : Texts(i)' = Texts(i)
    BY <1>1 DEF Texts
  <2>6. Texts(new) = {}
    BY <1>2, <2>1 DEF Dated, Texts
  <2>7. JobOf(m).p = "google" => rows'[new].data.files = {}
    BY <1>1, <1>2, <2>1, <2>3 DEF Reads, Now
  <2>8. Listed'
    <3> SUFFICES ASSUME NEW i \in Google' PROVE rows'[i].data.files = Texts(i)'
      BY DEF Listed
    <3>1. CASE i = new
      BY <2>1, <2>5, <2>6, <2>7, <3>1 DEF Google, Of
    <3>2. CASE i # new
      BY <2>1, <2>4, <2>5, <3>2 DEF Google, Of, Listed
    <3>3. QED
      BY <3>1, <3>2
  <2>9. QED
    BY <1>1, <1>3, <2>2, <2>8, SearchFrame DEF Embeds
<1>5. CASE Updates(m)
  <2>1. PICK i \in Of(JobOf(m).p, rows) :
           rows' = [k \in DOMAIN rows |->
                      IF k = i THEN [rows[k] EXCEPT !.agent = me.umcr.agent, !.ids = me.umcr.ids, !.data = me.sent]
                      ELSE rows[k]]
    BY <1>1, <1>5 DEF Updates
  <2>2. /\ DOMAIN rows' = DOMAIN rows /\ i \in DOMAIN rows /\ rows[i].provider = JobOf(m).p
        /\ \A k \in DOMAIN rows : rows[k] \in Row
        /\ \A k \in DOMAIN rows : k # i => rows'[k] = rows[k]
        /\ rows'[i] = [rows[i] EXCEPT !.agent = me.umcr.agent, !.ids = me.umcr.ids, !.data = me.sent]
    BY <2>1 DEF Of, TypeInv, RowsTyped
  <2>3. rows'[i].data = me.sent /\ \A k \in DOMAIN rows : rows'[k].provider = rows[k].provider
    BY <2>2 DEF Row
  <2>4. Google' = Google
    BY <2>2, <2>3 DEF Google, Of
  <2>5. Dated' /\ \A k : Texts(k)' = Texts(k)
    BY <1>1, <1>2, <1>5, DatedStays DEF Texts, Updates
  <2>6. JobOf(m).kind # "create"
    BY <1>5 DEF Updates, Marks, SearchInTurn, Never
  <2>7. Listed'
    <3>1. CASE JobOf(m).p = "google"
      <4>1. Current(m, "google")
        BY <1>1, <2>6, <3>1 DEF Told, AboutModel, Now
      <4>2. Google = {i} /\ i = me.saw.id
        BY <2>1, <3>1, <4>1, GoogleRow DEF Google
      <4>3. Texts(i) = me.sent.files
        BY <1>1, <1>2, <2>6, <3>1, <4>2 DEF Embeds, Replaces, Now
      <4>4. QED
        BY <2>3, <2>4, <2>5, <4>2, <4>3 DEF Listed
    <3>2. CASE JobOf(m).p # "google"
      <4>1. Listed /\ \A k \in Google : rows'[k] = rows[k]
        BY <1>2, <2>2, <3>2 DEF Embeds, Replaces, Google, Of
      <4>2. QED
        BY <2>4, <2>5, <4>1 DEF Listed
    <3>3. QED
      BY <3>1, <3>2
  <2>8. QED
    BY <1>1, <1>3, <2>5, <2>7, SearchFrame DEF Embeds
<1>6. QED
  BY <1>4, <1>5 DEF SaveCommits

LEMMA SearchRemoveCommits ==
  ASSUME StoreInv, TypeInv, Turns, SearchDue, NEW m \in Managers, RemoveCommits(m) PROVE SearchDue'
<1> DEFINE id == manager[m].saw.id
<1>1. /\ Busy(m) /\ ~Replaces(m) /\ UNCHANGED last /\ embeddings' = {e \in embeddings : e.model # id}
      /\ Alone(m) /\ manager'[m].at \in Careless
  <2>1. AfterUnlink(m) \in Careless
    BY DEF AfterUnlink, AfterRemoval, Careless
  <2>2. QED
    BY <2>1, GoFields DEF RemoveCommits, Busy, Now, Replaces
<1>2. Dated' /\ Listed
  BY <1>1, SearchBefore DEF Dated, Embeds
<1>3. \A k \in DOMAIN rows : rows[k] \in Row
  BY DEF TypeInv, RowsTyped
<1>4. /\ DOMAIN rows' = DOMAIN rows \ {id}
      /\ \A k \in DOMAIN rows' : rows'[k].provider = rows[k].provider /\ rows'[k].data = rows[k].data
  BY ZenonT(40), <1>3, RemovalRows DEF Row
<1>5. \A k : k # id => Texts(k)' = Texts(k)
  <2> SUFFICES ASSUME NEW k, k # id
               PROVE  {x \in embeddings' : x.model = k /\ x.key = 0} = {x \in embeddings : x.model = k /\ x.key = 0}
    BY DEF Texts
  <2> QED
    BY <1>1
<1>6. Listed'
  BY <1>2, <1>4, <1>5 DEF Listed, Google, Of
<1>7. Embeds(m)' /\ Reads(m)'
  BY <1>1, <1>6 DEF Careless, Embeds, Replaces, Reads
<1>8. QED
  BY <1>1, <1>2, <1>7, SearchFrame

LEMMA SearchDoes ==
  ASSUME StoreInv, TypeInv, Turns, SearchDue, SearchInTurn', NEW m \in Managers, Does(m) PROVE SearchDue'
BY SearchReadsModel, SearchReadsRecord, SearchCalls, SearchMakesNoAgent, SearchPlain, SearchDocuments, SearchCleans,
   SearchEmbeds, SearchTransactionBegins, SearchSaveCommits, SearchRemoveCommits DEF Does

LEMMA SearchStep == StoreInv /\ TypeInv /\ TurnInv /\ SearchInv /\ [StoreNext]_storevars => SearchInv'
<1> SUFFICES ASSUME StoreInv, TypeInv, TurnInv, SearchInv, [StoreNext]_storevars, SearchInTurn' PROVE SearchDue'
  BY DEF SearchInv
<1>1. ASSUME NEW m \in Managers,
             (\E job \in scene.jobs : Begins(m, job)) \/ Does(m) \/ Fails(m) \/ RemoveUnpicked(m)
      PROVE  SearchDue'
  <2>1. InTurn /\ ~Fails(m) /\ ~RemoveUnpicked(m) /\ ((\E job \in scene.jobs : Begins(m, job)) => Rest)
    BY <1>1, TurnKinds DEF SearchInTurn
  <2>2. past \subseteq past'
    BY <1>1, MarksStay
  <2>3. Turns /\ SearchDue
    BY <2>1, <2>2 DEF TurnInv, SearchInv, SearchInTurn, Never
  <2>4. QED
    BY <1>1, <2>1, <2>3, SearchBegins, SearchDoes
<1>2. CASE SecondPasses \/ UNCHANGED storevars
  <2>1. UNCHANGED <<rows, last, embeddings, manager, past>>
    BY <1>2 DEF SecondPasses, storevars
  <2>2. SearchDue
    BY <2>1 DEF SearchInv, SearchInTurn, InTurn, Never
  <2>3. \A m \in Managers : Embeds(m)' = Embeds(m) /\ Reads(m)' = Reads(m) /\ Busy(m)' = Busy(m)
    BY <2>1 DEF Embeds, Reads, Replaces, Listed, Google, Texts, JobOf, Busy, Now
  <2>4. Dated' = Dated /\ Listed' = Listed /\ Rest' = Rest
    BY <2>1 DEF Dated, Listed, Google, Texts, Rest, Busy, Now
  <2>5. QED
    BY <2>2, <2>3, <2>4 DEF SearchDue
<1>3. QED
  BY <1>1, <1>2 DEF StoreNext

LEMMA SearchInit == StoreInit => SearchInv
BY DEF StoreInit, SearchInv, SearchDue, Dated, Listed, Google, Of, Busy, Now, Idle

(***************************************************************************)
(* Calls one after another leave a searchable Google model with embeddings *)
(* of exactly the files it lists, as long as its search is not switched    *)
(* off: updateGoogleModelInPlace, SaveUserModel, RemoveModelFromUser.      *)
(***************************************************************************)
THEOREM ListedIsSearchable == StoreSpec => []ListedAreSearchable
<1>1. SearchInv => ListedAreSearchable
  <2> SUFFICES ASSUME SearchInv, Rest, SearchInTurn
               PROVE  \A i \in Of("google", rows) :
                         rows[i].data.search => rows[i].data.files = {e.text : e \in {x \in embeddings : x.model = i /\ x.key = 0}}
    BY DEF ListedAreSearchable, SearchInTurn, InTurn, Never
  <2>1. Listed
    BY DEF SearchInv, SearchDue
  <2>2. QED
    BY <2>1 DEF Listed, Google, Texts
<1>2. QED
  BY <1>1, StoreInvInit, StoreInvStep, TypeInit, TypeStep, TurnInit, TurnStep, SearchInit, SearchStep, PTL DEF StoreSpec

(***************************************************************************)
(* The files a model lists are those its provider can search.              *)
(***************************************************************************)
THEOREM FilesAreFound == StoreSpec => []FilesMatch
BY LibraryIsListed, ListedIsSearchable, PTL DEF FilesMatch

--------------------------------------------------------------------------------
(***************************************************************************)
(* The rows implement UserModels. While nothing crossed, a provider has    *)
(* one row, so what is shown of it is that row; and what a transaction     *)
(* read says of which provider a row is, so a model is inserted only for   *)
(* one that has none.                                                      *)
(***************************************************************************)
SnapsNamed ==
  \A m \in Managers : InTransaction(m) => \A k \in DOMAIN rows : manager[m].snap[k].provider = rows[k].provider
ProviderInv == Never({"crossed"}) => Single /\ SnapsNamed

\* A step that leaves every row its provider, and one that changes no other
\* row than i.
SameNames == DOMAIN rows' = DOMAIN rows /\ \A k \in DOMAIN rows : rows'[k].provider = rows[k].provider
OnlyRow(i) ==
  /\ SameNames
  /\ \A k \in DOMAIN rows : rows'[k].active = rows[k].active
  /\ \A k \in DOMAIN rows \ {i} : rows'[k] = rows[k]

\* What an insertion, a removal and a switch make of the rows.
AddsRow(i, p) ==
  /\ i \notin DOMAIN rows /\ DOMAIN rows' = DOMAIN rows \cup {i}
  /\ rows'[i].provider = p /\ rows'[i].active = (DOMAIN rows = {})
  /\ \A k \in DOMAIN rows : rows'[k] = rows[k]
TakesRow(i, next) ==
  /\ i \in DOMAIN rows /\ DOMAIN rows' = DOMAIN rows \ {i}
  /\ \A k \in DOMAIN rows' : rows'[k].provider = rows[k].provider /\ ContentOf(rows'[k]) = ContentOf(rows[k])
  /\ IF rows[i].active /\ DOMAIN rows # {i}
     THEN next \in DOMAIN rows' /\ \A k \in DOMAIN rows' : rows'[k].active = (k = next \/ rows[k].active)
     ELSE \A k \in DOMAIN rows' : rows'[k].active = rows[k].active
SwitchesTo(i) ==
  /\ i \in DOMAIN rows /\ SameNames
  /\ \A k \in DOMAIN rows : ContentOf(rows'[k]) = ContentOf(rows[k]) /\ rows'[k].active = (k = i)

LEMMA WrittenRow ==
  ASSUME TypeInv, NEW m \in Managers, Updates(m) \/ UpdateUserGPT(m)
  PROVE  \E i : OnlyRow(i)
<1>1. \A k \in DOMAIN rows : rows[k] \in Row
  BY DEF TypeInv, RowsTyped
<1>2. CASE Updates(m)
  <2> DEFINE Over(r) == [r EXCEPT !.agent = manager[m].umcr.agent, !.ids = manager[m].umcr.ids, !.data = manager[m].sent]
  <2>1. PICK i \in Of(JobOf(m).p, manager[m].snap) :
           rows' = [k \in DOMAIN rows |-> IF k = i THEN Over(rows[k]) ELSE rows[k]]
    BY <1>2 DEF Updates
  <2>2. \A k \in DOMAIN rows : Over(rows[k]).provider = rows[k].provider /\ Over(rows[k]).active = rows[k].active
    BY <1>1 DEF Row
  <2>3. OnlyRow(i)
    <3> HIDE DEF Over
    <3> QED
      BY <2>1, <2>2 DEF OnlyRow, SameNames
  <2>4. QED
    BY <2>3
<1>3. CASE UpdateUserGPT(m)
  <2> DEFINE i == manager[m].saw.id
             Over(r) == [r EXCEPT !.ids = Written(m)]
  <2>1. rows' = [k \in DOMAIN rows |->
                   IF k = i /\ rows[k].agent = manager[m].saw.agent THEN Over(rows[k]) ELSE rows[k]]
    BY <1>3 DEF UpdateUserGPT
  <2>2. \A k \in DOMAIN rows : Over(rows[k]).provider = rows[k].provider /\ Over(rows[k]).active = rows[k].active
    BY <1>1 DEF Row
  <2>3. OnlyRow(i)
    <3> HIDE DEF Over
    <3> QED
      BY <2>1, <2>2 DEF OnlyRow, SameNames
  <2>4. QED
    BY <2>3
<1>4. QED
  BY <1>2, <1>3

LEMMA SyncedRow ==
  ASSUME TypeInv, Single, NEW m \in Managers, SyncProviderModels(m)
  PROVE  \E i : OnlyRow(i)
<1>1. \A k \in DOMAIN rows : rows[k] \in Row
  BY DEF TypeInv, RowsTyped
<1>2. /\ DOMAIN rows' = DOMAIN rows
      /\ \A k \in DOMAIN rows : rows'[k].provider = rows[k].provider /\ rows'[k].active = rows[k].active
      /\ \A k \in DOMAIN rows : rows[k].provider # JobOf(m).p => rows'[k] = rows[k]
  BY <1>1 DEF SyncProviderModels, Row
<1>3. CASE \E i \in DOMAIN rows : rows[i].provider = JobOf(m).p
  <2>1. PICK i \in DOMAIN rows : rows[i].provider = JobOf(m).p
    BY <1>3
  <2>2. \A k \in DOMAIN rows \ {i} : rows[k].provider # JobOf(m).p
    BY <2>1 DEF Single
  <2>3. OnlyRow(i)
    BY <1>2, <2>2 DEF OnlyRow, SameNames
  <2>4. QED
    BY <2>3
<1>4. CASE ~\E i \in DOMAIN rows : rows[i].provider = JobOf(m).p
  <2>1. OnlyRow(0)
    BY <1>2, <1>4 DEF OnlyRow, SameNames
  <2>2. QED
    BY <2>1
<1>5. QED
  BY <1>3, <1>4

LEMMA InsertedRow ==
  ASSUME StoreInv, TypeInv, SnapsNamed, Never({"crossed"}), NEW m \in Managers, SaveCommits(m), Inserts(m)
  PROVE  /\ AddsRow(last.row + 1, JobOf(m).p) /\ rows'[last.row + 1] \in Row
         /\ \A k \in DOMAIN rows : rows[k].provider # JobOf(m).p
<1> DEFINE new == last.row + 1
<1>1. InTransaction(m)
  BY DEF SaveCommits, InTransaction, Now
<1>2. new \notin DOMAIN rows /\ DOMAIN manager[m].snap = DOMAIN rows
  BY <1>1, Committing DEF StoreInv, Shape, RowShape, Agrees
<1>3. DOMAIN rows' = DOMAIN rows \cup {new} /\ \A k \in DOMAIN rows : rows'[k] = rows[k]
  BY <1>2 DEF Inserts, With
<1>4. rows'[new] = [provider |-> JobOf(m).p, active |-> DOMAIN manager[m].snap = {},
                    agent |-> manager[m].umcr.agent, ids |-> manager[m].umcr.ids, data |-> manager[m].sent]
  BY DEF Inserts, With
<1>5. AddsRow(new, JobOf(m).p)
  BY <1>2, <1>3, <1>4 DEF AddsRow
<1>6. rows'[new] \in Row
  <2>1. manager[m].sent \in Data /\ manager[m].umcr.agent \in Agent /\ manager[m].umcr.ids \in VecIds
    BY DEF TypeInv, ManagersTyped, ManagerTyped
  <2>2. JobOf(m).p \in Provider
    BY DEF TypeInv, ManagersTyped, ManagerTyped, JobOf, Job
  <2>3. (DOMAIN manager[m].snap = {}) \in BOOLEAN
    OBVIOUS
  <2>4. QED
    BY <1>4, <2>1, <2>2, <2>3 DEF Row
<1>7. \A k \in DOMAIN rows : rows[k].provider # JobOf(m).p
  BY <1>1, <1>2 DEF Inserts, Of, SnapsNamed
<1>8. QED
  BY <1>5, <1>6, <1>7

LEMMA RemovedRow ==
  ASSUME StoreInv, TypeInv, Never({"crossed"}), NEW m \in Managers, RemoveCommits(m)
  PROVE  \E next : TakesRow(manager[m].saw.id, next)
<1> DEFINE id == manager[m].saw.id
           others == DOMAIN manager[m].snap \ {id}
           remaining == Without(rows, id)
<1>1. InTransaction(m) /\ id \in DOMAIN rows
  BY DEF RemoveCommits, InTransaction, Now, StoreInv, RemovesRow
<1>2. others = DOMAIN rows \ {id} /\ manager[m].snap[id].active = rows[id].active
  BY <1>1, Committing DEF Agrees
<1>3. DOMAIN remaining = DOMAIN rows \ {id} /\ \A k \in DOMAIN rows \ {id} : remaining[k] = rows[k]
  BY DEF Without, Restrict
<1>4. \A k \in DOMAIN rows : rows[k] \in Row
  BY DEF TypeInv, RowsTyped
<1>5. CASE rows[id].active /\ others # {}
  <2>1. PICK next \in others : rows' = [k \in DOMAIN remaining |->
                                         IF k = next THEN [remaining[k] EXCEPT !.active = TRUE] ELSE remaining[k]]
    BY <1>2, <1>5 DEF RemoveCommits
  <2>2. DOMAIN rows' = DOMAIN rows \ {id} /\ next \in DOMAIN rows'
    BY <1>2, <1>3, <2>1
  <2>3. \A k \in DOMAIN rows' : rows'[k] = IF k = next THEN [rows[k] EXCEPT !.active = TRUE] ELSE rows[k]
    BY <1>3, <2>1, <2>2
  <2>4. \A k \in DOMAIN rows' : /\ rows'[k].provider = rows[k].provider /\ ContentOf(rows'[k]) = ContentOf(rows[k])
                                /\ rows'[k].active = (k = next \/ rows[k].active)
    BY <1>4, <2>2, <2>3 DEF Row, ContentOf
  <2>5. DOMAIN rows # {id}
    BY <1>2, <1>5
  <2>6. TakesRow(id, next)
    BY <1>1, <1>5, <2>2, <2>4, <2>5 DEF TakesRow
  <2>7. QED
    BY <2>6
<1>6. CASE ~(rows[id].active /\ others # {})
  <2>1. DOMAIN rows' = DOMAIN rows \ {id} /\ \A k \in DOMAIN rows' : rows'[k] = rows[k]
    BY <1>2, <1>3, <1>6 DEF RemoveCommits
  <2>2. ~(rows[id].active /\ DOMAIN rows # {id})
    BY <1>1, <1>2, <1>6
  <2>3. TakesRow(id, 0)
    BY <1>1, <2>1, <2>2 DEF TakesRow
  <2>4. QED
    BY <2>3
<1>7. QED
  BY <1>5, <1>6

\* A removal that leaves no row active.
DropsRow(i) ==
  /\ i \in DOMAIN rows /\ rows[i].active /\ DOMAIN rows' = DOMAIN rows \ {i}
  /\ \A k \in DOMAIN rows' : rows'[k] = rows[k]

LEMMA DroppedRow ==
  ASSUME StoreInv, Never({"crossed"}), NEW m \in Managers, RemoveUnpicked(m)
  PROVE  DropsRow(manager[m].saw.id)
<1>1. InTransaction(m) /\ manager[m].saw.id \in DOMAIN rows
  BY DEF RemoveUnpicked, InTransaction, Now, StoreInv, RemovesRow
<1>2. rows[manager[m].saw.id].active
  BY <1>1, Committing DEF RemoveUnpicked, Agrees
<1>3. QED
  BY <1>1, <1>2 DEF DropsRow, RemoveUnpicked, Without, Restrict

LEMMA SwitchedRow ==
  ASSUME TypeInv, NEW m \in Managers, SetActiveModelByProvider(m)
  PROVE  UNCHANGED rows \/ \E i \in DOMAIN rows : SwitchesTo(i)
<1>1. \A k \in DOMAIN rows : rows[k] \in Row
  BY DEF TypeInv, RowsTyped
<1>2. ASSUME NEW i \in Of(JobOf(m).p, rows), rows' = Switched(i)
      PROVE  i \in DOMAIN rows /\ SwitchesTo(i)
  BY <1>1, <1>2 DEF Of, Switched, SwitchesTo, SameNames, Row, ContentOf
<1>3. QED
  BY <1>2 DEF SetActiveModelByProvider

\* Nobody changes the rows but who commits, switches, syncs or writes a column.
LEMMA WhoWritesRows ==
  ASSUME [StoreNext]_storevars, ~\E m \in Managers : RemoveUnpicked(m)
  PROVE  \/ UNCHANGED rows
         \/ \E m \in Managers : \/ SaveCommits(m) \/ RemoveCommits(m) \/ SetActiveModelByProvider(m)
                                \/ SyncProviderModels(m) \/ UpdateUserGPT(m)
<1>1. ASSUME NEW m \in Managers, (\E job \in scene.jobs : Begins(m, job)) \/ Fails(m) PROVE UNCHANGED rows
  BY <1>1 DEF Begins, Fails
<1>2. ASSUME NEW m \in Managers, Does(m)
      PROVE  \/ UNCHANGED rows
             \/ SaveCommits(m) \/ RemoveCommits(m) \/ SetActiveModelByProvider(m)
             \/ SyncProviderModels(m) \/ UpdateUserGPT(m)
  BY <1>2 DEF Does, ReadsModel, ReadsRecord, CallsMistral, MakesNoAgent, UploadRefused, SaveBegins, RemoveBegins,
     DisableAllUserChannel, ReadsNext, FindsLibrary, ReadsRow, GeneratesEmbedding, SaveEmbedding, DeleteEmbedding,
     DeleteAllModelEmbeddings, EmbedsFile
<1>3. QED
  BY <1>1, <1>2 DEF StoreNext, storevars, SecondPasses

\* What a step does to the rows while nothing crosses.
Inserted(i, p) ==
  /\ AddsRow(i, p) /\ rows'[i] \in Row /\ \A k \in DOMAIN rows : rows[k].provider # p
  /\ \A n \in Managers : ~InTransaction(n)'

LEMMA RowsChange ==
  ASSUME StoreInv, TypeInv, ProviderInv, [StoreNext]_storevars, Never({"crossed"})',
         ~\E m \in Managers : RemoveUnpicked(m)
  PROVE  \/ UNCHANGED rows
         \/ \E i : OnlyRow(i)
         \/ \E i \in DOMAIN rows : SwitchesTo(i)
         \/ \E i, p : Inserted(i, p)
         \/ \E i, next : TakesRow(i, next)
<1>1. Never({"crossed"})
  BY MarksStay DEF Never
<1>2. Single /\ SnapsNamed
  BY <1>1 DEF ProviderInv
<1>3. ASSUME NEW m \in Managers, SaveCommits(m) PROVE (\E i : OnlyRow(i)) \/ \E i, p : Inserted(i, p)
  <2>1. CASE Updates(m)
    BY <2>1, WrittenRow
  <2>2. CASE Inserts(m)
    <3>1. /\ AddsRow(last.row + 1, JobOf(m).p) /\ rows'[last.row + 1] \in Row
          /\ \A k \in DOMAIN rows : rows[k].provider # JobOf(m).p
      BY <1>1, <1>2, <1>3, <2>2, InsertedRow
    <3>2. rows' # rows
      BY <3>1 DEF AddsRow
    <3>3. InTransaction(m) /\ ~InTransaction(m)'
      BY <1>3, AtIdle DEF SaveCommits, InTransaction, Now, StoreInv, Shape
    <3>4. \A n \in Managers : ~InTransaction(n)'
      BY <1>1, <3>2, <3>3, TransactionStep DEF SnapsKept, StoreInv, Apart
    <3>5. Inserted(last.row + 1, JobOf(m).p)
      BY <3>1, <3>4 DEF Inserted
    <3>6. QED
      BY <3>5
  <2>3. QED
    BY <1>3, <2>1, <2>2 DEF SaveCommits
<1>4. ASSUME NEW m \in Managers, RemoveCommits(m) PROVE \E i, next : TakesRow(i, next)
  <2>1. \E next : TakesRow(manager[m].saw.id, next)
    BY <1>1, <1>4, RemovedRow
  <2>2. QED
    BY <2>1
<1>5. ASSUME NEW m \in Managers, SetActiveModelByProvider(m)
      PROVE  UNCHANGED rows \/ \E i \in DOMAIN rows : SwitchesTo(i)
  BY <1>5, SwitchedRow
<1>6. ASSUME NEW m \in Managers, SyncProviderModels(m) \/ UpdateUserGPT(m) PROVE \E i : OnlyRow(i)
  BY <1>2, <1>6, SyncedRow, WrittenRow
<1>7. QED
  BY <1>3, <1>4, <1>5, <1>6, WhoWritesRows

LEMMA ProviderInit == StoreInit => ProviderInv
  BY DEF StoreInit, ProviderInv, Single, SnapsNamed

LEMMA ProviderStep == StoreInv /\ TypeInv /\ ProviderInv /\ [StoreNext]_storevars => ProviderInv'
<1> SUFFICES ASSUME StoreInv, TypeInv, ProviderInv, [StoreNext]_storevars, Never({"crossed"})'
             PROVE  (Single /\ SnapsNamed)'
  BY DEF ProviderInv
<1>1. Single /\ SnapsNamed /\ SnapsKept
  BY MarksStay, TransactionStep DEF ProviderInv, Never
<1>2. CASE UNCHANGED rows
  <2>1. Single'
    BY <1>1, <1>2 DEF Single
  <2>2. SnapsNamed'
    BY <1>1, <1>2 DEF SnapsNamed, SnapsKept
  <2>3. QED
    BY <2>1, <2>2
<1>3. CASE SameNames
  <2>1. Single'
    BY <1>1, <1>3 DEF Single, SameNames
  <2>2. SnapsNamed'
    BY <1>1, <1>3 DEF SnapsNamed, SnapsKept, SameNames
  <2>3. QED
    BY <2>1, <2>2
<1>4. ASSUME NEW i, NEW p, Inserted(i, p) PROVE (Single /\ SnapsNamed)'
  BY <1>1, <1>4 DEF Inserted, AddsRow, Single, SnapsNamed
<1>5. ASSUME NEW i, NEW next, TakesRow(i, next) PROVE (Single /\ SnapsNamed)'
  <2>1. DOMAIN rows' \subseteq DOMAIN rows /\ \A k \in DOMAIN rows' : rows'[k].provider = rows[k].provider
    BY <1>5 DEF TakesRow
  <2>2. Single'
    BY <1>1, <2>1 DEF Single
  <2>3. SnapsNamed'
    BY <1>1, <2>1 DEF SnapsNamed, SnapsKept
  <2>4. QED
    BY <2>2, <2>3
<1>6. ASSUME NEW m \in Managers, RemoveUnpicked(m) PROVE (Single /\ SnapsNamed)'
  <2>1. DropsRow(manager[m].saw.id)
    BY <1>6, DroppedRow, MarksStay DEF Never
  <2>2. DOMAIN rows' \subseteq DOMAIN rows /\ \A k \in DOMAIN rows' : rows'[k] = rows[k]
    BY <2>1 DEF DropsRow
  <2>3. Single'
    BY <1>1, <2>2 DEF Single
  <2>4. SnapsNamed'
    BY <1>1, <2>2 DEF SnapsNamed, SnapsKept
  <2>5. QED
    BY <2>3, <2>4
<1>7. QED
  BY <1>2, <1>3, <1>4, <1>5, <1>6, RowsChange DEF OnlyRow, SwitchesTo

(***************************************************************************)
(* What is shown of a provider is its one row.                             *)
(***************************************************************************)
Shows ==
  /\ DOMAIN ShownModel = WithModel /\ ShownModel \in [WithModel -> Content]
  /\ \A i \in DOMAIN rows : ShownModel[rows[i].provider] = ContentOf(rows[i])

LEMMA ShownIsRow == StoreInv /\ TypeInv /\ Single => Shows
<1> SUFFICES ASSUME StoreInv, TypeInv, Single PROVE Shows
  OBVIOUS
<1>1. ASSUME NEW i \in DOMAIN rows PROVE FirstOf(Of(rows[i].provider, rows)) = i
  <2>1. Of(rows[i].provider, rows) = {i}
    BY DEF Of, Single
  <2>2. i \in Nat
    BY DEF StoreInv, Shape, RowShape
  <2>3. Newest({i}) = i
    BY <2>2 DEF Newest
  <2>4. {j \in {i} : rows[j].active} = {i} \/ ~\E j \in {i} : rows[j].active
    OBVIOUS
  <2>5. QED
    BY <2>1, <2>3, <2>4 DEF FirstOf
<1>2. \A i \in DOMAIN rows : ContentOf(rows[i]) \in Content
  BY DEF TypeInv, RowsTyped, Row, ContentOf, Content
<1>3. \A i \in DOMAIN rows : rows[i].provider \in WithModel
  BY DEF WithModel
<1>4. \A i \in DOMAIN rows : ShownModel[rows[i].provider] = ContentOf(rows[i])
  BY <1>1, <1>3 DEF ShownModel
<1>5. \A p \in WithModel : ShownModel[p] \in Content
  BY <1>2, <1>4 DEF WithModel
<1>6. ShownModel \in [WithModel -> Content] /\ DOMAIN ShownModel = WithModel
  BY <1>5 DEF ShownModel
<1>7. QED
  BY <1>4, <1>6 DEF Shows

LEMMA SameShown ==
  ASSUME UNCHANGED rows
  PROVE  UNCHANGED <<ShownModel, ActiveProviders>>
BY DEF ShownModel, ActiveProviders, Active, WithModel, FirstOf, Of, Newest, ContentOf

LEMMA WritesRefines ==
  ASSUME Shows, Shows', Single, NEW i \in DOMAIN rows, OnlyRow(i)
  PROVE  OfUser!Writes(rows[i].provider)
<1> DEFINE p == rows[i].provider
<1>1. p \in WithModel /\ WithModel' = WithModel
  BY DEF OnlyRow, SameNames, WithModel
<1>2. ASSUME NEW q \in WithModel \ {p} PROVE ShownModel'[q] = ShownModel[q]
  <2>1. PICK k \in DOMAIN rows : rows[k].provider = q
    BY DEF WithModel
  <2>2. k # i /\ rows'[k] = rows[k] /\ k \in DOMAIN rows' /\ rows'[k].provider = q
    BY <2>1 DEF OnlyRow, SameNames
  <2>3. ShownModel[q] = ContentOf(rows[k]) /\ ShownModel'[q] = ContentOf(rows'[k])
    BY <2>1, <2>2 DEF Shows
  <2>4. QED
    BY <2>2, <2>3
<1>3. ActiveProviders' = ActiveProviders
  BY DEF OnlyRow, SameNames, ActiveProviders, Active
<1>4. DOMAIN ShownModel = WithModel /\ ShownModel' \in [WithModel -> Content]
  BY <1>1 DEF Shows
<1>5. QED
  BY <1>1, <1>2, <1>3, <1>4 DEF OfUser!Writes, OfUser!LeavesOthers, OfUser!Have

LEMMA ActivatesRefines ==
  ASSUME Shows, Shows', TypeInv', NEW i \in DOMAIN rows, SwitchesTo(i)
  PROVE  OfUser!Activates(rows[i].provider)
<1> DEFINE p == rows[i].provider
<1>1. p \in WithModel /\ WithModel' = WithModel
  BY DEF SwitchesTo, SameNames, WithModel
<1>2. ASSUME NEW q \in WithModel PROVE ShownModel'[q] = ShownModel[q]
  <2>1. PICK k \in DOMAIN rows : rows[k].provider = q
    BY DEF WithModel
  <2>2. k \in DOMAIN rows' /\ rows'[k].provider = q /\ ContentOf(rows'[k]) = ContentOf(rows[k])
    BY <2>1 DEF SwitchesTo, SameNames
  <2>3. ShownModel[q] = ContentOf(rows[k]) /\ ShownModel'[q] = ContentOf(rows'[k])
    BY <2>1, <2>2 DEF Shows
  <2>4. QED
    BY <2>2, <2>3
<1>3. ShownModel' = ShownModel
  BY <1>1, <1>2 DEF Shows
<1>4. ActiveProviders' = {p}
  <2>1. DOMAIN rows' = DOMAIN rows
    BY DEF SwitchesTo, SameNames
  <2>2. \A k \in DOMAIN rows : rows'[k].provider = rows[k].provider /\ (rows'[k].active <=> k = i)
    BY DEF SwitchesTo, SameNames
  <2>3. Active' = {i}
    BY <2>1, <2>2 DEF Active
  <2>4. QED
    BY <2>2, <2>3 DEF ActiveProviders
<1>5. DOMAIN ShownModel = WithModel
  BY DEF Shows
<1>6. QED
  BY <1>1, <1>3, <1>4, <1>5 DEF OfUser!Activates, OfUser!Have

LEMMA CreatesRefines ==
  ASSUME Shows, Shows', NEW i, NEW p, Inserted(i, p)
  PROVE  OfUser!Creates(p)
<1>1. p \notin WithModel /\ WithModel' = WithModel \cup {p}
  BY DEF Inserted, AddsRow, WithModel
<1>2. ASSUME NEW q \in WithModel PROVE ShownModel'[q] = ShownModel[q]
  <2>1. PICK k \in DOMAIN rows : rows[k].provider = q
    BY DEF WithModel
  <2>2. rows'[k] = rows[k] /\ k \in DOMAIN rows' /\ rows'[k].provider = q
    BY <2>1 DEF Inserted, AddsRow
  <2>3. ShownModel[q] = ContentOf(rows[k]) /\ ShownModel'[q] = ContentOf(rows'[k])
    BY <2>1, <2>2 DEF Shows
  <2>4. QED
    BY <2>2, <2>3
<1>3. ActiveProviders' = IF WithModel = {} THEN {p} ELSE ActiveProviders
  <2>1. WithModel = {} <=> DOMAIN rows = {}
    BY DEF WithModel
  <2>2. CASE DOMAIN rows = {}
    <3>1. DOMAIN rows' = {i} /\ rows'[i].active /\ rows'[i].provider = p
      BY <2>2 DEF Inserted, AddsRow
    <3>2. ActiveProviders' = {p}
      BY <3>1 DEF ActiveProviders, Active
    <3>3. QED
      BY <2>1, <2>2, <3>2
  <2>3. CASE DOMAIN rows # {}
    BY <2>1, <2>3 DEF Inserted, AddsRow, ActiveProviders, Active
  <2>4. QED
    BY <2>2, <2>3
<1>4. DOMAIN ShownModel = WithModel /\ ShownModel' \in [WithModel \cup {p} -> Content]
  BY <1>1 DEF Shows
<1>5. QED
  BY <1>1, <1>2, <1>3, <1>4 DEF OfUser!Creates, OfUser!LeavesOthers, OfUser!Have

LEMMA DeletesRefines ==
  ASSUME Shows, Shows', Single, Unique, NEW i, NEW next, TakesRow(i, next)
  PROVE  OfUser!Deletes(rows[i].provider)
<1> DEFINE p == rows[i].provider
<1>0. i \in DOMAIN rows /\ DOMAIN rows' = DOMAIN rows \ {i}
  BY DEF TakesRow
<1>a. \A k \in DOMAIN rows' : k \in DOMAIN rows /\ rows'[k].provider = rows[k].provider /\ rows[k].provider # p
  BY <1>0 DEF TakesRow, Single
<1>1. p \in WithModel /\ WithModel' = WithModel \ {p}
  BY <1>0, <1>a DEF WithModel
<1>2. ASSUME NEW q \in WithModel \ {p} PROVE ShownModel'[q] = ShownModel[q]
  <2>1. PICK k \in DOMAIN rows : rows[k].provider = q
    BY DEF WithModel
  <2>2. ContentOf(rows'[k]) = ContentOf(rows[k]) /\ k \in DOMAIN rows' /\ rows'[k].provider = q
    BY <1>0, <2>1 DEF TakesRow
  <2>3. ShownModel[q] = ContentOf(rows[k]) /\ ShownModel'[q] = ContentOf(rows'[k])
    BY <2>1, <2>2 DEF Shows
  <2>4. QED
    BY <2>2, <2>3
<1>3. p \in ActiveProviders <=> rows[i].active
  BY <1>0 DEF ActiveProviders, Active, Single
<1>4. WithModel # {p} <=> DOMAIN rows # {i}
  BY <1>0, <1>a DEF WithModel
<1>5. CASE rows[i].active /\ DOMAIN rows # {i}
  <2>1. next \in DOMAIN rows' /\ \A k \in DOMAIN rows' : rows'[k].active = (k = next \/ rows[k].active)
    BY <1>5 DEF TakesRow
  <2>2. \A k \in DOMAIN rows' : ~rows[k].active
    BY <1>0, <1>5 DEF Unique, OnlyActive, NoneActive
  <2>3. ActiveProviders' = {rows'[next].provider}
    BY <2>1, <2>2 DEF ActiveProviders, Active
  <2>4. rows'[next].provider \in WithModel \ {p}
    BY <1>a, <2>1 DEF WithModel
  <2>5. QED
    BY <1>1, <1>2, <1>3, <1>4, <1>5, <2>3, <2>4 DEF OfUser!Deletes, OfUser!LeavesOthers, OfUser!Have, Shows
<1>6. CASE ~(rows[i].active /\ DOMAIN rows # {i})
  <2>1. \A k \in DOMAIN rows' : rows'[k].active = rows[k].active
    BY <1>6 DEF TakesRow
  <2>2. ActiveProviders' = ActiveProviders \ {p}
    BY <1>0, <1>a, <2>1 DEF ActiveProviders, Active
  <2>3. QED
    BY <1>1, <1>2, <1>3, <1>4, <1>6, <2>2 DEF OfUser!Deletes, OfUser!LeavesOthers, OfUser!Have, Shows
<1>7. QED
  BY <1>5, <1>6

LEMMA DropsRefines ==
  ASSUME Shows, Shows', Single, Unique, NEW i, DropsRow(i), "unpicked" \in past'
  PROVE  OfUser!DeletesUnpicked(rows[i].provider)
<1> DEFINE p == rows[i].provider
<1>0. \A k \in DOMAIN rows' : k \in DOMAIN rows /\ rows'[k] = rows[k] /\ rows[k].provider # p
  BY DEF DropsRow, Single
<1>1. WithModel' = WithModel \ {p}
  BY <1>0 DEF DropsRow, WithModel
<1>2. ASSUME NEW q \in WithModel \ {p} PROVE ShownModel'[q] = ShownModel[q]
  <2>1. PICK k \in DOMAIN rows : rows[k].provider = q
    BY DEF WithModel
  <2>2. rows'[k] = rows[k] /\ k \in DOMAIN rows' /\ rows'[k].provider = q
    BY <2>1 DEF DropsRow
  <2>3. ShownModel[q] = ContentOf(rows[k]) /\ ShownModel'[q] = ContentOf(rows'[k])
    BY <2>1, <2>2 DEF Shows
  <2>4. QED
    BY <2>2, <2>3
<1>3. p \in ActiveProviders
  BY DEF DropsRow, ActiveProviders, Active
<1>4. \A k \in DOMAIN rows' : ~rows'[k].active
  BY <1>0 DEF DropsRow, Unique, OnlyActive, NoneActive
<1>5. ActiveProviders' = {}
  BY <1>4 DEF ActiveProviders, Active
<1>6. Never({"unpicked"})' = FALSE
  BY DEF Never
<1>7. QED
  BY <1>1, <1>2, <1>3, <1>5, <1>6 DEF OfUser!DeletesUnpicked, OfUser!LeavesOthers, OfUser!Have, Shows

LEMMA InitRefines == StoreInit => OfUser!Init
<1> SUFFICES ASSUME StoreInit PROVE OfUser!Init
  OBVIOUS
<1>1. DOMAIN rows = {} /\ past = {}
  BY DEF StoreInit
<1>2. WithModel = {} /\ ActiveProviders = {} /\ Never({"crossed"}) = TRUE /\ Never({"unpicked"}) = TRUE
  BY <1>1 DEF WithModel, ActiveProviders, Active, Never
<1>3. ShownModel \in [{} -> Content]
  BY <1>2 DEF ShownModel
<1>4. QED
  BY <1>2, <1>3 DEF OfUser!Init

LEMMA StepRefines ==
  /\ StoreInv /\ TypeInv /\ ProviderInv /\ (Never({"crossed"}) => Shows) /\ (Never({"crossed"}) => Shows)'
  /\ TypeInv' /\ [StoreNext]_storevars
  => [OfUser!Next]_(OfUser!usermodelsvars)
<1> SUFFICES ASSUME StoreInv, TypeInv, ProviderInv, Never({"crossed"}) => Shows, (Never({"crossed"}) => Shows)',
                    TypeInv', [StoreNext]_storevars
             PROVE  [OfUser!Next]_(OfUser!usermodelsvars)
  OBVIOUS
<1>1. CASE ~Never({"crossed"})'
  BY <1>1 DEF OfUser!Next
<1>2. CASE Never({"crossed"})'
  <2>1. Never({"crossed"}) = TRUE /\ Never({"crossed"})' = TRUE
    BY <1>2, MarksStay DEF Never
  <2>2. Shows /\ Shows' /\ Single /\ Unique
    BY <2>1 DEF ProviderInv, StoreInv
  <2>3. \A i \in DOMAIN rows : rows[i].provider \in Provider
    BY DEF TypeInv, RowsTyped, Row
  <2>a. CASE \E m \in Managers : RemoveUnpicked(m)
    <3>1. PICK m \in Managers : RemoveUnpicked(m)
      BY <2>a
    <3>2. DropsRow(manager[m].saw.id) /\ "unpicked" \in past'
      BY <2>1, <3>1, DroppedRow DEF RemoveUnpicked, Marks
    <3>3. OfUser!DeletesUnpicked(rows[manager[m].saw.id].provider)
      BY <2>2, <3>2, DropsRefines
    <3>4. rows[manager[m].saw.id].provider \in Provider
      BY <2>3, <3>2 DEF DropsRow
    <3>5. QED
      BY <2>1, <3>3, <3>4 DEF OfUser!Next
  <2> SUFFICES ASSUME ~\E m \in Managers : RemoveUnpicked(m) PROVE [OfUser!Next]_(OfUser!usermodelsvars)
    BY <2>a
  <2>b. Never({"unpicked"})' = Never({"unpicked"})
    BY MarksAdded DEF Never
  <2>4. CASE UNCHANGED rows
    BY <2>1, <2>b, <2>4, SameShown DEF OfUser!usermodelsvars
  <2>5. ASSUME NEW i, OnlyRow(i) PROVE [OfUser!Next]_(OfUser!usermodelsvars)
    <3>1. CASE i \in DOMAIN rows
      BY <2>1, <2>b, <2>2, <2>3, <2>5, <3>1, WritesRefines DEF OfUser!Next
    <3>2. CASE i \notin DOMAIN rows
      <4>1. DOMAIN rows' = DOMAIN rows /\ \A k \in DOMAIN rows : rows'[k] = rows[k]
        BY <2>5, <3>2 DEF OnlyRow, SameNames
      <4>2. rows' = rows
        BY <4>1 DEF TypeInv, RowsTyped
      <4>3. QED
        BY <2>1, <2>b, <4>2, SameShown DEF OfUser!usermodelsvars
    <3>3. QED
      BY <3>1, <3>2
  <2>6. ASSUME NEW i \in DOMAIN rows, SwitchesTo(i) PROVE OfUser!Next
    BY <2>1, <2>b, <2>2, <2>3, <2>6, ActivatesRefines DEF OfUser!Next
  <2>7. ASSUME NEW i, NEW p, Inserted(i, p) PROVE OfUser!Next
    <3>1. p \in Provider
      BY <2>7 DEF Inserted, AddsRow, Row
    <3>2. QED
      BY <2>1, <2>b, <2>2, <2>7, <3>1, CreatesRefines DEF OfUser!Next
  <2>8. ASSUME NEW i, NEW next, TakesRow(i, next) PROVE OfUser!Next
    <3>1. rows[i].provider \in Provider
      BY <2>3, <2>8 DEF TakesRow
    <3>2. QED
      BY <2>1, <2>b, <2>2, <2>8, <3>1, DeletesRefines DEF OfUser!Next
  <2>9. QED
    BY <1>2, <2>4, <2>5, <2>6, <2>7, <2>8, RowsChange
<1>3. QED
  BY <1>1, <1>2

(***************************************************************************)
(* The rows implement UserModels: until two transactions of the user are   *)
(* open at once, whatever else overlaps or fails, each step creates,       *)
(* writes, deletes or activates the model of one provider, or changes      *)
(* nothing a reader of the models sees; a deletion of the active one makes *)
(* another active, or none when it lost the SELECT of its successor:       *)
(* SaveUserModel, RemoveModelFromUser, SetActiveModelByProvider,           *)
(* UpdateUserGPT, SyncProviderModels.                                      *)
(***************************************************************************)
THEOREM RowsImplementUserModels == StoreSpec => ImplementsUserModels
<1> DEFINE Inv == StoreInv /\ TypeInv /\ ProviderInv
<1>1. StoreSpec => []Inv
  BY StoreInvInit, StoreInvStep, TypeInit, TypeStep, ProviderInit, ProviderStep, PTL DEF StoreSpec
<1>2. Inv => (Never({"crossed"}) => Shows)
  BY ShownIsRow DEF ProviderInv
<1>3. StoreSpec => [](Never({"crossed"}) => Shows)
  BY <1>1, <1>2, PTL
<1>4. StoreSpec => [][OfUser!Next]_(OfUser!usermodelsvars)
  BY <1>1, <1>3, StepRefines, PTL DEF StoreSpec
<1>5. QED
  BY <1>4, InitRefines, PTL DEF StoreSpec, ImplementsUserModels, OfUser!Spec

(***************************************************************************)
(* What the specification of a user's models promises its readers: no more *)
(* than one of them is active, and one is unless a deletion could not read *)
(* who comes next.                                                         *)
(***************************************************************************)
THEOREM UserHasOneActive == OfUser!Spec => []OfUser!OneIsActive
<1>1. OfUser!Init => OfUser!OneIsActive
  BY DEF OfUser!Init, OfUser!OneIsActive, OfUser!Have
<1>2. OfUser!OneIsActive /\ [OfUser!Next]_(OfUser!usermodelsvars) => OfUser!OneIsActive'
  BY DEF OfUser!OneIsActive, OfUser!Next, OfUser!usermodelsvars, OfUser!Have, OfUser!Creates, OfUser!Writes, OfUser!Deletes,
         OfUser!DeletesUnpicked, OfUser!Activates
<1>3. QED
  BY <1>1, <1>2, PTL DEF OfUser!Spec
================================================================================
