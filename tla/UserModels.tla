------------------------------ MODULE UserModels ------------------------------
(* What the database promises the router of the models of one user, seen from   *)
(* outside: each provider has at most one, one of them is active, and a call    *)
(* creates, writes, deletes or activates one of them in a single step that      *)
(* leaves the others alone. The promise is given up for good when two           *)
(* transactions of the user are open at once: nothing in the schema holds them  *)
(* apart. That one is active is given up by a deletion that could not read who  *)
(* comes next; no more than one is active all the same.                         *)
CONSTANTS Provider, \* who may offer a model
          Content   \* what a model is: its agent, its ids, its data

VARIABLES model,    \* the content of the model of each provider that has one
          active,   \* providers whose model is active
          apart,    \* no two transactions were open at once
          picked    \* no deletion failed to read who comes next

usermodelsvars == <<model, active, apart, picked>>

Have == DOMAIN model

Init == model \in [{} -> Content] /\ active = {} /\ apart = TRUE /\ picked = TRUE

(* Only the model of p may change. *)
LeavesOthers(p) == \A q \in Have \ {p} : model'[q] = model[q]

(* SaveUserModel inserts: the first model of a user is active. *)
Creates(p) ==
    /\ p \notin Have
    /\ model' \in [Have \cup {p} -> Content] /\ LeavesOthers(p)
    /\ active' = IF Have = {} THEN {p} ELSE active

(* SaveUserModel updates, UpdateUserGPT, and SyncProviderModels. *)
Writes(p) ==
    /\ p \in Have
    /\ model' \in [Have -> Content] /\ LeavesOthers(p)
    /\ UNCHANGED active

(* RemoveModelFromUser: one of the others takes the place of an active model. *)
Deletes(p) ==
    /\ p \in Have
    /\ model' \in [Have \ {p} -> Content] /\ LeavesOthers(p)
    /\ IF p \in active /\ Have # {p} THEN \E q \in Have \ {p} : active' = {q}
       ELSE active' = active \ {p}

(* RemoveModelFromUser swallows the error of the SELECT that finds the other.   *)
DeletesUnpicked(p) ==
    /\ p \in active
    /\ model' \in [Have \ {p} -> Content] /\ LeavesOthers(p)
    /\ active' = {} /\ picked' = FALSE

(* SetActiveModelByProvider *)
Activates(p) ==
    /\ p \in Have
    /\ active' = {p} /\ UNCHANGED model

Next ==
    \/ /\ apart /\ apart'
       /\ \E p \in Provider :
             \/ (Creates(p) \/ Writes(p) \/ Deletes(p) \/ Activates(p)) /\ UNCHANGED picked
             \/ DeletesUnpicked(p)
    \/ ~apart'

Spec == Init /\ [][Next]_usermodelsvars

(* What follows for whoever reads: GetActiveProvider finds one model at most,   *)
(* and exactly one where none was left unpicked.                                *)
OneIsActive ==
    apart => /\ active = {} \/ \E p \in Have : active = {p}
             /\ picked /\ Have # {} => active # {}
================================================================================
