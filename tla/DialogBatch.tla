----------------------------- MODULE DialogBatch -----------------------------
(***************************************************************************)
(* The history buffer of pkg/endpoint: SaveDialog appends to messageBatch, *)
(* full batches, a ticker, the end of a dialog and Shutdown flush it to the*)
(* database, GetDialogHistory reads it back.  One mutex guards the buffer, *)
(* also while a flush writes; only the database read is made without it.   *)
(*                                                                         *)
(* The messages of a dialog are numbered in the order they are appended.   *)
(***************************************************************************)
EXTENDS Naturals, Sequences, FiniteSets

CONSTANTS
  Threads,      \* dialogs
  BatchSize,    \* e.batchSize
  MaxMsgs,      \* bound: messages per dialog
  MaxFlushes,   \* bound: ticks of periodicFlush and end-of-dialog events
  Limit,        \* the limit GetDialogHistory is asked for
  DbFails       \* may db.SaveDialog return an error?

ASSUME BoundsAssumption ==
  /\ BatchSize \in Nat \ {0} /\ Limit \in Nat \ {0}
  /\ MaxMsgs \in Nat /\ MaxFlushes \in Nat
ASSUME DbFailsAssumption == DbFails \in BOOLEAN

VARIABLES
  appended,   \* messages of each dialog given to SaveDialog so far
  buffer,     \* messageBatch
  db,         \* what the database holds
  failures,   \* writes the database refused
  lock,       \* e.mu: free, or held by a flush
  writing,    \* the batch a flush is writing: its dialog and its messages
  todo,       \* dialogs FlushAllBatches has still to visit
  flushes,    \* ticks and events so far
  stop,       \* Shutdown: not called, cancelled, in its last flush, over
  stopAll,    \* messages saved when the last flush began
  reading,    \* a GetDialogHistory between its Unlock and the database
  history     \* its last result, and how much was saved from call to return

reader == <<reading, history>>
vars == <<appended, buffer, db, failures, lock, writing, todo, flushes, stop,
          stopAll, reader>>

NoThread == "none"
ASSUME NoThreadAssumption == NoThread \notin Threads
Numbers(n) == [i \in 1..n |-> i]
LastOf(s, n) == IF Len(s) <= n THEN s ELSE SubSeq(s, Len(s) - n + 1, Len(s))

\* The types; a full buffer is never left lying.
TypeOK ==
  /\ appended \in [Threads -> 0..MaxMsgs]
  /\ DOMAIN buffer = Threads /\ DOMAIN db = Threads
  /\ \A t \in Threads : Len(buffer[t]) < BatchSize
  /\ failures \in Nat
  /\ lock \in {"free", "append", "all", "event"}
  /\ writing.of \in Threads \cup {NoThread}
  /\ todo \subseteq Threads /\ flushes \in 0..MaxFlushes
  /\ stop \in {"no", "cancelled", "flushing", "over"}
  /\ stopAll \in [Threads -> 0..MaxMsgs]
  /\ reading.of \in Threads \cup {NoThread}

Init ==
  /\ appended = [t \in Threads |-> 0]
  /\ buffer = [t \in Threads |-> <<>>] /\ db = [t \in Threads |-> <<>>]
  /\ failures = 0
  /\ lock = "free" /\ writing = [of |-> NoThread, msgs |-> <<>>] /\ todo = {}
  /\ flushes = 0 /\ stop = "no" /\ stopAll = [t \in Threads |-> 0]
  /\ reading = [of |-> NoThread, since |-> 0]
  /\ history = [by |-> "none", got |-> <<>>, since |-> 0, till |-> 0]

-----------------------------------------------------------------------------
(* flushThreadBatch, called with the mutex held                            *)

\* The buffer is emptied first; then its messages are written one by one.
Take(t) ==
  /\ writing' = [of |-> t, msgs |-> buffer[t]]
  /\ buffer' = [buffer EXCEPT ![t] = <<>>]

Idle == writing.of = NoThread

\* mutant: the newest message is written first
WriteNewestFirst ==
  /\ ~Idle /\ writing.msgs # <<>>
  /\ LET n == Len(writing.msgs) IN
       /\ db' = [db EXCEPT ![writing.of] = Append(@, writing.msgs[n])]
       /\ writing' = [writing EXCEPT !.msgs = SubSeq(@, 1, n - 1)]
  /\ UNCHANGED <<appended, buffer, failures, lock, todo, flushes, stop, stopAll,
                 reader>>

Write ==
  /\ ~Idle /\ writing.msgs # <<>>
  /\ db' = [db EXCEPT ![writing.of] = Append(@, Head(writing.msgs))]
  /\ writing' = [writing EXCEPT !.msgs = Tail(@)]
  /\ UNCHANGED <<appended, buffer, failures, lock, todo, flushes, stop, stopAll, reader>>

\* The first error ends the flush; the messages it has not written are gone.
\* FlushAllBatches visits no further dialog.
WriteFails ==
  /\ DbFails /\ ~Idle /\ writing.msgs # <<>>
  /\ failures' = failures + 1
  /\ writing' = [of |-> NoThread, msgs |-> <<>>] /\ todo' = {}
  /\ UNCHANGED <<appended, buffer, db, lock, flushes, stop, stopAll, reader>>

Written ==
  /\ ~Idle /\ writing.msgs = <<>>
  /\ writing' = [writing EXCEPT !.of = NoThread]
  /\ UNCHANGED <<appended, buffer, db, failures, lock, todo, flushes, stop,
                 stopAll, reader>>

\* mutant: SaveDialog returns from a full batch with the mutex held
UnlockNotAppend ==
  /\ lock \notin {"free", "append"} /\ Idle /\ todo = {}
  /\ lock' = "free"
  /\ stop' = IF stop = "flushing" THEN "over" ELSE stop
  /\ UNCHANGED <<appended, buffer, db, failures, writing, todo, flushes, stopAll,
                 reader>>

Unlock ==
  /\ lock # "free" /\ Idle /\ todo = {}
  /\ lock' = "free"
  /\ stop' = IF stop = "flushing" THEN "over" ELSE stop
  /\ UNCHANGED <<appended, buffer, db, failures, writing, todo, flushes, stopAll, reader>>

-----------------------------------------------------------------------------
(* Who takes the mutex.  A background flush that was already due may still  *)
(* follow the cancellation, so none looks at stop.                          *)

\* SaveDialog: the append, and the flush of the batch it fills.
SaveDialog(t) ==
  /\ lock = "free" /\ appended[t] < MaxMsgs
  /\ appended' = [appended EXCEPT ![t] = @ + 1]
  /\ LET full == Append(buffer[t], appended[t] + 1) IN
     \/ /\ Len(full) < BatchSize
        /\ buffer' = [buffer EXCEPT ![t] = full]
        /\ UNCHANGED <<lock, writing>>
     \/ /\ Len(full) >= BatchSize
        /\ buffer' = [buffer EXCEPT ![t] = <<>>]
        /\ writing' = [of |-> t, msgs |-> full] /\ lock' = "append"
  /\ UNCHANGED <<db, failures, todo, flushes, stop, stopAll, reader>>

\* The end-of-dialog event flushes one dialog.
EndDialog(t) ==
  /\ lock = "free" /\ flushes < MaxFlushes /\ buffer[t] # <<>>
  /\ flushes' = flushes + 1 /\ lock' = "event"
  /\ Take(t)
  /\ UNCHANGED <<appended, db, failures, todo, stop, stopAll, reader>>

\* mutant: only full batches are visited
BufferedFull == {t \in Threads : Len(buffer[t]) >= BatchSize}

\* The dialogs FlushAllBatches visits, in any order.
Buffered == {t \in Threads : buffer[t] # <<>>}

PeriodicFlush ==
  /\ lock = "free" /\ flushes < MaxFlushes
  /\ flushes' = flushes + 1 /\ lock' = "all" /\ todo' = Buffered
  /\ UNCHANGED <<appended, buffer, db, failures, writing, stop, stopAll, reader>>

FlushNext(t) ==
  /\ lock = "all" /\ Idle /\ t \in todo
  /\ todo' = todo \ {t}
  /\ Take(t)
  /\ UNCHANGED <<appended, db, failures, lock, flushes, stop, stopAll, reader>>

\* Shutdown cancels the background flushes, waits a little, then flushes all.
ShutdownCancels ==
  /\ stop = "no" /\ stop' = "cancelled"
  /\ UNCHANGED <<appended, buffer, db, failures, lock, writing, todo, flushes,
                 stopAll, reader>>

ShutdownFlushes ==
  /\ stop = "cancelled" /\ lock = "free"
  /\ stop' = "flushing" /\ lock' = "all" /\ todo' = Buffered
  /\ stopAll' = appended
  /\ UNCHANGED <<appended, buffer, db, failures, writing, flushes, reader>>

-----------------------------------------------------------------------------
(* GetDialogHistory                                                        *)

\* mutant: the database is read while a flush still writes to it
HistoryMissesUnlocked(t) ==
  /\ reading.of = NoThread /\ buffer[t] = <<>>
  /\ reading' = [of |-> t, since |-> appended[t]]
  /\ UNCHANGED <<appended, buffer, db, failures, lock, writing, todo, flushes,
                 stop, stopAll, history>>

\* Nothing is buffered: the mutex is released ...
HistoryMisses(t) ==
  /\ lock = "free" /\ reading.of = NoThread /\ buffer[t] = <<>>
  /\ reading' = [of |-> t, since |-> appended[t]]
  /\ UNCHANGED <<appended, buffer, db, failures, lock, writing, todo, flushes,
                 stop, stopAll, history>>

\* ... and the database is read, while others may append and flush.  ReadDialog
\* returns the newest messages it holds (external).
HistoryFromDb ==
  /\ reading.of # NoThread
  /\ history' = [by |-> "db", got |-> LastOf(db[reading.of], Limit),
                 since |-> reading.since, till |-> appended[reading.of]]
  /\ reading' = [of |-> NoThread, since |-> 0]
  /\ UNCHANGED <<appended, buffer, db, failures, lock, writing, todo, flushes,
                 stop, stopAll>>

\* Something is buffered: the answer is the tail of the buffer.
HistoryFromMemory(t) ==
  /\ lock = "free" /\ reading.of = NoThread /\ buffer[t] # <<>>
  /\ history' = [by |-> "memory", got |-> LastOf(buffer[t], Limit),
                 since |-> appended[t], till |-> appended[t]]
  /\ UNCHANGED <<appended, buffer, db, failures, lock, writing, todo, flushes,
                 stop, stopAll, reading>>

-----------------------------------------------------------------------------
Flush == Write \/ WriteFails \/ Written \/ Unlock \/ \E t \in Threads : FlushNext(t)

Next ==
  \/ Flush \/ PeriodicFlush \/ ShutdownCancels \/ ShutdownFlushes
  \/ \E t \in Threads : \/ SaveDialog(t) \/ EndDialog(t)
                        \/ HistoryFromMemory(t) \/ HistoryMisses(t)
  \/ HistoryFromDb

Spec == Init /\ [][Next]_vars

\* The database answers, and a goroutine that holds the mutex runs; so does
\* Shutdown once it was called.
Fairness == WF_vars(Flush) /\ SF_vars(ShutdownFlushes)

FairSpec == Spec /\ Fairness

-----------------------------------------------------------------------------
InFlight(t) == IF writing.of = t THEN writing.msgs ELSE <<>>

\* The mutex makes one history out of concurrent saves and flushes: while no
\* write failed, the database, the batch being written and the buffer together
\* hold every message of a dialog once, in the order it was saved.
HistoryWhole ==
  failures = 0 =>
    \A t \in Threads : db[t] \o InFlight(t) \o buffer[t] = Numbers(appended[t])

\* The abstract history: what a flush holds and what is buffered is pending.
Log == INSTANCE HistoryLog WITH
         saved <- appended, stored <- db, losses <- failures, MayLose <- DbFails,
         pending <- [t \in Threads |-> InFlight(t) \o buffer[t]]

\* Buffering, the four flushes and the reads implement the abstract history:
\* a step saves one message, stores the oldest pending one, loses the batch a
\* refused write was part of, or changes nothing that counts.
ImplementsLog == Log!Spec

\* Failed writes lose messages but never reorder or repeat them.
HistoryAscends ==
  \A t \in Threads : LET s == db[t] \o InFlight(t) \o buffer[t] IN
    \A i, j \in 1..Len(s) : i < j => s[i] < s[j]

\* What was saved before the last flush of Shutdown is in the database when
\* Shutdown returns, as long as the database accepts it.
ShutdownSaves ==
  stop = "over" /\ failures = 0 =>
    \A t \in Threads : Len(db[t]) >= stopAll[t]

\* Shutdown gets the mutex and returns, however many messages keep coming.
ShutdownReturns == stop = "cancelled" ~> stop = "over"

\* Shutdown comes back, and with what was buffered in the database.
StopSaves == []ShutdownSaves /\ ShutdownReturns

\* The N last messages as of some moment between call and return.
IsLastN == \E n \in history.since..history.till :
             history.got = LastOf(Numbers(n), Limit)

\* Reading the database without the mutex is safe: with nothing buffered and
\* no flush under way the database has it all, and what arrives meanwhile only
\* makes the result newer.
DbHistoryIsLastN == history.by = "db" /\ failures = 0 => IsLastN
=============================================================================
