-------------------------- MODULE DialogBatchProofs --------------------------
(***************************************************************************)
(* What TLAPS proves of DialogBatch, for any dialogs, batch size and bound *)
(* on messages and flushes: it implements HistoryLog, the history of a     *)
(* dialog is never reordered or repeated, whatever writes fail, a reader   *)
(* finds the last messages, and Shutdown leaves none behind.               *)
(***************************************************************************)
EXTENDS DialogBatch, SequenceTheorems, TLAPS

(***************************************************************************)
(* The types of the history, and what the mutex is for: no batch is under  *)
(* way while it is free, so who takes it finds no message in flight.       *)
(***************************************************************************)
Typed ==
  /\ appended \in [Threads -> Nat]
  /\ buffer \in [Threads -> Seq(Nat)] /\ db \in [Threads -> Seq(Nat)]
  /\ failures \in Nat
  /\ writing \in [of : Threads \cup {NoThread}, msgs : Seq(Nat)]
  /\ todo \subseteq Threads
Guarded == lock = "free" => Idle

LoggedInv == Typed /\ Guarded

Flight(t) == InFlight(t) \o buffer[t]
untouched == <<appended, buffer, db, failures, writing>>

LEMMA LoggedInit == Init => LoggedInv
<1> SUFFICES ASSUME Init PROVE LoggedInv
  OBVIOUS
<1>1. <<>> \in Seq(Nat)
  BY EmptySeq
<1>2. QED
  BY <1>1 DEF Init, LoggedInv, Typed, Guarded, Idle

LEMMA LoggedStep == LoggedInv /\ [Next]_vars => LoggedInv'
<1> SUFFICES ASSUME LoggedInv, [Next]_vars PROVE LoggedInv'
  OBVIOUS
<1> USE DEF LoggedInv, Typed, Guarded, Idle
<1>e. <<>> \in Seq(Nat)
  BY EmptySeq
<1>1. CASE Write
  <2>1. writing.of \in Threads /\ writing.msgs \in Seq(Nat) /\ writing.msgs # <<>>
    BY <1>1 DEF Write
  <2>2. Head(writing.msgs) \in Nat /\ Tail(writing.msgs) \in Seq(Nat)
    BY <2>1, HeadTailProperties
  <2>3. Append(db[writing.of], Head(writing.msgs)) \in Seq(Nat)
    BY <2>1, <2>2, AppendProperties
  <2>4. QED
    BY <1>1, <2>1, <2>2, <2>3 DEF Write
<1>2. CASE WriteFails
  BY <1>2, <1>e DEF WriteFails
<1>3. CASE Written
  BY <1>3 DEF Written
<1>4. CASE Unlock
  BY <1>4 DEF Unlock
<1>5. ASSUME NEW t \in Threads, FlushNext(t) PROVE LoggedInv'
  BY <1>5, <1>e DEF FlushNext, Take
<1>6. ASSUME NEW t \in Threads, SaveDialog(t) PROVE LoggedInv'
  <2>1. Append(buffer[t], appended[t] + 1) \in Seq(Nat)
    BY AppendProperties
  <2>2. CASE buffer' = [buffer EXCEPT ![t] = Append(buffer[t], appended[t] + 1)]
    BY <1>6, <2>1, <2>2 DEF SaveDialog
  <2>3. CASE buffer' = [buffer EXCEPT ![t] = <<>>]
    <3>1. /\ appended' = [appended EXCEPT ![t] = @ + 1]
          /\ writing' = [of |-> t, msgs |-> Append(buffer[t], appended[t] + 1)]
          /\ lock' = "append" /\ UNCHANGED <<db, failures, todo>>
      BY <1>6, <2>3, <2>1 DEF SaveDialog
    <3>2. QED
      BY <1>e, <2>1, <2>3, <3>1
  <2>4. QED
    BY <1>6, <2>2, <2>3 DEF SaveDialog
<1>7. ASSUME NEW t \in Threads, EndDialog(t) PROVE LoggedInv'
  BY <1>7, <1>e DEF EndDialog, Take
<1>8. CASE PeriodicFlush \/ ShutdownFlushes
  BY <1>8 DEF PeriodicFlush, ShutdownFlushes, Buffered
<1>9. CASE ShutdownCancels \/ HistoryFromDb \/ UNCHANGED vars
  BY <1>9 DEF ShutdownCancels, HistoryFromDb, vars, reader
<1>10. ASSUME NEW t \in Threads, HistoryFromMemory(t) \/ HistoryMisses(t)
       PROVE  LoggedInv'
  BY <1>10 DEF HistoryFromMemory, HistoryMisses, reader
<1>11. QED
  BY <1>1, <1>2, <1>3, <1>4, <1>5, <1>6, <1>7, <1>8, <1>9, <1>10 DEF Next, Flush

-----------------------------------------------------------------------------
(***************************************************************************)
(* The two ends of a concatenation.                                        *)
(***************************************************************************)
LEMMA HeadOfConcat ==
  ASSUME NEW S, NEW s \in Seq(S), NEW r \in Seq(S), s # <<>>
  PROVE  s \o r # <<>> /\ Head(s \o r) = Head(s)
<1>1. s \o r \in Seq(S) /\ Len(s \o r) = Len(s) + Len(r) /\ Len(s) \in Nat \ {0}
  BY ConcatProperties, EmptySeq
<1>2. Len(r) \in Nat
  BY LenProperties
<1>3. s \o r # <<>>
  BY <1>1, <1>2, EmptySeq
<1>4. (s \o r)[1] = s[1]
  BY <1>1, <1>2, ConcatProperties
<1>5. QED
  BY <1>1, <1>3, <1>4

LEMMA RestOfConcat ==
  ASSUME NEW S, NEW s \in Seq(S), NEW r \in Seq(S)
  PROVE  SubSeq(s \o r, Len(s) + 1, Len(s \o r)) = r
<1>1. s \o r \in Seq(S) /\ Len(s \o r) = Len(s) + Len(r)
      /\ Len(s) \in Nat /\ Len(r) \in Nat
  BY ConcatProperties, LenProperties
<1> DEFINE q == SubSeq(s \o r, Len(s) + 1, Len(s \o r))
<1>2. \A i \in Len(s) + 1 .. Len(s \o r) : (s \o r)[i] \in S
  BY <1>1, ElementOfSeq
<1>3. /\ q \in Seq(S) /\ Len(q) = Len(r)
      /\ \A i \in 1 .. Len(r) : q[i] = (s \o r)[Len(s) + i]
  BY <1>1, <1>2, SubSeqProperties
<1>4. \A i \in 1 .. Len(r) : q[i] = r[i]
  BY <1>1, <1>3, ConcatProperties
<1>5. QED
  BY <1>3, <1>4, SeqEqual

LEMMA TailOfConcat ==
  ASSUME NEW S, NEW s \in Seq(S), NEW r \in Seq(S), s # <<>>
  PROVE  Tail(s) \o r = Tail(s \o r)
<1>1. /\ s \o r \in Seq(S) /\ s \o r # <<>> /\ Len(s \o r) = Len(s) + Len(r)
      /\ Len(s) \in Nat \ {0} /\ Len(r) \in Nat
  BY ConcatProperties, LenProperties, EmptySeq, HeadOfConcat
<1>2. /\ Tail(s) \in Seq(S) /\ Len(Tail(s)) = Len(s) - 1
      /\ \A i \in 1 .. Len(s) - 1 : Tail(s)[i] = s[i + 1]
  BY HeadTailProperties
<1>3. /\ Tail(s \o r) \in Seq(S) /\ Len(Tail(s \o r)) = Len(s) + Len(r) - 1
      /\ \A i \in 1 .. Len(s) + Len(r) - 1 : Tail(s \o r)[i] = (s \o r)[i + 1]
  BY <1>1, HeadTailProperties
<1>4. /\ Tail(s) \o r \in Seq(S) /\ Len(Tail(s) \o r) = Len(s) - 1 + Len(r)
      /\ \A i \in 1 .. Len(s) - 1 + Len(r) :
           (Tail(s) \o r)[i] = IF i <= Len(s) - 1 THEN Tail(s)[i]
                                ELSE r[i - (Len(s) - 1)]
  BY <1>1, <1>2, ConcatProperties
<1>5. \A i \in 1 .. Len(s) + Len(r) - 1 :
        (s \o r)[i + 1] = IF i + 1 <= Len(s) THEN s[i + 1] ELSE r[i + 1 - Len(s)]
  BY <1>1, ConcatProperties
<1>6. \A i \in 1 .. Len(s) + Len(r) - 1 : (Tail(s) \o r)[i] = Tail(s \o r)[i]
  <2> TAKE i \in 1 .. Len(s) + Len(r) - 1
  <2>1. CASE i <= Len(s) - 1
    BY <2>1, <1>1, <1>2, <1>3, <1>4, <1>5
  <2>2. CASE i > Len(s) - 1
    <3>1. i - (Len(s) - 1) = i + 1 - Len(s)
      BY <1>1
    <3>2. QED
      BY <2>2, <3>1, <1>1, <1>3, <1>4, <1>5
  <2>3. QED
    BY <2>1, <2>2, <1>1
<1>7. QED
  BY <1>1, <1>3, <1>4, <1>6, SeqEqual

-----------------------------------------------------------------------------
(***************************************************************************)
(* Every step is a step of the abstract history.                           *)
(***************************************************************************)
LEMMA FlightTypes ==
  ASSUME Typed, NEW t \in Threads
  PROVE  InFlight(t) \in Seq(Nat) /\ Flight(t) \in Seq(Nat)
<1>1. InFlight(t) \in Seq(Nat)
  BY EmptySeq DEF Typed, InFlight
<1>2. QED
  BY <1>1, ConcatProperties DEF Typed, Flight

\* With the mutex just taken, moving the buffer into a batch changes nothing.
LEMMA TakeKeepsFlight ==
  ASSUME Typed, Idle, NEW t \in Threads, Take(t)
  PROVE  \A u \in Threads : Flight(u)' = Flight(u)
<1> SUFFICES ASSUME NEW u \in Threads PROVE Flight(u)' = Flight(u)
  OBVIOUS
<1>1. InFlight(u) = <<>> /\ Flight(u) = buffer[u]
  BY NoThreadAssumption, ConcatEmptySeq DEF Idle, InFlight, Flight, Typed
<1>2. CASE u = t
  <2>1. InFlight(u)' = buffer[u] /\ buffer'[u] = <<>>
    BY <1>2 DEF Take, InFlight, Typed
  <2>2. QED
    BY <1>1, <2>1, ConcatEmptySeq DEF Flight, Typed
<1>3. CASE u # t
  <2>1. InFlight(u)' = <<>> /\ buffer'[u] = buffer[u]
    BY <1>3 DEF Take, InFlight, Typed
  <2>2. QED
    BY <1>1, <2>1, ConcatEmptySeq DEF Flight, Typed
<1>4. QED
  BY <1>2, <1>3

LEMMA SaveIsSave ==
  ASSUME LoggedInv, NEW t \in Threads, SaveDialog(t)
  PROVE  Log!Save(t)
<1> USE DEF LoggedInv, Typed, Guarded
<1> DEFINE full == Append(buffer[t], appended[t] + 1)
<1>1. /\ lock = "free" /\ Idle
      /\ appended' = [appended EXCEPT ![t] = @ + 1]
      /\ UNCHANGED <<db, failures>>
  BY DEF SaveDialog
<1>2. \A u \in Threads : InFlight(u) = <<>> /\ InFlight(u) \o buffer[u] = buffer[u]
  BY <1>1, NoThreadAssumption, ConcatEmptySeq DEF Idle, InFlight
<1>3. full \in Seq(Nat)
  BY AppendProperties
<1>4. \A u \in Threads :
        InFlight(u)' \o buffer'[u] = IF u = t THEN full ELSE buffer[u]
  <2> TAKE u \in Threads
  <2>1. CASE buffer' = [buffer EXCEPT ![t] = full] /\ UNCHANGED writing
    <3>1. InFlight(u)' = <<>> /\ buffer'[u] = IF u = t THEN full ELSE buffer[u]
      BY <2>1, <1>2 DEF InFlight
    <3>2. QED
      BY <3>1, <1>3, ConcatEmptySeq
  <2>2. CASE /\ buffer' = [buffer EXCEPT ![t] = <<>>]
             /\ writing' = [of |-> t, msgs |-> full]
    <3>1. /\ InFlight(u)' = IF u = t THEN full ELSE <<>>
          /\ buffer'[u] = IF u = t THEN <<>> ELSE buffer[u]
      BY <2>2 DEF InFlight
    <3>2. QED
      BY <3>1, <1>3, ConcatEmptySeq
  <2>3. QED
    BY <2>1, <2>2 DEF SaveDialog
<1>5. [u \in Threads |-> InFlight(u)' \o buffer'[u]]
        = [[u \in Threads |-> InFlight(u) \o buffer[u]]
             EXCEPT ![t] = Append(@, appended[t] + 1)]
  BY <1>2, <1>4, Zenon
<1>6. QED
  BY <1>1, <1>5 DEF Log!Save

LEMMA WriteIsStore ==
  ASSUME LoggedInv, Write
  PROVE  \E t \in Threads : Log!Store(t)
<1> USE DEF LoggedInv, Typed
<1> SUFFICES ASSUME NEW t \in Threads, t = writing.of,
                    NEW s \in Seq(Nat), s = writing.msgs
             PROVE  Log!Store(t)
  BY DEF Write, Idle
<1>1. t \in Threads /\ s \in Seq(Nat) /\ s # <<>> /\ buffer[t] \in Seq(Nat)
  BY DEF Write, Idle
<1>2. InFlight(t) = s /\ InFlight(t)' = Tail(s)
  BY <1>1 DEF Write, InFlight
<1>3. /\ s \o buffer[t] # <<>>
      /\ Head(s \o buffer[t]) = Head(s)
      /\ Tail(s) \o buffer[t] = Tail(s \o buffer[t])
  BY <1>1, HeadOfConcat, TailOfConcat
<1>4. \A u \in Threads : u # t => InFlight(u)' = InFlight(u)
  BY DEF Write, InFlight
<1>5. [u \in Threads |-> InFlight(u)' \o buffer'[u]]
        = [[u \in Threads |-> InFlight(u) \o buffer[u]] EXCEPT ![t] = Tail(@)]
  <2>1. buffer' = buffer
    BY DEF Write
  <2>2. QED
    BY <2>1, <1>1, <1>2, <1>3, <1>4, Zenon
<1>6. /\ db' = [db EXCEPT ![t] = Append(@, Head(s \o buffer[t]))]
      /\ UNCHANGED <<appended, failures>>
  BY <1>3 DEF Write
<1>7. QED
  BY <1>1, <1>2, <1>3, <1>5, <1>6 DEF Log!Store

LEMMA FailureLoses ==
  ASSUME LoggedInv, WriteFails
  PROVE  \E t \in Threads : Log!Lose(t)
<1> USE DEF LoggedInv, Typed
<1> SUFFICES ASSUME NEW t \in Threads, t = writing.of,
                    NEW s \in Seq(Nat), s = writing.msgs
             PROVE  Log!Lose(t)
  BY DEF WriteFails, Idle
<1>1. /\ t \in Threads /\ s \in Seq(Nat) /\ s # <<>> /\ buffer[t] \in Seq(Nat)
      /\ DbFails /\ failures' = failures + 1
      /\ UNCHANGED <<appended, buffer, db>>
  BY DEF WriteFails, Idle
<1>2. Len(s) \in 1 .. Len(s \o buffer[t])
  BY <1>1, LenProperties, EmptySeq, ConcatProperties
<1>3. SubSeq(s \o buffer[t], Len(s) + 1, Len(s \o buffer[t])) = buffer[t]
  BY <1>1, RestOfConcat
<1>4. \A u \in Threads : InFlight(u)' = <<>>
  BY NoThreadAssumption DEF WriteFails, InFlight
<1>5. /\ InFlight(t) = s
      /\ \A u \in Threads : u # t => InFlight(u) = <<>>
  BY DEF InFlight
<1>6. [u \in Threads |-> InFlight(u)' \o buffer'[u]]
        = [[u \in Threads |-> InFlight(u) \o buffer[u]]
             EXCEPT ![t] = SubSeq(@, Len(s) + 1, Len(@))]
  <2>1. InFlight(t)' \o buffer'[t] = buffer[t]
    BY <1>1, <1>4, ConcatEmptySeq
  <2>2. \A u \in Threads : u # t => InFlight(u)' = InFlight(u)
    BY <1>4, <1>5
  <2>3. QED
    BY <2>1, <2>2, <1>1, <1>3, <1>5, Zenon
<1>7. QED
  BY <1>1, <1>2, <1>5, <1>6 DEF Log!Lose

LEMMA SameFlight ==
  ASSUME \A u \in Threads : Flight(u)' = Flight(u), UNCHANGED <<appended, db, failures>>
  PROVE  UNCHANGED Log!vars
BY DEF Flight, Log!vars

LEMMA OthersStutter ==
  ASSUME LoggedInv,
         \/ \E t \in Threads : \/ FlushNext(t) \/ EndDialog(t)
                               \/ HistoryFromMemory(t) \/ HistoryMisses(t)
         \/ Written \/ Unlock \/ PeriodicFlush \/ ShutdownCancels
         \/ ShutdownFlushes \/ HistoryFromDb \/ UNCHANGED vars
  PROVE  UNCHANGED Log!vars
<1>1. ASSUME NEW t \in Threads, FlushNext(t) \/ EndDialog(t)
      PROVE  UNCHANGED Log!vars
  <2>1. Take(t) /\ Idle /\ UNCHANGED <<appended, db, failures>>
    BY <1>1 DEF FlushNext, EndDialog, LoggedInv, Guarded
  <2>2. QED
    BY <2>1, TakeKeepsFlight, SameFlight DEF LoggedInv
<1>2. CASE Written
  <2>1. \A u \in Threads : InFlight(u)' = InFlight(u)
    BY <1>2, NoThreadAssumption DEF Written, InFlight, LoggedInv, Typed
  <2>2. UNCHANGED <<buffer, appended, db, failures>>
    BY <1>2 DEF Written
  <2>3. QED
    BY <2>1, <2>2, SameFlight DEF Flight
<1>3. CASE UNCHANGED untouched
  <2>1. \A u \in Threads : Flight(u)' = Flight(u)
    BY <1>3 DEF untouched, Flight, InFlight
  <2>2. QED
    BY <1>3, <2>1, SameFlight DEF untouched
<1>4. ASSUME NEW t \in Threads, HistoryFromMemory(t) \/ HistoryMisses(t)
      PROVE  UNCHANGED untouched
  BY <1>4 DEF HistoryFromMemory, HistoryMisses, untouched
<1>5. ASSUME \/ Unlock \/ PeriodicFlush \/ ShutdownCancels
             \/ ShutdownFlushes \/ HistoryFromDb \/ UNCHANGED vars
      PROVE  UNCHANGED untouched
  BY <1>5 DEF Unlock, PeriodicFlush, ShutdownCancels, ShutdownFlushes,
              HistoryFromDb, vars, untouched
<1>6. QED
  BY <1>1, <1>2, <1>3, <1>4, <1>5

LEMMA LogInit == Init => Log!Init
<1> SUFFICES ASSUME Init PROVE Log!Init
  OBVIOUS
<1>1. \A t \in Threads : InFlight(t) \o buffer[t] = <<>>
  <2> TAKE t \in Threads
  <2>1. InFlight(t) = <<>> /\ buffer[t] = <<>> /\ <<>> \in Seq(Nat)
    BY EmptySeq DEF Init, InFlight
  <2>2. QED
    BY <2>1, ConcatEmptySeq
<1>2. QED
  BY <1>1 DEF Init, Log!Init

LEMMA LogStep == LoggedInv /\ [Next]_vars => [Log!Next]_(Log!vars)
<1> SUFFICES ASSUME LoggedInv, [Next]_vars PROVE [Log!Next]_(Log!vars)
  OBVIOUS
<1>1. CASE Write
  BY <1>1, WriteIsStore DEF Log!Next
<1>2. CASE WriteFails
  BY <1>2, FailureLoses DEF Log!Next
<1>3. ASSUME NEW t \in Threads, SaveDialog(t) PROVE Log!Next
  BY <1>3, SaveIsSave DEF Log!Next
<1>4. QED
  BY <1>1, <1>2, <1>3, OthersStutter DEF Next, Flush

\* The buffer, its four flushes and the reads implement the abstract history,
\* for every batch size and whatever writes fail: SaveDialog, flushThreadBatch
\* and their callers.
THEOREM BatchImplementsLog == Spec => ImplementsLog
<1>1. Spec => []LoggedInv
  BY LoggedInit, LoggedStep, PTL DEF Spec
<1>2. QED
  BY <1>1, LogInit, LogStep, PTL DEF Spec, ImplementsLog, Log!Spec

-----------------------------------------------------------------------------
(***************************************************************************)
(* The history of a dialog: stored, in flight, buffered.  It rises and has *)
(* no number beyond the last one given out; until a write fails it is all  *)
(* of them.                                                                *)
(***************************************************************************)
Line(t) == db[t] \o Flight(t)

Rising(s, n) ==
  /\ \A i, j \in 1..Len(s) : i < j => s[i] < s[j]
  /\ \A i \in 1..Len(s) : s[i] <= n

Ordered == \A t \in Threads : Rising(Line(t), appended[t])
Whole == failures = 0 => \A t \in Threads : Line(t) = Numbers(appended[t])

LEMMA RisingAppend ==
  ASSUME NEW n \in Nat, NEW s \in Seq(Nat), Rising(s, n)
  PROVE  Rising(Append(s, n + 1), n + 1)
<1> DEFINE a == Append(s, n + 1)
<1>0. Len(s) \in Nat /\ Len(a) = Len(s) + 1
  BY AppendProperties, LenProperties
<1>1. /\ a \in Seq(Nat) /\ Len(s) \in Nat /\ Len(a) = Len(s) + 1
      /\ \A i \in 1..Len(s) : a[i] = s[i] /\ s[i] \in Nat
      /\ a[Len(s) + 1] = n + 1
  BY AppendProperties, LenProperties, ElementOfSeq
<1> HIDE DEF a
<1>2. \A i, j \in 1..Len(a) : i < j => a[i] < a[j]
  <2> SUFFICES ASSUME NEW i \in 1..Len(a), NEW j \in 1..Len(a), i < j
               PROVE  a[i] < a[j]
    OBVIOUS
  <2>1. i \in 1..Len(s) /\ a[i] = s[i] /\ s[i] \in Nat /\ s[i] <= n
    BY <1>1 DEF Rising
  <2>2. CASE j \in 1..Len(s)
    BY <1>1, <2>1, <2>2 DEF Rising
  <2>3. CASE j = Len(s) + 1
    BY <1>1, <2>1, <2>3
  <2>4. j \in 1..Len(s) \/ j = Len(s) + 1
    BY <1>0
  <2>5. QED
    BY <2>2, <2>3, <2>4
<1>3. \A i \in 1..Len(a) : a[i] <= n + 1
  <2> TAKE i \in 1..Len(a)
  <2>1. CASE i \in 1..Len(s)
    BY <1>1, <2>1 DEF Rising
  <2>2. CASE i = Len(s) + 1
    BY <1>1, <2>2
  <2>3. QED
    BY <1>1, <2>1, <2>2
<1>4. QED
  BY <1>2, <1>3 DEF Rising, a

\* A history that loses a piece in its middle still rises.
LEMMA RisingDrop ==
  ASSUME NEW n \in Nat, NEW d \in Seq(Nat), NEW q \in Seq(Nat),
         NEW k \in 1..Len(q), Rising(d \o q, n)
  PROVE  Rising(d \o SubSeq(q, k + 1, Len(q)), n)
<1> DEFINE r == SubSeq(q, k + 1, Len(q))
           m == Len(d)
<1>1. m \in Nat /\ Len(q) \in Nat /\ k \in Nat /\ k <= Len(q)
  BY LenProperties
<1>2. /\ r \in Seq(Nat) /\ Len(r) = Len(q) - k
      /\ \A i \in 1..Len(q) - k : r[i] = q[k + i]
  <2>1. \A i \in k + 1..Len(q) : q[i] \in Nat
    BY <1>1, ElementOfSeq
  <2>2. QED
    BY <1>1, <2>1, SubSeqProperties
<1> HIDE DEF r, m
<1>3. /\ Len(d \o q) = m + Len(q)
      /\ \A i \in 1..m + Len(q) : (d \o q)[i] = IF i <= m THEN d[i] ELSE q[i - m]
  BY ConcatProperties DEF m
<1>4. /\ Len(d \o r) = m + Len(q) - k
      /\ \A i \in 1..m + Len(q) - k :
           (d \o r)[i] = IF i <= m THEN d[i] ELSE r[i - m]
  <2>1. /\ Len(d \o r) = m + Len(r)
        /\ \A i \in 1..m + Len(r) :
             (d \o r)[i] = IF i <= m THEN d[i] ELSE r[i - m]
    BY <1>2, ConcatProperties DEF m
  <2>2. m + Len(r) = m + Len(q) - k
    BY <1>1, <1>2
  <2>3. QED
    BY <2>1, <2>2
<1> DEFINE f(i) == IF i <= m THEN i ELSE i + k
<1>5. \A i \in 1..Len(d \o r) :
        f(i) \in 1..Len(d \o q) /\ (d \o r)[i] = (d \o q)[f(i)]
  <2> TAKE i \in 1..Len(d \o r)
  <2>0. i \in 1..m + Len(q) - k
    BY <1>4
  <2>1. CASE i <= m
    BY <1>1, <1>3, <1>4, <2>0, <2>1
  <2>2. CASE i > m
    <3>1. i - m \in 1..Len(q) - k /\ i + k \in 1..m + Len(q) /\ ~(i + k <= m)
      BY <1>1, <2>0, <2>2
    <3>2. k + (i - m) = (i + k) - m
      BY <1>1, <2>2
    <3>3. r[i - m] = q[(i + k) - m]
      BY <1>2, <3>1, <3>2
    <3>4. (d \o r)[i] = r[i - m]
      <4>1. ~(i <= m)
        BY <1>1, <2>0, <2>2
      <4>2. QED
        BY <1>4, <2>0, <4>1
    <3>5. (d \o q)[i + k] = q[(i + k) - m]
      BY <1>3, <3>1
    <3>6. f(i) = i + k
      BY <1>1, <2>0, <2>2
    <3>7. QED
      BY <1>3, <3>1, <3>3, <3>4, <3>5, <3>6
  <2>3. i <= m \/ i > m
    BY <1>1, <2>0
  <2>4. QED
    BY <2>1, <2>2, <2>3
<1>6. \A i, j \in 1..Len(d \o r) : i < j => f(i) < f(j)
  BY <1>1, <1>4
<1> HIDE DEF f
<1>7. QED
  BY <1>5, <1>6 DEF Rising, r

LEMMA NumbersTypes ==
  ASSUME NEW n \in Nat
  PROVE  /\ Numbers(n) \in Seq(Nat) /\ Len(Numbers(n)) = n
         /\ \A i \in 1..n : Numbers(n)[i] = i
BY DEF Numbers

LEMMA NoNumbers == Numbers(0) = <<>>
BY NumbersTypes, EmptySeq

LEMMA AppendNumbers ==
  ASSUME NEW n \in Nat
  PROVE  Append(Numbers(n), n + 1) = Numbers(n + 1)
<1> DEFINE a == Append(Numbers(n), n + 1)
           b == Numbers(n + 1)
<1>1. /\ a \in Seq(Nat) /\ Len(a) = n + 1
      /\ \A i \in 1..n : a[i] = i
      /\ a[n + 1] = n + 1
  BY NumbersTypes, AppendProperties
<1>2. b \in Seq(Nat) /\ Len(b) = n + 1 /\ \A i \in 1..n + 1 : b[i] = i
  BY NumbersTypes
<1> HIDE DEF a, b
<1>3. \A i \in 1..n + 1 : a[i] = b[i]
  BY <1>1, <1>2
<1>4. a = b
  BY <1>1, <1>2, <1>3, SeqEqual
<1>5. QED
  BY <1>4 DEF a, b

LEMMA LineTypes ==
  ASSUME Typed, NEW t \in Threads
  PROVE  /\ db[t] \in Seq(Nat) /\ Flight(t) \in Seq(Nat) /\ Line(t) \in Seq(Nat)
         /\ appended[t] \in Nat
<1>1. db[t] \in Seq(Nat) /\ Flight(t) \in Seq(Nat) /\ appended[t] \in Nat
  BY FlightTypes DEF Typed
<1>2. QED
  BY <1>1, ConcatProperties DEF Line

\* What the abstract actions do to the history of each dialog.
LEMMA SavedLine ==
  ASSUME Typed, NEW t \in Threads, Log!Save(t), NEW u \in Threads
  PROVE  IF u = t THEN /\ Line(u)' = Append(Line(u), appended[u] + 1)
                       /\ appended'[u] = appended[u] + 1
                  ELSE Line(u)' = Line(u) /\ appended'[u] = appended[u]
<1>1. /\ Flight(u)' = IF u = t THEN Append(Flight(u), appended[u] + 1) ELSE Flight(u)
      /\ db'[u] = db[u]
      /\ appended'[u] = IF u = t THEN appended[u] + 1 ELSE appended[u]
  BY DEF Log!Save, Flight, Typed
<1>2. db[u] \o Append(Flight(u), appended[u] + 1) = Append(Line(u), appended[u] + 1)
  <2>1. appended[u] + 1 \in Nat /\ <<appended[u] + 1>> \in Seq(Nat)
    BY LineTypes
  <2>2. QED
    <3> DEFINE e == appended[u] + 1
               d == db[u]
               q == Flight(u)
    <3>1. d \in Seq(Nat) /\ q \in Seq(Nat) /\ d \o q \in Seq(Nat)
          /\ e \in Nat /\ <<e>> \in Seq(Nat)
      BY <2>1, LineTypes DEF Line
    <3> HIDE DEF e, d, q
    <3>2. Append(q, e) = q \o <<e>> /\ Append(d \o q, e) = (d \o q) \o <<e>>
      BY <3>1, AppendIsConcat
    <3>3. d \o (q \o <<e>>) = (d \o q) \o <<e>>
      BY <3>1, ConcatAssociative
    <3>4. QED
      BY <3>2, <3>3 DEF Line, e, d, q
<1>3. QED
  BY <1>1, <1>2 DEF Line

LEMMA StoredLine ==
  ASSUME Typed, NEW t \in Threads, Log!Store(t), NEW u \in Threads
  PROVE  Line(u)' = Line(u) /\ appended'[u] = appended[u]
<1>1. /\ Flight(u)' = IF u = t THEN Tail(Flight(u)) ELSE Flight(u)
      /\ db'[u] = IF u = t THEN Append(db[u], Head(Flight(u))) ELSE db[u]
      /\ u = t => Flight(u) # <<>>
      /\ appended' = appended
  BY DEF Log!Store, Flight, Typed
<1>2. ASSUME Flight(u) # <<>>
      PROVE  Append(db[u], Head(Flight(u))) \o Tail(Flight(u)) = db[u] \o Flight(u)
  <2> DEFINE q == Flight(u)
  <2>1. q \in Seq(Nat) /\ db[u] \in Seq(Nat) /\ q # <<>>
    BY <1>2, LineTypes
  <2> HIDE DEF q
  <2>2. Head(q) \in Nat /\ Tail(q) \in Seq(Nat) /\ <<Head(q)>> \in Seq(Nat)
    BY <2>1, HeadTailProperties
  <2>3. <<Head(q)>> \o Tail(q) = q
    <3>1. Len(q) \in Nat \ {0}
      BY <2>1, EmptySeq
    <3>2. SubSeq(q, 1, Len(q)) = <<q[1]>> \o SubSeq(q, 2, Len(q))
      BY <2>1, <3>1, SubSeqRecursiveFirst
    <3>3. SubSeq(q, 1, Len(q)) = q /\ Tail(q) = SubSeq(q, 2, Len(q)) /\ Head(q) = q[1]
      BY <2>1, SubSeqFull, TailIsSubSeq
    <3>4. QED
      BY <3>2, <3>3
  <2>4. Append(db[u], Head(q)) = db[u] \o <<Head(q)>>
    BY <2>1, <2>2, AppendIsConcat
  <2>5. (db[u] \o <<Head(q)>>) \o Tail(q) = db[u] \o q
    BY <2>1, <2>2, <2>3, ConcatAssociative
  <2>6. QED
    BY <2>4, <2>5 DEF q
<1>3. QED
  BY <1>1, <1>2 DEF Line

LEMMA LostLine ==
  ASSUME Typed, NEW t \in Threads, Log!Lose(t), NEW u \in Threads
  PROVE  /\ \/ Line(u)' = Line(u)
            \/ \E k \in 1..Len(Flight(u)) :
                 Line(u)' = db[u] \o SubSeq(Flight(u), k + 1, Len(Flight(u)))
         /\ appended'[u] = appended[u] /\ failures' = failures + 1
<1>1. PICK k \in 1..Len(Flight(t)) :
        Flight(u)' = IF u = t THEN SubSeq(Flight(u), k + 1, Len(Flight(u)))
                              ELSE Flight(u)
  BY DEF Log!Lose, Flight
<1>2. db' = db /\ appended' = appended /\ failures' = failures + 1
  BY DEF Log!Lose
<1>3. QED
  BY <1>1, <1>2 DEF Line

LEMMA OrderedStep ==
  Typed /\ Ordered /\ Whole /\ [Log!Next]_(Log!vars) => (Ordered /\ Whole)'
<1> SUFFICES ASSUME Typed, Ordered, Whole, [Log!Next]_(Log!vars)
             PROVE  Ordered' /\ Whole'
  OBVIOUS
<1>1. ASSUME NEW t \in Threads, Log!Save(t) PROVE Ordered' /\ Whole'
  <2>1. ASSUME NEW u \in Threads PROVE Rising(Line(u)', appended'[u])
    BY <1>1, <2>1, SavedLine, LineTypes, RisingAppend DEF Ordered
  <2>2. ASSUME failures' = 0, NEW u \in Threads
        PROVE  Line(u)' = Numbers(appended'[u])
    <3>1. failures = 0 /\ Line(u) = Numbers(appended[u]) /\ appended[u] \in Nat
      BY <1>1, <2>2, LineTypes DEF Log!Save, Whole
    <3>2. Append(Numbers(appended[u]), appended[u] + 1) = Numbers(appended[u] + 1)
      BY <3>1, AppendNumbers
    <3>3. QED
      BY <1>1, <3>1, <3>2, SavedLine
  <2>3. QED
    BY <2>1, <2>2 DEF Ordered, Whole
<1>2. ASSUME NEW t \in Threads, Log!Store(t) PROVE Ordered' /\ Whole'
  <2>1. \A u \in Threads : Line(u)' = Line(u) /\ appended'[u] = appended[u]
    BY <1>2, StoredLine
  <2>2. failures' = failures
    BY <1>2 DEF Log!Store
  <2>3. QED
    BY <2>1, <2>2 DEF Ordered, Whole
<1>3. ASSUME NEW t \in Threads, Log!Lose(t) PROVE Ordered' /\ Whole'
  <2>1. failures' # 0
    BY <1>3, LostLine DEF Typed
  <2>2. ASSUME NEW u \in Threads PROVE Rising(Line(u)', appended'[u])
    <3>1. Rising(db[u] \o Flight(u), appended[u])
      BY <2>2 DEF Ordered, Line
    <3>2. \A k \in 1..Len(Flight(u)) :
            Rising(db[u] \o SubSeq(Flight(u), k + 1, Len(Flight(u))), appended[u])
      BY <3>1, LineTypes, RisingDrop
    <3>3. QED
      BY <1>3, <2>2, <3>1, <3>2, LostLine DEF Line
  <2>3. QED
    BY <2>1, <2>2 DEF Ordered, Whole
<1>4. CASE UNCHANGED Log!vars
  <2>1. \A u \in Threads : Flight(u)' = Flight(u)
    <3>1. [t \in Threads |-> InFlight(t) \o buffer[t]]'
            = [t \in Threads |-> InFlight(t) \o buffer[t]]
      BY <1>4 DEF Log!vars
    <3>2. QED
      BY <3>1 DEF Flight
  <2>2. db' = db /\ appended' = appended /\ failures' = failures
    BY <1>4 DEF Log!vars
  <2>3. QED
    BY <2>1, <2>2 DEF Ordered, Whole, Line
<1>5. QED
  BY <1>1, <1>2, <1>3, <1>4 DEF Log!Next

LEMMA OrderedInit == Init => Ordered /\ Whole
<1> SUFFICES ASSUME Init, NEW t \in Threads
             PROVE  Rising(Line(t), appended[t]) /\ Line(t) = Numbers(appended[t])
  BY DEF Ordered, Whole
<1>1. db[t] = <<>> /\ Flight(t) = <<>> /\ appended[t] = 0
  <2>1. InFlight(t) = <<>> /\ buffer[t] = <<>> /\ <<>> \in Seq(Nat)
    BY EmptySeq DEF Init, InFlight
  <2>2. QED
    BY <2>1, ConcatEmptySeq DEF Flight, Init
<1>2. Line(t) = <<>>
  <2>1. <<>> \in Seq(Nat)
    BY EmptySeq
  <2>2. QED
    BY <1>1, <2>1, ConcatEmptySeq DEF Line
<1>3. Numbers(0) = <<>>
  BY NoNumbers
<1>4. Len(<<>>) = 0
  BY EmptySeq
<1>5. Rising(<<>>, 0)
  BY <1>4 DEF Rising
<1>6. QED
  BY <1>1, <1>2, <1>3, <1>5

LEMMA HistoryInvariant == Spec => [](LoggedInv /\ Ordered /\ Whole)
<1>1. Init => LoggedInv /\ Ordered /\ Whole
  BY LoggedInit, OrderedInit
<1>2. LoggedInv /\ Ordered /\ Whole /\ [Next]_vars => (LoggedInv /\ Ordered /\ Whole)'
  BY LoggedStep, LogStep, OrderedStep DEF LoggedInv
<1>3. QED
  BY <1>1, <1>2, PTL DEF Spec

LEMMA LineIsHistory ==
  ASSUME LoggedInv, NEW t \in Threads
  PROVE  db[t] \o InFlight(t) \o buffer[t] = Line(t)
<1>1. db[t] \in Seq(Nat) /\ InFlight(t) \in Seq(Nat) /\ buffer[t] \in Seq(Nat)
  BY FlightTypes DEF LoggedInv, Typed
<1>2. (db[t] \o InFlight(t)) \o buffer[t] = db[t] \o (InFlight(t) \o buffer[t])
  <2> DEFINE d == db[t]
             w == InFlight(t)
             q == buffer[t]
  <2>1. d \in Seq(Nat) /\ w \in Seq(Nat) /\ q \in Seq(Nat)
    BY <1>1
  <2> HIDE DEF d, w, q
  <2>2. (d \o w) \o q = d \o (w \o q)
    BY <2>1, ConcatAssociative
  <2>3. QED
    BY <2>2 DEF d, w, q
<1>3. QED
  BY <1>2 DEF Line, Flight

\* Whatever writes fail, the messages of a dialog are never reordered or
\* repeated: SaveDialog and the flushes of endpoint.go.
THEOREM BatchAscends == Spec => []HistoryAscends
<1>1. LoggedInv /\ Ordered => HistoryAscends
  BY LineIsHistory DEF Ordered, Rising, HistoryAscends
<1>2. QED
  BY <1>1, HistoryInvariant, PTL

\* While no write has failed, database, batch and buffer hold every message.
THEOREM BatchIsWhole == Spec => []HistoryWhole
<1>1. LoggedInv /\ Whole => HistoryWhole
  BY LineIsHistory DEF Whole, HistoryWhole
<1>2. QED
  BY <1>1, HistoryInvariant, PTL

-----------------------------------------------------------------------------
(***************************************************************************)
(* What a reader finds.  The database had all that was saved when the      *)
(* mutex was released, and a dialog's database holds a beginning of its    *)
(* history.                                                                *)
(***************************************************************************)
Stored == failures = 0 /\ reading.of # NoThread =>
  /\ reading.of \in Threads /\ reading.since \in Nat
  /\ reading.since <= Len(db[reading.of])

\* The last flush of Shutdown keeps the mutex until every buffer is empty.
LastFlush ==
  /\ stopAll \in [Threads -> Nat]
  /\ stop = "flushing" =>
       /\ lock = "all" /\ stopAll = appended
       /\ failures = 0 => \A t \in Threads \ todo : buffer[t] = <<>>

ReadInv == Stored /\ DbHistoryIsLastN /\ LastFlush /\ ShutdownSaves

LEMMA BeginningOfNumbers ==
  ASSUME NEW n \in Nat, NEW d \in Seq(Nat), NEW q \in Seq(Nat), d \o q = Numbers(n)
  PROVE  Len(d) \in 0..n /\ d = Numbers(Len(d))
<1>1. /\ Len(d) \in Nat /\ Len(q) \in Nat /\ Len(d \o q) = Len(d) + Len(q)
      /\ \A i \in 1..Len(d) + Len(q) : i <= Len(d) => (d \o q)[i] = d[i]
  BY ConcatProperties, LenProperties
<1>2. Len(d \o q) = n /\ \A i \in 1..n : (d \o q)[i] = i
  BY NumbersTypes
<1> DEFINE k == Len(d)
<1>3. k \in 0..n /\ \A i \in 1..k : d[i] = i
  BY <1>1, <1>2
<1>4. Numbers(k) \in Seq(Nat) /\ Len(Numbers(k)) = k /\ \A i \in 1..k : Numbers(k)[i] = i
  <2>1. k \in Nat
    BY <1>1
  <2> HIDE DEF k
  <2>2. QED
    BY <2>1, NumbersTypes
<1>5. \A i \in 1..k : d[i] = Numbers(k)[i]
  BY <1>3, <1>4
<1>6. d = Numbers(k)
  BY <1>4, <1>5, SeqEqual
<1>7. QED
  BY <1>3, <1>6

LEMMA StoredIsBeginning ==
  ASSUME Typed, Whole, failures = 0, NEW t \in Threads
  PROVE  /\ Len(db[t]) \in 0..appended[t] /\ db[t] = Numbers(Len(db[t]))
         /\ Idle /\ buffer[t] = <<>> => Len(db[t]) = appended[t]
<1>1. /\ db[t] \in Seq(Nat) /\ Flight(t) \in Seq(Nat) /\ appended[t] \in Nat
      /\ db[t] \o Flight(t) = Numbers(appended[t])
  BY LineTypes DEF Whole, Line
<1>2. ASSUME Idle, buffer[t] = <<>> PROVE Len(db[t]) = appended[t]
  <2>1. InFlight(t) = <<>> /\ <<>> \in Seq(Nat)
    BY <1>2, NoThreadAssumption, EmptySeq DEF Idle, InFlight
  <2>2. Flight(t) = <<>>
    BY <1>2, <2>1, ConcatEmptySeq DEF Flight
  <2>3. QED
    BY <1>1, <2>2, ConcatEmptySeq, NumbersTypes
<1>3. QED
  BY <1>1, <1>2, BeginningOfNumbers

\* What is stored stays, and no refused write is forgotten.
LEMMA StoreGrows ==
  ASSUME Typed, [Next]_vars
  PROVE  /\ failures' \in {failures, failures + 1}
         /\ \A t \in Threads : Len(db[t]) \in Nat /\ Len(db'[t]) \in Nat /\ Len(db'[t]) >= Len(db[t])
<1>1. \A t \in Threads : db[t] \in Seq(Nat) /\ Len(db[t]) \in Nat
  BY LenProperties DEF Typed
<1>2. CASE Write
  <2>1. writing.of \in Threads /\ writing.msgs \in Seq(Nat) /\ writing.msgs # <<>>
    BY <1>2 DEF Write, Typed, Idle
  <2>2. Head(writing.msgs) \in Nat
    BY <2>1, HeadTailProperties
  <2>3. \A t \in Threads : db'[t] = db[t] \/ db'[t] = Append(db[t], Head(writing.msgs))
    BY <1>2 DEF Write, Typed
  <2>4. \A t \in Threads : Len(Append(db[t], Head(writing.msgs))) = Len(db[t]) + 1
    BY <1>1, <2>2, AppendProperties
  <2>5. failures' = failures
    BY <1>2 DEF Write
  <2>6. QED
    BY <1>1, <2>3, <2>4, <2>5
<1>3. CASE ~Write
  <2>1. db' = db /\ failures' \in {failures, failures + 1}
    BY <1>3 DEF Next, Flush, WriteFails, Written, Unlock, FlushNext, Take, SaveDialog, EndDialog,
       PeriodicFlush, ShutdownCancels, ShutdownFlushes, HistoryFromDb, HistoryFromMemory,
       HistoryMisses, vars, Typed
  <2>2. QED
    BY <1>1, <2>1
<1>4. QED
  BY <1>2, <1>3

LEMMA ReadStep == LoggedInv /\ Whole /\ ReadInv /\ [Next]_vars => Stored' /\ DbHistoryIsLastN'
<1> SUFFICES ASSUME LoggedInv, Whole, ReadInv, [Next]_vars PROVE Stored' /\ DbHistoryIsLastN'
  OBVIOUS
<1> USE DEF LoggedInv, ReadInv
<1>1. failures' = 0 => failures = 0
  BY StoreGrows DEF Typed
<1>2. CASE UNCHANGED reader
  <2>1. Stored'
    BY <1>1, <1>2, StoreGrows DEF Stored, reader
  <2>2. DbHistoryIsLastN'
    BY <1>1, <1>2 DEF DbHistoryIsLastN, IsLastN, reader
  <2>3. QED
    BY <2>1, <2>2
<1>3. CASE HistoryFromDb
  <2>1. Stored'
    BY <1>3 DEF HistoryFromDb, Stored
  <2>2. ASSUME failures' = 0 PROVE IsLastN'
    <3>1. failures = 0 /\ reading.of \in Threads /\ reading.since \in Nat
          /\ reading.since <= Len(db[reading.of])
      BY <1>1, <1>3, <2>2 DEF HistoryFromDb, Stored
    <3>2. /\ Len(db[reading.of]) \in 0..appended[reading.of]
          /\ db[reading.of] = Numbers(Len(db[reading.of])) /\ appended[reading.of] \in Nat
      BY <3>1, StoredIsBeginning DEF Typed
    <3>3. Len(db[reading.of]) \in reading.since..appended[reading.of]
      BY <3>1, <3>2
    <3>4. /\ history'.since = reading.since /\ history'.till = appended[reading.of]
          /\ history'.got = LastOf(Numbers(Len(db[reading.of])), Limit)
      BY <1>3, <3>2 DEF HistoryFromDb
    <3>5. QED
      BY <3>3, <3>4 DEF IsLastN
  <2>3. QED
    BY <2>1, <2>2 DEF DbHistoryIsLastN
<1>4. ASSUME NEW t \in Threads, HistoryMisses(t) PROVE Stored' /\ DbHistoryIsLastN'
  <2>1. /\ Idle /\ buffer[t] = <<>> /\ UNCHANGED <<failures, db, history>>
        /\ reading'.of = t /\ reading'.since = appended[t] /\ appended[t] \in Nat
    BY <1>4 DEF HistoryMisses, Guarded, Typed
  <2>2. failures = 0 => Len(db[t]) = appended[t]
    BY <2>1, StoredIsBeginning
  <2>3. QED
    BY <2>1, <2>2 DEF Stored, DbHistoryIsLastN, IsLastN
<1>5. ASSUME NEW t \in Threads, HistoryFromMemory(t) PROVE Stored' /\ DbHistoryIsLastN'
  <2>1. history'.by = "memory" /\ UNCHANGED <<failures, db, reading>>
    BY <1>5 DEF HistoryFromMemory
  <2>2. QED
    BY <2>1 DEF Stored, DbHistoryIsLastN
<1>6. QED
  BY <1>2, <1>3, <1>4, <1>5 DEF Next, Flush, Write, WriteFails, Written, Unlock, FlushNext, SaveDialog,
     EndDialog, PeriodicFlush, ShutdownCancels, ShutdownFlushes, reader, vars

LEMMA StopStep == LoggedInv /\ Whole /\ ReadInv /\ [Next]_vars => LastFlush' /\ ShutdownSaves'
<1> SUFFICES ASSUME LoggedInv, Whole, ReadInv, [Next]_vars PROVE LastFlush' /\ ShutdownSaves'
  OBVIOUS
<1> USE DEF LoggedInv, ReadInv
<1>1. failures' = 0 => failures = 0
  BY StoreGrows DEF Typed
<1>2. stop' # stop \/ stopAll' # stopAll => Unlock \/ ShutdownCancels \/ ShutdownFlushes
  BY DEF Next, Flush, Write, WriteFails, Written, FlushNext, SaveDialog, EndDialog, PeriodicFlush,
     HistoryFromDb, HistoryFromMemory, HistoryMisses, vars
<1>3. CASE Unlock
  <2>1. LastFlush'
    BY <1>3 DEF Unlock, LastFlush
  <2>2. ASSUME stop = "flushing", failures = 0, NEW t \in Threads PROVE Len(db'[t]) >= stopAll'[t]
    <3>1. Idle /\ buffer[t] = <<>> /\ stopAll[t] = appended[t] /\ UNCHANGED <<db, stopAll>>
      BY <1>3, <2>2 DEF Unlock, LastFlush
    <3>2. Len(db[t]) = appended[t] /\ appended[t] \in Nat
      BY <2>2, <3>1, StoredIsBeginning DEF Typed
    <3>3. QED
      BY <3>1, <3>2
  <2>3. UNCHANGED <<db, stopAll, failures>> /\ (stop # "flushing" => stop' = stop)
    BY <1>3 DEF Unlock
  <2>4. QED
    BY <2>1, <2>2, <2>3 DEF ShutdownSaves
<1>4. CASE ShutdownCancels
  BY <1>4 DEF ShutdownCancels, LastFlush, ShutdownSaves
<1>5. CASE ShutdownFlushes
  BY <1>5 DEF ShutdownFlushes, Buffered, LastFlush, ShutdownSaves, Typed
<1>6. CASE stop' = stop /\ stopAll' = stopAll
  <2>1. ASSUME failures' = 0, stop = "over" PROVE \A t \in Threads : Len(db'[t]) >= stopAll'[t]
    <3>1. \A t \in Threads : /\ Len(db[t]) \in Nat /\ Len(db'[t]) \in Nat /\ Len(db'[t]) >= Len(db[t])
                             /\ Len(db[t]) >= stopAll[t] /\ stopAll[t] \in Nat
      BY <1>1, <2>1, StoreGrows DEF ShutdownSaves, LastFlush
    <3>2. QED
      BY <1>6, <3>1
  <2>2. ASSUME stop = "flushing" PROVE LastFlush'
    <3> USE <1>6, <2>2 DEF LastFlush
    <3>1. lock = "all" /\ stopAll = appended /\ stop = "flushing"
      OBVIOUS
    <3>2. ASSUME NEW t \in Threads, FlushNext(t) PROVE LastFlush'
      BY <3>1, <3>2 DEF FlushNext, Take, Typed
    <3>3. CASE WriteFails
      BY <3>1, <3>3 DEF WriteFails, Typed
    <3>4. CASE Write \/ Written \/ UNCHANGED vars \/ HistoryFromDb
      BY <3>1, <3>4 DEF Write, Written, vars, HistoryFromDb
    <3>5. ASSUME NEW t \in Threads, HistoryFromMemory(t) \/ HistoryMisses(t) PROVE LastFlush'
      BY <3>1, <3>5 DEF HistoryFromMemory, HistoryMisses
    <3>6. \A t \in Threads : ~SaveDialog(t) /\ ~EndDialog(t)
      BY <3>1 DEF SaveDialog, EndDialog
    <3>7. ~PeriodicFlush
      BY <3>1 DEF PeriodicFlush
    <3>8. QED
      BY <1>3, <1>4, <1>5, <3>2, <3>3, <3>4, <3>5, <3>6, <3>7 DEF Next, Flush
  <2>3. QED
    BY <1>6, <2>1, <2>2 DEF LastFlush, ShutdownSaves
<1>7. QED
  BY <1>2, <1>3, <1>4, <1>5, <1>6

LEMMA ReadInvariant == Spec => []ReadInv
<1>1. Init => ReadInv
  BY DEF Init, ReadInv, Stored, DbHistoryIsLastN, LastFlush, ShutdownSaves
<1>2. LoggedInv /\ Whole /\ ReadInv /\ [Next]_vars => ReadInv'
  BY ReadStep, StopStep DEF ReadInv
<1>3. QED
  BY <1>1, <1>2, HistoryInvariant, PTL DEF Spec

\* GetDialogHistory reads the database without the mutex and still finds the
\* last messages of some moment between its call and its return, for any
\* limit, batch size and number of dialogs, as long as no write has failed.
THEOREM DbReadIsLastN == Spec => []DbHistoryIsLastN
BY ReadInvariant, PTL DEF ReadInv

\* When Shutdown returns, the database has all that was saved before its last
\* flush, unless a write failed: whatever flush or SaveDialog it ran into.
THEOREM ShutdownKeepsAll == Spec => []ShutdownSaves
BY ReadInvariant, PTL DEF ReadInv
=============================================================================
