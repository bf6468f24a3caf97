----------------------------- MODULE OperatorHub -----------------------------
(***************************************************************************)
(* The operator hub (pkg/operator) as one dialog sees it: the entry of the *)
(* dialog in operatorChMap, the sessions stored there one after another,   *)
(* and for each of them the listenerSession goroutine between its TxCh,    *)
(* its RxCh, the POSTs to the operator service and the SSE events from it. *)
(*                                                                         *)
(* A session is a number; messages are counted, not distinguished.  The    *)
(* clients are the goroutines that call AskOperator, SendToOperator and    *)
(* ReceiveFromOperator for the dialog.                                     *)
(***************************************************************************)
EXTENDS Naturals

CONSTANTS
  Clients,         \* goroutines that use the hub for this dialog
  MaxSessions,     \* bound: sessions created for the dialog
  MaxPosts,        \* bound: POST goroutines of one session at a time
  SubscribeFails,  \* may SubscribeChan return an error?
  IdleFires        \* does a session stay unused for IdleDuration minutes?

ASSUME BoundsAssumption == MaxSessions \in Nat /\ MaxPosts \in Nat
ASSUME SwitchesAssumption == SubscribeFails \in BOOLEAN /\ IdleFires \in BOOLEAN

Sessions == 1..MaxSessions
None == 0

VARIABLES
  entry,       \* operatorChMap[key]: a session, or None
  created,     \* sessions created so far
  hubClosed,   \* Operator.Close ran: the parent context is cancelled
  lpc,         \* the listenerSession goroutine of a session
  cancelled,   \* the session's context is done
  cleanup,     \* its cleanupOnce: not wanted, wanted, between cancel and
               \* Delete, or over
  tx, rx,      \* elements in TxCh and RxCh (capacity 1 each)
  sidReady,    \* the init event has brought the session id
  posts,       \* POST goroutines under way
  httpErr,     \* elements in httpErrorCh (capacity 1)
  cpc, uses    \* a client's control, and the session it holds

vars == <<entry, created, hubClosed, lpc, cancelled, cleanup, tx, rx, sidReady,
          posts, httpErr, cpc, uses>>
io == <<tx, rx, sidReady, posts, httpErr>>
clients == <<cpc, uses>>

\* The types; the channels hold at most one element.
TypeOK ==
  /\ entry \in Sessions \cup {None} /\ created \in 0..MaxSessions
  /\ hubClosed \in BOOLEAN
  /\ lpc \in [Sessions -> {"none", "subscribing", "failed", "loop", "pushing",
                           "cleaning", "gone", "idled", "stillborn"}]
  /\ cancelled \in [Sessions -> BOOLEAN]
  /\ cleanup \in [Sessions -> {"no", "wanted", "cancelled", "done"}]
  /\ tx \in [Sessions -> {0, 1}] /\ rx \in [Sessions -> {0, 1}]
  /\ sidReady \in [Sessions -> BOOLEAN] /\ posts \in [Sessions -> 0..MaxPosts]
  /\ httpErr \in [Sessions -> {0, 1}]
  /\ cpc \in [Clients -> {"idle", "send", "ask", "receive", "sending", "asking",
                          "waiting"}]
  /\ uses \in [Clients -> Sessions \cup {None}]

Init ==
  /\ entry = None /\ created = 0 /\ hubClosed = FALSE
  /\ lpc = [s \in Sessions |-> "none"]
  /\ cancelled = [s \in Sessions |-> FALSE]
  /\ cleanup = [s \in Sessions |-> "no"]
  /\ tx = [s \in Sessions |-> 0] /\ rx = [s \in Sessions |-> 0]
  /\ sidReady = [s \in Sessions |-> FALSE]
  /\ posts = [s \in Sessions |-> 0] /\ httpErr = [s \in Sessions |-> 0]
  /\ cpc = [c \in Clients |-> "idle"] /\ uses = [c \in Clients |-> None]

-----------------------------------------------------------------------------
(* The clients                                                             *)

\* What a client does once it holds a session.
Holding(op) == CASE op = "send" -> "sending" [] op = "ask" -> "asking"
                 [] op = "receive" -> "idle"

\* getOrCreateSession finds a session, or finds none and will create one.
ClientLoads(c, op) ==
  /\ cpc[c] = "idle"
  /\ \/ /\ entry # None
        /\ uses' = [uses EXCEPT ![c] = entry]
        /\ cpc' = [cpc EXCEPT ![c] = Holding(op)]
     \/ /\ entry = None
        /\ cpc' = [cpc EXCEPT ![c] = op]
        /\ UNCHANGED uses
  /\ UNCHANGED <<entry, created, hubClosed, lpc, cancelled, cleanup, io>>

\* Store overwrites the entry and the new session's goroutine starts.
ClientCreates(c) ==
  /\ cpc[c] \in {"send", "ask", "receive"} /\ created < MaxSessions
  /\ LET s == created + 1 IN
     /\ created' = s /\ entry' = s
     /\ lpc' = [lpc EXCEPT ![s] = "subscribing"]
     /\ cancelled' = [cancelled EXCEPT ![s] = hubClosed]
     /\ uses' = [uses EXCEPT ![c] = s]
  /\ cpc' = [cpc EXCEPT ![c] = Holding(cpc[c])]
  /\ UNCHANGED <<hubClosed, cleanup, io>>

\* The question enters TxCh; only AskOperator waits for the reply.
ClientSends(c) ==
  /\ cpc[c] \in {"sending", "asking"} /\ tx[uses[c]] = 0
  /\ tx' = [tx EXCEPT ![uses[c]] = 1]
  /\ cpc' = [cpc EXCEPT ![c] = IF @ = "asking" THEN "waiting" ELSE "idle"]
  /\ UNCHANGED <<entry, created, hubClosed, lpc, cancelled, cleanup, rx,
                 sidReady, posts, httpErr, uses>>

\* A reply leaves RxCh: to AskOperator, or to the Respondent that reads the
\* channel ReceiveFromOperator gave it.
ClientReceives(c) ==
  /\ cpc[c] \in {"waiting", "idle"} /\ uses[c] # None /\ rx[uses[c]] = 1
  /\ rx' = [rx EXCEPT ![uses[c]] = 0]
  /\ cpc' = [cpc EXCEPT ![c] = "idle"]
  /\ UNCHANGED <<entry, created, hubClosed, lpc, cancelled, cleanup, tx,
                 sidReady, posts, httpErr, uses>>

\* A context is done or the timeout of the call has passed.
ClientGivesUp(c) ==
  /\ cpc[c] \in {"sending", "asking", "waiting"}
  /\ cpc' = [cpc EXCEPT ![c] = "idle"]
  /\ UNCHANGED <<entry, created, hubClosed, lpc, cancelled, cleanup, io, uses>>

\* DeleteSession or CloseOperatorSSE: Load, then cleanup of what was loaded.
CloseSession ==
  /\ entry # None /\ cleanup[entry] = "no"
  /\ cleanup' = [cleanup EXCEPT ![entry] = "wanted"]
  /\ UNCHANGED <<entry, created, hubClosed, lpc, cancelled, io, clients>>

-----------------------------------------------------------------------------
(* cleanup: cancel, then Delete(key), once per session                     *)

\* mutant: cleanup deletes the entry and forgets to cancel
CleanupCancelsNot(s) ==
  /\ cleanup[s] = "wanted"
  /\ cleanup' = [cleanup EXCEPT ![s] = "cancelled"]
  /\ UNCHANGED <<entry, created, hubClosed, lpc, cancelled, io, clients>>

CleanupCancels(s) ==
  /\ cleanup[s] = "wanted"
  /\ cleanup' = [cleanup EXCEPT ![s] = "cancelled"]
  /\ cancelled' = [cancelled EXCEPT ![s] = TRUE]
  /\ UNCHANGED <<entry, created, hubClosed, lpc, io, clients>>

\* mutant: the entry stays
CleanupDeletesNot(s) ==
  /\ cleanup[s] = "cancelled"
  /\ cleanup' = [cleanup EXCEPT ![s] = "done"]
  /\ UNCHANGED <<entry, created, hubClosed, lpc, cancelled, io, clients>>

CleanupDeletes(s) ==
  /\ cleanup[s] = "cancelled"
  /\ cleanup' = [cleanup EXCEPT ![s] = "done"]
  /\ entry' = None
  /\ UNCHANGED <<created, hubClosed, lpc, cancelled, io, clients>>

Want(s) == IF cleanup[s] = "no" THEN [cleanup EXCEPT ![s] = "wanted"] ELSE cleanup

\* The goroutine that waits for the session's context, once subscribed.
WatcherCleans(s) ==
  /\ cancelled[s] /\ lpc[s] \in {"loop", "pushing", "cleaning", "gone", "idled"}
  /\ cleanup[s] = "no"
  /\ cleanup' = Want(s)
  /\ UNCHANGED <<entry, created, hubClosed, lpc, cancelled, io, clients>>

-----------------------------------------------------------------------------
(* listenerSession                                                         *)

ListenerAt(s, from, to) == lpc[s] = from /\ lpc' = [lpc EXCEPT ![s] = to]

Subscribed(s) ==
  /\ ListenerAt(s, "subscribing", "loop")
  /\ UNCHANGED <<entry, created, hubClosed, cancelled, cleanup, io, clients>>

\* SubscribeChan failed: Delete(key), whichever session it names by now ...
SubscribeFailed(s) ==
  /\ SubscribeFails /\ ListenerAt(s, "subscribing", "failed")
  /\ entry' = None
  /\ UNCHANGED <<created, hubClosed, cancelled, cleanup, io, clients>>

\* ... and cancel.  The watcher was never started, cleanup never runs.
FailedCancels(s) ==
  /\ ListenerAt(s, "failed", "stillborn")
  /\ cancelled' = [cancelled EXCEPT ![s] = TRUE]
  /\ UNCHANGED <<entry, created, hubClosed, cleanup, io, clients>>

\* TxCh has a message: a goroutine of its own posts it.
StartPost(s) ==
  /\ lpc[s] = "loop" /\ tx[s] = 1 /\ posts[s] < MaxPosts
  /\ tx' = [tx EXCEPT ![s] = 0] /\ posts' = [posts EXCEPT ![s] = @ + 1]
  /\ UNCHANGED <<entry, created, hubClosed, lpc, cancelled, cleanup, rx,
                 sidReady, httpErr, clients>>

Posted(s) ==
  /\ posts[s] > 0 /\ sidReady[s]
  /\ posts' = [posts EXCEPT ![s] = @ - 1]
  /\ UNCHANGED <<entry, created, hubClosed, lpc, cancelled, cleanup, tx, rx,
                 sidReady, httpErr, clients>>

\* No sid in time, context done, transport error or bad status: the error is
\* queued, unless the session is cancelled while the queue is full.
PostFailed(s) ==
  /\ posts[s] > 0
  /\ \/ httpErr[s] = 0 /\ httpErr' = [httpErr EXCEPT ![s] = 1]
     \/ cancelled[s] /\ UNCHANGED httpErr
  /\ posts' = [posts EXCEPT ![s] = @ - 1]
  /\ UNCHANGED <<entry, created, hubClosed, lpc, cancelled, cleanup, tx, rx,
                 sidReady, clients>>

\* mutant: the goroutine returns without cleanup
ConnectionLostNoCleanup(s) ==
  /\ ListenerAt(s, "loop", "gone")
  /\ UNCHANGED <<entry, created, hubClosed, cancelled, cleanup, io, clients>>

\* A failed POST or the end of the event stream: cleanup, then return.
ConnectionLost(s) ==
  /\ ListenerAt(s, "loop", "cleaning")
  /\ \/ httpErr[s] = 1 /\ httpErr' = [httpErr EXCEPT ![s] = 0]
     \/ UNCHANGED httpErr
  /\ cleanup' = Want(s)
  /\ UNCHANGED <<entry, created, hubClosed, cancelled, tx, rx, sidReady, posts,
                 clients>>

\* An "error" event: "no_tg_id" is queued for the Respondent (DialogPipeline);
\* when the context is done as well the select may return at once, without
\* cleanup.
NobodyAvailable(s) ==
  /\ \/ /\ ListenerAt(s, "loop", "cleaning")
        /\ cleanup' = Want(s)
     \/ /\ cancelled[s] /\ ListenerAt(s, "loop", "gone")
        /\ UNCHANGED cleanup
  /\ UNCHANGED <<entry, created, hubClosed, cancelled, tx, rx, sidReady, posts,
                 httpErr, clients>>

\* cleanupOnce.Do returns when the one cleanup is over.
ListenerReturns(s) ==
  /\ cleanup[s] = "done" /\ ListenerAt(s, "cleaning", "gone")
  /\ UNCHANGED <<entry, created, hubClosed, cancelled, cleanup, io, clients>>

InitEvent(s) ==
  /\ lpc[s] = "loop" /\ ~sidReady[s]
  /\ sidReady' = [sidReady EXCEPT ![s] = TRUE]
  /\ UNCHANGED <<entry, created, hubClosed, lpc, cancelled, cleanup, tx, rx,
                 posts, httpErr, clients>>

MessageEvent(s) ==
  /\ ListenerAt(s, "loop", "pushing")
  /\ UNCHANGED <<entry, created, hubClosed, cancelled, cleanup, io, clients>>

\* The reply waits for room in RxCh, or for the end of the session.
PushReply(s) ==
  /\ \/ rx[s] = 0 /\ ListenerAt(s, "pushing", "loop") /\ rx' = [rx EXCEPT ![s] = 1]
     \/ cancelled[s] /\ ListenerAt(s, "pushing", "gone") /\ UNCHANGED rx
  /\ UNCHANGED <<entry, created, hubClosed, cancelled, cleanup, tx, sidReady,
                 posts, httpErr, clients>>

\* The idle timer: the goroutine returns, the session stays as it is.
IdleTimeout(s) ==
  /\ IdleFires /\ ListenerAt(s, "loop", "idled")
  /\ UNCHANGED <<entry, created, hubClosed, cancelled, cleanup, io, clients>>

ContextDone(s) ==
  /\ cancelled[s] /\ ListenerAt(s, "loop", "gone")
  /\ UNCHANGED <<entry, created, hubClosed, cancelled, cleanup, io, clients>>

\* Operator.Close cancels the parent of every session's context.
Close ==
  /\ ~hubClosed /\ hubClosed' = TRUE
  /\ cancelled' = [s \in Sessions |-> cancelled[s] \/ s <= created]
  /\ UNCHANGED <<entry, created, lpc, cleanup, io, clients>>

-----------------------------------------------------------------------------
Client(c) ==
  \/ \E op \in {"send", "ask", "receive"} : ClientLoads(c, op)
  \/ ClientCreates(c) \/ ClientSends(c) \/ ClientReceives(c) \/ ClientGivesUp(c)

Cleanup(s) == CleanupCancels(s) \/ CleanupDeletes(s)

Listener(s) ==
  \/ Subscribed(s) \/ SubscribeFailed(s) \/ FailedCancels(s)
  \/ StartPost(s) \/ Posted(s) \/ PostFailed(s) \/ ConnectionLost(s)
  \/ NobodyAvailable(s) \/ ListenerReturns(s) \/ InitEvent(s)
  \/ MessageEvent(s) \/ PushReply(s) \/ IdleTimeout(s) \/ ContextDone(s)

Next ==
  \/ \E c \in Clients : Client(c)
  \/ \E s \in Sessions : Cleanup(s) \/ WatcherCleans(s) \/ Listener(s)
  \/ CloseSession \/ Close

Spec == Init /\ [][Next]_vars

\* Goroutines run; SubscribeChan returns (its own backoff is bounded).  Who
\* uses or closes the session, and the operator service, owe nothing.
Fairness ==
  \A s \in Sessions :
    /\ WF_vars(Cleanup(s)) /\ WF_vars(WatcherCleans(s))
    /\ WF_vars(Subscribed(s) \/ SubscribeFailed(s)) /\ WF_vars(FailedCancels(s))

FairSpec == Spec /\ Fairness

-----------------------------------------------------------------------------
Live(s) == lpc[s] \in {"subscribing", "loop", "pushing"} /\ ~cancelled[s]

\* No subscription of this dialog has failed so far.
NoneFailed == \A s \in Sessions : lpc[s] \notin {"failed", "stillborn"}

\* A dialog has one operator session: two listeners that both talk to the
\* operator service for it would split the operator's replies between them.
\* A failed subscription may break it (SubscribeFailed deletes by key).
OneLiveSession ==
  NoneFailed => \A s, t \in Sessions : Live(s) /\ Live(t) => s = t

\* "Just cancel the session and delete it": the entry of a session goes away
\* only with that session, never as a side effect of ending another one; with
\* a failed subscription it may.
EntryEndsWithSession ==
  [][NoneFailed' => \A s \in Sessions : entry = s /\ entry' # s => cancelled[s]]_vars

\* A session in the map is served by its goroutine until its context is done:
\* a lost connection, a failed POST or an absent operator leave no message
\* queued for nobody.  Only the idle timer does (IdleTimeout).
MappedIsServed ==
  entry # None /\ lpc[entry] \in {"gone", "stillborn"} => cancelled[entry]

\* A cancelled session leaves the map, whoever cancelled it and whatever its
\* goroutine was doing.
CancelledLeavesMap == \A s \in Sessions : cancelled[s] ~> entry # s

\* The entry of a session goes with the session, not sooner and not never.
EntryMatchesSession == EntryEndsWithSession /\ CancelledLeavesMap
=============================================================================
