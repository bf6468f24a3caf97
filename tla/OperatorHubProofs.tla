-------------------------- MODULE OperatorHubProofs --------------------------
(***************************************************************************)
(* What TLAPS proves of OperatorHub, for any number of sessions and POSTs: *)
(* the types, that a mapped session is served until its context is done,   *)
(* and, when one goroutine uses the hub for the dialog, that as long as no *)
(* subscription fails the dialog has one live session at most and an entry *)
(* only goes with its session.                                             *)
(***************************************************************************)
EXTENDS OperatorHub, TLAPS

\* The types hold in every reachable state, whatever the switches say.
THEOREM HubTypeCorrect == Spec => []TypeOK
<1>1. Init => TypeOK
  <2> SUFFICES ASSUME Init PROVE TypeOK
    OBVIOUS
  <2>1. 0 \in 0..MaxPosts /\ 0 \in 0..MaxSessions
    BY BoundsAssumption
  <2>2. posts \in [Sessions -> 0..MaxPosts]
    BY <2>1 DEF Init
  <2>3. QED
    BY <2>1, <2>2 DEF Init, TypeOK, None
<1>2. TypeOK /\ [Next]_vars => TypeOK'
  <2> SUFFICES ASSUME TypeOK, [Next]_vars PROVE TypeOK'
    OBVIOUS
  <2> USE BoundsAssumption DEF TypeOK, Sessions, None, io, clients, vars
  <2>1. ASSUME NEW c \in Clients, Client(c) PROVE TypeOK'
    <3>1. CASE \E o \in {"send", "ask", "receive"} : ClientLoads(c, o)
      <4>1. PICK o \in {"send", "ask", "receive"} : ClientLoads(c, o)
        BY <3>1
      <4>2. Holding(o) \in {"sending", "asking", "idle"}
        BY DEF Holding
      <4>3. uses' \in [Clients -> Sessions \cup {None}]
        BY <4>1 DEF ClientLoads
      <4>4. \E x \in {Holding(o), o} : cpc' = [cpc EXCEPT ![c] = x]
        BY <4>1 DEF ClientLoads
      <4>5. cpc' \in [Clients -> {"idle", "send", "ask", "receive", "sending",
                                  "asking", "waiting"}]
        BY <4>2, <4>4
      <4>6. QED
        BY <4>1, <4>3, <4>5 DEF ClientLoads
    <3>2. CASE ClientCreates(c)
      <4>1. created + 1 \in Sessions
        BY <3>2 DEF ClientCreates
      <4>2. Holding(cpc[c]) \in {"sending", "asking", "idle"}
        BY <3>2 DEF ClientCreates, Holding
      <4>3. cpc' \in [Clients -> {"idle", "send", "ask", "receive", "sending",
                                  "asking", "waiting"}]
        BY <3>2, <4>2 DEF ClientCreates
      <4>4. QED
        BY <3>2, <4>1, <4>3 DEF ClientCreates
    <3>3. CASE ClientSends(c) \/ ClientReceives(c) \/ ClientGivesUp(c)
      BY <3>3 DEF ClientSends, ClientReceives, ClientGivesUp
    <3>4. QED
      BY <2>1, <3>1, <3>2, <3>3 DEF Client
  <2>2. ASSUME NEW s \in Sessions, Cleanup(s) \/ WatcherCleans(s) PROVE TypeOK'
    BY <2>2 DEF Cleanup, CleanupCancels, CleanupDeletes, WatcherCleans, Want
  <2>3. ASSUME NEW s \in Sessions, Listener(s) PROVE TypeOK'
    <3>1. CASE StartPost(s) \/ Posted(s) \/ PostFailed(s)
      <4>1. posts' \in [Sessions -> 0..MaxPosts]
        BY SMTT(20), <3>1 DEF StartPost, Posted, PostFailed
      <4>2. QED
        BY <3>1, <4>1 DEF StartPost, Posted, PostFailed
    <3>2. CASE ConnectionLost(s) \/ NobodyAvailable(s)
      BY <3>2 DEF ConnectionLost, NobodyAvailable, Want, ListenerAt
    <3>3. CASE \/ Subscribed(s) \/ SubscribeFailed(s) \/ FailedCancels(s)
               \/ ListenerReturns(s) \/ InitEvent(s) \/ MessageEvent(s)
               \/ PushReply(s) \/ IdleTimeout(s) \/ ContextDone(s)
      BY <3>3 DEF Subscribed, SubscribeFailed, FailedCancels, ListenerReturns,
         InitEvent, MessageEvent, PushReply, IdleTimeout, ContextDone, ListenerAt
    <3>4. QED
      BY <2>3, <3>1, <3>2, <3>3 DEF Listener
  <2>4. CASE CloseSession
    BY <2>4 DEF CloseSession
  <2>5. CASE Close
    BY <2>5 DEF Close
  <2>6. CASE UNCHANGED vars
    BY <2>6
  <2>7. QED
    BY <2>1, <2>2, <2>3, <2>4, <2>5, <2>6 DEF Next
<1>3. QED
  BY <1>1, <1>2, PTL DEF Spec

-----------------------------------------------------------------------------
\* One goroutine at a time uses the hub for the dialog.
OneClientOnly == \A c, d \in Clients : c = d

(***************************************************************************)
(* OneLiveSession is not inductive: Delete(key) names the entry, not the   *)
(* session, so one session's cleanup could remove another's entry.  What   *)
(* holds until a subscription fails is that the entry is the one session   *)
(* whose cleanup is not over.                                              *)
(***************************************************************************)
Mapped ==
  /\ \A s \in Sessions : s <= created => (entry = s <=> cleanup[s] # "done")
  /\ \A s \in Sessions : cleanup[s] \in {"cancelled", "done"} => cancelled[s]
  /\ \A c \in Clients : cpc[c] \in {"send", "ask", "receive"} => entry = None

\* What is not created yet is untouched, whatever fails.
Fresh ==
  /\ \A s \in Sessions : s > created =>
       lpc[s] = "none" /\ ~cancelled[s] /\ cleanup[s] = "no"
  /\ entry # None => entry <= created

OrderlyInv == Fresh /\ (NoneFailed => Mapped)

LEMMA OrderlyInit == Init => OrderlyInv
  BY BoundsAssumption DEF Init, OrderlyInv, Fresh, Mapped, Sessions, None

LEMMA FreshStep == TypeOK /\ Fresh /\ [Next]_vars => Fresh'
<1> SUFFICES ASSUME TypeOK, Fresh, [Next]_vars PROVE Fresh'
  OBVIOUS
<1>1. /\ entry \in Sessions \cup {None} /\ created \in 0..MaxSessions
      /\ cancelled \in [Sessions -> BOOLEAN]
      /\ DOMAIN lpc = Sessions /\ DOMAIN cleanup = Sessions
  BY DEF TypeOK
<1> USE <1>1, BoundsAssumption DEF Fresh, Sessions, None
<1>2. ASSUME NEW c \in Clients, Client(c) PROVE Fresh'
  BY <1>2 DEF Client, ClientLoads, ClientCreates, ClientSends, ClientReceives,
     ClientGivesUp
<1>3. ASSUME NEW s \in Sessions, Cleanup(s) \/ WatcherCleans(s) PROVE Fresh'
  BY <1>3 DEF Cleanup, CleanupCancels, CleanupDeletes, WatcherCleans, Want
<1>4. ASSUME NEW s \in Sessions, Listener(s) PROVE Fresh'
  <2>1. CASE StartPost(s) \/ Posted(s) \/ PostFailed(s) \/ InitEvent(s)
    BY <2>1 DEF StartPost, Posted, PostFailed, InitEvent
  <2>2. CASE ConnectionLost(s) \/ NobodyAvailable(s)
    BY <2>2 DEF ConnectionLost, NobodyAvailable, Want, ListenerAt
  <2>3. CASE \/ Subscribed(s) \/ SubscribeFailed(s) \/ FailedCancels(s)
             \/ ListenerReturns(s) \/ MessageEvent(s) \/ PushReply(s)
             \/ IdleTimeout(s) \/ ContextDone(s)
    BY <2>3 DEF Subscribed, SubscribeFailed, FailedCancels, ListenerReturns,
       MessageEvent, PushReply, IdleTimeout, ContextDone, ListenerAt
  <2>4. QED
    BY <1>4, <2>1, <2>2, <2>3 DEF Listener
<1>5. CASE CloseSession
  BY <1>5 DEF CloseSession
<1>6. CASE Close
  BY <1>6 DEF Close
<1>7. CASE UNCHANGED vars
  BY <1>7 DEF vars
<1>8. QED
  BY <1>2, <1>3, <1>4, <1>5, <1>6, <1>7 DEF Next

\* A failed subscription is not forgotten.
LEMMA FailureStays ==
  TypeOK /\ Fresh /\ [Next]_vars /\ NoneFailed' => NoneFailed
<1> SUFFICES ASSUME TypeOK, Fresh, [Next]_vars, NEW t \in Sessions,
                    lpc[t] \in {"failed", "stillborn"}
             PROVE  lpc'[t] \in {"failed", "stillborn"}
  BY DEF NoneFailed
<1>1. created \in 0..MaxSessions /\ DOMAIN lpc = Sessions
  BY DEF TypeOK
<1> USE <1>1, BoundsAssumption DEF Sessions
<1>2. ASSUME NEW c \in Clients, Client(c) PROVE lpc'[t] \in {"failed", "stillborn"}
  BY <1>2 DEF Fresh, Client, ClientLoads, ClientCreates, ClientSends,
     ClientReceives, ClientGivesUp
<1>3. ASSUME NEW s \in Sessions, Listener(s)
      PROVE  lpc'[t] \in {"failed", "stillborn"}
  BY <1>3 DEF Listener, Subscribed, SubscribeFailed, FailedCancels, StartPost,
     Posted, PostFailed, ConnectionLost, NobodyAvailable, ListenerReturns,
     InitEvent, MessageEvent, PushReply, IdleTimeout, ContextDone, ListenerAt
<1>4. CASE \/ \E s \in Sessions : Cleanup(s) \/ WatcherCleans(s)
           \/ CloseSession \/ Close \/ UNCHANGED vars
  BY <1>4 DEF Cleanup, CleanupCancels, CleanupDeletes, WatcherCleans,
     CloseSession, Close, vars
<1>5. QED
  BY <1>2, <1>3, <1>4 DEF Next

LEMMA MappedStep ==
  OneClientOnly /\ TypeOK /\ Fresh /\ Mapped /\ NoneFailed' /\ [Next]_vars => Mapped'
<1> SUFFICES ASSUME OneClientOnly, TypeOK, Fresh, Mapped, NoneFailed', [Next]_vars
             PROVE  Mapped'
  OBVIOUS
<1>1. /\ entry \in Sessions \cup {None} /\ created \in 0..MaxSessions
      /\ cancelled \in [Sessions -> BOOLEAN] /\ uses \in [Clients -> Sessions \cup {None}]
      /\ DOMAIN lpc = Sessions /\ DOMAIN cleanup = Sessions /\ DOMAIN cpc = Clients
  BY DEF TypeOK
<1> USE <1>1, BoundsAssumption DEF Fresh, Mapped, Sessions, None
<1>2. ASSUME NEW c \in Clients, Client(c) PROVE Mapped'
  <2>1. CASE \E o \in {"send", "ask", "receive"} : ClientLoads(c, o)
    BY <2>1 DEF ClientLoads, Holding, OneClientOnly
  <2>2. CASE ClientCreates(c)
    <3>1. entry = None /\ created + 1 \in Sessions /\ entry' = created + 1
          /\ created' = created + 1 /\ cleanup' = cleanup
      BY <2>2 DEF ClientCreates
    <3>2. \A s \in Sessions : s <= created => cleanup[s] = "done"
      BY <3>1
    <3>3. \A d \in Clients : cpc'[d] \notin {"send", "ask", "receive"}
      BY <2>2 DEF ClientCreates, Holding, OneClientOnly
    <3>4. \A s \in Sessions : cleanup'[s] \in {"cancelled", "done"} => cancelled'[s]
      BY <2>2, <3>1 DEF ClientCreates
    <3>5. \A s \in Sessions : s <= created' => (entry' = s <=> cleanup'[s] # "done")
      BY <3>1, <3>2
    <3>6. QED
      BY <3>1, <3>3, <3>4, <3>5
  <2>3. CASE ClientSends(c) \/ ClientReceives(c) \/ ClientGivesUp(c)
    BY <2>3 DEF ClientSends, ClientReceives, ClientGivesUp
  <2>4. QED
    BY <1>2, <2>1, <2>2, <2>3 DEF Client
<1>3. ASSUME NEW s \in Sessions, Cleanup(s) \/ WatcherCleans(s) PROVE Mapped'
  <2>1. CASE CleanupCancels(s)
    BY <2>1 DEF CleanupCancels, clients
  <2>2. CASE CleanupDeletes(s)
    BY <2>2 DEF CleanupDeletes, clients
  <2>3. CASE WatcherCleans(s)
    BY <2>3 DEF WatcherCleans, Want, clients
  <2>4. QED
    BY <1>3, <2>1, <2>2, <2>3 DEF Cleanup
<1>4. ASSUME NEW s \in Sessions, Listener(s) PROVE Mapped'
  <2>1. CASE StartPost(s) \/ Posted(s) \/ PostFailed(s) \/ InitEvent(s)
    BY <2>1 DEF StartPost, Posted, PostFailed, InitEvent, clients
  <2>2. CASE ConnectionLost(s) \/ NobodyAvailable(s)
    <3>1. /\ UNCHANGED <<entry, created, cancelled, cpc>>
          /\ lpc[s] = "loop" /\ \E x : lpc' = [lpc EXCEPT ![s] = x]
          /\ cleanup' \in {cleanup, Want(s)}
      BY <2>2 DEF ConnectionLost, NobodyAvailable, ListenerAt, clients
    <3>2. s <= created
      BY <3>1
    <3>3. cleanup' = cleanup \/ (cleanup[s] = "no" /\ cleanup' = [cleanup EXCEPT ![s] = "wanted"])
      BY <3>1 DEF Want
    <3>4. QED
      BY <3>1, <3>2, <3>3
  <2>3. CASE SubscribeFailed(s) \/ FailedCancels(s)
    BY <2>3 DEF NoneFailed, SubscribeFailed, FailedCancels, ListenerAt
  <2>4. CASE \/ Subscribed(s) \/ ListenerReturns(s) \/ MessageEvent(s)
             \/ PushReply(s) \/ IdleTimeout(s) \/ ContextDone(s)
    BY <2>4 DEF Subscribed, ListenerReturns, MessageEvent, PushReply,
       IdleTimeout, ContextDone, ListenerAt, clients
  <2>5. QED
    BY <1>4, <2>1, <2>2, <2>3, <2>4 DEF Listener
<1>5. CASE CloseSession
  BY <1>5 DEF CloseSession, clients
<1>6. CASE Close
  BY <1>6 DEF Close, clients
<1>7. CASE UNCHANGED vars
  BY <1>7 DEF vars
<1>8. QED
  BY <1>2, <1>3, <1>4, <1>5, <1>6, <1>7 DEF Next

LEMMA OrderlyStep == OneClientOnly /\ TypeOK /\ OrderlyInv /\ [Next]_vars => OrderlyInv'
  BY FreshStep, FailureStays, MappedStep DEF OrderlyInv

\* With one user of the hub, and until a subscription fails, a dialog has at
\* most one live session.
THEOREM OneClientOneSession == OneClientOnly => (Spec => []OneLiveSession)
<1> SUFFICES ASSUME OneClientOnly PROVE Spec => []OneLiveSession
  OBVIOUS
<1>1. TypeOK /\ OrderlyInv => OneLiveSession
  BY BoundsAssumption
     DEF TypeOK, OrderlyInv, Fresh, Mapped, OneLiveSession, Live, Sessions, None
<1>2. QED
  BY <1>1, OrderlyInit, OrderlyStep, HubTypeCorrect, PTL DEF Spec

\* Then the entry of a session leaves the map only once the session is
\* cancelled.
THEOREM OneClientEntryEndsWithSession == OneClientOnly => (Spec => EntryEndsWithSession)
<1> SUFFICES ASSUME OneClientOnly PROVE Spec => EntryEndsWithSession
  OBVIOUS
<1> DEFINE Ends == NoneFailed' => \A s \in Sessions : entry = s /\ entry' # s
                                    => cancelled[s]
<1>1. TypeOK /\ OrderlyInv /\ [Next]_vars => [Ends]_vars
  <2> SUFFICES ASSUME TypeOK, OrderlyInv, Next, NoneFailed', NEW s \in Sessions,
                      entry = s, entry' # s
               PROVE  cancelled[s]
    BY DEF vars
  <2>1. Mapped
    BY FailureStays DEF OrderlyInv
  <2>2. PICK t \in Sessions : CleanupDeletes(t)
    <3>1. ASSUME NEW c \in Clients PROVE ~ClientCreates(c)
      BY <2>1, BoundsAssumption DEF ClientCreates, Mapped, Sessions, None
    <3>2. ASSUME NEW t \in Sessions PROVE ~SubscribeFailed(t)
      BY DEF NoneFailed, SubscribeFailed, ListenerAt, TypeOK
    <3>3. QED
      BY <3>1, <3>2 DEF Next, Client, ClientLoads, ClientSends, ClientReceives,
         ClientGivesUp, Cleanup, CleanupCancels, WatcherCleans, Listener,
         Subscribed, FailedCancels, StartPost, Posted, PostFailed,
         ConnectionLost, NobodyAvailable, ListenerReturns, InitEvent,
         MessageEvent, PushReply, IdleTimeout, ContextDone, CloseSession, Close
  <2>3. cleanup[t] = "cancelled" /\ entry' = None
    BY <2>2 DEF CleanupDeletes
  <2>4. QED
    BY <2>1, <2>3, BoundsAssumption DEF TypeOK, OrderlyInv, Fresh, Mapped, Sessions, None
<1>2. QED
  BY <1>1, OrderlyInit, OrderlyStep, HubTypeCorrect, PTL
     DEF Spec, EntryEndsWithSession

-----------------------------------------------------------------------------
(***************************************************************************)
(* A goroutine that is over left a context that is done: either it saw so, *)
(* or it waited for the cleanup, which cancels first.                      *)
(***************************************************************************)
Served ==
  /\ \A s \in Sessions : cleanup[s] \in {"cancelled", "done"} => cancelled[s]
  /\ \A s \in Sessions : lpc[s] \in {"gone", "stillborn"} => cancelled[s]

LEMMA ServedStep == TypeOK /\ Fresh /\ Served /\ [Next]_vars => Served'
<1> SUFFICES ASSUME TypeOK, Fresh, Served, [Next]_vars PROVE Served'
  OBVIOUS
<1>1. /\ created \in 0..MaxSessions /\ cancelled \in [Sessions -> BOOLEAN]
      /\ DOMAIN lpc = Sessions /\ DOMAIN cleanup = Sessions
  BY DEF TypeOK
<1> USE <1>1, BoundsAssumption DEF Served
<1>2. ASSUME NEW c \in Clients, Client(c) PROVE Served'
  <2>1. CASE ClientCreates(c)
    BY <2>1 DEF ClientCreates, Fresh, io, Sessions
  <2>2. CASE ~ClientCreates(c)
    BY <1>2, <2>2 DEF Client, ClientLoads, ClientSends, ClientReceives, ClientGivesUp
  <2>3. QED
    BY <2>1, <2>2
<1>3. ASSUME NEW s \in Sessions, Cleanup(s) \/ WatcherCleans(s) PROVE Served'
  BY <1>3 DEF Cleanup, CleanupCancels, CleanupDeletes, WatcherCleans, Want
<1>4. ASSUME NEW s \in Sessions, Listener(s) PROVE Served'
  <2>1. CASE StartPost(s) \/ Posted(s) \/ PostFailed(s) \/ InitEvent(s)
    BY <2>1 DEF StartPost, Posted, PostFailed, InitEvent
  <2>2. CASE ConnectionLost(s) \/ NobodyAvailable(s)
    BY <2>2 DEF ConnectionLost, NobodyAvailable, Want, ListenerAt
  <2>3. CASE \/ Subscribed(s) \/ SubscribeFailed(s) \/ FailedCancels(s)
             \/ ListenerReturns(s) \/ MessageEvent(s) \/ PushReply(s)
             \/ IdleTimeout(s) \/ ContextDone(s)
    BY <2>3 DEF Subscribed, SubscribeFailed, FailedCancels, ListenerReturns,
       MessageEvent, PushReply, IdleTimeout, ContextDone, ListenerAt
  <2>4. QED
    BY <1>4, <2>1, <2>2, <2>3 DEF Listener
<1>5. CASE CloseSession
  BY <1>5 DEF CloseSession, Sessions, None, TypeOK
<1>6. CASE Close \/ UNCHANGED vars
  BY <1>6 DEF Close, vars
<1>7. QED
  BY <1>2, <1>3, <1>4, <1>5, <1>6 DEF Next

\* Whoever uses the hub and whatever fails, a session in the map whose
\* goroutine is over is a session whose context is done.
THEOREM MappedSessionIsServed == Spec => []MappedIsServed
<1>1. Init => Fresh /\ Served
  BY BoundsAssumption DEF Init, Fresh, Served, Sessions, None
<1>2. TypeOK /\ Served => MappedIsServed
  BY DEF TypeOK, Served, MappedIsServed, None
<1>3. QED
  BY <1>1, <1>2, FreshStep, ServedStep, HubTypeCorrect, PTL DEF Spec
=============================================================================
