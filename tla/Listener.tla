------------------------------ MODULE Listener ------------------------------
(***************************************************************************)
(* The connection limits under the UI, metrics and health listeners.         *)
(*                                                                         *)
(*   crates/huginn-web/src/serve.rs   serve_with, one loop per listener      *)
(*                                                                         *)
(* A peer stands for its connection. What it wants is fixed: "nothing" sends  *)
(* part of a request head and never the rest, "answer" asks once, "answers"   *)
(* keeps the connection for more requests, "stream" asks for /events, which   *)
(* has no end. The deadline of a head is hyper's: it is taken to run from the *)
(* moment the connection waits for one, the next one of a kept connection     *)
(* included. Time is whole; `age` is how long a head has been waited for.    *)
(***************************************************************************)
EXTENDS Integers, Sequences, SequencesExt, FiniteSets

CONSTANTS Listeners,
          Peers,
          Serves,             \* [Peers -> Listeners]
          Wants,              \* [Peers -> Wishes]
          MaxConnections,     \* MAX_CONNECTIONS, 256
          HeaderReadTimeout   \* HEADER_READ_TIMEOUT, 3 s

Wishes == {"nothing", "answer", "answers", "stream"}

ASSUME ListenerAssumption ==
    /\ Serves \in [Peers -> Listeners]
    /\ Wants \in [Peers -> Wishes]
    /\ IsFiniteSet(Peers)
    /\ MaxConnections \in Nat \ {0}
    /\ HeaderReadTimeout \in Nat

VARIABLES at,       \* [Listeners -> where serve_with is: "acquire" or "accept"]
          free,     \* [Listeners -> permits the semaphore has left]
          backlog,  \* [Listeners -> the kernel's queue of connected peers]
          gone,     \* peers of a backlog that have given up
          task,     \* [Peers -> state of the connection's task, or "none"]
          age       \* [Peers -> time its head has been waited for]

vars == <<at, free, backlog, gone, task, age>>

Queued(p) == p \in ToSet(backlog[Serves[p]])
TasksOf(l) == {p \in Peers : Serves[p] = l /\ task[p] # "none"}
-----------------------------------------------------------------------------
Init == /\ at = [l \in Listeners |-> "acquire"]
        /\ free = [l \in Listeners |-> MaxConnections]
        /\ backlog = [l \in Listeners |-> <<>>]
        /\ gone = {}
        /\ task = [p \in Peers |-> "none"]
        /\ age = [p \in Peers |-> 0]

(* A peer connects: the kernel completes the handshake on its own.          *)
Connect(p) ==
    /\ task[p] = "none" /\ ~Queued(p)
    /\ backlog' = [backlog EXCEPT ![Serves[p]] = Append(@, p)]
    /\ UNCHANGED <<at, free, gone, task, age>>

(* A peer gives up before it was accepted.                                 *)
Vanish(p) ==
    /\ Queued(p) /\ p \notin gone
    /\ gone' = gone \cup {p}
    /\ UNCHANGED <<at, free, backlog, task, age>>

(* acquire_owned, before accept.                                           *)
Acquire(l) ==
    /\ at[l] = "acquire" /\ free[l] > 0
    /\ free' = [free EXCEPT ![l] = @ - 1]
    /\ at' = [at EXCEPT ![l] = "accept"]
    /\ UNCHANGED <<backlog, gone, task, age>>

(* accept returns a connection, and the permit moves into its task.         *)
Accept(l) ==
    /\ at[l] = "accept" /\ backlog[l] # <<>> /\ Head(backlog[l]) \notin gone
    /\ at' = [at EXCEPT ![l] = "acquire"]
    /\ backlog' = [backlog EXCEPT ![l] = Tail(@)]
    /\ task' = [task EXCEPT ![Head(backlog[l])] = "head"]
    /\ age' = [age EXCEPT ![Head(backlog[l])] = 0]
    /\ UNCHANGED <<free, gone>>

(* Fault of Continue: the permit of a failed accept is not given back.       *)
(* Breaks PermitsReturn.                                                    *)
ContinueLeaks(l) == at' = [at EXCEPT ![l] = "acquire"] /\ free' = free

(* `continue` drops the permit.                                            *)
Continue(l) ==
    /\ at' = [at EXCEPT ![l] = "acquire"]
    /\ free' = [free EXCEPT ![l] = @ + 1]

(* accept fails because the peer is gone ...                               *)
AcceptAborted(l) ==
    /\ at[l] = "accept" /\ backlog[l] # <<>> /\ Head(backlog[l]) \in gone
    /\ Continue(l)
    /\ gone' = gone \ {Head(backlog[l])}
    /\ backlog' = [backlog EXCEPT ![l] = Tail(@)]
    /\ UNCHANGED <<task, age>>

(* ... or for a reason that leaves the backlog as it is.                    *)
AcceptFails(l) ==
    /\ at[l] = "accept" /\ backlog[l] # <<>>
    /\ Continue(l)
    /\ UNCHANGED <<backlog, gone, task, age>>

(* A complete head reaches the service.                                    *)
HeadArrives(p) ==
    /\ task[p] = "head" /\ Wants[p] # "nothing"
    /\ task' = [task EXCEPT ![p] = IF Wants[p] = "stream" THEN "stream" ELSE "response"]
    /\ age' = [age EXCEPT ![p] = 0]
    /\ UNCHANGED <<at, free, backlog, gone>>

(* Fault of HeadTimesOut: the deadline is only noticed when more of the head  *)
(* arrives. Breaks WaitingIsServed.                                         *)
HeadTimesOutOnRead(p) ==
    /\ task[p] = "head" /\ age[p] = HeaderReadTimeout /\ Wants[p] # "nothing"
    /\ task' = [task EXCEPT ![p] = "closing"]
    /\ age' = [age EXCEPT ![p] = 0]
    /\ UNCHANGED <<at, free, backlog, gone>>

(* header_read_timeout: serve_connection returns an error.                  *)
HeadTimesOut(p) ==
    /\ task[p] = "head" /\ age[p] = HeaderReadTimeout
    /\ task' = [task EXCEPT ![p] = "closing"]
    /\ age' = [age EXCEPT ![p] = 0]
    /\ UNCHANGED <<at, free, backlog, gone>>

(* The response is written.                                                *)
Respond(p) ==
    /\ task[p] = "response"
    /\ task' = [task EXCEPT ![p] = IF Wants[p] = "answers" THEN "head" ELSE "closing"]
    /\ UNCHANGED <<at, free, backlog, gone, age>>

(* The peer closes the connection, or its stream ends.                      *)
HangUp(p) ==
    /\ task[p] \in {"head", "response", "stream"}
    /\ task' = [task EXCEPT ![p] = "closing"]
    /\ age' = [age EXCEPT ![p] = 0]
    /\ UNCHANGED <<at, free, backlog, gone>>

(* serve_connection has returned: drop(permit), and the task ends.          *)
DropPermit(p) ==
    /\ task[p] = "closing"
    /\ task' = [task EXCEPT ![p] = "none"]
    /\ free' = [free EXCEPT ![Serves[p]] = @ + 1]
    /\ UNCHANGED <<at, backlog, gone, age>>

(* Time passes for every head that is waited for.                           *)
Pass ==
    /\ \E p \in Peers : task[p] = "head"
    /\ \A p \in Peers : task[p] = "head" => age[p] < HeaderReadTimeout
    /\ age' = [p \in Peers |-> IF task[p] = "head" THEN age[p] + 1 ELSE age[p]]
    /\ UNCHANGED <<at, free, backlog, gone, task>>

ServeLoop(l) == Acquire(l) \/ Accept(l) \/ AcceptAborted(l) \/ AcceptFails(l)
PeerActs(p) == Connect(p) \/ Vanish(p) \/ HeadArrives(p) \/ HangUp(p)
TaskActs(p) == HeadTimesOut(p) \/ Respond(p) \/ DropPermit(p)

Next == \/ \E l \in Listeners : ServeLoop(l)
        \/ \E p \in Peers : PeerActs(p) \/ TaskActs(p)
        \/ Pass

(* The runtime polls ready tasks and fires timers; accept does not fail for  *)
(* ever. Peers owe nothing.                                                 *)
Fairness ==
    /\ \A l \in Listeners : /\ WF_vars(Acquire(l))
                            /\ SF_vars(Accept(l) \/ AcceptAborted(l))
    /\ \A p \in Peers : WF_vars(TaskActs(p))
    /\ WF_vars(Pass)

Spec == Init /\ [][Next]_vars /\ Fairness
-----------------------------------------------------------------------------
(* Every variable keeps its type; the age of a head stays within the         *)
(* timeout (header_read_timeout).                                           *)
TypeOK ==
    /\ at \in [Listeners -> {"acquire", "accept"}]
    /\ free \in [Listeners -> 0..MaxConnections]
    /\ \A l \in Listeners : ToSet(backlog[l]) \subseteq {p \in Peers : Serves[p] = l}
    /\ gone \in SUBSET {p \in Peers : Queued(p)}
    /\ task \in [Peers -> {"none", "head", "response", "stream", "closing"}]
    /\ age \in [Peers -> 0..HeaderReadTimeout]

(* A listener's permits are all accounted for: free, held by its loop, or by *)
(* the task of a connection; so there are never more connections than         *)
(* permits, and no way out of the loop or of a task loses one                *)
(* (acquire_owned, continue, drop(permit)).                                 *)
PermitsReturn ==
    \A l \in Listeners :
        free[l] + (IF at[l] = "accept" THEN 1 ELSE 0) + Cardinality(TasksOf(l))
            = MaxConnections

(* A peer in the backlog is taken up, unless connections that asked for       *)
(* something keep all slots of its listener: half-open ones cannot, and       *)
(* other listeners' do not matter (the module's comment, F-03 and F-09).      *)
HeldForLong(l) ==
    Cardinality({p \in TasksOf(l) : Wants[p] \in {"answers", "stream"}}) = MaxConnections

WaitingIsServed ==
    \A p \in Peers :
        <>[]~HeldForLong(Serves[p]) => (Queued(p) ~> ~Queued(p))
=============================================================================
