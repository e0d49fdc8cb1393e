---------------------------- MODULE ListenerProofs ----------------------------
(***************************************************************************)
(* Proofs about Listener, for any listeners, any finite set of peers with   *)
(* any wishes, any number of permits and any timeout.  A permit moves into  *)
(* the task of the peer at the head of the backlog, so the invariant says    *)
(* that a waiting peer has no task and waits once: otherwise an accept       *)
(* would not add a connection.                                              *)
(***************************************************************************)
EXTENDS Listener, FiniteSetTheorems, TLAPS

Tasks == {"none", "head", "response", "stream", "closing"}

VarTypes ==
    /\ at \in [Listeners -> {"acquire", "accept"}]
    /\ free \in [Listeners -> Nat]
    /\ backlog \in [Listeners -> Seq(Peers)]
    /\ gone \in SUBSET Peers
    /\ task \in [Peers -> Tasks]
    /\ age \in [Peers -> 0..HeaderReadTimeout]

\* A backlog holds peers of its listener that have no task, each once.
BacklogWaits ==
    \A l \in Listeners :
        /\ \A i \in DOMAIN backlog[l] : /\ Serves[backlog[l][i]] = l
                                        /\ task[backlog[l][i]] = "none"
        /\ \A i, j \in DOMAIN backlog[l] : backlog[l][i] = backlog[l][j] => i = j

GoneAreQueued == \A p \in gone : Queued(p)

ListenerInv ==
    /\ VarTypes
    /\ BacklogWaits
    /\ GoneAreQueued
    /\ PermitsReturn

\* The head of a backlog and the rest of it.
LEMMA HeadAndTail ==
    ASSUME NEW s \in Seq(Peers), s # <<>>
    PROVE  /\ Head(s) \in Peers /\ Tail(s) \in Seq(Peers)
           /\ 1 \in DOMAIN s /\ s[1] = Head(s)
           /\ \A i \in DOMAIN Tail(s) : i + 1 \in DOMAIN s /\ Tail(s)[i] = s[i + 1]
           /\ \A i \in DOMAIN s : i # 1 => i - 1 \in DOMAIN Tail(s) /\ Tail(s)[i - 1] = s[i]
  OBVIOUS

\* The set of a backlog's peers, and what Append and Tail do to it.
LEMMA MembersOfBacklog ==
    ASSUME NEW s \in Seq(Peers), NEW p \in Peers
    PROVE  /\ ToSet(Append(s, p)) = ToSet(s) \cup {p}
           /\ s # <<>> => ToSet(s) = ToSet(Tail(s)) \cup {Head(s)}
<1>1. ToSet(Append(s, p)) = ToSet(s) \cup {p}
  <2>1. /\ DOMAIN Append(s, p) = DOMAIN s \cup {Len(s) + 1}
        /\ \A i \in DOMAIN s : Append(s, p)[i] = s[i]
        /\ Append(s, p)[Len(s) + 1] = p
    OBVIOUS
  <2> QED
    BY <2>1 DEF ToSet
<1>2. ASSUME s # <<>> PROVE ToSet(s) = ToSet(Tail(s)) \cup {Head(s)}
  <2> DEFINE t == Tail(s)
  <2>1. s[1] = Head(s) /\ 1 \in DOMAIN s
    BY <1>2, HeadAndTail
  <2>2. \A i \in DOMAIN t : i + 1 \in DOMAIN s /\ t[i] = s[i + 1]
    BY <1>2, HeadAndTail
  <2>3. \A i \in DOMAIN s : i # 1 => i - 1 \in DOMAIN t /\ t[i - 1] = s[i]
    BY <1>2, HeadAndTail
  <2>4. \A i \in DOMAIN s : s[i] = Head(s) \/ \E j \in DOMAIN t : t[j] = s[i]
    BY <2>1, <2>3
  <2>5. ToSet(s) = ToSet(t) \cup {Head(s)}
    <3> HIDE DEF t
    <3>1. ToSet(s) = {s[i] : i \in DOMAIN s} /\ ToSet(t) = {t[i] : i \in DOMAIN t}
      BY DEF ToSet
    <3>2. ASSUME NEW e \in ToSet(s) PROVE e \in ToSet(t) \cup {Head(s)}
      BY <2>4, <3>1, <3>2
    <3>3. ASSUME NEW e \in ToSet(t) \cup {Head(s)} PROVE e \in ToSet(s)
      BY <2>1, <2>2, <3>1, <3>3
    <3> QED
      BY <3>2, <3>3
  <2> QED
    BY <2>5
<1> QED
  BY <1>1, <1>2

\* The connections of a listener are finitely many.
LEMMA TasksFinite ==
    \A l \in Listeners : /\ IsFiniteSet(TasksOf(l))
                         /\ Cardinality(TasksOf(l)) \in Nat
<1> SUFFICES ASSUME NEW l \in Listeners
             PROVE  IsFiniteSet(TasksOf(l)) /\ Cardinality(TasksOf(l)) \in Nat
  OBVIOUS
<1>1. TasksOf(l) \in SUBSET Peers
  BY DEF TasksOf
<1>2. IsFiniteSet(TasksOf(l))
  BY <1>1, FS_Subset, ListenerAssumption DEF ListenerAssumption
<1> QED
  BY <1>2, FS_CardinalityType

\* What a step of p's task does to the sets of connections.
LEMMA ConnectionsOf ==
    ASSUME VarTypes, NEW p \in Peers, NEW x \in Tasks, task' = [task EXCEPT ![p] = x]
    PROVE  /\ task' \in [Peers -> Tasks]
           /\ \A l \in Listeners :
                 TasksOf(l)' = IF l # Serves[p] THEN TasksOf(l)
                               ELSE IF x = "none" THEN TasksOf(l) \ {p}
                               ELSE TasksOf(l) \cup {p}
<1>1. task' \in [Peers -> Tasks]
  BY DEF VarTypes
<1>2. /\ task'[p] = x
      /\ \A q \in Peers : q # p => task'[q] = task[q]
  BY DEF VarTypes
<1>3. ASSUME NEW l \in Listeners, l # Serves[p] PROVE TasksOf(l)' = TasksOf(l)
  BY <1>2, <1>3 DEF TasksOf
<1>4. CASE x = "none"
  <2>1. TasksOf(Serves[p])' = TasksOf(Serves[p]) \ {p}
    BY <1>2, <1>4 DEF TasksOf
  <2> QED
    BY <1>1, <1>3, <1>4, <2>1
<1>5. CASE x # "none"
  <2>1. TasksOf(Serves[p])' = TasksOf(Serves[p]) \cup {p}
    BY <1>2, <1>5 DEF TasksOf
  <2> QED
    BY <1>1, <1>3, <1>5, <2>1
<1> QED
  BY <1>4, <1>5

\* A task that neither starts nor ends keeps its permit, and the backlogs as they are.
LEMMA TaskGoesOn ==
    ASSUME ListenerInv, NEW p \in Peers, NEW x \in Tasks \ {"none"},
           task[p] # "none", task' = [task EXCEPT ![p] = x],
           age' \in [Peers -> 0..HeaderReadTimeout],
           UNCHANGED <<at, free, backlog, gone>>
    PROVE  ListenerInv'
<1>0. VarTypes /\ BacklogWaits /\ GoneAreQueued /\ PermitsReturn
  BY DEF ListenerInv
<1>1. task' \in [Peers -> Tasks] /\ \A l \in Listeners : TasksOf(l)' = TasksOf(l)
  <2>1. p \in TasksOf(Serves[p])
    BY DEF TasksOf
  <2>2. x \in Tasks /\ x # "none"
    OBVIOUS
  <2>3. /\ task' \in [Peers -> Tasks]
        /\ \A l \in Listeners : TasksOf(l)' = IF l # Serves[p] THEN TasksOf(l)
                                               ELSE TasksOf(l) \cup {p}
    BY <1>0, <2>2, ConnectionsOf
  <2> QED
    BY <2>1, <2>3
<1>2. VarTypes'
  BY <1>0, <1>1 DEF VarTypes
<1>3. BacklogWaits'
  BY <1>0 DEF BacklogWaits, VarTypes
<1>4. GoneAreQueued'
  BY <1>0 DEF GoneAreQueued, Queued
<1>5. PermitsReturn'
  BY <1>0, <1>1 DEF PermitsReturn
<1> QED
  BY <1>2, <1>3, <1>4, <1>5 DEF ListenerInv

\* All permits are free.
LEMMA ListenerInvInit == Init => ListenerInv
<1> SUFFICES ASSUME Init PROVE ListenerInv
  OBVIOUS
<1> USE ListenerAssumption DEF ListenerAssumption
<1>1. VarTypes
  BY DEF Init, VarTypes, Tasks
<1>2. BacklogWaits /\ GoneAreQueued
  BY DEF Init, BacklogWaits, GoneAreQueued
<1>3. PermitsReturn
  <2>1. \A l \in Listeners : TasksOf(l) = {}
    BY DEF Init, TasksOf
  <2>2. \A l \in Listeners : Cardinality(TasksOf(l)) = 0
    BY <2>1, FS_EmptySet
  <2>3. \A l \in Listeners : free[l] = MaxConnections /\ at[l] = "acquire"
    BY DEF Init
  <2> QED
    BY <2>2, <2>3 DEF PermitsReturn
<1> QED
  BY <1>1, <1>2, <1>3 DEF ListenerInv

\* A peer that connects has no task and waits nowhere yet.
LEMMA ConnectKeepsInv ==
    ASSUME ListenerInv, NEW p \in Peers, Connect(p) PROVE ListenerInv'
<1>0. VarTypes /\ BacklogWaits /\ GoneAreQueued /\ PermitsReturn
  BY DEF ListenerInv
<1> DEFINE k == Serves[p]
           s == backlog[k]
<1>1. k \in Listeners /\ s \in Seq(Peers) /\ p \notin ToSet(s)
  BY <1>0, ListenerAssumption DEF ListenerAssumption, VarTypes, Connect, Queued
<1>2. /\ backlog'[k] = Append(s, p) /\ backlog' \in [Listeners -> Seq(Peers)]
      /\ \A l \in Listeners : l # k => backlog'[l] = backlog[l]
      /\ UNCHANGED <<at, free, gone, task, age>> /\ task[p] = "none"
  BY <1>0, <1>1 DEF VarTypes, Connect
<1>3. VarTypes'
  BY <1>0, <1>2 DEF VarTypes
<1>4. BacklogWaits'
  <2>1. /\ DOMAIN Append(s, p) = DOMAIN s \cup {Len(s) + 1}
        /\ \A i \in DOMAIN s : Append(s, p)[i] = s[i] /\ i # Len(s) + 1
        /\ Append(s, p)[Len(s) + 1] = p
    BY <1>1
  <2>2. \A i \in DOMAIN s : s[i] # p
    BY <1>1 DEF ToSet
  <2>3. /\ \A i \in DOMAIN backlog'[k] : /\ Serves[backlog'[k][i]] = k
                                         /\ task'[backlog'[k][i]] = "none"
        /\ \A i, j \in DOMAIN backlog'[k] : backlog'[k][i] = backlog'[k][j] => i = j
    BY <1>0, <1>1, <1>2, <2>1, <2>2 DEF BacklogWaits
  <2>4. ASSUME NEW l \in Listeners, l # k
        PROVE  /\ \A i \in DOMAIN backlog'[l] : /\ Serves[backlog'[l][i]] = l
                                               /\ task'[backlog'[l][i]] = "none"
               /\ \A i, j \in DOMAIN backlog'[l] : backlog'[l][i] = backlog'[l][j] => i = j
    <3>1. backlog'[l] = backlog[l] /\ task' = task
      BY <1>2, <2>4
    <3>2. /\ \A i \in DOMAIN backlog[l] : /\ Serves[backlog[l][i]] = l
                                          /\ task[backlog[l][i]] = "none"
          /\ \A i, j \in DOMAIN backlog[l] : backlog[l][i] = backlog[l][j] => i = j
      BY <1>0 DEF BacklogWaits
    <3> QED
      BY <3>1, <3>2
  <2> HIDE DEF k, s
  <2> QED
    BY <2>3, <2>4 DEF BacklogWaits
<1>5. GoneAreQueued'
  <2>1. ToSet(backlog'[k]) = ToSet(s) \cup {p}
    BY <1>1, <1>2, MembersOfBacklog
  <2>2. \A q \in Peers : Queued(q) => Queued(q)'
    BY <1>2, <2>1, ListenerAssumption DEF ListenerAssumption, Queued
  <2> QED
    BY <1>0, <1>2, <2>2 DEF GoneAreQueued, VarTypes
<1>6. PermitsReturn'
  BY <1>0, <1>2 DEF PermitsReturn, TasksOf
<1> QED
  BY <1>3, <1>4, <1>5, <1>6 DEF ListenerInv

\* Taking the head off a backlog, by an accept or by a failed one: the others still
\* wait, once each, and the head waits no more.
LEMMA TakingTheHead ==
    ASSUME VarTypes, BacklogWaits, NEW l \in Listeners, backlog[l] # <<>>,
           backlog' = [backlog EXCEPT ![l] = Tail(@)]
    PROVE  LET h == Head(backlog[l])
           IN  /\ h \in Peers /\ Serves[h] = l /\ task[h] = "none"
               /\ backlog' \in [Listeners -> Seq(Peers)]
               /\ \A k \in Listeners : \A i \in DOMAIN backlog'[k] :
                     /\ backlog'[k][i] # h
                     /\ Serves[backlog'[k][i]] = k
                     /\ task[backlog'[k][i]] = "none"
                     /\ \A j \in DOMAIN backlog'[k] :
                           backlog'[k][i] = backlog'[k][j] => i = j
               /\ \A q \in Peers : Queued(q) /\ q # h => Queued(q)'
<1> DEFINE s == backlog[l]
           h == Head(s)
<1>1. s \in Seq(Peers) /\ s # <<>>
  BY DEF VarTypes
<1>2. /\ h \in Peers /\ Tail(s) \in Seq(Peers)
      /\ 1 \in DOMAIN s /\ s[1] = h
      /\ \A i \in DOMAIN Tail(s) : i + 1 \in DOMAIN s /\ Tail(s)[i] = s[i + 1]
  BY <1>1, HeadAndTail
<1>3. Serves[h] = l /\ task[h] = "none"
  BY <1>2 DEF BacklogWaits
<1>4. /\ backlog' \in [Listeners -> Seq(Peers)] /\ backlog'[l] = Tail(s)
      /\ \A k \in Listeners : k # l => backlog'[k] = backlog[k]
  BY <1>2 DEF VarTypes
<1>5. \A i \in DOMAIN Tail(s) : i \in Nat \ {0}
  BY <1>2
<1>6. \A i \in DOMAIN Tail(s) :
         /\ Tail(s)[i] # h
         /\ Serves[Tail(s)[i]] = l
         /\ task[Tail(s)[i]] = "none"
         /\ \A j \in DOMAIN Tail(s) : Tail(s)[i] = Tail(s)[j] => i = j
  BY <1>2, <1>5 DEF BacklogWaits
<1>7. \A k \in Listeners : k # l =>
         \A i \in DOMAIN backlog[k] :
            /\ backlog[k][i] # h
            /\ Serves[backlog[k][i]] = k
            /\ task[backlog[k][i]] = "none"
            /\ \A j \in DOMAIN backlog[k] : backlog[k][i] = backlog[k][j] => i = j
  BY <1>3 DEF BacklogWaits
<1>8. \A q \in Peers : Queued(q) /\ q # h => Queued(q)'
  <2>1. ToSet(s) = ToSet(Tail(s)) \cup {h}
    BY <1>1, <1>2, MembersOfBacklog
  <2> QED
    BY <1>4, <2>1, ListenerAssumption DEF ListenerAssumption, Queued
<1> QED
  BY <1>2, <1>3, <1>4, <1>6, <1>7, <1>8

\* An accept moves the loop's permit into the task of a peer that had none.
LEMMA AcceptKeepsInv ==
    ASSUME ListenerInv, NEW l \in Listeners, Accept(l) PROVE ListenerInv'
<1>0. VarTypes /\ BacklogWaits /\ GoneAreQueued /\ PermitsReturn
  BY DEF ListenerInv
<1> DEFINE h == Head(backlog[l])
<1>1. /\ at[l] = "accept" /\ h \notin gone /\ backlog[l] # <<>>
      /\ at' = [at EXCEPT ![l] = "acquire"]
      /\ backlog' = [backlog EXCEPT ![l] = Tail(@)]
      /\ task' = [task EXCEPT ![h] = "head"]
      /\ age' = [age EXCEPT ![h] = 0]
      /\ UNCHANGED <<free, gone>>
  BY DEF Accept
<1>2. /\ h \in Peers /\ Serves[h] = l /\ task[h] = "none"
      /\ backlog' \in [Listeners -> Seq(Peers)]
      /\ \A k \in Listeners : \A i \in DOMAIN backlog'[k] :
            /\ backlog'[k][i] # h
            /\ Serves[backlog'[k][i]] = k
            /\ task[backlog'[k][i]] = "none"
            /\ \A j \in DOMAIN backlog'[k] : backlog'[k][i] = backlog'[k][j] => i = j
      /\ \A q \in Peers : Queued(q) /\ q # h => Queued(q)'
  BY <1>0, <1>1, TakingTheHead
<1> HIDE DEF h
<1>3. /\ task' \in [Peers -> Tasks]
      /\ \A k \in Listeners :
            TasksOf(k)' = IF k # l THEN TasksOf(k) ELSE TasksOf(k) \cup {h}
  <2>1. "head" \in Tasks /\ h \in Peers /\ task' = [task EXCEPT ![h] = "head"]
    BY <1>1, <1>2 DEF Tasks
  <2>2. /\ task' \in [Peers -> Tasks]
        /\ \A k \in Listeners :
              TasksOf(k)' = IF k # Serves[h] THEN TasksOf(k)
                            ELSE IF "head" = "none" THEN TasksOf(k) \ {h}
                            ELSE TasksOf(k) \cup {h}
    BY <1>0, <2>1, ConnectionsOf
  <2> QED
    BY <1>2, <2>2
<1>4. VarTypes'
  BY <1>0, <1>1, <1>2, <1>3, ListenerAssumption DEF ListenerAssumption, VarTypes
<1>5. BacklogWaits'
  <2>1. \A q \in Peers : q # h => task'[q] = task[q]
    BY <1>0, <1>1 DEF VarTypes
  <2>2. \A k \in Listeners : \A i \in DOMAIN backlog'[k] : backlog'[k][i] \in Peers
    BY <1>2
  <2> QED
    BY <1>2, <2>1, <2>2 DEF BacklogWaits
<1>6. GoneAreQueued'
  BY <1>0, <1>1, <1>2 DEF GoneAreQueued, VarTypes
<1>7. PermitsReturn'
  <2>1. h \notin TasksOf(l)
    BY <1>2 DEF TasksOf
  <2>2. Cardinality(TasksOf(l)') = Cardinality(TasksOf(l)) + 1
    BY <1>3, <2>1, TasksFinite, FS_AddElement
  <2>3. /\ at'[l] = "acquire"
        /\ \A k \in Listeners : k # l => at'[k] = at[k] /\ TasksOf(k)' = TasksOf(k)
    BY <1>0, <1>1, <1>3 DEF VarTypes
  <2>4. free[l] + 1 + Cardinality(TasksOf(l)) = MaxConnections
    BY <1>0, <1>1 DEF PermitsReturn
  <2>5. free'[l] + 0 + Cardinality(TasksOf(l)') = MaxConnections
    BY <1>0, <1>1, <2>2, <2>4, TasksFinite DEF VarTypes
  <2> QED
    BY <1>0, <1>1, <2>3, <2>5 DEF PermitsReturn
<1> QED
  BY <1>4, <1>5, <1>6, <1>7 DEF ListenerInv

\* A failed accept gives back the permit that the loop held.
LEMMA ContinueReturnsPermit ==
    ASSUME VarTypes, PermitsReturn, NEW l \in Listeners, at[l] = "accept",
           Continue(l), UNCHANGED task
    PROVE  /\ PermitsReturn'
           /\ at' \in [Listeners -> {"acquire", "accept"}]
           /\ free' \in [Listeners -> Nat]
<1>1. /\ at' \in [Listeners -> {"acquire", "accept"}] /\ free' \in [Listeners -> Nat]
      /\ at'[l] = "acquire" /\ free'[l] = free[l] + 1 /\ free[l] \in Nat
      /\ \A k \in Listeners : k # l => at'[k] = at[k] /\ free'[k] = free[k]
  BY DEF VarTypes, Continue
<1>2. \A k \in Listeners : TasksOf(k)' = TasksOf(k)
  BY DEF TasksOf
<1>3. free[l] + 1 + Cardinality(TasksOf(l)) = MaxConnections
  BY DEF PermitsReturn
<1>4. free'[l] + 0 + Cardinality(TasksOf(l)') = MaxConnections
  BY <1>1, <1>2, <1>3, TasksFinite
<1>5. PermitsReturn'
  BY <1>1, <1>2, <1>4 DEF PermitsReturn
<1> QED
  BY <1>1, <1>5

\* The end of a task gives back the permit that its accept took.
LEMMA DropPermitKeepsInv ==
    ASSUME ListenerInv, NEW p \in Peers, DropPermit(p) PROVE ListenerInv'
<1>0. VarTypes /\ BacklogWaits /\ GoneAreQueued /\ PermitsReturn
  BY DEF ListenerInv
<1> DEFINE k == Serves[p]
<1>1. /\ k \in Listeners /\ task[p] = "closing"
      /\ task' = [task EXCEPT ![p] = "none"]
      /\ free' = [free EXCEPT ![k] = @ + 1]
      /\ UNCHANGED <<at, backlog, gone, age>>
  BY ListenerAssumption DEF ListenerAssumption, DropPermit
<1>2. /\ task' \in [Peers -> Tasks]
      /\ \A l \in Listeners :
            TasksOf(l)' = IF l # k THEN TasksOf(l) ELSE TasksOf(l) \ {p}
  BY <1>0, <1>1, ConnectionsOf DEF Tasks
<1>3. /\ free' \in [Listeners -> Nat] /\ free'[k] = free[k] + 1 /\ free[k] \in Nat
      /\ \A l \in Listeners : l # k => free'[l] = free[l]
  BY <1>0, <1>1 DEF VarTypes
<1>4. VarTypes'
  BY <1>0, <1>1, <1>2, <1>3 DEF VarTypes
<1>5. BacklogWaits'
  <2>1. \A q \in Peers : task[q] = "none" => task'[q] = "none"
    BY <1>0, <1>1 DEF VarTypes
  <2>2. \A l \in Listeners : \A i \in DOMAIN backlog[l] : backlog[l][i] \in Peers
    BY <1>0 DEF VarTypes
  <2> QED
    BY <1>0, <1>1, <2>1, <2>2 DEF BacklogWaits
<1>6. GoneAreQueued'
  BY <1>0, <1>1 DEF GoneAreQueued, Queued
<1>7. PermitsReturn'
  <2>1. p \in TasksOf(k)
    BY <1>1 DEF TasksOf
  <2>2. Cardinality(TasksOf(k)') = Cardinality(TasksOf(k)) - 1
    BY <1>1, <1>2, <2>1, TasksFinite, FS_RemoveElement
  <2>3. Cardinality(TasksOf(k)) \in Nat
    BY <1>1, TasksFinite
  <2>4. free'[k] + Cardinality(TasksOf(k)') = free[k] + Cardinality(TasksOf(k))
    BY <1>3, <2>2, <2>3
  <2>5. \A l \in Listeners : l # k => TasksOf(l)' = TasksOf(l)
    BY <1>2
  <2> DEFINE held == IF at[k] = "accept" THEN 1 ELSE 0
  <2>6. free'[k] + held + Cardinality(TasksOf(k)') = MaxConnections
    <3>1. free[k] + held + Cardinality(TasksOf(k)) = MaxConnections
      BY <1>0, <1>1 DEF PermitsReturn
    <3>2. held \in Nat
      OBVIOUS
    <3> QED
      BY <1>3, <2>2, <2>3, <3>1, <3>2
  <2> QED
    BY <1>0, <1>1, <1>3, <2>5, <2>6 DEF PermitsReturn
<1> QED
  BY <1>4, <1>5, <1>6, <1>7 DEF ListenerInv

\* No step of a loop, a connection or a peer loses a permit or makes one.
LEMMA ListenerInvNext == ListenerInv /\ [Next]_vars => ListenerInv'
<1> SUFFICES ASSUME ListenerInv, [Next]_vars PROVE ListenerInv'
  OBVIOUS
<1>0. VarTypes /\ BacklogWaits /\ GoneAreQueued /\ PermitsReturn
  BY DEF ListenerInv
<1>1. ASSUME NEW l \in Listeners, Acquire(l) PROVE ListenerInv'
  <2>1. /\ at[l] = "acquire" /\ free[l] \in Nat \ {0}
        /\ free' = [free EXCEPT ![l] = @ - 1] /\ at' = [at EXCEPT ![l] = "accept"]
        /\ UNCHANGED <<backlog, gone, task, age>>
    BY <1>0, <1>1 DEF VarTypes, Acquire
  <2>2. /\ VarTypes' /\ free'[l] = free[l] - 1 /\ at'[l] = "accept"
        /\ \A k \in Listeners : k # l => at'[k] = at[k] /\ free'[k] = free[k]
    BY <1>0, <2>1 DEF VarTypes
  <2>3. BacklogWaits' /\ GoneAreQueued'
    BY <1>0, <2>1 DEF BacklogWaits, GoneAreQueued, Queued
  <2>4. \A k \in Listeners : TasksOf(k)' = TasksOf(k)
    BY <2>1 DEF TasksOf
  <2>5. free'[l] + 1 + Cardinality(TasksOf(l)') = MaxConnections
    <3>1. free[l] + 0 + Cardinality(TasksOf(l)) = MaxConnections
      BY <1>0, <2>1 DEF PermitsReturn
    <3> QED
      BY <2>1, <2>2, <2>4, <3>1, TasksFinite
  <2>6. PermitsReturn'
    BY <1>0, <2>2, <2>4, <2>5 DEF PermitsReturn
  <2> QED
    BY <2>2, <2>3, <2>6 DEF ListenerInv
<1>2. ASSUME NEW l \in Listeners, AcceptAborted(l) PROVE ListenerInv'
  <2> DEFINE h == Head(backlog[l])
  <2>1. /\ at[l] = "accept" /\ Continue(l) /\ backlog[l] # <<>> /\ gone' = gone \ {h}
        /\ backlog' = [backlog EXCEPT ![l] = Tail(@)]
        /\ UNCHANGED <<task, age>>
    BY <1>2 DEF AcceptAborted
  <2>2. PermitsReturn' /\ at' \in [Listeners -> {"acquire", "accept"}]
                       /\ free' \in [Listeners -> Nat]
    BY <1>0, <2>1, ContinueReturnsPermit
  <2>3. /\ backlog' \in [Listeners -> Seq(Peers)]
        /\ \A k \in Listeners : \A i \in DOMAIN backlog'[k] :
              /\ Serves[backlog'[k][i]] = k
              /\ task[backlog'[k][i]] = "none"
              /\ \A j \in DOMAIN backlog'[k] : backlog'[k][i] = backlog'[k][j] => i = j
        /\ \A q \in Peers : Queued(q) /\ q # h => Queued(q)'
    <3> HIDE DEF h
    <3>1. /\ backlog' \in [Listeners -> Seq(Peers)]
          /\ \A k \in Listeners : \A i \in DOMAIN backlog'[k] :
                /\ backlog'[k][i] # h
                /\ Serves[backlog'[k][i]] = k
                /\ task[backlog'[k][i]] = "none"
                /\ \A j \in DOMAIN backlog'[k] : backlog'[k][i] = backlog'[k][j] => i = j
          /\ \A q \in Peers : Queued(q) /\ q # h => Queued(q)'
      BY <1>0, <2>1, TakingTheHead DEF h
    <3> QED
      BY <3>1
  <2>4. VarTypes'
    BY <1>0, <2>1, <2>2, <2>3 DEF VarTypes
  <2>5. BacklogWaits'
    BY <2>1, <2>3 DEF BacklogWaits
  <2>6. GoneAreQueued'
    BY <1>0, <2>1, <2>3 DEF GoneAreQueued, VarTypes
  <2> QED
    BY <2>2, <2>4, <2>5, <2>6 DEF ListenerInv
<1>3. ASSUME NEW l \in Listeners, AcceptFails(l) PROVE ListenerInv'
  <2>1. at[l] = "accept" /\ Continue(l) /\ UNCHANGED <<backlog, gone, task, age>>
    BY <1>3 DEF AcceptFails
  <2>2. PermitsReturn' /\ at' \in [Listeners -> {"acquire", "accept"}]
                       /\ free' \in [Listeners -> Nat]
    BY <1>0, <2>1, ContinueReturnsPermit
  <2>3. VarTypes'
    BY <1>0, <2>1, <2>2 DEF VarTypes
  <2>4. BacklogWaits' /\ GoneAreQueued'
    BY <1>0, <2>1 DEF BacklogWaits, GoneAreQueued, Queued
  <2> QED
    BY <2>2, <2>3, <2>4 DEF ListenerInv
<1>4. ASSUME NEW p \in Peers, Vanish(p) PROVE ListenerInv'
  <2>1. /\ Queued(p) /\ gone' = gone \cup {p}
        /\ UNCHANGED <<at, free, backlog, task, age>>
    BY <1>4 DEF Vanish
  <2>2. VarTypes'
    BY <1>0, <2>1 DEF VarTypes
  <2>3. BacklogWaits' /\ PermitsReturn'
    BY <1>0, <2>1 DEF BacklogWaits, PermitsReturn, TasksOf
  <2>4. GoneAreQueued'
    BY <1>0, <2>1 DEF GoneAreQueued, Queued
  <2> QED
    BY <2>2, <2>3, <2>4 DEF ListenerInv
<1>5. ASSUME NEW p \in Peers,
             HeadArrives(p) \/ HangUp(p) \/ HeadTimesOut(p) \/ Respond(p)
      PROVE  ListenerInv'
  <2>1. /\ task[p] # "none" /\ UNCHANGED <<at, free, backlog, gone>>
        /\ \E x \in Tasks \ {"none"} : task' = [task EXCEPT ![p] = x]
    BY <1>5 DEF HeadArrives, HangUp, HeadTimesOut, Respond, Tasks
  <2>2. age' \in [Peers -> 0..HeaderReadTimeout]
    <3>1. age' = age \/ age' = [age EXCEPT ![p] = 0]
      BY <1>5 DEF HeadArrives, HangUp, HeadTimesOut, Respond
    <3>2. 0 \in 0..HeaderReadTimeout
      BY ListenerAssumption DEF ListenerAssumption
    <3>3. age \in [Peers -> 0..HeaderReadTimeout]
      BY <1>0 DEF VarTypes
    <3> QED
      BY <3>1, <3>2, <3>3
  <2>3. PICK x \in Tasks \ {"none"} : task' = [task EXCEPT ![p] = x]
    BY <2>1
  <2> QED
    BY <2>1, <2>2, <2>3, TaskGoesOn
<1>6. CASE Pass
  <2>1. /\ age' = [p \in Peers |-> IF task[p] = "head" THEN age[p] + 1 ELSE age[p]]
        /\ \A p \in Peers : task[p] = "head" => age[p] < HeaderReadTimeout
        /\ UNCHANGED <<at, free, backlog, gone, task>>
    BY <1>6 DEF Pass
  <2>2. VarTypes'
    <3>1. \A p \in Peers : age[p] \in 0..HeaderReadTimeout
      BY <1>0 DEF VarTypes
    <3>2. \A p \in Peers : (IF task[p] = "head" THEN age[p] + 1 ELSE age[p])
                                \in 0..HeaderReadTimeout
      BY <2>1, <3>1, ListenerAssumption DEF ListenerAssumption
    <3>3. age' \in [Peers -> 0..HeaderReadTimeout]
      BY <2>1, <3>2
    <3> QED
      BY <1>0, <2>1, <3>3 DEF VarTypes
  <2>3. BacklogWaits' /\ GoneAreQueued' /\ PermitsReturn'
    BY <1>0, <2>1 DEF BacklogWaits, GoneAreQueued, Queued, PermitsReturn, TasksOf
  <2> QED
    BY <2>2, <2>3 DEF ListenerInv
<1>7. CASE UNCHANGED vars
  BY <1>0, <1>7 DEF vars, ListenerInv, VarTypes, BacklogWaits, GoneAreQueued, Queued,
                    PermitsReturn, TasksOf
<1> QED
  BY <1>1, <1>2, <1>3, <1>4, <1>5, <1>6, <1>7, AcceptKeepsInv, ConnectKeepsInv,
     DropPermitKeepsInv DEF Next, ServeLoop, PeerActs, TaskActs

\* The invariant holds at all times.
LEMMA AlwaysListenerInv == Spec => []ListenerInv
  BY ListenerInvInit, ListenerInvNext, PTL DEF Spec

\* serve_with: a permit is free, or held by the loop, or belongs to one connection, and
\* none is ever lost or made up, whichever way an accept or a connection ends.
THEOREM PermitsAreNeverLost == Spec => []PermitsReturn
<1>1. ListenerInv => PermitsReturn
  BY DEF ListenerInv
<1> QED
  BY AlwaysListenerInv, <1>1, PTL

\* The semaphore never holds more permits than it was made with, a backlog only peers of
\* its own listener, and no head is waited for longer than header_read_timeout.
THEOREM TypeCorrect == Spec => []TypeOK
<1>1. ListenerInv => TypeOK
  <2> SUFFICES ASSUME ListenerInv PROVE TypeOK
    OBVIOUS
  <2>0. VarTypes /\ BacklogWaits /\ GoneAreQueued /\ PermitsReturn
    BY DEF ListenerInv
  <2>1. \A l \in Listeners : free[l] \in 0..MaxConnections
    <3> SUFFICES ASSUME NEW l \in Listeners PROVE free[l] \in 0..MaxConnections
      OBVIOUS
    <3> DEFINE held == IF at[l] = "accept" THEN 1 ELSE 0
    <3>1. free[l] + held + Cardinality(TasksOf(l)) = MaxConnections
      BY <2>0 DEF PermitsReturn
    <3>2. free[l] \in Nat /\ held \in Nat /\ Cardinality(TasksOf(l)) \in Nat
      BY <2>0, TasksFinite DEF VarTypes
    <3> QED
      BY <3>1, <3>2, ListenerAssumption DEF ListenerAssumption
  <2>2. free \in [Listeners -> 0..MaxConnections]
    BY <2>0, <2>1 DEF VarTypes
  <2>3. \A l \in Listeners : ToSet(backlog[l]) \subseteq {p \in Peers : Serves[p] = l}
    BY <2>0 DEF VarTypes, BacklogWaits, ToSet
  <2>4. gone \in SUBSET {p \in Peers : Queued(p)}
    BY <2>0 DEF VarTypes, GoneAreQueued
  <2> QED
    BY <2>0, <2>2, <2>3, <2>4 DEF TypeOK, VarTypes, Tasks
<1> QED
  BY AlwaysListenerInv, <1>1, PTL

\* A listener never serves more connections than it has permits (F-03 in serve.rs).
THEOREM ConnectionsAreCapped ==
    Spec => [](\A l \in Listeners : Cardinality(TasksOf(l)) <= MaxConnections)
<1>1. ListenerInv => \A l \in Listeners : Cardinality(TasksOf(l)) <= MaxConnections
  <2> SUFFICES ASSUME ListenerInv, NEW l \in Listeners
               PROVE  Cardinality(TasksOf(l)) <= MaxConnections
    OBVIOUS
  <2> DEFINE held == IF at[l] = "accept" THEN 1 ELSE 0
  <2>1. free[l] + held + Cardinality(TasksOf(l)) = MaxConnections
    BY DEF ListenerInv, PermitsReturn
  <2>2. free[l] \in Nat /\ held \in Nat /\ Cardinality(TasksOf(l)) \in Nat
    BY TasksFinite DEF ListenerInv, VarTypes
  <2> QED
    BY <2>1, <2>2
<1> QED
  BY AlwaysListenerInv, <1>1, PTL
=============================================================================
