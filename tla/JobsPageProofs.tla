--------------------------- MODULE JobsPageProofs ---------------------------
(***************************************************************************)
(* The jobs page, for any jobs and any number of requests in flight.       *)
(*                                                                         *)
(* Its busy marks: BusyMeansCalls alone is not inductive, since that the   *)
(* end of a create frees the button depends on there being one create, and *)
(* that a new page has no marks, on the calls being forgotten with the old *)
(* one.                                                                    *)
(*                                                                         *)
(* Its list: what is done with it by hand is followed by an algebra of two *)
(* lists, the page's and the server's, and of the jobs whose change is on  *)
(* its way (ListOK); before the list has arrived, the invariant speaks of  *)
(* the answer that is on its way (AnswerOK).  The created job can be put   *)
(* in front because the server put it in front of all that were there.     *)
(*                                                                         *)
(* Its panels: what is filed, and what is on its way, ends its history.    *)
(***************************************************************************)
EXTENDS JobsPage, FiniteSetTheorems, FunctionTheorems, SequenceTheorems, TLAPS

CallsInv ==
    /\ DOMAIN calls = Slots
    /\ \A i \in Slots : /\ DOMAIN calls[i] = { "kind", "arg", "st", "data" }
                        /\ calls[i].st = "idle" <=> calls[i].kind = Nil

UiInv ==
    /\ DOMAIN ui = { "open", "jobs", "loading", "deleting", "expandedJob",
                     "executions", "loadingExecutions" }
    /\ ui.open \in BOOLEAN /\ ui.loading \in BOOLEAN

\* A page that is not there waits for nothing.
ClosedInv == ui.open = FALSE => \A i \in Slots : calls[i].kind = Nil

OneCreate == \A i, k \in InFlight(calls, "jobs.create") : i = k

\* The three marks, in terms of the slots.
LoadingInv == ui.open = TRUE =>
    (ui.loading = TRUE <=> \E i \in Slots : calls[i].kind = "jobs.create")

DeletingInv == (ui.open = TRUE /\ ui.deleting # Nil) =>
    \E i \in Slots : calls[i].kind = "jobs.delete" /\ calls[i].arg = ui.deleting

HistoryInv == (ui.open = TRUE /\ ui.loadingExecutions # Nil) =>
    \E i \in Slots : /\ calls[i].kind = "jobs.executions"
                     /\ calls[i].arg = ui.loadingExecutions

MarksInv == LoadingInv /\ DeletingInv /\ HistoryInv

IInv == CallsInv /\ UiInv /\ ClosedInv /\ OneCreate /\ MarksInv

-----------------------------------------------------------------------------
(* What the operations of WebApi do to the table. *)

\* Nil is none of the endpoints the page calls.
LEMMA NilIsNoEndpoint ==
    /\ Nil # "jobs.list" /\ Nil # "jobs.create"
    /\ Nil # "jobs.delete" /\ Nil # "jobs.executions"
BY NilAssumption DEF Endpoints, Reads, Writes

\* A call takes a slot that was idle, and no other.
Called(n, kind, arg) ==
    /\ n \in Slots /\ calls[n].kind = Nil
    /\ calls'[n].kind = kind /\ calls'[n].arg = arg
    /\ \A k \in Slots \ {n} : calls'[k] = calls[k]

LEMMA CallTakesIdleSlot ==
    ASSUME CallsInv, NEW kind, NEW arg, kind # Nil, CanCall(calls),
           calls' = call(calls, kind, arg)
    PROVE  CallsInv' /\ \E n \in Slots : Called(n, kind, arg)
<1> DEFINE n == CHOOSE k \in Slots : calls[k].st = "idle"
<1>1. n \in Slots /\ calls[n].st = "idle"
  BY DEF CanCall
<1>2. calls' = [ calls EXCEPT ![n] =
                   [ kind |-> kind, arg |-> arg, st |-> "sent", data |-> Nil ] ]
  BY DEF call
<1> HIDE DEF n
<1>3. CallsInv'
  BY <1>1, <1>2 DEF CallsInv
<1>4. Called(n, kind, arg)
  BY <1>1, <1>2 DEF CallsInv, Called
<1> QED
  BY <1>1, <1>3, <1>4

\* Nothing is in flight when the table is cleared.
LEMMA ClearedTable ==
    ASSUME calls' = NoCalls
    PROVE  CallsInv' /\ \A k \in Slots : calls'[k].kind = Nil
BY DEF NoCalls, IdleCall, CallsInv

\* An answer changes neither what a call is nor what it is about.
LEMMA AnswerKeepsKinds ==
    ASSUME CallsInv, NEW i \in Slots, calls[i].st # "idle",
           \/ calls' = Throw(calls, i)
           \/ \E data : calls' = Resolve(calls, i, data)
    PROVE  /\ CallsInv'
           /\ \A k \in Slots : /\ calls'[k].kind = calls[k].kind
                               /\ calls'[k].arg = calls[k].arg
<1>1. PICK st \in { "done", "failed" } : \E data :
          calls' = [ calls EXCEPT ![i].st = st, ![i].data = data ]
  BY DEF Resolve, Throw
<1>2. PICK data : calls' = [ calls EXCEPT ![i].st = st, ![i].data = data ]
  BY <1>1
<1>3. \A k \in Slots : /\ DOMAIN calls'[k] = { "kind", "arg", "st", "data" }
                       /\ calls'[k].kind = calls[k].kind
                       /\ calls'[k].arg = calls[k].arg
                       /\ calls'[k].st = IF k = i THEN st ELSE calls[k].st
  BY <1>2 DEF CallsInv
<1> QED
  BY <1>2, <1>3 DEF CallsInv

\* A call whose handler has run is gone, and no other.
LEMMA SettleFreesSlot ==
    ASSUME CallsInv, NEW i \in Slots, calls' = Settle(calls, i)
    PROVE  /\ CallsInv' /\ calls'[i].kind = Nil
           /\ \A k \in Slots \ {i} : calls'[k] = calls[k]
BY DEF CallsInv, Settle, IdleCall

-----------------------------------------------------------------------------
LEMMA InitIInv == Init => IInv
<1> SUFFICES ASSUME Init PROVE IInv
  OBVIOUS
<1>1. calls = NoCalls /\ ui = Closed
  BY DEF Init
<1>2. CallsInv /\ \A k \in Slots : calls[k].kind = Nil
  BY <1>1 DEF NoCalls, IdleCall, CallsInv
<1>3. UiInv /\ ui.open = FALSE
  BY <1>1 DEF Closed, Fresh, UiInv
<1> QED
  BY <1>2, <1>3, NilIsNoEndpoint
     DEF IInv, ClosedInv, OneCreate, MarksInv, LoadingInv, DeletingInv, HistoryInv,
         InFlight

USE DEF ClosedInv, OneCreate, LoadingInv, DeletingInv, HistoryInv, MarksInv, InFlight

\* The page is opened and left.
LEMMA PageIInv ==
    ASSUME IInv, OpenPage \/ LeavePage
    PROVE  IInv'
<1>1. CASE OpenPage
  <2>1. CallsInv' /\ \E n \in Slots : Called(n, "jobs.list", Nil)
    BY <1>1, CallTakesIdleSlot, NilIsNoEndpoint DEF IInv, OpenPage
  <2>2. PICK n \in Slots : Called(n, "jobs.list", Nil)
    BY <2>1
  <2>3. \A k \in Slots : calls'[k].kind # "jobs.create"
    BY <1>1, <2>2, NilIsNoEndpoint DEF IInv, UiInv, OpenPage, Called
  <2>4. /\ UiInv' /\ ui'.open = TRUE /\ ui'.loading = FALSE
        /\ ui'.deleting = Nil /\ ui'.loadingExecutions = Nil
    BY <1>1 DEF OpenPage, Fresh, UiInv
  <2> QED
    BY <2>1, <2>3, <2>4 DEF IInv
<1>2. CASE LeavePage
  <2>1. CallsInv' /\ \A k \in Slots : calls'[k].kind = Nil
    BY <1>2, ClearedTable DEF LeavePage
  <2>2. UiInv' /\ ui'.open = FALSE
    BY <1>2 DEF LeavePage, Closed, Fresh, UiInv
  <2> QED
    BY <2>1, <2>2, NilIsNoEndpoint DEF IInv
<1> QED
  BY <1>1, <1>2

\* Create is pressed: the button being enabled, no create is under way.
LEMMA CreateIInv ==
    ASSUME IInv, NEW form \in Forms, handleCreate(form)
    PROVE  IInv'
<1>1. ui.open = TRUE /\ ui.loading = FALSE
  BY DEF IInv, UiInv, handleCreate, CreateEnabled
<1>2. CASE Undated(form)
  <2>1. /\ UiInv' /\ calls' = calls
        /\ ui'.open = ui.open /\ ui'.loading = ui.loading
        /\ ui'.deleting = ui.deleting /\ ui'.loadingExecutions = ui.loadingExecutions
    BY <1>1, <1>2 DEF IInv, UiInv, handleCreate
  <2> QED
    BY <2>1 DEF IInv, CallsInv
<1>3. CASE ~Undated(form)
  <2>1. CallsInv' /\ \E n \in Slots : Called(n, "jobs.create", Nil)
    BY <1>3, CallTakesIdleSlot, NilIsNoEndpoint DEF IInv, handleCreate
  <2>2. PICK n \in Slots : Called(n, "jobs.create", Nil)
    BY <2>1
  <2>3. /\ UiInv' /\ ui'.open = TRUE /\ ui'.loading = TRUE
        /\ ui'.deleting = ui.deleting /\ ui'.loadingExecutions = ui.loadingExecutions
    BY <1>1, <1>3 DEF IInv, UiInv, handleCreate
  <2>4. OneCreate' /\ LoadingInv'
    BY <1>1, <2>2, <2>3 DEF IInv, Called
  <2>5. DeletingInv' /\ HistoryInv'
    BY <1>1, <2>2, <2>3, NilIsNoEndpoint DEF IInv, Called
  <2> QED
    BY <2>1, <2>3, <2>4, <2>5 DEF IInv
<1> QED
  BY <1>2, <1>3

LEMMA DeleteIInv ==
    ASSUME IInv, NEW j \in Jobs, handleDelete(j)
    PROVE  IInv'
<1>1. CallsInv' /\ \E n \in Slots : Called(n, "jobs.delete", j)
  BY CallTakesIdleSlot, NilIsNoEndpoint DEF IInv, handleDelete
<1>2. PICK n \in Slots : Called(n, "jobs.delete", j)
  BY <1>1
<1>3. /\ UiInv' /\ ui.open = TRUE /\ ui'.open = TRUE /\ ui'.loading = ui.loading
      /\ ui'.deleting = j /\ ui'.loadingExecutions = ui.loadingExecutions
  BY DEF IInv, UiInv, handleDelete
<1>4. OneCreate' /\ LoadingInv'
  BY <1>2, <1>3, NilIsNoEndpoint DEF IInv, Called
<1>5. DeletingInv' /\ HistoryInv'
  BY <1>2, <1>3, NilIsNoEndpoint DEF IInv, Called
<1> QED
  BY <1>1, <1>3, <1>4, <1>5 DEF IInv

LEMMA ToggleIInv ==
    ASSUME IInv, NEW j \in Jobs, toggleExecutions(j)
    PROVE  IInv'
<1>1. ui.open = TRUE
  BY DEF IInv, UiInv, toggleExecutions
<1>2. ASSUME NEW e, ui' = [ ui EXCEPT !.expandedJob = e ], UNCHANGED calls
      PROVE  IInv'
  <2>1. /\ UiInv' /\ ui'.open = ui.open /\ ui'.loading = ui.loading
        /\ ui'.deleting = ui.deleting /\ ui'.loadingExecutions = ui.loadingExecutions
    BY <1>2 DEF IInv, UiInv
  <2> QED
    BY <1>2, <2>1 DEF IInv, CallsInv
<1>3. CASE /\ CanCall(calls)
           /\ ui' = [ ui EXCEPT !.expandedJob = j, !.loadingExecutions = j ]
           /\ calls' = call(calls, "jobs.executions", j)
  <2>1. CallsInv' /\ \E n \in Slots : Called(n, "jobs.executions", j)
    BY <1>3, CallTakesIdleSlot, NilIsNoEndpoint DEF IInv
  <2>2. PICK n \in Slots : Called(n, "jobs.executions", j)
    BY <2>1
  <2>3. /\ UiInv' /\ ui'.open = TRUE /\ ui'.loading = ui.loading
        /\ ui'.deleting = ui.deleting /\ ui'.loadingExecutions = j
    BY <1>1, <1>3 DEF IInv, UiInv
  <2>4. OneCreate' /\ LoadingInv'
    BY <1>1, <2>2, <2>3, NilIsNoEndpoint DEF IInv, Called
  <2>5. DeletingInv' /\ HistoryInv'
    BY <1>1, <2>2, <2>3, NilIsNoEndpoint DEF IInv, Called
  <2> QED
    BY <2>1, <2>3, <2>4, <2>5 DEF IInv
<1> QED
  BY <1>2, <1>3 DEF toggleExecutions

-----------------------------------------------------------------------------
\* The server answers or refuses, or the answer is lost: the request is in
\* flight until its handler runs.
LEMMA ServeIInv ==
    ASSUME IInv, NEW i \in Slots, Serve(i) \/ LoseAnswer(i)
    PROVE  IInv'
<1> DEFINE Kept == /\ CallsInv' /\ ui' = ui
                   /\ \A k \in Slots : /\ calls'[k].kind = calls[k].kind
                                       /\ calls'[k].arg = calls[k].arg
<1>1. Kept => IInv'
  BY DEF IInv, UiInv
<1>2. ServeList(i) => Kept
  BY AnswerKeepsKinds DEF IInv, ServeList
<1>3. ServeExecutions(i) => Kept
  BY AnswerKeepsKinds DEF IInv, ServeExecutions
<1>4. ServeCreate(i) => Kept
  BY AnswerKeepsKinds DEF IInv, ServeCreate
<1>5. ServeDelete(i) => Kept
  BY AnswerKeepsKinds DEF IInv, ServeDelete
<1>6. Refuse(i) => Kept
  BY AnswerKeepsKinds DEF IInv, Refuse
<1>7. LoseAnswer(i) => Kept
  BY AnswerKeepsKinds DEF IInv, LoseAnswer
<1> HIDE DEF Kept
<1> QED
  BY <1>1, <1>2, <1>3, <1>4, <1>5, <1>6, <1>7 DEF Serve

-----------------------------------------------------------------------------
\* The handler of an answer runs: its slot is free, its mark is gone.
LEMMA TakeIInv ==
    ASSUME IInv, NEW i \in Slots, Take(i)
    PROVE  IInv'
<1>1. calls' = Settle(calls, i) /\ calls[i].kind # Nil
  BY NilIsNoEndpoint DEF Take, TakeList, TakeExecutions, TakeCreate, TakeDelete,
     Answered
<1>2. /\ CallsInv' /\ calls'[i].kind = Nil
      /\ \A k \in Slots \ {i} : calls'[k] = calls[k]
  BY <1>1, SettleFreesSlot DEF IInv
<1>3. ui.open = TRUE
  BY <1>1 DEF IInv, UiInv
<1>4. OneCreate'
  BY <1>2, NilIsNoEndpoint DEF IInv
<1>5. CASE TakeList(i)
  <2>1. /\ UiInv' /\ ui'.open = TRUE /\ ui'.loading = ui.loading
        /\ ui'.deleting = ui.deleting /\ ui'.loadingExecutions = ui.loadingExecutions
    BY <1>3, <1>5 DEF IInv, UiInv, TakeList
  <2>2. calls[i].kind = "jobs.list"
    BY <1>5 DEF TakeList, Answered
  <2> QED
    BY <1>2, <1>3, <1>4, <2>1, <2>2, NilIsNoEndpoint DEF IInv
<1>6. CASE TakeExecutions(i)
  <2>1. /\ UiInv' /\ ui'.open = TRUE /\ ui'.loading = ui.loading
        /\ ui'.deleting = ui.deleting /\ ui'.loadingExecutions = Nil
    BY <1>3, <1>6 DEF IInv, UiInv, TakeExecutions
  <2>2. calls[i].kind = "jobs.executions"
    BY <1>6 DEF TakeExecutions, Answered
  <2> QED
    BY <1>2, <1>3, <1>4, <2>1, <2>2, NilIsNoEndpoint DEF IInv
<1>7. CASE TakeCreate(i)
  <2>1. /\ UiInv' /\ ui'.open = TRUE /\ ui'.loading = FALSE
        /\ ui'.deleting = ui.deleting /\ ui'.loadingExecutions = ui.loadingExecutions
    BY <1>3, <1>7 DEF IInv, UiInv, TakeCreate
  <2>2. calls[i].kind = "jobs.create"
    BY <1>7 DEF TakeCreate, Answered
  <2>3. \A k \in Slots : calls'[k].kind # "jobs.create"
    BY <1>2, <2>2, NilIsNoEndpoint DEF IInv
  <2> QED
    BY <1>2, <1>3, <1>4, <2>1, <2>2, <2>3, NilIsNoEndpoint DEF IInv
<1>8. CASE TakeDelete(i)
  <2>1. /\ UiInv' /\ ui'.open = TRUE /\ ui'.loading = ui.loading
        /\ ui'.deleting = Nil /\ ui'.loadingExecutions = ui.loadingExecutions
    BY <1>3, <1>8 DEF IInv, UiInv, TakeDelete
  <2>2. calls[i].kind = "jobs.delete"
    BY <1>8 DEF TakeDelete, Answered
  <2> QED
    BY <1>2, <1>3, <1>4, <2>1, <2>2, NilIsNoEndpoint DEF IInv
<1> QED
  BY <1>5, <1>6, <1>7, <1>8 DEF Take

-----------------------------------------------------------------------------
LEMMA NextIInv == IInv /\ [Next]_vars => IInv'
<1> SUFFICES ASSUME IInv, [Next]_vars PROVE IInv'
  OBVIOUS
<1>1. CASE OpenPage \/ LeavePage
  BY <1>1, PageIInv
<1>2. ASSUME NEW form \in Forms, handleCreate(form) PROVE IInv'
  BY <1>2, CreateIInv
<1>3. ASSUME NEW j \in Jobs, toggleExecutions(j) \/ handleDelete(j) PROVE IInv'
  BY <1>3, ToggleIInv, DeleteIInv
<1>4. ASSUME NEW i \in Slots, Serve(i) \/ LoseAnswer(i) PROVE IInv'
  BY <1>4, ServeIInv
<1>5. ASSUME NEW i \in Slots, Take(i) PROVE IInv'
  BY <1>5, TakeIInv
<1>6. ASSUME UNCHANGED <<ui, calls>> PROVE IInv'
  BY <1>6 DEF IInv, CallsInv, UiInv
<1>7. Elsewhere \/ UNCHANGED vars => UNCHANGED <<ui, calls>>
  BY DEF Elsewhere, CreateElsewhere, DeleteElsewhere, JobRuns, vars
<1> QED
  BY <1>1, <1>2, <1>3, <1>4, <1>5, <1>6, <1>7 DEF Next, User

LEMMA Invariance == Spec => []IInv
BY InitIInv, NextIInv, PTL DEF Spec

\* A busy mark of the jobs page stands for a request that is under way, however
\* many requests there are and in whatever order they are answered.
THEOREM MarksMeanRequests == Spec => []BusyMeansCalls
<1>1. IInv => BusyMeansCalls
  BY DEF BusyMeansCalls, Pending, IInv, UiInv
<1> QED
  BY <1>1, Invariance, PTL

\* However often Create is pressed, one create is under way.
THEOREM OneCreateAtATime == Spec => []OneCreate
<1>1. IInv => OneCreate
  BY DEF IInv
<1> QED
  BY <1>1, Invariance, PTL
-----------------------------------------------------------------------------
(* The lists.  What filter and `put in front' do to a sequence of jobs: who  *)
(* is in it, how often, and in which order.                                  *)

Once(jobs, j) == \A m, n \in DOMAIN jobs : jobs[m] = j /\ jobs[n] = j => m = n

\* The places of a finite set are numbered by how many are not after them.
LEMMA Numbering ==
    ASSUME NEW len \in Nat, NEW K, K \subseteq 1 .. len
    PROVE  LET rank(n) == Cardinality({ k \in K : k <= n })
           IN  /\ Cardinality(K) \in Nat
               /\ \A n \in K : rank(n) \in 1 .. Cardinality(K)
               /\ \A n, k \in K : n < k => rank(n) < rank(k)
               /\ \A m \in 1 .. Cardinality(K) : \E n \in K : rank(n) = m
<1> DEFINE below(n) == { k \in K : k <= n }
           rank(n) == Cardinality(below(n))
           c == Cardinality(K)
<1>1. IsFiniteSet(K) /\ c \in Nat
  <2>1. IsFiniteSet(1 .. len)
    BY FS_Interval
  <2>2. IsFiniteSet(K)
    BY <2>1, FS_Subset
  <2> QED BY <2>2, FS_CardinalityType
<1>2. \A n : below(n) \subseteq K
  OBVIOUS
<1>3. \A n : IsFiniteSet(below(n)) /\ rank(n) \in Nat /\ rank(n) <= c
  BY <1>1, <1>2, FS_Subset, FS_CardinalityType
<1>4. ASSUME NEW n \in K PROVE rank(n) >= 1
  <2>1. {n} \subseteq below(n)
    OBVIOUS
  <2>2. Cardinality({n}) = 1
    BY FS_Singleton
  <2> HIDE DEF below
  <2>3. Cardinality({n}) <= rank(n)
    BY <1>3, <2>1, FS_Subset
  <2> QED BY <1>3, <2>2, <2>3
<1>5. ASSUME NEW n \in K, NEW k \in K, n < k PROVE rank(n) < rank(k)
  <2>0. k \in Nat /\ n \in Nat /\ (\A x \in K : x \in Nat)
    OBVIOUS
  <2>1. k \in below(k) /\ k \notin below(n) /\ \A x \in Nat : x <= n => x <= k
    BY <1>5, <2>0
  <2>s. below(n) \subseteq below(k)
    BY <2>0, <2>1
  <2> HIDE DEF below
  <2>2. below(n) # below(k)
    BY <2>1
  <2> QED BY <1>3, <2>s, <2>2, FS_Subset
<1>6. \A n \in K : rank(n) \in 1 .. c
  <2> HIDE DEF below, c
  <2> QED BY <1>1, <1>3, <1>4
<1>7. \A m \in 1 .. c : \E n \in K : rank(n) = m
  <2> DEFINE f == [ n \in K |-> rank(n) ]
  <2> HIDE DEF below, c
  <2>1. \A n \in K : rank(n) \in 1 .. c
    BY <1>6
  <2>2. \A n, k \in K : rank(n) = rank(k) => n = k
    <3> SUFFICES ASSUME NEW n \in K, NEW k \in K, n # k PROVE rank(n) # rank(k)
      OBVIOUS
    <3>1. n < k \/ k < n
      OBVIOUS
    <3> QED BY <1>3, <1>5, <3>1
  <2> HIDE DEF rank
  <2>3. f \in Injection(K, 1 .. c)
    BY <2>1, <2>2 DEF Injection, IsInjective
  <2>4. IsFiniteSet(1 .. c) /\ Cardinality(1 .. c) = c
    BY <1>1, FS_Interval
  <2>5. Cardinality(K) = Cardinality(1 .. c)
    BY <2>4 DEF c
  <2>6. f \in Surjection(K, 1 .. c)
    BY <2>3, <2>4, <2>5, FS_Injection
  <2> QED BY <2>6 DEF Surjection
<1> HIDE DEF rank, c
<1> QED
  BY <1>1, <1>5, <1>6, <1>7 DEF rank, c

\* What is left of a sequence are its other places, in their order.
Picks(f, c, K) ==
    /\ f \in [ 1 .. c -> K ]
    /\ \A m, n \in 1 .. c : m < n => f[m] < f[n]
    /\ \A k \in K : \E m \in 1 .. c : f[m] = k

Filtered(jobs, id, left) ==
    \E c \in Nat : \E f : /\ Picks(f, c, { n \in DOMAIN jobs : jobs[n] # id })
                         /\ left = [ m \in 1 .. c |-> jobs[f[m]] ]

LEMMA WithoutPicks ==
    ASSUME NEW X, NEW jobs \in Seq(X), NEW id
    PROVE  Filtered(jobs, id, Without(jobs, id))
<1> DEFINE kept == { n \in DOMAIN jobs : jobs[n] # id }
           rank(n) == Cardinality({ k \in kept : k <= n })
           nth(m) == CHOOSE n \in kept : rank(n) = m
           c == Cardinality(kept)
           f == [ m \in 1 .. c |-> nth(m) ]
<1>1. kept \subseteq 1 .. Len(jobs) /\ Len(jobs) \in Nat
  OBVIOUS
<1>w. Without(jobs, id) = [ m \in 1 .. c |-> jobs[nth(m)] ]
  BY DEF Without
<1> HIDE DEF kept
<1>2. /\ c \in Nat
      /\ \A n \in kept : rank(n) \in 1 .. c
      /\ \A n, k \in kept : n < k => rank(n) < rank(k)
      /\ \A m \in 1 .. c : \E n \in kept : rank(n) = m
  BY <1>1, Numbering
<1> HIDE DEF rank, c
<1>3. \A m \in 1 .. c : nth(m) \in kept /\ rank(nth(m)) = m
  BY <1>2
<1> HIDE DEF nth
<1>4. \A n, k \in kept : rank(n) = rank(k) => n = k
  <2> SUFFICES ASSUME NEW n \in kept, NEW k \in kept, n # k PROVE rank(n) # rank(k)
    OBVIOUS
  <2>1. n < k \/ k < n
    BY <1>1
  <2>2. rank(n) \in Nat /\ rank(k) \in Nat
    BY <1>2
  <2> QED BY <1>2, <2>1, <2>2
<1>5. f \in [ 1 .. c -> kept ]
  BY <1>3
<1>6. ASSUME NEW m \in 1 .. c, NEW n \in 1 .. c, m < n PROVE f[m] < f[n]
  <2>1. /\ f[m] \in kept /\ f[n] \in kept
        /\ rank(f[m]) = m /\ rank(f[n]) = n
    BY <1>3
  <2> HIDE DEF f
  <2>k. \A x \in kept : x \in Nat
    BY <1>1
  <2>2. f[m] \in Nat /\ f[n] \in Nat
    BY <2>1, <2>k
  <2>3. f[n] < f[m] => n < m
    BY <1>2, <2>1
  <2>4. f[n] # f[m]
    BY <1>6, <2>1
  <2> QED BY <1>6, <2>2, <2>3, <2>4
<1>7. \A k \in kept : \E m \in 1 .. c : f[m] = k
  <2> SUFFICES ASSUME NEW k \in kept PROVE f[rank(k)] = k /\ rank(k) \in 1 .. c
    OBVIOUS
  <2> QED BY <1>2, <1>3, <1>4
<1>8. Picks(f, c, kept)
  BY <1>5, <1>6, <1>7 DEF Picks
<1>9. Without(jobs, id) = [ m \in 1 .. c |-> jobs[f[m]] ]
  BY <1>w
<1> HIDE DEF f
<1> QED
  BY <1>2, <1>8, <1>9 DEF kept, Filtered

LEMMA WithoutKeeps ==
    ASSUME NEW X, NEW jobs \in Seq(X), NEW id
    PROVE  /\ Without(jobs, id) \in Seq(X)
           /\ ToSet(Without(jobs, id)) = ToSet(jobs) \ {id}
           /\ \A j : Once(jobs, j) => Once(Without(jobs, id), j)
           /\ \A a, b : a # id /\ b # id =>
                (Before(Without(jobs, id), a, b) <=> Before(jobs, a, b))
<1> DEFINE kept == { n \in DOMAIN jobs : jobs[n] # id }
           w == Without(jobs, id)
<1>0. Filtered(jobs, id, w)
  BY WithoutPicks
<1>1. PICK c \in Nat : \E f : Picks(f, c, kept) /\ w = [ m \in 1 .. c |-> jobs[f[m]] ]
  BY <1>0, Zenon DEF Filtered
<1>2. PICK f : Picks(f, c, kept) /\ w = [ m \in 1 .. c |-> jobs[f[m]] ]
  BY <1>1
<1>3. DOMAIN jobs = 1 .. Len(jobs) /\ Len(jobs) \in Nat /\ \A n \in DOMAIN jobs : jobs[n] \in X
  OBVIOUS
<1>4. kept \subseteq DOMAIN jobs /\ \A n \in DOMAIN jobs : n \in kept <=> jobs[n] # id
  OBVIOUS
<1> HIDE DEF kept, w
<1>5. /\ DOMAIN w = 1 .. c
      /\ \A m \in 1 .. c : w[m] = jobs[f[m]] /\ f[m] \in kept /\ f[m] \in DOMAIN jobs
  BY <1>2, <1>4 DEF Picks
<1>6. w \in Seq(X)
  BY <1>2, <1>3, <1>5
<1>7. ToSet(w) = ToSet(jobs) \ {id}
  <2>1. ASSUME NEW x \in ToSet(w) PROVE x \in ToSet(jobs) /\ x # id
    <3>1. PICK m \in 1 .. c : x = w[m]
      BY <1>5 DEF ToSet
    <3> QED BY <1>4, <1>5, <3>1 DEF ToSet
  <2>2. ASSUME NEW x \in ToSet(jobs), x # id PROVE x \in ToSet(w)
    <3>1. PICK n \in DOMAIN jobs : x = jobs[n]
      BY DEF ToSet
    <3>2. n \in kept
      BY <1>4, <2>2, <3>1
    <3>3. PICK m \in 1 .. c : f[m] = n
      BY <1>2, <3>2 DEF Picks
    <3> QED BY <1>5, <3>1, <3>3 DEF ToSet
  <2> QED BY <2>1, <2>2
<1>m. \A m, n \in 1 .. c : f[m] = f[n] => m = n
  <2> SUFFICES ASSUME NEW m \in 1 .. c, NEW n \in 1 .. c, m # n PROVE f[m] # f[n]
    OBVIOUS
  <2>1. m < n \/ n < m
    OBVIOUS
  <2>2. f[m] \in Nat /\ f[n] \in Nat
    BY <1>3, <1>5
  <2>3. f[m] < f[n] \/ f[n] < f[m]
    BY <1>2, <2>1 DEF Picks
  <2> QED BY <2>2, <2>3
<1>8. ASSUME NEW j, Once(jobs, j) PROVE Once(w, j)
  BY <1>5, <1>8, <1>m DEF Once
<1>9. ASSUME NEW a, NEW b, a # id, b # id
      PROVE  Before(w, a, b) <=> Before(jobs, a, b)
  <2>1. ASSUME Before(w, a, b) PROVE Before(jobs, a, b)
    <3>1. PICK m, n \in 1 .. c : m < n /\ w[m] = a /\ w[n] = b
      BY <1>5, <2>1 DEF Before
    <3>2. f[m] < f[n]
      BY <1>2, <3>1 DEF Picks
    <3> QED BY <1>5, <3>1, <3>2 DEF Before
  <2>2. ASSUME Before(jobs, a, b) PROVE Before(w, a, b)
    <3>1. PICK p, q \in DOMAIN jobs : p < q /\ jobs[p] = a /\ jobs[q] = b
      BY <2>2 DEF Before
    <3>2. p \in kept /\ q \in kept
      BY <1>4, <1>9, <3>1
    <3>3. PICK m \in 1 .. c : f[m] = p
      BY <1>2, <3>2 DEF Picks
    <3>4. PICK n \in 1 .. c : f[n] = q
      BY <1>2, <3>2 DEF Picks
    <3>5. ~(n <= m)
      <4>1. n < m => f[n] < f[m]
        BY <1>2 DEF Picks
      <4>2. p \in Nat /\ q \in Nat /\ p < q
        BY <1>3, <3>1
      <4> QED BY <3>3, <3>4, <4>1, <4>2
    <3>6. m < n
      BY <3>5
    <3> QED BY <1>5, <3>1, <3>3, <3>4, <3>6 DEF Before
  <2> QED BY <2>1, <2>2
<1> QED
  BY <1>6, <1>7, <1>8, <1>9 DEF w

LEMMA InFront ==
    ASSUME NEW X, NEW jobs \in Seq(X), NEW j \in X
    PROVE  LET more == <<j>> \o jobs
           IN  /\ more \in Seq(X)
               /\ ToSet(more) = {j} \cup ToSet(jobs)
               /\ \A k : k # j /\ Once(jobs, k) => Once(more, k)
               /\ j \notin ToSet(jobs) => Once(more, j)
               /\ \A a, b : Before(more, a, b) <=>
                    Before(jobs, a, b) \/ (a = j /\ b \in ToSet(jobs))
<1> DEFINE more == <<j>> \o jobs
<1>1. /\ more \in Seq(X)
      /\ DOMAIN jobs = 1 .. Len(jobs) /\ Len(jobs) \in Nat
      /\ DOMAIN more = 1 .. Len(jobs) + 1
      /\ more[1] = j
      /\ \A n \in 1 .. Len(jobs) : more[n + 1] = jobs[n]
  OBVIOUS
<1> HIDE DEF more
<1>2. \A n \in DOMAIN more : n = 1 \/ (n - 1 \in DOMAIN jobs /\ more[n] = jobs[n - 1])
  BY <1>1
<1>3. \A n \in DOMAIN jobs : n + 1 \in DOMAIN more /\ more[n + 1] = jobs[n]
  BY <1>1
<1>4. ToSet(more) = {j} \cup ToSet(jobs)
  <2>1. ASSUME NEW x \in ToSet(more) PROVE x = j \/ x \in ToSet(jobs)
    BY <1>1, <1>2 DEF ToSet
  <2>2. j \in ToSet(more)
    <3>1. 1 \in DOMAIN more
      BY <1>1
    <3> QED BY <1>1, <3>1 DEF ToSet
  <2>3. ASSUME NEW x \in ToSet(jobs) PROVE x \in ToSet(more)
    BY <1>3 DEF ToSet
  <2> QED BY <2>1, <2>2, <2>3
<1>5. ASSUME NEW k, k # j, Once(jobs, k) PROVE Once(more, k)
  <2> SUFFICES ASSUME NEW m \in DOMAIN more, NEW n \in DOMAIN more,
                      more[m] = k, more[n] = k
               PROVE  m = n
    BY DEF Once
  <2>1. m - 1 = n - 1
    BY <1>1, <1>2, <1>5 DEF Once
  <2> QED BY <1>1, <2>1
<1>6. ASSUME j \notin ToSet(jobs) PROVE Once(more, j)
  <2>1. \A n \in DOMAIN more : more[n] = j => n = 1
    BY <1>2, <1>6 DEF ToSet
  <2> QED BY <2>1 DEF Once
<1>7. ASSUME NEW a, NEW b
      PROVE  Before(more, a, b) <=> Before(jobs, a, b) \/ (a = j /\ b \in ToSet(jobs))
  <2>1. ASSUME Before(more, a, b) PROVE Before(jobs, a, b) \/ (a = j /\ b \in ToSet(jobs))
    <3>1. PICK m, n \in DOMAIN more : m < n /\ more[m] = a /\ more[n] = b
      BY <2>1 DEF Before
    <3>2. n # 1 /\ m \in Nat /\ n \in Nat
      BY <1>1, <3>1
    <3>3. n - 1 \in DOMAIN jobs /\ b = jobs[n - 1] /\ b \in ToSet(jobs)
      BY <1>2, <3>1, <3>2 DEF ToSet
    <3>4. CASE m = 1
      BY <1>1, <3>1, <3>3, <3>4
    <3>5. CASE m # 1
      <4>1. m - 1 \in DOMAIN jobs /\ a = jobs[m - 1]
        BY <1>2, <3>1, <3>5
      <4>2. m - 1 < n - 1
        BY <3>1, <3>2
      <4> QED BY <3>3, <4>1, <4>2 DEF Before
    <3> QED BY <3>4, <3>5
  <2>2. ASSUME Before(jobs, a, b) PROVE Before(more, a, b)
    <3>1. PICK m, n \in DOMAIN jobs : m < n /\ jobs[m] = a /\ jobs[n] = b
      BY <2>2 DEF Before
    <3>2. m + 1 < n + 1
      BY <1>1, <3>1
    <3> QED BY <1>3, <3>1, <3>2 DEF Before
  <2>3. ASSUME a = j, b \in ToSet(jobs) PROVE Before(more, a, b)
    <3>1. PICK n \in DOMAIN jobs : jobs[n] = b
      BY <2>3 DEF ToSet
    <3>2. 1 < n + 1 /\ 1 \in DOMAIN more
      BY <1>1, <3>1
    <3> QED BY <1>1, <1>3, <2>3, <3>1, <3>2 DEF Before
  <2> QED BY <2>1, <2>2, <2>3
<1> QED
  BY <1>1, <1>4, <1>5, <1>6, <1>7 DEF more

-----------------------------------------------------------------------------
(* When a list kept by hand is right.  `here' is the page's list, `there'    *)
(* the server's; H are the jobs all of whose changes the page could hear of, *)
(* C and D those whose create or delete has been done with its answer on its *)
(* way, A those whose delete was asked for.                                  *)

\* An answer to the reading of the list.
AnswerOK(data, there, H) ==
    /\ \A j \in H : /\ Once(data, j)
                    /\ j \in ToSet(data) <=> j \in ToSet(there)
    /\ \A a, b \in H : Before(data, a, b) <=> Before(there, a, b)

\* Besides being right, the list has nothing of a create that is on its way,
\* and the created job comes before all it will be put in front of.
ListOK(here, there, H, C, D, A) ==
    /\ D \subseteq A
    /\ \A j \in H : /\ Once(here, j)
                    /\ j \in ToSet(there) <=> (j \in ToSet(here) /\ j \notin D) \/ j \in C
    /\ \A a, b \in H \ (C \cup D) : Before(here, a, b) <=> Before(there, a, b)
    /\ \A j \in C : j \notin ToSet(here) /\ j \notin A
    /\ \A j \in C \cap H : \A b \in H :
          b \in ToSet(here) /\ b \in ToSet(there) => Before(there, j, b)

\* Who comes before another is in the list, and only one of two comes first.
LEMMA Order ==
    ASSUME NEW X, NEW jobs \in Seq(X)
    PROVE  /\ \A a, b : Before(jobs, a, b) => a \in ToSet(jobs) /\ b \in ToSet(jobs)
           /\ \A a, b : Before(jobs, a, b) /\ Once(jobs, a) /\ Once(jobs, b)
                => a # b /\ ~Before(jobs, b, a)
<1>1. \A a, b : Before(jobs, a, b) => a \in ToSet(jobs) /\ b \in ToSet(jobs)
  BY DEF Before, ToSet
<1>2. ASSUME NEW a, NEW b, Before(jobs, a, b), Once(jobs, a), Once(jobs, b)
      PROVE  a # b /\ ~Before(jobs, b, a)
  <2>1. PICK m, n \in DOMAIN jobs : m < n /\ jobs[m] = a /\ jobs[n] = b
    BY <1>2 DEF Before
  <2>2. m \in Nat /\ n \in Nat /\ \A k \in DOMAIN jobs : k \in Nat
    OBVIOUS
  <2>3. a # b
    BY <1>2, <2>1, <2>2 DEF Once
  <2>4. ASSUME Before(jobs, b, a) PROVE FALSE
    <3>1. PICK p, q \in DOMAIN jobs : p < q /\ jobs[p] = b /\ jobs[q] = a
      BY <2>4 DEF Before
    <3>2. p = n /\ q = m
      BY <1>2, <2>1, <3>1 DEF Once
    <3> QED BY <2>1, <2>2, <3>1, <3>2
  <2> QED BY <2>3, <2>4
<1> QED
  BY <1>1, <1>2

\* The server has created j, and its answer is on its way.
LEMMA ListCreated ==
    ASSUME NEW here, NEW there \in Seq(Jobs), NEW H, NEW D, NEW A, NEW j \in Jobs,
           ListOK(here, there, H, {}, D, A),
           j \notin ToSet(there), j \notin ToSet(here), j \notin A
    PROVE  ListOK(here, <<j>> \o there, H, {j}, D, A)
BY InFront DEF ListOK

\* The answer arrives: j is put in front.
LEMMA ListCreateTaken ==
    ASSUME NEW here \in Seq(Jobs), NEW there \in Seq(Jobs), NEW H, NEW D, NEW A,
           NEW j \in Jobs, ListOK(here, there, H, {j}, D, A),
           \A k : Once(there, k)
    PROVE  ListOK(<<j>> \o here, there, H, {}, D, A)
<1> DEFINE more == <<j>> \o here
<1>1. /\ ToSet(more) = {j} \cup ToSet(here)
      /\ \A k : k # j /\ Once(here, k) => Once(more, k)
      /\ Once(more, j)
      /\ \A a, b : Before(more, a, b) <=> Before(here, a, b) \/ (a = j /\ b \in ToSet(here))
  BY InFront DEF ListOK
<1> HIDE DEF more
<1>2. j \notin D /\ j \notin ToSet(here)
  BY DEF ListOK
<1>3. ASSUME NEW a \in H \ D, NEW b \in H \ D
      PROVE  Before(more, a, b) <=> Before(there, a, b)
  <2>1. CASE a # j /\ b # j
    BY <1>1, <2>1, <1>3 DEF ListOK
  <2>2. CASE a = j
    <3>1. ASSUME Before(there, j, b) PROVE b \in ToSet(here)
      <4>1. b \in ToSet(there) /\ b # j
        BY <3>1, Order
      <4> QED BY <1>3, <4>1 DEF ListOK
    <3>2. ASSUME b \in ToSet(here) PROVE Before(there, j, b)
      BY <1>3, <2>2, <3>2 DEF ListOK
    <3>3. ~Before(here, j, b)
      BY <1>2, Order
    <3> QED BY <1>1, <2>2, <3>1, <3>2, <3>3
  <2>3. CASE a # j /\ b = j
    <3>1. ~Before(here, a, j)
      BY <1>2, Order
    <3>2. ASSUME Before(there, a, j) PROVE FALSE
      <4>1. a \in ToSet(there) /\ ~Before(there, j, a)
        BY <3>2, Order
      <4>2. a \in ToSet(here)
        BY <1>3, <2>3, <4>1 DEF ListOK
      <4> QED BY <1>3, <2>3, <4>1, <4>2 DEF ListOK
    <3> QED BY <1>1, <2>3, <3>1, <3>2
  <2> QED BY <2>1, <2>2, <2>3
<1>4. \A k \in H : /\ Once(more, k)
                   /\ k \in ToSet(there) <=> k \in ToSet(more) /\ k \notin D
  BY <1>1, <1>2 DEF ListOK
<1>5. ListOK(more, there, H, {}, D, A)
  BY <1>3, <1>4 DEF ListOK
<1> QED
  BY <1>5 DEF more

\* The answer is lost: nobody will hear of j.
LEMMA ListCreateLost ==
    ASSUME NEW here, NEW there, NEW H, NEW D, NEW A, NEW j,
           ListOK(here, there, H, {j}, D, A)
    PROVE  ListOK(here, there, H \ {j}, {}, D, A)
BY DEF ListOK

\* The delete of d is asked for, is done, is answered; or its answer is lost.
LEMMA ListDeleteAsked ==
    ASSUME NEW here, NEW there, NEW H, NEW C, NEW D, NEW A, NEW d,
           ListOK(here, there, H, C, D, A), d \in ToSet(here)
    PROVE  ListOK(here, there, H, C, D, A \cup {d})
BY DEF ListOK

LEMMA ListDeleted ==
    ASSUME NEW here, NEW there \in Seq(Jobs), NEW H, NEW C, NEW D, NEW A, NEW d \in A,
           ListOK(here, there, H, C, D, A)
    PROVE  ListOK(here, Without(there, d), H, C, D \cup {d}, A)
<1> DEFINE left == Without(there, d)
<1>1. /\ ToSet(left) = ToSet(there) \ {d}
      /\ \A a, b : a # d /\ b # d => (Before(left, a, b) <=> Before(there, a, b))
  BY WithoutKeeps
<1>2. d \notin C
  BY DEF ListOK
<1> HIDE DEF left
<1>3. ListOK(here, left, H, C, D \cup {d}, A)
  BY <1>1, <1>2 DEF ListOK
<1> QED
  BY <1>3 DEF left

LEMMA ListDeleteTaken ==
    ASSUME NEW here \in Seq(Jobs), NEW there \in Seq(Jobs), NEW H, NEW C, NEW D, NEW A,
           NEW d \in D, NEW D2, NEW A2, D \ {d} \subseteq D2, D2 \subseteq D,
           D2 \subseteq A2, A2 \subseteq A,
           ListOK(here, there, H, C, D, A)
    PROVE  ListOK(Without(here, d), there, H, C, D2, A2)
<1> DEFINE left == Without(here, d)
<1>1. /\ ToSet(left) = ToSet(here) \ {d}
      /\ \A k : Once(here, k) => Once(left, k)
      /\ left \in Seq(Jobs)
      /\ \A a, b : a # d /\ b # d => (Before(left, a, b) <=> Before(here, a, b))
  BY WithoutKeeps
<1>2. d \notin C /\ (d \in H => d \notin ToSet(there))
  BY DEF ListOK
<1> HIDE DEF left
<1>3. d \notin ToSet(left)
  BY <1>1
<1>4. ASSUME NEW a \in H \ (C \cup D2), NEW b \in H \ (C \cup D2)
      PROVE  Before(left, a, b) <=> Before(there, a, b)
  <2>1. CASE a # d /\ b # d
    BY <1>1, <1>4, <2>1 DEF ListOK
  <2>2. CASE a = d \/ b = d
    BY <1>1, <1>2, <1>3, <1>4, <2>2, Order
  <2> QED BY <2>1, <2>2
<1>5. ListOK(left, there, H, C, D2, A2)
  BY <1>1, <1>2, <1>4 DEF ListOK
<1> QED
  BY <1>5 DEF left

LEMMA ListDeleteLost ==
    ASSUME NEW here, NEW there, NEW H, NEW C, NEW D, NEW A,
           NEW d, NEW D2, D \ {d} \subseteq D2, D2 \subseteq D,
           ListOK(here, there, H, C, D, A)
    PROVE  ListOK(here, there, H \ {d}, C, D2, A)
BY DEF ListOK

\* A request that failed is no longer asked for.
LEMMA ListRefused ==
    ASSUME NEW here, NEW there, NEW H, NEW C, NEW D, NEW A, NEW A2,
           D \subseteq A2, A2 \subseteq A, ListOK(here, there, H, C, D, A)
    PROVE  ListOK(here, there, H, C, D, A2)
BY DEF ListOK

\* Nobody heard of a job that was created or deleted elsewhere.
LEMMA ListElsewhere ==
    ASSUME NEW here, NEW there \in Seq(Jobs), NEW more \in Seq(Jobs),
           NEW H, NEW C, NEW D, NEW A, NEW j \in Jobs,
           more = <<j>> \o there \/ more = Without(there, j)
    PROVE  /\ ListOK(here, there, H, C, D, A) => ListOK(here, more, H \ {j}, C, D, A)
           /\ AnswerOK(here, there, H) => AnswerOK(here, more, H \ {j})
<1>1. /\ \A k : k # j => (k \in ToSet(more) <=> k \in ToSet(there))
      /\ \A a, b : a # j /\ b # j => (Before(more, a, b) <=> Before(there, a, b))
  <2>1. CASE more = <<j>> \o there
    <3> DEFINE front == <<j>> \o there
    <3>1. /\ ToSet(front) = {j} \cup ToSet(there)
          /\ \A a, b : Before(front, a, b) <=>
               Before(there, a, b) \/ (a = j /\ b \in ToSet(there))
      BY InFront
    <3>2. more = front
      BY <2>1
    <3> HIDE DEF front
    <3> QED BY <3>1, <3>2
  <2>2. CASE more = Without(there, j)
    BY <2>2, WithoutKeeps
  <2> QED BY <2>1, <2>2
<1>2. ListOK(here, there, H, C, D, A) => ListOK(here, more, H \ {j}, C, D, A)
  BY <1>1 DEF ListOK
<1>3. AnswerOK(here, there, H) => AnswerOK(here, more, H \ {j})
  BY <1>1 DEF AnswerOK
<1> QED
  BY <1>2, <1>3

\* The list is read, or the reading fails: then nothing is known of any job.
LEMMA ListTaken ==
    ASSUME NEW data, NEW there, NEW H, AnswerOK(data, there, H)
    PROVE  ListOK(data, there, H, {}, {}, {})
BY DEF AnswerOK, ListOK

LEMMA ListNotTaken ==
    ASSUME NEW there, NEW H, \A j \in H : j \notin ToSet(there)
    PROVE  ListOK(<<>>, there, H, {}, {}, {})
<1>1. \A j : j \notin ToSet(<<>>) /\ Once(<<>>, j)
  BY DEF ToSet, Once
<1>2. \A a, b : ~Before(<<>>, a, b) /\ (Before(there, a, b) => a \in ToSet(there))
  BY DEF Before, ToSet
<1> QED
  BY <1>1, <1>2 DEF ListOK

-----------------------------------------------------------------------------
(* The invariant of the lists and the panels.  Who is in them has been given *)
(* an id, which is given once; what a call asks for and what it was answered *)
(* has the shape that its handler expects.                                   *)

RowsInv ==
    /\ rows \in Seq(Jobs) /\ used \subseteq Jobs /\ ToSet(rows) \subseteq used
    /\ \A j : Once(rows, j)
    /\ history \in [ Jobs -> Seq(Outcomes) ]

CallKnown(c, ids) ==
    /\ c.kind = "jobs.list" /\ c.st = "done" =>
          c.data \in Seq(Jobs) /\ ToSet(c.data) \subseteq ids
    /\ c.kind \in { "jobs.delete", "jobs.executions" } => c.arg \in ids
    /\ c.kind = "jobs.create" /\ c.st = "done" => \E j \in ids : c.data = <<j>>
    /\ c.kind = "jobs.executions" /\ c.st = "done" => c.data \in Seq(Outcomes)

CallsKnown == \A i \in Slots : CallKnown(calls[i], used)

PageInv ==
    /\ ui.jobs \in Seq(Jobs) /\ ToSet(ui.jobs) \subseteq used
    /\ ui.executions \in [ Jobs -> Seq(Outcomes) \cup {Nil} ]
    /\ \A j \in Jobs : ui.executions[j] # Nil => j \in used
    /\ ui.expandedJob \in Jobs \cup {Nil}
    /\ DOMAIN ghost = { "early", "unseen", "missed" }
    /\ ghost.early \in BOOLEAN /\ ghost.missed \in BOOLEAN

\* What a panel shows, or will show, is the end of its job's history.
Asks(c, j) == c.kind = "jobs.executions" /\ c.arg = j

ShownInv == \A j \in ToSet(rows) :
    /\ ui.executions[j] # Nil => IsSuffix(ui.executions[j], history[j])
    /\ \A i \in Slots : Asks(calls[i], j) /\ calls[i].st = "done"
          => IsSuffix(calls[i].data, history[j])

\* A panel without a history waits for it, or has missed it.
WaitsInv == ui.open = TRUE => \A j \in Jobs :
    ui.expandedJob = j /\ ui.executions[j] = Nil =>
       ghost.missed = TRUE \/ \E i \in Slots : Asks(calls[i], j)

\* The list, before it was read and afterwards.
CreatedBy(cs) == { j \in Jobs : \E i \in Slots :
    cs[i].kind = "jobs.create" /\ cs[i].st = "done" /\ cs[i].data = <<j>> }
DeletedBy(cs) == { j \in Jobs : \E i \in Slots :
    cs[i].kind = "jobs.delete" /\ cs[i].st = "done" /\ cs[i].arg = j }
AskedBy(cs) == { j \in Jobs : \E i \in Slots :
    cs[i].kind = "jobs.delete" /\ cs[i].arg = j }

OneList == \A i, k \in Slots :
    calls[i].kind = "jobs.list" /\ calls[k].kind = "jobs.list" => i = k

Reading == \E i \in Slots : calls[i].kind = "jobs.list"
Trusted == ui.open = TRUE /\ ghost.early = FALSE
Heard   == Jobs \ ghost.unseen

UnreadInv == Trusted /\ Reading =>
    /\ ui.jobs = <<>>
    /\ \A i \in Slots : /\ calls[i].kind \notin { "jobs.create", "jobs.delete" }
                        /\ calls[i].kind = "jobs.list" /\ calls[i].st = "done"
                             => AnswerOK(calls[i].data, rows, Heard)

ReadInv == Trusted /\ ~Reading =>
    ListOK(ui.jobs, rows, Heard, CreatedBy(calls), DeletedBy(calls), AskedBy(calls))

KnownInv == RowsInv /\ CallsKnown /\ PageInv
PanelsInv == ShownInv /\ WaitsInv
ListInv == OneList /\ UnreadInv /\ ReadInv

TruthInv == IInv /\ KnownInv /\ PanelsInv /\ ListInv

-----------------------------------------------------------------------------
(* What a step does to the table, once more, with the answers.               *)

LEMMA NewCall ==
    ASSUME CallsInv, NEW kind, NEW arg, kind # Nil, CanCall(calls),
           calls' = call(calls, kind, arg)
    PROVE  \E n \in Slots : Called(n, kind, arg) /\ calls'[n].st = "sent"
<1> DEFINE n == CHOOSE k \in Slots : calls[k].st = "idle"
<1>1. n \in Slots /\ calls[n].st = "idle"
  BY DEF CanCall
<1>2. calls' = [ calls EXCEPT ![n] =
                   [ kind |-> kind, arg |-> arg, st |-> "sent", data |-> Nil ] ]
  BY DEF call
<1> HIDE DEF n
<1> QED
  BY <1>1, <1>2 DEF CallsInv, Called

Turned(i, st) ==
    /\ calls'[i].kind = calls[i].kind /\ calls'[i].arg = calls[i].arg
    /\ calls'[i].st = st
    /\ \A k \in Slots \ {i} : calls'[k] = calls[k]

LEMMA Resolved ==
    ASSUME CallsInv, NEW i \in Slots, NEW data, calls' = Resolve(calls, i, data)
    PROVE  Turned(i, "done") /\ calls'[i].data = data
<1>1. calls' = [ calls EXCEPT ![i].st = "done", ![i].data = data ]
  BY DEF Resolve
<1> QED
  BY <1>1 DEF CallsInv, Turned

LEMMA Thrown ==
    ASSUME CallsInv, NEW i \in Slots, calls' = Throw(calls, i)
    PROVE  Turned(i, "failed")
<1>1. calls' = [ calls EXCEPT ![i].st = "failed", ![i].data = Nil ]
  BY DEF Throw
<1> QED
  BY <1>1 DEF CallsInv, Turned

Settled(i) ==
    /\ calls'[i].kind = Nil /\ \A k \in Slots \ {i} : calls'[k] = calls[k]

LEMMA Freed ==
    ASSUME CallsInv, NEW i \in Slots, calls' = Settle(calls, i)
    PROVE  Settled(i)
BY SettleFreesSlot DEF Settled

LEMMA KnownStays == \A c, ids, more : CallKnown(c, ids) /\ ids \subseteq more => CallKnown(c, more)
BY DEF CallKnown

\* The end of a history is the end of a longer one.
LEMMA SuffixOfItself ==
    ASSUME NEW X, NEW s \in Seq(X)
    PROVE  IsSuffix(s, s)
BY DEF IsSuffix, IsPrefix, Reverse

LEMMA SuffixOfLonger ==
    ASSUME NEW X, NEW s \in Seq(X), NEW t \in Seq(X), NEW x \in X, IsSuffix(s, t),
           NEW u, u = <<x>> \o t
    PROVE  IsSuffix(s, u)
<1> DEFINE n == Len(s)
<1>1. /\ u \in Seq(X) /\ Len(u) = Len(t) + 1
      /\ \A k \in 1 .. Len(t) : u[k + 1] = t[k]
  OBVIOUS
<1>2. /\ Reverse(s) \in Seq(X) /\ Reverse(t) \in Seq(X) /\ Reverse(u) \in Seq(X)
      /\ Len(Reverse(s)) = n /\ Len(Reverse(t)) = Len(t) /\ Len(Reverse(u)) = Len(t) + 1
  BY <1>1 DEF Reverse
<1>3. n \in Nat /\ Len(t) \in Nat /\ n <= Len(t)
  BY <1>2 DEF IsSuffix, IsPrefix
<1>4. \A k \in 1 .. Len(t) : Reverse(u)[k] = Reverse(t)[k]
  <2> SUFFICES ASSUME NEW k \in 1 .. Len(t) PROVE u[Len(t) + 1 - k + 1] = t[Len(t) - k + 1]
    BY <1>1, <1>3 DEF Reverse
  <2>1. Len(t) - k + 1 \in 1 .. Len(t)
    BY <1>3
  <2>2. Len(t) + 1 - k + 1 = (Len(t) - k + 1) + 1
    BY <1>3
  <2> QED BY <1>1, <2>1, <2>2
<1>5. SubSeq(Reverse(u), 1, n) = SubSeq(Reverse(t), 1, n)
  <2> DEFINE a == SubSeq(Reverse(u), 1, n)
             b == SubSeq(Reverse(t), 1, n)
  <2>1. \A k \in 1 .. n : k \in 1 .. Len(t) /\ k \in 1 .. Len(t) + 1
    BY <1>3
  <2>2. \A k \in 1 .. n : Reverse(u)[k] \in X /\ Reverse(t)[k] \in X
    BY <1>2, <2>1
  <2>3. /\ a \in Seq(X) /\ Len(a) = IF 1 <= n THEN n - 1 + 1 ELSE 0
        /\ \A k \in 1 .. n - 1 + 1 : a[k] = Reverse(u)[1 + k - 1]
    BY <1>3, <2>2, SubSeqProperties
  <2>4. /\ b \in Seq(X) /\ Len(b) = IF 1 <= n THEN n - 1 + 1 ELSE 0
        /\ \A k \in 1 .. n - 1 + 1 : b[k] = Reverse(t)[1 + k - 1]
    BY <1>3, <2>2, SubSeqProperties
  <2> HIDE DEF a, b
  <2>5. ASSUME NEW k \in 1 .. n PROVE a[k] = b[k]
    <3>1. k \in 1 .. n - 1 + 1 /\ 1 + k - 1 = k
      BY <1>3
    <3> QED BY <1>4, <2>1, <2>3, <2>4, <3>1
  <2>6. Len(a) = n /\ Len(b) = n
    BY <1>3, <2>3, <2>4
  <2> QED BY <2>3, <2>4, <2>5, <2>6, SeqEqual DEF a, b
<1>6. IsPrefix(Reverse(s), Reverse(u))
  <2>1. SubSeq(Reverse(s), 1, n) = SubSeq(Reverse(t), 1, n)
    BY <1>2, Zenon DEF IsSuffix, IsPrefix
  <2>2. SubSeq(Reverse(s), 1, n) = SubSeq(Reverse(u), 1, n)
    BY <1>5, <2>1, Zenon
  <2>3. Len(Reverse(s)) <= Len(Reverse(u))
    BY <1>2, <1>3
  <2> QED BY <1>2, <2>2, <2>3, Zenon DEF IsPrefix
<1> QED
  BY <1>6 DEF IsSuffix

-----------------------------------------------------------------------------
(* What a step leaves alone. *)

\* A call that neither reads nor changes the list.
Aside(c) == c.kind \notin { "jobs.list", "jobs.create", "jobs.delete" }

LEMMA SetsStay ==
    ASSUME NEW cs, NEW ds,
           \A k \in Slots : ds[k] = cs[k] \/ (Aside(cs[k]) /\ Aside(ds[k]))
    PROVE  /\ CreatedBy(ds) = CreatedBy(cs) /\ DeletedBy(ds) = DeletedBy(cs)
           /\ AskedBy(ds) = AskedBy(cs)
BY DEF Aside, CreatedBy, DeletedBy, AskedBy

LEMMA ListStays ==
    ASSUME ListInv, ui'.open = ui.open, ui'.jobs = ui.jobs, rows' = rows,
           ghost'.early = ghost.early, ghost'.unseen = ghost.unseen,
           \A k \in Slots : \/ calls'[k] = calls[k]
                            \/ Aside(calls[k]) /\ Aside(calls'[k])
    PROVE  ListInv'
<1>1. OneList' /\ (Reading' <=> Reading)
  BY DEF ListInv, OneList, Reading, Aside
<1>2. Heard' = Heard /\ (Trusted' <=> Trusted)
  BY DEF Heard, Trusted
<1>3. /\ CreatedBy(calls') = CreatedBy(calls) /\ DeletedBy(calls') = DeletedBy(calls)
      /\ AskedBy(calls') = AskedBy(calls)
  BY SetsStay
<1>4. ReadInv'
  BY <1>1, <1>2, <1>3 DEF ListInv, ReadInv
<1>5. UnreadInv'
  BY <1>1, <1>2 DEF ListInv, UnreadInv, Aside
<1> QED
  BY <1>1, <1>4, <1>5 DEF ListInv

LEMMA PanelsStay ==
    ASSUME PanelsInv, ui'.open = ui.open, ui'.executions = ui.executions,
           ui'.expandedJob = ui.expandedJob, ghost'.missed = ghost.missed,
           \A j \in ToSet(rows') : j \in ToSet(rows) /\ history'[j] = history[j],
           \A k \in Slots :
               /\ calls[k].kind = "jobs.executions" =>
                    /\ calls'[k].kind = "jobs.executions" /\ calls'[k].arg = calls[k].arg
               /\ calls'[k].kind = "jobs.executions" /\ calls'[k].st = "done" =>
                    calls'[k] = calls[k]
    PROVE  PanelsInv'
<1>1. ShownInv'
  BY DEF PanelsInv, ShownInv, Asks
<1>2. WaitsInv'
  BY DEF PanelsInv, WaitsInv, Asks
<1> QED
  BY <1>1, <1>2 DEF PanelsInv

LEMMA PageStays ==
    ASSUME PageInv, used \subseteq used', ui'.jobs = ui.jobs,
           ui'.executions = ui.executions, ui'.expandedJob = ui.expandedJob,
           ghost' = ghost
    PROVE  PageInv'
BY DEF PageInv

LEMMA RowsStay ==
    ASSUME RowsInv, rows' = rows, used' = used, history' = history
    PROVE  RowsInv'
BY DEF RowsInv

\* A call that asks for a job that is there, or for nothing.
LEMMA CallsKnownCalled ==
    ASSUME CallsKnown, used' = used, NEW kind, NEW arg, NEW n,
           Called(n, kind, arg), calls'[n].st = "sent",
           kind \in { "jobs.delete", "jobs.executions" } => arg \in used
    PROVE  CallsKnown'
<1>1. CallKnown(calls'[n], used)
  BY DEF Called, CallKnown
<1> QED
  BY <1>1 DEF CallsKnown, Called

LEMMA CallsKnownTurned ==
    ASSUME CallsKnown, used \subseteq used', NEW i \in Slots, NEW st, Turned(i, st),
           CallKnown(calls'[i], used')
    PROVE  CallsKnown'
BY KnownStays DEF CallsKnown, Turned

LEMMA CallsKnownThrown ==
    ASSUME CallsKnown, used' = used, NEW i \in Slots, Turned(i, "failed")
    PROVE  CallsKnown'
<1>1. CallKnown(calls'[i], used')
  BY DEF CallsKnown, CallKnown, Turned
<1> QED
  BY <1>1, CallsKnownTurned

LEMMA CallsKnownSettled ==
    ASSUME CallsKnown, used' = used, NEW i \in Slots, Settled(i)
    PROVE  CallsKnown'
<1>1. CallKnown(calls'[i], used')
  BY NilIsNoEndpoint DEF CallKnown, Settled
<1> QED
  BY <1>1 DEF CallsKnown, Settled

-----------------------------------------------------------------------------
\* No page, and as many jobs as there may be.
LEMMA InitTruth == Init => KnownInv /\ PanelsInv /\ ListInv
<1> SUFFICES ASSUME Init PROVE KnownInv /\ PanelsInv /\ ListInv
  OBVIOUS
<1>1. /\ ui.open = FALSE /\ ui.jobs = <<>> /\ ui.expandedJob = Nil
      /\ ui.executions = [ j \in Jobs |-> Nil ]
      /\ \A i \in Slots : calls[i].kind = Nil
      /\ ghost = NoGhost
  BY DEF Init, Closed, Fresh, NoCalls, IdleCall
<1>2. PICK J \in SUBSET Jobs : rows \in SetToSeqs(J) /\ used = J
  BY DEF Init
<1>3. rows \in Seq(J) /\ ToSet(rows) \subseteq J /\ \A j : Once(rows, j)
  <2>1. /\ rows \in [ 1 .. Cardinality(J) -> J ]
        /\ \A m, n \in DOMAIN rows : m # n => rows[m] # rows[n]
    BY <1>2 DEF SetToSeqs, IsInjective
  <2>2. Cardinality(J) \in Nat
    BY JobsAssumption, FS_Subset, FS_CardinalityType
  <2>3. rows \in Seq(J)
    BY <2>1, <2>2
  <2>4. ToSet(rows) \subseteq J
    BY <2>1 DEF ToSet
  <2>5. \A j : Once(rows, j)
    BY <2>1 DEF Once
  <2> QED BY <2>3, <2>4, <2>5
<1>4. RowsInv
  BY <1>2, <1>3 DEF RowsInv, Init
<1>5. CallsKnown
  BY <1>1, NilIsNoEndpoint DEF CallsKnown, CallKnown
<1>6. PageInv
  BY <1>1 DEF PageInv, NoGhost, ToSet
<1>7. PanelsInv
  BY <1>1, <1>2, <1>3, NilIsNoEndpoint DEF PanelsInv, ShownInv, WaitsInv, Asks
<1>8. ListInv
  BY <1>1, NilIsNoEndpoint DEF ListInv, OneList, UnreadInv, ReadInv, Trusted
<1> QED
  BY <1>4, <1>5, <1>6, <1>7, <1>8 DEF KnownInv

\* A new page knows nothing; its list is asked for.
LEMMA OpenTruth ==
    ASSUME TruthInv, OpenPage
    PROVE  KnownInv' /\ PanelsInv' /\ ListInv'
<1>1. /\ ui'.open = TRUE /\ ui'.jobs = <<>> /\ ui'.expandedJob = Nil
      /\ ui'.executions = [ j \in Jobs |-> Nil ]
      /\ rows' = rows /\ used' = used /\ history' = history /\ ghost' = ghost
  BY DEF OpenPage, Fresh
<1>2. PICK n \in Slots : Called(n, "jobs.list", Nil) /\ calls'[n].st = "sent"
  <2>1. \E n \in Slots : Called(n, "jobs.list", Nil) /\ calls'[n].st = "sent"
    BY NewCall, NilIsNoEndpoint DEF TruthInv, IInv, OpenPage
  <2> QED BY <2>1
<1>3. \A k \in Slots \ {n} : calls'[k].kind = Nil
  BY <1>2 DEF TruthInv, IInv, UiInv, OpenPage, Called
<1>4. RowsInv' /\ CallsKnown'
  BY <1>1, <1>2, RowsStay, CallsKnownCalled DEF TruthInv, KnownInv
<1>5. PageInv'
  BY <1>1 DEF TruthInv, KnownInv, PageInv, ToSet
<1>6. PanelsInv'
  BY <1>1, <1>2, <1>3, NilIsNoEndpoint, JobsAssumption
     DEF PanelsInv, ShownInv, WaitsInv, Asks, Called, TruthInv, KnownInv, RowsInv
<1>7. Reading' /\ OneList'
  BY <1>2, <1>3, NilIsNoEndpoint DEF Reading, OneList, Called
<1>8. UnreadInv'
  BY <1>1, <1>2, <1>3, NilIsNoEndpoint DEF UnreadInv, Called
<1> QED
  BY <1>4, <1>5, <1>6, <1>7, <1>8 DEF KnownInv, ListInv, ReadInv

LEMMA LeaveTruth ==
    ASSUME TruthInv, LeavePage
    PROVE  KnownInv' /\ PanelsInv' /\ ListInv'
<1>1. /\ ui'.open = FALSE /\ ui'.jobs = <<>> /\ ui'.expandedJob = Nil
      /\ ui'.executions = [ j \in Jobs |-> Nil ]
      /\ \A i \in Slots : calls'[i].kind = Nil
      /\ ghost' = NoGhost
      /\ rows' = rows /\ used' = used /\ history' = history
  BY DEF LeavePage, Closed, Fresh, NoCalls, IdleCall
<1>2. RowsInv' /\ CallsKnown'
  BY <1>1, RowsStay, NilIsNoEndpoint DEF TruthInv, KnownInv, CallsKnown, CallKnown
<1>3. PageInv'
  BY <1>1 DEF PageInv, NoGhost, ToSet
<1>4. PanelsInv'
  BY <1>1, <1>2, NilIsNoEndpoint DEF PanelsInv, ShownInv, WaitsInv, Asks, RowsInv
<1>5. ListInv'
  BY <1>1, NilIsNoEndpoint DEF ListInv, OneList, UnreadInv, ReadInv, Trusted
<1> QED
  BY <1>2, <1>3, <1>4, <1>5 DEF KnownInv

-----------------------------------------------------------------------------
\* A panel is opened or closed; its history is asked for, unless it is there.
LEMMA ToggleTruth ==
    ASSUME TruthInv, NEW j \in Jobs, toggleExecutions(j)
    PROVE  KnownInv' /\ PanelsInv' /\ ListInv'
<1>1. /\ rows' = rows /\ used' = used /\ history' = history
      /\ DOMAIN ghost' = DOMAIN ghost /\ ghost'.early = ghost.early
      /\ ghost'.unseen = ghost.unseen /\ ghost'.missed = FALSE
  BY DEF toggleExecutions, TruthInv, KnownInv, PageInv
<1>2. j \in used
  BY DEF toggleExecutions, Listed, TruthInv, KnownInv, PageInv
<1>3. /\ ui'.open = ui.open /\ ui'.jobs = ui.jobs /\ ui'.executions = ui.executions
      /\ ui'.expandedJob \in { j, Nil }
      /\ \/ calls' = calls /\ (ui'.expandedJob = j => ui.executions[j] # Nil)
         \/ CanCall(calls) /\ calls' = call(calls, "jobs.executions", j)
  <2>1. CASE ui.expandedJob = j
    <3>1. ui' = [ ui EXCEPT !.expandedJob = Nil ] /\ calls' = calls /\ Nil # j
      BY <2>1, JobsAssumption DEF toggleExecutions
    <3> QED BY <3>1 DEF TruthInv, IInv, UiInv
  <2>2. CASE ui.expandedJob # j /\ ui.executions[j] # Nil
    <3>1. ui' = [ ui EXCEPT !.expandedJob = j ] /\ calls' = calls
      BY <2>2 DEF toggleExecutions
    <3> QED BY <2>2, <3>1 DEF TruthInv, IInv, UiInv
  <2>3. CASE ui.expandedJob # j /\ ui.executions[j] = Nil
    <3>1. /\ ui' = [ ui EXCEPT !.expandedJob = j, !.loadingExecutions = j ]
          /\ CanCall(calls) /\ calls' = call(calls, "jobs.executions", j)
      BY <2>3 DEF toggleExecutions
    <3> QED BY <3>1 DEF TruthInv, IInv, UiInv
  <2> QED BY <2>1, <2>2, <2>3
<1>4. \/ calls' = calls /\ (ui'.expandedJob = j => ui.executions[j] # Nil)
      \/ \E n \in Slots : Called(n, "jobs.executions", j) /\ calls'[n].st = "sent"
  BY <1>3, NewCall, NilIsNoEndpoint DEF TruthInv, IInv
<1>5. RowsInv' /\ CallsKnown'
  <2>1. RowsInv'
    BY <1>1, RowsStay DEF TruthInv, KnownInv
  <2>2. CASE calls' = calls
    BY <1>1, <2>1, <2>2 DEF TruthInv, KnownInv, CallsKnown
  <2>3. CASE \E n \in Slots : Called(n, "jobs.executions", j) /\ calls'[n].st = "sent"
    BY <1>1, <1>2, <2>1, <2>3, CallsKnownCalled DEF TruthInv, KnownInv
  <2> QED BY <1>4, <2>2, <2>3
<1>6. PageInv'
  BY <1>1, <1>3 DEF TruthInv, KnownInv, PageInv
<1>7. ShownInv'
  BY <1>1, <1>3, <1>4 DEF TruthInv, PanelsInv, ShownInv, Called
<1>8. WaitsInv'
  <2> SUFFICES ASSUME ui'.expandedJob = j, ui'.executions[j] = Nil
               PROVE  \E i \in Slots : Asks(calls'[i], j)
    BY <1>3, JobsAssumption DEF WaitsInv
  <2> QED BY <1>3, <1>4 DEF Asks, Called
<1>9. ListInv'
  <2>1. CASE calls' = calls
    BY <1>1, <1>3, <2>1, ListStays DEF TruthInv
  <2>2. CASE \E n \in Slots : Called(n, "jobs.executions", j) /\ calls'[n].st = "sent"
    <3>1. \A k \in Slots : calls'[k] = calls[k] \/ (Aside(calls[k]) /\ Aside(calls'[k]))
      BY <2>2, NilIsNoEndpoint DEF Called, Aside
    <3> QED BY <1>1, <1>3, <3>1, ListStays DEF TruthInv
  <2> QED BY <1>4, <2>1, <2>2
<1> QED
  BY <1>5, <1>6, <1>7, <1>8, <1>9 DEF KnownInv, PanelsInv

\* Create is pressed; before the list has arrived, nothing is expected of it.
LEMMA CreateTruth ==
    ASSUME TruthInv, NEW form \in Forms, handleCreate(form)
    PROVE  KnownInv' /\ PanelsInv' /\ ListInv'
<1>1. /\ rows' = rows /\ used' = used /\ history' = history
      /\ ui'.open = ui.open /\ ui'.jobs = ui.jobs /\ ui'.executions = ui.executions
      /\ ui'.expandedJob = ui.expandedJob
  BY DEF handleCreate, TruthInv, IInv, UiInv
<1>2. RowsInv'
  BY <1>1, RowsStay DEF TruthInv, KnownInv
<1>3. CASE Undated(form)
  <2>1. calls' = calls /\ ghost' = ghost
    BY <1>3 DEF handleCreate
  <2>2. KnownInv'
    BY <1>1, <1>2, <2>1, PageStays DEF TruthInv, KnownInv, CallsKnown
  <2>3. PanelsInv'
    BY <1>1, <2>1, PanelsStay DEF TruthInv
  <2>4. ListInv'
    BY <1>1, <2>1, ListStays DEF TruthInv
  <2> QED BY <2>2, <2>3, <2>4
<1>4. CASE ~Undated(form)
  <2>1. PICK n \in Slots : Called(n, "jobs.create", Nil) /\ calls'[n].st = "sent"
    <3>1. \E n \in Slots : Called(n, "jobs.create", Nil) /\ calls'[n].st = "sent"
      BY <1>4, NewCall, NilIsNoEndpoint DEF TruthInv, IInv, handleCreate
    <3> QED BY <3>1
  <2>2. /\ DOMAIN ghost' = DOMAIN ghost /\ ghost'.early \in BOOLEAN
        /\ ghost'.missed = ghost.missed
        /\ Reading => ghost'.early = TRUE
        /\ ~Reading => ghost' = ghost
    BY <1>4 DEF handleCreate, Pending, Reading, TruthInv, KnownInv, PageInv
  <2>3. CallsKnown'
    BY <1>1, <2>1, CallsKnownCalled DEF TruthInv, KnownInv
  <2>4. PageInv'
    BY <1>1, <2>2 DEF TruthInv, KnownInv, PageInv
  <2>5. PanelsInv'
    BY <1>1, <2>1, <2>2, NilIsNoEndpoint, PanelsStay DEF TruthInv, Called
  <2>6. OneList' /\ (Reading' <=> Reading)
    BY <2>1, NilIsNoEndpoint DEF TruthInv, ListInv, OneList, Reading, Called
  <2>7. ASSUME ~Reading, Trusted' PROVE ReadInv'
    <3>1. /\ CreatedBy(calls') = CreatedBy(calls) /\ DeletedBy(calls') = DeletedBy(calls)
          /\ AskedBy(calls') = AskedBy(calls)
      BY <2>1, NilIsNoEndpoint DEF CreatedBy, DeletedBy, AskedBy, Called
    <3>2. Trusted /\ Heard' = Heard
      BY <1>1, <2>2, <2>7 DEF Trusted, Heard
    <3> QED BY <1>1, <2>7, <3>1, <3>2 DEF TruthInv, ListInv, ReadInv
  <2>8. UnreadInv' /\ ReadInv'
    BY <2>2, <2>6, <2>7 DEF UnreadInv, ReadInv, Trusted
  <2> QED BY <1>2, <2>3, <2>4, <2>5, <2>6, <2>8 DEF KnownInv, ListInv
<1> QED
  BY <1>3, <1>4

\* A listed job is to be deleted: the list has been read.
LEMMA DeleteTruth ==
    ASSUME TruthInv, NEW j \in Jobs, handleDelete(j)
    PROVE  KnownInv' /\ PanelsInv' /\ ListInv'
<1>1. /\ rows' = rows /\ used' = used /\ history' = history /\ ghost' = ghost
      /\ ui'.open = ui.open /\ ui'.jobs = ui.jobs /\ ui'.executions = ui.executions
      /\ ui'.expandedJob = ui.expandedJob
  BY DEF handleDelete, TruthInv, IInv, UiInv
<1>2. j \in ToSet(ui.jobs) /\ j \in used
  BY DEF handleDelete, DeleteEnabled, Listed, TruthInv, KnownInv, PageInv
<1>3. PICK n \in Slots : Called(n, "jobs.delete", j) /\ calls'[n].st = "sent"
  <2>1. \E n \in Slots : Called(n, "jobs.delete", j) /\ calls'[n].st = "sent"
    BY NewCall, NilIsNoEndpoint DEF TruthInv, IInv, handleDelete
  <2> QED BY <2>1
<1>4. KnownInv'
  BY <1>1, <1>2, <1>3, RowsStay, PageStays, CallsKnownCalled DEF TruthInv, KnownInv
<1>5. PanelsInv'
  BY <1>1, <1>3, NilIsNoEndpoint, PanelsStay DEF TruthInv, Called
<1>6. OneList' /\ (Reading' <=> Reading)
  BY <1>3, NilIsNoEndpoint DEF TruthInv, ListInv, OneList, Reading, Called
<1>7. Heard' = Heard /\ (Trusted' <=> Trusted)
  BY <1>1 DEF Trusted, Heard
<1>8. Trusted => ~Reading
  BY <1>2 DEF TruthInv, ListInv, UnreadInv, ToSet
<1>9. ASSUME Trusted, ~Reading PROVE ReadInv'
  <2>1. /\ CreatedBy(calls') = CreatedBy(calls) /\ DeletedBy(calls') = DeletedBy(calls)
        /\ AskedBy(calls') = AskedBy(calls) \cup {j}
    BY <1>3, NilIsNoEndpoint DEF CreatedBy, DeletedBy, AskedBy, Called
  <2>2. ListOK(ui.jobs, rows, Heard, CreatedBy(calls), DeletedBy(calls), AskedBy(calls))
    BY <1>9 DEF TruthInv, ListInv, ReadInv
  <2>3. ListOK(ui.jobs, rows, Heard, CreatedBy(calls), DeletedBy(calls),
               AskedBy(calls) \cup {j})
    BY <1>2, <2>2, ListDeleteAsked
  <2> QED BY <1>1, <1>7, <2>1, <2>3 DEF ReadInv
<1> QED
  BY <1>4, <1>5, <1>6, <1>7, <1>8, <1>9 DEF ListInv, UnreadInv, ReadInv

-----------------------------------------------------------------------------
\* The server reads the list: its answer is right when it leaves.
LEMMA ServeListTruth ==
    ASSUME TruthInv, NEW i \in Slots, ServeList(i)
    PROVE  KnownInv' /\ PanelsInv' /\ ListInv'
<1>1. /\ rows' = rows /\ used' = used /\ history' = history /\ ui' = ui
      /\ ghost' = ghost /\ calls[i].st = "sent" /\ calls[i].kind = "jobs.list"
  BY DEF ServeList
<1>2. Turned(i, "done") /\ calls'[i].data = rows
  BY Resolved DEF ServeList, TruthInv, IInv
<1>3. RowsInv' /\ PageInv'
  BY <1>1, RowsStay, PageStays DEF TruthInv, KnownInv
<1>4. CallsKnown'
  <2>1. CallKnown(calls'[i], used')
    BY <1>1, <1>2 DEF CallKnown, Turned, TruthInv, KnownInv, RowsInv
  <2> QED BY <1>1, <1>2, <2>1, CallsKnownTurned DEF TruthInv, KnownInv
<1>5. PanelsInv'
  BY <1>1, <1>2, PanelsStay DEF TruthInv, Turned
<1>6. Reading /\ Reading' /\ OneList' /\ Heard' = Heard /\ (Trusted' <=> Trusted)
  BY <1>1, <1>2 DEF TruthInv, ListInv, OneList, Reading, Turned, Trusted, Heard
<1>7. UnreadInv'
  <2>1. AnswerOK(rows, rows, Heard)
    BY DEF AnswerOK, TruthInv, KnownInv, RowsInv
  <2> QED BY <1>1, <1>2, <1>6, <2>1 DEF UnreadInv, TruthInv, ListInv, Turned
<1> QED
  BY <1>3, <1>4, <1>5, <1>6, <1>7 DEF KnownInv, ListInv, ReadInv

LEMMA ServeExecutionsTruth ==
    ASSUME TruthInv, NEW i \in Slots, ServeExecutions(i)
    PROVE  KnownInv' /\ PanelsInv' /\ ListInv'
<1>1. /\ rows' = rows /\ used' = used /\ history' = history /\ ui' = ui
      /\ ghost' = ghost /\ calls[i].kind = "jobs.executions"
      /\ calls[i].arg \in ToSet(rows)
  BY DEF ServeExecutions
<1>2. Turned(i, "done") /\ calls'[i].data = history[calls[i].arg]
  BY Resolved DEF ServeExecutions, TruthInv, IInv
<1>3. /\ calls[i].arg \in Jobs /\ history[calls[i].arg] \in Seq(Outcomes)
      /\ calls[i].arg \in used
  BY <1>1 DEF TruthInv, KnownInv, RowsInv
<1>4. RowsInv' /\ PageInv'
  BY <1>1, RowsStay, PageStays DEF TruthInv, KnownInv
<1>5. CallsKnown'
  <2>1. CallKnown(calls'[i], used')
    BY <1>1, <1>2, <1>3 DEF CallKnown, Turned
  <2> QED BY <1>1, <1>2, <2>1, CallsKnownTurned DEF TruthInv, KnownInv
<1>6. ShownInv'
  <2>1. IsSuffix(calls'[i].data, history[calls[i].arg])
    BY <1>2, <1>3, SuffixOfItself
  <2> QED BY <1>1, <1>2, <2>1 DEF TruthInv, PanelsInv, ShownInv, Turned, Asks
<1>7. WaitsInv'
  BY <1>1, <1>2 DEF TruthInv, PanelsInv, WaitsInv, Turned, Asks
<1>8. ListInv'
  <2>1. \A k \in Slots : calls'[k] = calls[k] \/ (Aside(calls[k]) /\ Aside(calls'[k]))
    BY <1>1, <1>2 DEF Turned, Aside
  <2> QED BY <1>1, <2>1, ListStays DEF TruthInv
<1> QED
  BY <1>4, <1>5, <1>6, <1>7, <1>8 DEF KnownInv, PanelsInv

\* An id nobody has heard of: it is new to the list, the panels and the calls.
LEMMA NewToAll ==
    ASSUME KnownInv, NEW j \in Jobs \ used
    PROVE  /\ j \notin ToSet(rows) /\ j \notin ToSet(ui.jobs)
           /\ ui.executions[j] = Nil /\ j \notin AskedBy(calls)
           /\ \A k \in Slots : ~Asks(calls[k], j)
BY DEF KnownInv, RowsInv, PageInv, CallsKnown, CallKnown, AskedBy, Asks

\* It is put in front of the server's list.
LEMMA RowsCreated ==
    ASSUME KnownInv, NEW j \in Jobs \ used, rows' = <<j>> \o rows,
           used' = used \cup {j}, history' = history
    PROVE  /\ RowsInv' /\ used \subseteq used'
           /\ ToSet(rows') = ToSet(rows) \cup {j}
<1>1. j \notin ToSet(rows)
  BY NewToAll
<1>2. rows \in Seq(Jobs) /\ \A k : Once(rows, k)
  BY DEF KnownInv, RowsInv
<1> DEFINE front == <<j>> \o rows
<1>3. /\ front \in Seq(Jobs) /\ ToSet(front) = {j} \cup ToSet(rows)
      /\ \A k : k # j /\ Once(rows, k) => Once(front, k)
      /\ j \notin ToSet(rows) => Once(front, j)
  BY <1>2, InFront
<1>4. rows' = front
  OBVIOUS
<1> HIDE DEF front
<1>5. /\ rows' \in Seq(Jobs) /\ ToSet(rows') = {j} \cup ToSet(rows)
      /\ \A k : Once(rows', k)
  BY <1>1, <1>2, <1>3, <1>4
<1> QED
  BY <1>5 DEF KnownInv, RowsInv

LEMMA RowsDeleted ==
    ASSUME KnownInv, NEW d \in ToSet(rows), rows' = Without(rows, d), used' = used,
           history' = [ history EXCEPT ![d] = <<>> ]
    PROVE  /\ RowsInv' /\ d \in Jobs
           /\ \A j \in ToSet(rows') : j \in ToSet(rows) /\ history'[j] = history[j]
<1>1. /\ rows' \in Seq(Jobs) /\ ToSet(rows') = ToSet(rows) \ {d}
      /\ \A k : Once(rows', k)
  BY WithoutKeeps DEF KnownInv, RowsInv
<1>2. d \in Jobs
  BY DEF KnownInv, RowsInv
<1>3. <<>> \in Seq(Outcomes)
  OBVIOUS
<1>4. history' \in [ Jobs -> Seq(Outcomes) ] /\ \A j \in Jobs \ {d} : history'[j] = history[j]
  BY <1>2, <1>3 DEF KnownInv, RowsInv
<1> QED
  BY <1>1, <1>2, <1>4 DEF KnownInv, RowsInv

\* The create is done: until the page hears of it, its job is missing.
LEMMA ServeCreateTruth ==
    ASSUME TruthInv, NEW i \in Slots, ServeCreate(i)
    PROVE  KnownInv' /\ PanelsInv' /\ ListInv'
<1>1. PICK j \in Jobs \ used : /\ rows' = <<j>> \o rows /\ used' = used \cup {j}
                               /\ calls' = Resolve(calls, i, <<j>>)
  BY DEF ServeCreate
<1>2. /\ history' = history /\ ui' = ui /\ ghost' = ghost
      /\ calls[i].st = "sent" /\ calls[i].kind = "jobs.create"
  BY DEF ServeCreate
<1>3. Turned(i, "done") /\ calls'[i].data = <<j>>
  BY <1>1, Resolved DEF TruthInv, IInv
<1>4. RowsInv' /\ used \subseteq used' /\ ToSet(rows') = ToSet(rows) \cup {j}
  BY <1>1, <1>2, RowsCreated DEF TruthInv
<1>5. PageInv'
  BY <1>2, <1>4, PageStays DEF TruthInv, KnownInv
<1>6. CallsKnown'
  <2>1. CallKnown(calls'[i], used')
    BY <1>1, <1>2, <1>3 DEF CallKnown, Turned
  <2> QED BY <1>3, <1>4, <2>1, CallsKnownTurned DEF TruthInv, KnownInv
<1>7. /\ j \notin ToSet(rows) /\ j \notin ToSet(ui.jobs)
      /\ ui.executions[j] = Nil /\ j \notin AskedBy(calls)
      /\ \A k \in Slots : ~Asks(calls[k], j)
  BY NewToAll DEF TruthInv
<1>8. ShownInv'
  BY <1>2, <1>3, <1>4, <1>7 DEF TruthInv, PanelsInv, ShownInv, Turned, Asks
<1>9. WaitsInv'
  BY <1>2, <1>3 DEF TruthInv, PanelsInv, WaitsInv, Turned, Asks
<1>10. OneList' /\ (Reading' <=> Reading) /\ Heard' = Heard /\ (Trusted' <=> Trusted)
  BY <1>2, <1>3 DEF TruthInv, ListInv, OneList, Reading, Turned, Trusted, Heard
<1>11. Trusted => ~Reading
  BY <1>2 DEF TruthInv, ListInv, UnreadInv
<1>12. ASSUME Trusted, ~Reading PROVE ReadInv'
  <2>1. CreatedBy(calls) = {}
    BY <1>2 DEF CreatedBy, TruthInv, IInv
  <2>2. CreatedBy(calls') = {j}
    <3>1. \A k \in Slots \ {i} : calls'[k].kind # "jobs.create"
      BY <1>2, <1>3 DEF Turned, TruthInv, IInv
    <3>2. \A a, b : <<a>> = <<b>> => a = b
      OBVIOUS
    <3> QED BY <1>2, <1>3, <3>1, <3>2 DEF CreatedBy, Turned
  <2>3. DeletedBy(calls') = DeletedBy(calls) /\ AskedBy(calls') = AskedBy(calls)
    BY <1>2, <1>3 DEF DeletedBy, AskedBy, Turned
  <2>4. ListOK(ui.jobs, rows, Heard, {}, DeletedBy(calls), AskedBy(calls))
    BY <1>12, <2>1 DEF TruthInv, ListInv, ReadInv
  <2>5. ListOK(ui.jobs, <<j>> \o rows, Heard, {j}, DeletedBy(calls), AskedBy(calls))
    BY <1>7, <2>4, ListCreated DEF TruthInv, KnownInv, RowsInv
  <2> QED BY <1>1, <1>2, <1>10, <2>2, <2>3, <2>5 DEF ReadInv
<1> QED
  BY <1>4, <1>5, <1>6, <1>8, <1>9, <1>10, <1>11, <1>12
     DEF KnownInv, PanelsInv, ListInv, UnreadInv, ReadInv

\* The delete is done: until the page hears of it, its job is still listed.
LEMMA ServeDeleteTruth ==
    ASSUME TruthInv, NEW i \in Slots, ServeDelete(i)
    PROVE  KnownInv' /\ PanelsInv' /\ ListInv'
<1> DEFINE d == calls[i].arg
<1>1. /\ used' = used /\ ui' = ui /\ ghost' = ghost
      /\ calls[i].st = "sent" /\ calls[i].kind = "jobs.delete"
      /\ d \in ToSet(rows) /\ rows' = Without(rows, d)
      /\ history' = [ history EXCEPT ![d] = <<>> ]
  BY DEF ServeDelete
<1>2. Turned(i, "done")
  BY Resolved DEF ServeDelete, TruthInv, IInv
<1>3. /\ RowsInv' /\ d \in Jobs
      /\ \A j \in ToSet(rows') : j \in ToSet(rows) /\ history'[j] = history[j]
  BY <1>1, RowsDeleted DEF TruthInv
<1>4. PageInv'
  BY <1>1, PageStays DEF TruthInv, KnownInv
<1>5. CallsKnown'
  <2>1. CallKnown(calls'[i], used')
    BY <1>1, <1>2 DEF CallsKnown, CallKnown, Turned, TruthInv, KnownInv
  <2> QED BY <1>1, <1>2, <2>1, CallsKnownTurned DEF TruthInv, KnownInv
<1>6. PanelsInv'
  BY <1>1, <1>2, <1>3, PanelsStay DEF TruthInv, Turned
<1>7. OneList' /\ (Reading' <=> Reading) /\ Heard' = Heard /\ (Trusted' <=> Trusted)
  BY <1>1, <1>2 DEF TruthInv, ListInv, OneList, Reading, Turned, Trusted, Heard
<1>8. Trusted => ~Reading
  BY <1>1 DEF TruthInv, ListInv, UnreadInv
<1>9. ASSUME Trusted, ~Reading PROVE ReadInv'
  <2>1. /\ CreatedBy(calls') = CreatedBy(calls) /\ AskedBy(calls') = AskedBy(calls)
        /\ DeletedBy(calls') = DeletedBy(calls) \cup {d}
    BY <1>1, <1>2, <1>3 DEF CreatedBy, DeletedBy, AskedBy, Turned
  <2>2. d \in AskedBy(calls)
    BY <1>1, <1>3 DEF AskedBy
  <2>3. ListOK(ui.jobs, rows, Heard, CreatedBy(calls), DeletedBy(calls), AskedBy(calls))
    BY <1>9 DEF TruthInv, ListInv, ReadInv
  <2> HIDE DEF d
  <2>4. ListOK(ui.jobs, Without(rows, d), Heard, CreatedBy(calls),
               DeletedBy(calls) \cup {d}, AskedBy(calls))
    BY <2>2, <2>3, ListDeleted DEF TruthInv, KnownInv, RowsInv
  <2> QED BY <1>1, <1>7, <2>1, <2>4 DEF ReadInv
<1> QED
  BY <1>3, <1>4, <1>5, <1>6, <1>7, <1>8, <1>9 DEF KnownInv, ListInv, UnreadInv, ReadInv

\* A request that is refused has done nothing.
LEMMA RefuseTruth ==
    ASSUME TruthInv, NEW i \in Slots, Refuse(i)
    PROVE  KnownInv' /\ PanelsInv' /\ ListInv'
<1>1. /\ rows' = rows /\ used' = used /\ history' = history /\ ui' = ui
      /\ ghost' = ghost /\ calls[i].st = "sent"
  BY DEF Refuse
<1>2. Turned(i, "failed")
  BY Thrown DEF Refuse, TruthInv, IInv
<1>3. KnownInv'
  BY <1>1, <1>2, RowsStay, PageStays, CallsKnownThrown DEF TruthInv, KnownInv
<1>4. PanelsInv'
  BY <1>1, <1>2, PanelsStay DEF TruthInv, Turned
<1>5. OneList' /\ (Reading' <=> Reading) /\ Heard' = Heard /\ (Trusted' <=> Trusted)
  BY <1>1, <1>2 DEF TruthInv, ListInv, OneList, Reading, Turned, Trusted, Heard
<1>6. /\ CreatedBy(calls') = CreatedBy(calls) /\ AskedBy(calls') = AskedBy(calls)
      /\ DeletedBy(calls') = DeletedBy(calls)
  BY <1>1, <1>2 DEF CreatedBy, DeletedBy, AskedBy, Turned
<1>7. ReadInv'
  BY <1>1, <1>5, <1>6 DEF TruthInv, ListInv, ReadInv
<1>8. UnreadInv'
  BY <1>1, <1>2, <1>5 DEF TruthInv, ListInv, UnreadInv, Turned
<1> QED
  BY <1>3, <1>4, <1>5, <1>7, <1>8 DEF ListInv

-----------------------------------------------------------------------------
\* Jobs become unheard of: nothing else of the ghost changes.
LEMMA UnseenOnly ==
    ASSUME PageInv, NEW J, ghost' = Unseen(J)
    PROVE  /\ DOMAIN ghost' = DOMAIN ghost /\ ghost'.early = ghost.early
           /\ ghost'.missed = ghost.missed
           /\ ghost.early = FALSE => Heard' = Heard \ J
BY DEF Unseen, PageInv, Heard

\* What was done is not heard of.
LEMMA LoseAnswerTruth ==
    ASSUME TruthInv, NEW i \in Slots, LoseAnswer(i)
    PROVE  KnownInv' /\ PanelsInv' /\ ListInv'
<1>1. /\ rows' = rows /\ used' = used /\ history' = history /\ ui' = ui
      /\ calls[i].st = "done" /\ DOMAIN calls[i] = { "kind", "arg", "st", "data" }
  BY DEF LoseAnswer, TruthInv, IInv, CallsInv
<1>2. Turned(i, "failed")
  BY Thrown DEF LoseAnswer, TruthInv, IInv
<1>3. \/ calls[i].kind = "jobs.create" /\ ghost' = Unseen(ToSet(calls[i].data))
      \/ calls[i].kind = "jobs.delete" /\ ghost' = Unseen({calls[i].arg})
      \/ calls[i].kind \notin { "jobs.create", "jobs.delete" } /\ ghost' = ghost
  BY DEF LoseAnswer
<1>4. /\ DOMAIN ghost' = DOMAIN ghost /\ ghost'.early = ghost.early
      /\ ghost'.missed = ghost.missed
  BY <1>3, UnseenOnly DEF TruthInv, KnownInv
<1>5. KnownInv'
  <2>1. RowsInv' /\ CallsKnown'
    BY <1>1, <1>2, RowsStay, CallsKnownThrown DEF TruthInv, KnownInv
  <2>2. PageInv'
    BY <1>1, <1>4 DEF TruthInv, KnownInv, PageInv
  <2> QED BY <2>1, <2>2 DEF KnownInv
<1>6. PanelsInv'
  BY <1>1, <1>2, <1>4, PanelsStay DEF TruthInv, Turned
<1>7. OneList' /\ (Reading' <=> Reading) /\ (Trusted' <=> Trusted)
  BY <1>1, <1>2, <1>4 DEF TruthInv, ListInv, OneList, Reading, Turned, Trusted
<1>8. AskedBy(calls') = AskedBy(calls)
  BY <1>1, <1>2 DEF AskedBy, Turned
<1>9. CASE calls[i].kind = "jobs.create"
  <2>1. Trusted => ~Reading
    BY <1>9 DEF TruthInv, ListInv, UnreadInv
  <2>2. PICK j \in used : calls[i].data = <<j>>
    BY <1>1, <1>9 DEF TruthInv, KnownInv, CallsKnown, CallKnown
  <2>3. j \in Jobs /\ ToSet(calls[i].data) = {j}
    BY <2>2 DEF TruthInv, KnownInv, RowsInv, ToSet
  <2>4. ASSUME Trusted, ~Reading PROVE ReadInv'
    <3>1. CreatedBy(calls) = {j}
      <4>1. \A k \in Slots : calls[k].kind = "jobs.create" => k = i
        BY <1>9 DEF TruthInv, IInv
      <4>2. \A a, b : <<a>> = <<b>> => a = b
        OBVIOUS
      <4> QED BY <1>1, <1>9, <2>2, <2>3, <4>1, <4>2 DEF CreatedBy
    <3>2. CreatedBy(calls') = {}
      BY <1>2, <1>9 DEF CreatedBy, Turned, TruthInv, IInv
    <3>3. DeletedBy(calls') = DeletedBy(calls)
      BY <1>2, <1>9 DEF DeletedBy, Turned
    <3>4. Heard' = Heard \ {j}
      BY <1>3, <1>9, <2>3, <2>4, UnseenOnly DEF Trusted, TruthInv, KnownInv
    <3>5. ListOK(ui.jobs, rows, Heard, {j}, DeletedBy(calls), AskedBy(calls))
      BY <2>4, <3>1 DEF TruthInv, ListInv, ReadInv
    <3>6. ListOK(ui.jobs, rows, Heard \ {j}, {}, DeletedBy(calls), AskedBy(calls))
      BY <3>5, ListCreateLost
    <3> QED BY <1>1, <1>8, <3>2, <3>3, <3>4, <3>6 DEF ReadInv
  <2> QED BY <1>5, <1>6, <1>7, <2>1, <2>4 DEF ListInv, UnreadInv, ReadInv
<1>10. CASE calls[i].kind = "jobs.delete"
  <2> DEFINE d == calls[i].arg
  <2>1. Trusted => ~Reading
    BY <1>10 DEF TruthInv, ListInv, UnreadInv
  <2>2. ASSUME Trusted, ~Reading PROVE ReadInv'
    <3>1. CreatedBy(calls') = CreatedBy(calls)
      BY <1>2, <1>10 DEF CreatedBy, Turned
    <3>2. DeletedBy(calls) \ {d} \subseteq DeletedBy(calls')
      BY <1>2 DEF DeletedBy, Turned
    <3>3. DeletedBy(calls') \subseteq DeletedBy(calls)
      BY <1>1, <1>2 DEF DeletedBy, Turned
    <3>4. Heard' = Heard \ {d}
      BY <1>3, <1>10, <2>2, UnseenOnly DEF Trusted, TruthInv, KnownInv
    <3>5. ListOK(ui.jobs, rows, Heard, CreatedBy(calls), DeletedBy(calls), AskedBy(calls))
      BY <2>2 DEF TruthInv, ListInv, ReadInv
    <3> HIDE DEF d
    <3>6. ListOK(ui.jobs, rows, Heard \ {d}, CreatedBy(calls), DeletedBy(calls'),
                 AskedBy(calls))
      BY <3>2, <3>3, <3>5, ListDeleteLost
    <3> QED BY <1>1, <1>8, <3>1, <3>4, <3>6 DEF ReadInv
  <2> QED BY <1>5, <1>6, <1>7, <2>1, <2>2 DEF ListInv, UnreadInv, ReadInv
<1>11. CASE calls[i].kind \notin { "jobs.create", "jobs.delete" }
  <2>1. ghost' = ghost /\ Heard' = Heard
    BY <1>3, <1>11 DEF Heard
  <2>2. /\ CreatedBy(calls') = CreatedBy(calls) /\ DeletedBy(calls') = DeletedBy(calls)
    BY <1>2, <1>11 DEF CreatedBy, DeletedBy, Turned
  <2>3. ReadInv'
    BY <1>1, <1>7, <1>8, <2>1, <2>2 DEF TruthInv, ListInv, ReadInv
  <2>4. UnreadInv'
    BY <1>1, <1>2, <1>7, <2>1 DEF TruthInv, ListInv, UnreadInv, Turned
  <2> QED BY <1>5, <1>6, <1>7, <2>3, <2>4 DEF ListInv
<1> QED
  BY <1>9, <1>10, <1>11

\* The server's list changes behind the page's back.
LEMMA ElsewhereList ==
    ASSUME TruthInv, NEW j \in Jobs, ui' = ui, calls' = calls, ghost' = Unheard(j),
           rows' = <<j>> \o rows \/ rows' = Without(rows, j), RowsInv'
    PROVE  /\ DOMAIN ghost' = DOMAIN ghost /\ ghost'.early = ghost.early
           /\ ghost'.missed = ghost.missed
           /\ ListInv'
<1> DEFINE asked == \E i \in Slots : calls[i].kind = "jobs.list" /\ calls[i].st = "sent"
<1>1. /\ DOMAIN ghost' = DOMAIN ghost /\ ghost'.early = ghost.early
      /\ ghost'.missed = ghost.missed
      /\ Trusted /\ ~asked => Heard' = Heard \ {j}
      /\ asked => ghost' = ghost
  <2>1. CASE ui.open = TRUE /\ ~asked
    <3>1. ghost' = Unseen({j})
      BY <2>1 DEF Unheard
    <3> QED BY <2>1, <3>1, UnseenOnly DEF TruthInv, KnownInv, Trusted
  <2>2. CASE ~(ui.open = TRUE /\ ~asked)
    <3>1. ghost' = ghost
      BY <2>2 DEF Unheard, TruthInv, IInv, UiInv
    <3> QED BY <2>2, <3>1 DEF Trusted
  <2> QED BY <2>1, <2>2
<1>2. OneList' /\ (Reading' <=> Reading) /\ (Trusted' <=> Trusted)
  BY <1>1 DEF TruthInv, ListInv, OneList, Reading, Trusted
<1>3. ASSUME Trusted, ~Reading PROVE ReadInv'
  <2>1. Heard' = Heard \ {j}
    BY <1>1, <1>3 DEF Reading
  <2>2. ListOK(ui.jobs, rows, Heard, CreatedBy(calls), DeletedBy(calls), AskedBy(calls))
    BY <1>3 DEF TruthInv, ListInv, ReadInv
  <2>3. ListOK(ui.jobs, rows', Heard \ {j}, CreatedBy(calls), DeletedBy(calls),
               AskedBy(calls))
    BY <2>2, ListElsewhere DEF TruthInv, KnownInv, RowsInv
  <2> QED BY <2>1, <2>3 DEF ReadInv
<1>4. ASSUME Trusted, Reading PROVE UnreadInv'
  <2>1. CASE asked
    <3>1. \A i \in Slots : ~(calls[i].kind = "jobs.list" /\ calls[i].st = "done")
      BY <2>1 DEF TruthInv, ListInv, OneList
    <3> QED BY <1>4, <3>1 DEF UnreadInv, TruthInv, ListInv
  <2>2. CASE ~asked
    <3>1. Heard' = Heard \ {j}
      BY <1>1, <1>4, <2>2
    <3>2. \A i \in Slots : calls[i].kind = "jobs.list" /\ calls[i].st = "done"
             => AnswerOK(calls[i].data, rows', Heard \ {j})
      BY <1>4, ListElsewhere DEF TruthInv, KnownInv, RowsInv, ListInv, UnreadInv
    <3> QED BY <1>4, <3>1, <3>2 DEF UnreadInv, TruthInv, ListInv
  <2> QED BY <2>1, <2>2
<1> HIDE DEF asked
<1> QED
  BY <1>1, <1>2, <1>3, <1>4 DEF ListInv, UnreadInv, ReadInv

LEMMA ElsewhereTruth ==
    ASSUME TruthInv, NEW j \in Jobs, CreateElsewhere(j) \/ DeleteElsewhere(j)
    PROVE  KnownInv' /\ PanelsInv' /\ ListInv'
<1>1. ui' = ui /\ calls' = calls /\ ghost' = Unheard(j)
  BY DEF CreateElsewhere, DeleteElsewhere
<1>2. ASSUME RowsInv', used \subseteq used', PanelsInv',
             rows' = <<j>> \o rows \/ rows' = Without(rows, j)
      PROVE  KnownInv' /\ PanelsInv' /\ ListInv'
  <2>1. /\ DOMAIN ghost' = DOMAIN ghost /\ ghost'.early = ghost.early
        /\ ghost'.missed = ghost.missed
        /\ ListInv'
    BY <1>1, <1>2, ElsewhereList
  <2>2. PageInv'
    BY <1>1, <1>2, <2>1 DEF TruthInv, KnownInv, PageInv
  <2>3. CallsKnown'
    BY <1>1, <1>2, KnownStays DEF TruthInv, KnownInv, CallsKnown
  <2> QED BY <1>2, <2>1, <2>2, <2>3 DEF KnownInv
<1>3. ghost'.missed = ghost.missed
  BY <1>1, UnseenOnly DEF Unheard, TruthInv, KnownInv
<1>4. CASE CreateElsewhere(j)
  <2>1. j \in Jobs \ used
    BY <1>4 DEF CreateElsewhere
  <2>2. rows' = <<j>> \o rows /\ used' = used \cup {j} /\ history' = history
    BY <1>4 DEF CreateElsewhere
  <2>3. RowsInv' /\ used \subseteq used' /\ ToSet(rows') = ToSet(rows) \cup {j}
    BY <2>1, <2>2, RowsCreated DEF TruthInv
  <2>4. ui.executions[j] = Nil /\ \A k \in Slots : ~Asks(calls[k], j)
    BY <2>1, NewToAll DEF TruthInv
  <2>5. ShownInv'
    BY <1>1, <2>2, <2>3, <2>4 DEF TruthInv, PanelsInv, ShownInv
  <2>6. WaitsInv'
    BY <1>1, <1>3 DEF TruthInv, PanelsInv, WaitsInv
  <2> QED BY <1>2, <2>2, <2>3, <2>5, <2>6 DEF PanelsInv
<1>5. CASE DeleteElsewhere(j)
  <2>1. /\ j \in ToSet(rows) /\ rows' = Without(rows, j) /\ used' = used
        /\ history' = [ history EXCEPT ![j] = <<>> ]
    BY <1>5 DEF DeleteElsewhere
  <2>2. RowsInv' /\ \A k \in ToSet(rows') : k \in ToSet(rows) /\ history'[k] = history[k]
    BY <2>1, RowsDeleted DEF TruthInv
  <2>3. PanelsInv'
    BY <1>1, <1>3, <2>2, PanelsStay DEF TruthInv
  <2> QED BY <1>2, <2>1, <2>2, <2>3
<1> QED
  BY <1>4, <1>5

\* A job runs: what is shown is still the end of its history.
LEMMA RunTruth ==
    ASSUME TruthInv, NEW j \in Jobs, NEW o \in Outcomes, JobRuns(j, o)
    PROVE  KnownInv' /\ PanelsInv' /\ ListInv'
<1>1. /\ rows' = rows /\ used' = used /\ ui' = ui /\ calls' = calls /\ ghost' = ghost
      /\ history' = [ history EXCEPT ![j] = <<o>> \o history[j] ]
  BY DEF JobRuns
<1>2. history[j] \in Seq(Outcomes) /\ <<o>> \o history[j] \in Seq(Outcomes)
  BY DEF TruthInv, KnownInv, RowsInv
<1>3. KnownInv'
  BY <1>1, <1>2, PageStays DEF TruthInv, KnownInv, RowsInv, CallsKnown
<1>4. /\ \A k \in Jobs \ {j} : history'[k] = history[k]
      /\ history'[j] = <<o>> \o history[j]
  BY <1>1 DEF TruthInv, KnownInv, RowsInv
<1>5. ASSUME NEW s \in Seq(Outcomes), IsSuffix(s, history[j])
      PROVE  IsSuffix(s, history'[j])
  BY <1>2, <1>4, <1>5, SuffixOfLonger
<1>6. ShownInv'
  <2> SUFFICES ASSUME NEW k \in ToSet(rows)
               PROVE  /\ ui.executions[k] # Nil => IsSuffix(ui.executions[k], history'[k])
                      /\ \A i \in Slots : Asks(calls[i], k) /\ calls[i].st = "done"
                            => IsSuffix(calls[i].data, history'[k])
    BY <1>1 DEF ShownInv
  <2>1. /\ k \in Jobs /\ ui.executions[k] \in Seq(Outcomes) \cup {Nil}
        /\ \A i \in Slots : Asks(calls[i], k) /\ calls[i].st = "done"
                            => calls[i].data \in Seq(Outcomes)
    BY DEF TruthInv, KnownInv, RowsInv, PageInv, CallsKnown, CallKnown, Asks
  <2>2. /\ ui.executions[k] # Nil => IsSuffix(ui.executions[k], history[k])
        /\ \A i \in Slots : Asks(calls[i], k) /\ calls[i].st = "done"
              => IsSuffix(calls[i].data, history[k])
    BY DEF TruthInv, PanelsInv, ShownInv
  <2> QED BY <1>4, <1>5, <2>1, <2>2
<1>7. WaitsInv'
  BY <1>1 DEF TruthInv, PanelsInv, WaitsInv
<1>8. ListInv'
  BY <1>1, ListStays DEF TruthInv
<1> QED
  BY <1>3, <1>6, <1>7, <1>8 DEF PanelsInv

-----------------------------------------------------------------------------
\* The handler of a call about the list leaves the panels alone.
LEMMA TakePanels ==
    ASSUME TruthInv, NEW i \in Slots, Settled(i), calls[i].kind # "jobs.executions",
           rows' = rows, history' = history, ui'.open = ui.open,
           ui'.executions = ui.executions, ui'.expandedJob = ui.expandedJob,
           ghost'.missed = ghost.missed
    PROVE  PanelsInv'
BY NilIsNoEndpoint, PanelsStay DEF TruthInv, Settled

\* The list is shown, or its place stays empty.
LEMMA TakeListTruth ==
    ASSUME TruthInv, NEW i \in Slots, TakeList(i)
    PROVE  KnownInv' /\ PanelsInv' /\ ListInv'
<1>1. /\ rows' = rows /\ used' = used /\ history' = history
      /\ calls[i].kind = "jobs.list" /\ calls[i].st \in { "done", "failed" }
      /\ ui'.open = ui.open /\ ui'.executions = ui.executions
      /\ ui'.expandedJob = ui.expandedJob
      /\ calls[i].st = "done" => ui'.jobs = calls[i].data /\ ghost' = ghost
      /\ calls[i].st # "done" => ui'.jobs = ui.jobs /\ ghost' = Unseen(ToSet(rows))
  BY DEF TakeList, Answered, Ok, TruthInv, IInv, UiInv
<1>2. Settled(i)
  BY Freed DEF TakeList, TruthInv, IInv
<1>3. /\ DOMAIN ghost' = DOMAIN ghost /\ ghost'.early = ghost.early
      /\ ghost'.missed = ghost.missed
  BY <1>1, UnseenOnly DEF TruthInv, KnownInv
<1>4. KnownInv'
  <2>1. RowsInv' /\ CallsKnown'
    BY <1>1, <1>2, RowsStay, CallsKnownSettled DEF TruthInv, KnownInv
  <2>2. calls[i].st = "done" => calls[i].data \in Seq(Jobs) /\ ToSet(calls[i].data) \subseteq used
    BY <1>1 DEF TruthInv, KnownInv, CallsKnown, CallKnown
  <2>3. PageInv'
    BY <1>1, <1>3, <2>2 DEF TruthInv, KnownInv, PageInv
  <2> QED BY <2>1, <2>3 DEF KnownInv
<1>5. PanelsInv'
  BY <1>1, <1>2, <1>3, TakePanels
<1>6. Reading /\ ~Reading' /\ OneList' /\ (Trusted' <=> Trusted)
  BY <1>1, <1>2, <1>3, NilIsNoEndpoint
     DEF TruthInv, ListInv, OneList, Reading, Settled, Trusted
<1>7. ASSUME Trusted PROVE ReadInv'
  <2>1. \A k \in Slots : calls'[k].kind \notin { "jobs.create", "jobs.delete" }
    BY <1>2, <1>6, <1>7, NilIsNoEndpoint DEF TruthInv, ListInv, UnreadInv, Settled
  <2>2. CreatedBy(calls') = {} /\ DeletedBy(calls') = {} /\ AskedBy(calls') = {}
    BY <2>1 DEF CreatedBy, DeletedBy, AskedBy
  <2>3. CASE calls[i].st = "done"
    <3>1. AnswerOK(calls[i].data, rows, Heard)
      BY <1>1, <1>6, <1>7, <2>3 DEF TruthInv, ListInv, UnreadInv
    <3>2. Heard' = Heard
      BY <1>1, <2>3 DEF Heard
    <3>3. ListOK(calls[i].data, rows, Heard, {}, {}, {})
      BY <3>1, ListTaken
    <3> QED BY <1>1, <2>2, <2>3, <3>2, <3>3 DEF ReadInv
  <2>4. CASE calls[i].st # "done"
    <3>1. ui.jobs = <<>>
      BY <1>6, <1>7 DEF TruthInv, ListInv, UnreadInv
    <3>2. Heard' = Heard \ ToSet(rows)
      BY <1>1, <1>7, <2>4, UnseenOnly DEF TruthInv, KnownInv, Trusted
    <3>3. ListOK(<<>>, rows, Heard \ ToSet(rows), {}, {}, {})
      BY ListNotTaken
    <3> QED BY <1>1, <2>2, <2>4, <3>1, <3>2, <3>3 DEF ReadInv
  <2> QED BY <2>3, <2>4
<1> QED
  BY <1>4, <1>5, <1>6, <1>7 DEF ListInv, UnreadInv, ReadInv

\* A history is filed under the job it was asked for.
LEMMA TakeExecutionsTruth ==
    ASSUME TruthInv, NEW i \in Slots, TakeExecutions(i)
    PROVE  KnownInv' /\ PanelsInv' /\ ListInv'
<1> DEFINE j == calls[i].arg
           filed == IF calls[i].st = "done" THEN calls[i].data ELSE ui.executions[j]
<1>1. /\ rows' = rows /\ used' = used /\ history' = history
      /\ calls[i].kind = "jobs.executions"
      /\ calls[i].st \in { "done", "failed" }
      /\ ui' = [ ui EXCEPT !.loadingExecutions = Nil, !.executions[j] = filed ]
      /\ ghost' = [ ghost EXCEPT !.missed =
                      @ \/ (calls[i].st # "done" /\ ui.expandedJob = j) ]
  BY DEF TakeExecutions, Answered, Ok
<1>2. Settled(i)
  BY Freed DEF TakeExecutions, TruthInv, IInv
<1>3. j \in Jobs /\ j \in used
  BY <1>1 DEF TruthInv, KnownInv, RowsInv, CallsKnown, CallKnown
<1>4. calls[i].st = "done" => calls[i].data \in Seq(Outcomes) /\ calls[i].data # Nil
  BY <1>1, HistoryAssumption DEF TruthInv, KnownInv, CallsKnown, CallKnown
<1>5. /\ ui'.open = ui.open /\ ui'.jobs = ui.jobs /\ ui'.expandedJob = ui.expandedJob
      /\ ui'.executions = [ ui.executions EXCEPT ![j] = filed ]
  BY <1>1 DEF TruthInv, IInv, UiInv
<1>6. /\ DOMAIN ghost' = DOMAIN ghost /\ ghost'.early = ghost.early
      /\ ghost'.unseen = ghost.unseen /\ ghost'.missed \in BOOLEAN
      /\ ghost.missed = TRUE \/ (calls[i].st # "done" /\ ui.expandedJob = j)
            => ghost'.missed = TRUE
  BY <1>1 DEF TruthInv, KnownInv, PageInv
<1>7. filed \in Seq(Outcomes) \cup {Nil}
  BY <1>3, <1>4 DEF TruthInv, KnownInv, PageInv
<1>8. /\ ui'.executions \in [ Jobs -> Seq(Outcomes) \cup {Nil} ]
      /\ ui'.executions[j] = filed
      /\ \A k \in Jobs \ {j} : ui'.executions[k] = ui.executions[k]
  BY <1>3, <1>5, <1>7 DEF TruthInv, KnownInv, PageInv
<1>9. KnownInv'
  <2>1. RowsInv' /\ CallsKnown'
    BY <1>1, <1>2, RowsStay, CallsKnownSettled DEF TruthInv, KnownInv
  <2>2. PageInv'
    BY <1>1, <1>3, <1>5, <1>6, <1>8 DEF TruthInv, KnownInv, PageInv
  <2> QED BY <2>1, <2>2 DEF KnownInv
<1>10. ShownInv'
  <2>1. \A k \in ToSet(rows) : ui'.executions[k] # Nil => IsSuffix(ui'.executions[k], history[k])
    <3> SUFFICES ASSUME NEW k \in ToSet(rows), ui'.executions[k] # Nil
                 PROVE  IsSuffix(ui'.executions[k], history[k])
      OBVIOUS
    <3>1. k \in Jobs
      BY DEF TruthInv, KnownInv, RowsInv
    <3>2. CASE k = j
      BY <1>1, <1>8, <3>2 DEF TruthInv, PanelsInv, ShownInv, Asks
    <3>3. CASE k # j
      BY <1>8, <3>1, <3>3 DEF TruthInv, PanelsInv, ShownInv
    <3> QED BY <3>2, <3>3
  <2> QED BY <1>1, <1>2, <2>1, NilIsNoEndpoint
             DEF TruthInv, PanelsInv, ShownInv, Asks, Settled
<1>11. WaitsInv'
  <2> SUFFICES ASSUME ui'.open = TRUE, NEW k \in Jobs, ui'.expandedJob = k,
                      ui'.executions[k] = Nil
               PROVE  ghost'.missed = TRUE \/ \E n \in Slots : Asks(calls'[n], k)
    BY DEF WaitsInv
  <2>1. CASE k = j
    BY <1>4, <1>5, <1>6, <1>8, <2>1
  <2>2. CASE k # j
    <3>1. ghost.missed = TRUE \/ \E n \in Slots : Asks(calls[n], k)
      BY <1>5, <1>8, <2>2 DEF TruthInv, PanelsInv, WaitsInv
    <3> QED BY <1>2, <1>6, <2>2, <3>1 DEF Asks, Settled
  <2> QED BY <2>1, <2>2
<1>12. ListInv'
  <2>1. \A k \in Slots : calls'[k] = calls[k] \/ (Aside(calls[k]) /\ Aside(calls'[k]))
    BY <1>1, <1>2, NilIsNoEndpoint DEF Settled, Aside
  <2> QED BY <1>1, <1>5, <1>6, <2>1, ListStays DEF TruthInv
<1> QED
  BY <1>9, <1>10, <1>11, <1>12 DEF PanelsInv

\* The created job is put in front of the list.
LEMMA TakeCreateTruth ==
    ASSUME TruthInv, NEW i \in Slots, TakeCreate(i)
    PROVE  KnownInv' /\ PanelsInv' /\ ListInv'
<1>1. /\ rows' = rows /\ used' = used /\ history' = history /\ ghost' = ghost
      /\ calls[i].kind = "jobs.create" /\ calls[i].st \in { "done", "failed" }
      /\ ui'.open = ui.open /\ ui'.executions = ui.executions
      /\ ui'.expandedJob = ui.expandedJob
      /\ ui'.jobs = IF calls[i].st = "done" THEN calls[i].data \o ui.jobs ELSE ui.jobs
  BY DEF TakeCreate, Answered, Ok, TruthInv, IInv, UiInv
<1>2. Settled(i)
  BY Freed DEF TakeCreate, TruthInv, IInv
<1>3. PanelsInv'
  BY <1>1, <1>2, TakePanels
<1>4. RowsInv' /\ CallsKnown'
  BY <1>1, <1>2, RowsStay, CallsKnownSettled DEF TruthInv, KnownInv
<1>5. (Reading' <=> Reading) /\ OneList' /\ (Trusted' <=> Trusted) /\ Heard' = Heard
  BY <1>1, <1>2, NilIsNoEndpoint
     DEF TruthInv, ListInv, OneList, Reading, Settled, Trusted, Heard
<1>6. Trusted => ~Reading
  BY <1>1 DEF TruthInv, ListInv, UnreadInv
<1>7. CreatedBy(calls') = {}
  BY <1>1, <1>2, NilIsNoEndpoint DEF CreatedBy, Settled, TruthInv, IInv
<1>8. DeletedBy(calls') = DeletedBy(calls) /\ AskedBy(calls') = AskedBy(calls)
  BY <1>1, <1>2, NilIsNoEndpoint DEF DeletedBy, AskedBy, Settled
<1>9. CASE calls[i].st = "done"
  <2>1. PICK j \in used : calls[i].data = <<j>>
    BY <1>1, <1>9 DEF TruthInv, KnownInv, CallsKnown, CallKnown
  <2>2. j \in Jobs
    BY DEF TruthInv, KnownInv, RowsInv
  <2>3. ui'.jobs = <<j>> \o ui.jobs
    BY <1>1, <1>9, <2>1
  <2>4. ui'.jobs \in Seq(Jobs) /\ ToSet(ui'.jobs) = {j} \cup ToSet(ui.jobs)
    BY <2>2, <2>3, InFront DEF TruthInv, KnownInv, PageInv
  <2>5. PageInv'
    BY <1>1, <2>4 DEF TruthInv, KnownInv, PageInv
  <2>6. ASSUME Trusted, ~Reading PROVE ReadInv'
    <3>1. CreatedBy(calls) = {j}
      <4>1. \A k \in Slots : calls[k].kind = "jobs.create" => k = i
        BY <1>1 DEF TruthInv, IInv
      <4>2. \A a, b : <<a>> = <<b>> => a = b
        OBVIOUS
      <4> QED BY <1>1, <1>9, <2>1, <2>2, <4>1, <4>2 DEF CreatedBy
    <3>2. ListOK(ui.jobs, rows, Heard, {j}, DeletedBy(calls), AskedBy(calls))
      BY <2>6, <3>1 DEF TruthInv, ListInv, ReadInv
    <3>3. ListOK(<<j>> \o ui.jobs, rows, Heard, {}, DeletedBy(calls), AskedBy(calls))
      BY <2>2, <3>2, ListCreateTaken DEF TruthInv, KnownInv, RowsInv, PageInv
    <3> QED BY <1>1, <1>5, <1>7, <1>8, <2>3, <3>3 DEF ReadInv
  <2> QED BY <1>3, <1>4, <1>5, <1>6, <2>5, <2>6 DEF KnownInv, ListInv, UnreadInv, ReadInv
<1>10. CASE calls[i].st = "failed"
  <2>1. PageInv'
    BY <1>1, <1>10, PageStays DEF TruthInv, KnownInv
  <2>2. CreatedBy(calls) = {}
    BY <1>1, <1>10 DEF CreatedBy, TruthInv, IInv
  <2>3. ReadInv'
    BY <1>1, <1>5, <1>7, <1>8, <1>10, <2>2 DEF TruthInv, ListInv, ReadInv
  <2> QED BY <1>3, <1>4, <1>5, <1>6, <2>1, <2>3 DEF KnownInv, ListInv, UnreadInv
<1> QED
  BY <1>1, <1>9, <1>10

\* The deleted job is filtered out of the list.
LEMMA TakeDeleteTruth ==
    ASSUME TruthInv, NEW i \in Slots, TakeDelete(i)
    PROVE  KnownInv' /\ PanelsInv' /\ ListInv'
<1> DEFINE d == calls[i].arg
<1>1. /\ rows' = rows /\ used' = used /\ history' = history /\ ghost' = ghost
      /\ calls[i].kind = "jobs.delete" /\ calls[i].st \in { "done", "failed" }
      /\ ui'.open = ui.open /\ ui'.executions = ui.executions
      /\ ui'.expandedJob = ui.expandedJob
      /\ ui'.jobs = IF calls[i].st = "done" THEN Without(ui.jobs, d) ELSE ui.jobs
  BY DEF TakeDelete, Answered, Ok, TruthInv, IInv, UiInv
<1>2. Settled(i)
  BY Freed DEF TakeDelete, TruthInv, IInv
<1>3. PanelsInv'
  BY <1>1, <1>2, TakePanels
<1>4. KnownInv'
  <2>1. RowsInv' /\ CallsKnown'
    BY <1>1, <1>2, RowsStay, CallsKnownSettled DEF TruthInv, KnownInv
  <2>2. Without(ui.jobs, d) \in Seq(Jobs) /\ ToSet(Without(ui.jobs, d)) \subseteq ToSet(ui.jobs)
    BY WithoutKeeps DEF TruthInv, KnownInv, PageInv
  <2>3. PageInv'
    BY <1>1, <2>2 DEF TruthInv, KnownInv, PageInv
  <2> QED BY <2>1, <2>3 DEF KnownInv
<1>5. (Reading' <=> Reading) /\ OneList' /\ (Trusted' <=> Trusted) /\ Heard' = Heard
  BY <1>1, <1>2, NilIsNoEndpoint
     DEF TruthInv, ListInv, OneList, Reading, Settled, Trusted, Heard
<1>6. Trusted => ~Reading
  BY <1>1 DEF TruthInv, ListInv, UnreadInv
<1>7. CreatedBy(calls') = CreatedBy(calls)
  BY <1>1, <1>2, NilIsNoEndpoint DEF CreatedBy, Settled
<1>8. /\ DeletedBy(calls') \subseteq DeletedBy(calls)
      /\ DeletedBy(calls) \ {d} \subseteq DeletedBy(calls')
      /\ AskedBy(calls') \subseteq AskedBy(calls)
      /\ DeletedBy(calls') \subseteq AskedBy(calls')
      /\ calls[i].st = "failed" => DeletedBy(calls) = DeletedBy(calls')
  BY <1>1, <1>2, NilIsNoEndpoint DEF DeletedBy, AskedBy, Settled
<1>9. ASSUME Trusted, ~Reading PROVE ReadInv'
  <2>1. ListOK(ui.jobs, rows, Heard, CreatedBy(calls), DeletedBy(calls), AskedBy(calls))
    BY <1>9 DEF TruthInv, ListInv, ReadInv
  <2>2. CASE calls[i].st = "done"
    <3>1. d \in DeletedBy(calls)
      BY <1>1, <2>2 DEF DeletedBy, TruthInv, KnownInv, RowsInv, CallsKnown, CallKnown
    <3>2. ui.jobs \in Seq(Jobs) /\ rows \in Seq(Jobs)
      BY DEF TruthInv, KnownInv, RowsInv, PageInv
    <3> HIDE DEF d
    <3>3. ListOK(Without(ui.jobs, d), rows, Heard, CreatedBy(calls), DeletedBy(calls'),
                 AskedBy(calls'))
      BY <1>8, <2>1, <3>1, <3>2, ListDeleteTaken
    <3> QED BY <1>1, <1>5, <1>7, <2>2, <3>3 DEF ReadInv
  <2>3. CASE calls[i].st = "failed"
    <3>1. ListOK(ui.jobs, rows, Heard, CreatedBy(calls), DeletedBy(calls'),
                 AskedBy(calls'))
      BY <1>8, <2>1, <2>3, ListRefused
    <3> QED BY <1>1, <1>5, <1>7, <2>3, <3>1 DEF ReadInv
  <2> QED BY <1>1, <2>2, <2>3
<1> QED
  BY <1>3, <1>4, <1>5, <1>6, <1>9 DEF ListInv, UnreadInv, ReadInv

-----------------------------------------------------------------------------
LEMMA NextTruth == TruthInv /\ [Next]_vars => TruthInv'
<1> SUFFICES ASSUME TruthInv, [Next]_vars PROVE TruthInv'
  OBVIOUS
<1> DEFINE Goal == KnownInv' /\ PanelsInv' /\ ListInv'
<1>1. IInv'
  BY NextIInv DEF TruthInv
<1>2. OpenPage \/ LeavePage => Goal
  BY OpenTruth, LeaveTruth
<1>3. \A form \in Forms : handleCreate(form) => Goal
  BY CreateTruth
<1>4. \A j \in Jobs : toggleExecutions(j) \/ handleDelete(j) => Goal
  BY ToggleTruth, DeleteTruth
<1>5. \A j \in Jobs : CreateElsewhere(j) \/ DeleteElsewhere(j) => Goal
  BY ElsewhereTruth
<1>6. \A j \in Jobs : \A o \in Outcomes : JobRuns(j, o) => Goal
  BY RunTruth
<1>7. \A i \in Slots : Serve(i) => Goal
  BY ServeListTruth, ServeExecutionsTruth, ServeCreateTruth, ServeDeleteTruth,
     RefuseTruth DEF Serve
<1>8. \A i \in Slots : LoseAnswer(i) => Goal
  BY LoseAnswerTruth
<1>9. \A i \in Slots : Take(i) => Goal
  BY TakeListTruth, TakeExecutionsTruth, TakeCreateTruth, TakeDeleteTruth DEF Take
<1>10. UNCHANGED vars => Goal
  <2> SUFFICES ASSUME UNCHANGED vars PROVE Goal
    OBVIOUS
  <2>1. /\ rows' = rows /\ used' = used /\ history' = history /\ ui' = ui
        /\ calls' = calls /\ ghost' = ghost
    BY DEF vars
  <2>2. KnownInv'
    BY <2>1, RowsStay, PageStays DEF TruthInv, KnownInv, CallsKnown
  <2>3. PanelsInv'
    BY <2>1, PanelsStay DEF TruthInv
  <2>4. ListInv'
    BY <2>1, ListStays DEF TruthInv
  <2> QED BY <2>2, <2>3, <2>4
<1> HIDE DEF Goal
<1>11. Goal
  BY <1>2, <1>3, <1>4, <1>5, <1>6, <1>7, <1>8, <1>9, <1>10 DEF Next, User, Elsewhere
<1> QED
  BY <1>1, <1>11 DEF TruthInv, Goal

LEMMA TruthInvariance == Spec => []TruthInv
<1>1. Init => TruthInv
  BY InitIInv, InitTruth DEF TruthInv
<1> QED
  BY <1>1, NextTruth, PTL DEF Spec

\* An open panel never shows another job's runs, nor runs that did not happen,
\* and an empty one is waiting for its answer or was refused it.
THEOREM PanelsTrue == Spec => []PanelsTellTheTruth
<1>1. TruthInv => PanelsTellTheTruth
  <2> SUFFICES ASSUME TruthInv, ui.open, NEW j \in Jobs
               PROVE  /\ j \in ToSet(rows) /\ ui.executions[j] # Nil
                            => IsSuffix(ui.executions[j], history[j])
                      /\ Panel(j) = "empty table" =>
                            \/ ghost.missed
                            \/ \E i \in InFlight(calls, "jobs.executions") : calls[i].arg = j
    BY DEF PanelsTellTheTruth
  <2>1. ui.open = TRUE /\ ghost.missed \in BOOLEAN
    BY DEF TruthInv, IInv, UiInv, KnownInv, PageInv
  <2>2. j \in ToSet(rows) /\ ui.executions[j] # Nil => IsSuffix(ui.executions[j], history[j])
    BY DEF TruthInv, PanelsInv, ShownInv
  <2>3. Panel(j) = "empty table" => ui.expandedJob = j /\ ui.executions[j] = Nil
    BY DEF Panel
  <2> QED BY <2>1, <2>2, <2>3 DEF TruthInv, PanelsInv, WaitsInv, Asks
<1> QED
  BY <1>1, TruthInvariance, PTL

\* What is there once has one place, and a list of one job has that job.
LEMMA OnceIsOnePlace ==
    ASSUME NEW jobs, NEW j, Once(jobs, j)
    PROVE  Cardinality({ n \in DOMAIN jobs : jobs[n] = j }) <= 1
<1> DEFINE places == { n \in DOMAIN jobs : jobs[n] = j }
<1>1. \A m, n \in places : m = n
  BY DEF Once
<1> HIDE DEF places
<1>2. places = {} => Cardinality(places) = 0
  BY FS_EmptySet
<1>3. ASSUME places # {} PROVE Cardinality(places) = 1
  <2>1. PICK n \in places : places = {n}
    BY <1>1, <1>3
  <2> QED BY <2>1, FS_Singleton
<1>4. Cardinality(places) <= 1
  BY <1>2, <1>3
<1> QED
  BY <1>4 DEF places

LEMMA ToSetOfOne == \A k, j : /\ j \in ToSet(<<k>>) <=> j = k
                              /\ <<j>> = <<k>> <=> j = k
BY DEF ToSet

\* The list the page keeps by hand is the server's list, but for what is on its
\* way and for what the page cannot have heard of: for any number of jobs and
\* of requests, in whatever order they are answered, lost or overtaken.
THEOREM ListTrue == Spec => []ListIsAccountedFor
<1>1. TruthInv => ListIsAccountedFor
  <2> SUFFICES ASSUME TruthInv, ui.open, ~Pending(calls, "jobs.list"), ~ghost.early
               PROVE  ListIsAccountedFor
    BY DEF ListIsAccountedFor
  <2> DEFINE doneOf(kind) == { i \in InFlight(calls, kind) : calls[i].st = "done" }
             created == UNION { ToSet(calls[i].data) : i \in doneOf("jobs.create") }
             deleted == { calls[i].arg : i \in doneOf("jobs.delete") }
  <2>1. Trusted /\ ~Reading
    BY DEF TruthInv, IInv, UiInv, KnownInv, PageInv, Trusted, Reading, Pending
  <2>2. ListOK(ui.jobs, rows, Heard, CreatedBy(calls), DeletedBy(calls), AskedBy(calls))
    BY <2>1 DEF TruthInv, ListInv, ReadInv
  <2>3. \A j : j \in created <=> j \in CreatedBy(calls)
    <3>1. \A i \in doneOf("jobs.create") : \E k \in Jobs : calls[i].data = <<k>>
      BY DEF TruthInv, KnownInv, RowsInv, CallsKnown, CallKnown
    <3>2. \A i \in doneOf("jobs.create") : \A j :
              j \in ToSet(calls[i].data) <=> j \in Jobs /\ calls[i].data = <<j>>
      BY <3>1, ToSetOfOne
    <3> QED BY <3>2 DEF CreatedBy
  <2>4. \A j \in Jobs : j \in deleted <=> j \in DeletedBy(calls)
    BY DEF DeletedBy
  <2> HIDE DEF created, deleted
  <2>5. ASSUME NEW j \in Heard
        PROVE  /\ j \in ToSet(rows) <=> (Listed(j) /\ j \notin deleted) \/ j \in created
               /\ Cardinality({ n \in DOMAIN ui.jobs : ui.jobs[n] = j }) <= 1
    <3>1. j \in ToSet(rows) <=> (Listed(j) /\ j \notin deleted) \/ j \in created
      BY <2>2, <2>3, <2>4 DEF ListOK, Listed, Heard
    <3>2. Once(ui.jobs, j)
      BY <2>2 DEF ListOK
    <3> QED BY <3>1, <3>2, OnceIsOnePlace
  <2>6. ASSUME NEW a \in Heard, NEW b \in Heard, a \notin created \cup deleted,
               b \notin created \cup deleted
        PROVE  Before(ui.jobs, a, b) <=> Before(rows, a, b)
    <3>1. a \in Heard \ (CreatedBy(calls) \cup DeletedBy(calls))
      BY <2>3, <2>4, <2>6 DEF Heard
    <3>2. b \in Heard \ (CreatedBy(calls) \cup DeletedBy(calls))
      BY <2>3, <2>4, <2>6 DEF Heard
    <3> QED BY <2>2, <3>1, <3>2 DEF ListOK
  <2>7. /\ \A j \in Jobs : j \notin ghost.unseen =>
             /\ j \in ToSet(rows) <=> (Listed(j) /\ j \notin deleted) \/ j \in created
             /\ Cardinality({ n \in DOMAIN ui.jobs : ui.jobs[n] = j }) <= 1
        /\ \A a, b \in Jobs :
             /\ a \notin ghost.unseen /\ a \notin created \cup deleted
             /\ b \notin ghost.unseen /\ b \notin created \cup deleted
             => (Before(ui.jobs, a, b) <=> Before(rows, a, b))
    BY <2>5, <2>6 DEF Heard
  <2> QED BY <2>7 DEF ListIsAccountedFor, created, deleted
<1> QED
  BY <1>1, TruthInvariance, PTL
=============================================================================
