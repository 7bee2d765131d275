----------------------------- MODULE LewiAsync -----------------------------
(***************************************************************************)
(* LeWI by numbers of CPUs in asynchronous mode: the policy                *)
(* LB_policies/lewi_async.c over the shared memory of                      *)
(* LB_comm/shmem_lewi_async.c, with the queue of requests of               *)
(* support/queues.c.                                                       *)
(*                                                                         *)
(* The operations on the shared memory run under its lock and are one      *)
(* step.  What follows the unlock is not: the process sets its own number  *)
(* of threads and then sends, one by one, the new numbers of the other     *)
(* processes to their helper threads.                                      *)
(*                                                                         *)
(* The queue of requests is a function: the order of its entries is only   *)
(* seen after qsort, which orders equal entries in any way.                *)
(***************************************************************************)
EXTENDS Integers, Sequences, FiniteSets, FiniteSetsExt, SequencesExt

CONSTANTS
  Pid,             \* processes
  initial_ncpus,   \* initial_ncpus[p]: what p starts with
  max_processes,   \* capacity of the list of processes
  node_size,       \* capacity of the array of requests to resolve
  ArgNcpus,        \* arguments of LendCpus, AcquireCpus and BorrowCpus
  MaxRequested,    \* bound on what one process may have requested
  MaxMsgs,         \* bound on the messages waiting for a helper
  Calls,           \* client operations that are allowed
  Threads,         \* whether the numbers of threads are followed
  UintSize         \* attached_nprocs counts modulo this

ASSUME LewiAsyncAssumption ==
  /\ initial_ncpus \in [Pid -> Nat]
  /\ max_processes \in Nat
  /\ node_size \in Nat
  /\ ArgNcpus \subseteq Nat \ {0}
  /\ MaxRequested \in Nat
  /\ MaxMsgs \in Nat
  /\ Threads \in BOOLEAN
  /\ IsFiniteSet(Pid)
  /\ UintSize \in Nat /\ UintSize > Cardinality(Pid)

(* The list has a place for each CPU of the node, unless the option        *)
(* --shm-size-multiplier asks for more.                                    *)
ASSUME OneProcessPerCpu == max_processes <= node_size

VARIABLES
  shdata,          \* the shared memory
  pc,              \* pc[p]: where process p is
  prev_requested,  \* prev_requested[p]: lewi_info->prev_requested
  num_threads,     \* num_threads[p]: the threads the runtime of p uses
  post,            \* post[p]: what p does after the unlock
  inbox            \* inbox[p]: messages SET_NUM_CPUS for the helper of p

vars == <<shdata, pc, prev_requested, num_threads, post, inbox>>

Nothing == -1

ShData == [idle_cpus : Nat, attached_nprocs : 0 .. UintSize - 1, requests : [Pid -> Nat],
           processes : SUBSET Pid, current_ncpus : [Pid -> Nat]]

PC == {"out", "open", "ready", "disabled", "blocked", "post", "noshmem",
       "closing", "finishing", "dead", "gone"}

Request == [pid : Pid, howmany : Nat]

Post == [ncpus : Nat \cup {Nothing}, msgs : SUBSET Request, next : PC]

NoPost == [ncpus |-> Nothing, msgs |-> {}, next |-> "out"]

EmptyShmem ==
  [idle_cpus |-> 0, attached_nprocs |-> 0, requests |-> [p \in Pid |-> 0],
   processes |-> {}, current_ncpus |-> [p \in Pid |-> 0]]

Init ==
  /\ shdata = EmptyShmem
  /\ pc = [p \in Pid |-> "out"]
  /\ prev_requested = [p \in Pid |-> 0]
  /\ num_threads = [p \in Pid |-> 0]
  /\ post = [p \in Pid |-> NoPost]
  /\ inbox = [p \in Pid |-> <<>>]

-----------------------------------------------------------------------------
(* queue_lewi_reqs_t *)

Min2(a, b) == IF a < b THEN a ELSE b

Total(q) == SumFunction(q)

(* The queue sorted by howmany, as pop_ncpus walks it: smallest first. *)
Orders(q) ==
  {ord \in SetToSeqs({p \in Pid : q[p] > 0}) :
     \A i, j \in 1 .. Len(ord) : i < j => q[ord[i]] <= q[ord[j]]}

(* Mutant: every share is computed from the CPUs there were at first. *)
pop_ncpus_fixed(q, ncpus, ord) ==
  [p \in Pid |-> IF q[p] = 0 THEN 0 ELSE Min2(ncpus \div Len(ord), q[p])]

(* The CPUs that each process gets: an even share of those that are left, *)
(* at most what it asked for, until maxreqs processes got some.           *)
pop_ncpus(q, ncpus, ord) ==
  LET n == Len(ord)
      left[k \in 0 .. n] ==
        IF k = 0 THEN ncpus
        ELSE left[k - 1] - Min2(left[k - 1] \div (n - k + 1), q[ord[k]])
      served(k) == {j \in 1 .. k - 1 : left[j] # left[j - 1]}
      ks(p) == {k \in 1 .. n : ord[k] = p /\ Cardinality(served(k)) < node_size} IN
  [p \in Pid |-> IF ks(p) = {} THEN 0 ELSE left[Max(ks(p)) - 1] - left[Max(ks(p))]]

-----------------------------------------------------------------------------
(* The shared memory.  An operation returns the possible results: the new  *)
(* contents, the requests to send, and whether it failed.                  *)

Plus(f, g) == [p \in Pid |-> f[p] + g[p]]

Minus(f, g) == [p \in Pid |-> f[p] - g[p]]

Resolved(popped, howmany) ==
  {[pid |-> p, howmany |-> howmany[p]] : p \in {q \in Pid : popped[q] > 0}}

lend_ncpus_to_shmem(s, ncpus) ==
  {LET popped == pop_ncpus(s.requests, ncpus, ord)
       current == Plus(s.current_ncpus, popped) IN
   [shdata |-> [s EXCEPT !.idle_cpus = @ + ncpus - Total(popped),
                         !.requests = Minus(@, popped),
                         !.current_ncpus = current],
    msgs |-> Resolved(popped, current),
    failed |-> FALSE] : ord \in Orders(s.requests)}

Surplus(s) ==
  [p \in Pid |-> IF p \in s.processes /\ s.current_ncpus[p] > initial_ncpus[p]
                 THEN s.current_ncpus[p] - initial_ncpus[p] ELSE 0]

(* Mutant: the victims keep their CPUs. *)
reclaim_from_shmem_kept(s, p, ncpus) ==
  {LET popped == pop_ncpus(Surplus(s), ncpus, ord) IN
   [shdata |-> [s EXCEPT !.requests = Plus(@, popped), !.current_ncpus[p] = @ + ncpus],
    msgs |-> Resolved(popped, s.current_ncpus), failed |-> FALSE] :
     ord \in Orders(Surplus(s))}

(* The victims ask for what they lose.  If the surplus is too small        *)
(* nothing changes, but the requests returned are those popped.            *)
reclaim_from_shmem(s, p, ncpus) ==
  {LET popped == pop_ncpus(Surplus(s), ncpus, ord)
       current == Minus(s.current_ncpus, popped) IN
   IF Total(popped) = ncpus
   THEN [shdata |-> [s EXCEPT !.requests = Plus(@, popped),
                              !.current_ncpus = [current EXCEPT ![p] = @ + ncpus]],
         msgs |-> Resolved(popped, current), failed |-> FALSE]
   ELSE [shdata |-> s, msgs |-> Resolved(popped, popped), failed |-> TRUE] :
     ord \in Orders(Surplus(s))}

(* At most ncpus of the idle CPUs. *)
borrow_idle(s, p, ncpus) ==
  LET n == Min2(s.idle_cpus, ncpus) IN
  [s EXCEPT !.idle_cpus = @ - n, !.current_ncpus[p] = @ + n]

(* Borrow first, reclaim what is left of ncpus. *)
borrow_and_reclaim(s, p, ncpus) ==
  LET b == borrow_idle(s, p, ncpus)
      rest == ncpus - (s.idle_cpus - b.idle_cpus) IN
  IF rest = 0 THEN {[shdata |-> b, msgs |-> {}, failed |-> FALSE]}
  ELSE reclaim_from_shmem(b, p, rest)

Deficit(s, p) ==
  IF s.current_ncpus[p] < initial_ncpus[p] THEN initial_ncpus[p] - s.current_ncpus[p] ELSE 0

reset_process(s, p) ==
  LET r == [s EXCEPT !.requests[p] = 0]
      excess == Surplus(s)[p] IN
  IF excess > 0
  THEN lend_ncpus_to_shmem([r EXCEPT !.current_ncpus[p] = initial_ncpus[p]], excess)
  ELSE borrow_and_reclaim(r, p, Deficit(s, p))

(* What a process asks for again after lending ncpus: its requests in the  *)
(* queue and the CPUs it lends that are not its own.                       *)
Requested(s, p, ncpus) == Min2(Surplus(s)[p], ncpus) + s.requests[p]

lend_cpus(s, p, ncpus) ==
  lend_ncpus_to_shmem([s EXCEPT !.requests[p] = 0, !.current_ncpus[p] = @ - ncpus], ncpus)

(* The requests of before are attended once the deficit is covered. *)
reclaim(s, p, prev) ==
  {LET a == borrow_idle(r.shdata, p, prev)
       rest == prev - (r.shdata.idle_cpus - a.idle_cpus) IN
   [r EXCEPT !.shdata = [a EXCEPT !.requests[p] = @ + rest]] :
     r \in borrow_and_reclaim(s, p, Deficit(s, p))}

(* Idle CPUs first, then those the process has lent, then a request. *)
acquire_cpus(s, p, ncpus) ==
  LET b == borrow_idle(s, p, ncpus)
      rest == ncpus - (s.idle_cpus - b.idle_cpus)
      n == Min2(rest, Deficit(b, p)) IN
  {LET noted == IF r.failed THEN rest ELSE rest - n IN
   [r EXCEPT !.shdata.requests[p] = @ + noted, !.failed = FALSE] :
     r \in IF n = 0 THEN {[shdata |-> b, msgs |-> {}, failed |-> FALSE]}
           ELSE reclaim_from_shmem(b, p, n)}

-----------------------------------------------------------------------------
(* The client operations *)

(* After the unlock p uses its current number of CPUs, tells the others    *)
(* and goes on as next.  If the numbers of threads are not followed that   *)
(* is not seen.                                                            *)
Done(p, r, next) ==
  /\ shdata' = r.shdata
  /\ IF Threads
     THEN /\ post' = [post EXCEPT ![p] = [ncpus |-> r.shdata.current_ncpus[p],
                                          msgs |-> r.msgs, next |-> next]]
          /\ pc' = [pc EXCEPT ![p] = "post"]
     ELSE pc' = [pc EXCEPT ![p] = next] /\ UNCHANGED post
  /\ UNCHANGED <<num_threads, inbox>>

(* An operation that failed changes the shared memory at most. *)
Failed(p, r, next) ==
  /\ shdata' = r.shdata
  /\ pc' = [pc EXCEPT ![p] = next]
  /\ UNCHANGED <<prev_requested, num_threads, post, inbox>>

Ready(p, name) == name \in Calls /\ pc[p] = "ready"

(* lewi_info keeps what was requested, unless it is nothing. *)
Remember(p, n) ==
  prev_requested' = [prev_requested EXCEPT ![p] = IF n > 0 THEN n ELSE @]

LendCpus(p) ==
  /\ Ready(p, "lend_cpus")
  /\ \E n \in ArgNcpus :
       /\ n <= shdata.current_ncpus[p]
       /\ Remember(p, Requested(shdata, p, n))
       /\ \E r \in lend_cpus(shdata, p, n) : Done(p, r, "ready")

(* shmem_lewi_async__lend_keep_cpus *)
LendKeepCpus(p, keep, next) ==
  LET n == shdata.current_ncpus[p] - keep IN
  IF n > 0
  THEN /\ Remember(p, Requested(shdata, p, n))
       /\ \E r \in lend_cpus(shdata, p, n) : Done(p, r, next)
  ELSE Failed(p, [shdata |-> shdata], next)

Lend(p) ==
  /\ Ready(p, "lend")
  /\ shdata.current_ncpus[p] > 1
  /\ LendKeepCpus(p, 1, "ready")

(* lewi_keep_cpu_on_blocking_call decides between one CPU and none. *)
IntoBlockingCall(p) ==
  /\ Ready(p, "block")
  /\ \E keep \in {0, 1} : LendKeepCpus(p, keep, "blocked")

(* Reclaim, also what OutOfBlockingCall does. *)
Reclaim(p) ==
  /\ Ready(p, "reclaim") \/ pc[p] = "blocked"
  /\ IF Deficit(shdata, p) > 0
     THEN \E r \in reclaim(shdata, p, prev_requested[p]) :
            IF r.failed THEN Failed(p, r, "ready")
            ELSE /\ Done(p, r, "ready")
                 /\ prev_requested' = [prev_requested EXCEPT ![p] = 0]
     ELSE Failed(p, [shdata |-> shdata], "ready")

(* lewi_async_AcquireCpus with a positive number. *)
Acquire(p, ncpus) ==
  /\ shdata.requests[p] + ncpus + prev_requested[p] <= MaxRequested
  /\ \E r \in acquire_cpus(shdata, p, ncpus + prev_requested[p]) : Done(p, r, "ready")
  /\ prev_requested' = [prev_requested EXCEPT ![p] = 0]

AcquireCpus(p) ==
  /\ Ready(p, "acquire_cpus")
  /\ \E n \in ArgNcpus : Acquire(p, n)

(* AcquireCpus with DLB_DELETE_REQUESTS *)
RemoveRequests(p) ==
  /\ Ready(p, "delete_requests")
  /\ shdata' = [shdata EXCEPT !.requests[p] = 0]
  /\ prev_requested' = [prev_requested EXCEPT ![p] = 0]
  /\ UNCHANGED <<pc, num_threads, post, inbox>>

(* Borrow passes INT_MAX. *)
BorrowCpus(p) ==
  /\ Ready(p, "borrow_cpus")
  /\ shdata.idle_cpus > 0
  /\ \E n \in ArgNcpus \cup {shdata.idle_cpus} :
       Done(p, [shdata |-> borrow_idle(shdata, p, n), msgs |-> {}], "ready")
  /\ UNCHANGED prev_requested

(* Nothing is reset if the process has its initial number of CPUs. *)
Disable(p) ==
  LET excess == Surplus(shdata)[p] IN
  /\ Ready(p, "disable")
  /\ IF shdata.current_ncpus[p] # initial_ncpus[p]
     THEN \E r \in reset_process(shdata, p) :
            IF r.failed THEN Failed(p, r, "disabled")
            ELSE Done(p, r, "disabled") /\ Remember(p, shdata.requests[p] + excess)
     ELSE Failed(p, [shdata |-> shdata], "disabled")

(* What was requested is acquired again; AcquireCpus adds prev_requested. *)
Enable(p) ==
  /\ pc[p] = "disabled"
  /\ IF prev_requested[p] > 0 THEN Acquire(p, prev_requested[p])
     ELSE Failed(p, [shdata |-> shdata], "ready")

-----------------------------------------------------------------------------
(* After the unlock *)

(* update_threads: at least one. *)
update_threads(n) == IF n < 1 THEN 1 ELSE n

SetNumThreads(p) ==
  /\ pc[p] = "post"
  /\ post[p].ncpus # Nothing
  /\ num_threads' = [num_threads EXCEPT ![p] = update_threads(post[p].ncpus)]
  /\ post' = [post EXCEPT ![p].ncpus = Nothing]
  /\ UNCHANGED <<shdata, pc, prev_requested, inbox>>

(* Processes whose helper can be found. *)
HasHelper(p) == pc[p] \notin {"out", "dead", "gone"}

(* shmem_async_set_num_cpus *)
Send(p) ==
  \E m \in post[p].msgs :
    /\ pc[p] \in {"post", "finishing"}
    /\ post[p].ncpus = Nothing
    /\ Len(inbox[m.pid]) < MaxMsgs
    /\ post' = [post EXCEPT ![p].msgs = @ \ {m}]
    /\ inbox' = IF HasHelper(m.pid) THEN [inbox EXCEPT ![m.pid] = Append(@, m.howmany)]
                ELSE inbox
    /\ UNCHANGED <<shdata, pc, prev_requested, num_threads>>

EndCall(p) ==
  /\ pc[p] = "post"
  /\ post[p].ncpus = Nothing /\ post[p].msgs = {}
  /\ pc' = [pc EXCEPT ![p] = post[p].next]
  /\ post' = [post EXCEPT ![p] = NoPost]
  /\ UNCHANGED <<shdata, prev_requested, num_threads, inbox>>

(* The helper thread of p; the callbacks are gone once p finalizes. *)
HelperStep(p) ==
  /\ inbox[p] # <<>>
  /\ inbox' = [inbox EXCEPT ![p] = Tail(@)]
  /\ num_threads' = IF pc[p] \in {"closing", "finishing"} THEN num_threads
                    ELSE [num_threads EXCEPT ![p] = update_threads(Head(inbox[p]))]
  /\ UNCHANGED <<shdata, pc, prev_requested, post>>

-----------------------------------------------------------------------------
(* Coming and going *)

(* The processes that the shared memory lists as attached. *)
Attached == {p \in Pid : pc[p] \notin {"out", "gone", "noshmem", "finishing"}}

(* shmem_init cleans up the processes that died: cleanup_shmem only counts *)
(* them out.                                                               *)
Open(p) ==
  LET dead == {q \in Pid : pc[q] = "dead"}
      n == shdata.attached_nprocs - Cardinality(dead) IN
  /\ pc[p] = "out"
  /\ shdata' = [shdata EXCEPT !.attached_nprocs = IF n < 0 THEN 0 ELSE n]
  /\ pc' = [q \in Pid |-> IF q = p THEN "open" ELSE IF q \in dead THEN "gone" ELSE pc[q]]
  /\ UNCHANGED <<prev_requested, num_threads, post, inbox>>

(* The last process to detach deletes the shared memory if it is empty. *)
close_shmem(s, p) ==
  IF Attached = {p} /\ s.attached_nprocs = 0 THEN EmptyShmem ELSE s

(* lewi_async_Init ignores that the list of processes is full. *)
LewiInit(p) ==
  LET s == IF shdata.attached_nprocs = 0
           THEN [shdata EXCEPT !.idle_cpus = 0, !.requests = [q \in Pid |-> 0]]
           ELSE shdata IN
  /\ pc[p] = "open"
  /\ num_threads' = [num_threads EXCEPT ![p] = update_threads(initial_ncpus[p])]
  /\ IF Cardinality(s.processes) < max_processes
     THEN /\ shdata' = [s EXCEPT !.attached_nprocs = (@ + 1) % UintSize,
                                 !.processes = @ \cup {p},
                                 !.current_ncpus[p] = initial_ncpus[p]]
          /\ pc' = [pc EXCEPT ![p] = "ready"]
     ELSE /\ shdata' = close_shmem(s, p)
          /\ pc' = [pc EXCEPT ![p] = "noshmem"]
  /\ UNCHANGED <<prev_requested, post, inbox>>

(* shmem_lewi_async__finalize; a failed reclaim does not stop it. *)
Finalize(p) ==
  /\ "finish" \in Calls
  /\ pc[p] \in {"ready", "disabled"}
  /\ \E r \in reset_process(shdata, p) :
       /\ shdata' = [r.shdata EXCEPT !.processes = @ \ {p}, !.current_ncpus[p] = 0,
                                     !.attached_nprocs = (@ - 1) % UintSize]
       /\ post' = [post EXCEPT ![p] = [NoPost EXCEPT !.msgs = IF Threads THEN r.msgs ELSE {}]]
  /\ pc' = [pc EXCEPT ![p] = "closing"]
  /\ prev_requested' = [prev_requested EXCEPT ![p] = 0]
  /\ UNCHANGED <<num_threads, inbox>>

Close(p) ==
  /\ pc[p] = "closing"
  /\ shdata' = close_shmem(shdata, p)
  /\ pc' = [pc EXCEPT ![p] = "finishing"]
  /\ UNCHANGED <<prev_requested, num_threads, post, inbox>>

(* shmem_async_finalize joins the helper. *)
Leave(p) ==
  /\ pc[p] = "noshmem" \/ (pc[p] = "finishing" /\ post[p].msgs = {})
  /\ inbox[p] = <<>>
  /\ pc' = [pc EXCEPT ![p] = "out"]
  /\ num_threads' = [num_threads EXCEPT ![p] = 0]
  /\ UNCHANGED <<shdata, prev_requested, post, inbox>>

(* A crash outside the lock. *)
Crash(p) ==
  /\ "crash" \in Calls
  /\ pc[p] \notin {"out", "dead", "gone", "noshmem", "finishing"}
  /\ pc' = [pc EXCEPT ![p] = "dead"]
  /\ post' = [post EXCEPT ![p] = NoPost]
  /\ inbox' = [inbox EXCEPT ![p] = <<>>]
  /\ prev_requested' = [prev_requested EXCEPT ![p] = 0]
  /\ num_threads' = [num_threads EXCEPT ![p] = 0]
  /\ UNCHANGED shdata

-----------------------------------------------------------------------------
Next ==
  \E p \in Pid :
    \/ Open(p) \/ LewiInit(p)
    \/ LendCpus(p) \/ Lend(p) \/ IntoBlockingCall(p)
    \/ Reclaim(p)
    \/ AcquireCpus(p) \/ RemoveRequests(p) \/ BorrowCpus(p)
    \/ Disable(p) \/ Enable(p)
    \/ SetNumThreads(p) \/ Send(p) \/ EndCall(p) \/ HelperStep(p)
    \/ Finalize(p) \/ Close(p) \/ Leave(p) \/ Crash(p)

Spec == Init /\ [][Next]_vars

-----------------------------------------------------------------------------
(* Properties *)

(* Types; in particular no unsigned counter of CPUs goes below zero. *)
TypeOK ==
  /\ shdata \in ShData
  /\ pc \in [Pid -> PC]
  /\ prev_requested \in [Pid -> Nat]
  /\ num_threads \in [Pid -> Nat]
  /\ post \in [Pid -> Post]
  /\ inbox \in [Pid -> Seq(Nat)]

(* cleanup_shmem counts a dead process out and does nothing else, not even *)
(* see whether it was counted: the next process to initialize may reset    *)
(* idle_cpus while others use the table.                                   *)
NobodyDied == \A p \in Pid : pc[p] \notin {"dead", "gone"}

(* Lending, reclaiming and leaving neither create nor lose CPUs: the idle  *)
(* ones and those in use add up to what the processes started with, while   *)
(* no process dies (shmem_lewi_async.c keeps no other account of them).    *)
CpusConserved ==
  NobodyDied =>
    shdata.idle_cpus + SumFunctionOnSet(shdata.current_ncpus, shdata.processes)
      = SumFunctionOnSet(initial_ncpus, shdata.processes)

(* No CPU is idle while some process asks for one (lend_ncpus_to_shmem and *)
(* the even distribution of queue_lewi_reqs_pop_ncpus), and every request  *)
(* is of a process in the list: lend_ncpus_to_shmem uses what get_process  *)
(* returns for it without a test.                                          *)
RequestsAreServed ==
  /\ shdata.idle_cpus > 0 => \A p \in Pid : shdata.requests[p] = 0
  /\ \A p \in Pid : shdata.requests[p] > 0 => p \in shdata.processes

(* A process that reclaims has all its CPUs afterwards, whoever has them   *)
(* (shmem_lewi_async__reclaim, reclaim_from_shmem), while nobody dies.     *)
ReclaimRestores ==
  [][\A p \in Pid : NobodyDied /\ pc[p] = "blocked" /\ pc'[p] \in {"ready", "post"}
       => shdata'.current_ncpus[p] >= initial_ncpus[p]]_vars

(* dlb.h: "While DLB is disabled there will not be any resource sharing    *)
(* for this process."                                                      *)
DisabledKeepsInitial ==
  \A p \in Pid : pc[p] = "disabled" => shdata.current_ncpus[p] = initial_ncpus[p]

(* lewi_async_Enable: "Restore previously requested CPUs". *)
EnableRestores ==
  [][\A p \in Pid : pc[p] = "disabled" /\ pc'[p] = "post" =>
       (shdata'.current_ncpus[p] + shdata'.requests[p])
         - (shdata.current_ncpus[p] + shdata.requests[p]) = prev_requested[p]]_vars

(* shmem_lewi_async.c: "the request is updated to call the appropriate     *)
(* set_num_threads".  When every message has been handled, a process uses  *)
(* as many threads as it has CPUs.                                         *)
ThreadsMatchCpus ==
  (\A p \in Pid : inbox[p] = <<>> /\ post[p] = NoPost)
    => \A p \in Pid : pc[p] = "ready" =>
         num_threads[p] = update_threads(shdata.current_ncpus[p])

=============================================================================
