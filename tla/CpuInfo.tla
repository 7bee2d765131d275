------------------------------ MODULE CpuInfo ------------------------------
(***************************************************************************)
(* The CPU table that all the processes of a node share                    *)
(* (LB_comm/shmem_cpuinfo.c), and what one call of its helpers does to it. *)
(*                                                                         *)
(* The table is the record s.  An operator named after a C function takes  *)
(* the table before the call and gives the table after it; where the       *)
(* caller needs the C return value as well, the result is                  *)
(* [shm |-> table, error |-> code].  Every caller holds the shared-memory  *)
(* lock.  The loops over CPUs, and the lock, are in module LewiMask.       *)
(*                                                                         *)
(* The field "tasks" is the array_cpuinfo_task_t the caller passes by      *)
(* reference.  The policy only ever reads it grouped by pid, first the     *)
(* CPUs to enable and then those to disable, so it is a set.               *)
(***************************************************************************)
EXTENDS Integers, Sequences, FiniteSets, SequencesExt

CONSTANTS
  Cpu,                \* cpuids of the node, 0 .. node_size-1
  Pid,                \* processes (spids)
  NOBODY,             \* pid 0
  core_mask,          \* core_mask[c]: the CPUs of c's core
  MaxCpuRequests,     \* capacity of cpuinfo_t.requests
  MaxProcRequests,    \* capacity of shdata_t.lewi_mask_requests
  PublicPostMortem    \* cpu_is_public_post_mortem || !respect_cpuset

(* A core has one or two hardware threads (SMT-1 or SMT-2).                *)
ASSUME CpuInfoAssumption ==
  /\ Cpu \subseteq Nat /\ IsFiniteSet(Cpu)
  /\ NOBODY \notin Pid
  /\ core_mask \in [Cpu -> SUBSET Cpu]
  /\ \A c \in Cpu : c \in core_mask[c]
  /\ \A c, d \in Cpu : d \in core_mask[c] => core_mask[d] = core_mask[c]
  /\ \A c \in Cpu : \A d, e \in core_mask[c] \ {c} : d = e
  /\ MaxCpuRequests \in Nat \ {0}
  /\ MaxProcRequests \in Nat \ {0}
  /\ PublicPostMortem \in BOOLEAN

PidOrNobody == Pid \cup {NOBODY}

CpuState == {"DISABLED", "BUSY", "LENT"}

Task == [action : {"ENABLE", "DISABLE"}, pid : PidOrNobody, cpuid : Cpu]

ProcRequest == [pid : Pid, howmany : Nat \ {0}, allowed : SUBSET Cpu]

ShData ==
  [owner : [Cpu -> PidOrNobody],
   guest : [Cpu -> PidOrNobody],
   state : [Cpu -> CpuState],
   requests : [Cpu -> Seq(PidOrNobody)],
   free_cpus : SUBSET Cpu,
   occupied_cores : SUBSET Cpu,
   lewi_mask_requests : Seq(ProcRequest),
   queues_enabled : BOOLEAN,
   tasks : SUBSET Task]

(* A new table: zeroed memory, CPUs disabled and owned by nobody, or lent  *)
(* from the start when the registered cpuset is not respected.             *)
init_shmem(respect_cpuset) ==
  [owner |-> [c \in Cpu |-> NOBODY],
   guest |-> [c \in Cpu |-> NOBODY],
   state |-> [c \in Cpu |-> IF respect_cpuset THEN "DISABLED" ELSE "LENT"],
   requests |-> [c \in Cpu |-> <<>>],
   free_cpus |-> IF respect_cpuset THEN {} ELSE Cpu,
   occupied_cores |-> {},
   lewi_mask_requests |-> <<>>,
   queues_enabled |-> FALSE,
   tasks |-> {}]

hw_has_smt == \E c \in Cpu : core_mask[c] # {c}

EnableTask(p, c) == [action |-> "ENABLE", pid |-> p, cpuid |-> c]
DisableTask(p, c) == [action |-> "DISABLE", pid |-> p, cpuid |-> c]

-----------------------------------------------------------------------------
(* Predicates and redundant sets *)

core_is_eligible(s, pid, c) ==
  IF hw_has_smt
  THEN \A d \in core_mask[c] :
         /\ s.guest[d] \in {pid, NOBODY}
         /\ ~(s.state[d] = "BUSY" /\ s.owner[d] # pid)
  ELSE s.owner[c] = pid \/ s.guest[c] \in {pid, NOBODY}

core_is_occupied(s, own, c) ==
  own # NOBODY /\ \E d \in core_mask[c] : s.guest[d] \notin {NOBODY, own}

cpu_is_occupied(s, own, c) ==
  own # NOBODY /\ s.guest[c] \notin {NOBODY, own}

update_occupied_cores(s, own, c) ==
  LET occ == s.occupied_cores IN
  [s EXCEPT !.occupied_cores =
     IF cpu_is_occupied(s, own, c)
     THEN IF c \in occ THEN occ ELSE occ \cup core_mask[c]
     ELSE IF c \notin occ THEN occ
          ELSE IF core_is_occupied(s, own, c) THEN occ \cup core_mask[c]
          ELSE occ \ core_mask[c]]

-----------------------------------------------------------------------------
(* Requests *)

(* Indices of the queued requests that could take CPU c. *)
CpuCandidates(s, c) ==
  {i \in 1 .. Len(s.requests[c]) :
     /\ s.requests[c][i] # NOBODY
     /\ core_is_eligible(s, s.requests[c][i], c)}

ProcCandidates(s, c) ==
  {i \in 1 .. Len(s.lewi_mask_requests) :
     /\ c \in s.lewi_mask_requests[i].allowed
     /\ core_is_eligible(s, s.lewi_mask_requests[i].pid, c)}

(* Request i for CPU c, or request i for a number of CPUs, is served. *)
serve_cpu_request(s, c, i) ==
  [shm |-> [s EXCEPT !.requests[c] = RemoveAt(@, i)], pid |-> s.requests[c][i]]

serve_proc_request(s, i) ==
  [shm |-> IF s.lewi_mask_requests[i].howmany = 1
           THEN [s EXCEPT !.lewi_mask_requests = RemoveAt(@, i)]
           ELSE [s EXCEPT !.lewi_mask_requests[i].howmany = @ - 1],
   pid |-> s.lewi_mask_requests[i].pid]

(* The process that should use CPU c now: its owner if the CPU is claimed, *)
(* else the first eligible request for this CPU, else the first eligible   *)
(* request for a number of CPUs.  The request served is consumed.          *)
find_new_guest(s, c) ==
  IF s.state[c] = "BUSY" THEN [shm |-> s, pid |-> s.owner[c]]
  ELSE IF ~s.queues_enabled THEN [shm |-> s, pid |-> NOBODY]
  ELSE IF CpuCandidates(s, c) # {}
  THEN serve_cpu_request(s, c, Min(CpuCandidates(s, c)))
  ELSE IF ProcCandidates(s, c) # {}
  THEN serve_proc_request(s, Min(ProcCandidates(s, c)))
  ELSE [shm |-> s, pid |-> NOBODY]

(* The items of q at the positions in keep, in order. *)
Compact(q, keep) ==
  [k \in 1 .. Cardinality(keep) |->
     q[CHOOSE i \in keep : Cardinality({j \in keep : j <= i}) = k]]

(* queue_pid_t_remove and queue_lewi_mask_request_t_remove *)
queue_remove(q, pid) == Compact(q, {i \in 1 .. Len(q) : q[i] # pid})

remove_proc_requests(s, pid) ==
  [s EXCEPT !.lewi_mask_requests =
     Compact(@, {i \in 1 .. Len(@) : @[i].pid # pid})]

(* shmem_cpuinfo__remove_requests, and the head of deregister and reset    *)
(* (which skip the CPUs the process owns).                                 *)
remove_requests(s, pid, cpus) ==
  IF s.queues_enabled
  THEN LET t == remove_proc_requests(s, pid) IN
       [t EXCEPT !.requests =
          [c \in Cpu |-> IF c \in cpus THEN queue_remove(@[c], pid)
                         ELSE @[c]]]
  ELSE s

-----------------------------------------------------------------------------
(* Register and deregister one CPU *)

register_cpu(s, pid, preinit_pid, c) ==
  LET t == [s EXCEPT !.owner[c] = pid,
                     !.state[c] = "BUSY",
                     !.guest[c] = IF @ \in {NOBODY, preinit_pid} THEN pid ELSE @,
                     !.free_cpus = @ \ {c}]
  IN update_occupied_cores(t, pid, c)

(* Mutant: only the CPUs that the process owns are cleaned up. *)
deregister_cpu_owned(s, pid, c) ==
  IF s.owner[c] = pid
  THEN [s EXCEPT !.owner[c] = NOBODY,
                 !.guest[c] = IF @ = pid THEN NOBODY ELSE @,
                 !.state[c] = "DISABLED",
                 !.free_cpus = @ \ {c},
                 !.occupied_cores = @ \ core_mask[c]]
  ELSE s

deregister_cpu(s, pid, c) ==
  LET guest == IF s.guest[c] = pid THEN NOBODY ELSE s.guest[c] IN
  IF s.owner[c] = pid
  THEN [s EXCEPT
          !.owner[c] = NOBODY,
          !.guest[c] = guest,
          !.state[c] = IF PublicPostMortem THEN "LENT" ELSE "DISABLED",
          !.requests[c] = IF PublicPostMortem THEN @ ELSE <<>>,
          !.free_cpus = IF ~PublicPostMortem THEN @ \ {c}
                        ELSE IF guest = NOBODY THEN @ \cup {c} ELSE @,
          !.occupied_cores = @ \ core_mask[c]]
  ELSE [s EXCEPT
          !.guest[c] = guest,
          !.free_cpus = IF s.guest[c] = pid THEN @ \cup {c} ELSE @,
          !.requests[c] = IF s.queues_enabled THEN queue_remove(@, pid)
                          ELSE @]

-----------------------------------------------------------------------------
(* Lend one CPU *)

(* Offer the free CPU d to the process found for it, if any. *)
give_cpu(found, d) ==
  IF found.pid = NOBODY THEN found.shm
  ELSE [found.shm EXCEPT !.guest[d] = found.pid,
                         !.tasks = @ \cup {EnableTask(found.pid, d)}]

assign_guest(s, d) == give_cpu(find_new_guest(s, d), d)

(* The other CPU of the core, once c has a new guest: c may have been what *)
(* kept it from being eligible.                                            *)
clear_if_guested(s, d) ==
  IF s.guest[d] = NOBODY THEN s ELSE [s EXCEPT !.free_cpus = @ \ {d}]

assign_sibling(s, d) ==
  IF s.guest[d] # NOBODY THEN s ELSE clear_if_guested(assign_guest(s, d), d)

assign_siblings(s, c) ==
  IF core_mask[c] = {c} THEN s
  ELSE assign_sibling(s, CHOOSE d \in core_mask[c] : d # c)

(* The process gives the CPU up ...                                        *)
release_cpu(s, pid, c) ==
  [s EXCEPT !.state[c] = IF s.owner[c] = pid THEN "LENT" ELSE @,
            !.guest[c] = IF @ = pid THEN NOBODY ELSE @,
            !.requests[c] = IF s.owner[c] # pid /\ s.queues_enabled
                            THEN queue_remove(@, pid) ELSE @]

(* ... which is then free, unless somebody wants it.                       *)
after_offer(s, c) ==
  IF s.guest[c] = NOBODY THEN [s EXCEPT !.free_cpus = @ \cup {c}]
  ELSE assign_siblings(s, c)

(* Mutant: a lent CPU is given away whoever is using it. *)
offer_cpu_unchecked(s, c) ==
  after_offer(assign_guest([s EXCEPT !.guest[c] = NOBODY], c), c)

offer_cpu(s, c) ==
  IF s.guest[c] = NOBODY THEN after_offer(assign_guest(s, c), c) ELSE s

lend_cpu(s, pid, c) ==
  IF s.state[c] = "DISABLED" THEN s
  ELSE update_occupied_cores(offer_cpu(release_cpu(s, pid, c), c), s.owner[c], c)

-----------------------------------------------------------------------------
(* Reclaim, acquire, borrow and return one CPU *)

reclaim_cpu(s, pid, c) ==
  LET t == [s EXCEPT !.state[c] = "BUSY"] IN
  IF s.owner[c] # pid THEN [shm |-> s, error |-> "ERR_PERM"]
  ELSE IF s.guest[c] = pid THEN [shm |-> t, error |-> "NOUPDT"]
  ELSE IF s.guest[c] = NOBODY
  THEN [shm |-> [t EXCEPT !.guest[c] = pid, !.free_cpus = @ \ {c},
                          !.tasks = @ \cup {EnableTask(pid, c)}],
        error |-> "SUCCESS"]
  ELSE [shm |-> [t EXCEPT !.tasks =
                   @ \cup {DisableTask(s.guest[c], c), EnableTask(pid, c)}],
        error |-> "NOTED"]

(* shmem_cpuinfo__reclaim_cpu: on SMT hardware the rest of the core must   *)
(* be vacated too, although its CPUs are not marked as reclaimed.          *)
vacate_core(r, pid, c) ==
  IF r.error = "NOTED" /\ hw_has_smt
  THEN [r EXCEPT !.shm.tasks = @ \cup
          {DisableTask(r.shm.guest[d], d) :
             d \in {e \in core_mask[c] \ {c} : r.shm.guest[e] # pid}}]
  ELSE r

reclaim_cpu_and_core(s, pid, c) == vacate_core(reclaim_cpu(s, pid, c), pid, c)

(* The CPU is given to pid as guest. *)
take_cpu(s, pid, c) ==
  [s EXCEPT !.guest[c] = pid, !.tasks = @ \cup {EnableTask(pid, c)}]

(* occupied_cores when CPU c, not owned by its new guest, has been taken   *)
note_occupied(s, c) ==
  IF c \notin s.occupied_cores THEN update_occupied_cores(s, s.owner[c], c) ELSE s

(* Mutant: occupied_cores is not updated. *)
acquire_cpu_unnoted(s, pid, c) ==
  IF s.guest[c] = NOBODY /\ (s.owner[c] = pid \/ s.state[c] = "LENT")
  THEN [shm |-> [take_cpu(s, pid, c) EXCEPT
                   !.free_cpus = @ \ {c},
                   !.state[c] = IF s.owner[c] = pid THEN "BUSY" ELSE @],
        error |-> "SUCCESS"]
  ELSE [shm |-> s, error |-> "NOUPDT"]

acquire_cpu(s, pid, c) ==
  LET busy == [s EXCEPT !.state[c] = "BUSY"] IN
  IF s.guest[c] = pid THEN [shm |-> s, error |-> "NOUPDT"]
  ELSE IF s.owner[c] = pid /\ s.guest[c] = NOBODY
  THEN [shm |-> [take_cpu(busy, pid, c) EXCEPT !.free_cpus = @ \ {c}],
        error |-> "SUCCESS"]
  ELSE IF s.owner[c] = pid
  THEN [shm |-> note_occupied([busy EXCEPT !.tasks =
                   @ \cup {DisableTask(s.guest[c], c), EnableTask(pid, c)}], c),
        error |-> "NOTED"]
  ELSE IF s.guest[c] = NOBODY /\ s.state[c] = "LENT" /\ core_is_eligible(s, pid, c)
  THEN LET t == take_cpu(s, pid, c)
           u == IF s.owner[c] # NOBODY THEN note_occupied(t, c) ELSE t
       IN [shm |-> [u EXCEPT !.free_cpus = @ \ {c}], error |-> "SUCCESS"]
  ELSE IF s.queues_enabled
  THEN IF Len(s.requests[c]) < MaxCpuRequests
       THEN [shm |-> [s EXCEPT !.requests[c] = Append(@, pid)], error |-> "NOTED"]
       ELSE [shm |-> s, error |-> "ERR_REQST"]
  ELSE [shm |-> s,
        error |-> IF s.state[c] # "DISABLED" THEN "NOUPDT" ELSE "ERR_PERM"]

(* Mutant: the other CPUs of the core are not looked at. *)
borrow_cpu_ineligible(s, pid, c) ==
  IF s.state[c] = "LENT" /\ s.guest[c] = NOBODY
  THEN [shm |-> note_occupied([take_cpu(s, pid, c) EXCEPT !.free_cpus = @ \ {c}], c),
        error |-> "SUCCESS"]
  ELSE [shm |-> s, error |-> "NOUPDT"]

borrow_cpu(s, pid, c) ==
  LET can == s.guest[c] = NOBODY /\ core_is_eligible(s, pid, c)
      t == [take_cpu(s, pid, c) EXCEPT !.free_cpus = @ \ {c}] IN
  IF s.state[c] = "DISABLED" THEN [shm |-> s, error |-> "ERR_PERM"]
  ELSE IF can /\ s.owner[c] = pid
  THEN [shm |-> [t EXCEPT !.state[c] = "BUSY"], error |-> "SUCCESS"]
  ELSE IF can /\ s.state[c] = "LENT"
  THEN [shm |-> IF s.owner[c] # NOBODY THEN note_occupied(t, c) ELSE t,
        error |-> "SUCCESS"]
  ELSE [shm |-> s, error |-> "NOUPDT"]

(* Mutant: a CPU that is returned is free for anybody, also if claimed.    *)
vacate_cpu_for_all(s, c) ==
  update_occupied_cores([s EXCEPT !.guest[c] = NOBODY, !.free_cpus = @ \cup {c}], s.owner[c], c)

(* Who holds CPU c once its guest has left it: the owner if the CPU is     *)
(* claimed, else nobody.                                                   *)
vacate_cpu(s, c) ==
  LET t == IF s.state[c] = "BUSY" THEN [s EXCEPT !.guest[c] = s.owner[c]]
           ELSE [s EXCEPT !.guest[c] = NOBODY, !.free_cpus = @ \cup {c}]
  IN update_occupied_cores(t, s.owner[c], c)

(* Mutant: only CPUs that nobody has claimed are returned. *)
return_cpu_when_lent(s, pid, c) ==
  IF s.owner[c] = pid \/ s.guest[c] # pid \/ s.state[c] = "BUSY"
  THEN [shm |-> s, error |-> "NOUPDT"]
  ELSE [shm |-> [vacate_cpu(s, c) EXCEPT !.tasks = @ \cup {DisableTask(pid, c)}],
        error |-> "SUCCESS"]

return_cpu(s, pid, c) ==
  LET t == vacate_cpu(s, c) IN
  IF \/ s.owner[c] = pid
     \/ s.guest[c] # pid
     \/ s.state[c] = "LENT" /\ core_is_eligible(s, pid, c)
  THEN [shm |-> s, error |-> "NOUPDT"]
  ELSE [shm |-> [t EXCEPT !.tasks = @ \cup {DisableTask(pid, c)}],
        error |-> "SUCCESS"]

(* shmem_cpuinfo__return_async.  The debug build asserts                   *)
(* ReturnAsyncPre; the other builds go on regardless.                      *)
ReturnAsyncPre(s, pid, c) == s.owner[c] # pid /\ s.guest[c] = pid

enqueue_request(s, pid, c) ==
  IF Len(s.requests[c]) < MaxCpuRequests
  THEN [s EXCEPT !.requests[c] = Append(@, pid)] ELSE s

return_async(s, pid, c) == enqueue_request(vacate_cpu(s, c), pid, c)

-----------------------------------------------------------------------------
(* reclaim_core, acquire_core and borrow_core: try the CPUs of a core in   *)
(* turn, until one of them is neither obtained nor already guested.        *)

first_cpu(c) == CHOOSE d \in core_mask[c] : \A e \in core_mask[c] : d <= e
last_cpu(c) == CHOOSE d \in core_mask[c] : \A e \in core_mask[c] : e <= d

Obtained(r) == IF r.error \in {"SUCCESS", "NOTED"} THEN 1 ELSE 0

(* r is what the first CPU of the core gave and q what the last one gives  *)
(* after it; num is how many of them have been obtained.                   *)
core_result(pid, c, r, q) ==
  IF /\ first_cpu(c) # last_cpu(c)
     /\ Obtained(r) = 1 \/ r.shm.guest[first_cpu(c)] = pid
  THEN [shm |-> q.shm, num |-> Obtained(r) + Obtained(q)]
  ELSE [shm |-> r.shm, num |-> Obtained(r)]

reclaim_core(s, pid, c) ==
  LET r == reclaim_cpu(s, pid, first_cpu(c)) IN
  core_result(pid, c, r, reclaim_cpu(r.shm, pid, last_cpu(c)))

acquire_core(s, pid, c) ==
  LET r == acquire_cpu(s, pid, first_cpu(c)) IN
  core_result(pid, c, r, acquire_cpu(r.shm, pid, last_cpu(c)))

borrow_core(s, pid, c) ==
  LET r == borrow_cpu(s, pid, first_cpu(c)) IN
  core_result(pid, c, r, borrow_cpu(r.shm, pid, last_cpu(c)))

-----------------------------------------------------------------------------
(* One iteration of deregister, reset, and update_ownership *)

(* Policy shutdown: the CPU leaves the process, lent or disabled. *)
deregister_one(s, pid, c) ==
  LET lent == lend_cpu(s, pid, c)
      recl == reclaim_cpu(s, pid, c).shm
      dis == [recl EXCEPT !.guest[c] = IF @ = pid THEN NOBODY ELSE @,
                          !.state[c] = "DISABLED",
                          !.free_cpus = @ \ {c}]
      t == IF PublicPostMortem THEN lent ELSE dis IN
  IF s.owner[c] = pid
  THEN [t EXCEPT !.owner[c] = NOBODY, !.occupied_cores = @ \ {c}]
  ELSE IF s.guest[c] = pid THEN lent ELSE s

(* DLB_Disable: back to the initial assignment. *)
reset_one(s, pid, c) ==
  LET lent == lend_cpu(s, pid, c) IN
  IF s.owner[c] = pid THEN reclaim_cpu(s, pid, c).shm
  ELSE IF s.guest[c] = pid
  THEN [lent EXCEPT !.tasks = @ \cup {DisableTask(pid, c)}]
  ELSE s

(* The owner lends CPU c and stops using it (update_max_parallelism). *)
shed_cpu(s, pid, c) ==
  LET t == lend_cpu(s, pid, c) IN
  [t EXCEPT !.tasks = @ \cup {DisableTask(pid, c)}]

(* The new process mask is applied to CPU c. *)
own_cpu(s, pid, c) ==
  LET idle == s.guest[c] = NOBODY
      guest == IF idle THEN pid ELSE s.guest[c] IN
  [s EXCEPT !.owner[c] = pid,
            !.state[c] = "BUSY",
            !.guest[c] = guest,
            !.free_cpus = IF idle THEN @ \ {c} ELSE @,
            !.occupied_cores = IF idle THEN @ \ {c} ELSE @,
            !.tasks = @ \cup {EnableTask(pid, c)} \cup
                      (IF guest # pid THEN {DisableTask(guest, c)} ELSE {})]

disown_cpu(s, pid, c) ==
  LET used == s.guest[c] = pid IN
  [s EXCEPT !.owner[c] = NOBODY,
            !.state[c] = "DISABLED",
            !.guest[c] = IF used THEN NOBODY ELSE @,
            !.free_cpus = IF used THEN @ \ {c} ELSE @,
            !.tasks = IF used THEN @ \cup {DisableTask(pid, c)} ELSE @]

update_ownership_one(s, pid, process_mask, c) ==
  IF c \in process_mask
  THEN IF s.owner[c] = pid THEN s ELSE own_cpu(s, pid, c)
  ELSE IF s.owner[c] = pid THEN disown_cpu(s, pid, c)
  ELSE IF s.guest[c] = pid /\ s.state[c] = "BUSY" THEN return_cpu(s, pid, c).shm
  ELSE s

-----------------------------------------------------------------------------
(* What the sets free_cpus and occupied_cores are for *)

(* A CPU that its owner does not use can be found by the owner: the        *)
(* candidates of reclaim_all and reclaim_cpu_mask are free_cpus and        *)
(* occupied_cores, and a CPU outside both could never be reclaimed.        *)
NotHidden(s, c) ==
  s.owner[c] # NOBODY /\ s.guest[c] # s.owner[c]
    => c \in s.free_cpus \cup s.occupied_cores

(* A CPU of some process guested by another one is in occupied_cores: it   *)
(* is where return_all looks for the CPUs to give back.                    *)
OccupiedTracked(s, c) ==
  s.owner[c] # NOBODY /\ s.guest[c] \notin {NOBODY, s.owner[c]}
    => c \in s.occupied_cores

(* An idle CPU is in free_cpus: with free_cpus empty, borrow gives up.     *)
IdleTracked(s, c) ==
  s.state[c] = "LENT" /\ s.guest[c] = NOBODY => c \in s.free_cpus

(* The comment on free_cpus: "lent, non-guested CPUs (idle)".              *)
FreeIsIdle(s, c) ==
  c \in s.free_cpus => s.state[c] = "LENT" /\ s.guest[c] = NOBODY

=============================================================================
