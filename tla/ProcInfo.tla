------------------------------ MODULE ProcInfo ------------------------------
(***************************************************************************)
(* DROM: the table of processes and their masks                            *)
(* (LB_comm/shmem_procinfo.c), as the processes that register in it and an *)
(* administrator (a DROM client such as dlb_taskset or a job launcher) use *)
(* it.  Every function runs under the lock of the shared memory and is one *)
(* step, except the synchronous ones: they release the lock while they     *)
(* wait for other processes to poll, and their progress is kept in call.   *)
(***************************************************************************)
EXTENDS Integers, FiniteSets, FiniteSetsExt

CONSTANTS
  Cpu,            \* the CPUs of the node
  Pid,            \* the processes that may register
  NOBODY,         \* the pid of an empty slot
  Admin,          \* the DROM client
  MaxProcesses,   \* max_processes: the capacity of process_info
  Parent,         \* Parent[p]: the parent process, or NOBODY
  Sharing,        \* the processes that register with allow_cpu_sharing
  StartMasks,     \* the cpusets processes start with
  ArgMasks,       \* the cpusets DROM clients pass
  Sync,           \* the values of DLB_SYNC_QUERY clients use
  ReturnStolen,   \* the values of DLB_RETURN_STOLEN clients use
  Clients         \* the callers of setprocessmask on other processes

ASSUME ProcInfoAssumption ==
  /\ NOBODY \notin Pid /\ Admin \notin Pid \cup {NOBODY}
  /\ MaxProcesses \in Nat \ {0}
  /\ Parent \in [Pid -> Pid \cup {NOBODY}]
  /\ \A S \in SUBSET Pid : S # {} => \E p \in S : Parent[p] \notin S   \* no cycles
  /\ Sharing \subseteq Pid
  /\ StartMasks \subseteq SUBSET Cpu /\ ArgMasks \subseteq SUBSET Cpu
  /\ Sync \subseteq BOOLEAN /\ ReturnStolen \subseteq BOOLEAN
  /\ Clients \subseteq Pid \cup {Admin}

VARIABLES
  shm,        \* the shared memory
  my_pinfo,   \* my_pinfo[p]: the slot p remembers as its own, 0 for NULL
  up,         \* up[p]: whether p has not registered, is registered, is dead
  call,       \* call[x]: the synchronous call x waits in
  broken      \* history: a synchronous steal ended without its CPUs

vars == <<shm, my_pinfo, up, call, broken>>

Slot == 1..MaxProcesses

EmptySlot == [pid |-> NOBODY, dirty |-> FALSE, preregistered |-> FALSE,
              current |-> {}, future |-> {}, stolen |-> {}]

(* The memory as shm_open and memset leave it. *)
ZeroShm == [info |-> [s \in Slot |-> EmptySlot], num |-> 0, free |-> {},
            mode |-> "none", pidlist |-> {}]

NoCall == [phase |-> "idle"]

(* A synchronous setprocessmask whose change is made and not yet adopted. *)
Adopting == [phase |-> "poll"]

Stealing(x) == call[x].phase \in {"steal", "stolen", "timeout"}

Init ==
  /\ shm = ZeroShm
  /\ my_pinfo = [p \in Pid |-> 0]
  /\ up = [p \in Pid |-> "out"]
  /\ call = [x \in Clients |-> NoCall]
  /\ broken = FALSE

-----------------------------------------------------------------------------
(* Functions on the table *)

(* The mask a process has been told to use. *)
Effective(e) == IF e.dirty THEN e.future ELSE e.current

Registered(T) == {s \in 1..T.num : T.info[s].pid # NOBODY}

is_shmem_empty(T) == Registered(T) = {}

(* The slot of pid, or of its closest registered ancestor; 0 for NULL.     *)
(* mine is the slot the caller remembers as its own.                       *)
get_process(T, mine, pid) ==
  LET at(p) == {s \in 1..T.num : T.info[s].pid = p}
      find[p \in Pid] ==
        IF mine # 0 /\ T.info[mine].pid = p THEN mine
        ELSE IF at(p) # {} THEN Min(at(p))
        ELSE IF Parent[p] = NOBODY THEN 0 ELSE find[Parent[p]]
  IN  find[pid]

(* shmem_consistency_check_pids calls this for every dead attached pid. *)
cleanup_shmem(T, dead) ==
  LET gone == {s \in 1..T.num : T.info[s].pid \in dead}
      U == [T EXCEPT !.free = @ \cup UNION {Effective(T.info[s]) : s \in gone},
                     !.info = [s \in Slot |-> IF s \in gone THEN EmptySlot ELSE @[s]]]
  IN  IF dead = {} THEN T
      ELSE IF is_shmem_empty(U) THEN [ZeroShm EXCEPT !.pidlist = T.pidlist \ dead]
      ELSE [U EXCEPT !.pidlist = @ \ dead]

Dead == {p \in Pid : up[p] = "dead"}

(* Clients that have the memory open do not check its consistency again. *)
open_shmem(x) ==
  IF x \in shm.pidlist THEN shm
  ELSE LET T == cleanup_shmem(shm, Dead \cap shm.pidlist)
       IN  [T EXCEPT !.pidlist = @ \cup {x}]

(* The last process to leave an empty table removes it. *)
close_shmem(T, x) ==
  IF T.pidlist \subseteq {x} /\ is_shmem_empty(T) THEN ZeroShm
  ELSE [T EXCEPT !.pidlist = @ \ {x}]

Shared(T) == T.mode = "shared"

CanRegister(T, mask) == mask = {} \/ Shared(T) \/ mask \subseteq T.free

Unfree(T, mask) == IF Shared(T) THEN T ELSE [T EXCEPT !.free = @ \ mask]

(* Only where CanRegister holds; the code returns an error elsewhere. *)
register_mask(T, s, mask) ==
  IF mask = {} \/ Shared(T) THEN T
  ELSE [Unfree(T, mask) EXCEPT !.info[s].future = @ \cup mask,
                               !.info[s].stolen = @ \ mask,
                               !.info[s].dirty = TRUE]

(* Mutant: CPUs returned to the process they were stolen from stay free. *)
unregister_mask_doubled(T, s, mask, return_stolen) ==
  LET losers(c) == {k \in Registered(T) : c \in T.info[k].stolen}
      back(k) == {c \in mask : return_stolen /\ losers(c) # {} /\ Min(losers(c)) = k}
  IN  IF mask = {} \/ Shared(T) THEN T
      ELSE [T EXCEPT
              !.free = @ \cup mask,
              !.info = [k \in Slot |->
                 [T.info[k] EXCEPT !.future = (@ \cup back(k)) \ (IF k = s THEN mask ELSE {}),
                                   !.stolen = @ \ back(k),
                                   !.dirty = @ \/ k = s \/ back(k) # {}]]]

(* A CPU goes back to the first process it was stolen from, or is free. *)
unregister_mask(T, s, mask, return_stolen) ==
  LET losers(c) == {k \in Registered(T) : c \in T.info[k].stolen}
      back(k) == {c \in mask : return_stolen /\ losers(c) # {} /\ Min(losers(c)) = k}
      given == UNION {back(k) : k \in Slot}
  IN  IF mask = {} \/ Shared(T) THEN T
      ELSE [T EXCEPT
              !.free = @ \cup (mask \ given),
              !.info = [k \in Slot |->
                 [T.info[k] EXCEPT !.future = (@ \cup back(k)) \ (IF k = s THEN mask ELSE {}),
                                   !.stolen = @ \ back(k),
                                   !.dirty = @ \/ k = s \/ back(k) # {}]]]

(* The processes steal_mask goes through, in slot order, until nothing is  *)
(* left to steal.                                                          *)
Victims(T, s, mask) ==
  LET having == {k \in Registered(T) \ {s} : T.info[k].current \cap mask # {}}
      before(k) == UNION {T.info[j].current : j \in {i \in having : i < k}}
  IN  {k \in having : ~ mask \subseteq before(k)}

(* The dry run. *)
CanSteal(T, s, mask) ==
  LET V == Victims(T, s, mask)
  IN  /\ mask \subseteq UNION {T.info[k].current : k \in V}
      /\ \A k \in V : ~ T.info[k].dirty

TakeFromVictims(T, s, mask) ==
  LET V == Victims(T, s, mask)
  IN  [T EXCEPT !.info = [k \in Slot |->
         IF k \notin V THEN T.info[k]
         ELSE [T.info[k] EXCEPT !.dirty = TRUE,
                                !.future = T.info[k].current \ mask,
                                !.stolen = @ \cup (T.info[k].current \cap mask)]]]

GiveToThief(T, s, mask) ==
  IF mask = {} THEN T
  ELSE [T EXCEPT !.info[s].future = @ \cup mask,
                 !.info[s].stolen = @ \ mask,
                 !.info[s].dirty = TRUE]

(* Mutant: a steal that fails gives nothing back. *)
RollBackNothing(T, s, mask) == T

(* "warning: we may return some CPU to a wrong process if more than one    *)
(* contains that CPU as stolen"                                            *)
RollBack(T, s, mask) ==
  [T EXCEPT !.info = [k \in Slot |->
     LET back == T.info[k].stolen \cap mask
         future == T.info[k].future \cup back
     IN  IF k \notin Registered(T) \ {s} \/ back = {} THEN T.info[k]
         ELSE [T.info[k] EXCEPT !.future = future, !.stolen = @ \ back,
                                !.dirty = (T.info[k].current # future)]]]

(* What set_new_mask does with each CPU, decided before any lock release. *)
Split(T, s, mask) ==
  [acquire |-> mask \cap T.free,
   steal |-> mask \ (T.free \cup T.info[s].current),
   free |-> T.info[s].current \ mask]

(* The rest of set_new_mask once the CPUs to steal have been obtained. *)
Rearrange(T, s, w, return_stolen) ==
  unregister_mask(register_mask(GiveToThief(T, s, w.steal), s, w.acquire),
                  s, w.free, return_stolen)

Settle(T, s) == [T EXCEPT !.info[s].current = T.info[s].future, !.info[s].dirty = FALSE]

-----------------------------------------------------------------------------
(* Registration *)

(* The first process initialises the memory; later ones must agree on CPU  *)
(* sharing.                                                                *)
Prepare(T, mode) ==
  CASE T.mode = "none" -> [T EXCEPT !.mode = mode, !.free = Cpu, !.num = 0]
    [] T.mode = "unknown" -> [T EXCEPT !.mode = mode]
    [] OTHER -> T

ModeOf(p) == IF p \in Sharing THEN "shared" ELSE "exclusive"

(* The loop over process_info: the spots it finds before it stops, and     *)
(* whether it meets a registered process it must not meet.  It stops as    *)
(* soon as it has an empty spot and, if needed, the preregistered process. *)
Scan(T, p, preinit_pid) ==
  LET empties == {s \in 1..T.num : T.info[s].pid = NOBODY}
      pres == {s \in 1..T.num : preinit_pid # NOBODY /\ T.info[s].pid = preinit_pid}
      complete(s) == /\ \E e \in empties : e <= s
                     /\ preinit_pid = NOBODY \/ \E q \in pres : q <= s
      looked == {s \in 1..T.num : \A j \in 1..(s - 1) : ~ complete(j)}
      pre == IF pres \cap looked = {} THEN 0 ELSE Min(pres \cap looked)
  IN  [pre |-> pre,
       empty |-> IF empties \cap looked # {} THEN Min(empties \cap looked)
                 ELSE IF T.num < MaxProcesses THEN T.num + 1 ELSE 0,
       clash |-> \/ pre # 0 /\ ~ T.info[pre].preregistered
                 \/ \E s \in looked \ {pre} : T.info[s].pid = p]

GrowTo(T, s) == [T EXCEPT !.num = IF s > @ THEN s ELSE @]

Fill(e, p, mask) ==
  [e EXCEPT !.pid = p, !.preregistered = FALSE, !.current = mask, !.future = mask]

(* Process p registers: a new spot, or that of a preregistered process     *)
(* (A: inherited; B: expanded; C: part of it; D: part of it and more).     *)
(* ok tells whether DLB_Init goes on; a refused one closes the memory.     *)
InitOutcome(T, p, preinit_pid, mask) ==
  LET f == Scan(T, p, preinit_pid)
      e == f.empty
      s == f.pre
      pre == T.info[s]
      pre_mask == Effective(pre)
      extra == mask \ pre_mask
      fail == [ok |-> FALSE, T |-> T, at |-> 0]
      done(U, at) == [ok |-> TRUE, T |-> U, at |-> at]
      without == [pre EXCEPT !.current = @ \ mask, !.future = @ \ mask]
  IN  IF f.clash THEN fail
      ELSE IF s = 0 THEN
        IF e = 0 THEN fail
        ELSE IF CanRegister(T, mask)
        THEN done(GrowTo([Unfree(T, mask) EXCEPT !.info[e] = Fill(EmptySlot, p, mask)], e), e)
        ELSE [ok |-> FALSE, T |-> GrowTo([T EXCEPT !.info[e] = EmptySlot], e), at |-> e]
      ELSE IF mask \in {{}, pre_mask}
      THEN done([T EXCEPT !.info[s].pid = p, !.info[s].preregistered = FALSE], s)
      ELSE IF pre.dirty \/ (e = 0 /\ ~ pre_mask \subseteq mask) \/ ~ CanRegister(T, extra)
      THEN fail
      ELSE IF pre_mask \subseteq mask
      THEN done([Unfree(T, extra) EXCEPT !.info[s] = Fill(pre, p, mask)], s)
      ELSE LET spot == IF mask \subseteq pre_mask THEN EmptySlot ELSE T.info[e]
           IN  done(GrowTo([Unfree(T, extra) EXCEPT !.info[e] = Fill(spot, p, mask),
                                                    !.info[s] = without], e), e)

(* A launcher starts a process once its DLB_DROM_PreInit has returned. *)
Startable(p) ==
  /\ up[p] = "out"
  /\ \A x \in Clients :
       ~ (Stealing(x) /\ call[x].preinit /\ call[x].was.pid = p)

(* A process is started with the pid the launcher preregistered, if any:   *)
(* its own or its parent's.                                                *)
ProcInit(p) ==
  /\ Startable(p)
  /\ \E preinit_pid \in {NOBODY, p, Parent[p]}, mask \in StartMasks :
       LET T == Prepare(open_shmem(p), ModeOf(p))
           out == InitOutcome(T, p, preinit_pid, mask)
           compatible == T.mode = ModeOf(p)
       IN  /\ shm' = IF compatible /\ out.ok THEN out.T
                     ELSE IF compatible THEN close_shmem(out.T, p)
                     ELSE close_shmem(T, p)
           /\ up' = IF compatible /\ out.ok THEN [up EXCEPT ![p] = "in"] ELSE up
           /\ my_pinfo' = IF compatible /\ out.at # 0 THEN [my_pinfo EXCEPT ![p] = out.at]
                          ELSE my_pinfo
  /\ UNCHANGED <<call, broken>>

(* Removes what get_process finds for pid. *)
Remove(T, mine, pid, return_stolen) ==
  LET s == get_process(T, mine, pid)
      U == unregister_mask(T, s, Effective(T.info[s]), return_stolen)
  IN  IF s = 0 THEN T ELSE [U EXCEPT !.info[s] = EmptySlot]

(* shmem_procinfo__finalize: also of a process that was preregistered and  *)
(* never called DLB_Init, which has to open the memory first.              *)
ProcFinalize(p, return_stolen) ==
  /\ up[p] = "in" /\ (p \in Clients => call[p] = NoCall)
  /\ shm' = close_shmem(Remove(shm, my_pinfo[p], p, return_stolen), p)
  /\ up' = [up EXCEPT ![p] = "out"]
  /\ my_pinfo' = [my_pinfo EXCEPT ![p] = 0]
  /\ UNCHANGED <<call, broken>>

Preregistered(T) == {T.info[s].pid : s \in {k \in 1..T.num : T.info[k].preregistered}}

FinalizeUnopened(p, return_stolen) ==
  /\ up[p] = "out" /\ p \in Preregistered(shm)
  /\ shm' = close_shmem(Remove(open_shmem(p), 0, p, return_stolen), p)
  /\ my_pinfo' = [my_pinfo EXCEPT ![p] = 0]
  /\ UNCHANGED <<up, call, broken>>

(* Not a call: the process ends without finalizing. *)
Crash(p) ==
  /\ up[p] = "in"
  /\ up' = [up EXCEPT ![p] = "dead"]
  /\ my_pinfo' = [my_pinfo EXCEPT ![p] = 0]
  /\ call' = [x \in Clients |-> IF x = p THEN NoCall ELSE call[x]]
  /\ broken' = (broken \/ (p \in Clients /\ call[p] # NoCall))
  /\ UNCHANGED shm

(* A new process with the pid of a dead one. *)
Restart(p) ==
  /\ up[p] = "dead" /\ p \notin shm.pidlist
  /\ up' = [up EXCEPT ![p] = "out"]
  /\ UNCHANGED <<shm, my_pinfo, call, broken>>

-----------------------------------------------------------------------------
(* The administrator *)

AdminIdle == Admin \in Clients /\ call[Admin] = NoCall

Attached == AdminIdle /\ Admin \in shm.pidlist

Attach ==
  /\ AdminIdle /\ Admin \notin shm.pidlist
  /\ LET T == open_shmem(Admin)
     IN  shm' = IF T.mode = "none"
                THEN [T EXCEPT !.mode = "unknown", !.free = Cpu, !.num = 0] ELSE T
  /\ UNCHANGED <<my_pinfo, up, call, broken>>

Detach ==
  /\ Attached
  /\ shm' = close_shmem(shm, Admin)
  /\ UNCHANGED <<my_pinfo, up, call, broken>>

(* The end of preinit, once its CPUs are registered or stolen. *)
Preinitialized(T, s, mask) ==
  GrowTo([T EXCEPT !.info[s].current = mask, !.info[s].future = mask,
                   !.info[s].dirty = FALSE], s)

(* x waits for the victims of a steal on behalf of slot s. *)
Waiting(s, was, mask, w, return_stolen, preinit) ==
  [phase |-> "steal", slot |-> s, was |-> was, mask |-> mask, work |-> w,
   return_stolen |-> return_stolen, preinit |-> preinit]

PreInit(p) ==
  \E mask \in ArgMasks, steal \in BOOLEAN, sync \in Sync, return_stolen \in ReturnStolen :
    LET found == {s \in Slot : shm.info[s].pid \in {NOBODY, p}}
        s == Min(found)
        T == [shm EXCEPT !.info[s] = [EmptySlot EXCEPT !.pid = p, !.preregistered = TRUE]]
        w == Split(T, s, mask)
        failed == [T EXCEPT !.info[s].pid = NOBODY]
        wait == steal /\ sync /\ w.steal # {}
    IN  /\ Attached /\ up[p] = "out" /\ found # {} /\ shm.info[s].pid = NOBODY
        /\ (sync => steal) /\ (return_stolen => steal)
        /\ \/ /\ ~ steal
              /\ shm' = IF CanRegister(T, mask)
                        THEN Preinitialized(register_mask(T, s, mask), s, mask) ELSE failed
              /\ UNCHANGED call
           \/ /\ steal /\ (Shared(T) \/ ~ CanSteal(T, s, w.steal))
              /\ shm' = failed
              /\ UNCHANGED call
           \/ /\ steal /\ ~ Shared(T) /\ CanSteal(T, s, w.steal) /\ ~ wait
              /\ shm' = Preinitialized(
                          Rearrange(TakeFromVictims(T, s, w.steal), s, w, return_stolen), s, mask)
              /\ UNCHANGED call
           \/ /\ wait /\ ~ Shared(T) /\ CanSteal(T, s, w.steal)
              /\ shm' = TakeFromVictims(T, s, w.steal)
              /\ call' = [call EXCEPT ![Admin] = Waiting(s, T.info[s], mask, w, return_stolen, TRUE)]
        /\ UNCHANGED <<my_pinfo, up, broken>>

(* DLB_DROM_PostFinalize: of a process that has ended, or never registered. *)
PostFinalize(p, return_stolen) ==
  /\ Attached /\ up[p] # "in"
  /\ p \in {shm.info[s].pid : s \in Registered(shm)}
  /\ shm' = Remove(shm, 0, p, return_stolen)
  /\ UNCHANGED <<my_pinfo, up, call, broken>>

RecoverStolenCpus(p) ==
  /\ Attached
  /\ LET s == get_process(shm, 0, p)
     IN  /\ s # 0
         /\ LET back == shm.info[s].stolen \cap shm.free
                T == register_mask(shm, s, back)
            IN  shm' = [T EXCEPT !.info[s].stolen = @ \ back]
  /\ UNCHANGED <<my_pinfo, up, call, broken>>

(* DLB_PreInit: p preregisters its own pid, for the process it becomes or  *)
(* starts, and closes the memory again.                                    *)
PreInitSelf(p) ==
  /\ Startable(p)
  /\ \E mask \in StartMasks :
       LET T == open_shmem(p)
           U == IF T.mode = "none"
                THEN [T EXCEPT !.mode = "unknown", !.free = Cpu, !.num = 0] ELSE T
           found == {s \in Slot : U.info[s].pid \in {NOBODY, p}}
           s == Min(found)
           V == [U EXCEPT !.info[s] = [EmptySlot EXCEPT !.pid = p, !.preregistered = TRUE]]
       IN  shm' = close_shmem(
             IF found = {} \/ U.info[s].pid = p THEN U
             ELSE IF CanRegister(V, mask)
             THEN Preinitialized(register_mask(V, s, mask), s, mask)
             ELSE [V EXCEPT !.info[s].pid = NOBODY], p)
  /\ UNCHANGED <<my_pinfo, up, call, broken>>

-----------------------------------------------------------------------------
(* Masks *)

(* poll_drom: only the process itself polls.  The test of dirty is not     *)
(* locked; when a rollback clears it first, the copy changes nothing.      *)
Poll(p) ==
  /\ up[p] = "in" /\ (p \in Clients => call[p] = NoCall)
  /\ LET s == get_process(shm, my_pinfo[p], p)
     IN  /\ s # 0 /\ shm.info[s].dirty
         /\ shm' = Settle(shm, s)
  /\ UNCHANGED <<my_pinfo, up, call, broken>>

(* shmem_procinfo__getprocessmask_self settles a pending mask as well. *)
GetOwnMask(p) ==
  /\ up[p] = "in" /\ my_pinfo[p] # 0 /\ (p \in Clients => call[p] = NoCall)
  /\ shm.info[my_pinfo[p]].dirty
  /\ shm' = Settle(shm, my_pinfo[p])
  /\ UNCHANGED <<my_pinfo, up, call, broken>>

(* A process sets its own mask; never synchronous.  A dirty process may    *)
(* only set the mask it is about to get.                                   *)
SetOwnMask(p) ==
  \E mask \in ArgMasks, return_stolen \in ReturnStolen, no_sync \in BOOLEAN :
    LET s == my_pinfo[p]
        w == Split(shm, s, mask)
        T == Rearrange(TakeFromVictims(shm, s, w.steal), s, w, return_stolen)
    IN  /\ up[p] = "in" /\ s # 0 /\ (p \in Clients => call[p] = NoCall)
        /\ ~ shm.info[s].dirty \/ mask = shm.info[s].future
        /\ ~ Shared(shm) /\ CanSteal(shm, s, w.steal)
        /\ shm' = IF no_sync THEN T ELSE Settle(T, s)
        /\ broken' = (broken \/ shm.info[s].dirty)
        /\ UNCHANGED <<my_pinfo, up, call>>

Caller(x) ==
  /\ call[x] = NoCall
  /\ IF x = Admin THEN Admin \in shm.pidlist ELSE up[x] = "in"

Mine(x) == IF x = Admin THEN 0 ELSE my_pinfo[x]

(* Another process sets the mask of p.  A synchronous call waits first for *)
(* the victims of its steal, then for p itself.                            *)
SetProcessMask(x, p) ==
  \E mask \in ArgMasks, sync \in Sync, return_stolen \in ReturnStolen :
    LET s == get_process(shm, Mine(x), p)
        w == Split(shm, s, mask)
        T == TakeFromVictims(shm, s, w.steal)
        wait == Waiting(s, shm.info[s], mask, w, return_stolen, FALSE)
    IN  /\ Caller(x) /\ x # p
        /\ s # 0 /\ ~ shm.info[s].dirty
        /\ ~ Shared(shm) /\ CanSteal(shm, s, w.steal)
        /\ IF sync /\ w.steal # {}
           THEN shm' = T /\ call' = [call EXCEPT ![x] = wait]
           ELSE /\ shm' = Rearrange(T, s, w, return_stolen)
                /\ call' = IF sync THEN [call EXCEPT ![x] = Adopting]
                           ELSE call
        /\ UNCHANGED <<my_pinfo, up, broken>>

(* The masks the processes other than slot s still use. *)
OthersUse(T, s) == UNION {T.info[k].current : k \in Registered(T) \ {s}}

(* Mutant: the loop does not look at the masks in use. *)
StealPollBlind(x) ==
  /\ call[x].phase = "steal"
  /\ \E outcome \in {"stolen", "timeout"} : call' = [call EXCEPT ![x].phase = outcome]
  /\ UNCHANGED <<shm, my_pinfo, up, broken>>

(* The loop of a synchronous steal sees the victims' new masks, or gives   *)
(* up; either way it releases the lock once more before it goes on.        *)
StealPoll(x) ==
  /\ call[x].phase = "steal"
  /\ call' = [call EXCEPT ![x].phase =
                IF OthersUse(shm, call[x].slot) \cap call[x].work.steal = {}
                THEN "stolen" ELSE "timeout"]
  /\ UNCHANGED <<shm, my_pinfo, up, broken>>

(* Whether the wait has left what the rest of the call relies on: a victim *)
(* for each CPU to give back, or a target that is still what it was and    *)
(* CPUs that nobody else has taken.                                        *)
Clean(k) ==
  LET others == Registered(shm) \ {k.slot}
      losers(c) == {s \in others : c \in shm.info[s].stolen}
      taken == shm.free \cup UNION {Effective(shm.info[s]) : s \in others}
  IN  /\ shm.info[k.slot] = k.was
      /\ k.work.steal \cap taken = {}
      /\ IF k.phase = "timeout"
         THEN \A c \in k.work.steal : Cardinality(losers(c)) = 1
         ELSE CanRegister(shm, k.work.acquire)

(* The lock is taken again: the rest of steal_mask and of set_new_mask.    *)
(* The CPUs to acquire were chosen before the wait and may be taken.       *)
StealEnd(x) ==
  LET k == call[x]
      s == k.slot
      granted == k.phase = "stolen" /\ CanRegister(shm, k.work.acquire)
      T == IF k.phase = "timeout" THEN RollBack(shm, s, k.work.steal)
           ELSE IF granted THEN Rearrange(shm, s, k.work, k.return_stolen)
           ELSE GiveToThief(shm, s, k.work.steal)
  IN  /\ k.phase \in {"stolen", "timeout"}
      /\ shm' = IF granted /\ k.preinit THEN Preinitialized(T, s, k.mask)
                ELSE IF k.preinit THEN [T EXCEPT !.info[s].pid = NOBODY]
                ELSE T
      /\ call' = [call EXCEPT ![x] = IF granted /\ ~ k.preinit
                                     THEN Adopting ELSE NoCall]
      /\ broken' = (broken \/ ~ Clean(k))
      /\ UNCHANGED <<my_pinfo, up>>

(* A synchronous setprocessmask returns when p has polled, is gone, or     *)
(* after the timeout.                                                      *)
PollEnd(x) ==
  /\ call[x].phase = "poll"
  /\ call' = [call EXCEPT ![x] = NoCall]
  /\ UNCHANGED <<shm, my_pinfo, up, broken>>

Next ==
  \/ \E p \in Pid :
       \/ ProcInit(p) \/ PreInitSelf(p) \/ Crash(p) \/ Restart(p)
       \/ \E r \in ReturnStolen :
            ProcFinalize(p, r) \/ FinalizeUnopened(p, r) \/ PostFinalize(p, r)
       \/ PreInit(p) \/ RecoverStolenCpus(p)
       \/ Poll(p) \/ GetOwnMask(p) \/ SetOwnMask(p)
  \/ Attach \/ Detach
  \/ \E x \in Clients :
       \/ StealPoll(x) \/ StealEnd(x) \/ PollEnd(x)
       \/ \E p \in Pid : SetProcessMask(x, p)

Spec == Init /\ [][Next]_vars

-----------------------------------------------------------------------------
(* Properties *)

(* Type invariant *)
TypeOK ==
  /\ shm.info \in [Slot -> [pid : Pid \cup {NOBODY}, dirty : BOOLEAN,
                            preregistered : BOOLEAN, current : SUBSET Cpu,
                            future : SUBSET Cpu, stolen : SUBSET Cpu]]
  /\ shm.num \in 0..MaxProcesses
  /\ shm.free \in SUBSET Cpu
  /\ shm.mode \in {"none", "unknown", "exclusive", "shared"}
  /\ shm.pidlist \in SUBSET (Pid \cup {Admin})
  /\ my_pinfo \in [Pid -> 0..MaxProcesses]
  /\ up \in [Pid -> {"out", "in", "dead"}]

Owned(s) == Effective(shm.info[s])

(* The CPUs the table knows the use of. *)
Assigned(T) == T.free \cup UNION {Effective(T.info[s]) : s \in Registered(T)}

(* Without CPU sharing every CPU has at most one owner: the masks the      *)
(* processes have been told to use and the free mask are disjoint.         *)
OneOwner ==
  (shm.mode = "exclusive" /\ ~ broken) =>
    \A s \in Registered(shm) :
      /\ Owned(s) \cap shm.free = {}
      /\ \A t \in Registered(shm) \ {s} : Owned(s) \cap Owned(t) = {}

Awaited == UNION {call[x].work.steal : x \in {y \in Clients : Stealing(y)}}

(* And no CPU gets lost: each is free, owned, or awaited by a synchronous  *)
(* steal in progress.  The cases in which the code does lose or double one *)
(* are exactly those that set broken: a process that sets its own pending  *)
(* mask, a synchronous steal that finds its target or its CPUs changed     *)
(* when it locks again or cannot tell whom to return a CPU to, and a       *)
(* client that dies while it waits.                                        *)
NothingLost ==
  (shm.mode \in {"exclusive", "unknown"} /\ ~ broken) =>
    Cpu = Awaited \cup Assigned(shm)

(* From the poll that sees the victims of a synchronous steal gone until   *)
(* the lock is taken again, nobody else comes to own or to use the CPUs    *)
(* that are awaited, as long as the process they are for is there.         *)
StealIsExclusive ==
  [][\A x \in Clients :
       LET k == call[x]
       IN  (/\ k.phase \in {"steal", "stolen"} /\ call'[x].phase = "stolen"
            /\ shm.info[k.slot].pid = k.was.pid /\ shm'.info[k.slot].pid = k.was.pid
            /\ k.work.steal \cap Assigned(shm) = {})
           => /\ k.work.steal \cap Assigned(shm') = {}
              /\ k.work.steal \cap OthersUse(shm', k.slot) = {}]_vars

(* "free_mask: Contains the CPUs in the system not owned" (the comment at  *)
(* its declaration), whatever the processes do.                            *)
FreeIsNotOwned ==
  shm.mode = "exclusive" => \A s \in Registered(shm) : Owned(s) \cap shm.free = {}

(* Bound: the states after a case that sets broken are not explored. *)
NotBroken == ~ broken
=============================================================================
