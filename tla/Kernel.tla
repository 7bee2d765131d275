------------------------------- MODULE Kernel -------------------------------
(***************************************************************************)
(* The core of DLB in each process (LB_core/DLB_kernel.c, spd.c,           *)
(* lb_funcs.c, apis/DLB_interface*.c, mpi/mpi_core.c): a descriptor per    *)
(* (sub)process, the order in which its components are initialised and     *)
(* finalised, the dispatch of the calls to the policy, and the hooks of    *)
(* MPI.  The policy is classic LeWI in full detail (ClassicLewi); of the   *)
(* other components only whether they are attached matters here.           *)
(***************************************************************************)
EXTENDS ClassicLewi

CONSTANTS
    Scenarios,  \* what the processes are started with: each Proc -> its options (DLB_ARGS),
                \*     the calls that its application makes and the bound max on their number
    SubProcs,   \* the processes that create a subprocess with DLB_Init_sp
    MayFail,    \* the components whose initialisation may fail
    MaxCrashes  \* bound: processes that die

Global(p) == [proc |-> p, sub |-> FALSE]

Sub(p) == [proc |-> p, sub |-> TRUE]

Spd == {Global(p) : p \in Proc} \union {Sub(p) : p \in SubProcs}

Null0 == [proc |-> "NULL", sub |-> FALSE]

VARIABLES
    spd,    \* Spd -> the subprocess descriptor
    tls,    \* Thread -> thread_spd
    att,    \* Proc -> the shared memories of the process: how often each is attached
    rows,   \* Proc -> its rows in the table of processes: registered, preregistered
    mpi,    \* Proc -> [ready, from, mngo]: mpi_ready, init_from_mpi, a manager thread runs
    tool,   \* Proc -> [on, from]: omptool_initialized, dlb_initialized_through_ompt
    role,   \* Thread -> is it an observer
    used    \* Thread -> calls made

kernelVars == <<opts, spd, tls, att, rows, mpi, tool, role, used>>

vars == <<shmemVars, lewiVars, kernelVars>>

(* The shared memories, and how often a tool attached to two of them with  *)
(* DLB_DROM_Attach.                                                        *)
Component == {"procinfo", "cpuinfo", "barrier", "async", "ext"}

NewSpd(d) ==
    [init |-> FALSE, preinit |-> FALSE, enabled |-> FALSE, funcs |-> "null", fin |-> FALSE,
     policy |-> "none", info |-> FALSE, talp |-> FALSE, row |-> FALSE, helper |-> FALSE,
     ok |-> FALSE, bad |-> FALSE, by |-> "none", live |-> ~d.sub]

Init ==
    /\ ShmemInit /\ LewiInit
    /\ opts \in Scenarios
    /\ spd = [d \in Spd |-> NewSpd(d)]
    /\ tls = [t \in Thread |-> Null0]
    /\ att = [p \in Proc |-> [c \in Component |-> 0]]
    /\ rows = [p \in Proc |-> {}]
    /\ mpi = [p \in Proc |-> [ready |-> FALSE, from |-> FALSE, mngo |-> FALSE]]
    /\ tool = [p \in Proc |-> [on |-> FALSE, from |-> FALSE]]
    /\ role = [t \in Thread |-> "main"]
    /\ used = [t \in Thread |-> 0]

D(t) == tls[t]

O(t) == opts[P(t)]

(***************************************************************************)
(* The policy and the components that the options ask for.                 *)
(***************************************************************************)

(* The LeWI mode.  o.via is dlb_initialized_via_ompt, the hint of the      *)
(* OpenMP tool; o.ompt below is the option --ompt.                         *)
Policy(o) ==
    LET classic == IF o.async THEN "lewi_async" ELSE "lewi"
    IN  IF ~o.lewi THEN "none"
        ELSE IF o.affinity = "none" THEN classic
        ELSE IF o.affinity # "auto" \/ o.via \/ o.mngo \/ o.preinit \/ o.mask THEN "lewi_mask"
        ELSE classic

Classic(o) == Policy(o) \in {"lewi", "lewi_async"}

MaskIsNeeded(o) == Policy(o) = "lewi_mask" \/ o.drom \/ o.preinit

Optional(b, step) == IF b THEN <<Op(step)>> ELSE <<>>

(* The rest of Initialize, once the policy is found compatible.            *)
InitializeSteps(o) ==
    (IF MaskIsNeeded(o) THEN <<Op("procinfo_init"), Op("cpuinfo_init")>>
                        ELSE Optional(o.talp, "procinfo_sharing"))
    \o Optional(o.barrier, "barrier_init")
    \o Optional(o.async, "async_init")
    \o <<Op("policy_init"), Op("enabled")>>
    \o Optional(o.mngo /\ o.lewi, "dormant")
    \o Optional(o.talp, "talp_init")

Initialize == <<Op("setup"), Op("init_done")>>

(* Mutant: the memories are closed only when the process mask was needed.  *)
FinishSteps_mask_only(o, policy) ==
    <<Op("mpi_core"), Op("disabled")>>
    \o Optional(o.talp, "talp_fini") \o <<Op("policy_fini")>>
    \o Optional(o.barrier, "barrier_fini")
    \o (IF policy = "lewi_mask" \/ o.drom \/ o.preinit
        THEN <<Op("cpuinfo_fini"), Op("procinfo_fini")>> ELSE <<>>)
    \o Optional(o.async, "async_fini")

(* By the options and by the policy (lb_policy) that Initialize found.     *)
FinishSteps(o, policy) ==
    <<Op("mpi_core"), Op("disabled")>>
    \o Optional(o.talp, "talp_fini") \o <<Op("policy_fini")>>
    \o Optional(o.barrier, "barrier_fini")
    \o (IF policy = "lewi_mask" \/ o.drom \/ o.talp \/ o.ompt \/ o.preinit
        THEN <<Op("cpuinfo_fini"), Op("procinfo_fini")>> ELSE <<>>)
    \o Optional(o.async, "async_fini")

Finish(t) == FinishSteps(O(t), spd[D(t)].policy)

(***************************************************************************)
(* Initialize, one component after the other.  An error ends it where it   *)
(* is, and what follows in the caller goes on.                             *)
(***************************************************************************)

Position(s, o) == CHOOSE i \in 1 .. Len(s) : s[i].op = o /\ \A j \in 1 .. i - 1 : s[j].op # o

Fails(t) ==
    LET i == Position(todo[t], "init_done")
    IN  todo' = [todo EXCEPT ![t] = <<Op("init_error")>> \o SubSeq(@, i + 1, Len(@))]

OnlyKernel == UNCHANGED <<name, seg, map, handler, subs, alive, lewiVars>>

Skip == UNCHANGED <<opts, tls, mpi, tool, role, used>> /\ OnlyKernel

(* The thread becomes the main one, even if it was made an observer.       *)
setup(t) ==
    /\ Doing(t, "setup")
    /\ LET bad == MaskIsNeeded(O(t)) /\ Classic(O(t))
           old == spd[D(t)]
       IN /\ spd' = [spd EXCEPT ![D(t)] =
                [NewSpd(D(t)) EXCEPT !.init = old.init, !.preinit = old.preinit,
                                     !.by = old.by, !.live = TRUE,
                                     !.policy = Policy(O(t)),
                                     !.funcs = IF bad THEN "null" ELSE Policy(O(t)),
                                     !.fin = ~bad]]
          /\ IF bad THEN Fails(t) ELSE Then(t, InitializeSteps(O(t)))
    /\ role' = [role EXCEPT ![t] = "main"]
    /\ UNCHANGED <<opts, tls, mpi, tool, used, att, rows>> /\ OnlyKernel

Attach(p, c) == att' = [att EXCEPT ![p][c] = @ + 1]

(* shmem_procinfo__init: the row that DLB_PreInit left is taken over, or   *)
(* a part of its CPUs moves to a row of the process.                       *)
procinfo_init(t) ==
    /\ Doing(t, "procinfo_init")
    /\ \/ /\ Attach(P(t), "procinfo")
          /\ \E pre \in {{}, rows[P(t)] \intersect {"pre"}} :
                rows' = [rows EXCEPT ![P(t)] = (@ \ {"pre"}) \union pre \union {"own"}]
          /\ spd' = [spd EXCEPT ![D(t)].row = TRUE]
          /\ Done(t)
       \/ /\ "procinfo" \in MayFail
          /\ Fails(t)
          /\ UNCHANGED <<att, rows, spd>>
    /\ Skip

(* Without a mask but with TALP the table is shared, and an error is       *)
(* overwritten by the result of the policy.                                *)
procinfo_sharing(t) ==
    /\ Doing(t, "procinfo_sharing")
    /\ \/ /\ Attach(P(t), "procinfo")
          /\ rows' = [rows EXCEPT ![P(t)] = @ \union {"own"}]
          /\ spd' = [spd EXCEPT ![D(t)].row = TRUE]
       \/ /\ "procinfo" \in MayFail
          /\ UNCHANGED <<att, rows, spd>>
    /\ Done(t)
    /\ Skip

(* shmem_cpuinfo__init closes the memory itself when it fails.             *)
cpuinfo_init(t) ==
    /\ Doing(t, "cpuinfo_init")
    /\ \/ Attach(P(t), "cpuinfo") /\ Done(t)
       \/ "cpuinfo" \in MayFail /\ Fails(t) /\ UNCHANGED att
    /\ UNCHANGED <<rows, spd>> /\ Skip

(* The memory of the barriers is not counted per subprocess.               *)
barrier_init(t) ==
    /\ Doing(t, "barrier_init")
    /\ att' = [att EXCEPT ![P(t)].barrier = 1]
    /\ Done(t)
    /\ UNCHANGED <<rows, spd>> /\ Skip

(* When there is no room for the helper the memory is closed, also for the *)
(* other subprocesses of the process.                                      *)
async_init(t) ==
    /\ Doing(t, "async_init")
    /\ \/ /\ Attach(P(t), "async")
          /\ spd' = [spd EXCEPT ![D(t)].helper = TRUE]
          /\ Done(t)
       \/ /\ "async" \in MayFail
          /\ att' = [att EXCEPT ![P(t)].async = 0]
          /\ Fails(t)
          /\ UNCHANGED spd
    /\ UNCHANGED rows /\ Skip

policy_init(t) ==
    /\ Doing(t, "policy_init")
    /\ Then(t, IF spd[D(t)].policy = "lewi" THEN lewi_Init(t) ELSE <<>>)
    /\ spd' = [spd EXCEPT ![D(t)].info = TRUE]
    /\ UNCHANGED <<att, rows>> /\ Skip

enable_lewi(t) ==
    /\ Doing(t, "enabled")
    /\ spd' = [spd EXCEPT ![D(t)].enabled = TRUE]
    /\ Done(t)
    /\ UNCHANGED <<att, rows>> /\ Skip

talp_init(t) ==
    /\ Doing(t, "talp_init")
    /\ spd' = [spd EXCEPT ![D(t)].talp = TRUE]
    /\ Done(t)
    /\ UNCHANGED <<att, rows>> /\ Skip

(* Initialize returns.  Only DLB_Init_sp undoes anything on an error: it   *)
(* frees the descriptor, which stays the one of the thread.                *)
init_returns(t) ==
    /\ Doing(t, "init_done") \/ Doing(t, "init_error")
    /\ LET ok == Head(todo[t]).op = "init_done"
       IN spd' = [spd EXCEPT ![D(t)].ok = ok, ![D(t)].bad = ~ok, ![D(t)].live = ok \/ ~D(t).sub]
    /\ Done(t)
    /\ UNCHANGED <<att, rows>> /\ Skip

(***************************************************************************)
(* The calls of the policy through lb_funcs.                               *)
(***************************************************************************)

(* set_lb_funcs: the calls that each policy implements; the others answer  *)
(* that the policy does not support them.                                  *)
Supports(policy) ==
    CASE policy = "lewi" ->
            {"enable", "disable", "set_max", "unset_max", "into", "outof",
             "lend", "reclaim", "borrow", "borrow_cpus"}
      [] policy = "lewi_async" ->
            {"enable", "disable", "into", "outof", "lend", "lend_cpus", "reclaim",
             "acquire_cpus", "borrow", "borrow_cpus"}
      [] policy = "lewi_mask" ->
            {"enable", "disable", "set_max", "unset_max", "into", "outof",
             "lend", "lend_cpu", "lend_cpu_mask",
             "reclaim", "reclaim_cpu", "reclaim_cpus", "reclaim_cpu_mask",
             "acquire_cpu", "acquire_cpus", "acquire_cpu_mask", "acquire_cpus_in_mask",
             "borrow", "borrow_cpu", "borrow_cpus", "borrow_cpu_mask", "borrow_cpus_in_mask",
             "return_all", "return_cpu", "return_cpu_mask", "check", "update_ownership"}
      [] OTHER -> {}

(* The calls of lb_funcs that DLB_kernel.c makes only while LeWI is on.    *)
lend_functions == {"lend", "lend_cpu", "lend_cpus", "lend_cpu_mask"}

reclaim_functions == {"reclaim", "reclaim_cpu", "reclaim_cpus", "reclaim_cpu_mask"}

acquire_functions == {"acquire_cpu", "acquire_cpus", "acquire_cpu_mask", "acquire_cpus_in_mask"}

borrow_functions == {"borrow", "borrow_cpu", "borrow_cpus", "borrow_cpu_mask", "borrow_cpus_in_mask"}

return_functions == {"return_all", "return_cpu", "return_cpu_mask"}

max_functions == {"set_max", "unset_max"}

LewiFunction(t, f) ==
    CASE f = "enable"      -> lewi_EnableDLB
      [] f = "disable"     -> lewi_DisableDLB(t)
      [] f = "set_max"     -> lewi_SetMaxParallelism(t, 1)
      [] f = "unset_max"   -> lewi_UnsetMaxParallelism
      [] f = "into"        -> lewi_IntoBlockingCall(t)
      [] f = "outof"       -> lewi_OutOfBlockingCall(t)
      [] f = "lend"        -> lewi_Lend(t)
      [] f = "reclaim"     -> lewi_Reclaim(t)
      [] f = "borrow"      -> lewi_Borrow(t)
      [] f = "borrow_cpus" -> lewi_BorrowCpus(t, 1)

(* A call through lb_funcs: the table may never have been filled, and the  *)
(* mask and asynchronous policies read the information that their init     *)
(* allocates.  What they do then is in LewiMask and LewiAsync.             *)
ThroughLbFuncs(t, f) ==
    LET s == spd[D(t)]
    IN  IF s.funcs = "null" THEN <<Op("null")>>
        ELSE IF f \notin Supports(s.funcs) THEN <<>>
        ELSE IF s.funcs = "lewi" THEN LewiFunction(t, f)
        ELSE IF s.info THEN <<>> ELSE <<Op("null")>>

(* A step that calls through lb_funcs.                                     *)
Function == [enable |-> "enable", disable |-> "disable", dormant |-> "disable"]

set_enabled(t) ==
    \E o \in DOMAIN Function :
        /\ Doing(t, o)
        /\ LET on == Function[o] = "enable"
           IN IF spd[D(t)].enabled = ~on
              THEN spd' = [spd EXCEPT ![D(t)].enabled = on] /\ Then(t, ThroughLbFuncs(t, Function[o]))
              ELSE UNCHANGED spd /\ Done(t)
        /\ UNCHANGED <<att, rows>> /\ Skip

(* Mutant: a call is passed to the policy also when LeWI is disabled.      *)
guarded_by_option(t, f) ==
    IF O(t).lewi THEN ThroughLbFuncs(t, f) ELSE <<>>

(* lend, reclaim, acquire, borrow, return and so on of DLB_kernel.c.       *)
guarded(t, f) ==
    IF O(t).lewi /\ spd[D(t)].enabled THEN ThroughLbFuncs(t, f) ELSE <<>>

(***************************************************************************)
(* Finish.                                                                 *)
(***************************************************************************)

(* DLB_Finalize before MPI_Finalize: MPI is no longer intercepted, and     *)
(* MPI_Finalize must not finalise DLB again.  A manager thread stays.      *)
finalize_mpi_core(m) == IF m.ready THEN [m EXCEPT !.ready = FALSE, !.from = FALSE] ELSE m

mpi_core(t) ==
    /\ Doing(t, "mpi_core")
    /\ mpi' = [mpi EXCEPT ![P(t)] = finalize_mpi_core(@)]
    /\ Done(t)
    /\ UNCHANGED <<opts, tls, tool, role, used, spd, att, rows>> /\ OnlyKernel

disable_lewi(t) ==
    /\ Doing(t, "disabled")
    /\ spd' = [spd EXCEPT ![D(t)].enabled = FALSE]
    /\ Done(t)
    /\ UNCHANGED <<att, rows>> /\ Skip

talp_fini(t) ==
    /\ Doing(t, "talp_fini")
    /\ spd' = [spd EXCEPT ![D(t)].talp = FALSE]
    /\ Then(t, IF spd[D(t)].talp THEN <<>> ELSE <<Op("null")>>)
    /\ UNCHANGED <<att, rows>> /\ Skip

policy_fini(t) ==
    /\ Doing(t, "policy_fini")
    /\ LET s == spd[D(t)]
       IN /\ spd' = [spd EXCEPT ![D(t)].info = FALSE, ![D(t)].fin = FALSE]
          /\ Then(t, CASE ~s.fin -> <<>>
                       [] s.funcs = "lewi" -> lewi_Finalize
                       [] s.funcs = "lewi_mask" /\ ~s.info -> <<Op("null")>>
                       [] OTHER -> <<>>)
    /\ UNCHANGED <<att, rows>> /\ Skip

(* shmem_cpuinfo__finalize, node_barrier_finalize: the memory is detached  *)
(* if it is attached; if it is not but exists, it is opened and closed.    *)
Detach(p, c) == att' = [att EXCEPT ![p][c] = IF c = "barrier" THEN 0 ELSE IF @ > 0 THEN @ - 1 ELSE 0]

detach_component(t) ==
    /\ \/ Doing(t, "barrier_fini") /\ Detach(P(t), "barrier")
       \/ Doing(t, "cpuinfo_fini") /\ Detach(P(t), "cpuinfo")
    /\ Done(t)
    /\ UNCHANGED <<rows, spd>> /\ Skip

(* shmem_procinfo__finalize: a row of the process is removed, and the      *)
(* memory is detached only if there was one.                               *)
procinfo_fini(t) ==
    /\ Doing(t, "procinfo_fini")
    /\ IF rows[P(t)] = {}
       THEN UNCHANGED <<att, rows>>
       ELSE /\ Detach(P(t), "procinfo")
            /\ \E r \in rows[P(t)] : rows' = [rows EXCEPT ![P(t)] = @ \ {r}]
    /\ spd' = [spd EXCEPT ![D(t)].row = FALSE]
    /\ Done(t)
    /\ Skip

async_fini(t) ==
    /\ Doing(t, "async_fini")
    /\ IF spd[D(t)].helper THEN Detach(P(t), "async") ELSE UNCHANGED att
    /\ spd' = [spd EXCEPT ![D(t)].helper = FALSE]
    /\ Done(t)
    /\ UNCHANGED rows /\ Skip

(* DLB_Finalize_sp frees the descriptor.                                   *)
free_sp(t) ==
    /\ Doing(t, "free")
    /\ spd' = [spd EXCEPT ![D(t)].live = FALSE, ![D(t)].init = FALSE]
    /\ Done(t)
    /\ UNCHANGED <<att, rows>> /\ Skip

(***************************************************************************)
(* The hooks of MPI.                                                       *)
(***************************************************************************)

(* DLB_Init and DLB_Finalize as after_init and before_finalize call them.  *)
dlb_init_from_mpi(t) ==
    /\ Doing(t, "mpi_dlb_init")
    /\ IF spd[D(t)].init
       THEN Then(t, <<With("after_init", 0)>>) /\ UNCHANGED spd
       ELSE /\ spd' = [spd EXCEPT ![D(t)].init = TRUE, ![D(t)].by = "mpi"]
            /\ Then(t, Initialize \o <<With("after_init", 1)>>)
    /\ UNCHANGED <<att, rows>> /\ Skip

(* The rest of after_init.  A manager thread is started if MNGO is on.     *)
after_init(t) ==
    /\ Doing(t, "after_init")
    /\ mpi' = [mpi EXCEPT ![P(t)] =
            [ready |-> TRUE, from |-> @.from \/ (Arg(t) = 1 /\ spd[D(t)].ok),
             mngo |-> @.mngo \/ O(t).mngo]]
    /\ Done(t)
    /\ UNCHANGED <<opts, tls, tool, role, used, spd, att, rows>> /\ OnlyKernel

before_finalize(t) ==
    /\ Doing(t, "before_finalize")
    /\ mpi' = [mpi EXCEPT ![P(t)] =
            [ready |-> FALSE, from |-> FALSE, mngo |-> @.mngo /\ ~@.ready]]
    /\ Then(t, IF mpi[P(t)].from THEN <<Op("finalize")>> ELSE <<>>)
    /\ UNCHANGED <<opts, tls, tool, role, used, spd, att, rows>> /\ OnlyKernel

(* The rest of omptool_initialize: when the callbacks cannot be            *)
(* registered, a DLB that it initialised is finalised.                     *)
omptool_init(t) ==
    /\ Doing(t, "omptool")
    /\ LET from == Arg(t) = 1 /\ spd[D(t)].ok
       IN \/ /\ tool' = [tool EXCEPT ![P(t)] = [on |-> TRUE, from |-> from]]
             /\ Done(t)
          \/ /\ "omptool" \in MayFail
             /\ Then(t, IF from THEN <<Op("finalize")>> ELSE <<>>)
             /\ UNCHANGED tool
    /\ UNCHANGED <<opts, tls, mpi, role, used, spd, att, rows>> /\ OnlyKernel

(* before_mpi and after_mpi around a call: Arg(t) is do_lewi, that the     *)
(* call blocks and is one of those of --lewi-mpi-calls.                    *)
sync_call(t) ==
    /\ Doing(t, "into") \/ Doing(t, "outof")
    /\ LET lewi == role[t] # "observer" /\ D(t) \in Spd /\ mpi[P(t)].ready /\ Arg(t) = 1
       IN Then(t, IF lewi THEN guarded(t, Head(todo[t]).op) ELSE <<>>)
    /\ UNCHANGED <<spd, att, rows>> /\ Skip

(* The call itself returns when the other processes have done their part.  *)
blocked(t) ==
    /\ Doing(t, "blocked")
    /\ Done(t)
    /\ UNCHANGED <<spd, att, rows>> /\ Skip

(* The call of the application, reduced to the function of lb_funcs.       *)
api(t) ==
    /\ Doing(t, "api")
    /\ Then(t, guarded(t, Arg(t)))
    /\ UNCHANGED <<spd, att, rows>> /\ Skip

(* poll_drom: with LeWI the policy takes the new mask over, without asking *)
(* whether LeWI is enabled.                                                *)
poll_drom(t) ==
    /\ Doing(t, "poll_drom")
    /\ \E changed \in BOOLEAN :
          Then(t, IF O(t).drom /\ spd[D(t)].row /\ changed /\ O(t).lewi
                  THEN ThroughLbFuncs(t, "update_ownership") ELSE <<>>)
    /\ UNCHANGED <<spd, att, rows>> /\ Skip

(* DLB_Finalize: of DLB_Init if it was called, else of DLB_PreInit.        *)
finalize(t) ==
    /\ Doing(t, "finalize")
    /\ LET s == spd[D(t)]
       IN IF s.init THEN spd' = [spd EXCEPT ![D(t)].init = FALSE, ![D(t)].by = "none", ![D(t)].ok = FALSE]
                         /\ Then(t, Finish(t))
          ELSE IF s.preinit THEN spd' = [spd EXCEPT ![D(t)].preinit = FALSE] /\ Then(t, <<Op("procinfo_fini")>>)
          ELSE UNCHANGED spd /\ Done(t)
    /\ UNCHANGED <<att, rows>> /\ Skip

(* PreInitialize attaches to both tables, registers, and detaches.         *)
preinitialize(t) ==
    /\ Doing(t, "preinitialize")
    /\ spd' = [spd EXCEPT ![D(t)].funcs = "none", ![D(t)].fin = TRUE]
    /\ \/ rows' = [rows EXCEPT ![P(t)] = @ \union {"pre"}]
       \/ "procinfo" \in MayFail /\ UNCHANGED rows
    /\ Done(t)
    /\ UNCHANGED att /\ Skip

KernelStep(t) ==
    \/ setup(t) \/ procinfo_init(t) \/ procinfo_sharing(t) \/ cpuinfo_init(t)
    \/ barrier_init(t) \/ async_init(t) \/ policy_init(t) \/ enable_lewi(t) \/ talp_init(t)
    \/ init_returns(t) \/ set_enabled(t) \/ mpi_core(t) \/ disable_lewi(t) \/ talp_fini(t)
    \/ policy_fini(t) \/ detach_component(t) \/ procinfo_fini(t) \/ async_fini(t)
    \/ free_sp(t) \/ omptool_init(t) \/ dlb_init_from_mpi(t) \/ after_init(t) \/ before_finalize(t)
    \/ sync_call(t) \/ blocked(t) \/ api(t) \/ poll_drom(t) \/ finalize(t) \/ preinitialize(t)

Step(t) == KernelStep(t) \/ (LewiStep(t) /\ UNCHANGED kernelVars)

(***************************************************************************)
(* The calls of the application.                                           *)
(***************************************************************************)

(* spd_enter_dlb: the descriptor that the call is about.                   *)
Entered(t) == IF tls[t] = Null0 THEN Global(P(t)) ELSE tls[t]

(* A thread whose descriptor was freed can only start over: anything else  *)
(* reads freed memory.                                                     *)
Permitted(t, c) == spd[Entered(t)].live \/ c = "Init_sp"

MayCall(t, c) ==
    /\ c \in O(t).calls
    /\ P(t) \in alive /\ todo[t] = <<>> /\ used[t] < O(t).max
    /\ Permitted(t, c)

Calling(t, d, steps) ==
    /\ tls' = [tls EXCEPT ![t] = d]
    /\ todo' = [todo EXCEPT ![t] = steps]
    /\ used' = [used EXCEPT ![t] = @ + 1]
    /\ UNCHANGED role /\ OnlyKernel

Same == UNCHANGED <<opts, spd, att, rows, mpi, tool>>

DLB_Init(t) ==
    LET d == Entered(t)
    IN  /\ MayCall(t, "Init")
        /\ Calling(t, d, IF spd[d].init THEN <<>> ELSE Initialize)
        /\ spd' = [spd EXCEPT ![d].init = TRUE, ![d].by = IF spd[d].init THEN @ ELSE "app"]
        /\ UNCHANGED <<opts, att, rows, mpi, tool>>

DLB_Finalize(t) ==
    MayCall(t, "Finalize") /\ Calling(t, Entered(t), <<Op("finalize")>>) /\ Same

(* DLB_PreInit leaves --preinit-pid in DLB_ARGS.                           *)
DLB_PreInit(t) ==
    LET d == Entered(t)
    IN  /\ MayCall(t, "PreInit")
        /\ ~spd[d].init /\ ~spd[d].preinit
        /\ Calling(t, d, <<Op("preinitialize")>>)
        /\ spd' = [spd EXCEPT ![d].preinit = TRUE]
        /\ opts' = [opts EXCEPT ![P(t)].preinit = TRUE]
        /\ UNCHANGED <<att, rows, mpi, tool>>

DLB_Enable(t) ==
    /\ MayCall(t, "Enable") /\ spd[Entered(t)].init
    /\ Calling(t, Entered(t), <<Op("enable")>>) /\ Same

DLB_Disable(t) ==
    /\ MayCall(t, "Disable") /\ spd[Entered(t)].init
    /\ Calling(t, Entered(t), <<Op("disable")>>) /\ Same

DLB_Call(t, f) ==
    /\ MayCall(t, f) /\ spd[Entered(t)].init
    /\ Calling(t, Entered(t), <<With("api", f)>>) /\ Same

DLB_SetMaxParallelism(t) == \E f \in max_functions : DLB_Call(t, f)

DLB_Lend(t) == \E f \in lend_functions : DLB_Call(t, f)

DLB_Reclaim(t) == \E f \in reclaim_functions : DLB_Call(t, f)

DLB_Acquire(t) == \E f \in acquire_functions : DLB_Call(t, f)

DLB_Borrow(t) == \E f \in borrow_functions : DLB_Call(t, f)

DLB_Return(t) == \E f \in return_functions : DLB_Call(t, f)

(* The one call that does not ask whether DLB is initialised.              *)
DLB_CheckCpuAvailability(t) ==
    MayCall(t, "check") /\ Calling(t, Entered(t), <<With("api", "check")>>) /\ Same

DLB_PollDROM(t) ==
    /\ MayCall(t, "PollDROM") /\ spd[Entered(t)].init
    /\ Calling(t, Entered(t), <<Op("poll_drom")>>) /\ Same

(* The calls with a handle do not ask either.                              *)
DLB_Call_sp(t) ==
    LET d == Sub(P(t))
    IN  /\ P(t) \in SubProcs /\ spd[d].live /\ spd[d].ok
        /\ \E f \in {"lend", "reclaim", "borrow"} :
              MayCall(t, f) /\ Calling(t, d, <<With("api", f)>>)
        /\ MayCall(t, "Init_sp")
        /\ Same

(* A subprocess gets its handle only if its initialisation succeeds.       *)
DLB_Init_sp(t) ==
    LET d == Sub(P(t))
    IN  /\ MayCall(t, "Init_sp") /\ P(t) \in SubProcs /\ ~spd[d].live
        /\ Calling(t, d, Initialize)
        /\ spd' = [spd EXCEPT ![d] = [NewSpd(d) EXCEPT !.init = TRUE, !.live = TRUE, !.by = "app"]]
        /\ UNCHANGED <<opts, att, rows, mpi, tool>>

DLB_Finalize_sp(t) ==
    LET d == Sub(P(t))
    IN  /\ MayCall(t, "Finalize_sp") /\ P(t) \in SubProcs /\ spd[d].live /\ spd[d].ok
        /\ Calling(t, d, Finish(t) \o <<Op("free")>>) /\ Same

DLB_DROM_Attach(t) ==
    /\ MayCall(t, "DROM_Attach")
    /\ Calling(t, tls[t], <<>>)
    /\ att' = [att EXCEPT ![P(t)] = [@ EXCEPT !.cpuinfo = @ + 1, !.procinfo = @ + 1, !.ext = @ + 1]]
    /\ UNCHANGED <<opts, spd, rows, mpi, tool>>

DLB_DROM_Detach(t) ==
    /\ MayCall(t, "DROM_Detach") /\ att[P(t)].ext > 0
    /\ Calling(t, tls[t], <<>>)
    /\ att' = [att EXCEPT ![P(t)] = [@ EXCEPT !.cpuinfo = @ - 1, !.procinfo = @ - 1, !.ext = @ - 1]]
    /\ UNCHANGED <<opts, spd, rows, mpi, tool>>

(* The OpenMP runtime starts its tool, once: with --ompt the tool leaves   *)
(* its hint, also in a DLB that is initialised, and calls DLB_Init.        *)
omptool_initialize(t) ==
    LET d == Entered(t)
    IN  /\ MayCall(t, "OMPT") /\ O(t).ompt /\ ~O(t).via
        /\ opts' = [opts EXCEPT ![P(t)].via = TRUE]
        /\ IF spd[d].init
           THEN Calling(t, d, <<With("omptool", 0)>>) /\ UNCHANGED spd
           ELSE /\ Calling(t, d, Initialize \o <<With("omptool", 1)>>)
                /\ spd' = [spd EXCEPT ![d].init = TRUE, ![d].by = "ompt"]
        /\ UNCHANGED <<att, rows, mpi, tool>>

(* The OpenMP runtime ends: a DLB that its tool initialised is finalised.  *)
omptool_finalize(t) ==
    /\ MayCall(t, "OMPT") /\ tool[P(t)].on
    /\ Calling(t, Entered(t), IF tool[P(t)].from THEN <<Op("finalize")>> ELSE <<>>)
    /\ tool' = [tool EXCEPT ![P(t)] = [on |-> FALSE, from |-> FALSE]]
    /\ UNCHANGED <<opts, spd, att, rows, mpi>>

MPI_Init(t) ==
    /\ MayCall(t, "MPI_Init") /\ ~mpi[P(t)].ready
    /\ Calling(t, Entered(t), <<Op("mpi_dlb_init")>>) /\ Same

MPI_Finalize(t) ==
    MayCall(t, "MPI_Finalize") /\ Calling(t, Entered(t), <<Op("before_finalize")>>) /\ Same

MPI_Call(t) ==
    /\ MayCall(t, "MPI") /\ mpi[P(t)].ready
    /\ \E do \in {0, 1} :
          Calling(t, tls[t], <<With("into", do), Op("blocked"), With("outof", do)>>)
    /\ Same

DLB_SetObserverRole(t) ==
    /\ MayCall(t, "Observer")
    /\ role' = [role EXCEPT ![t] = IF @ = "observer" THEN "main" ELSE "observer"]
    /\ used' = [used EXCEPT ![t] = @ + 1]
    /\ tls' = [tls EXCEPT ![t] = Entered(t)]
    /\ UNCHANGED todo /\ Same /\ OnlyKernel

Application(t) ==
    \/ DLB_Init(t) \/ DLB_Finalize(t) \/ DLB_PreInit(t) \/ DLB_Enable(t) \/ DLB_Disable(t)
    \/ DLB_SetMaxParallelism(t) \/ DLB_Lend(t) \/ DLB_Reclaim(t) \/ DLB_Acquire(t)
    \/ DLB_Borrow(t) \/ DLB_Return(t) \/ DLB_CheckCpuAvailability(t) \/ DLB_PollDROM(t)
    \/ DLB_Call_sp(t)
    \/ DLB_Init_sp(t) \/ DLB_Finalize_sp(t) \/ DLB_DROM_Attach(t) \/ DLB_DROM_Detach(t)
    \/ omptool_initialize(t) \/ omptool_finalize(t) \/ MPI_Init(t) \/ MPI_Finalize(t) \/ MPI_Call(t) \/ DLB_SetObserverRole(t)

Dying ==
    /\ Cardinality(Proc \ alive) < MaxCrashes
    /\ \E p \in Proc : "crash" \in opts[p].calls /\ Crash(p)
    /\ UNCHANGED <<lewiVars, kernelVars>>

Destroying ==
    /\ \E p \in Proc : "destroy" \in opts[p].calls
    /\ delete_shdata_item
    /\ UNCHANGED <<lewiVars, kernelVars>>

Next == (\E t \in Thread : Step(t) \/ Application(t)) \/ Dying \/ Destroying

Spec == Init /\ [][Next]_vars

(***************************************************************************)
(* Properties.                                                             *)
(***************************************************************************)

Pending(p, ops) ==
    \E t \in Thread : ProcOf[t] = p /\ \E i \in 1 .. Len(todo[t]) : todo[t][i].op \in ops

(* The processes that take part in classic LeWI on a segment: attached,    *)
(* and the count set up if they were the first.                            *)
Joined(s) ==
    {p \in alive : handler[p] /\ map[p] = s
                   /\ ~Pending(p, {"config", "reset", "lock", "leave", "munmap"})}

(* The CPUs of a process, counting those that it has taken from the count  *)
(* or given to it and not yet written to myCPUS.                           *)
Effective(p) ==
    LET doing == {t \in Thread : ProcOf[t] = p /\ todo[t] # <<>>}
        set == {t \in doing : Head(todo[t]).op = "threads"}
        got == {t \in doing : Head(todo[t]).op \in {"use", "grab_read", "grab"}}
    IN  IF set # {} THEN Arg(CHOOSE t \in set : TRUE)
        ELSE IF got # {} THEN reads[CHOOSE t \in got : TRUE][1]
        ELSE lw[p].my

CpusOf(S, s) == seg[s].idle + MapThenSumSet(Effective, S)

(* The three steps of the lock-free code that do not conserve CPUs: the    *)
(* swap of a greedy process fails and what it found is taken nevertheless  *)
(* (comm_lend_light.c:133); the two operands of the swap of checkIdleCpus  *)
(* are read at different times (:164); the first process attached clears   *)
(* the count when another one is already counted (:80-85).                 *)
FailedSwap(t) == Doing(t, "grab") /\ Idle(t) # Arg(t)

TornSwap(t) == Doing(t, "check_swap") /\ Len(reads[t]) = 5 /\ reads[t][4] # reads[t][5]

LateReset(t) == Doing(t, "reset") /\ Mine(t).nprocs # 1

Races(t) == (FailedSwap(t) \/ TornSwap(t) \/ LateReset(t)) /\ todo'[t] # todo[t]

(* Classic LeWI only moves CPUs between the processes and the count of     *)
(* idle CPUs: in every step but the three above, and however the atomic    *)
(* instructions of releaseCpus, acquireCpus, checkIdleCpus and ConfigShMem *)
(* interleave, the sum over the processes that are there before and after  *)
(* the step does not change.                                               *)
CpusAreConserved ==
    [][(\A t \in Thread : ~Races(t)) =>
       \A s \in Segment, S \in SUBSET Proc :
          (S # {} /\ S = Joined(s) \intersect Joined(s)')
          => CpusOf(S, s)' = CpusOf(S, s)]_vars

(* Application code runs with at least one CPU: a thread that is outside   *)
(* of DLB and of MPI finds its process with CPUs, whatever was lent,       *)
(* reclaimed, borrowed, enabled, disabled or bounded before, and whatever  *)
(* races the processes had on the count; except a process that has added a *)
(* count below zero to its own CPUs, as a greedy one does when the others  *)
(* take more than the count between its subtraction and its swap           *)
(* (comm_lend_light.c:132-133).                                            *)
NobodyStarves ==
    \A t \in Thread :
        (P(t) \in alive \ below /\ spd[Global(P(t))].ok /\ spd[Global(P(t))].init
            /\ spd[Global(P(t))].funcs = "lewi" /\ ~Pending(P(t), {"setup", "init_done"})
            /\ todo[t] = <<>>) => lw[P(t)].my >= 1

(* After an initialisation that succeeded, and before the first one, no    *)
(* call goes through a table of functions that was never filled or uses    *)
(* what a finalised component no longer provides.  After one that failed   *)
(* calls do (RefusedWithoutInit).                                          *)
NoNullAccess == \A t \in Thread : Crashed(t) => spd[D(t)].bad

(* "DLB_ERR_NOINIT if DLB is not initialized" (apis/dlb.h.in:82): when     *)
(* DLB_Init returned an error, a later call returns an error too.          *)
RefusedWithoutInit == \A t \in Thread : Crashed(t) => ~spd[D(t)].bad

(* A process whose DLB is finalised, or was never initialised, has none of *)
(* the shared memories attached and no row in the table of processes: each *)
(* path through Initialize, also one that stopped half-way, is undone by   *)
(* Finish.                                                                 *)
FinalizedIsDetached ==
    \A p \in alive :
        (/\ \A t \in Thread : ProcOf[t] = p => todo[t] = <<>>
         /\ \A d \in Spd : d.proc = p => (~spd[d].init /\ ~spd[d].preinit))
        => /\ rows[p] = {}
           /\ ~handler[p]
           /\ att[p] = [c \in Component |-> IF c \in {"barrier", "async"} THEN 0 ELSE att[p].ext]

(* A descriptor whose initialisation succeeded keeps its memories until it *)
(* is finalised, whatever the other descriptors of the process do.         *)
LiveIsAttached ==
    \A d \in Spd :
        (spd[d].init /\ spd[d].ok /\ spd[d].live /\ ~Pending(d.proc, {"free"}))
        => /\ (spd[d].policy = "lewi_mask" \/ opts[d.proc].drom) => (att[d.proc].cpuinfo > 0 /\ att[d.proc].procinfo > 0)
           /\ opts[d.proc].barrier => att[d.proc].barrier > 0
           /\ spd[d].helper => att[d.proc].async > 0

(* DLB is finalised by MPI_Finalize only if it is the DLB that MPI_Init    *)
(* initialised: one that the application initialised, before MPI_Init or   *)
(* after a DLB_Finalize of its own, is left to the application.            *)
MpiFinalizesItsOwn ==
    \A p \in alive : mpi[p].from =>
        \/ spd[Global(p)].init /\ spd[Global(p)].by = "mpi"
        \/ Pending(p, {"mpi_core"})

(* No thread is left with a descriptor that was freed.                     *)
ThreadsPointToLive == \A t \in Thread : tls[t] \in Spd => spd[tls[t]].live

(* The manager thread of MNGO does not outlive DLB.                        *)
ManagerStops ==
    \A p \in alive : mpi[p].mngo =>
        spd[Global(p)].init \/ Pending(p, {"disabled", "policy_fini", "cpuinfo_fini", "procinfo_fini"})
=============================================================================
