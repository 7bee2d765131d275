------------------------------ MODULE MCKernel ------------------------------
(***************************************************************************)
(* Instances of Kernel for TLC: three processes with one thread each.       *)
(***************************************************************************)
EXTENDS Kernel, TLC

MCProc == {"p", "q", "r"}
MCThread == {"tp", "tq", "tr"}
MCProcOf == [tp |-> "p", tq |-> "q", tr |-> "r"]
MCNcpus == [p |-> 2, q |-> 1, r |-> 1]

Default == [version |-> 3, via |-> FALSE, lewi |-> FALSE, affinity |-> "auto", async |-> FALSE, drom |-> FALSE, talp |-> FALSE,
            barrier |-> FALSE, ompt |-> FALSE, mngo |-> FALSE, preinit |-> FALSE, mask |-> FALSE,
            greedy |-> FALSE, keep |-> FALSE, calls |-> {}, max |-> 0]

LifeCalls == {"Init", "Finalize", "MPI_Init", "MPI_Finalize", "MPI", "Enable", "Disable"}
ClassicCalls == LifeCalls \union {"lend", "reclaim", "borrow", "borrow_cpus", "set_max", "unset_max"}
SharingCalls == {"Init", "Finalize", "lend", "reclaim", "borrow"}
OtherCalls == LifeCalls \union {"PreInit", "Observer", "lend_cpu", "acquire_cpus", "return_all", "check",
                                  "PollDROM"}
ToolCalls == {"DROM_Attach", "DROM_Detach"}
SubCalls == {"Init_sp", "Finalize_sp", "Init", "Finalize", "Enable"}

ClassicOnly == [Default EXCEPT !.lewi = TRUE, !.calls = ClassicCalls, !.max = 3]
Coming == [ClassicOnly EXCEPT !.calls = {"Init", "Finalize", "lend", "crash", "destroy"}, !.max = 2]
Greedy == [ClassicOnly EXCEPT !.greedy = TRUE]
Mask == [Default EXCEPT !.lewi = TRUE, !.mask = TRUE, !.async = TRUE, !.barrier = TRUE]
Incompatible == [Default EXCEPT !.lewi = TRUE, !.drom = TRUE]
OpenMP == [Default EXCEPT !.lewi = TRUE, !.ompt = TRUE]
Others ==
    {Mask, Incompatible, [Default EXCEPT !.talp = TRUE],
     [Default EXCEPT !.lewi = TRUE, !.mngo = TRUE],
     [Default EXCEPT !.drom = TRUE, !.async = TRUE]}

Making(o, calls, n) == [o EXCEPT !.calls = calls, !.max = n]

Alone(options, calls) ==
    {[p |-> Making(o, calls, 5), q |-> Default, r |-> Default] : o \in options}

(* Processes with classic LeWI: one that makes all of its calls with one   *)
(* that lends, borrows and reclaims, the same with a CPU kept in MPI, two  *)
(* that come, die and come back, two of different versions, a greedy one   *)
(* with a process that borrows, and a greedy one with a process that       *)
(* borrows and one that takes its CPUs back.                               *)
ClassicScenarios ==
    {[p |-> ClassicOnly, q |-> Making(ClassicOnly, SharingCalls, 3), r |-> Default],
     [p |-> Making(ClassicOnly, {"Init", "lend", "reclaim"}, 3),
      q |-> [ClassicOnly EXCEPT !.keep = TRUE], r |-> Default],
     [p |-> Coming, q |-> Coming, r |-> Default],
     [p |-> Making(Coming, {"Init", "Finalize"}, 2),
      q |-> Making([Coming EXCEPT !.version = 2], {"Init"}, 1),
      r |-> Making(Coming, {"Init"}, 1)],
     [p |-> Making(Greedy, {"Init", "Finalize", "lend", "reclaim"}, 5),
      q |-> Making(ClassicOnly, {"Init", "borrow", "reclaim"}, 3), r |-> Default],
     [p |-> Making(ClassicOnly, {"Init", "lend", "reclaim"}, 3),
      q |-> Making(Greedy, {"Init", "reclaim"}, 2),
      r |-> Making(ClassicOnly, {"Init", "borrow"}, 2)]}

(* These, or one process alone with subprocesses, with other components,   *)
(* with the OpenMP tool, or as a tool of DROM.                             *)
MCScenarios ==
    ClassicScenarios
    \union Alone({ClassicOnly}, {"Init", "Init_sp", "Finalize_sp", "Finalize", "lend"})
    \union Alone(Others \union {ClassicOnly}, OtherCalls)
    \union Alone({OpenMP}, OtherCalls \union {"OMPT"})
    \union Alone({Default}, ToolCalls)

ToolScenarios == Alone(Others, OtherCalls \union ToolCalls)

SubScenarios == Alone(Others, SubCalls)

(* Classic LeWI is asked for with DROM, and the error is not looked at.    *)
IgnoredErrors == Alone({Incompatible}, LifeCalls)

Fallible == {"procinfo", "cpuinfo", "async", "omptool"}
OneSub == {"p"}
Nothing == {}
=============================================================================
