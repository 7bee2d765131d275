----------------------------- MODULE MaskUtils -----------------------------
(***************************************************************************)
(* CPU masks and the topology of the node (support/mask_utils.c): the      *)
(* topology is read at the first use, from hwloc or from the files of      *)
(* /sys, whose directory entries come in any order; then every process     *)
(* asks it for the cores and NUMA nodes of a mask, sorts CPUs by it, and   *)
(* writes and reads masks as text.                                         *)
(*                                                                         *)
(* A mask is a set of CPU ids.  A text is its form with its digits, most   *)
(* significant first, or its list of elements and ranges.                  *)
(***************************************************************************)
EXTENDS Integers, Sequences, FiniteSets, FiniteSetsExt, SequencesExt

CONSTANTS
    Machines,        \* core_id and siblings of every CPU, the CPUs of every node, hwloc or not
    Garbage,         \* masks that uninitialized memory may hold
    CPU_SETSIZE,     \* also the longest text that is parsed
    CPUS_PER_ULONG,  \* 64, also the bits that are converted at a time: whole hexadecimal digits
    ONLINE           \* sysconf(_SC_NPROCESSORS_ONLN)

VARIABLES
    machine,      \* the node
    sys,          \* mu_system_loc_t, with the size of the masks
    step,         \* where mu_init is
    unread,       \* directory entries to come
    needs_reordering

vars == <<machine, sys, step, unread, needs_reordering>>

Present(m) == DOMAIN m.core_id

-----------------------------------------------------------------------------
(* Masks, in the words that the system needs *)

init_mu_struct ==
    [sys_mask |-> {}, setsize |-> CPU_SETSIZE, cores |-> << >>, by_cpuid |-> << >>, nodes |-> << >>]

(* CPUs in the words that are looked at.                                   *)
Words(s) == 0 .. ((s.setsize + CPUS_PER_ULONG - 1) \div CPUS_PER_ULONG) * CPUS_PER_ULONG - 1

FirstOf(S) == IF S = {} THEN -1 ELSE Min(S)

mu_get_first_cpu(s, mask) == FirstOf(mask \cap Words(s))

mu_get_last_cpu(s, mask) == Max({-1} \cup (mask \cap Words(s)))

mu_get_single_cpu(s, mask) ==
    IF Cardinality(mask \cap Words(s)) = 1 THEN mu_get_first_cpu(s, mask) ELSE -1

mu_get_next_cpu(s, mask, prev) == FirstOf({c \in mask \cap Words(s) : c > prev})

mu_get_next_unset(s, mask, prev) == FirstOf({c \in Words(s) \ mask : c > prev})

mu_subtract(s, minuend, subtrahend) ==
    LET xor == (minuend \ subtrahend) \cup (subtrahend \ minuend) IN minuend \cap xor \cap Words(s)

mu_is_subset(s, subset, superset) ==
    subset \cap superset \cap Words(s) = subset \cap Words(s)

mu_is_proper_subset(s, subset, superset) ==
    /\ mu_is_subset(s, subset, superset)
    /\ subset \cap Words(s) # superset \cap Words(s)

mu_intersects(s, a, b) == a \cap b \cap Words(s) # {}

-----------------------------------------------------------------------------
(* Masks as text *)

Element(a) == [from |-> a, to |-> a, range |-> FALSE]
Interval(a, b) == [from |-> a, to |-> b, range |-> TRUE]

Digits(n) == IF n < 10 THEN 1 ELSE IF n < 100 THEN 2 ELSE IF n < 1000 THEN 3 ELSE 4

(* Bytes of a list, with a separator between two entries.                  *)
Bytes(list) ==
    FoldLeft(LAMBDA n, e : n + Digits(e.from) + IF e.range THEN 1 + Digits(e.to) ELSE 0,
             Max({0, Len(list) - 1}), list)

(* How many CPUs follow cpuid without a gap.                               *)
Distance(s, mask, cpuid) ==
    LET next_unset == mu_get_next_unset(s, mask, cpuid) IN
    IF next_unset > 0 THEN next_unset - 1 - cpuid ELSE mu_get_last_cpu(s, mask) - cpuid

(* An element, a pair or a range.                                          *)
Entry(s, mask, cpuid) ==
    LET d == Distance(s, mask, cpuid) IN
    CASE d = 0 -> <<Element(cpuid)>>
      [] d = 1 -> <<Element(cpuid), Element(cpuid + 1)>>
      [] OTHER -> <<Interval(cpuid, cpuid + d)>>

(* The entries that fit in namelen bytes, after list, which has bytes.  Of *)
(* an entry that does not fit, the separator stays, and its other CPUs are *)
(* tried.                                                                  *)
RECURSIVE Entries(_, _, _, _, _, _)
Entries(s, mask, cpuid, list, bytes, namelen) ==
    IF cpuid < 0 THEN [list |-> list, bytes |-> bytes]
    ELSE LET entry == Entry(s, mask, cpuid)
             comma == IF cpuid # mu_get_first_cpu(s, mask) /\ bytes + 1 < namelen THEN 1 ELSE 0
             fits == bytes + comma + Bytes(entry) < namelen
             last == IF fits THEN cpuid + Distance(s, mask, cpuid) ELSE cpuid
         IN  Entries(s, mask, mu_get_next_cpu(s, mask, last),
                     IF fits THEN list \o entry ELSE list,
                     bytes + comma + (IF fits THEN Bytes(entry) ELSE 0), namelen)

(* A list in quotes; the second one is written if there is room for it.    *)
mu_get_quoted_mask(s, mask, namelen) ==
    LET e == Entries(s, mask, mu_get_first_cpu(s, mask), << >>, 1, namelen)
    IN  [form |-> IF e.bytes + 1 < namelen THEN "quoted" ELSE "open quote", text |-> e.list]

(* A list in brackets; the buffer holds any list.                          *)
mu_to_str(s, mask) ==
    [form |-> "brackets",
     text |-> Entries(s, mask, mu_get_first_cpu(s, mask), << >>, 1, 4 * CPU_SETSIZE).list]

(* One hexadecimal digit per 4 CPUs, from the last CPU of the mask.        *)
mu_parse_to_slurm_format(s, mask) ==
    LET top == Max({0, mu_get_last_cpu(s, mask)}) \div 4 IN
    [form |-> "hexmask",
     text |-> [k \in 1 .. top + 1 |->
                 SumSet({2^b : b \in {b \in 0 .. 3 : 4 * (top + 1 - k) + b \in mask}})]]

(* CPUs of a number with digits of the given bits, from CPU offset on.     *)
parse_64_bits_mask(s, offset, digits, bits) ==
    {c \in offset .. s.setsize - 1 :
       LET k == Len(digits) - (c - offset) \div bits IN
       /\ k >= 1
       /\ (digits[k] \div 2^((c - offset) % bits)) % 2 = 1}

(* The digits a word at a time, from the right.                            *)
RECURSIVE Chunks(_, _, _, _)
Chunks(s, offset, digits, bits) ==
    LET n == CPUS_PER_ULONG \div bits
        cut == IF Len(digits) < n THEN 0 ELSE Len(digits) - n
        rest == SubSeq(digits, 1, cut)
    IN  parse_64_bits_mask(s, offset, SubSeq(digits, cut + 1, Len(digits)), bits)
        \cup (IF rest = << >> THEN {} ELSE Chunks(s, offset + CPUS_PER_ULONG, rest, bits))

(* The CPUs of an element, or of a range from a lower to a higher CPU.     *)
parse_entry(s, e) ==
    LET start == Min({e.from, s.setsize})
        end == Min({e.to, s.setsize})
    IN  IF e.range THEN (IF end > start THEN (start .. end) \cap (0 .. s.setsize - 1) ELSE {})
        ELSE IF start < s.setsize THEN {start} ELSE {}

text_length(t) ==
    CASE t.form = "list" -> Bytes(t.text)
      [] t.form \in {"brackets", "quoted"} -> Bytes(t.text) + 2
      [] t.form = "open quote" -> Bytes(t.text) + 1
      [] t.form \in {"hexmask", "bitmask"} -> 2 + Len(t.text)
      [] t.form = "old bitmask" -> Len(t.text) + 1

(* A text that is too long leaves the mask as it was.  Brackets and quotes *)
(* match no regular expression, and give no CPU.                           *)
mu_parse_mask(s, t, old) ==
    IF text_length(t) > CPU_SETSIZE THEN old
    ELSE CASE t.form = "list" -> UNION {parse_entry(s, t.text[i]) : i \in DOMAIN t.text}
           [] t.form = "hexmask" -> Chunks(s, 0, t.text, 4)
           [] t.form = "bitmask" -> Chunks(s, 0, t.text, 1)
           [] t.form = "old bitmask" ->
                {c \in 0 .. s.setsize - 1 : c < Len(t.text) /\ t.text[c + 1] = 1}
           [] OTHER -> {}

mu_equivalent_masks(s, t1, t2) == mu_parse_mask(s, t1, {}) = mu_parse_mask(s, t2, {})

-----------------------------------------------------------------------------
(* Cores and nodes of a mask *)

NumCpus(s) == mu_get_last_cpu(s, s.sys_mask) + 1

(* core_masks_by_coreid is indexed from 0; an id without a core is empty.  *)
Cores(s) == DOMAIN s.cores

mu_get_num_cores(s) == Cardinality({k \in Cores(s) : s.cores[k] # {}})

mu_system_has_smt(s) == Cardinality(s.cores[0]) > 1

mu_get_core_id(s, cpuid) ==
    IF cpuid \in 0 .. NumCpus(s) - 1 THEN FirstOf({k \in Cores(s) : cpuid \in s.cores[k]}) ELSE -1

mu_get_core_mask(s, cpuid) == IF cpuid \in DOMAIN s.by_cpuid THEN s.by_cpuid[cpuid] ELSE {}

mu_get_nodes_intersecting_with_cpuset(s, cpuset) ==
    UNION {s.nodes[n] : n \in {n \in DOMAIN s.nodes : mu_intersects(s, s.nodes[n], cpuset)}}

mu_get_nodes_subset_of_cpuset(s, cpuset) ==
    UNION {s.nodes[n] : n \in {n \in DOMAIN s.nodes : mu_is_subset(s, s.nodes[n], cpuset)}}

CoresIn(s, mask) == {k \in Cores(s) : mu_is_subset(s, s.cores[k], mask)}

CoresMeeting(s, mask) == {k \in Cores(s) : mu_intersects(s, s.cores[k], mask)}

mu_get_cores_intersecting_with_cpuset(s, cpuset) == UNION {s.cores[k] : k \in CoresMeeting(s, cpuset)}

mu_get_cores_subset_of_cpuset(s, cpuset) == UNION {s.cores[k] : k \in CoresIn(s, cpuset)}

mu_count_cores(s, mask) == Cardinality(CoresIn(s, mask))

mu_count_cores_intersecting_with_cpuset(s, mask) == Cardinality(CoresMeeting(s, mask))

(* The next CPU of the mask that is in a core after the one of prev_cpu.   *)
mu_get_cpu_next_core(s, mask, prev_cpu) ==
    FirstOf({c \in mask \cap (0 .. NumCpus(s) - 1) :
               c > prev_cpu /\ mu_get_core_id(s, c) > mu_get_core_id(s, prev_cpu)})

mu_get_last_coreid(s, mask) == Max({-1} \cup CoresIn(s, mask))

(* The mask without its last complete core; -1 if it has none.             *)
mu_take_last_coreid(s, mask) ==
    LET k == mu_get_last_coreid(s, mask) IN
    IF k = -1 THEN [coreid |-> -1, mask |-> mask]
    ELSE [coreid |-> k, mask |-> (mask \ s.cores[k]) \cup (s.cores[k] \ mask)]

mu_set_core(s, mask, coreid) == mask \cup s.cores[coreid]

mu_unset_core(s, mask, coreid) == mu_subtract(s, mask, s.cores[coreid])

-----------------------------------------------------------------------------
(* The order of CPUs, negative if the first one comes first *)

cmp_cpuids(s, c1, c2) ==
    LET k1 == mu_get_core_id(s, c1)
        k2 == mu_get_core_id(s, c2)
    IN  IF k1 = k2 THEN c1 - c2 ELSE k1 - k2

(* Mutant: CPUs that are not owned in the order of their ids. *)
cmp_around_plain(s, mask, c1, c2) == c1 - mu_get_first_cpu(s, mask)

(* CPUs out of the mask: from its first core upwards, then from 0 on.      *)
cmp_around(s, mask, c1, c2) ==
    LET first == mu_get_first_cpu(s, mask)
        core(c) == mu_get_core_id(s, c)
    IN  IF \/ core(c1) > core(first) /\ core(c2) > core(first)
           \/ core(c1) < core(first) /\ core(c2) < core(first)
        THEN cmp_cpuids(s, c1, c2)
        ELSE cmp_cpuids(s, first, c1)

mu_cmp_cpuids_by_ownership(s, mask, c1, c2) ==
    CASE c1 \in mask /\ c2 \in mask -> cmp_cpuids(s, c1, c2)
      [] c1 \in mask /\ c2 \notin mask -> -1
      [] c1 \notin mask /\ c2 \in mask -> 1
      [] OTHER -> cmp_around(s, mask, c1, c2)

(* levels is a sequence of masks that ends at the first empty one.         *)
Level(levels, c) ==
    Cardinality({i \in DOMAIN levels : /\ \A j \in 1 .. i : levels[j] # {}
                                       /\ c \notin levels[i]})

mu_cmp_cpuids_by_affinity(s, levels, c1, c2) ==
    LET l1 == Level(levels, c1)
        l2 == Level(levels, c2)
    IN  CASE l1 # l2 -> l1 - l2
          [] l1 = l2 /\ l1 = 1 -> cmp_around(s, levels[1], c1, c2)
          [] OTHER -> cmp_cpuids(s, c1, c2)

(* The levels of lewi_mask: the mask, then the nodes it has CPUs in.       *)
Affinity(s, mask) == <<mask, mu_get_nodes_intersecting_with_cpuset(s, mask), {}>>

-----------------------------------------------------------------------------
(* Reading the topology *)

(* external: the lists in the files of the kernel, every run as a range.   *)
KernelList(mask) ==
    LET starts == SetToSortSeq({c \in mask : c - 1 \notin mask}, <)
        end(a) == Min({c \in mask : c >= a /\ c + 1 \notin mask})
    IN  [form |-> "list",
         text |-> [i \in DOMAIN starts |-> IF end(starts[i]) = starts[i] THEN Element(starts[i])
                                           ELSE Interval(starts[i], end(starts[i]))]]

parse_mask_from_file(s, mask, old) == mu_parse_mask(s, KernelList(mask), old)

(* References to the core masks, for every CPU of one.                     *)
ByCpuid(s) ==
    [c \in 0 .. NumCpus(s) - 1 |->
       IF \E k \in Cores(s) : c \in s.cores[k]
       THEN s.cores[Max({k \in Cores(s) : c \in s.cores[k]})] ELSE {}]

WithReferences(s) == [s EXCEPT !.by_cpuid = ByCpuid(s)]

init_system_masks(sys_mask, core_masks, node_masks) ==
    WithReferences([sys_mask |-> sys_mask, setsize |-> Max(sys_mask) + 1, by_cpuid |-> << >>,
                    cores |-> core_masks, nodes |-> node_masks])

(* Consecutive CPUs make a core, and consecutive CPUs a node.              *)
init_system(num_cpus, num_cores, num_nodes) ==
    LET block(n, k) == k * (num_cpus \div n) .. (k + 1) * (num_cpus \div n) - 1 IN
    init_system_masks(0 .. num_cpus - 1, [k \in 0 .. num_cores - 1 |-> block(num_cores, k)],
                      [k \in 0 .. num_nodes - 1 |-> block(num_nodes, k)])

Init ==
    /\ machine \in Machines
    /\ sys = init_mu_struct
    /\ step = "start" /\ unread = {} /\ needs_reordering = FALSE

(* external: hwloc numbers the cores and the nodes itself.                 *)
Numberings(S) == {f \in [0 .. Cardinality(S) - 1 -> S] : {f[k] : k \in DOMAIN f} = S}

(* mu_init, with hwloc.                                                    *)
parse_hwloc ==
    /\ step = "start" /\ machine.hwloc
    /\ \E cores \in Numberings({machine.siblings[c] : c \in Present(machine)}),
          nodes \in Numberings({machine.nodes[n] : n \in DOMAIN machine.nodes}) :
         sys' = init_system_masks(Present(machine), cores, nodes)
    /\ step' = "ready"
    /\ UNCHANGED <<machine, unread, needs_reordering>>

(* mu_init, without: the mask of the system.  If there is no such file the *)
(* mask is never written.                                                  *)
parse_system_files ==
    /\ step = "start" /\ ~machine.hwloc
    /\ \E old \in Garbage :
         LET mask == IF Present(machine) = {} THEN old
                     ELSE parse_mask_from_file(sys, Present(machine), old)
         IN  sys' = [sys EXCEPT !.sys_mask = mask, !.setsize = mu_get_last_cpu(sys, mask) + 1]
    /\ step' = "cores" /\ unread' = Present(machine) /\ needs_reordering' = FALSE
    /\ machine' = machine

Grown(cores, n) == [k \in 0 .. Max({n, Cardinality(DOMAIN cores)}) - 1 |->
                      IF k \in DOMAIN cores THEN cores[k] ELSE {}]

(* Mutant: a mask that is known under another id is stored again. *)
save_core_again(cores, core_id, mask) ==
    LET c == Grown(cores, core_id + 1)
        free == {k \in DOMAIN c : c[k] = {}}
    IN  IF c[core_id] = {} THEN [c EXCEPT ![core_id] = mask]
        ELSE IF c[core_id] = mask THEN c
        ELSE IF free # {} THEN [c EXCEPT ![Min(free)] = mask]
        ELSE [Grown(c, Cardinality(DOMAIN c) + 1) EXCEPT ![Cardinality(DOMAIN c)] = mask]

(* Where a mask of siblings goes: to its core id, unless other siblings    *)
(* have the same id; then to the first free one, or to a new one.          *)
save_core(cores, core_id, mask) ==
    LET c == Grown(cores, core_id + 1)
        free == {k \in DOMAIN c : c[k] = {}}
    IN  IF c[core_id] = {} THEN [c EXCEPT ![core_id] = mask]
        ELSE IF \E k \in DOMAIN c : c[k] = mask THEN c
        ELSE IF free # {} THEN [c EXCEPT ![Min(free)] = mask]
        ELSE [Grown(c, Cardinality(DOMAIN c) + 1) EXCEPT ![Cardinality(DOMAIN c)] = mask]

(* One entry of the directory.  A CPU that is offline has no core id, and  *)
(* there the code indexes with -1.                                         *)
read_cpu(c) ==
    LET id == machine.core_id[c]
        mask == parse_mask_from_file(sys, machine.siblings[c], {})
        saved == save_core(sys.cores, id, mask)
    IN
    /\ step = "cores" /\ c \in unread /\ id >= 0
    /\ sys' = [sys EXCEPT !.cores = saved]
    /\ needs_reordering' = (needs_reordering \/ (saved[id] # mask /\ saved # sys.cores))
    /\ unread' = unread \ {c}
    /\ UNCHANGED <<machine, step>>

(* cmp_mu_cpuset: by the first CPU, the empty ones last.                   *)
Reordered(cores) ==
    LET used == SetToSortSeq({k \in DOMAIN cores : cores[k] # {}},
                             LAMBDA a, b : \/ Min(cores[a]) < Min(cores[b])
                                           \/ Min(cores[a]) = Min(cores[b]) /\ a < b)
    IN  [k \in DOMAIN cores |-> IF k < Len(used) THEN cores[used[k + 1]] ELSE {}]

closedir_cores ==
    /\ step = "cores" /\ unread = {}
    /\ sys' = WithReferences(IF needs_reordering THEN [sys EXCEPT !.cores = Reordered(@)] ELSE sys)
    /\ step' = "nodes" /\ unread' = DOMAIN machine.nodes
    /\ UNCHANGED <<machine, needs_reordering>>

(* A node without CPUs is not saved.                                       *)
read_node(n) ==
    LET mask == parse_mask_from_file(sys, machine.nodes[n], {}) IN
    /\ step = "nodes" /\ n \in unread
    /\ sys' = IF mask = {} THEN sys
              ELSE [sys EXCEPT !.nodes = [Grown(@, n + 1) EXCEPT ![n] = mask]]
    /\ unread' = unread \ {n}
    /\ UNCHANGED <<machine, step, needs_reordering>>

closedir_nodes ==
    /\ step = "nodes" /\ unread = {}
    /\ sys' = IF sys.sys_mask = {} THEN init_system(ONLINE, ONLINE, 1) ELSE sys
    /\ step' = "ready"
    /\ UNCHANGED <<machine, unread, needs_reordering>>

mu_finalize ==
    /\ step = "ready"
    /\ sys' = init_mu_struct /\ step' = "start"
    /\ UNCHANGED <<machine, unread, needs_reordering>>

Next ==
    \/ parse_hwloc
    \/ parse_system_files
    \/ \E c \in unread : read_cpu(c)
    \/ closedir_cores
    \/ \E n \in unread : read_node(n)
    \/ closedir_nodes
    \/ mu_finalize

Spec == Init /\ [][Next]_vars

-----------------------------------------------------------------------------
(* Properties *)

(* Whatever the order in which the directory entries are read, and even if *)
(* cores of two sockets have the same core id, the table of cores holds    *)
(* every set of siblings once, every CPU refers to its own, and the nodes  *)
(* are those of the machine (parse_system_files, parse_hwloc).  The ids    *)
(* depend on the machine only: all processes of a node must agree on them. *)
TopologyIsTheMachine ==
    (step = "ready" /\ Present(machine) # {}) =>
    LET all == {machine.siblings[c] : c \in Present(machine)}
        used == {k \in Cores(sys) : sys.cores[k] # {}}
        id(c) == mu_get_core_id(sys, c)
        Clash == \E c, d \in Present(machine) : /\ machine.core_id[c] = machine.core_id[d]
                                                /\ machine.siblings[c] # machine.siblings[d]
    IN
    /\ {sys.cores[k] : k \in used} = all /\ Cardinality(used) = Cardinality(all)
    /\ \A c \in Present(machine) : mu_get_core_mask(sys, c) = machine.siblings[c]
    /\ {sys.nodes[n] : n \in DOMAIN sys.nodes} \ {{}} =
         {machine.nodes[n] : n \in DOMAIN machine.nodes} \ {{}}
    /\ ~machine.hwloc =>
         IF Clash THEN \A c, d \in Present(machine) :
                         Min(machine.siblings[c]) < Min(machine.siblings[d]) => id(c) < id(d)
         ELSE \A c \in Present(machine) : id(c) = machine.core_id[c]

(* The CPUs that a list names to its reader.                               *)
Named(list) == UNION {list[i].from .. list[i].to : i \in DOMAIN list}

(* A mask that DLB prints, in brackets or in quotes in a buffer that is    *)
(* large enough, names the CPUs of the mask; one that was cut names no     *)
(* other CPU (mu_to_str, mu_get_quoted_mask).  mu_parse_mask reads neither *)
(* form; it reads a mask back from the hexadecimal number of               *)
(* mu_parse_to_slurm_format and from the lists of the kernel.              *)
MasksReadBack ==
    step = "ready" =>
    \A mask \in SUBSET sys.sys_mask :
      LET str == mu_to_str(sys, mask)
          quoted(n) == mu_get_quoted_mask(sys, mask, n)
          room == Bytes(str.text) + 3
      IN
      /\ Named(str.text) = mask
      /\ quoted(room) = [str EXCEPT !.form = "quoted"]
      /\ \A n \in 2 .. room - 1 : Named(quoted(n).text) \subseteq mask
      /\ mu_parse_mask(sys, mu_parse_to_slurm_format(sys, mask), {}) = mask
      /\ mu_parse_mask(sys, KernelList(mask), {}) = mask

(* The two orders of CPUs that are given to qsort_r are strict total       *)
(* orders for a process that owns whole cores: the priority array of LeWI  *)
(* and the bindings of the thread managers do not depend on the sort.      *)
OrdersAreTotal ==
    step = "ready" =>
    \A owned \in SUBSET {k \in Cores(sys) : sys.cores[k] # {}} :
      LET mask == UNION {sys.cores[k] : k \in owned}
          IsOrder(cmp(_, _)) ==
            \A c, d \in sys.sys_mask :
              /\ c # d => (cmp(c, d) < 0) # (cmp(d, c) < 0)
              /\ \A e \in sys.sys_mask \ {c, d} : (c # d /\ cmp(c, d) < 0 /\ cmp(d, e) < 0) => cmp(c, e) < 0
      IN
      mask # {} => /\ IsOrder(LAMBDA c, d : mu_cmp_cpuids_by_ownership(sys, mask, c, d))
                   /\ IsOrder(LAMBDA c, d : mu_cmp_cpuids_by_affinity(sys, Affinity(sys, mask), c, d))

(* The cores that n calls take from the mask.                              *)
RECURSIVE Taken(_, _, _)
Taken(s, mask, n) ==
    LET t == mu_take_last_coreid(s, mask) IN
    IF n = 0 \/ t.coreid = -1 THEN << >> ELSE <<t.coreid>> \o Taken(s, t.mask, n - 1)

(* Where every core id is in use, taking cores from a mask one by one ends *)
(* with no complete core and yields as many as were counted, each once,    *)
(* and giving them back restores the mask (mu_take_last_coreid,            *)
(* mu_count_cores, mu_set_core; MNGO moves cores this way).                *)
CoresAreTaken ==
    (step = "ready" /\ \A k \in Cores(sys) : sys.cores[k] # {}) =>
    \A mask \in SUBSET sys.sys_mask :
      LET cores == Taken(sys, mask, Cardinality(Cores(sys)) + 1)
          left == FoldLeft(LAMBDA m, k : mu_unset_core(sys, m, k), mask, cores)
      IN
      /\ Len(cores) = mu_count_cores(sys, mask) /\ mu_count_cores(sys, left) = 0
      /\ FoldLeft(LAMBDA m, k : mu_set_core(sys, m, k), left, cores) = mask
      /\ mu_count_cores_intersecting_with_cpuset(sys, left) + Len(cores) =
           mu_count_cores_intersecting_with_cpuset(sys, mask)
=============================================================================
