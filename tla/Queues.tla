------------------------------- MODULE Queues -------------------------------
(***************************************************************************)
(* The circular queues of DLB in an array: the template of                 *)
(* support/queue_template.h (requests and CPUs of shmem_cpuinfo), the      *)
(* queues of requests and of pids and the generic queue_t of               *)
(* support/queues.c (regions and history of MNGO).  ring is the queue in   *)
(* memory; each implements the sequence of Fifo.                           *)
(***************************************************************************)
EXTENDS Naturals, Integers, Sequences, SequencesExt

CONSTANTS
    Kinds,      \* the implementations
    Request, Cpu, Size,
    MaxHowmany, \* bound: CPUs that one request asks for
    MaxLen      \* bound: elements of a queue that grows

ASSUME QueuesAssumption == Size \in Nat \ {0, 1} /\ MaxHowmany \in Nat /\ MaxLen \in Nat

VARIABLES
    kind,   \* the implementation under test
    ring,   \* items, front (tail), next (head), elements, capacity
    last    \* the operation just performed

vars == <<kind, ring, last>>

NoArg == "none"

NOBODY == 0

Cleared == [pid |-> NOBODY, howmany |-> 0, allowed |-> {}]

Pids == {r.pid : r \in Request}

(* memset, or malloc for queue_t: there the contents do not matter.        *)
Empty(n) ==
    [items |-> [i \in 0 .. n - 1 |-> Cleared], front |-> 0, next |-> 0, elements |-> 0,
     capacity |-> n]

Init ==
    /\ kind \in Kinds
    /\ ring = Empty(IF kind = "realloc" THEN 1 ELSE Size)
    /\ last = [op |-> "init", arg |-> NoArg, ret |-> NoArg, size |-> 0]

Succ(q, i) == (i + 1) % q.capacity

(* The indices from a up to b, b excluded.                                 *)
Span(q, a, b) == [k \in 1 .. (b - a) % q.capacity |-> (a + k - 1) % q.capacity]

Used(q) == Span(q, q.front, q.next)

Generic == kind \in {"fixed", "realloc", "overwrite"}

QUEUE_size(q) == IF q.next >= q.front THEN q.next - q.front ELSE q.capacity - q.front + q.next

SizeOf(q) == IF Generic THEN q.elements ELSE QUEUE_size(q)

Answer(op, arg, ret, q) ==
    /\ ring' = q
    /\ last' = [op |-> op, arg |-> arg, ret |-> ret, size |-> SizeOf(q)]
    /\ kind' = kind

(***************************************************************************)
(* queue_template.h.                                                       *)
(***************************************************************************)

QUEUE_empty(q) == q.front = q.next

QUEUE_full(q) == Succ(q, q.next) = q.front

Stored(q, x) == [q EXCEPT !.items[q.next] = x, !.next = Succ(q, q.next)]

QUEUE_enqueue(x) ==
    IF QUEUE_full(ring) THEN Answer("push", x, FALSE, ring)
    ELSE Answer("push", x, TRUE, Stored(ring, x))

QUEUE_dequeue ==
    IF QUEUE_empty(ring) THEN Answer("pop", NoArg, NoArg, ring)
    ELSE Answer("pop", NoArg, ring.items[ring.front], [ring EXCEPT !.front = Succ(ring, @)])

(* The items that follow are moved one position forward.                   *)
QUEUE_delete(i) ==
    LET linear == ring.next > ring.front
        outside == IF linear THEN i < ring.front \/ i >= ring.next
                   ELSE i >= ring.next /\ i < ring.front
        moved == FoldLeft(LAMBDA acc, read :
                            [items |-> [acc.items EXCEPT ![acc.write] = acc.items[read]],
                             write |-> Succ(ring, acc.write)],
                          [items |-> ring.items, write |-> i],
                          Span(ring, Succ(ring, i), ring.next))
        position == ((i - ring.front) % ring.capacity) + 1
    IN  Answer("delete", position, NoArg,
               IF QUEUE_empty(ring) THEN ring
               ELSE IF i = ring.front THEN [ring EXCEPT !.front = Succ(ring, @)]
               ELSE IF outside THEN ring
               ELSE [ring EXCEPT !.items = moved.items, !.next = moved.write])

(* The front skips all items of the key, then the others are packed.       *)
QUEUE_remove(pid) ==
    LET used == Used(ring)
        keep == SelectInSeq(used, LAMBDA i : ring.items[i].pid # pid)
        front == IF keep = 0 THEN ring.next ELSE used[keep]
        packed == FoldLeft(LAMBDA acc, read :
                             [items |-> [acc.items EXCEPT ![acc.write] = acc.items[read]],
                              write |-> IF acc.items[read].pid # pid
                                        THEN Succ(ring, acc.write) ELSE acc.write],
                           [items |-> ring.items, write |-> Succ(ring, front)],
                           Span(ring, Succ(ring, front), ring.next))
    IN  Answer("remove", pid, NoArg,
               IF front = ring.next THEN [ring EXCEPT !.front = front]
               ELSE [ring EXCEPT !.front = front, !.items = packed.items, !.next = packed.write])

Found(pid) ==
    LET used == Used(ring)
    IN  {used[k] : k \in {j \in {SelectInSeq(used, LAMBDA i : ring.items[i].pid = pid)} : j > 0}}

QUEUE_replace(x) ==
    Answer("replace", x, NoArg,
           [ring EXCEPT !.items = [i \in DOMAIN @ |-> IF i \in Found(x.pid) THEN x ELSE @[i]]])

QUEUE_search(pid) ==
    Answer("search", pid,
           IF Found(pid) = {} THEN NoArg ELSE ring.items[CHOOSE i \in Found(pid) : TRUE], ring)

Nil == -1

(* The index of the item after the one at i.                               *)
QUEUE_next(q, i) ==
    LET j == IF i + 1 < q.capacity THEN i + 1 ELSE 0
    IN  IF QUEUE_empty(q) THEN Nil
        ELSE IF q.next > q.front THEN IF i + 1 < q.next THEN i + 1 ELSE Nil
        ELSE IF j > q.front \/ j < q.next THEN j ELSE Nil

QUEUE_front(q) == IF QUEUE_empty(q) THEN Nil ELSE q.front

Iterate ==
    LET visit == FoldLeft(LAMBDA acc, k :
                            IF acc.at = Nil THEN acc
                            ELSE [at |-> QUEUE_next(ring, acc.at),
                                  seen |-> Append(acc.seen, ring.items[acc.at])],
                          [at |-> QUEUE_front(ring), seen |-> <<>>],
                          [k \in 1 .. ring.capacity |-> k])
    IN  Answer("list", FALSE, visit.seen, ring)

TemplateNext ==
    /\ kind = "template"
    /\ \/ \E x \in Request : QUEUE_enqueue(x) \/ QUEUE_replace(x)
       \/ \E pid \in Pids : QUEUE_remove(pid) \/ QUEUE_search(pid)
       \/ \E i \in 0 .. ring.capacity - 1 : QUEUE_delete(i)
       \/ QUEUE_dequeue \/ Iterate

(***************************************************************************)
(* queue_proc_reqs_t and queue_pids_t: requests are cleared in place, and  *)
(* the front skips those that were.                                        *)
(***************************************************************************)

Skipped(q) ==
    LET used == Used(q)
        valid == SelectInSeq(used, LAMBDA i : q.items[i].pid # NOBODY)
    IN  [q EXCEPT !.front = IF valid = 0 THEN q.next ELSE used[valid]]

(* The requests of the process are cleared where they are.                 *)
ClearedOf(q, pid) ==
    [q EXCEPT !.items = [i \in DOMAIN @ |->
        IF i \in ToSet(Used(q)) /\ @[i].pid = pid THEN Cleared ELSE @[i]]]

Removed(q, pid) == Skipped(ClearedOf(q, pid))

queue_remove(pid) == Answer("remove", pid, NoArg, Removed(ring, pid))

(* The last request is looked at also when the queue is empty: there it is *)
(* a cleared one.  The joined request keeps the CPUs of the first.         *)
queue_proc_reqs_push(x) ==
    LET back == IF ring.next > 0 THEN ring.next - 1 ELSE ring.capacity - 1
        howmany == ring.items[back].howmany + x.howmany
    IN  IF ring.items[back].pid = x.pid
        THEN /\ howmany <= MaxHowmany
             /\ Answer("push", x, TRUE, [ring EXCEPT !.items[back].howmany = howmany])
        ELSE QUEUE_enqueue(x)

queue_proc_reqs_pop ==
    LET front == ring.items[ring.front]
    IN  Answer("pop", NoArg, IF front.pid = NOBODY THEN NoArg ELSE front,
               Skipped([ring EXCEPT !.items[ring.front] = Cleared]))

queue_proc_reqs_get(cpu) ==
    LET used == Used(ring)
        k == SelectInSeq(used, LAMBDA i : ring.items[i].pid # NOBODY
                                          /\ cpu \in ring.items[i].allowed)
        r == ring.items[used[k]]
        served == IF r.howmany = 1 THEN Cleared ELSE [r EXCEPT !.howmany = @ - 1]
    IN  IF k = 0 THEN Answer("get", cpu, NoArg, Skipped(ring))
        ELSE Answer("get", cpu, r.pid, Skipped([ring EXCEPT !.items[used[k]] = served]))

ProcReqsNext ==
    /\ kind = "proc"
    /\ \/ \E x \in Request : queue_proc_reqs_push(x)
       \/ \E pid \in Pids : queue_remove(pid)
       \/ \E cpu \in Cpu : queue_proc_reqs_get(cpu)
       \/ queue_proc_reqs_pop

(* Cleared pids are skipped by the pop only, as far as it needs.           *)
queue_pids_pop ==
    LET q == Skipped(ring)
    IN  IF QUEUE_empty(q) THEN Answer("pop", NoArg, NoArg, q)
        ELSE Answer("pop", NoArg, q.items[q.front],
                    [q EXCEPT !.items[q.front] = Cleared, !.front = Succ(q, @)])

PidsNext ==
    /\ kind = "pids"
    /\ \/ \E x \in Request : QUEUE_enqueue(x)
       \/ \E pid \in Pids : queue_remove(pid)
       \/ queue_pids_pop

(***************************************************************************)
(* queue_t: the element count is kept apart, so that the array can be full.*)
(***************************************************************************)

move_forwards(q, i) == IF i + 1 >= q.capacity THEN 0 ELSE i + 1

move_backwards(q, i) == (IF i = 0 THEN q.capacity ELSE i) - 1

queue__is_at_capacity(q) == q.elements = q.capacity

(* Mutant: the elements that wrapped around are copied to the start.       *)
queue__realloc_in_place(q) ==
    LET n == q.capacity * 2
    IN  [items |-> [i \in 0 .. n - 1 |-> IF i < q.capacity THEN q.items[i] ELSE Cleared],
         front |-> 0, next |-> q.elements, elements |-> q.elements, capacity |-> n]

(* One copy when the elements start at the first position, otherwise one   *)
(* of those from the tail to the end (or the head) and one of the rest.    *)
queue__realloc(q) ==
    LET n == IF q.capacity = 0 THEN 1 ELSE q.capacity * 2
        aligned == q.front = 0 /\ q.next = 0
        first == (IF q.front >= q.next THEN q.capacity ELSE q.next) - q.front
        rest == q.capacity - q.front
        At(i) == IF aligned THEN IF i < q.elements THEN q.items[i] ELSE Cleared
                 ELSE IF i >= rest /\ i < rest + q.next THEN q.items[i - rest]
                 ELSE IF i < first THEN q.items[q.front + i]
                 ELSE Cleared
    IN  [items |-> [i \in 0 .. n - 1 |-> At(i)], front |-> 0, next |-> q.elements,
         elements |-> q.elements, capacity |-> n]

(* What a full queue does: refuse, grow, or go on as if it were not full.  *)
queue__check_capacity(q) == ~(queue__is_at_capacity(q) /\ kind = "fixed")

Prepared(q) == IF queue__is_at_capacity(q) /\ kind = "realloc" THEN queue__realloc(q) ELSE q

queue__push_head(x) ==
    LET q == Prepared(ring)
    IN  IF ~queue__check_capacity(ring) THEN Answer("push", x, FALSE, ring)
        ELSE Answer("push", x, TRUE,
                    [q EXCEPT !.items[q.next] = x, !.next = move_forwards(q, @), !.elements = @ + 1])

queue__push_tail(x) ==
    LET q == Prepared(ring)
        tail == move_backwards(q, q.front)
    IN  IF ~queue__check_capacity(ring) THEN Answer("push_front", x, FALSE, ring)
        ELSE Answer("push_front", x, TRUE,
                    [q EXCEPT !.items[tail] = x, !.front = tail, !.elements = @ + 1])

queue__take_head ==
    LET head == move_backwards(ring, ring.next)
    IN  IF ring.elements = 0 THEN Answer("pop_back", NoArg, NoArg, ring)
        ELSE Answer("pop_back", NoArg, ring.items[head],
                    [ring EXCEPT !.next = head, !.elements = @ - 1])

queue__take_tail ==
    IF ring.elements = 0 THEN Answer("pop", NoArg, NoArg, ring)
    ELSE Answer("pop", NoArg, ring.items[ring.front],
                [ring EXCEPT !.front = move_forwards(ring, @), !.elements = @ - 1])

(* queue_iter_head2tail__next until it returns NULL: it stops at the tail  *)
(* and does not count the elements.                                        *)
queue_iter__foreach ==
    LET step(acc, k) ==
            LET at == move_backwards(ring, acc.at)
            IN  IF acc.done THEN acc
                ELSE [at |-> at, done |-> at = ring.front,
                      seen |-> Append(acc.seen, ring.items[at])]
        visit == FoldLeft(step, [at |-> ring.next, done |-> ring.elements = 0, seen |-> <<>>],
                          [k \in 1 .. ring.capacity |-> k])
    IN  Answer("list", TRUE, visit.seen, ring)

GenericNext ==
    /\ Generic
    /\ \/ \E x \in Request :
             /\ ring.elements < MaxLen \/ kind = "fixed"
             /\ queue__push_head(x) \/ queue__push_tail(x)
       \/ queue__take_head \/ queue__take_tail \/ queue_iter__foreach

Next == TemplateNext \/ ProcReqsNext \/ PidsNext \/ GenericNext

Spec == Init /\ [][Next]_vars

(***************************************************************************)
(* The sequence that the array stands for.                                 *)
(***************************************************************************)

Contents ==
    IF Generic THEN [k \in 1 .. ring.elements |-> ring.items[(ring.front + k - 1) % ring.capacity]]
    ELSE LET used == Used(ring)
         IN  SelectSeq([k \in DOMAIN used |-> ring.items[used[k]]], LAMBDA r : r.pid # NOBODY)

Abstract == INSTANCE Fifo WITH queue <- Contents

(* Every queue of DLB behaves as the sequence of Fifo: what is pushed,     *)
(* popped, removed, replaced, searched, served or visited, at whatever     *)
(* position of the array, with requests cleared in between and after the   *)
(* array was moved to a larger one (queue_template.h, queues.c).           *)
QueuesAreSequences == Abstract!Spec
=============================================================================
