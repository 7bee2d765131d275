-------------------------------- MODULE Fifo --------------------------------
(***************************************************************************)
(* What the queues of DLB promise: a sequence of requests, changed at its  *)
(* ends or by key.  last is the operation just performed: its argument,    *)
(* what it returned and the size that the queue reports after it.          *)
(***************************************************************************)
EXTENDS Naturals, Sequences, SequencesExt

CONSTANTS
    Request,    \* the requests: records of a pid, how many CPUs, and which ones
    Cpu,        \* the CPUs
    Size        \* the positions of the array of a queue that does not grow

VARIABLES kind, queue, last

vars == <<kind, queue, last>>

NoArg == "none"

Init ==
    /\ kind \in {"template", "proc", "pids", "fixed", "realloc", "overwrite"}
    /\ queue = <<>>
    /\ last = [op |-> "init", arg |-> NoArg, ret |-> NoArg, size |-> 0]

(* A queue that clears requests in place cannot use the gaps until the     *)
(* requests before them are gone, and counts them.                         *)
HasGaps == kind \in {"proc", "pids"}

Reports(op, arg, ret) ==
    /\ last' = [op |-> op, arg |-> arg, ret |-> ret, size |-> last'.size]
    /\ last'.size >= Len(queue')
    /\ HasGaps \/ last'.size = Len(queue')
    /\ kind = "proc" => (last'.size = 0 <=> queue' = <<>>)
    /\ kind' = kind

Room ==
    CASE kind \in {"template", "proc", "pids"} -> Len(queue) < Size - 1
      [] kind = "fixed" -> Len(queue) < Size
      [] OTHER -> TRUE

MayRefuse == IF HasGaps THEN queue # <<>> ELSE ~Room

Last1 == queue[Len(queue)]

Push(x) ==
    \/ Room /\ queue' = Append(queue, x) /\ Reports("push", x, TRUE)
    \/ MayRefuse /\ queue' = queue /\ Reports("push", x, FALSE)

(* The requests of a process that asks twice in a row may be joined.       *)
Join(x) ==
    /\ kind = "proc" /\ queue # <<>> /\ Last1.pid = x.pid
    /\ queue' = [queue EXCEPT ![Len(queue)].howmany = @ + x.howmany]
    /\ Reports("push", x, TRUE)

PushFront(x) ==
    \/ Room /\ queue' = <<x>> \o queue /\ Reports("push_front", x, TRUE)
    \/ MayRefuse /\ queue' = queue /\ Reports("push_front", x, FALSE)

Pop ==
    IF queue = <<>> THEN queue' = queue /\ Reports("pop", NoArg, NoArg)
    ELSE queue' = Tail(queue) /\ Reports("pop", NoArg, Head(queue))

PopBack ==
    IF queue = <<>> THEN queue' = queue /\ Reports("pop_back", NoArg, NoArg)
    ELSE queue' = Front(queue) /\ Reports("pop_back", NoArg, Last1)

RemovePid(pid) ==
    queue' = SelectSeq(queue, LAMBDA r : r.pid # pid) /\ Reports("remove", pid, NoArg)

First(pid) == SelectInSeq(queue, LAMBDA r : r.pid = pid)

Replace(x) ==
    /\ queue' = IF First(x.pid) = 0 THEN queue ELSE [queue EXCEPT ![First(x.pid)] = x]
    /\ Reports("replace", x, NoArg)

Search(pid) ==
    /\ queue' = queue
    /\ Reports("search", pid, IF First(pid) = 0 THEN NoArg ELSE queue[First(pid)])

(* A position past the end is of no element: nothing happens.              *)
Delete(i) ==
    /\ queue' = IF i <= Len(queue) THEN RemoveAt(queue, i) ELSE queue
    /\ Reports("delete", i, NoArg)

(* The first request that accepts the CPU is served.                       *)
Get(cpu) ==
    LET i == SelectInSeq(queue, LAMBDA r : cpu \in r.allowed)
    IN  /\ queue' = IF i = 0 THEN queue
                    ELSE IF queue[i].howmany = 1 THEN RemoveAt(queue, i)
                    ELSE [queue EXCEPT ![i].howmany = @ - 1]
        /\ Reports("get", cpu, IF i = 0 THEN NoArg ELSE queue[i].pid)

(* Visiting the elements one after the other.                              *)
List(backwards) ==
    /\ queue' = queue
    /\ Reports("list", backwards, IF backwards THEN Reverse(queue) ELSE queue)

Next ==
    \/ \E x \in Request : Push(x) \/ Join(x) \/ PushFront(x) \/ Replace(x)
                          \/ RemovePid(x.pid) \/ Search(x.pid)
    \/ Pop \/ PopBack
    \/ \E i \in 1 .. Size : Delete(i)
    \/ \E cpu \in Cpu : Get(cpu)
    \/ \E backwards \in BOOLEAN : List(backwards)

Spec == Init /\ [][Next]_vars
=============================================================================
