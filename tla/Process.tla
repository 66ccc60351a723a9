------------------------------- MODULE Process -------------------------------
(***************************************************************************)
(* Processes and the scheduler: src/kernel/process.c and the SYSCALL_EXIT  *)
(* case of src/kernel/syscall.c.                                           *)
(*                                                                         *)
(* A process_t comes from the heap's 512-byte slab, whose objects are      *)
(* never reused, and takes the next pid: a process is its pid, 0 is the    *)
(* null pointer, and what kfree leaves behind keeps its fields.  The list  *)
(* of all processes and the ready queue go through the SAME next and prev  *)
(* fields, so both are modelled at pointer level.  An assignment through   *)
(* a null pointer is lost.                                                 *)
(*                                                                         *)
(* Nothing in src/ calls process_create or scheduler_add.  The clients     *)
(* modelled call them in any order, also while processes run, but with     *)
(* interrupts off, as kernel_main has them until sti: with interrupts on,  *)
(* scheduler_tick could come between the stores of scheduler_add.          *)
(*                                                                         *)
(* Only the stack pages of a process are followed, in units of pages:      *)
(* StackPages stands for PROCESS_STACK_SIZE / 4096 = 256.                  *)
(***************************************************************************)
EXTENDS Integers, FiniteSets, FiniteSetsExt, SequencesExt

CONSTANTS
    MaxProcs,    \* bound: how many processes are ever created
    NumPages,    \* pages of RAM above mem_start
    StackPages,  \* pages of a process stack
    Holes        \* pages of RAM that are never free (the kernel's bitmap)

ASSUME ProcessAssumption ==
    /\ MaxProcs \in Nat \ {0}
    /\ NumPages \in Nat
    /\ StackPages \in Nat \ {0}
    /\ Holes \subseteq 1..NumPages

NULL == 0
Procs == 1..MaxProcs
Pages == 1..NumPages
Kernel == MaxProcs + 1   \* owner of the pages in use for something else

VARIABLES
    q,            \* next, prev, process_list, ready_queue, ready_queue_tail
    current_process,
    next_pid,
    state,        \* of each process; "none" before and after it exists
    stack_bottom, \* of each process, as a page
    used,         \* pages whose bit is set in the page bitmap
    owner,        \* history: for whom a page was allocated, NULL when free
    wait,         \* history: scheduling steps since a process last ran
    torn,         \* history: processes whose stack pages were not adjacent
    lost          \* history: has a process exited whose prev was not NULL?

vars == <<q, current_process, next_pid, state, stack_bottom, used, owner, wait, torn, lost>>

-----------------------------------------------------------------------------
(* The shared links *)

(* process_create: at the head of the process list.  memset cleared the    *)
(* links of the new process.                                               *)
LinkNew(s, p) ==
    [s EXCEPT !.next = [x \in Procs |-> IF x = p THEN s.process_list ELSE s.next[x]],
              !.prev = [x \in Procs |-> IF x = s.process_list THEN p
                                        ELSE IF x = p THEN NULL ELSE s.prev[x]],
              !.process_list = p]

(* process_destroy: out of the process list, own links left as they are. *)
Unlist(s, p) ==
    [s EXCEPT !.next = [x \in Procs |-> IF x = s.prev[p] THEN s.next[p] ELSE s.next[x]],
              !.prev = [x \in Procs |-> IF x = s.next[p] THEN s.prev[p] ELSE s.prev[x]],
              !.process_list = IF @ = p THEN s.next[p] ELSE @]

(* Mutant: scheduler_add leaves the link to the next process of the list. *)
EnqueueKeepsNext(s, p) ==
    IF s.ready_queue = NULL
    THEN [s EXCEPT !.prev[p] = NULL, !.ready_queue = p, !.ready_queue_tail = p]
    ELSE [s EXCEPT !.next = [x \in Procs |-> IF x = s.ready_queue_tail THEN p ELSE s.next[x]],
                   !.prev[p] = s.ready_queue_tail,
                   !.ready_queue_tail = p]

(* scheduler_add *)
Enqueue(s, p) ==
    IF s.ready_queue = NULL
    THEN [s EXCEPT !.next[p] = NULL, !.prev[p] = NULL,
                   !.ready_queue = p, !.ready_queue_tail = p]
    ELSE [s EXCEPT !.next = [x \in Procs |-> IF x = p THEN NULL
                                             ELSE IF x = s.ready_queue_tail THEN p
                                             ELSE s.next[x]],
                   !.prev[p] = s.ready_queue_tail,
                   !.ready_queue_tail = p]

(* Mutant: the head of the queue is not moved on. *)
UnqueueKeepsHead(s, p) ==
    [s EXCEPT !.next = [x \in Procs |-> IF x = p THEN NULL
                                        ELSE IF x = s.prev[p] THEN s.next[p]
                                        ELSE s.next[x]],
              !.prev = [x \in Procs |-> IF x = p THEN NULL
                                        ELSE IF x = s.next[p] THEN s.prev[p]
                                        ELSE s.prev[x]],
              !.ready_queue_tail = IF s.next[p] = NULL THEN s.prev[p] ELSE @]

(* scheduler_remove *)
Unqueue(s, p) ==
    [s EXCEPT !.next = [x \in Procs |-> IF x = p THEN NULL
                                        ELSE IF x = s.prev[p] THEN s.next[p]
                                        ELSE s.next[x]],
              !.prev = [x \in Procs |-> IF x = p THEN NULL
                                        ELSE IF x = s.next[p] THEN s.prev[p]
                                        ELSE s.prev[x]],
              !.ready_queue = IF s.prev[p] = NULL THEN s.next[p] ELSE @,
              !.ready_queue_tail = IF s.next[p] = NULL THEN s.prev[p] ELSE @]

(* Mutant: the head goes behind its successor instead of the tail. *)
RotateByOne(s) ==
    LET head == s.ready_queue
        second == s.next[head]
    IN IF head = NULL \/ s.next[head] = NULL
       THEN s
       ELSE [s EXCEPT !.next = [x \in Procs |-> IF x = second THEN head
                                                ELSE IF x = head THEN s.next[second]
                                                ELSE s.next[x]],
                      !.prev = [x \in Procs |-> IF x = head THEN second
                                                ELSE IF x = second THEN NULL
                                                ELSE IF x = s.next[second] THEN head
                                                ELSE s.prev[x]],
                      !.ready_queue = second,
                      !.ready_queue_tail = IF @ = second THEN head ELSE @]

(* scheduler_tick's "move head to tail"; a queue of one is left alone. *)
Rotate(s) ==
    LET head == s.ready_queue
    IN IF head = NULL \/ s.next[head] = NULL
       THEN s
       ELSE [s EXCEPT !.next = [x \in Procs |-> IF x = s.ready_queue_tail THEN head
                                                ELSE IF x = head THEN NULL
                                                ELSE s.next[x]],
                      !.prev = [x \in Procs |-> IF x = head THEN s.ready_queue_tail
                                                ELSE IF x = s.next[head] THEN NULL
                                                ELSE s.prev[x]],
                      !.ready_queue = s.next[head],
                      !.ready_queue_tail = head]

(* The processes met when following next from a pointer, NULL-terminated;  *)
(* a chain that does not end is cut after one more step than there are     *)
(* processes.                                                              *)
Chain(s, first) ==
    LET at[i \in 0..MaxProcs] ==
            IF i = 0 THEN first
            ELSE IF at[i - 1] = NULL THEN NULL ELSE s.next[at[i - 1]]
    IN [i \in 1..Cardinality({j \in 0..MaxProcs : at[j] # NULL}) |-> at[i - 1]]

-----------------------------------------------------------------------------
(* The operations *)

Init ==
    /\ q = [next |-> [p \in Procs |-> NULL], prev |-> [p \in Procs |-> NULL],
            process_list |-> NULL, ready_queue |-> NULL, ready_queue_tail |-> NULL]
    /\ current_process = NULL
    /\ next_pid = 1
    /\ state = [p \in Procs |-> "none"]
    /\ stack_bottom = [p \in Procs |-> NULL]
    /\ used = Holes
    /\ owner = [g \in Pages |-> IF g \in Holes THEN Kernel ELSE NULL]
    /\ wait = [p \in Procs |-> 0]
    /\ torn = {}
    /\ lost = FALSE

Clear == Pages \ used

(* The n pages that n calls of pmm_alloc_page return, lowest first. *)
Lowest(n) == {g \in Clear : Cardinality({h \in Clear : h < g}) < n}

Take(S, who) ==
    /\ used' = used \cup S
    /\ owner' = [g \in Pages |-> IF g \in S THEN who ELSE owner[g]]

(* n calls of pmm_free_page on a run of addresses; a clear page is left    *)
(* alone.                                                                  *)
Run(bottom, n) == Pages \cap (bottom..(bottom + n - 1))

(* The code takes pages it got one by one for a run of addresses: note     *)
(* when the pages S it got are not that run.                               *)
Torn(S, run) == torn' = IF S = run THEN torn ELSE torn \cup {next_pid}

(* process_create succeeds: the stack is taken to be the StackPages pages  *)
(* that start at the first one allocated.                                  *)
process_create ==
    /\ next_pid \in Procs
    /\ Cardinality(Clear) >= StackPages
    /\ Take(Lowest(StackPages), next_pid)
    /\ Torn(Lowest(StackPages), Run(Min(Clear), StackPages))
    /\ stack_bottom' = [stack_bottom EXCEPT ![next_pid] = Min(Clear)]
    /\ state' = [state EXCEPT ![next_pid] = "ready"]
    /\ q' = LinkNew(q, next_pid)
    /\ next_pid' = next_pid + 1
    /\ UNCHANGED <<current_process, wait, lost>>

(* process_create runs out of pages: as many pages as it got are freed     *)
(* from the first one on, whichever they are, and the pid is spent.        *)
process_create_fails ==
    /\ next_pid \in Procs
    /\ Cardinality(Clear) < StackPages
    /\ LET got == Cardinality(Clear)
           back == IF got = 0 THEN {} ELSE Run(Min(Clear), got)
       IN /\ used' = (used \cup Clear) \ back
          /\ owner' = [g \in Pages |-> IF g \in back THEN NULL
                                       ELSE IF g \in Clear THEN next_pid
                                       ELSE owner[g]]
          /\ Torn(Clear, back)
    /\ next_pid' = next_pid + 1
    /\ UNCHANGED <<q, current_process, state, stack_bottom, wait, lost>>

(* The heap or the page tables take a page. *)
KernelAlloc ==
    /\ Clear # {}
    /\ Take(Lowest(1), Kernel)
    /\ UNCHANGED <<q, current_process, next_pid, state, stack_bottom, wait, torn, lost>>

(* scheduler_add of a process that exists and is not queued yet. *)
scheduler_add(p) ==
    /\ state[p] = "ready"
    /\ ~Contains(Chain(q, q.ready_queue), p)
    /\ q' = Enqueue(q, p)
    /\ wait' = [wait EXCEPT ![p] = 0]
    /\ UNCHANGED <<current_process, next_pid, state, stack_bottom, used, owner, torn, lost>>

(* process_switch: the CPU goes to the head, unless it is there already or *)
(* the queue is empty.                                                     *)
SwitchTo(p) ==
    /\ current_process' = IF p = NULL THEN current_process ELSE p
    /\ wait' = [x \in Procs |-> IF x = current_process' THEN 0
                                ELSE IF Contains(Chain(q, q.ready_queue), x) THEN wait[x] + 1
                                ELSE 0]

(* scheduler_tick, called from the timer's interrupt handler. *)
scheduler_tick ==
    /\ q.ready_queue # NULL
    /\ q' = Rotate(q)
    /\ SwitchTo(q'.ready_queue)
    /\ UNCHANGED <<next_pid, state, stack_bottom, used, owner, torn, lost>>

(* Mutant: the stack is released one page too far. *)
ExitFreesTooMuch ==
    /\ current_process # NULL
    /\ state[current_process] = "ready"
    /\ LET p == current_process
           back == Run(stack_bottom[p], StackPages + 1)
       IN /\ q' = Rotate(Unlist(Unqueue(q, p), p))
          /\ used' = used \ back
          /\ owner' = [g \in Pages |-> IF g \in back THEN NULL ELSE owner[g]]
          /\ state' = [state EXCEPT ![p] = "zombie"]
          /\ lost' = (lost \/ q.prev[p] # NULL)
    /\ SwitchTo(q'.ready_queue)
    /\ UNCHANGED <<next_pid, stack_bottom, torn>>

(* SYSCALL_EXIT by the running process: scheduler_remove, process_destroy  *)
(* and a scheduler_tick, which rotates once more.  current_process is not  *)
(* reset: with nobody else ready the process goes on running, on a stack   *)
(* it no longer owns.  A process calls it once.                            *)
SYSCALL_EXIT ==
    /\ current_process # NULL
    /\ state[current_process] = "ready"
    /\ LET p == current_process
           back == Run(stack_bottom[p], StackPages)
       IN /\ q' = Rotate(Unlist(Unqueue(q, p), p))
          /\ used' = used \ back
          /\ owner' = [g \in Pages |-> IF g \in back THEN NULL ELSE owner[g]]
          /\ state' = [state EXCEPT ![p] = "zombie"]
          /\ lost' = (lost \/ q.prev[p] # NULL)
    /\ SwitchTo(q'.ready_queue)
    /\ UNCHANGED <<next_pid, stack_bottom, torn>>

Next ==
    \/ process_create
    \/ process_create_fails
    \/ KernelAlloc
    \/ \E p \in Procs : scheduler_add(p)
    \/ scheduler_tick
    \/ SYSCALL_EXIT

Spec == Init /\ [][Next]_vars

-----------------------------------------------------------------------------
(* Properties *)

ReadyQueue == Chain(q, q.ready_queue)
Live == {p \in Procs : state[p] = "ready"}

(* Type invariant of process.c's globals and of the fields modelled. *)
TypeOK ==
    /\ q \in [next : [Procs -> Procs \cup {NULL}], prev : [Procs -> Procs \cup {NULL}],
              process_list : Procs \cup {NULL}, ready_queue : Procs \cup {NULL},
              ready_queue_tail : Procs \cup {NULL}]
    /\ current_process \in Procs \cup {NULL}
    /\ next_pid \in 1..(MaxProcs + 1)
    /\ state \in [Procs -> {"none", "ready", "zombie"}]
    /\ stack_bottom \in [Procs -> Pages \cup {NULL}]
    /\ used \subseteq Pages
    /\ owner \in [Pages -> 0..(MaxProcs + 1)]
    /\ wait \in [Procs -> Nat]
    /\ torn \subseteq Procs
    /\ lost \in BOOLEAN

(* The ready queue holds no process that has exited: scheduler_remove in   *)
(* SYSCALL_EXIT unlinks the process.                                       *)
ReadyQueueLive == Range(ReadyQueue) \subseteq Live

(* The list that starts at ready_queue ends at ready_queue_tail, although  *)
(* the process list writes its links too.  Read backwards it is the same   *)
(* list, except that process_create may have overwritten the link of a     *)
(* process with the one created after it.                                  *)
ReadyQueueLinked ==
    /\ Len(ReadyQueue) <= MaxProcs
    /\ q.ready_queue = NULL <=> q.ready_queue_tail = NULL
    /\ \A i \in 1..Len(ReadyQueue) :
          \/ q.prev[ReadyQueue[i]] = (IF i = 1 THEN NULL ELSE ReadyQueue[i - 1])
          \/ q.prev[ReadyQueue[i]] > ReadyQueue[i]
    /\ ReadyQueue # <<>> => q.ready_queue_tail = Last(ReadyQueue)

(* The running process is the head of the ready queue, unless it has       *)
(* exited with nobody left to run, or the first tick is still to come.     *)
RunningIsHead == current_process \in Live => current_process = q.ready_queue

(* In whatever order processes are created, queued, switched and exit, the *)
(* ready queue is a list of live processes with the running one at its     *)
(* head.  Only an exit of a process whose link process_create has          *)
(* overwritten since it came to the head ends that: a link overwritten at  *)
(* any other place is mended before anything reads it.                     *)
QueueSound == TypeOK /\ (~lost => ReadyQueueLive /\ ReadyQueueLinked /\ RunningIsHead)

(* Until a process whose stack pages were not adjacent gives them back,    *)
(* the stack that process_create reports for any other live process        *)
(* (stack_bottom, one PROCESS_STACK_SIZE up) is made of pages allocated    *)
(* for it and still in use, and no page outlives its process, however the  *)
(* kernel's own pages and the holes of memory lie between them.            *)
StacksOwned ==
    torn \subseteq Live =>
        /\ \A p \in Live \ torn : \A g \in Run(stack_bottom[p], StackPages) :
              owner[g] = p /\ g \in used
        /\ \A g \in Pages : owner[g] \in Procs => owner[g] \in Live

(* A queued process runs again after at most n(n - 1)/2 scheduling steps   *)
(* (n the number of processes): it may be sent to the end of the queue     *)
(* once by every process that exits just before it, never for good.        *)
WaitBounded ==
    ~lost => \A p \in Range(ReadyQueue) : 2 * wait[p] <= MaxProcs * (MaxProcs - 1)

(* The linked lists implement a plain round-robin queue, up to the exit of *)
(* a process whose link process_create has overwritten.                    *)
RR == INSTANCE RoundRobin WITH NoProc <- NULL, queue <- ReadyQueue, running <- current_process

ImplementsRoundRobin == RR!RRInit /\ [][lost' \/ RR!RRNext]_(RR!rrVars)
=============================================================================
