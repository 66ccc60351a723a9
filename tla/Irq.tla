----------------------------------- MODULE Irq -----------------------------------
(***************************************************************************)
(* From the interrupt line to the scheduler: isr_handler of                *)
(* src/arch/x86_64/isr.c, driver_dispatch_irq of src/drivers/driver.c, the *)
(* timer driver (src/drivers/timer.c), which calls scheduler_tick, and the *)
(* two interrupt controllers that src/drivers/pic.c acknowledges.          *)
(*                                                                         *)
(* A context is the kernel's idle loop or a process.  It runs with         *)
(* interrupts on, except in an interrupt handler.  scheduler_tick may      *)
(* leave a handler half way, before the acknowledgement at its end; the    *)
(* rest of it runs when the context is switched to again.  process_switch  *)
(* saves no context for the idle loop, which therefore never continues.    *)
(* The ready queue is the abstract one that module Process implements.     *)
(***************************************************************************)
EXTENDS Integers, Sequences, FiniteSets, FiniteSetsExt, SequencesExt

CONSTANTS Procs, Kernel

ASSUME IrqAssumption == Kernel \notin Procs

Timer == 0
Keyboard == 1
Cascade == 2      \* the second controller's line at the first one
Mouse == 12
Lines == {Timer, Keyboard, Mouse}
Contexts == Procs \cup {Kernel}

NoFrame == [irq |-> -1, at |-> "none"]

VARIABLES
    irr,       \* lines that have been raised and wait
    master,    \* in service at the first controller; 0 has priority
    slave,     \* in service at the second controller
    cpu,       \* the context that executes
    frame,     \* of each context: the interrupt handler it is in
    queue      \* the ready queue

vars == <<irr, master, slave, cpu, frame, queue>>

Input(i) == IF i < 8 THEN i ELSE Cascade

Init ==
    /\ irr = {}
    /\ master = {}
    /\ slave = {}
    /\ cpu = Kernel
    /\ frame = [c \in Contexts |-> NoFrame]
    /\ queue = <<>>

-----------------------------------------------------------------------------

(* A device raises its line; while it is pending it is not counted twice.  *)
Raise(i) ==
    /\ irr' = irr \cup {i}
    /\ UNCHANGED <<master, slave, cpu, frame, queue>>

(* A line gets through when none of the same or a higher priority is       *)
(* pending or in service.                                                  *)
Passes(i) ==
    /\ i \in irr
    /\ \A j \in irr : i <= j
    /\ \A m \in master : Input(i) < m
    /\ i >= 8 => \A s \in slave : i < s

(* The CPU takes the interrupt and enters isr_handler. *)
Accept(i) ==
    /\ frame[cpu] = NoFrame
    /\ Passes(i)
    /\ irr' = irr \ {i}
    /\ master' = master \cup {Input(i)}
    /\ slave' = IF i >= 8 THEN slave \cup {i} ELSE slave
    /\ frame' = [frame EXCEPT ![cpu] = [irq |-> i, at |-> "drivers"]]
    /\ UNCHANGED <<cpu, queue>>

Rotated(s) == IF s = <<>> THEN s ELSE Tail(s) \o <<Head(s)>>

(* scheduler_tick on a queue s. *)
scheduler_tick(s) ==
    /\ queue' = Rotated(s)
    /\ cpu' = IF s = <<>> THEN cpu ELSE Head(queue')

(* Mutant: the timer's handler waits for a process to be ready. *)
DispatchWaits ==
    /\ frame[cpu].at = "drivers"
    /\ queue # <<>>
    /\ frame' = [frame EXCEPT ![cpu].at = "eoi"]
    /\ scheduler_tick(queue)
    /\ UNCHANGED <<irr, master, slave>>

(* driver_dispatch_irq calls every driver, whatever the line: the timer's  *)
(* calls scheduler_tick, the others leave this state alone.                *)
driver_dispatch_irq ==
    /\ frame[cpu].at = "drivers"
    /\ frame' = [frame EXCEPT ![cpu].at = "eoi"]
    /\ scheduler_tick(queue)
    /\ UNCHANGED <<irr, master, slave>>

(* Mutant: a line of the second controller is acknowledged there only. *)
EoiOneController(i) ==
    /\ master' = IF i >= 8 THEN master ELSE master \ {Min(master)}
    /\ slave' = IF i >= 8 /\ slave # {} THEN slave \ {Min(slave)} ELSE slave

(* drivers_pic_send_eoi is not specific: each controller takes it for the  *)
(* line of the highest priority in service.                                *)
drivers_pic_send_eoi(i) ==
    /\ master' = master \ {Min(master)}
    /\ slave' = IF i >= 8 /\ slave # {} THEN slave \ {Min(slave)} ELSE slave

(* The end of isr_handler, and iretq. *)
isr_return ==
    /\ frame[cpu].at = "eoi"
    /\ drivers_pic_send_eoi(frame[cpu].irq)
    /\ frame' = [frame EXCEPT ![cpu] = NoFrame]
    /\ UNCHANGED <<irr, cpu, queue>>

(* The kernel queues a process. *)
scheduler_add(p) ==
    /\ cpu = Kernel /\ frame[cpu] = NoFrame
    /\ ~Contains(queue, p)
    /\ queue' = Append(queue, p)
    /\ UNCHANGED <<irr, master, slave, cpu, frame>>

(* SYSCALL_EXIT; system calls run with interrupts off. *)
SYSCALL_EXIT ==
    /\ frame[cpu] = NoFrame
    /\ \E i \in DOMAIN queue : queue[i] = cpu /\ scheduler_tick(RemoveAt(queue, i))
    /\ UNCHANGED <<irr, master, slave, frame>>

Cpu == (\E i \in Lines : Accept(i)) \/ driver_dispatch_irq \/ isr_return

Next ==
    \/ \E i \in Lines : Raise(i)
    \/ Cpu
    \/ \E p \in Procs : scheduler_add(p)
    \/ SYSCALL_EXIT

(* The timer chip raises its line again and again, and a CPU with an       *)
(* interrupt to take or a handler to finish goes on.                       *)
Fairness == WF_vars(Raise(Timer)) /\ WF_vars(Cpu)

Spec == Init /\ [][Next]_vars /\ Fairness

-----------------------------------------------------------------------------

Unfinished == {c \in Contexts : frame[c] # NoFrame}

(* Type invariant. *)
TypeOK ==
    /\ irr \subseteq Lines
    /\ master \subseteq {Timer, Keyboard, Cascade}
    /\ slave \subseteq {Mouse}
    /\ cpu \in Contexts
    /\ frame \in [Contexts -> [irq : Lines, at : {"drivers", "eoi"}] \cup {NoFrame}]
    /\ IsInjective(queue) /\ Range(queue) \subseteq Procs

(* Acknowledgements balance: the first controller has as many lines in     *)
(* service as there are handlers to finish, the abandoned one of the idle  *)
(* loop included, although a handler may acknowledge another one's line.   *)
AcksBalance == Cardinality(master) = Cardinality(Unfinished)

(* isr_handler's acknowledgements balance with the handlers that are left  *)
(* and resumed by switches, and no process is queued twice.                *)
AcksSound == TypeOK /\ AcksBalance

(* As long as no process is ready, every timer interrupt is served, also   *)
(* one that is raised while the handler of another line runs.              *)
IdleIsTicked == [](queue = <<>>) => (Timer \in irr ~> Timer \notin irr)

(* "Drive process scheduling" by a "simple round-robin scheduler": a ready *)
(* process gets the CPU.                                                   *)
ReadyRuns == \A p \in Procs : Contains(queue, p) ~> (cpu = p)
=============================================================================
