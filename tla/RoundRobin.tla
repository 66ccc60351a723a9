----------------------------- MODULE RoundRobin -----------------------------
(***************************************************************************)
(* What the scheduler of src/kernel/process.c promises, without pointers:  *)
(* a queue of ready processes whose head is running, and every scheduling  *)
(* step moves the head to the tail.                                        *)
(***************************************************************************)
EXTENDS Sequences, SequencesExt

CONSTANTS
    Procs,   \* the processes
    NoProc   \* "nobody": the kernel's idle loop is running

VARIABLES
    queue,   \* the ready processes, next to run last moved to the front
    running  \* the process the CPU executes

rrVars == <<queue, running>>

RRInit == queue = <<>> /\ running = NoProc

Rotated(s) == IF s = <<>> THEN s ELSE Tail(s) \o <<Head(s)>>

(* The CPU goes to the head of a non-empty queue and stays where it is     *)
(* when there is nobody to run.                                            *)
GiveTo(s) == IF s = <<>> THEN running ELSE Head(s)

Add(p) ==
    /\ ~Contains(queue, p)
    /\ queue' = Append(queue, p)
    /\ UNCHANGED running

Tick ==
    /\ queue' = Rotated(queue)
    /\ running' = GiveTo(queue')

(* A process that exits leaves the queue and somebody else runs. *)
Exit ==
    /\ \E i \in DOMAIN queue :
          /\ queue[i] = running
          /\ queue' \in {RemoveAt(queue, i), Rotated(RemoveAt(queue, i))}
    /\ running' = GiveTo(queue')

RRNext == Tick \/ Exit \/ \E p \in Procs : Add(p)

RRSpec == RRInit /\ [][RRNext]_rrVars
=============================================================================
