------------------------------ MODULE FetchGate ------------------------------
(****************************************************************************)
(* The in-flight window of the browser reader, rust/src/fetch_window.rs: a  *)
(* cooperative semaphore that bounds how many network reads run at once.    *)
(*                                                                          *)
(* A read is one Acquire future: FetchGate::acquire hands each a fresh id,  *)
(* so a read and the id of its queue entry are the same thing here.         *)
(* Readers run on a single-threaded executor: each poll, drop and resize is *)
(* one atomic step, and the executor may take the ready reads in any order. *)
(****************************************************************************)
EXTENDS Naturals, FiniteSets

CONSTANTS
    Reads,        \* the Acquire futures ever created
    Limits,       \* the window sizes set_limit may be called with
    InitLimit     \* the size the gate is created with

ASSUME ReadsAssumption == IsFiniteSet(Reads)
ASSUME LimitsAssumption == Limits \subseteq Nat /\ InitLimit \in Nat

VARIABLES
    limit,        \* FetchGate.limit; 0 means unbounded
    active,       \* FetchGate.active, the permits handed out
    waiters,      \* FetchGate.waiters: the reads with a queue entry.  wake_all
                  \* drains the whole queue, so its order is never looked at
    pc            \* where each read is

gateVars == <<limit, active, waiters, pc>>

\* new: never polled.  parked: polled Pending, its waker in the queue.  woken:
\* its waker was called, the executor will poll it.  holding: owns a
\* FetchPermit.  done: permit released, or the future dropped.
States == {"new", "parked", "woken", "holding", "done"}

GateTypeOK ==
    /\ limit \in Nat
    /\ active \in Nat
    /\ waiters \subseteq Reads
    /\ pc \in [Reads -> States]

GateInit ==
    /\ limit = InitLimit
    /\ active = 0
    /\ waiters = {}
    /\ pc = [r \in Reads |-> "new"]

Admits == limit = 0 \/ active < limit

\* wake_all: the queue is drained and every waker in it is woken.
WakeAll(s) == [r \in Reads |-> IF r \in waiters THEN "woken" ELSE s[r]]

\* acquire().await and the later polls of the same future.  A read may be
\* polled while parked too: a join_all polls all of its children when one of
\* them is woken.
Pollable(r) == pc[r] \in {"new", "parked", "woken"}

\* Acquire::poll with room: the queue entry goes, a permit is handed out.
PollAdmitted(r) ==
    /\ Pollable(r)
    /\ Admits
    /\ waiters' = waiters \ {r}
    /\ active' = active + 1
    /\ pc' = [pc EXCEPT ![r] = "holding"]
    /\ UNCHANGED limit

\* Acquire::poll over the limit: park, or refresh the waker already queued.
PollParked(r) ==
    /\ Pollable(r)
    /\ ~Admits
    /\ waiters' = waiters \union {r}
    /\ pc' = [pc EXCEPT ![r] = "parked"]
    /\ UNCHANGED <<limit, active>>

Poll(r) == PollAdmitted(r) \/ PollParked(r)

\* Mutant: abandoning a read releases a permit it never had.
ReleasingDropAcquire(r) ==
    /\ pc[r] \in {"parked", "woken"}
    /\ active' = active - 1
    /\ waiters' = {}
    /\ pc' = [WakeAll(pc) EXCEPT ![r] = "done"]
    /\ UNCHANGED limit

\* Mutant: an abandoned read leaves its queue entry behind.
LeakingDropAcquire(r) ==
    /\ pc[r] \in {"parked", "woken"}
    /\ pc' = [pc EXCEPT ![r] = "done"]
    /\ UNCHANGED <<limit, active, waiters>>

\* Drop for Acquire: an abandoned read removes its own queue entry.
DropAcquire(r) ==
    /\ pc[r] \in {"parked", "woken"}
    /\ waiters' = waiters \ {r}
    /\ pc' = [pc EXCEPT ![r] = "done"]
    /\ UNCHANGED <<limit, active>>

\* Drop for FetchPermit (release): the slot is freed, saturating, and every
\* parked read is woken.
DropPermit(r) ==
    /\ pc[r] = "holding"
    /\ active' = IF active = 0 THEN 0 ELSE active - 1
    /\ waiters' = {}
    /\ pc' = [WakeAll(pc) EXCEPT ![r] = "done"]
    /\ UNCHANGED limit

\* Mutant: a resize wakes nobody.
SilentSetLimit(l) ==
    /\ limit' = l
    /\ UNCHANGED <<active, waiters, pc>>

\* set_limit: the new size takes effect and everyone re-evaluates against it.
SetLimit(l) ==
    /\ limit' = l
    /\ waiters' = {}
    /\ pc' = WakeAll(pc)
    /\ UNCHANGED active

GateNext ==
    \/ \E r \in Reads : PollAdmitted(r) \/ PollParked(r) \/ DropAcquire(r) \/ DropPermit(r)
    \/ \E l \in Limits : SetLimit(l)

GateSpec == GateInit /\ [][GateNext]_gateVars

------------------------------------------------------------------------------
Holders == {r \in Reads : pc[r] = "holding"}

\* Every permit counted in `active` is owned by exactly one live read, and the
\* saturating subtraction of `release` never hides a lost or doubled release.
PermitAccounting == active = Cardinality(Holders)

\* A read is parked only while the window is full: no release or resize leaves
\* a read asleep that could have run (the full-page hang the module comment of
\* fetch_window.rs describes).
NoLostWakeup == waiters # {} => limit > 0 /\ active >= limit

\* The queue holds the parked reads and nothing else: a dropped or admitted
\* read leaves no entry behind, so the queue cannot grow without bound.
QueueIsParked == waiters = {r \in Reads : pc[r] = "parked"}
==============================================================================
