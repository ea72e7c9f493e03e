------------------------------- MODULE Handlers -------------------------------
(***************************************************************************)
(* What the modules of the back office share: request handlers of the Node *)
(* process that run at the same time, one step (a read, a write or a       *)
(* transaction) after the other, with others' steps in between, and that   *)
(* may die in the middle.  What a handler read before it goes on is in     *)
(* calls[c].saw.                                                           *)
(*                                                                         *)
(* scenario names the operations that a behaviour uses.  It never changes: *)
(* it keeps parts apart that share nothing, so that each is explored with  *)
(* a few others and not with all.                                          *)
(***************************************************************************)
EXTENDS Integers, FiniteSets

CONSTANTS
    Callers,        \* handlers that run at a time
    Scenarios,      \* sets of operations, one for each behaviour
    MaxCalls,       \* bound: handlers started, for each scenario
    MaxCrashes      \* bound: handlers that die

VARIABLES
    calls,      \* calls[c]: what handler c is doing
    scenario,
    started,    \* handlers started so far
    crashes,    \* handlers that died so far
    overlapped  \* history: two handlers have run at the same time

handlers == <<calls, scenario, started, crashes, overlapped>>

Idle == [stage |-> "idle", on |-> "nothing", saw |-> 0]

HandlersInit ==
    /\ calls = [c \in Callers |-> Idle]
    /\ scenario \in Scenarios
    /\ started = 0 /\ crashes = 0 /\ overlapped = FALSE

At(c, stage) == calls[c].stage = stage
Quiet == \A c \in Callers : At(c, "idle")

\* Whether c may start a handler, or goes on with one: the common part of the guards below.
Ready(c) == At(c, "idle") /\ started < MaxCalls[scenario]
Busy(c) == ~At(c, "idle")

\* A handler of operation op starts, with its first read behind it.
Begin(c, op, stage, on, saw) ==
    /\ op \in scenario /\ Ready(c)
    /\ calls' = [calls EXCEPT ![c] = [stage |-> stage, on |-> on, saw |-> saw]]
    /\ started' = started + 1
    /\ overlapped' = (overlapped \/ ~Quiet)
    /\ UNCHANGED <<scenario, crashes>>

\* A handler whose first step is its only one.
Once(c, op) ==
    /\ op \in scenario /\ Ready(c)
    /\ started' = started + 1
    /\ overlapped' = (overlapped \/ ~Quiet)
    /\ UNCHANGED <<calls, scenario, crashes>>

Continue(c, call) ==
    /\ calls' = [calls EXCEPT ![c] = call]
    /\ UNCHANGED <<scenario, started, crashes, overlapped>>

Goto(c, stage, saw) == Continue(c, [stage |-> stage, on |-> calls[c].on, saw |-> saw])
Return(c) == Continue(c, Idle)

Crash(c) ==
    /\ Busy(c) /\ crashes < MaxCrashes
    /\ calls' = [calls EXCEPT ![c] = Idle]
    /\ crashes' = crashes + 1
    /\ UNCHANGED <<scenario, started, overlapped>>
===============================================================================
