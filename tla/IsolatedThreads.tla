-------------------------- MODULE IsolatedThreads --------------------------
(***************************************************************************)
(* What the thread contexts promise: a table of contexts that only grows,  *)
(* one of which runs.  A step of the running thread changes its own        *)
(* context and nobody else's, a switch changes no context at all, and a    *)
(* thread that stopped never becomes active again, nor is switched to.     *)
(***************************************************************************)
EXTENDS Integers

CONSTANTS
    Ctx,      \* the contexts, records with a boolean field active
    NewCtx    \* the contexts a thread may start with

VARIABLES
    ctx,      \* thread -> its context, for the threads 0 .. n-1
    running   \* the thread whose instructions are executed

vars == <<ctx, running>>

Init == running = 0 /\ ctx \in [{0} -> NewCtx]

(* The running thread executes: its context alone changes. *)
Run == /\ ctx[running].active
       /\ ctx' \in [DOMAIN ctx -> Ctx]
       /\ \A t \in DOMAIN ctx \ {running} : ctx'[t] = ctx[t]
       /\ UNCHANGED running

(* The running thread creates another one, numbered after all others. *)
Spawn == /\ ctx[running].active
         /\ \E last \in DOMAIN ctx :
                /\ DOMAIN ctx = 0 .. last
                /\ ctx' \in [0 .. last + 1 -> Ctx]
                /\ ctx'[last + 1] \in NewCtx
         /\ \A t \in DOMAIN ctx : ctx'[t] = ctx[t]
         /\ UNCHANGED running

(* Another active thread takes over. *)
Switch == /\ \E t \in DOMAIN ctx : ctx[t].active /\ running' = t
          /\ UNCHANGED ctx

Next == Run \/ Spawn \/ Switch

Spec == Init /\ [][Next]_vars
=============================================================================
