--------------------------- MODULE AtomicConfigure ---------------------------
(***************************************************************************)
(* What Configure (RouterConfigurer of configurer/configurer.go) promises   *)
(* to the goroutines that call it: a call takes effect at one moment        *)
(* between its start and its return, or not at all; with its effect HAProxy *)
(* has the routes and the drain flag of that call; and it returns nil only  *)
(* when it has taken effect.  The module Updater relies on this.            *)
(***************************************************************************)
EXTENDS Naturals

CONSTANT Callers

VARIABLES
  issued,   \* how many calls there have been; numbers them
  pending,  \* the call each caller is in, or 0
  applied,  \* whether it has taken effect
  effect,   \* the calls whose content and whose flag HAProxy runs with
  failed    \* whether the last call to return returned an error

atomicVars == <<issued, pending, applied, effect, failed>>

AtomicInit ==
  /\ issued = 0
  /\ pending = [c \in Callers |-> 0]
  /\ applied = [c \in Callers |-> FALSE]
  /\ effect = [content |-> 0, flag |-> 0]
  /\ failed = FALSE

Call(c) ==
  /\ pending[c] = 0
  /\ issued' = issued + 1
  /\ pending' = [pending EXCEPT ![c] = issued']
  /\ UNCHANGED <<applied, effect, failed>>

Apply(c) ==
  /\ pending[c] # 0 /\ ~applied[c]
  /\ effect' = [content |-> pending[c], flag |-> pending[c]]
  /\ applied' = [applied EXCEPT ![c] = TRUE]
  /\ UNCHANGED <<issued, pending, failed>>

Return(c) ==
  /\ pending[c] # 0
  /\ failed' \in BOOLEAN /\ (~failed' => applied[c])
  /\ pending' = [pending EXCEPT ![c] = 0]
  /\ applied' = [applied EXCEPT ![c] = FALSE]
  /\ UNCHANGED <<issued, effect>>

\* The process ends and starts again; HAProxy runs on.
Restart ==
  /\ pending' = [c \in Callers |-> 0]
  /\ applied' = [c \in Callers |-> FALSE]
  /\ failed' = FALSE
  /\ UNCHANGED <<issued, effect>>

AtomicNext ==
  \/ \E c \in Callers : Call(c) \/ Apply(c) \/ Return(c)
  \/ Restart

AtomicSpec == AtomicInit /\ [][AtomicNext]_atomicVars
=============================================================================
