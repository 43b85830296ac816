---------------------------- MODULE FlashUpdate -----------------------------
(***************************************************************************)
(* What an update of a memory promises, without files, transfers or pages: *)
(* it names the addresses it wants to change, nothing else is touched, and *)
(* success is reported only when every one of them holds what was wanted.  *)
(***************************************************************************)
CONSTANTS Addresses, Values, Keep,
          Scratch   \* addresses that anything may happen to

VARIABLES
  memory,
  wanted,   \* a value for each address, or Keep
  result    \* "none" yet, "ok" or "failed"

Init ==
  /\ memory \in [Addresses -> Values]
  /\ wanted \in [Addresses -> Values \cup {Keep}]
  /\ result = "none"

Begin ==
  /\ wanted' \in [Addresses -> Values \cup {Keep}]
  /\ result' = "none"
  /\ UNCHANGED memory

\* The way to what is wanted may lead through anything, and may stop there.
Touch ==
  /\ result # "ok"
  /\ memory' \in [Addresses -> Values]
  /\ \A a \in Addresses :
       memory'[a] # memory[a] => wanted[a] # Keep \/ a \in Scratch
  /\ UNCHANGED <<wanted, result>>

Succeed ==
  /\ result = "none"
  /\ \A a \in Addresses : wanted[a] # Keep => memory[a] = wanted[a]
  /\ result' = "ok"
  /\ UNCHANGED <<memory, wanted>>

Fail ==
  /\ result = "none"
  /\ result' = "failed"
  /\ UNCHANGED <<memory, wanted>>

Next == Begin \/ Touch \/ Succeed \/ Fail

Spec == Init /\ [][Next]_<<memory, wanted, result>>
=============================================================================
