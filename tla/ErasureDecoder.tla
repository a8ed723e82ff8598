---------------------------- MODULE ErasureDecoder ----------------------------
(***************************************************************************)
(* What one layer's decoder promises the sampling node (spec 4): it      *)
(* starts knowing no symbol, only ever learns symbols (a symbol once      *)
(* known keeps its value), and returns one result, after which nothing   *)
(* changes.  It returns Ok only with every symbol known and a Stopped     *)
(* proof only with some symbol unknown.                                   *)
(***************************************************************************)
EXTENDS Naturals

CONSTANTS
    Syms,     \* symbol indices of the layer
    Values,   \* the values a symbol can take
    Unknown,  \* the value of a symbol not yet known
    Results   \* the results the decoder can return

VARIABLES
    known,    \* the value held for each symbol, or Unknown
    result    \* "running", or the result returned

vars == <<known, result>>

Init ==
    /\ known = [i \in Syms |-> Unknown]
    /\ result = "running"

\* known' only adds values for symbols that were unknown.
Learns == /\ known' \in [Syms -> Values \cup {Unknown}]
          /\ \A i \in Syms : known[i] # Unknown => known'[i] = known[i]

AllKnown(k) == \A i \in Syms : k[i] # Unknown

\* A decoding step: learn symbols, and possibly return a result.
Step ==
    /\ result = "running"
    /\ Learns
    /\ result' \in {"running"} \cup Results
    /\ result' = "ok" => AllKnown(known')
    /\ result' = "stopped" => ~AllKnown(known')

Next == Step

Spec == Init /\ [][Next]_vars

=============================================================================
