------------------------------ MODULE CardCalls ------------------------------
(***************************************************************************)
(* What both MCP cards share: callServerTool, a call to a tool of the      *)
(* server through the host.  The tool first carries out its change, then   *)
(* reads the list for its answer (mutating tools answer with the whole     *)
(* list).  Answers arrive in any order; a call that is rejected may or may *)
(* not have been carried out.                                              *)
(***************************************************************************)
EXTENDS Naturals, FiniteSets, Sequences

CONSTANTS MaxFailures   \* bound: calls that are rejected in a behaviour

VARIABLES calls,        \* the calls on their way
          failures      \* rejected calls so far

callVars == <<calls, failures>>

Empty == <<>>

(* As in module TLC, whose definitions are hidden from the provers: the    *)
(* function of one point, and the union of two functions, the first of     *)
(* which prevails.                                                         *)
x :> y == [z \in {x} |-> y]
f @@ g == [x \in DOMAIN f \cup DOMAIN g |-> IF x \in DOMAIN f THEN f[x] ELSE g[x]]

Without(f, S) == [x \in DOMAIN f \ S |-> f[x]]

At(stage) == {k \in calls : k.at = stage}
Becomes(k, next) == (calls \ {k}) \cup {next}
Advance(k, stage) == Becomes(k, [k EXCEPT !.at = stage])

(* The call reaches the card as an exception or as an isError result: the  *)
(* card treats both alike.                                                 *)
Reject(k) ==
    /\ k.at \in {"sent", "done"}
    /\ failures < MaxFailures
    /\ failures' = failures + 1
    /\ calls' = Advance(k, "failed")
=============================================================================
