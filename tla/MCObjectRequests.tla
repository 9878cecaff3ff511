-------------------------- MODULE MCObjectRequests --------------------------
(* Small instances of ObjectRequests.                                      *)
EXTENDS ObjectRequests, TLC

CONSTANTS x1, x2, y1

MCBodies == {x1, x2, y1}
MCUidOf == (x1 :> "X") @@ (x2 :> "X") @@ (y1 :> "Y")

Match(etags) == [kind |-> "must-match", etags |-> etags]
Star(kind) == [kind |-> kind, etags |-> {}]

(* Every kind of condition; If-Match with one and with two ETags.          *)
MCConds == {Unconditional, Star("must-not-exist"), Star("must-exist"),
            Match({x1}), Match({x1, x2})}

NoIf == {{}}
(* No If header, and (<1>) (Not <0> Not <2>).                              *)
MCIfLists == {{}, {{[token |-> 1, negate |-> FALSE]},
                   {[token |-> 0, negate |-> TRUE], [token |-> 2, negate |-> TRUE]}}}

(* Names are interchangeable, and so are workers.                          *)
Symmetry == Permutations(Workers) \cup Permutations(Uris) \cup Permutations(Fresh)
=============================================================================
