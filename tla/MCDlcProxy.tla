----------------------------- MODULE MCDlcProxy -----------------------------
(***************************************************************************)
(* Small instances of DlcProxy: two calls for one package and one for      *)
(* another, over whatever an earlier call left.                            *)
(***************************************************************************)
EXTENDS DlcProxy, TLC

CONSTANTS p1, p2, f1, f2, w1, w2, w3

TwoSizes == p1 :> 3 @@ p2 :> 2
OwnFiles == p1 :> f1 @@ p2 :> f2
ThreeRequests == w1 :> p1 @@ w2 :> p1 @@ w3 :> p2
OneRequest == w1 :> p1

NewFiles == [f \in Files |-> {NoFile}]

\* New, a part or all of the package, too long, or other bytes of any length.
AnyLeftovers ==
    [f \in Files |->
        IF f = f1
        THEN {NoFile} \cup {Leftover(n, c) : n \in 0..4, c \in {p1, Garbage}}
        ELSE {NoFile}]
=============================================================================
