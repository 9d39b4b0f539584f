--------------------------- MODULE MCSelfUpdater ---------------------------
(***************************************************************************)
(* Small instances of SelfUpdater: two requests for one package and one    *)
(* for another.  Three bytes are enough for a transfer that is cut in the  *)
(* middle and resumed, and for one byte to be missing.                     *)
(***************************************************************************)
EXTENDS SelfUpdater, TLC

CONSTANTS p1, p2, f1, f2, w1, w2, w3

TwoSizes == p1 :> 3 @@ p2 :> 2
OwnFiles == p1 :> f1 @@ p2 :> f2
OneSize == p1 :> 3
OneFile == p1 :> f1

ThreeRequests == w1 :> p1 @@ w2 :> p1 @@ w3 :> p2
TwoRequests == w1 :> p1 @@ w2 :> p1

\* Each path is new or holds a part of its own package.
CleanLeftovers ==
    f1 :> {NoFile, Leftover(1, p1)} @@ f2 :> {NoFile}

\* New, a part or all of the package, too long, or other bytes of any length.
AnyLeftovers ==
    [f \in Files |->
        IF f = f1
        THEN {NoFile} \cup {Leftover(n, c) : n \in 0..4, c \in {p1, Garbage}}
        ELSE {NoFile}]

NoLeftovers == f1 :> {NoFile}
=============================================================================
