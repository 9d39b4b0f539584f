-------------------------- MODULE MCDownloadClient --------------------------
(***************************************************************************)
(* A small instance of DownloadClient: a manifest of two packages and one  *)
(* of a third.  Three bytes are enough for a transfer that is cut in the   *)
(* middle and resumed, and for an error body to fit or to overshoot.       *)
(***************************************************************************)
EXTENDS DownloadClient, TLC

CONSTANTS p1, p2, p3, f1, f2, f3, w1, w2

ThreeSizes == p1 :> 3 @@ p2 :> 1 @@ p3 :> 1
ThreeFiles == p1 :> f1 @@ p2 :> f2 @@ p3 :> f3

BothAndThird == w1 :> <<p1, p2>> @@ w2 :> <<p3>>

\* New, a part or all of the package, too long, or other bytes of any length.
AnyLeftovers ==
    [f \in Files |->
        IF f = f1
        THEN {NoFile} \cup {Leftover(n, c) : n \in 0..4, c \in {p1, Garbage}}
        ELSE {NoFile}]
=============================================================================
