----------------------------- MODULE MCListing ------------------------------
(* Instances of Listing for TLC *)
EXTENDS Listing, TLC

CONSTANTS i1, i2, i3, i4, i5

FiveIntents == {i1, i2, i3, i4, i5}

(* Two of them were created in the same microsecond. *)
Times == i1 :> 12 @@ i2 :> 25 @@ i3 :> 25 @@ i4 :> 31 @@ i5 :> 44

=============================================================================
