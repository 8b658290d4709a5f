------------------------ MODULE MCPlaneAssignment ------------------------
(* Pipes of a primary plane with or without the rotation property, three   *)
(* overlay planes of different abilities, a cursor plane and a plane of    *)
(* another pipe, the overlay planes listed in any order.                   *)
EXTENDS PlaneAssignment

Plane(id, type, offers) == [id |-> id, type |-> type, pipe |-> TRUE, offers |-> offers]
ThreeOverlays ==
    << Plane(2, "overlay", Features), Plane(3, "overlay", Features \ {"alpha"}),
       Plane(4, "overlay", Features \ {"format"}) >>
OtherPipe == [Plane(6, "overlay", Features) EXCEPT !.pipe = FALSE]

Orders == {o \in [1..3 -> 1..3] : \A i, j \in 1..3 : i # j => o[i] # o[j]}
Lists ==
    { <<Plane(1, "primary", first)>> \o [i \in 1..3 |-> ThreeOverlays[o[i]]]
        \o <<Plane(5, "cursor", Features \ {"alpha"}), OtherPipe>> :
      first \in {Features, Features \ {"rotation"}}, o \in Orders }
OneDemand == {{}, {"alpha"}, {"format"}}

=============================================================================
