---------------------------- MODULE MCBookingHolds ----------------------------
(* Two units and two nights: a hold of both units for the first night, a    *)
(* hold of one unit for the second night, a move of that unit to both       *)
(* nights once it is confirmed, and a block of both units for both nights.  *)
EXTENDS BookingHolds
CONSTANTS w1, w2

MCIds == {1, 2, 3, 4}
MCKind == <<"hold", "hold", "move", "block">>
MCReplaces == <<1, 2, 2, 4>>
MCUnits == {1, 2}
MCTarget == [r \in Ids |-> Units]
MCNights == {1, 2}
MCWindow == <<{1}, {2}, {1, 2}, {1, 2}>>
MCQuantity == <<2, 1, 1, 2>>
MCVerbs == {"confirm", "cancel", "release"}
=============================================================================
