----------------------------- MODULE MCOwnership -----------------------------
(* Three managers, two quarters, one of which the third manager missed so  *)
(* far, and books over two CUSIPs, two of which share nothing.  What pairs *)
(* share grows between the quarters in one lake and shrinks in the other,  *)
(* and a pull can make three ties equal.                                   *)
EXTENDS Ownership, TLC

Large == "x" :> 3 @@ "y" :> 0
Mixed == "x" :> 2 @@ "y" :> 2
Small == "x" :> 0 @@ "y" :> 1

MCBooks == {Mixed}

Growing ==
  <<1, 1>> :> Large @@ <<2, 1>> :> Small @@
  <<1, 2>> :> Large @@ <<2, 2>> :> Mixed @@ <<3, 2>> :> Small

Shrinking ==
  <<1, 1>> :> Large @@ <<2, 1>> :> Mixed @@ <<3, 1>> :> Mixed @@
  <<1, 2>> :> Large @@ <<2, 2>> :> Small

MCLakes == {Growing, Shrinking}

MCRosters == {{}, {1, 2}}
=============================================================================
