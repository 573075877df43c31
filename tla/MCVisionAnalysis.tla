-------------------------- MODULE MCVisionAnalysis --------------------------
(* An instance of VisionAnalysis: two requests of conversations that grow   *)
(* out of each other, so that later ones find descriptions of earlier ones. *)
EXTENDS VisionAnalysis, TLC

CONSTANTS img1, img2, img3, img4, r1, r2

(* Three images at once; a fourth in the next message; then a message      *)
(* without any, which pushes the first out of the window; and a longer one *)
(* whose first message is beyond the depth.                                *)
One == << <<img1, img2, img3>> >>
Two == << <<img1, img2, img3>>, <<img4>> >>
Three == << <<img1, img2, img3>>, <<img4>>, <<>> >>
Four == << <<img1>>, <<img2, img3>>, <<img4, img1>>, <<>> >>

MCAsked == (r1 :> {<<One, 5>>, <<Three, 8>>}) @@
           (r2 :> {<<One, 0>>, <<Two, 2>>, <<Two, 8>>, <<Three, 5>>, <<Four, 8>>})
=============================================================================
