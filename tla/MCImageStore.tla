---------------------------- MODULE MCImageStore ----------------------------
(***************************************************************************)
(* An image with one layer, an index that lists it and refers to it, and   *)
(* an index of that index.                                                 *)
(***************************************************************************)
EXTENDS ImageStore, TLC

CONSTANTS img, idx, top, b1

MCManifest == {img, idx, top}
MCImage == {img}
MCBlob == {b1}
MCBlobs == img :> {b1} @@ idx :> {} @@ top :> {}
MCChildren == img :> {} @@ idx :> {img} @@ top :> {idx}
MCSubject == img :> None @@ idx :> img @@ top :> None
Symmetry == Permutations(Proc)
=============================================================================
