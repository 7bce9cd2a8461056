---------------------------- MODULE PhotoGallery ----------------------------
(***************************************************************************)
(* What the photos of a listing promise: a sequence of at most Cap assets  *)
(* in which each appears once.  A photo enters at the end, one at a time;  *)
(* everything else only leaves some out or puts them in another order, so  *)
(* that a photo which has left does not come back unless it is attached    *)
(* again.  ListingMedia implements this, whatever requests overlap.        *)
(***************************************************************************)
EXTENDS Naturals, Sequences

CONSTANTS Asset, Cap

VARIABLE gallery    \* the assets, in the order of the array

Attached == {gallery[i] : i \in DOMAIN gallery}

GalleryInit == gallery = << >>

Attach(a) ==
    /\ Len(gallery) < Cap
    /\ a \notin Attached
    /\ gallery' = Append(gallery, a)

\* pick[i] is where the i-th photo was before.
Rearrange ==
    \E n \in 0 .. Len(gallery) :
        \E pick \in [1 .. n -> DOMAIN gallery] :
            /\ \A i, j \in 1 .. n : i # j => pick[i] # pick[j]
            /\ gallery' = [i \in 1 .. n |-> gallery[pick[i]]]

GalleryNext == Rearrange \/ \E a \in Asset : Attach(a)

GallerySpec == GalleryInit /\ [][GalleryNext]_gallery
============================================================================
