------------------------------ MODULE ObjectOwner ------------------------------
(****************************************************************************)
(* What a slab cache promises to its callers: an object it hands out lies   *)
(* in pages that the cache has, is nobody else's, and its pages are kept    *)
(* until it is given back.                                                  *)
(****************************************************************************)
EXTENDS Objects

VARIABLES slabs,      \* the slabs that have pages
          owned       \* the objects in the hands of callers

Init == slabs = {} /\ owned = {}

Grant(o) == /\ SlabOf(o) \in slabs
            /\ o \notin owned
            /\ owned' = owned \cup {o}
            /\ UNCHANGED slabs

\* Slabs without owned objects may lose their pages at any time.
Drop(D) == /\ \A s \in D : Of(s) \cap owned' = {}
           /\ slabs' = slabs \ D

Release(o, D) == /\ o \in owned
                 /\ owned' = owned \ {o}
                 /\ Drop(D)

Next == \/ \E o \in AllObjects : Grant(o)
        \/ \E D \in SUBSET Slabs : \/ UNCHANGED owned /\ Drop(D)
                                   \/ \E o \in AllObjects : Release(o, D)
        \/ \E s \in Slabs : slabs' = slabs \cup {s} /\ UNCHANGED owned

Spec == Init /\ [][Next]_<<slabs, owned>>
================================================================================
