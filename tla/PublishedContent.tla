-------------------------- MODULE PublishedContent --------------------------
(***************************************************************************)
(* What mdm/MdmInfoLoader promises its readers: a cell whose content is    *)
(* replaced as a whole.  A reader takes the content that is current, and   *)
(* the content it has taken stays whole until it has finished with it,     *)
(* whatever is published meanwhile.                                        *)
(***************************************************************************)
EXTENDS Naturals

CONSTANTS Reader,
          Nothing        \* no content: not loaded, not taken

VARIABLES current, held  \* contents are numbered in the order of their loads

Init == current = Nothing /\ held = [r \in Reader |-> Nothing]

Publish ==
    /\ current' # Nothing
    /\ current # Nothing => current' > current
    /\ UNCHANGED held

Take(r) ==
    /\ current # Nothing /\ held[r] = Nothing
    /\ held' = [held EXCEPT ![r] = current] /\ UNCHANGED current

Drop(r) ==
    /\ held[r] # Nothing
    /\ held' = [held EXCEPT ![r] = Nothing] /\ UNCHANGED current

Next ==
    \/ Publish
    \/ \E r \in Reader : Take(r) \/ Drop(r)

Spec == Init /\ [][Next]_<<current, held>>
=============================================================================
