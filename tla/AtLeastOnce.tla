---------------------------- MODULE AtLeastOnce -----------------------------
(***************************************************************************)
(* What a consumer of a topic promises its producers: whatever is published *)
(* is carried out, in the order of publication, at least once.  Doing again *)
(* what was done before changes nothing here.                               *)
(***************************************************************************)
EXTENDS Naturals, Sequences

VARIABLES
    published, \* the topic
    done       \* places of the messages that have been carried out

vars == <<published, done>>

Init ==
    /\ published = << >>
    /\ done = {}

\* The topic grows at its end.
Publish ==
    /\ Len(published') > Len(published)
    /\ SubSeq(published', 1, Len(published)) = published
    /\ UNCHANGED done

\* The first message that has not been carried out is.
CarryOut ==
    \E i \in 1 .. Len(published) :
        /\ i \notin done
        /\ 1 .. i - 1 \subseteq done
        /\ done' = done \union {i}
        /\ UNCHANGED published

Next == Publish \/ CarryOut

Spec == Init /\ [][Next]_vars
=============================================================================
