---------------------------- MODULE HistoryEditor ----------------------------
(***************************************************************************)
(* What the line editor promises its user, with nothing said of cursors,   *)
(* indices or saved copies: a text around a caret, a stack of submitted    *)
(* texts, and a draft that browsing the stack sets aside and gives back.   *)
(***************************************************************************)
EXTENDS Integers, Sequences, SequencesExt

CONSTANTS Chars, MaxText, MaxEntries

VARIABLES
    left, right,  \* the text before and after the caret
    newer,        \* entries passed on the way back, the draft at the bottom
    older,        \* entries still to visit, the next one first
    submitted     \* the texts handed to the shell so far, newest first, trimmed

text == left \o right
Bounded(s, n) == SubSeq(s, 1, IF Len(s) < n THEN Len(s) ELSE n)

Init ==
    /\ left = << >> /\ right = << >>
    /\ newer = << >> /\ older = << >>
    /\ submitted = << >>

Edit == UNCHANGED <<newer, older, submitted>>

Type ==
    /\ Len(text) < MaxText
    /\ \E ch \in Chars : left' = Append(left, ch)
    /\ UNCHANGED right
    /\ Edit

Erase ==
    /\ left # << >>
    /\ left' = Front(left)
    /\ UNCHANGED right
    /\ Edit

MoveLeft ==
    /\ left # << >>
    /\ left' = Front(left)
    /\ right' = Cons(Last(left), right)
    /\ Edit

MoveRight ==
    /\ right # << >>
    /\ left' = Append(left, Head(right))
    /\ right' = Tail(right)
    /\ Edit

\* the caret goes to the end of the text that is shown
Show(t) == left' = t /\ right' = << >>

\* Browsing starts from the draft; an edited entry is not kept.
Older ==
    /\ older # << >>
    /\ newer' = Cons(IF newer = << >> THEN text
                     ELSE submitted[Len(newer)], newer)
    /\ Show(Head(older))
    /\ older' = Tail(older)
    /\ UNCHANGED submitted

Newer ==
    /\ newer # << >>
    /\ Show(Head(newer))
    /\ newer' = Tail(newer)
    /\ older' = Cons(submitted[Len(newer)], older)
    /\ UNCHANGED submitted

Clear ==
    /\ Show(<< >>)
    /\ newer' = << >>
    /\ older' = submitted
    /\ UNCHANGED submitted

Submit ==
    /\ submitted' = Bounded(Cons(text, submitted), MaxEntries)
    /\ older' = submitted'
    /\ newer' = << >>
    /\ Show(<< >>)

Next ==
    \/ Type \/ Erase \/ MoveLeft \/ MoveRight
    \/ Older \/ Newer \/ Clear \/ Submit

Spec == Init /\ [][Next]_<<left, right, newer, older, submitted>>
=============================================================================
