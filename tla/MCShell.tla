------------------------------- MODULE MCShell -------------------------------
(* A small Shell for TLC. *)
EXTENDS Shell

CONSTANTS a, b  \* two characters that the console shows

MCPrompt == <<">", " ">>

\* The two are never told apart but by equality.
Shapes == Permutations({a, b})

\* What process() returned is drawn within the step and never looked at again.
\* Of the console the view keeps where the cursor is and whether each of the two
\* properties holds, so that a state that breaks one is never taken for another.
\* With both holding, the cursor's row and those below are given by the line;
\* the rows above never come back, and the cursor moves by the number of
\* characters, whichever they are.  What a line that drifted left on the rows is
\* drawn over with the prompt, as far as the line reaches.
EditorAndConsole ==
    <<line, cursor, saved_line, history, history_index,
      con.x, con.y, drifted, ScreenShowsLine, NoLeftovers>>
=============================================================================
