---------------------------- MODULE AnchoredText ----------------------------
(***************************************************************************)
(* The release notes as build-publish-container/src/index.ts sees them: a  *)
(* text in which a section between the comments <!-- PACKAGES --> and      *)
(* <!-- PACKAGES-END --> is the action's.  A text is a sequence of pieces; *)
(* what people write is "intro", "outro" and the like.                     *)
(***************************************************************************)
EXTENDS Integers, Sequences

START    == "start"
END      == "end"
PACKAGES == "packages"

\* What a text is made of; the anchors are named for the provers, to whom a
\* string is not evidently a member of STRING.
Piece == STRING \cup {START, PACKAGES, END}

\* indexOf(), counting from 1; 0 when the piece is not there.
IndexOf(body, piece) ==
  IF \E i \in 1..Len(body) : body[i] = piece
  THEN CHOOSE i \in 1..Len(body) :
         body[i] = piece /\ \A k \in 1..(i - 1) : body[k] # piece
  ELSE 0

\* Mutant: the text behind the section is cut off with it.
NewBodyCut(body) ==
  LET start == IndexOf(body, START) IN
  IF start = 0 THEN body \o <<START, PACKAGES, END>>
  ELSE SubSeq(body, 1, start - 1) \o <<START, PACKAGES, END>>

\* The notes with the section replaced, or appended where there is none.  A
\* section without its end takes all that follows with it.
NewBody(body) ==
  LET start == IndexOf(body, START)
      end   == IndexOf(body, END)
  IN IF start = 0 THEN body \o <<START, PACKAGES, END>>
     ELSE SubSeq(body, 1, start - 1) \o <<START, PACKAGES>>
            \o IF end = 0 THEN <<>> ELSE SubSeq(body, end, Len(body))

\* The anchors are there once and in order, or not at all.
Occurs(body, piece) == {i \in 1..Len(body) : body[i] = piece}
WellFormed(body) ==
  \/ Occurs(body, START) = {} /\ Occurs(body, END) = {}
  \/ \E s, e \in 1..Len(body) :
       s < e /\ Occurs(body, START) = {s} /\ Occurs(body, END) = {e}

\* What people wrote, before and behind the section.
Outside(body) ==
  IF IndexOf(body, START) = 0 THEN body
  ELSE SubSeq(body, 1, IndexOf(body, START) - 1)
         \o SubSeq(body, IndexOf(body, END) + 1, Len(body))
=============================================================================
