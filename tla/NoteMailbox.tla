---------------------------- MODULE NoteMailbox ----------------------------
(***************************************************************************)
(* What a poll promises to the callers of Trigger: a first-in first-out     *)
(* mailbox.  A note that is put in the box is handed to the loop's handler  *)
(* once, in the order of the puts, until the handler returns an error;      *)
(* after that nothing is handed out any more.                              *)
(***************************************************************************)
EXTENDS Sequences

CONSTANT Notes          \* the notes that may be put

VARIABLES
    box,                \* the notes put and not yet handled, oldest first
    out,                \* the notes handled so far, in order
    up                  \* TRUE until the handler returns an error

mvars == <<box, out, up>>

MInit == box = << >> /\ out = << >> /\ up = TRUE

Put(note) ==
    /\ box' = Append(box, note)
    /\ UNCHANGED <<out, up>>

\* The oldest note is handled; the handler may return an error.
Deliver ==
    /\ up
    /\ box # << >>
    /\ out' = Append(out, Head(box))
    /\ box' = Tail(box)
    /\ up' \in BOOLEAN

\* A handler of a socket event returned an error.
Stop ==
    /\ up
    /\ up' = FALSE
    /\ UNCHANGED <<box, out>>

MNext == (\E note \in Notes : Put(note)) \/ Deliver \/ Stop

MSpec == MInit /\ [][MNext]_mvars
=============================================================================
