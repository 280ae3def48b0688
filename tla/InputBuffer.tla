------------------------------ MODULE InputBuffer ------------------------------
(***************************************************************************)
(* input_buffer.c: what the user types is read into a buffer, whole lines  *)
(* are handed on and the rest is moved to the front.  The buffer is never  *)
(* terminated and never cleared: strchr stops at whatever NUL earlier      *)
(* lines, the first bzero and the moves have left behind the text.         *)
(*                                                                         *)
(* Every character of a line is the line's number, so that a stray one     *)
(* shows.                                                                  *)
(***************************************************************************)
EXTENDS Integers, Sequences, FiniteSets, FiniteSetsExt

CONSTANTS
    USERBUF_SIZE,
    MaxLines     \* bound: lines typed

InputBufferAssumption == USERBUF_SIZE \in Nat \ {0} /\ MaxLines \in Nat \ {0}

NUL == 0
NewLine == MaxLines + 1

VARIABLES
    buf,      \* buf[0..USERBUF_SIZE]: one cell more than is ever read into
    cur,
    pc,       \* "select", "lines" in the loop over the lines, or "exited"
    typed,    \* lengths of the lines typed, the last one not ended yet
    handled   \* what handle_line got

ivars == <<buf, cur, pc, typed, handled>>

Cells == 0..USERBUF_SIZE

(* strchr(buf, '\n'): the places where it may find one.                    *)
Found(b) == {i \in Cells : b[i] = NewLine /\ \A j \in 0..i : b[j] # NUL}

Init ==
    /\ buf = [i \in Cells |-> NUL] /\ cur = 0
    /\ pc = "select" /\ typed = <<0>> /\ handled = <<>>

Full == cur >= USERBUF_SIZE - 1

Exit ==
    /\ pc = "select" /\ Full
    /\ pc' = "exited"
    /\ UNCHANGED <<buf, cur, typed, handled>>

(* The character typed j-th, of some of which those at ends are newlines.   *)
Typing(j, ends) ==
    IF j \in ends THEN NewLine ELSE Len(typed) + Cardinality({e \in ends : e < j})

(* The lengths of the lines when k more characters are typed.              *)
Typed(k, ends) ==
    [l \in 1..(Len(typed) + Cardinality(ends)) |->
        (IF l \in DOMAIN typed THEN typed[l] ELSE 0)
            + Cardinality({j \in 1..k : Typing(j, ends) = l})]

(* read: a terminal ends no more than one line at a time; with several     *)
(* ends at once (a script on standard input) the text is taken to fill     *)
(* half of the buffer at most.  This restricts who types: input_buffer.c   *)
(* does not test it.                                                       *)
Read ==
    /\ pc = "select" /\ ~Full
    /\ \E k \in 1..(USERBUF_SIZE - cur) : \E ends \in SUBSET (1..k) :
          /\ Len(typed) + Cardinality(ends) <= MaxLines
          /\ Cardinality(ends) <= 1 \/ 2 * (cur + k) <= USERBUF_SIZE
          /\ typed' = Typed(k, ends)
          /\ buf' = [i \in Cells |->
                        IF i \in cur..(cur + k - 1) THEN Typing(i - cur + 1, ends) ELSE buf[i]]
          /\ cur' = cur + k
    /\ pc' = "lines"
    /\ UNCHANGED handled

(* memmove(buf, buf + r + 1, USERBUF_SIZE - r): what is behind stays.      *)
(* Mutant: only what is counted as text is moved.                          *)
MovedText(b, r) ==
    [i \in Cells |-> IF i < cur - r - 1 THEN b[i + r + 1] ELSE b[i]]

Moved(b, r) ==
    [i \in Cells |-> IF i < USERBUF_SIZE - r THEN b[i + r + 1] ELSE b[i]]

(* A line is ended, handed on and moved out of the buffer.                 *)
Line ==
    /\ pc = "lines" /\ Found(buf) # {}
    /\ LET r == Min(Found(buf))
       IN  /\ handled' = Append(handled, [j \in 1..r |-> buf[j - 1]])
           /\ buf' = Moved([buf EXCEPT ![r] = NUL], r)
           /\ cur' = cur - (r + 1)
    /\ UNCHANGED <<pc, typed>>

NoLine ==
    /\ pc = "lines" /\ Found(buf) = {}
    /\ pc' = "select"
    /\ UNCHANGED <<buf, cur, typed, handled>>

Next == Exit \/ Read \/ Line \/ NoLine

Spec == Init /\ [][Next]_ivars

-----------------------------------------------------------------------------
(* Types: no read is asked for beyond the buffer, and the count of text    *)
(* does not wrap around.                                                   *)
TypeOK ==
    /\ buf \in [Cells -> NUL..NewLine]
    /\ buf[USERBUF_SIZE] = NUL
    /\ cur \in 0..USERBUF_SIZE
    /\ pc \in {"select", "lines", "exited"}
    /\ Len(typed) \in 1..MaxLines

(* Every line typed is handled once, whole, in order, and no other, and    *)
(* between reads cur counts just the line not ended yet, which is then all *)
(* that makes the program exit: what earlier lines have left behind in the *)
(* buffer is never taken for text (input_buffer.c:30-60), whatever is read *)
(* within the restriction of Read.                                         *)
LinesWhole ==
    /\ \A l \in DOMAIN handled : l < Len(typed) /\ handled[l] = [j \in 1..typed[l] |-> l]
    /\ pc # "lines" => Len(handled) = Len(typed) - 1 /\ cur = typed[Len(typed)]
=============================================================================
