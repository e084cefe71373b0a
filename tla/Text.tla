-------------------------------- MODULE Text --------------------------------
(***************************************************************************)
(* What the string buffer of main/cel_string.c promises to the callback    *)
(* that fills it: a text that is emptied or grows at its end.  Collector   *)
(* shows that its receive buffer, with its capacity and its resizes,       *)
(* implements it.                                                          *)
(***************************************************************************)
EXTENDS Sequences

CONSTANT Chunks   \* the pieces that are appended

VARIABLE text

Init == text = <<>>

Clear == text' = <<>>

Grow(c) == text' = text \o c

Next == Clear \/ \E c \in Chunks : Grow(c)

Spec == Init /\ [][Next]_text
=============================================================================
