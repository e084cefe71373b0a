------------------------------ MODULE StrBuff -------------------------------
(***************************************************************************)
(* The string buffer of main/cel_string.c, as far as the receive callbacks *)
(* use it (new, append_from, clear).  mem is the allocated memory, whose   *)
(* length is the opacity; size is the number of bytes in use.              *)
(***************************************************************************)
EXTENDS Integers, Sequences

CONSTANTS
    Bytes,   \* the bytes that are received
    NUL      \* the zero byte

ASSUME StrBuffAssumption == NUL \in Bytes

\* a buffer whose unused memory is zero and ends in at least one zero byte
Buffer ==
    {sb \in [mem : Seq(Bytes), size : Nat] :
        /\ sb.size < Len(sb.mem)
        /\ \A i \in sb.size + 1 .. Len(sb.mem) : sb.mem[i] = NUL}

\* new_cel_strbuff_opacity over create_buffer
NewBuff(opacity) == [mem |-> [i \in 1 .. opacity |-> NUL], size |-> 0]

\* (mutant) the new memory is not filled
Resize_Empty(sb, opacity) ==
    [mem |-> [i \in 1 .. opacity |-> NUL], size |-> sb.size]

\* resize_buffer: zeroed memory that takes over the bytes in use
Resize(sb, opacity) ==
    [mem  |-> [i \in 1 .. opacity |-> IF i <= sb.size THEN sb.mem[i] ELSE NUL],
     size |-> sb.size]

\* the copying of bytes behind those in use
Write(sb, bytes) ==
    [mem  |-> [i \in 1 .. Len(sb.mem) |->
                  IF i \in sb.size + 1 .. sb.size + Len(bytes)
                  THEN bytes[i - sb.size] ELSE sb.mem[i]],
     size |-> sb.size + Len(bytes)]

\* (mutant) no room is left for the end of the string
AppendFrom_Tight(sb, bytes) ==
    LET need == sb.size + Len(bytes)
    IN  Write(IF need > Len(sb.mem) THEN Resize(sb, need * 2 + 1) ELSE sb, bytes)

\* cel_strbuff_append_from, with count 1
AppendFrom(sb, bytes) ==
    LET need == sb.size + Len(bytes)
    IN  Write(IF need >= Len(sb.mem) THEN Resize(sb, need * 2 + 1) ELSE sb, bytes)

\* cel_strbuff_clear: only the bytes in use are zeroed
ClearBuff(sb) ==
    [mem  |-> [i \in 1 .. Len(sb.mem) |-> IF i <= sb.size THEN NUL ELSE sb.mem[i]],
     size |-> 0]

\* the bytes in use
TextOf(sb) == [i \in 1 .. sb.size |-> sb.mem[i]]

\* What a reader of the memory as a C string sees.  Without a zero byte it
\* reads on behind the memory.
Ends(bytes)    == {i \in DOMAIN bytes : bytes[i] = NUL}
UpToNul(bytes) ==
    IF Ends(bytes) = {} THEN bytes
    ELSE SubSeq(bytes, 1, (CHOOSE i \in Ends(bytes) : \A j \in Ends(bytes) : i <= j) - 1)
CString(sb) == UpToNul(sb.mem) \o IF Ends(sb.mem) = {} THEN <<"behind">> ELSE <<>>
=============================================================================
