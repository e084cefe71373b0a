--------------------------- MODULE CollectorProofs --------------------------
(***************************************************************************)
(* Proofs about Collector, for any answers, buffer sizes, interfaces and   *)
(* bounds: the receive buffer implements a text, what is parsed is this    *)
(* request's answer, rates and load are those of the time between the two  *)
(* samples, and the lists are empty when they are destroyed.               *)
(***************************************************************************)
EXTENDS Collector, SequenceTheorems, FiniteSetTheorems, FunctionTheorems, TLAPS

-----------------------------------------------------------------------------
(***************************************************************************)
(* The string buffer.                                                      *)
(***************************************************************************)

\* A new buffer is empty (create_buffer).
LEMMA NewBuffIsEmpty ==
    ASSUME NEW n \in Nat \ {0}
    PROVE  /\ NewBuff(n) \in Buffer
           /\ TextOf(NewBuff(n)) = <<>>
<1>1. [i \in 1 .. n |-> NUL] \in Seq(Bytes)
    BY StrBuffAssumption, IsASeq
<1>2. Len([i \in 1 .. n |-> NUL]) = n
    OBVIOUS
<1> QED
    BY <1>1, <1>2 DEF NewBuff, Buffer, TextOf

\* What membership in Buffer says.
LEMMA BufferFacts ==
    ASSUME NEW sb \in Buffer
    PROVE  /\ sb.mem \in Seq(Bytes) /\ sb.size \in Nat
           /\ sb.size < Len(sb.mem) /\ Len(sb.mem) \in Nat
           /\ \A i \in 1 .. Len(sb.mem) : sb.mem[i] \in Bytes
           /\ \A i \in sb.size + 1 .. Len(sb.mem) : sb.mem[i] = NUL
           /\ TextOf(sb) \in Seq(Bytes) /\ Len(TextOf(sb)) = sb.size
           /\ \A i \in 1 .. sb.size : TextOf(sb)[i] = sb.mem[i]
<1>1. /\ sb.mem \in Seq(Bytes) /\ sb.size \in Nat
      /\ sb.size < Len(sb.mem) /\ Len(sb.mem) \in Nat
      /\ \A i \in sb.size + 1 .. Len(sb.mem) : sb.mem[i] = NUL
    BY DEF Buffer
<1>2. \A i \in 1 .. Len(sb.mem) : sb.mem[i] \in Bytes
    BY <1>1, ElementOfSeq
<1>3. \A i \in 1 .. sb.size : sb.mem[i] \in Bytes
    BY <1>1, <1>2
<1>4. TextOf(sb) \in Seq(Bytes)
    BY <1>1, <1>3, IsASeq DEF TextOf
<1>5. Len(TextOf(sb)) = sb.size /\ \A i \in 1 .. sb.size : TextOf(sb)[i] = sb.mem[i]
    BY <1>1 DEF TextOf
<1> QED
    BY <1>1, <1>2, <1>4, <1>5

\* Resizing keeps the bytes in use (resize_buffer).
LEMMA ResizeKeepsText ==
    ASSUME NEW sb \in Buffer, NEW n \in Nat, sb.size < n
    PROVE  /\ Resize(sb, n) \in Buffer
           /\ TextOf(Resize(sb, n)) = TextOf(sb)
           /\ Resize(sb, n).size = sb.size
           /\ Len(Resize(sb, n).mem) = n
<1> DEFINE g == [i \in 1 .. n |-> IF i <= sb.size THEN sb.mem[i] ELSE NUL]
<1>1. \A i \in 1 .. n : (IF i <= sb.size THEN sb.mem[i] ELSE NUL) \in Bytes
    BY BufferFacts, StrBuffAssumption
<1>2. g \in Seq(Bytes)
    BY <1>1, IsASeq
<1>3. Len(g) = n
    OBVIOUS
<1>4. sb.size \in Nat /\ \A i \in sb.size + 1 .. n : g[i] = NUL
    BY BufferFacts
<1>5. Resize(sb, n) = [mem |-> g, size |-> sb.size]
    BY DEF Resize
<1>6. Resize(sb, n) \in Buffer
    BY <1>2, <1>3, <1>4, <1>5 DEF Buffer
<1>7. TextOf(Resize(sb, n)) = TextOf(sb)
    BY <1>4, <1>5 DEF TextOf
<1> QED
    BY <1>3, <1>5, <1>6, <1>7

\* Bytes written behind those in use, where they fit, are appended.
LEMMA WriteAppends ==
    ASSUME NEW sb \in Buffer, NEW bytes \in Seq(Bytes),
           sb.size + Len(bytes) < Len(sb.mem)
    PROVE  /\ Write(sb, bytes) \in Buffer
           /\ TextOf(Write(sb, bytes)) = TextOf(sb) \o bytes
<1> DEFINE n == Len(sb.mem)
           k == Len(bytes)
           g == [i \in 1 .. n |-> IF i \in sb.size + 1 .. sb.size + k
                                  THEN bytes[i - sb.size] ELSE sb.mem[i]]
<1>0. /\ n \in Nat /\ k \in Nat /\ sb.size \in Nat /\ sb.size + k < n
      /\ \A i \in 1 .. n : sb.mem[i] \in Bytes
      /\ \A i \in sb.size + 1 .. n : sb.mem[i] = NUL
      /\ \A i \in 1 .. k : bytes[i] \in Bytes
    BY BufferFacts, ElementOfSeq
<1>1. ASSUME NEW i \in 1 .. n
      PROVE  g[i] \in Bytes
    <2>1. CASE i \in sb.size + 1 .. sb.size + k
        <3>1. i - sb.size \in 1 .. k
            BY <1>0, <2>1
        <3> QED
            BY <1>0, <2>1, <3>1
    <2>2. CASE i \notin sb.size + 1 .. sb.size + k
        BY <1>0, <2>2
    <2> QED
        BY <2>1, <2>2
<1>2. g \in Seq(Bytes) /\ Len(g) = n
    <2> HIDE DEF n
    <2>1. g \in [1 .. n -> Bytes]
        BY <1>1
    <2> QED
        BY <2>1, <1>0
<1>3. \A i \in sb.size + k + 1 .. n : g[i] = NUL
    BY <1>0
<1>4. Write(sb, bytes) = [mem |-> g, size |-> sb.size + k]
    BY DEF Write
<1>5. Write(sb, bytes) \in Buffer
    BY <1>0, <1>2, <1>3, <1>4 DEF Buffer
<1>6. TextOf(Write(sb, bytes)) = TextOf(sb) \o bytes
    <2> DEFINE t == TextOf(Write(sb, bytes))
               u == TextOf(sb) \o bytes
    <2>1. /\ t \in Seq(Bytes) /\ Len(t) = sb.size + k
          /\ \A i \in 1 .. sb.size + k : t[i] = g[i]
        <3> DEFINE w == Write(sb, bytes)
        <3>1. w.size = sb.size + k /\ w.mem = g
            BY <1>4
        <3>2. w \in Buffer
            BY <1>5
        <3> HIDE DEF w, g
        <3>3. /\ TextOf(w) \in Seq(Bytes) /\ Len(TextOf(w)) = w.size
              /\ \A i \in 1 .. w.size : TextOf(w)[i] = w.mem[i]
            BY <3>2, BufferFacts
        <3> QED
            BY <3>1, <3>3 DEF w
    <2>2. /\ TextOf(sb) \in Seq(Bytes) /\ Len(TextOf(sb)) = sb.size
          /\ \A i \in 1 .. sb.size : TextOf(sb)[i] = sb.mem[i]
        BY BufferFacts
    <2>3. /\ u \in Seq(Bytes) /\ Len(u) = sb.size + k
          /\ \A i \in 1 .. sb.size + k :
                u[i] = IF i <= sb.size THEN TextOf(sb)[i] ELSE bytes[i - sb.size]
        <3> DEFINE v == TextOf(sb)
        <3>1. v \in Seq(Bytes) /\ Len(v) = sb.size
            BY <2>2
        <3> HIDE DEF v
        <3>2. /\ v \o bytes \in Seq(Bytes) /\ Len(v \o bytes) = Len(v) + Len(bytes)
              /\ \A i \in 1 .. Len(v) + Len(bytes) :
                    (v \o bytes)[i] = IF i <= Len(v) THEN v[i] ELSE bytes[i - Len(v)]
            BY <3>1, ConcatProperties
        <3> QED
            BY <3>1, <3>2 DEF v
    <2>4. ASSUME NEW i \in 1 .. sb.size + k
          PROVE  t[i] = u[i]
        <3> HIDE DEF t, u, k
        <3>1. CASE i <= sb.size
            <4>1. i \in 1 .. sb.size /\ i \in 1 .. n /\ i \notin sb.size + 1 .. sb.size + k
                BY <1>0, <3>1
            <4> QED
                BY <2>1, <2>2, <2>3, <3>1, <4>1
        <3>2. CASE ~(i <= sb.size)
            <4>1. i \in 1 .. n /\ i \in sb.size + 1 .. sb.size + k
                BY <1>0, <3>2
            <4> QED
                BY <2>1, <2>3, <3>2, <4>1
        <3> QED
            BY <3>1, <3>2
    <2> HIDE DEF t, u
    <2>5. t = u
        BY <2>1, <2>3, <2>4, SeqEqual
    <2> QED
        BY <2>5 DEF t, u
<1> QED
    BY <1>5, <1>6

\* cel_strbuff_append_from appends, whether the memory has to grow or not, and
\* leaves room for the end of the string.
LEMMA AppendAppends ==
    ASSUME NEW sb \in Buffer, NEW bytes \in Seq(Bytes)
    PROVE  /\ AppendFrom(sb, bytes) \in Buffer
           /\ TextOf(AppendFrom(sb, bytes)) = TextOf(sb) \o bytes
<1> DEFINE need == sb.size + Len(bytes)
<1>1. /\ need \in Nat /\ sb.size \in Nat /\ Len(sb.mem) \in Nat /\ Len(bytes) \in Nat
      /\ sb.size < need * 2 + 1 /\ need < need * 2 + 1 /\ need * 2 + 1 \in Nat
    BY BufferFacts
<1>2. CASE need >= Len(sb.mem)
    <2> DEFINE r == Resize(sb, need * 2 + 1)
    <2>1. /\ r \in Buffer /\ TextOf(r) = TextOf(sb) /\ r.size = sb.size
          /\ Len(r.mem) = need * 2 + 1
        BY <1>1, ResizeKeepsText
    <2>2. AppendFrom(sb, bytes) = Write(r, bytes)
        BY <1>2 DEF AppendFrom
    <2> HIDE DEF r
    <2>3. r.size + Len(bytes) < Len(r.mem)
        BY <1>1, <2>1
    <2> QED
        BY <2>1, <2>2, <2>3, WriteAppends
<1>3. CASE ~(need >= Len(sb.mem))
    <2>1. AppendFrom(sb, bytes) = Write(sb, bytes)
        BY <1>3 DEF AppendFrom
    <2>2. sb.size + Len(bytes) < Len(sb.mem)
        BY <1>1, <1>3
    <2> QED
        BY <2>1, <2>2, WriteAppends
<1> QED
    BY <1>2, <1>3

\* cel_strbuff_clear empties the buffer: behind the bytes in use the memory
\* was zero before.
LEMMA ClearEmpties ==
    ASSUME NEW sb \in Buffer
    PROVE  /\ ClearBuff(sb) \in Buffer
           /\ TextOf(ClearBuff(sb)) = <<>>
<1> DEFINE n == Len(sb.mem)
           g == [i \in 1 .. n |-> IF i <= sb.size THEN NUL ELSE sb.mem[i]]
<1>1. /\ n \in Nat /\ sb.size \in Nat /\ sb.size < n
      /\ \A i \in sb.size + 1 .. n : sb.mem[i] = NUL
    BY BufferFacts
<1>2. \A i \in 1 .. n : g[i] = NUL
    BY <1>1
<1>3. g \in Seq(Bytes) /\ Len(g) = n
    <2> HIDE DEF n
    <2>1. g \in [1 .. n -> Bytes]
        BY <1>2, StrBuffAssumption
    <2> QED
        BY <2>1, <1>1
<1>4. ClearBuff(sb) = [mem |-> g, size |-> 0]
    BY DEF ClearBuff
<1>5. ClearBuff(sb) \in Buffer
    BY <1>1, <1>2, <1>3, <1>4 DEF Buffer
<1> QED
    BY <1>4, <1>5 DEF TextOf

\* A set of numbers has a least one.
LEMMA LeastOf ==
    ASSUME NEW S \in SUBSET Nat, S # {}
    PROVE  \E i \in S : \A j \in S : i <= j
<1>1. PICK x \in S : \A y \in S : ~(<<y, x>> \in OpToRel(<, Nat))
    BY WFMin, NatLessThanWellFounded
<1>2. ASSUME NEW y \in S
      PROVE  x <= y
    <2>1. x \in Nat /\ y \in Nat
        OBVIOUS
    <2>2. ~(y < x)
        BY <1>1, <2>1 DEF OpToRel
    <2> QED
        BY <2>1, <2>2
<1> QED
    BY <1>2

\* A reader of the memory as a C string sees the bytes in use up to a zero byte
\* and nothing behind them (cJSON_Parse on the buffer).
LEMMA CStringIsText ==
    ASSUME NEW sb \in Buffer
    PROVE  CString(sb) = UpToNul(TextOf(sb))
<1> DEFINE mem  == sb.mem
           n    == sb.size
           text == TextOf(sb)
           M    == Ends(mem)
           X    == Ends(text)
<1>1. /\ mem \in Seq(Bytes) /\ n \in Nat /\ n < Len(mem) /\ Len(mem) \in Nat
      /\ DOMAIN mem = 1 .. Len(mem)
      /\ \A i \in 1 .. Len(mem) : mem[i] \in Bytes
      /\ \A i \in n + 1 .. Len(mem) : mem[i] = NUL
      /\ text \in Seq(Bytes) /\ Len(text) = n /\ DOMAIN text = 1 .. n
      /\ \A i \in 1 .. n : text[i] = mem[i]
    BY BufferFacts, LenProperties
<1> HIDE DEF mem, n, text
<1>2. M \subseteq 1 .. Len(mem) /\ n + 1 \in M
    BY <1>1 DEF Ends
<1>3. X \subseteq 1 .. n /\ \A i \in 1 .. n : i \in X <=> i \in M
    BY <1>1 DEF Ends
<1> HIDE DEF M, X
<1>4. PICK i \in M : \A j \in M : i <= j
    BY <1>1, <1>2, LeastOf
<1>5. (CHOOSE k \in M : \A j \in M : k <= j) = i
    <2>1. \A k \in M : (\A j \in M : k <= j) => k = i
        BY <1>1, <1>2, <1>4
    <2> QED
        BY <1>4, <2>1
<1>6. i \in 1 .. n + 1 /\ i - 1 \in 0 .. n
    BY <1>1, <1>2, <1>4
<1>7. /\ SubSeq(mem, 1, i - 1) \in Seq(Bytes) /\ Len(SubSeq(mem, 1, i - 1)) = i - 1
      /\ \A j \in 1 .. i - 1 : SubSeq(mem, 1, i - 1)[j] = text[j]
    <2>1. \A j \in 1 .. i - 1 : mem[j] \in Bytes /\ mem[j] = text[j]
        BY <1>1, <1>6
    <2>2. /\ SubSeq(mem, 1, i - 1) \in Seq(Bytes)
          /\ Len(SubSeq(mem, 1, i - 1)) = IF 1 <= i - 1 THEN (i - 1) - 1 + 1 ELSE 0
          /\ \A j \in 1 .. (i - 1) - 1 + 1 : SubSeq(mem, 1, i - 1)[j] = mem[1 + j - 1]
        BY <1>6, <2>1, SubSeqProperties
    <2> QED
        BY <1>6, <2>1, <2>2
<1>8. CString(sb) = SubSeq(mem, 1, i - 1)
    <2>1. UpToNul(mem) = SubSeq(mem, 1, i - 1)
        BY <1>2, <1>5 DEF UpToNul, M
    <2>2. CString(sb) = UpToNul(mem) \o <<>>
        BY <1>2 DEF CString, mem, M
    <2> QED
        BY <1>7, <2>1, <2>2, ConcatEmptySeq
<1>9. CASE X = {}
    <2>1. UpToNul(text) = text
        BY <1>9 DEF UpToNul, X
    <2>2. i = n + 1
        BY <1>1, <1>3, <1>4, <1>6, <1>9
    <2>3. SubSeq(mem, 1, i - 1) = text
        BY <1>1, <1>7, <2>2, SeqEqual
    <2> QED
        BY <1>8, <2>1, <2>3 DEF text
<1>10. CASE X # {}
    <2>1. i \in X /\ \A j \in X : i <= j
        <3>1. PICK x \in X : TRUE
            BY <1>10
        <3>2. \A j \in X : j \in 1 .. n /\ j \in M /\ i <= j
            BY <1>3, <1>4
        <3>3. i \in 1 .. n
            BY <1>1, <1>6, <3>1, <3>2
        <3> QED
            BY <1>3, <1>4, <3>2, <3>3
    <2>2. (CHOOSE k \in X : \A j \in X : k <= j) = i
        <3>1. \A k \in X : (\A j \in X : k <= j) => k = i
            BY <1>1, <1>3, <2>1
        <3> QED
            BY <2>1, <3>1
    <2>3. UpToNul(text) = SubSeq(text, 1, i - 1)
        BY <1>10, <2>2 DEF UpToNul, X
    <2>4. \A j \in 1 .. i - 1 : text[j] \in Bytes
        BY <1>1, <1>6
    <2>5. /\ SubSeq(text, 1, i - 1) \in Seq(Bytes)
          /\ Len(SubSeq(text, 1, i - 1)) = IF 1 <= i - 1 THEN (i - 1) - 1 + 1 ELSE 0
          /\ \A j \in 1 .. (i - 1) - 1 + 1 : SubSeq(text, 1, i - 1)[j] = text[1 + j - 1]
        BY <1>6, <2>4, SubSeqProperties
    <2>6. /\ Len(SubSeq(text, 1, i - 1)) = i - 1
          /\ \A j \in 1 .. i - 1 : SubSeq(text, 1, i - 1)[j] = text[j]
        BY <1>6, <2>5
    <2>7. SubSeq(mem, 1, i - 1) = SubSeq(text, 1, i - 1)
        BY <1>7, <2>5, <2>6, SeqEqual
    <2> QED
        BY <1>8, <2>3, <2>7 DEF text
<1> QED
    BY <1>9, <1>10

-----------------------------------------------------------------------------
(***************************************************************************)
(* What the environment leaves alone.                                      *)
(***************************************************************************)

\* The kernel, the network and the booter change none of the collector's
\* variables, and lose nothing of an answer.
LEMMA WorldKeepsApp ==
    ASSUME World
    PROVE  UNCHANGED app /\ ("lost" \in odd' <=> "lost" \in odd)
<1>1. ASSUME NEW i \in Interfaces, Traffic(i)
      PROVE  UNCHANGED app /\ ("lost" \in odd' <=> "lost" \in odd)
    BY <1>1 DEF Traffic, Outside
<1>2. ASSUME NEW i \in Interfaces, Change(i)
      PROVE  UNCHANGED app /\ ("lost" \in odd' <=> "lost" \in odd)
    BY <1>2 DEF Change, Outside
<1>3. ASSUME NEW use \in {"busy", "idle"}, Tick(use)
      PROVE  UNCHANGED app /\ ("lost" \in odd' <=> "lost" \in odd)
    <2>1. odd' \in {odd, odd \cup {"wrapped"}}
        BY <1>3 DEF Tick
    <2> QED
        BY <1>3, <2>1 DEF Tick, Outside
<1>4. ASSUME NEW s \in Signals, Signal(s)
      PROVE  UNCHANGED app /\ ("lost" \in odd' <=> "lost" \in odd)
    BY <1>4 DEF Signal, Outside
<1>5. CASE BooterDies
    BY <1>5 DEF BooterDies, Outside
<1> QED
    BY <1>1, <1>2, <1>3, <1>4, <1>5 DEF World

-----------------------------------------------------------------------------
(***************************************************************************)
(* The receive buffer and the answer.                                      *)
(***************************************************************************)

\* While a request is under way, and when its answer is parsed, the buffer
\* holds what was received, unless an append failed.
AnswerInv ==
    /\ buf \in Buffer
    /\ received \in Seq(Bytes)
    /\ cpc \in {"request", "parse"} /\ "lost" \notin odd => TextOf(buf) = received

\* What a step of the collector can do to the buffer: nothing, clear it when the
\* request is sent, or append a chunk.
LEMMA BufferSteps ==
    ASSUME AnswerInv, [Next]_vars
    PROVE  /\ AnswerInv'
           /\ \/ buf' = buf
              \/ buf' = ClearBuff(buf)
              \/ \E c \in Chunks : buf' = AppendFrom(buf, c)
<1> DEFINE Step == \/ buf' = buf
                   \/ buf' = ClearBuff(buf)
                   \/ \E c \in Chunks : buf' = AppendFrom(buf, c)
<1>0. <<>> \in Seq(Bytes)
    OBVIOUS
<1>1. CASE Start
    BY <1>1 DEF Start, Goto, AnswerInv
<1>2. CASE Top
    BY <1>2 DEF Top, Goto, AnswerInv
<1>3. CASE Gather
    BY <1>3 DEF Gather, Goto, AnswerInv
<1>4. CASE Round1
    BY <1>4 DEF Round1, Goto, AnswerInv
<1>5. CASE Round2
    BY <1>5 DEF Round2, Goto, AnswerInv
<1>6. CASE Package
    BY <1>6 DEF Package, Goto, AnswerInv
<1>7. CASE Upload
    <2>1. CASE cpc' = "again" /\ UNCHANGED <<buf, received, odd>>
        BY <2>1 DEF AnswerInv
    <2>2. CASE cpc' = "request" /\ buf' = ClearBuff(buf) /\ received' = <<>>
        BY <1>0, <2>2, ClearEmpties DEF AnswerInv
    <2> QED
        BY <1>7, <2>1, <2>2 DEF Upload, Goto
<1>8. ASSUME NEW c \in Chunks, Receive(c)
      PROVE  AnswerInv' /\ Step
    <2>1. c \in Seq(Bytes)
        BY CollectorAssumption
    <2>2. received' = received \o c /\ received' \in Seq(Bytes)
        BY <1>8, <2>1 DEF Receive, AnswerInv
    <2>3. CASE buf' = AppendFrom(buf, c) /\ UNCHANGED odd
        <3>1. buf' \in Buffer /\ TextOf(buf') = TextOf(buf) \o c
            BY <2>1, <2>3, AppendAppends DEF AnswerInv
        <3>2. cpc = "request" /\ cpc' = cpc
            BY <1>8 DEF Receive
        <3> QED
            BY <2>2, <2>3, <3>1, <3>2 DEF AnswerInv
    <2>4. CASE odd' = odd \cup {"lost"} /\ UNCHANGED buf
        BY <2>2, <2>4 DEF AnswerInv
    <2> QED
        BY <1>8, <2>3, <2>4 DEF Receive
<1>9. CASE Answer
    BY <1>9 DEF Answer, Goto, AnswerInv
<1>10. CASE Parse
    BY <1>10 DEF Parse, Goto, AnswerInv
<1>11. CASE Again
    BY <1>0, <1>11 DEF Again, Goto, AnswerInv
<1>12. CASE CleanUp
    BY <1>12 DEF CleanUp, Goto, AnswerInv
<1>13. CASE World
    BY <1>13, WorldKeepsApp DEF app, AnswerInv
<1>14. CASE UNCHANGED vars
    BY <1>14 DEF vars, app, AnswerInv
<1> QED
    BY <1>1, <1>2, <1>3, <1>4, <1>5, <1>6, <1>7, <1>8, <1>9, <1>10, <1>11, <1>12,
       <1>13, <1>14 DEF Next, CollectorStep

\* The first state has an empty buffer (sarah_collector_init).
LEMMA BufferInit ==
    ASSUME Init
    PROVE  AnswerInv /\ TextOf(buf) = <<>>
<1>1. buf \in Buffer /\ TextOf(buf) = <<>>
    BY CollectorAssumption, NewBuffIsEmpty DEF Init
<1>2. received \in Seq(Bytes) /\ cpc = "init"
    BY DEF Init
<1> QED
    BY <1>1, <1>2 DEF AnswerInv

\* What the collector parses is what this request received, for any chunks,
\* buffer size and faults: the property OwnAnswer of _do_json_upload.
THEOREM AnswerIsOwn == Spec => []OwnAnswer
<1>1. Init => AnswerInv
    BY BufferInit
<1>2. AnswerInv /\ [Next]_vars => AnswerInv'
    BY BufferSteps
<1>3. AnswerInv => OwnAnswer
    <2> SUFFICES ASSUME AnswerInv, cpc = "parse", "lost" \notin odd
                 PROVE  CString(buf) = UpToNul(received)
        BY DEF OwnAnswer
    <2>1. buf \in Buffer /\ TextOf(buf) = received
        BY DEF AnswerInv
    <2> QED
        BY <2>1, CStringIsText
<1> QED
    BY <1>1, <1>2, <1>3, PTL DEF Spec

\* The receive buffer implements a text: under the mapping TextOf(buf) every
\* step of the collector is a step of module Text or changes nothing.
THEOREM BufferRefinesText == Spec => BufferIsText
<1>1. Init => AnswerInv /\ T!Init
    BY BufferInit DEF T!Init
<1>2. AnswerInv /\ [Next]_vars => AnswerInv' /\ [T!Next]_(TextOf(buf))
    <2> SUFFICES ASSUME AnswerInv, [Next]_vars
                 PROVE  AnswerInv' /\ [T!Next]_(TextOf(buf))
        OBVIOUS
    <2>1. AnswerInv'
        BY BufferSteps
    <2>2. buf \in Buffer
        BY DEF AnswerInv
    <2>3. CASE buf' = buf
        BY <2>1, <2>3
    <2>4. CASE buf' = ClearBuff(buf)
        <3>1. TextOf(buf') = <<>>
            BY <2>2, <2>4, ClearEmpties
        <3> QED
            BY <2>1, <3>1 DEF T!Next, T!Clear
    <2>5. ASSUME NEW c \in Chunks, buf' = AppendFrom(buf, c)
          PROVE  [T!Next]_(TextOf(buf))
        <3>1. TextOf(buf') = TextOf(buf) \o c
            BY <2>2, <2>5, AppendAppends, CollectorAssumption
        <3> QED
            BY <3>1 DEF T!Next, T!Grow
    <2> QED
        BY <2>1, <2>3, <2>4, <2>5, BufferSteps
<1> QED
    BY <1>1, <1>2, PTL DEF Spec, BufferIsText, T!Spec

-----------------------------------------------------------------------------
(***************************************************************************)
(* The lists.                                                              *)
(***************************************************************************)

\* A pass fills the second sample and the rates where it packages them, and
\* what it gathered is cleared with them; the first sample outlives the pass.
ListInv ==
    /\ cpc # "package" => l2 = <<>> /\ bands = <<>>
    /\ cpc \notin {"round1", "round2", "package"} => ~gathered
    /\ cpc \in {"init", "end"} => l1 = <<>>

\* Every step keeps the lists so.
LEMMA ListStep ==
    ASSUME ListInv, [Next]_vars
    PROVE  ListInv'
<1>1. CASE Start
    BY <1>1 DEF Start, Goto, lists, ListInv
<1>2. CASE Top
    BY <1>2 DEF Top, Goto, lists, ListInv
<1>3. CASE Gather
    BY <1>3 DEF Gather, Goto, ListInv
<1>4. CASE Round1
    BY <1>4 DEF Round1, Goto, ListInv
<1>5. CASE Round2
    BY <1>5 DEF Round2, Goto, ListInv
<1>6. CASE Package
    BY <1>6 DEF Package, Goto, ListInv
<1>7. CASE Upload
    BY <1>7 DEF Upload, Goto, lists, ListInv
<1>8. ASSUME NEW c \in Chunks, Receive(c)
      PROVE  ListInv'
    BY <1>8 DEF Receive, lists, ListInv
<1>9. CASE Answer
    BY <1>9 DEF Answer, Goto, lists, ListInv
<1>10. CASE Parse
    BY <1>10 DEF Parse, Goto, lists, ListInv
<1>11. CASE Again
    BY <1>11 DEF Again, Goto, ListInv
<1>12. CASE CleanUp
    BY <1>12 DEF CleanUp, Goto, ListInv
<1>13. CASE World
    BY <1>13, WorldKeepsApp DEF app, lists, ListInv
<1>14. CASE UNCHANGED vars
    BY <1>14 DEF vars, app, lists, ListInv
<1> QED
    BY <1>1, <1>2, <1>3, <1>4, <1>5, <1>6, <1>7, <1>8, <1>9, <1>10, <1>11, <1>12,
       <1>13, <1>14 DEF Next, CollectorStep

\* Every list is empty when the collector destroys it, wherever its loop was
\* left and whatever failed: the property EmptyWhenDestroyed.
THEOREM ListsEmptyAtEnd == Spec => []EmptyWhenDestroyed
<1>1. Init => ListInv
    BY DEF Init, ListInv
<1>2. ListInv /\ [Next]_vars => ListInv'
    BY ListStep
<1>3. ListInv => EmptyWhenDestroyed
    BY DEF ListInv, EmptyWhenDestroyed
<1> QED
    BY <1>1, <1>2, <1>3, PTL DEF Spec
-----------------------------------------------------------------------------
(***************************************************************************)
(* Types.                                                                  *)
(***************************************************************************)

Budget == [faults : 0 .. MaxFaults, ticks : 0 .. MaxTicks,
           changes : 0 .. MaxChanges, signals : 0 .. MaxSignals]

FlagType ==
    /\ cpc \in {"init", "top", "gather", "round1", "round2", "package",
                "upload", "request", "parse", "again", "clean", "end"}
    /\ status \in {"READY", "RUNNING", "STOP", "EXIT"}
    /\ togo \in BOOLEAN /\ gathered \in BOOLEAN /\ orphan \in BOOLEAN
    /\ odd \subseteq Oddities
    /\ budget \in Budget

CpuType ==
    /\ cpu1 \in CpuTime \cup {None} /\ cpu2 \in CpuTime \cup {None}
    /\ cpu \in CpuTime
    /\ cpc \in {"round2", "package"} \/ togo => cpu1 \in CpuTime
    /\ cpc = "package" => cpu2 \in CpuTime

NetType ==
    /\ l1 \in Seq(NetStat) /\ l2 \in Seq(NetStat)
    /\ bands \in Seq(Band)
    /\ json \in [bands : Seq(Band), load : Ratio] \cup {None}
    /\ nics \in Seq(Interfaces)
    /\ rx \in [Interfaces -> 0 .. Wrap - 1]
    /\ since \in [Interfaces -> Nat]

\* Spending keeps what is left of the bounds well typed.
LEMMA SpendType ==
    ASSUME budget \in Budget, NEW what \in {"faults", "ticks", "changes", "signals"},
           Spend(what)
    PROVE  budget' \in Budget
<1>1. CASE what = "faults"
    BY <1>1, CollectorAssumption DEF Spend, Budget
<1>2. CASE what = "ticks"
    BY <1>2, CollectorAssumption DEF Spend, Budget
<1>3. CASE what = "changes"
    BY <1>3, CollectorAssumption DEF Spend, Budget
<1>4. CASE what = "signals"
    BY <1>4, CollectorAssumption DEF Spend, Budget
<1> QED
    BY <1>1, <1>2, <1>3, <1>4

\* A step that has no failure, or spends one, keeps the bounds well typed.
LEMMA FaultType ==
    ASSUME budget \in Budget, (\E kind : Fault(kind)) \/ UNCHANGED budget
    PROVE  budget' \in Budget
<1>1. ASSUME NEW kind, Fault(kind)
      PROVE  budget' \in Budget
    BY <1>1, SpendType DEF Fault
<1> QED
    BY <1>1

\* A first sample leaves the bounds and the history well typed.
LEMMA FirstFlags ==
    ASSUME budget \in Budget, odd \subseteq Oddities, TakeFirst
    PROVE  budget' \in Budget /\ odd' \subseteq Oddities
<1>1. budget' \in Budget
    BY FaultType DEF TakeFirst
<1>2. odd' \subseteq Oddities
    BY DEF TakeFirst, Oddities
<1> QED
    BY <1>1, <1>2

\* The flags, the history and the bounds stay well typed.
LEMMA FlagStep ==
    ASSUME FlagType, [Next]_vars
    PROVE  FlagType'
<1> USE DEF FlagType
<1>1. CASE Start
    <2>1. budget' \in Budget
        BY <1>1, FaultType DEF Start
    <2> QED
        BY <1>1, <2>1 DEF Start, Goto, lists
<1>2. CASE Top
    BY <1>2 DEF Top, Goto, lists, kernel
<1>3. CASE Gather
    <2>1. gathered' \in BOOLEAN
        BY <1>3, Zenon DEF Gather
    <2> QED
        BY <1>3, <2>1 DEF Gather, Goto, kernel
<1>4. CASE Round1
    BY <1>4, FirstFlags DEF Round1, Goto, kernel
<1>5. CASE Round2
    <2>1. budget' \in Budget
        BY <1>5, FaultType DEF Round2
    <2>2. odd' \subseteq Oddities
        BY <1>5 DEF Round2, Oddities
    <2> QED
        BY <1>5, <2>1, <2>2 DEF Round2, Goto, kernel
<1>6. CASE Package
    <2>1. gathered' \in BOOLEAN
        BY <1>6, Zenon DEF Package
    <2> QED
        BY <1>6, <2>1 DEF Package, Goto, kernel
<1>7. CASE Upload
    <2>1. budget' \in Budget
        BY <1>7, FaultType DEF Upload
    <2> QED
        BY <1>7, <2>1 DEF Upload, Goto, lists, kernel
<1>8. ASSUME NEW c \in Chunks, Receive(c)
      PROVE  FlagType'
    <2>1. budget' \in Budget
        BY <1>8, FaultType DEF Receive
    <2>2. odd' \subseteq Oddities
        BY <1>8 DEF Receive, Oddities
    <2> QED
        BY <1>8, <2>1, <2>2 DEF Receive, lists, kernel
<1>9. CASE Answer
    <2>1. budget' \in Budget
        BY <1>9, FaultType DEF Answer
    <2> QED
        BY <1>9, <2>1 DEF Answer, Goto, lists, kernel
<1>10. CASE Parse
    BY <1>10 DEF Parse, Goto, lists, kernel
<1>11. CASE Again
    <2>1. togo' \in BOOLEAN
        BY <1>11, Zenon DEF Again
    <2> QED
        BY <1>11, <2>1, FirstFlags DEF Again, Goto, kernel
<1>12. CASE CleanUp
    BY <1>12 DEF CleanUp, Goto, kernel
<1>13. CASE World
    <2>1. UNCHANGED <<cpc, togo, gathered>>
        BY <1>13, WorldKeepsApp DEF app, lists
    <2>2. budget' \in Budget
        <3>1. PICK what \in {"faults", "ticks", "changes", "signals"} : Spend(what)
            BY <1>13 DEF World, Traffic, Tick, Change, Signal, BooterDies, Outside
        <3> QED
            BY <3>1, SpendType
    <2>3. odd' \subseteq Oddities
        BY <1>13 DEF World, Traffic, Tick, Change, Signal, BooterDies, Oddities
    <2>4. orphan' \in BOOLEAN
        BY <1>13, Zenon DEF World, Traffic, Tick, Change, Signal, BooterDies
    <2>5. status' \in {"READY", "RUNNING", "STOP", "EXIT"}
        BY <1>13, CollectorAssumption
           DEF World, Traffic, Tick, Change, Signal, BooterDies
    <2> QED
        BY <2>1, <2>2, <2>3, <2>4, <2>5
<1>14. CASE UNCHANGED vars
    BY <1>14 DEF vars, app, lists, kernel
<1> QED
    BY <1>1, <1>2, <1>3, <1>4, <1>5, <1>6, <1>7, <1>8, <1>9, <1>10, <1>11, <1>12,
       <1>13, <1>14 DEF Next, CollectorStep
-----------------------------------------------------------------------------
(***************************************************************************)
(* The CPU times and the load.                                             *)
(***************************************************************************)

\* The remainders of a sum below twice the width.
LEMMA OnceAround ==
    \A n \in 0 .. 2 * Wrap - 1 : /\ n < Wrap => n % Wrap = n
                                 /\ ~(n < Wrap) => n % Wrap = n - Wrap
<1>1. ASSUME NEW w \in Nat \ {0}, NEW n \in 0 .. 2 * w - 1
      PROVE  n % w = IF n < w THEN n ELSE n - w
    OBVIOUS
<1> QED
    BY <1>1, CollectorAssumption

\* s2 is a later reading of the CPU times than s1, and neither a time nor the
\* sum of them has wrapped in between.
Later(s1, s2) ==
    /\ s1.busy <= s2.busy /\ s1.idle <= s2.idle
    /\ s1.busy + s1.idle < Wrap <=> s2.busy + s2.idle < Wrap

\* Of two such readings sarah_cal_cpu_occupy makes a share.
LEMMA OccupyIsShare ==
    ASSUME NEW s1 \in CpuTime, NEW s2 \in CpuTime, Later(s1, s2)
    PROVE  0 <= Occupy(s1, s2)[1] /\ Occupy(s1, s2)[1] <= Occupy(s1, s2)[2]
<1> DEFINE t1 == (s1.busy + s1.idle) % Wrap
           t2 == (s2.busy + s2.idle) % Wrap
<1>1. /\ s1.busy \in Nat /\ s1.idle \in Nat /\ s2.busy \in Nat /\ s2.idle \in Nat
      /\ s1.busy + s1.idle \in 0 .. 2 * Wrap - 1 /\ s2.busy + s2.idle \in 0 .. 2 * Wrap - 1
      /\ Wrap \in Nat \ {0}
    BY CollectorAssumption DEF CpuTime
<1>2. /\ t1 = IF s1.busy + s1.idle < Wrap THEN s1.busy + s1.idle ELSE s1.busy + s1.idle - Wrap
      /\ t2 = IF s2.busy + s2.idle < Wrap THEN s2.busy + s2.idle ELSE s2.busy + s2.idle - Wrap
    <2>1. PICK n1 \in 0 .. 2 * Wrap - 1 : n1 = s1.busy + s1.idle
        BY <1>1
    <2>2. PICK n2 \in 0 .. 2 * Wrap - 1 : n2 = s2.busy + s2.idle
        BY <1>1
    <2>3. n1 % Wrap = (IF n1 < Wrap THEN n1 ELSE n1 - Wrap)
        BY OnceAround
    <2>4. n2 % Wrap = (IF n2 < Wrap THEN n2 ELSE n2 - Wrap)
        BY OnceAround
    <2>5. t1 = n1 % Wrap /\ t2 = n2 % Wrap
        BY <2>1, <2>2, Zenon
    <2> HIDE DEF t1, t2
    <2> QED
        BY <1>1, <2>1, <2>2, <2>3, <2>4, <2>5
<1>3. Occupy(s1, s2) = IF t2 = t1 THEN <<0, 0>> ELSE <<s2.busy - s1.busy, t2 - t1>>
    BY DEF Occupy
<1> HIDE DEF t1, t2
<1>4. s2.busy - s1.busy >= 0 /\ s2.busy - s1.busy <= t2 - t1
    BY <1>1, <1>2 DEF Later
<1> QED
    BY <1>3, <1>4

\* The load that is reported is a ratio of integers.
LEMMA OccupyType ==
    ASSUME NEW s1 \in CpuTime, NEW s2 \in CpuTime
    PROVE  Occupy(s1, s2) \in Ratio
<1> DEFINE t1 == (s1.busy + s1.idle) % Wrap
           t2 == (s2.busy + s2.idle) % Wrap
<1>1. s1.busy \in Int /\ s2.busy \in Int /\ t1 \in Int /\ t2 \in Int
    BY CollectorAssumption DEF CpuTime
<1>2. Occupy(s1, s2) = IF t2 = t1 THEN <<0, 0>> ELSE <<s2.busy - s1.busy, t2 - t1>>
    BY DEF Occupy
<1> HIDE DEF t1, t2
<1> QED
    BY <1>1, <1>2 DEF Ratio

\* A tick that wraps nothing makes a later reading.
LEMMA TickIsLater ==
    ASSUME cpu \in CpuTime, NEW use \in {"busy", "idle"}, Tick(use)
    PROVE  /\ cpu' \in CpuTime
           /\ "wrapped" \notin odd' =>
                \A s \in CpuTime : Later(s, cpu) => Later(s, cpu')
<1>1. /\ cpu.busy \in 0 .. Wrap - 1 /\ cpu.idle \in 0 .. Wrap - 1
      /\ Wrap \in Nat \ {0}
      /\ cpu = [busy |-> cpu.busy, idle |-> cpu.idle]
    BY CollectorAssumption DEF CpuTime
<1>2. ASSUME NEW x \in 0 .. Wrap - 1
      PROVE  (x + 1) % Wrap = IF x + 1 < Wrap THEN x + 1 ELSE 0
    <2>1. x + 1 \in 0 .. 2 * Wrap - 1 /\ Wrap \in Nat \ {0} /\ x + 1 <= Wrap
        BY <1>1
    <2>2. PICK n \in 0 .. 2 * Wrap - 1 : n = x + 1
        BY <2>1
    <2>3. n % Wrap = (IF n < Wrap THEN n ELSE n - Wrap)
        BY OnceAround
    <2> QED
        BY <2>1, <2>2, <2>3
<1>3. cpu' = [cpu EXCEPT ![use] = (cpu[use] + 1) % Wrap]
    BY DEF Tick
<1>4. ASSUME "wrapped" \notin odd'
      PROVE  cpu.busy + cpu.idle + 1 \notin {Wrap, 2 * Wrap} /\ cpu'[use] # 0
    BY <1>4 DEF Tick
<1>5. CASE use = "busy"
    <2>1. cpu' = [busy |-> IF cpu.busy + 1 < Wrap THEN cpu.busy + 1 ELSE 0, idle |-> cpu.idle]
        BY <1>1, <1>2, <1>3, <1>5
    <2>2. cpu' \in CpuTime
        BY <1>1, <2>1 DEF CpuTime
    <2>3. ASSUME "wrapped" \notin odd', NEW s \in CpuTime, Later(s, cpu)
          PROVE  Later(s, cpu')
        <3>1. cpu'.busy = cpu.busy + 1 /\ cpu'.idle = cpu.idle
            BY <1>1, <1>4, <1>5, <2>1, <2>3
        <3>2. s.busy \in Nat /\ s.idle \in Nat
            BY <1>1 DEF CpuTime
        <3> QED
            BY <1>1, <1>4, <2>3, <3>1, <3>2 DEF Later
    <2> QED
        BY <2>2, <2>3
<1>6. CASE use = "idle"
    <2>1. cpu' = [busy |-> cpu.busy, idle |-> IF cpu.idle + 1 < Wrap THEN cpu.idle + 1 ELSE 0]
        BY <1>1, <1>2, <1>3, <1>6
    <2>2. cpu' \in CpuTime
        BY <1>1, <2>1 DEF CpuTime
    <2>3. ASSUME "wrapped" \notin odd', NEW s \in CpuTime, Later(s, cpu)
          PROVE  Later(s, cpu')
        <3>1. cpu'.busy = cpu.busy /\ cpu'.idle = cpu.idle + 1
            BY <1>1, <1>4, <1>6, <2>1, <2>3
        <3>2. s.busy \in Nat /\ s.idle \in Nat
            BY <1>1 DEF CpuTime
        <3> QED
            BY <1>1, <1>4, <2>3, <3>1, <3>2 DEF Later
    <2> QED
        BY <2>2, <2>3
<1> QED
    BY <1>5, <1>6

\* As long as both times were read and nothing wrapped, the kernel's times are
\* later than the first sample, and the second sample is the kernel's.
Regular == odd \cap {"wrapped", "unread"} = {}
LoadInv ==
    /\ CpuType
    /\ Regular /\ cpu1 \in CpuTime => Later(cpu1, cpu)
    /\ Regular /\ cpc = "package" => cpu2 = cpu
    /\ LoadIsShare

\* A first sample starts the comparison anew.
LEMMA FirstLoad ==
    ASSUME CpuType, TakeFirst
    PROVE  cpu1' \in CpuTime /\ (Regular' => cpu1' = cpu)
<1>1. cpu1' \in CpuTime
    BY DEF TakeFirst, CpuType, Unread
<1>2. Regular' => cpu1' = cpu
    BY DEF TakeFirst, Regular
<1> QED
    BY <1>1, <1>2

\* Every step keeps what the load is computed from.
LEMMA LoadStep ==
    ASSUME LoadInv, FlagType, [Next]_vars
    PROVE  LoadInv'
<1> USE DEF LoadInv
<1>0. ASSUME UNCHANGED <<togo, cpu1, cpu2, cpu, odd>>,
             cpc' \notin {"package", "upload"},
             cpc' = "round2" => togo \/ cpc = "round2"
      PROVE  LoadInv'
    BY <1>0 DEF CpuType, Regular, LoadIsShare
<1>r. \A s \in CpuTime : Later(s, s)
    BY CollectorAssumption DEF CpuTime, Later
<1>1. CASE Start
    BY <1>0, <1>1 DEF Start, Goto
<1>2. CASE Top
    BY <1>0, <1>2 DEF Top, Goto, kernel
<1>3. CASE Gather
    BY <1>0, <1>3 DEF Gather, Goto, kernel
<1>4. CASE Round1
    <2>1. cpu1' \in CpuTime /\ (Regular' => cpu1' = cpu) /\ UNCHANGED <<togo, cpu2, cpu>>
          /\ cpc' = "round2"
        BY <1>4, FirstLoad DEF Round1, Goto, kernel
    <2> QED
        BY <2>1, <1>r DEF CpuType, LoadIsShare
<1>5. CASE Round2
    <2>1. /\ cpc = "round2" /\ cpc' = "package" /\ UNCHANGED <<togo, cpu1, cpu>>
          /\ cpu1 \in CpuTime /\ cpu \in CpuTime
        BY <1>5 DEF Round2, Goto, kernel, CpuType
    <2>2. cpu2' \in CpuTime
        BY <1>5, <2>1 DEF Round2, CpuType, Unread
    <2>3. Regular' => Regular /\ cpu2' = cpu
        BY <1>5 DEF Round2, Regular
    <2> QED
        BY <2>1, <2>2, <2>3 DEF CpuType, LoadIsShare
<1>6. CASE Package
    <2>1. /\ cpc = "package" /\ cpc' = "upload" /\ UNCHANGED <<togo, cpu1, cpu2, cpu, odd>>
          /\ cpu1 \in CpuTime /\ cpu2 \in CpuTime
          /\ json'.load = Occupy(cpu1, cpu2)
        BY <1>6 DEF Package, Goto, kernel, CpuType, JsonPackage
    <2>2. Regular => 0 <= json'.load[1] /\ json'.load[1] <= json'.load[2]
        BY <2>1, OccupyIsShare
    <2> QED
        BY <2>1, <2>2 DEF CpuType, LoadIsShare, Regular
<1>7. CASE Upload
    <2>1. /\ UNCHANGED <<togo, cpu1, cpu2, cpu>> /\ cpc' \in {"again", "request"}
          /\ Regular' <=> Regular
        BY <1>7 DEF Upload, Goto, kernel, Regular
    <2> QED
        BY <2>1 DEF CpuType, LoadIsShare
<1>8. ASSUME NEW c \in Chunks, Receive(c)
      PROVE  LoadInv'
    <2>1. /\ UNCHANGED <<togo, cpu1, cpu2, cpu>> /\ cpc' = "request"
          /\ Regular' <=> Regular
        BY <1>8 DEF Receive, kernel, Regular
    <2> QED
        BY <2>1 DEF CpuType, LoadIsShare
<1>9. CASE Answer
    BY <1>0, <1>9 DEF Answer, Goto, kernel
<1>10. CASE Parse
    BY <1>0, <1>10 DEF Parse, Goto, kernel
<1>11. CASE Again
    <2>1. cpu1' \in CpuTime /\ (Regular' => cpu1' = cpu) /\ UNCHANGED <<cpu2, cpu>>
          /\ cpc' \in {"clean", "top"}
        BY <1>11, FirstLoad DEF Again, Goto, kernel
    <2> QED
        BY <2>1, <1>r DEF CpuType, LoadIsShare
<1>12. CASE CleanUp
    BY <1>0, <1>12 DEF CleanUp, Goto, kernel
<1>13. CASE World
    <2>1. UNCHANGED <<cpc, togo, cpu1, cpu2>> /\ cpc \notin {"package", "upload"}
        BY <1>13, WorldKeepsApp
           DEF app, World, Traffic, Tick, Change, Signal, BooterDies, Outside
    <2>2. CASE UNCHANGED cpu /\ (Regular' <=> Regular)
        BY <2>1, <2>2 DEF CpuType, LoadIsShare
    <2>3. ASSUME NEW use \in {"busy", "idle"}, Tick(use)
          PROVE  LoadInv'
        <3>1. cpu' \in CpuTime
            BY <2>3, TickIsLater DEF CpuType
        <3>2. Regular' => Regular /\ "wrapped" \notin odd'
            BY <2>3 DEF Tick, Regular
        <3>3. Regular' /\ cpu1 \in CpuTime => Later(cpu1, cpu')
            BY <2>3, <3>2, TickIsLater DEF CpuType
        <3> QED
            BY <2>1, <3>1, <3>3 DEF CpuType, LoadIsShare
    <2>4. ASSUME NEW i \in Interfaces, Change(i)
          PROVE  UNCHANGED cpu /\ (Regular' <=> Regular)
        BY <2>4 DEF Change, Regular
    <2> QED
        BY <1>13, <2>2, <2>3, <2>4 DEF World, Traffic, Signal, BooterDies, Regular
<1>14. CASE UNCHANGED vars
    BY <1>14 DEF vars, app, kernel, CpuType, Regular, LoadIsShare
<1> QED
    BY <1>1, <1>2, <1>3, <1>4, <1>5, <1>6, <1>7, <1>8, <1>9, <1>10, <1>11, <1>12,
       <1>13, <1>14 DEF Next, CollectorStep

\* The first state of the flags and of the CPU times.
LEMMA FlagInit ==
    ASSUME Init
    PROVE  FlagType /\ LoadInv
<1>1. budget \in Budget
    BY CollectorAssumption DEF Init, Budget
<1>2. togo \in BOOLEAN /\ gathered \in BOOLEAN /\ orphan \in BOOLEAN
    BY Zenon DEF Init
<1>3. FlagType
    BY <1>1, <1>2 DEF Init, FlagType, Oddities
<1>4. LoadInv
    BY CollectorAssumption DEF Init, LoadInv, CpuType, LoadIsShare, None, CpuTime
<1> QED
    BY <1>3, <1>4

\* The load reported is a share of the time that passed, for any width of the
\* counters and any ticks between the samples: the property LoadIsShare of
\* sarah_cal_cpu_occupy.
THEOREM LoadIsAlwaysShare == Spec => []LoadIsShare
<1>1. Init => FlagType /\ LoadInv
    BY FlagInit
<1>2. FlagType /\ LoadInv /\ [Next]_vars => FlagType' /\ LoadInv'
    BY FlagStep, LoadStep
<1>3. LoadInv => LoadIsShare
    BY DEF LoadInv
<1> QED
    BY <1>1, <1>2, <1>3, PTL DEF Spec

-----------------------------------------------------------------------------
(***************************************************************************)
(* The interfaces and their rates.                                         *)
(***************************************************************************)

\* Quotient and remainder.
LEMMA Division ==
    ASSUME NEW w \in Nat \ {0}, NEW n \in Int
    PROVE  n % w \in 0 .. w - 1 /\ n \div w \in Int /\ n = w * (n \div w) + (n % w)
    OBVIOUS

\* A multiple of w that is closer to zero than w is zero.
LEMMA SmallMultiple ==
    ASSUME NEW w \in Nat \ {0}, NEW z \in Int, w * z < w, -w < w * z
    PROVE  z = 0
<1>1. z >= 1 => w * z >= w
    OBVIOUS
<1>2. z <= -1 => w * z <= -w
    OBVIOUS
<1> QED
    BY <1>1, <1>2

\* The remainder is the only one.
LEMMA RemainderUnique ==
    ASSUME NEW w \in Nat \ {0}, NEW n \in Int, NEW q \in Int, NEW r \in 0 .. w - 1,
           n = w * q + r
    PROVE  n % w = r
<1>1. PICK c \in Int, d \in 0 .. w - 1 : n = w * c + d /\ n % w = d
    BY Division
<1>2. w * (c - q) = r - d
    BY <1>1
<1>3. c - q \in Int /\ r - d < w /\ -w < r - d
    OBVIOUS
<1>4. c - q = 0
    BY <1>2, <1>3, SmallMultiple
<1> QED
    BY <1>1, <1>2, <1>4

\* A counter that is n behind, modulo w, is n + 1 behind after one more byte.
LEMMA CountOneMore ==
    ASSUME NEW w \in Nat \ {0}, NEW n \in Int, NEW m \in Int, NEW e \in Int,
           m = n + 1, e = (n % w) + 1
    PROVE  e % w = m % w
<1>1. PICK c \in Int, d \in 0 .. w - 1 : n = w * c + d /\ n % w = d
    BY Division
<1>2. CASE e < w
    <2>1. e \in 0 .. w - 1 /\ m = w * c + e /\ e = w * 0 + e
        BY <1>1, <1>2
    <2>2. m % w = e
        BY <2>1, RemainderUnique
    <2>3. e % w = e
        BY <2>1, RemainderUnique
    <2> QED
        BY <2>2, <2>3
<1>3. CASE ~(e < w)
    <2>1. PICK z \in 0 .. w - 1, c1 \in Int : z = 0 /\ c1 = c + 1
        OBVIOUS
    <2>2. m = w * c1 + z /\ e = w * 1 + z
        BY <1>1, <1>3, <2>1
    <2>3. m % w = z
        BY <2>2, RemainderUnique
    <2>4. e % w = z
        BY <2>2, RemainderUnique
    <2> QED
        BY <2>3, <2>4
<1> QED
    BY <1>2, <1>3

\* e is the difference between the reading of a counter that has come to m and
\* the reading r, from which n were counted.
Between(r, n, m, e) == m = r + n /\ e = (m % Wrap) - r

\* The unsigned difference of two readings is what was counted in between.
LEMMA Difference ==
    ASSUME NEW r \in 0 .. Wrap - 1, NEW n \in Int, NEW m \in Int, NEW e \in Int,
           Between(r, n, m, e)
    PROVE  e % Wrap = n % Wrap
<1>0. Wrap \in Nat \ {0} /\ m = r + n /\ e = (m % Wrap) - r
    BY CollectorAssumption DEF Between
<1>1. PICK c \in Int, d \in 0 .. Wrap - 1 : m = Wrap * c + d /\ m % Wrap = d
    BY <1>0, Division
<1>2. PICK a \in Int, b \in 0 .. Wrap - 1 : n = Wrap * a + b /\ n % Wrap = b
    BY <1>0, Division
<1>3. PICK q \in Int : q = a - c
    OBVIOUS
<1>4. e = Wrap * q + b
    BY <1>0, <1>1, <1>2, <1>3
<1>5. e % Wrap = b
    BY <1>0, <1>4, RemainderUnique
<1> QED
    BY <1>2, <1>5

\* What membership in NetStat says.
LEMMA NetStatFacts ==
    ASSUME NEW x \in NetStat
    PROVE  x.device \in Interfaces /\ x.receive \in 0 .. Wrap - 1
    BY DEF NetStat

\* What a reading of /proc/net/dev adds to a list.
Reading == [k \in DOMAIN nics |-> [device |-> nics[k], receive |-> rx[nics[k]]]]

LEMMA ReadingType ==
    ASSUME NetType
    PROVE  /\ Reading \in Seq(NetStat) /\ DOMAIN Reading = DOMAIN nics
           /\ \A k \in DOMAIN nics : /\ nics[k] \in Interfaces
                                      /\ Reading[k].device = nics[k]
                                      /\ Reading[k].receive = rx[nics[k]]
<1>1. nics \in Seq(Interfaces) /\ DOMAIN nics = 1 .. Len(nics) /\ Len(nics) \in Nat
    BY LenProperties DEF NetType
<1>2. \A k \in DOMAIN nics : nics[k] \in Interfaces /\ rx[nics[k]] \in 0 .. Wrap - 1
    BY <1>1, ElementOfSeq DEF NetType
<1>3. \A k \in 1 .. Len(nics) : [device |-> nics[k], receive |-> rx[nics[k]]] \in NetStat
    BY <1>1, <1>2 DEF NetStat
<1>4. Reading \in Seq(NetStat)
    BY <1>1, <1>3, IsASeq DEF Reading
<1> QED
    BY <1>2, <1>4 DEF Reading

LEMMA SampledType ==
    ASSUME NetType, NEW l \in Seq(NetStat)
    PROVE  Sampled(l) \in Seq(NetStat) /\ (l = <<>> => Sampled(l) = Reading)
<1>1. Sampled(l) = l \o Reading
    BY DEF Sampled, Reading
<1>2. Reading \in Seq(NetStat)
    BY ReadingType
<1> HIDE DEF Reading
<1> QED
    BY <1>1, <1>2, ConcatProperties, ConcatEmptySeq

\* The rates of two lists are as many as the shorter list has entries.
LEMMA BandwidthType ==
    ASSUME NEW s1 \in Seq(NetStat), NEW s2 \in Seq(NetStat)
    PROVE  LET bs == CalBandwidthStat(s1, s2)
           IN  /\ bs \in Seq(Band)
               /\ \A k \in DOMAIN bs :
                    /\ k \in DOMAIN s1 /\ k \in DOMAIN s2
                    /\ bs[k].name = s1[k].device
                    /\ bs[k].incoming = (s2[k].receive - s1[k].receive) % Wrap
<1> DEFINE n == IF Len(s1) <= Len(s2) THEN Len(s1) ELSE Len(s2)
           f == [k \in 1 .. n |-> [name     |-> s1[k].device,
                                   incoming |-> (s2[k].receive - s1[k].receive) % Wrap]]
<1>1. /\ Len(s1) \in Nat /\ Len(s2) \in Nat /\ n \in Nat
      /\ DOMAIN s1 = 1 .. Len(s1) /\ DOMAIN s2 = 1 .. Len(s2)
    BY LenProperties
<1>2. \A k \in 1 .. n : k \in DOMAIN s1 /\ k \in DOMAIN s2
    BY <1>1
<1>3. CalBandwidthStat(s1, s2) = f
    <2>1. DOMAIN Zip(s1, s2) = 1 .. n
        BY DEF Zip
    <2> QED
        BY <2>1 DEF CalBandwidthStat
<1> HIDE DEF n
<1>4. ASSUME NEW k \in 1 .. n
      PROVE  [name |-> s1[k].device,
              incoming |-> (s2[k].receive - s1[k].receive) % Wrap] \in Band
    <2>1. s1[k] \in NetStat /\ s2[k] \in NetStat
        BY <1>1, <1>2, ElementOfSeq
    <2>2. /\ s1[k].device \in Interfaces
          /\ s1[k].receive \in Int /\ s2[k].receive \in Int
        BY <2>1, NetStatFacts
    <2>3. PICK e \in Int : e = s2[k].receive - s1[k].receive
        BY <2>2
    <2>4. e % Wrap \in 0 .. Wrap - 1
        BY Division, CollectorAssumption
    <2> QED
        BY <2>2, <2>3, <2>4 DEF Band
<1>5. f \in Seq(Band)
    BY <1>1, <1>4, IsASeq
<1> QED
    BY <1>2, <1>3, <1>5

\* The first sample is empty until it is taken: before the first pass samples,
\* and from the packaging of a pass to the sample of the next one.
FirstEmpty ==
    /\ cpc \in {"init", "round1", "upload", "request", "parse", "again", "end"}
         => l1 = <<>>
    /\ cpc \in {"top", "gather"} /\ ~togo => l1 = <<>>

\* The counters are what the first sample read and what came since.
Matches ==
    /\ DOMAIN l1 = DOMAIN nics
    /\ \A k \in DOMAIN nics :
        /\ l1[k].device = nics[k]
        /\ rx[nics[k]] = (l1[k].receive + since[nics[k]]) % Wrap

RatesMatch(rates) ==
    \A k \in DOMAIN rates : rates[k].incoming = since[rates[k].name] % Wrap

\* As long as no interface came or went, the first sample, where there is one,
\* matches the counters, and the rates of the pass match what was received.
NetInv ==
    /\ NetType
    /\ FirstEmpty
    /\ "changed" \notin odd /\ l1 # <<>> => Matches
    /\ "changed" \notin odd /\ cpc = "package" => RatesMatch(bands)
    /\ "changed" \notin odd /\ cpc = "upload"  => RatesMatch(json.bands)

\* A first sample that was empty matches the counters once it is taken.
LEMMA FirstMatches ==
    ASSUME NetType, l1 = <<>>, TakeFirst, UNCHANGED <<nics, rx>>
    PROVE  /\ l1' \in Seq(NetStat) /\ since' \in [Interfaces -> Nat]
           /\ l1' # <<>> => Matches'
<1>1. CASE l1' = l1 /\ since' = since
    BY <1>1 DEF NetType
<1>2. CASE l1' = Sampled(l1) /\ since' = [i \in Interfaces |-> 0]
    <2>1. l1' = Reading /\ l1' \in Seq(NetStat)
        BY <1>2, SampledType DEF NetType
    <2>2. DOMAIN l1' = DOMAIN nics
        BY <2>1, ReadingType
    <2>3. ASSUME NEW k \in DOMAIN nics
          PROVE  /\ l1'[k].device = nics[k]
                 /\ rx[nics[k]] = (l1'[k].receive + since'[nics[k]]) % Wrap
        <3>1. /\ nics[k] \in Interfaces /\ l1'[k].device = nics[k]
              /\ l1'[k].receive = rx[nics[k]]
            BY <2>1, ReadingType
        <3>2. PICK r \in 0 .. Wrap - 1 : r = rx[nics[k]]
            BY <3>1 DEF NetType
        <3>3. since'[nics[k]] = 0
            BY <1>2, <3>1
        <3>4. r = Wrap * 0 + r /\ r + 0 = r
            BY CollectorAssumption
        <3>5. r % Wrap = r
            BY <3>4, RemainderUnique, CollectorAssumption
        <3> QED
            BY <3>1, <3>2, <3>3, <3>4, <3>5
    <2> QED
        BY <1>2, <2>1, <2>2, <2>3 DEF Matches
<1> QED
    BY <1>1, <1>2 DEF TakeFirst

\* Received bytes move a counter and the count since the sample together.
LEMMA TrafficMatches ==
    ASSUME NetType, NEW i \in Interfaces, Traffic(i)
    PROVE  /\ rx' \in [Interfaces -> 0 .. Wrap - 1] /\ since' \in [Interfaces -> Nat]
           /\ Matches => Matches'
<1>1. /\ rx' = [rx EXCEPT ![i] = (rx[i] + 1) % Wrap]
      /\ since' = [since EXCEPT ![i] = since[i] + 1]
      /\ UNCHANGED <<nics, l1>>
    BY DEF Traffic, Outside, app, lists
<1>2. rx[i] \in 0 .. Wrap - 1 /\ since[i] \in Nat
    BY DEF NetType
<1>3. PICK e \in Int : e = rx[i] + 1
    BY <1>2
<1>4. e % Wrap \in 0 .. Wrap - 1
    BY Division, CollectorAssumption
<1>5. rx' \in [Interfaces -> 0 .. Wrap - 1] /\ since' \in [Interfaces -> Nat]
    BY <1>1, <1>2, <1>3, <1>4 DEF NetType
<1>6. ASSUME Matches, NEW k \in DOMAIN nics
      PROVE  /\ l1[k].device = nics[k]
             /\ rx'[nics[k]] = (l1[k].receive + since'[nics[k]]) % Wrap
    <2>1. /\ nics[k] \in Interfaces
          /\ l1[k].device = nics[k] /\ rx[nics[k]] = (l1[k].receive + since[nics[k]]) % Wrap
        BY <1>6, ReadingType DEF Matches
    <2>2. CASE nics[k] # i
        BY <1>1, <2>1, <2>2 DEF NetType
    <2>3. CASE nics[k] = i
        <3>1. l1[k].receive \in Int
            <4>1. l1[k] \in NetStat
                BY <1>6, LenProperties, ElementOfSeq DEF NetType, Matches
            <4> QED
                BY <4>1, NetStatFacts
        <3>2. PICK n \in Int : n = l1[k].receive + since[i]
            BY <1>2, <3>1
        <3>3. PICK m \in Int : m = n + 1
            OBVIOUS
        <3>4. e = (n % Wrap) + 1
            BY <1>3, <2>1, <2>3, <3>2
        <3>5. e % Wrap = m % Wrap
            BY <3>3, <3>4, CountOneMore, CollectorAssumption
        <3>6. rx'[i] = e % Wrap /\ since'[i] = since[i] + 1
            BY <1>1, <1>3 DEF NetType
        <3>7. m = l1[k].receive + since'[i]
            BY <1>2, <3>1, <3>2, <3>3, <3>6
        <3> QED
            BY <2>1, <2>3, <3>5, <3>6, <3>7
    <2> QED
        BY <2>2, <2>3
<1> QED
    BY <1>1, <1>5, <1>6 DEF Matches

\* Interfaces come and go among those there are.
LEMMA ChangeType ==
    ASSUME NetType, NEW i \in Interfaces, Change(i)
    PROVE  nics' \in Seq(Interfaces) /\ rx' \in [Interfaces -> 0 .. Wrap - 1]
<1>1. CASE \E k \in DOMAIN nics : nics' = RemoveAt(nics, k) /\ UNCHANGED rx
    <2>1. PICK k \in DOMAIN nics : nics' = RemoveAt(nics, k)
        BY <1>1
    <2>2. nics \in Seq(Interfaces) /\ k \in 1 .. Len(nics) /\ Len(nics) \in Nat
        BY <2>1, LenProperties DEF NetType
    <2>3. \A j \in 1 .. Len(nics) : nics[j] \in Interfaces
        BY <2>2, ElementOfSeq
    <2>4. SubSeq(nics, 1, k - 1) \in Seq(Interfaces)
        <3>1. k - 1 \in Int /\ \A j \in 1 .. k - 1 : nics[j] \in Interfaces
            BY <2>2, <2>3
        <3> QED
            BY <3>1, SubSeqProperties
    <2>5. SubSeq(nics, k + 1, Len(nics)) \in Seq(Interfaces)
        <3>1. k + 1 \in Int /\ \A j \in k + 1 .. Len(nics) : nics[j] \in Interfaces
            BY <2>2, <2>3
        <3> QED
            BY <2>2, <3>1, SubSeqProperties
    <2>6. nics' \in Seq(Interfaces)
        BY <2>1, <2>4, <2>5, ConcatProperties DEF RemoveAt
    <2> QED
        BY <1>1, <2>6 DEF NetType
<1>2. CASE nics' = Append(nics, i) /\ rx' = [rx EXCEPT ![i] = 0]
    <2>1. 0 \in 0 .. Wrap - 1
        BY CollectorAssumption
    <2> QED
        BY <1>2, <2>1, AppendProperties DEF NetType
<1> QED
    BY <1>1, <1>2 DEF Change

\* The report is made of the rates and the load.
LEMMA ReportType ==
    ASSUME NetType, CpuType, cpc = "package"
    PROVE  LET report == JsonPackage(bands, Occupy(cpu1, cpu2))
           IN  report \in [bands : Seq(Band), load : Ratio] /\ report.bands = bands
<1>1. Occupy(cpu1, cpu2) \in Ratio
    BY OccupyType DEF CpuType
<1> QED
    BY <1>1 DEF JsonPackage, NetType

\* The second sample and the rates computed from it.
LEMMA SecondSample ==
    ASSUME NetInv, ListInv, Round2
    PROVE  /\ l2' \in Seq(NetStat) /\ bands' \in Seq(Band)
           /\ "changed" \notin odd => RatesMatch(bands)'
<1>1. /\ cpc = "round2" /\ l2 = <<>> /\ bands = <<>> /\ NetType
      /\ UNCHANGED <<l1, nics, rx, since>>
    BY DEF Round2, Goto, ListInv, NetInv, kernel
<1>2. l2' = <<>> \/ l2' = Reading
    BY <1>1, SampledType DEF Round2, NetType
<1>3. l2' \in Seq(NetStat) /\ l1 \in Seq(NetStat)
    BY <1>1, <1>2, ReadingType DEF NetType
<1>4. bands' = CalBandwidthStat(l1, l2')
    <2>1. bands' = <<>> \o CalBandwidthStat(l1, l2')
        BY <1>1 DEF Round2
    <2>2. CalBandwidthStat(l1, l2') \in Seq(Band)
        BY <1>3, BandwidthType
    <2> QED
        BY <2>1, <2>2, ConcatEmptySeq
<1>5. /\ bands' \in Seq(Band)
      /\ \A k \in DOMAIN bands' :
            /\ k \in DOMAIN l1 /\ k \in DOMAIN l2'
            /\ bands'[k].name = l1[k].device
            /\ bands'[k].incoming = (l2'[k].receive - l1[k].receive) % Wrap
    BY <1>3, <1>4, BandwidthType
<1>6. ASSUME "changed" \notin odd, NEW k \in DOMAIN bands'
      PROVE  bands'[k].incoming = since'[bands'[k].name] % Wrap
    <2>1. k \in DOMAIN l1 /\ k \in DOMAIN l2'
        BY <1>5
    <2>2. l1 # <<>> /\ l2' # <<>>
        BY <2>1
    <2>3. Matches /\ l2' = Reading
        BY <1>2, <1>6, <2>2 DEF NetInv
    <2>4. /\ k \in DOMAIN nics /\ l1[k].device = nics[k] /\ nics[k] \in Interfaces
          /\ rx[nics[k]] = (l1[k].receive + since[nics[k]]) % Wrap
          /\ l2'[k].receive = rx[nics[k]]
        BY <1>1, <2>1, <2>3, ReadingType DEF Matches
    <2>5. l1[k].receive \in 0 .. Wrap - 1
        <3>1. l1[k] \in NetStat
            BY <1>3, <2>1, LenProperties, ElementOfSeq
        <3> QED
            BY <3>1, NetStatFacts
    <2>6. PICK r \in 0 .. Wrap - 1 : r = l1[k].receive
        BY <2>5
    <2>7. PICK n \in Int : n = since[nics[k]]
        BY <1>1, <2>4 DEF NetType
    <2>8. PICK m \in Int : m = r + n
        OBVIOUS
    <2>9. m % Wrap \in Int
        BY Division, CollectorAssumption
    <2>10. PICK e \in Int : e = (m % Wrap) - r
        BY <2>9
    <2>11. e % Wrap = n % Wrap
        <3>1. Between(r, n, m, e)
            BY <2>8, <2>10 DEF Between
        <3> QED
            BY <3>1, Difference
    <2>12. bands'[k].incoming = e % Wrap /\ bands'[k].name = nics[k]
        BY <1>5, <2>4, <2>6, <2>7, <2>8, <2>10
    <2> QED
        BY <1>1, <2>7, <2>11, <2>12
<1> QED
    BY <1>3, <1>5, <1>6 DEF RatesMatch

\* Every step keeps the samples and the rates.
LEMMA NetStep ==
    ASSUME NetInv, ListInv, FlagType, CpuType, [Next]_vars
    PROVE  NetInv'
<1> USE DEF NetInv
<1>0. ASSUME UNCHANGED <<l1, l2, bands, json, nics, rx, since>>,
             "changed" \in odd => "changed" \in odd', FirstEmpty',
             cpc' \notin {"package", "upload"}
      PROVE  NetInv'
    BY <1>0 DEF NetType, Matches
<1>1. CASE Start
    BY <1>0, <1>1 DEF Start, Goto, lists, FirstEmpty
<1>2. CASE Top
    BY <1>0, <1>2 DEF Top, Goto, lists, kernel, FirstEmpty
<1>3. CASE Gather
    BY <1>0, <1>3 DEF Gather, Goto, kernel, FirstEmpty, FlagType
<1>4. CASE Round1
    <2>1. /\ l1 = <<>> /\ cpc' = "round2" /\ TakeFirst
          /\ UNCHANGED <<l2, bands, json, nics, rx>>
        BY <1>4 DEF Round1, Goto, kernel, FirstEmpty
    <2>2. /\ l1' \in Seq(NetStat) /\ since' \in [Interfaces -> Nat]
          /\ l1' # <<>> => Matches'
        BY <2>1, FirstMatches
    <2> QED
        BY <2>1, <2>2 DEF NetType, FirstEmpty
<1>5. CASE Round2
    <2>1. /\ cpc' = "package" /\ UNCHANGED <<l1, json, nics, rx, since>>
          /\ "changed" \in odd => "changed" \in odd'
        BY <1>5 DEF Round2, Goto, kernel
    <2>2. /\ l2' \in Seq(NetStat) /\ bands' \in Seq(Band)
          /\ "changed" \notin odd => RatesMatch(bands)'
        BY <1>5, SecondSample
    <2> QED
        BY <2>1, <2>2 DEF NetType, FirstEmpty, Matches
<1>6. CASE Package
    <2>1. /\ cpc = "package" /\ cpc' = "upload"
          /\ l1' = <<>> /\ l2' = <<>> /\ bands' = <<>>
          /\ json' = JsonPackage(bands, Occupy(cpu1, cpu2))
          /\ UNCHANGED <<nics, rx, since, odd>>
        BY <1>6 DEF Package, Goto, kernel
    <2>2. json' \in [bands : Seq(Band), load : Ratio] /\ json'.bands = bands
        BY <2>1, ReportType
    <2> QED
        BY <2>1, <2>2 DEF NetType, FirstEmpty, RatesMatch
<1>7. CASE Upload
    <2>1. /\ cpc = "upload" /\ cpc' \in {"again", "request"} /\ json' = None
          /\ UNCHANGED <<l1, l2, bands, nics, rx, since>> /\ l1 = <<>>
        BY <1>7 DEF Upload, Goto, lists, kernel, FirstEmpty
    <2> QED
        BY <2>1 DEF NetType, FirstEmpty
<1>8. ASSUME NEW c \in Chunks, Receive(c)
      PROVE  NetInv'
    BY <1>0, <1>8 DEF Receive, lists, kernel, FirstEmpty
<1>9. CASE Answer
    BY <1>0, <1>9 DEF Answer, Goto, lists, kernel, FirstEmpty
<1>10. CASE Parse
    BY <1>0, <1>10 DEF Parse, Goto, lists, kernel, FirstEmpty
<1>11. CASE Again
    <2>1. /\ l1 = <<>> /\ cpc' \in {"clean", "top"} /\ TakeFirst /\ togo'
          /\ UNCHANGED <<l2, bands, json, nics, rx>>
        BY <1>11 DEF Again, Goto, kernel, FirstEmpty
    <2>2. /\ l1' \in Seq(NetStat) /\ since' \in [Interfaces -> Nat]
          /\ l1' # <<>> => Matches'
        BY <2>1, FirstMatches
    <2> QED
        BY <2>1, <2>2 DEF NetType, FirstEmpty
<1>12. CASE CleanUp
    <2>1. /\ cpc' = "end" /\ l1' = <<>> /\ UNCHANGED <<l2, bands, json, nics, rx, since>>
        BY <1>12 DEF CleanUp, Goto, kernel
    <2> QED
        BY <2>1 DEF NetType, FirstEmpty
<1>13. CASE World
    <2>1. UNCHANGED <<cpc, togo, l1, l2, bands, json>> /\ cpc \notin {"package", "upload"}
        BY <1>13, WorldKeepsApp
           DEF app, lists, World, Traffic, Tick, Change, Signal, BooterDies, Outside
    <2>2. CASE UNCHANGED <<nics, rx, since>> /\ ("changed" \in odd' <=> "changed" \in odd)
        BY <2>1, <2>2 DEF NetType, FirstEmpty, Matches
    <2>3. ASSUME NEW i \in Interfaces, Traffic(i)
          PROVE  NetInv'
        <3>1. UNCHANGED <<nics, odd>>
            BY <2>3 DEF Traffic
        <3>2. /\ rx' \in [Interfaces -> 0 .. Wrap - 1] /\ since' \in [Interfaces -> Nat]
              /\ Matches => Matches'
            BY <2>3, TrafficMatches
        <3> QED
            BY <2>1, <3>1, <3>2 DEF NetType, FirstEmpty
    <2>4. ASSUME NEW i \in Interfaces, Change(i)
          PROVE  NetInv'
        <3>1. odd' = odd \cup {"changed"} /\ UNCHANGED since
            BY <2>4 DEF Change
        <3>2. nics' \in Seq(Interfaces) /\ rx' \in [Interfaces -> 0 .. Wrap - 1]
            BY <2>4, ChangeType
        <3> QED
            BY <2>1, <3>1, <3>2 DEF NetType, FirstEmpty
    <2>5. ASSUME NEW use \in {"busy", "idle"}, Tick(use)
          PROVE  UNCHANGED <<nics, rx, since>> /\ ("changed" \in odd' <=> "changed" \in odd)
        BY <2>5 DEF Tick
    <2>6. (\E s \in Signals : Signal(s)) \/ BooterDies => UNCHANGED <<nics, rx, since, odd>>
        BY DEF Signal, BooterDies
    <2> QED
        BY <1>13, <2>2, <2>3, <2>4, <2>5, <2>6 DEF World
<1>14. CASE UNCHANGED vars
    <2>1. UNCHANGED <<cpc, togo, l1, l2, bands, json, nics, rx, since, odd>>
        BY <1>14 DEF vars, app, lists, kernel
    <2> QED
        BY <2>1 DEF NetType, FirstEmpty, Matches, RatesMatch
<1> QED
    BY <1>1, <1>2, <1>3, <1>4, <1>5, <1>6, <1>7, <1>8, <1>9, <1>10, <1>11, <1>12,
       <1>13, <1>14 DEF Next, CollectorStep

\* At first the interfaces are listed in some order.
LEMMA NetInit ==
    ASSUME Init
    PROVE  NetInv
<1>1. nics \in Seq(Interfaces)
    <2> DEFINE N == Cardinality(Interfaces)
    <2>1. N \in Nat /\ ExistsBijection(1 .. N, Interfaces)
        BY FS_CardinalityType, CollectorAssumption
    <2>2. \E f \in [1 .. N -> Interfaces] : IsInjective(f)
        <3>1. PICK f \in Bijection(1 .. N, Interfaces) : TRUE
            BY <2>1, Fun_ExistsBij
        <3> QED
            BY <3>1 DEF Bijection, Injection, IsInjective
    <2>3. nics \in [1 .. N -> Interfaces]
        BY <2>2 DEF Init, SetToSeq
    <2> QED
        BY <2>1, <2>3
<1>2. rx \in [Interfaces -> 0 .. Wrap - 1] /\ since \in [Interfaces -> Nat]
    BY CollectorAssumption DEF Init
<1> QED
    BY <1>1, <1>2 DEF Init, NetInv, NetType, FirstEmpty

\* The rate reported for an interface is what it received between the samples,
\* for any interfaces, counter widths and traffic: the property RateIsTraffic of
\* _cal_bandwidth_stat.
THEOREM RateIsAlwaysTraffic == Spec => []RateIsTraffic
<1> DEFINE Inv == FlagType /\ LoadInv /\ ListInv /\ NetInv
<1>1. Init => Inv
    BY FlagInit, NetInit DEF Init, ListInv
<1>2. Inv /\ [Next]_vars => Inv'
    BY FlagStep, LoadStep, ListStep, NetStep DEF LoadInv
<1>3. Inv => RateIsTraffic
    BY DEF NetInv, RatesMatch, RateIsTraffic
<1> QED
    BY <1>1, <1>2, <1>3, PTL DEF Spec

\* The types of every variable of the collector and of the kernel's counters:
\* the type invariant TypeOK, of sarah_collector_application and what it calls.
THEOREM CollectorTyped == Spec => []TypeOK
<1> DEFINE Inv == FlagType /\ LoadInv /\ ListInv /\ NetInv /\ AnswerInv
<1>1. Init => Inv
    BY FlagInit, NetInit, BufferInit DEF Init, ListInv
<1>2. Inv /\ [Next]_vars => Inv'
    BY FlagStep, LoadStep, ListStep, NetStep, BufferSteps DEF LoadInv
<1>3. Inv => TypeOK
    BY DEF FlagType, Budget, LoadInv, CpuType, NetInv, NetType, AnswerInv, TypeOK
<1> QED
    BY <1>1, <1>2, <1>3, PTL DEF Spec
=============================================================================
