----------------------------- MODULE MCDevices ------------------------------
EXTENDS Devices, TLC

W(b, d) == [write |-> TRUE, block |-> b, data |-> d]
R(b) == [write |-> FALSE, block |-> b, data |-> 0]
Ask(n) == [n |-> n, ok |-> n]
Unmapped(n) == [n |-> n, ok |-> 0]

\* What a block holds at first is neither what another does nor what is in a buffer.
MCMedia == [b \in 1 .. 4 |-> 20 + b]

NoDisk == <<<<>>, <<>>, <<>>, <<>>>>
Console(k, r1, r2, w1, w2) ==
  [kill |-> {}, keys |-> k, reads |-> ("r1" :> r1 @@ "r2" :> r2), prints |-> ("k1" :> <<>>),
   writes |-> ("w1" :> [text |-> w1, ok |-> Len(w1)] @@ "w2" :> [text |-> w2, ok |-> Len(w2)])]
Quiet == Console(<<>>, <<>>, <<>>, <<>>, <<>>)

\* One process that goes on until the indices of the rings have wrapped around: it
\* writes a block, reads another one into the same buffer and the first one back.
Long == [i \in 1 .. 17 |-> <<W(1, i), R(3), R(1)>>[((i - 1) % 3) + 1]]

\* Four processes, two of them without descriptors at a time; a long run; and disk
\* and console interrupts at the same time.
DiskWork ==
  {[disk |-> <<<<W(1, 1)>>, <<W(2, 2)>>, <<R(3)>>, <<R(4)>>>>, console |-> Quiet],
   [disk |-> <<Long, <<R(2)>>, <<>>, <<>>>>, console |-> Quiet],
   [disk |-> <<<<W(1, 1), R(2), R(1)>>, <<>>, <<>>, <<>>>>,
    console |-> Console(<<"a">>, <<>>, <<>>, <<"x">>, <<>>)]}

\* All ways to type three keys and then a newline, read in small pieces.
Typing ==
  {[disk |-> NoDisk,
    console |-> Console(Append(k, "\r"), <<Ask(2), Ask(3), Ask(1)>>, <<>>, <<>>, <<>>)] :
      k \in [1 .. 3 -> KeySet]}

\* More output than the ring holds, from two processes and with an echo; an address
\* that is not mapped; and messages of the kernel with both.
Writing ==
  {[disk |-> NoDisk, console |-> Console(<<>>, <<>>, <<>>, <<"x", "y", "z">>, <<"u">>)],
   [disk |-> NoDisk, console |-> Console(<<"a">>, <<>>, <<>>, <<"x", "y", "z">>, <<>>)],
   [disk |-> NoDisk, console |-> [Console(<<>>, <<>>, <<>>, <<"x", "y">>, <<"u">>) EXCEPT !.writes["w1"].ok = 1]]}

Printing ==
  {[disk |-> NoDisk,
    console |-> [Console(<<k>>, <<>>, <<>>, <<"x">>, <<>>) EXCEPT !.prints["k1"] = m]] :
      k \in {"a", "^P"}, m \in {<<<<"k">>, <<"l">>>>, <<<<"k", "l">>>>}}

Reading ==
  {[disk |-> NoDisk,
    console |-> [Console(k, <<Ask(2)>>, <<Unmapped(1), Ask(2)>>, <<>>, <<>>) EXCEPT !.kill = v]] :
      v \in {{}, {"r2"}}, k \in {<<"a", "\n", "^P", "^D">>, <<"a", "^U", "a", "\n">>}}

MCWorkloads == DiskWork \cup Typing \cup Writing \cup Printing \cup Reading
=============================================================================
