---------------------------- MODULE FftReference ----------------------------
(***************************************************************************)
(* The recursive FFT the testbench compares the engine with                *)
(* (verif/tb/dpi/fft.c, called by syn_calc_fft), and the transform that    *)
(* the engine's stages amount to.  A complex value that is computed is a   *)
(* sum of inputs, each times a root of unity: a function from the inputs   *)
(* in the sum to the exponents of w = exp(-2 pi i / size).                 *)
(***************************************************************************)
EXTENDS Integers, Sequences, SequencesExt, FiniteSetsExt

CONSTANT MaxLg   \* log2 of the largest transform, 7 on the board

VARIABLE rf      \* a size (its log2), its transform and its inverse transform

Size(lg) == 2 ^ lg
NoValue == <<>>  \* what is in memory before it is written

\* Sum of two values, which have no input in common in any of these sums.
Plus(a, b) == IF a = NoValue \/ b = NoValue \/ DOMAIN a \cap DOMAIN b # {} THEN NoValue
              ELSE [j \in DOMAIN a \cup DOMAIN b |-> IF j \in DOMAIN a THEN a[j] ELSE b[j]]
Turned(a, e, size) == [j \in DOMAIN a |-> (a[j] + e) % size]
Minus(a, b, size) == Plus(a, Turned(b, size \div 2, size))
Input(i) == [j \in {i} |-> 0]

\* tmp0, tmp1: a value times cos - i sin of 2 pi k / N.
Tmp(v, k, N, size) == Turned(v, k * (size \div N), size)

Loop(n) == [k \in 1 .. n |-> k - 1]
OtherBuffer(d) == IF d = "X" THEN "XX" ELSE "X"

RECURSIVE fft_rec(_, _, _, _, _, _, _)

\* The transform of the N inputs offset, offset + delta, ... of x goes to the
\* same places of buffer d of m, with the other buffer for the halves.
fft_rec(N, offset, delta, x, m, d, size) ==
    LET N2   == N \div 2
        e    == OtherBuffer(d)
        even == fft_rec(N2, offset, 2 * delta, x, m, e, size)
        both == fft_rec(N2, offset + delta, 2 * delta, x, even, e, size)
        Join(buf, k) ==
            LET k00 == offset + k * delta      k01 == k00 + N2 * delta
                k10 == offset + 2 * k * delta  k11 == k10 + delta
                tmp == Tmp(both[e][k11], k, N, size)
            IN  [buf EXCEPT ![k01] = Minus(both[e][k10], tmp, size), ![k00] = Plus(both[e][k10], tmp)]
        k01 == offset + delta
    IN  IF N # 2 THEN [both EXCEPT ![d] = FoldLeft(Join, both[d], Loop(N2))]
        ELSE [m EXCEPT ![d] = [@ EXCEPT ![k01] = Minus(x[offset], x[k01], size),
                                        ![offset] = Plus(x[offset], x[k01])]]

fft(N, x) == LET blank == [i \in 0 .. N - 1 |-> NoValue]
             IN  fft_rec(N, 0, 1, x, [X |-> blank, XX |-> blank], "X", N).X

\* Indices from which ifft takes its results once fft has run on the spectrum.
From_same(i, N) == i
From(i, N) == IF i \in {0, N \div 2} THEN i ELSE N - i

\* The sums before they are divided by N.
ifft(N, X) == LET x == fft(N, X) IN [i \in 0 .. N - 1 |-> x[From(i, N)]]

Inputs(N) == [i \in 0 .. N - 1 |-> Input(i)]

-----------------------------------------------------------------------------
(* The engine's stages: samples in bit-reversed order, then butterflies of *)
(* positions 2^k apart with the factor at address 2^k + position.          *)

Reversed(i, lg) == SumSet({2 ^ (lg - 1 - b) : b \in {c \in 0 .. lg - 1 : (i \div 2 ^ c) % 2 = 1}})

\* Mutant: the RAM holds the factors of the whole circle, not of half of it.
TwiddleAt_full(addr, k, size) == ((addr - 2 ^ k) * (size \div 2 ^ k)) % size

\* The twiddle factor at an address of the RAM, as an exponent.
TwiddleAt(addr, k, size) == (addr - 2 ^ k) * (size \div 2 ^ (k + 1))

Stage(s, k, size) ==
    [i \in DOMAIN s |->
        LET low == IF (i \div 2 ^ k) % 2 = 0 THEN i ELSE i - 2 ^ k
            b   == Turned(s[low + 2 ^ k], TwiddleAt(2 ^ k + (low % 2 ^ k), k, size), size)
        IN  IF i = low THEN Plus(s[low], b) ELSE Minus(s[low], b, size)]

Engine(lg) == LET Step(s, k) == Stage(s, k, Size(lg))
              IN  FoldLeft(Step, [i \in 0 .. Size(lg) - 1 |-> Input(Reversed(i, lg))], Loop(lg))

-----------------------------------------------------------------------------
Transforms(lg) == [lg |-> lg, X |-> fft(Size(lg), Inputs(Size(lg))), x |-> ifft(Size(lg), Inputs(Size(lg))),
                   engine |-> Engine(lg)]

RefInit == rf = Transforms(1)
RefNext == rf.lg < MaxLg /\ rf' = Transforms(rf.lg + 1)

\* The definition of the discrete Fourier transform.
Dft(size) == [i \in 0 .. size - 1 |-> [j \in 0 .. size - 1 |-> (i * j) % size]]
InverseDft(size) == [i \in 0 .. size - 1 |-> [j \in 0 .. size - 1 |-> (size - ((i * j) % size)) % size]]

\* The testbench's recursion computes the transform and its inverse for every size:
\* the two buffers it hands down in turns never overwrite a half that is still
\* needed (fft_rec, ifft).
ReferenceIsDft == rf.X = Dft(Size(rf.lg)) /\ rf.x = InverseDft(Size(rf.lg))

\* What the engine's stages compute, with its sample order and the layout of its
\* twiddle RAM, is bin for bin what the testbench compares it with.
EngineMatchesReference == rf.engine = rf.X
=============================================================================
