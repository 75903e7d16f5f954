------------------------------ MODULE WaveSeries ------------------------------
(***************************************************************************)
(* The pure part of wave.js, the waveform window `dewfpga wave` opens: what  *)
(* it keeps of the changes of one signal, how it searches them, and how they *)
(* become blocks on the canvas.  A value is a sequence of bits, the most     *)
(* significant first; a series is a sequence of changes [t, v].              *)
(***************************************************************************)
EXTENDS Filtered, FiniteSets

Bits == {"0", "1", "x", "z"}
TimedValue == [t : Nat, v : Seq(Bits)]
Series == Seq(TimedValue)

\* One change per time, in order.
Growing(s) == \A i, j \in DOMAIN s : i < j => s[i].t < s[j].t

Later(a, b)   == IF a > b THEN a ELSE b
Earlier(a, b) == IF a < b THEN a ELSE b

\* Left-extended the way the VCD standard says, or cut to the width.
Extended(v, w) ==
  IF Len(v) >= w THEN SubSeq(v, Len(v) - w + 1, Len(v))
  ELSE [i \in 1..(w - Len(v)) |-> IF Head(v) \in {"x", "z"} THEN Head(v) ELSE "0"] \o v

\* A value at time t: one change per time, and none that changes nothing.
PushKeepsEqual(s, t, v) ==  \* mutant: a later value of the same time is not undone
  IF s # <<>> /\ s[Len(s)].t = t THEN s
  ELSE IF s # <<>> /\ s[Len(s)].v = v THEN s
  ELSE Append(s, [t |-> t, v |-> v])
Push(s, t, v) ==
  LET k == Len(s) IN
  IF k > 0 /\ s[k].t = t
  THEN IF k > 1 /\ s[k - 1].v = v THEN SubSeq(s, 1, k - 1) ELSE [s EXCEPT ![k].v = v]
  ELSE IF k > 0 /\ s[k].v = v THEN s
  ELSE Append(s, [t |-> t, v |-> v])

\* The last change at or before t by halving, 0 when there is none; each round
\* leaves fewer changes to look at.
IndexAt(s, t) ==
  LET look[n \in 0..Len(s)] ==
        IF n = 0 THEN [lo |-> 1, hi |-> Len(s), at |-> 0]
        ELSE LET l == look[n - 1]  mid == (l.lo + l.hi) \div 2 IN
             IF l.lo > l.hi THEN l
             ELSE IF s[mid].t <= t THEN [lo |-> mid + 1, hi |-> l.hi, at |-> mid]
             ELSE [lo |-> l.lo, hi |-> mid - 1, at |-> l.at]
  IN look[Len(s)].at

NoValue == <<>>
ValueAt(s, t) == IF IndexAt(s, t) = 0 THEN NoValue ELSE s[IndexAt(s, t)].v

\* One bit of an expanded bus: the times that bit changes.
BitSeries(s, k) ==
  LET upTo[i \in 0..Len(s)] ==
        IF i = 0 THEN <<>>
        ELSE LET done == upTo[i - 1] bit == <<s[i].v[k]>> IN
             IF done # <<>> /\ done[Len(done)].v = bit THEN done
             ELSE Append(done, [t |-> s[i].t, v |-> bit])
  IN upTo[Len(s)]

\* What known bits say, from the left.
Number(v) ==
  LET upTo[i \in 0..Len(v)] == IF i = 0 THEN 0 ELSE 2 * upTo[i - 1] + (IF v[i] = "1" THEN 1 ELSE 0)
  IN upTo[Len(v)]
TwoTo(w) == LET upTo[i \in 0..w] == IF i = 0 THEN 1 ELSE 2 * upTo[i - 1] IN upTo[w]

\* How a value is drawn.
Floats(v)  == \A i \in DOMAIN v : v[i] = "z"
Unknown(v) == \E i \in DOMAIN v : v[i] \in {"x", "z"}
Level(v) ==
  IF v = <<"1">> THEN "high" ELSE IF v = <<"0">> THEN "low"
  ELSE IF Floats(v) THEN "float" ELSE IF Unknown(v) THEN "unknown" ELSE "value"

\* The text of a value in a radix of 2^size, digit by digit from the right: X for
\* a digit with an unknown bit, Z for a floating one; and in decimal.
Digits == <<"0", "1", "2", "3", "4", "5", "6", "7", "8", "9", "a", "b", "c", "d", "e", "f">>
Digit(p)   == IF Floats(p) THEN "Z" ELSE IF Unknown(p) THEN "X" ELSE Digits[Number(p) + 1]
Groups(v, size) ==
  LET n == (Len(v) + size - 1) \div size
      part(k) == SubSeq(v, Later(1, Len(v) - (n - k + 1) * size + 1), Len(v) - (n - k) * size)
  IN [k \in 1..n |-> Digit(part(k))]
Decimal(n) ==
  LET of[m \in Nat] == IF m < 10 THEN <<Digits[m + 1]>> ELSE Append(of[m \div 10], Digits[(m % 10) + 1])
  IN IF n < 0 THEN <<"-">> \o of[-n] ELSE of[n]
Unsigned(v) == IF Floats(v) THEN <<"Z">> ELSE IF Unknown(v) THEN <<"X">> ELSE Decimal(Number(v))
Signed(v) ==
  IF Unknown(v) \/ Floats(v) THEN Unsigned(v)
  ELSE Decimal(Number(v) - IF Head(v) = "1" THEN TwoTo(Len(v)) ELSE 0)

\* The blocks drawn for a series in a window of `width` pixels from t0 on, `n`
\* ticks each: changes within `dense` pixels become one block.  drawBit clips
\* the left edge of a block to two pixels outside the window, drawBus does not.
BlocksSkip(s, end, t0, n, width, dense, clip) ==  \* mutant: drawing goes on after the dense pixels
  LET draw[k \in 1..(Len(s) + 1)] ==
        IF k > Len(s) \/ s[k].t > t0 + n * (width + 2) THEN {}
        ELSE LET xa == IF clip THEN Later(t0 - 2 * n, s[k].t) ELSE s[k].t
                 xb == IF k < Len(s) THEN s[k + 1].t ELSE end
             IN IF xb - xa < dense * n /\ k < Len(s)
                THEN {[from |-> xa, to |-> xa + n, shows |-> "dense"]}
                       \cup draw[Later(IndexAt(s, xa + dense * n), k) + 1]
                ELSE {[from |-> xa, to |-> xb, shows |-> Level(s[k].v)]} \cup draw[k + 1]
  IN draw[Later(1, IndexAt(s, t0))]

Blocks(s, end, t0, n, width, dense, clip) ==
  LET draw[k \in 1..(Len(s) + 1)] ==
        LET xa == IF clip THEN Later(t0 - 2 * n, s[k].t) ELSE s[k].t
            xb == IF k < Len(s) THEN s[k + 1].t ELSE end
            j  == Later(IndexAt(s, xa + dense * n), k + 1)
            xj == IF j <= Len(s) THEN s[j].t ELSE end
        IN IF k > Len(s) \/ xa > t0 + n * (width + 2) THEN {}
           ELSE IF xb - xa < dense * n /\ k < Len(s)
           THEN {[from |-> xa, to |-> Later(xa + n, xj), shows |-> "dense"]} \cup draw[j]
           ELSE {[from |-> xa, to |-> IF clip THEN Earlier(xb, t0 + n * (width + 2)) ELSE xb,
                  shows |-> Level(s[k].v)]} \cup draw[k + 1]
  IN draw[Later(1, IndexAt(s, t0))]
=============================================================================
