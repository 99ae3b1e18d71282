------------------------------ MODULE GuestClock ------------------------------
(***************************************************************************)
(* src/symtab_time.cpp: the clocks the game reads, which run faster than    *)
(* the host's when a scale is set, and the deadlines it hands back to       *)
(* sem_timedwait and pthread_cond_timedwait (src/symtab_sem.cpp,            *)
(* src/symtab_pthread.cpp).                                                 *)
(*                                                                         *)
(* Pure functions, and theorems about them.  An instant is a host timespec. *)
(* Each conversion reads the monotonic clock again for the offset, so it    *)
(* takes the instant and, apart from it, how long the process had run when  *)
(* the offset was read.  The host's 64-bit sums do not overflow here.       *)
(***************************************************************************)
EXTENDS Integers, TLAPS

G == 1000000000

Timespec == {v \in [sec : Int, nsec : Nat] : v.nsec < G}
Ns(v) == v.sec * G + v.nsec

\* C's division cuts towards zero, and the remainder has the dividend's sign.
Quot(a) == IF a >= 0 THEN a \div G ELSE -((-a) \div G)
Rem(a) == a - G * Quot(a)

\* shift_timespec
Shift(v, delta) ==
  LET total == v.nsec + delta
      low == Rem(total) < 0
  IN  IF delta = 0 THEN v
      ELSE [sec  |-> v.sec + Quot(total) - (IF low THEN 1 ELSE 0),
            nsec |-> Rem(total) + (IF low THEN G ELSE 0)]

\* (int64_t)((double)elapsed * (scale - 1.0)): the product and the cut round, and
\* neither changes the order of two values.
Gains == {g \in [Nat -> Nat] : \A a, b \in Nat : a <= b => g[a] <= g[b]}

Offset(gain, elapsed) == IF elapsed <= 0 THEN 0 ELSE gain[elapsed]

Forward(v, gain, elapsed) == Shift(v, Offset(gain, elapsed))
Backward(v, gain, elapsed) == Shift(v, -Offset(gain, elapsed))

\* int32_t
Narrow(x) == ((x + 2147483648) % 4294967296) - 2147483648

\* clock_gettime of a clock that measures elapsed time; gettimeofday has this too,
\* in microseconds
ClockGettime(v, gain, elapsed) ==
  LET now == Forward(v, gain, elapsed) IN [sec |-> Narrow(now.sec), nsec |-> now.nsec]

-----------------------------------------------------------------------------
\* shift_timespec adds, whatever the signs, and leaves a timespec the host takes: a
\* negative remainder is carried.
THEOREM ShiftAdds ==
  ASSUME NEW v \in Timespec, NEW delta \in Int
  PROVE  Shift(v, delta) \in Timespec /\ Ns(Shift(v, delta)) = Ns(v) + delta
<1> DEFINE total == v.nsec + delta
           low == Rem(total) < 0
<1>0. v.sec \in Int /\ v.nsec \in Nat /\ v.nsec < G /\ total \in Int
  BY SMT DEF Timespec, G
<1>1. Quot(total) \in Int /\ Rem(total) \in Int /\ -G < Rem(total) /\ Rem(total) < G
      /\ total = G * Quot(total) + Rem(total)
  BY <1>0, SMT DEF Quot, Rem, G
<1>2. CASE delta = 0
  BY <1>0, <1>2, SMT DEF Shift, Ns, G
<1>3. CASE delta # 0
  <2>1. Shift(v, delta).sec = v.sec + Quot(total) - (IF low THEN 1 ELSE 0)
        /\ Shift(v, delta).nsec = Rem(total) + (IF low THEN G ELSE 0)
    BY <1>3 DEF Shift
  <2>2. Shift(v, delta).sec \in Int /\ Shift(v, delta).nsec \in Nat /\ Shift(v, delta).nsec < G
    BY <1>0, <1>1, <2>1, SMT DEF G
  <2>3. Shift(v, delta) \in Timespec
    BY <1>0, <1>1, <1>3, <2>1, <2>2 DEF Shift, Timespec
  <2>4. Ns(Shift(v, delta)) = Ns(v) + delta
    BY <1>0, <1>1, <2>1, SMT DEF Ns, G
  <2> QED BY <2>3, <2>4
<1> QED BY <1>2, <1>3

LEMMA OffsetGrows ==
  ASSUME NEW gain \in Gains, NEW e \in Int, NEW f \in Int, e <= f
  PROVE  /\ Offset(gain, e) \in Nat /\ Offset(gain, f) \in Nat
         /\ Offset(gain, e) <= Offset(gain, f)
<1>1. gain \in [Nat -> Nat] /\ \A a, b \in Nat : a <= b => gain[a] <= gain[b]
  BY DEF Gains
<1>2. (e > 0 => e \in Nat) /\ (f > 0 => f \in Nat)
  OBVIOUS
<1> QED BY <1>1, <1>2 DEF Offset

\* Two readings that do not overlap are in order, although each samples the clock
\* twice and the scale stretches what lies between.
THEOREM ReadsNeverGoBack ==
  ASSUME NEW gain \in Gains, NEW v \in Timespec, NEW w \in Timespec, Ns(v) <= Ns(w),
         NEW e \in Int, NEW f \in Int, e <= f
  PROVE  Ns(Forward(v, gain, e)) <= Ns(Forward(w, gain, f))
<1>1. /\ Ns(Forward(v, gain, e)) = Ns(v) + Offset(gain, e)
      /\ Ns(Forward(w, gain, f)) = Ns(w) + Offset(gain, f)
  BY OffsetGrows, ShiftAdds DEF Forward
<1>2. Ns(v) \in Int /\ Ns(w) \in Int
  BY SMT DEF Ns, Timespec, G
<1> QED BY <1>1, <1>2, OffsetGrows

\* A wait of d nanoseconds, its deadline built from a scaled clock, lasts d less what
\* the offset has grown since: it may end early and is never longer than was asked,
\* however long the process has run.
THEOREM WaitNeverLong ==
  ASSUME NEW gain \in Gains, NEW v \in Timespec, NEW deadline \in Timespec, NEW d \in Int,
         NEW e \in Int, NEW f \in Int, e <= f,
         Ns(deadline) = Ns(Forward(v, gain, e)) + d
  PROVE  LET lasts == Ns(Backward(deadline, gain, f)) - Ns(v)
         IN  lasts = d - (Offset(gain, f) - Offset(gain, e)) /\ lasts <= d
<1>1. Ns(Forward(v, gain, e)) = Ns(v) + Offset(gain, e)
  BY OffsetGrows, ShiftAdds DEF Forward
<1>2. Ns(Backward(deadline, gain, f)) = Ns(deadline) - Offset(gain, f)
  <2>1. -Offset(gain, f) \in Int /\ Offset(gain, f) \in Int /\ Ns(deadline) \in Int
    BY OffsetGrows, SMT DEF Ns, Timespec, G
  <2>2. Ns(Shift(deadline, -Offset(gain, f))) = Ns(deadline) + (-Offset(gain, f))
    BY <2>1, ShiftAdds
  <2> QED BY <2>1, <2>2 DEF Backward
<1>3. Ns(v) \in Int /\ Ns(deadline) \in Int
  BY SMT DEF Ns, Timespec, G
<1> QED BY <1>1, <1>2, <1>3, OffsetGrows

\* CLOCK_REALTIME is not scaled, but a deadline built from it is shifted all the same:
\* the wait is short by the whole offset.
THEOREM RealtimeWaitIsShort ==
  ASSUME NEW gain \in Gains, NEW v \in Timespec, NEW deadline \in Timespec, NEW d \in Int,
         NEW f \in Int, Ns(deadline) = Ns(v) + d
  PROVE  Ns(Backward(deadline, gain, f)) - Ns(v) = d - Offset(gain, f)
<1>1. -Offset(gain, f) \in Int /\ Offset(gain, f) \in Int
  BY OffsetGrows
<1>2. Ns(Shift(deadline, -Offset(gain, f))) = Ns(deadline) + (-Offset(gain, f))
  BY <1>1, ShiftAdds
<1>3. Ns(v) \in Int
  BY SMT DEF Ns, Timespec, G
<1> QED BY <1>1, <1>2, <1>3 DEF Backward

\* What a difference of two 32-bit words keeps.
LEMMA NarrowDifference ==
  ASSUME NEW a \in Int, NEW b \in Int, a <= b, b - a < 2147483648
  PROVE  Narrow(Narrow(b) - Narrow(a)) = b - a
<1> DEFINE qa == (a + 2147483648) \div 4294967296
           qb == (b + 2147483648) \div 4294967296
<1>1. qa \in Int /\ qb \in Int
  BY SMT
<1>2. Narrow(a) = a - 4294967296 * qa /\ Narrow(b) = b - 4294967296 * qb
  BY <1>1, SMT DEF Narrow
<1> DEFINE x == Narrow(b) - Narrow(a)
           k == qa - qb
<1>3. k \in Int /\ x = (b - a) + 4294967296 * k
  BY <1>1, <1>2, SMT
<1>4. (x + 2147483648) % 4294967296 = (b - a) + 2147483648
  BY <1>3, SMT
<1> QED BY <1>4, SMT DEF Narrow

\* "past that the game sees a wrapped clock": a game that subtracts two readings in
\* 32 bits gets the interval right across the wrap, if it is less than 2^31 seconds.
THEOREM IntervalsSurviveTheWrap ==
  ASSUME NEW gain \in Gains, NEW v \in Timespec, NEW w \in Timespec, NEW e \in Int, NEW f \in Int,
         Forward(v, gain, e).sec <= Forward(w, gain, f).sec,
         Forward(w, gain, f).sec - Forward(v, gain, e).sec < 2147483648
  PROVE  Narrow(ClockGettime(w, gain, f).sec - ClockGettime(v, gain, e).sec)
           = Forward(w, gain, f).sec - Forward(v, gain, e).sec
<1>1. Forward(v, gain, e) \in Timespec /\ Forward(w, gain, f) \in Timespec
  BY OffsetGrows, ShiftAdds DEF Forward
<1>2. Forward(v, gain, e).sec \in Int /\ Forward(w, gain, f).sec \in Int
  BY <1>1 DEF Timespec
<1>3. /\ ClockGettime(v, gain, e).sec = Narrow(Forward(v, gain, e).sec)
      /\ ClockGettime(w, gain, f).sec = Narrow(Forward(w, gain, f).sec)
  BY DEF ClockGettime
<1> QED BY <1>2, <1>3, NarrowDifference
=============================================================================
