--------------------------------- MODULE Stat ---------------------------------
(***************************************************************************)
(* The statistical tests of random octets (stat.c).  Octets are numbers; the  *)
(* limits of the tests, and with them the amount of data, are a parameter.   *)
(***************************************************************************)
EXTENDS Datatypes

LongestRun == 25

between(n, limits) == limits[1] <= n /\ n <= limits[2]

stat_test_monobit(data, limits) ==
  between(FoldLeft(LAMBDA n, octet : n + octet_get_weight(octet), 0, data), limits.ones)

\* Sixteen times the squares of how often each nibble occurs, less a square.
nibbleCount(data, nibble) ==
  Len(SelectSeq(data, LAMBDA octet : octet % 16 = nibble))
    + Len(SelectSeq(data, LAMBDA octet : octet \div 16 = nibble))

stat_test_poker(data, limits) ==
  LET squares == FoldLeft(LAMBDA n, nibble : n + nibbleCount(data, nibble) ^ 2, 0,
                          [k \in 1 .. 16 |-> k - 1])
  IN  between((16 * squares) - (2 * Len(data)) ^ 2, limits.poker)

-----------------------------------------------------------------------------
(* Runs of ones, and of zeros: gaps.  The count for lengths 1 to 5, and for all  *)
(* that are longer; state is the length of what has begun, negative for a gap.  *)
(* Counts are numbered from 1 here and from 0 in the code, where runs[i] is thus *)
(* the number of runs of length i + 1; the comment at stat.c:76 says i - 1.     *)

NoRuns == [state |-> 0, runs |-> <<0, 0, 0, 0, 0, 0>>, gaps |-> <<0, 0, 0, 0, 0, 0>>,
           failed |-> FALSE]

counted(c) ==
  CASE c.state > 0 -> [c EXCEPT !.runs[IF c.state > 6 THEN 6 ELSE c.state] = @ + 1]
    [] c.state < 0 -> [c EXCEPT !.gaps[IF c.state < -6 THEN 6 ELSE -c.state] = @ + 1]
    [] OTHER -> c

\* A run or gap that is too long ends the test at once.
nextBit(c, one) ==
  LET sign == IF one THEN 1 ELSE -1
  IN  IF c.failed THEN c
      ELSE IF c.state * sign > 0
      THEN [c EXCEPT !.state = @ + sign, !.failed = (c.state + sign) * sign > LongestRun]
      ELSE [counted(c) EXCEPT !.state = sign]

\* From the lowest bit of an octet to the highest.
nextOctet(c, octet) ==
  FoldLeft(LAMBDA d, i : nextBit(d, (octet \div 2 ^ i) % 2 = 1), c, <<0, 1, 2, 3, 4, 5, 6, 7>>)

runsOf(data) == FoldLeft(nextOctet, NoRuns, data)

withinLimits(c, limits) ==
  /\ ~c.failed
  /\ \A i \in 1 .. 6 : /\ between(c.runs[i], <<limits.lo_value[i], limits.hi_value[i]>>)
                       /\ between(c.gaps[i], <<limits.lo_value[i], limits.hi_value[i]>>)

stat_test_runs(data, limits) == withinLimits(runsOf(data), limits)

-----------------------------------------------------------------------------
(* All of them on a source that is read a buffer at a time: a draw is its status  *)
(* and the octets.                                                           *)

\* Plausible slip: what began in one buffer does not go on in the next.
stat_test_rand_sourceApart(draws, limits) ==
  LET step(c, draw) ==
        IF c.status # "ok" THEN c
        ELSE IF draw.status # "ok" THEN [c EXCEPT !.status = draw.status, !.drawn = @ + 1]
        ELSE LET runs == FoldLeft(nextOctet, [c.runs EXCEPT !.state = 0], draw.octets) IN
             [status |-> IF runs.failed THEN "algo_fail" ELSE "ok", runs |-> runs,
              data |-> c.data \o draw.octets, drawn |-> c.drawn + 1]
      end == FoldLeft(step, [status |-> "ok", runs |-> NoRuns, data |-> <<>>, drawn |-> 0], draws)
      passed == /\ stat_test_monobit(end.data, limits)
                /\ stat_test_poker(end.data, limits)
                /\ withinLimits(end.runs, limits)
  IN  IF end.status # "ok" THEN [status |-> end.status, drawn |-> end.drawn]
      ELSE [status |-> IF passed THEN "ok" ELSE "algo_fail", drawn |-> end.drawn]

\* The counters go on from buffer to buffer; the source is read no further once it
\* has failed or a run is too long.
stat_test_rand_source(draws, limits) ==
  LET step(c, draw) ==
        IF c.status # "ok" THEN c
        ELSE IF draw.status # "ok" THEN [c EXCEPT !.status = draw.status, !.drawn = @ + 1]
        ELSE LET runs == FoldLeft(nextOctet, c.runs, draw.octets) IN
             [status |-> IF runs.failed THEN "algo_fail" ELSE "ok", runs |-> runs,
              data |-> c.data \o draw.octets, drawn |-> c.drawn + 1]
      end == FoldLeft(step, [status |-> "ok", runs |-> NoRuns, data |-> <<>>, drawn |-> 0], draws)
      passed == /\ stat_test_monobit(end.data, limits)
                /\ stat_test_poker(end.data, limits)
                /\ withinLimits(end.runs, limits)
  IN  IF end.status # "ok" THEN [status |-> end.status, drawn |-> end.drawn]
      ELSE [status |-> IF passed THEN "ok" ELSE "algo_fail", drawn |-> end.drawn]

\* Trials one after the other, until one passes.
stat_test_rand_source_with_repetition(trials, limits) ==
  FoldLeft(LAMBDA status, draws :
             IF status = "ok" THEN "ok" ELSE stat_test_rand_source(draws, limits).status,
           "algo_fail", trials)
=============================================================================
