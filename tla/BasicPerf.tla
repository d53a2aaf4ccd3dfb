------------------------------ MODULE BasicPerf ------------------------------
(***************************************************************************)
(* basicperf.c: every test is run TRIES times to warm up and TRIES times   *)
(* to be measured.  If the durations scatter too much it is all done       *)
(* again, but not for ever, and then the figures are printed.              *)
(*                                                                         *)
(* Abstraction: a test is the time it takes, and the printed deviation is  *)
(* whether it exceeds max_stddev.  How floats round depends on what the    *)
(* compiler keeps in the registers of the x87; the model allows every      *)
(* result up to the rounding to the width of a float at each operation.    *)
(***************************************************************************)
EXTENDS Integers, FiniteSetsExt, SequencesExt

CONSTANTS
  Tests,       (* how many there are: 5                                    *)
  Tries,       (* tries: 2048                                              *)
  MaxStddev,   (* max_stddev: 1000                                         *)
  MaxRetries,  (* 5                                                        *)
  Word,        (* 2^32                                                     *)
  Precision,   (* 2^24: floats are off by at most one part in it           *)
  Durations    (* how many cycles a test may take                          *)

ASSUME BasicPerfAssumption ==
  /\ {Tests, Tries, Word, Precision} \subseteq Nat \ {0}
  /\ {MaxStddev, MaxRetries} \subseteq Nat
  /\ MaxStddev * (Tries + 4) < Precision
  /\ Durations \subseteq Nat

VARIABLES
  at,          (* the test; 0 before the first, Tests + 1 at the end       *)
  w, j,        (* the round, and the try                                   *)
  retries,
  results,
  printed,     (* the figures of the tests that have ended                 *)
  took         (* history: the times since the test, or its retry, began   *)

perfVars == <<at, w, j, retries, results, printed, took>>

PerfInit ==
  /\ at = 0 /\ w = 0 /\ j = 0 /\ retries = 0
  /\ results = [t \in 0 .. Tries - 1 |-> 0]
  /\ printed = <<>> /\ took = <<>>

(* Without a Multiboot loader the program says so and leaves. *)
PerfRefuseLoader ==
  /\ at = 0
  /\ at' = Tests + 1
  /\ UNCHANGED <<w, j, retries, results, printed, took>>

Begin ==
  /\ at = 0
  /\ at' = 1
  /\ UNCHANGED <<w, j, retries, results, printed, took>>

(* A test between two reads of the time stamp counter. *)
Try ==
  /\ at \in 1 .. Tests /\ w < 2
  /\ \E d \in Durations :
       /\ results' = [results EXCEPT ![j] = d % Word]
       /\ took' = Append(took, d)
  /\ j' = (j + 1) % Tries
  /\ w' = IF j' = 0 THEN w + 1 ELSE w
  /\ UNCHANGED <<at, retries, printed>>

(* What (uint32_t)mean may be.  The sum is rounded; tries is a power of    *)
(* two, by which floats are divided exactly; and what a mean is converted  *)
(* to that was rounded up to 2^32 is undefined.                            *)
Means(r) ==
  LET sum == SumFunction(r)
      off == sum \div Precision
  IN  UNION { IF s \div Tries < Word THEN {s \div Tries} ELSE 0 .. Word - 1 :
                s \in sum - off .. sum + off }

(* The standard deviation is above a bound; squared and times Tries^3.     *)
Deviates(r, bound) ==
  LET sum == SumFunction(r) IN
  \/ bound < 0
  \/ SumFunction([t \in DOMAIN r |-> (sum - Tries * r[t]) * (sum - Tries * r[t])])
       > bound * bound * Tries * Tries * Tries

(* How far stddev may be off where it is compared: mean, results[j] and    *)
(* their difference are rounded, which shifts it by up to three parts in   *)
(* Precision of the longest call; the operations behind them add up to     *)
(* less than one cycle, as MaxStddev * (Tries + 4) < Precision.            *)
Margin(r) == ((3 * Max(Range(r))) \div Precision) + 2

(* What stddev > max_stddev may be. *)
Verdicts(r) ==
  { unstable \in BOOLEAN :
      /\ unstable => Deviates(r, MaxStddev - Margin(r))
      /\ ~unstable => ~Deviates(r, MaxStddev + Margin(r)) }

Figures(r, mean, unstable, n) ==
  [mean |-> mean, min |-> Min(Range(r)), max |-> Max(Range(r)),
   unstable |-> unstable, retries |-> n]

(* Mutant: a retry goes without the warmup. *)
MutAgainIsWarm ==
  /\ w = 2
  /\ retries < MaxRetries /\ TRUE \in Verdicts(results)
  /\ retries' = retries + 1
  /\ w' = 1
  /\ took' = <<>>
  /\ UNCHANGED <<at, j, results, printed>>

(* goto again *)
Again ==
  /\ w = 2
  /\ retries < MaxRetries /\ TRUE \in Verdicts(results)
  /\ retries' = retries + 1
  /\ w' = 0
  /\ took' = <<>>
  /\ UNCHANGED <<at, j, results, printed>>

(* The figures are printed; retries has been counted up once more. *)
Report ==
  /\ w = 2
  /\ \E mean \in Means(results), unstable \in Verdicts(results) :
       /\ retries >= MaxRetries \/ ~unstable
       /\ printed' = Append(printed, Figures(results, mean, unstable, retries + 1))
  /\ at' = at + 1
  /\ w' = 0 /\ retries' = 0
  /\ took' = <<>>
  /\ UNCHANGED <<j, results>>

PerfNext ==
  \/ PerfRefuseLoader \/ Begin \/ Try \/ Again \/ Report
  \/ at > Tests /\ UNCHANGED perfVars

PerfSpec == PerfInit /\ [][PerfNext]_perfVars

-----------------------------------------------------------------------------
(* Properties.                                                             *)

(* What is printed of a test comes from Tries calls in a row that Tries    *)
(* others of the same test have warmed up, none from before a retry        *)
(* (basicperf.c:65); and figures that scatter, by more than the rounding   *)
(* can hide, are printed only after all retries (basicperf.c:93).  A call  *)
(* that took 2^32 cycles does not count.  The mean is that of the calls,   *)
(* up to the rounding of their sum.                                        *)
FiguresAreMeasured ==
  [][printed' # printed =>
       LET figures  == printed'[Len(printed')]
           measured == [t \in 0 .. Tries - 1 |-> took[Tries + t + 1]]
           sum      == SumFunction(measured)
           off      == sum \div Precision
       IN  /\ Len(took) = 2 * Tries
           /\ Len(printed') = at
           /\ figures.unstable => figures.retries = MaxRetries + 1
           /\ Range(measured) \subseteq 0 .. Word - 1 =>
                /\ figures.min = Min(Range(measured)) /\ figures.max = Max(Range(measured))
                /\ Deviates(measured, MaxStddev + Margin(measured)) => figures.unstable
                /\ sum + off < Word * Tries =>
                     /\ figures.mean * Tries <= sum + off
                     /\ sum - off < (figures.mean + 1) * Tries]_perfVars

=============================================================================
