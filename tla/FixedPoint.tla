----------------------------- MODULE FixedPoint -----------------------------
(***************************************************************************)
(* The fixed-point arithmetic of the multilevel feedback queue scheduler   *)
(* in threads/thread.c.  A fixed-point number is an integer in units of    *)
(* 1/F, with F = 2^14 in the code.                                         *)
(***************************************************************************)
EXTENDS Integers

CONSTANT F

PRI_MIN == 0
PRI_MAX == 63

(* The division of C truncates towards zero. *)
Quot(a, b) ==
  LET Mag(x) == IF x < 0 THEN -x ELSE x
      q == Mag(a) \div Mag(b)
  IN IF (a < 0) = (b < 0) THEN q ELSE -q

int_to_fixed(n) == n * F
fixed_to_int(x) == Quot(x, F)

fixed_cal_int(x, n, op) ==
  CASE op = "ADD" -> x + n * F
    [] op = "SUB" -> x - n * F
    [] op = "MUL" -> x * n
    [] op = "DIV" -> Quot(x, n)
int_cal_fixed(n, x) == n * F - x
fixed_cal_fixed(x, y, op) ==
  CASE op = "ADD" -> x + y
    [] op = "SUB" -> x - y
    [] op = "MUL" -> Quot(x * y, F)
    [] op = "DIV" -> Quot(x * F, y)

thread_aging(recent_cpu) == fixed_cal_int(recent_cpu, 1, "ADD")

(* calculate_load_avg, for so many ready threads and whether the running   *)
(* thread is not the idle one.                                             *)
calculate_load_avg(load_avg, ready, busy) ==
  LET n == IF busy THEN ready + 1 ELSE ready
  IN fixed_cal_int(fixed_cal_int(fixed_cal_int(load_avg, 59, "MUL"), n, "ADD"), 60, "DIV")

calculate_recent_cpu(load_avg, recent_cpu, nice) ==
  LET decay == fixed_cal_fixed(2 * load_avg, fixed_cal_int(2 * load_avg, 1, "ADD"), "DIV")
  IN fixed_cal_int(fixed_cal_fixed(decay, recent_cpu, "MUL"), nice, "ADD")

(* The priority of one thread in calculate_priority and thread_set_nice.   *)
Unclamped(recent_cpu, nice) ==
  fixed_to_int(int_cal_fixed(PRI_MAX,
    fixed_cal_int(fixed_cal_int(recent_cpu, 4, "DIV"), nice * 2, "ADD")))
calculate_priority(recent_cpu, nice) ==
  LET p == Unclamped(recent_cpu, nice)
  IN IF p > PRI_MAX THEN PRI_MAX ELSE IF p < PRI_MIN THEN PRI_MIN ELSE p

thread_get_load_avg(load_avg) == fixed_to_int(load_avg * 100)
thread_get_recent_cpu(recent_cpu) == fixed_to_int(recent_cpu * 100)
=============================================================================
