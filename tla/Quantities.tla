------------------------------- MODULE Quantities -------------------------------
(***************************************************************************)
(* The quantities of resources.requests: how the wall reads them (cost.rs) *)
(* and what Kubernetes takes them for.  A literal is the numbers in it and *)
(* how it is spelled; "other" stands for the spellings that Kubernetes     *)
(* accepts and the wall does not (exponents, a fraction before a suffix).  *)
(***************************************************************************)
EXTENDS Integers

CONSTANTS
    Unreadable,     \* in place of the number: the wall cannot run
    MaxWord,        \* the largest u64
    Suffixes,       \* of memory, the empty one among them
    Multiple        \* what each suffix multiplies by

ASSUME QuantitiesAssumption ==
    /\ MaxWord \in Nat
    /\ Multiple \in [Suffixes -> Nat \ {0}]
    /\ Unreadable \notin Nat

(* Bound: the digits after the point.  Three are thousandths of a core.    *)
MaxDigits == 4

PowerOfTen ==
    [n \in 0..MaxDigits |-> CASE n = 0 -> 1 [] n = 1 -> 10 [] n = 2 -> 100
                              [] n = 3 -> 1000 [] n = 4 -> 10000]

CpuQuantity ==
    [form : {"milli"}, number : Nat]
        \cup [form : {"cores"}, number : Nat, fraction : Nat, digits : 0..MaxDigits]
        \cup [form : {"other"}, amount : Nat]

MemoryQuantity ==
    [form : {"bytes"}, number : Nat, suffix : Suffixes]
        \cup [form : {"other"}, amount : Nat]

-------------------------------------------------------------------------------
(* The wall's reading                                                      *)

(* Checked arithmetic: what does not fit in a word is no number.           *)
Word(n) == IF n > MaxWord THEN Unreadable ELSE n

(* Mutant of ParseCpu: digits that a millicore cannot hold are cut off.    *)
ParseCpuCut(q) ==
    CASE q.form = "milli" -> Word(q.number)
      [] q.form = "cores" ->
            Word(q.number * 1000 + (q.fraction * 1000) \div PowerOfTen[q.digits])
      [] OTHER -> Unreadable

(* parse_cpu and scale_decimal: millicores.  More precision than the unit  *)
(* can hold would have to be rounded, and is refused.                      *)
ParseCpu(q) ==
    CASE q.form = "milli" -> Word(q.number)
      [] q.form = "cores" /\ q.digits <= 3 ->
            Word(q.number * 1000 + q.fraction * PowerOfTen[3 - q.digits])
      [] OTHER -> Unreadable

(* Mutant of ParseMemory: every suffix is the first one.                   *)
ParseMemoryAlike(q) ==
    IF q.form = "bytes"
    THEN Word(q.number * Multiple[CHOOSE s \in Suffixes : TRUE])
    ELSE Unreadable

(* parse_memory: bytes, by either family of suffixes.                      *)
ParseMemory(q) ==
    IF q.form = "bytes" THEN Word(q.number * Multiple[q.suffix]) ELSE Unreadable

-------------------------------------------------------------------------------
(* Kubernetes' reading: the exact amount, in millicores rounded up.        *)

RoundedUp(n, d) == (n + d - 1) \div d

CpuAmount(q) ==
    CASE q.form = "milli" -> q.number
      [] q.form = "cores" ->
            RoundedUp(1000 * (PowerOfTen[q.digits] * q.number + q.fraction),
                      PowerOfTen[q.digits])
      [] OTHER -> q.amount

MemoryAmount(q) ==
    IF q.form = "bytes" THEN Multiple[q.suffix] * q.number ELSE q.amount
===============================================================================
