------------------------------- MODULE Quota -------------------------------
(***************************************************************************)
(* How many CPUs the process may use (src/batch.c): the CPUs online, the    *)
(* affinity mask, and the CPU quota of the control group, which is a text.  *)
(*                                                                         *)
(* A text is the sequence of its words, each of [negative, digits]; a word   *)
(* that is no number, as "max", has no digits.  A file that cannot be       *)
(* opened, or is empty, is NoFile.  Integers are long long and int, of the  *)
(* widths LongMax and IntMax.                                               *)
(***************************************************************************)
EXTENDS Integers, Sequences, Calls

CONSTANTS LongMax, IntMax       \* 2^63 - 1 and 2^31 - 1 in the code

ASSUME QuotaAssumption == IntMax \in Nat \ {0} /\ LongMax \in Nat /\ LongMax >= IntMax

NoFile == [lines |-> 0]
Text(words) == [lines |-> 1, words |-> words]

\* A sum of long longs, and the conversion of one to int.
LongSum(n) == IF n > LongMax THEN n - 2 * (LongMax + 1) ELSE n
ToInt(n)   == LET m == n % (2 * (IntMax + 1)) IN IF m > IntMax THEN m - 2 * (IntMax + 1) ELSE m

Lesser(m, n) == IF m < n THEN m ELSE n

-----------------------------------------------------------------------------
\* ph_parse_ll(): the number a word is, or Unreadable if it is none or does not fit.
Unreadable == -LongMax - 1

Digits(digits) ==
    LET f[k \in 0..Len(digits)] ==
            IF k = 0 THEN 0
            ELSE IF f[k - 1] = Unreadable \/ f[k - 1] > (LongMax - digits[k]) \div 10 THEN Unreadable
            ELSE f[k - 1] * 10 + digits[k]
    IN  f[Len(digits)]

Number(word) ==
    IF word.digits = <<>> \/ Digits(word.digits) = Unreadable THEN Unreadable
    ELSE IF word.negative THEN -Digits(word.digits) ELSE Digits(word.digits)

\* ph_cpu_quota_limit().  Faults: the usual way to round up; the cast alone.
UpBySum(quota, period)   == LongSum(quota + period - 1) \div period
UpByRest(quota, period)  == quota \div period + (IF quota % period # 0 THEN 1 ELSE 0)
CastOnly(cpus)           == ToInt(cpus)
Clamped(cpus)            == IF cpus > IntMax THEN IntMax ELSE ToInt(cpus)

QuotaLimit(words) ==
    IF Len(words) < 2 \/ Unreadable \in {Number(words[1]), Number(words[2])} THEN 0
    ELSE LET quota == Number(words[1])
             period == Number(words[2])
         IN  IF quota <= 0 \/ period <= 0 THEN 0 ELSE Clamped(UpByRest(quota, period))

\* ph_cgroup_cpu_limit(): version 2, or else the two files of version 1.
CgroupLimit(root) ==
    IF root.cpu_max # NoFile THEN QuotaLimit(root.cpu_max.words)
    ELSE IF root.quota # NoFile /\ root.period # NoFile
         THEN QuotaLimit(root.quota.words \o root.period.words)
         ELSE 0

\* ph_online_cpus(): what sysconf() says, which may be an error.
OnlineCpus(online) == IF online > 0 THEN Lesser(online, IntMax) ELSE 1

\* ph_available_cpus_at().  `affinity` is 0 if the mask cannot be had.
AvailableCpus(online, affinity, root) ==
    LET n       == OnlineCpus(online)
        allowed == IF affinity > 0 THEN Lesser(affinity, n) ELSE n
        quota   == CgroupLimit(root)
    IN  IF quota > 0 THEN Lesser(quota, allowed) ELSE allowed

CountCpus(online, affinity, root) ==
    Answer("cpus", [online |-> online, affinity |-> affinity, root |-> root],
           AvailableCpus(online, affinity, root))

-----------------------------------------------------------------------------
\* The number that is written, whatever its size.
Written(word) ==
    LET n == Len(word.digits)
        f[k \in 0..n] == IF k = 0 THEN 0 ELSE f[k - 1] * 10 + word.digits[k]
    IN  IF word.negative THEN -f[n] ELSE f[n]

\* The share of a text that states one: the fewest CPUs whose time covers the quota.
States(words) ==
    /\ Len(words) >= 2 /\ \A k \in 1..2 : words[k].digits # <<>> /\ Written(words[k]) \in 1..LongMax

Share(words) ==
    CHOOSE cpus \in 1..LongMax :
        /\ cpus * Written(words[2]) >= Written(words[1])
        /\ (cpus - 1) * Written(words[2]) < Written(words[1])

Limits(given) ==
    LET root  == given.root
        words == IF root.cpu_max # NoFile THEN root.cpu_max.words
                 ELSE IF NoFile \in {root.quota, root.period} THEN <<>>
                 ELSE root.quota.words \o root.period.words
    IN  {IF given.online > 0 THEN given.online ELSE 1, IntMax}
            \cup (IF given.affinity > 0 THEN {given.affinity} ELSE {})
            \cup (IF States(words) THEN {Share(words)} ELSE {})

\* The answer is the strictest of the limits there are, the quota rounded up to whole
\* CPUs: at least one CPU, and neither a number too long for its type nor a share above
\* an int makes another limit of it.
CpusCounted ==
    call.what = "cpus" =>
        /\ call.answer \in Limits(call.given)
        /\ call.answer >= 1
        /\ \A limit \in Limits(call.given) : call.answer <= limit
=============================================================================
