--------------------------- MODULE Compute_proofs ---------------------------
(***************************************************************************)
(* What Compute promises of the buffers and of the outputs holds after any  *)
(* number of calls.  A sequence of steps is judged as a program is in       *)
(* Hoare's logic: from what is known before its first step to what is known *)
(* after its last; the judgements of a part and of the rest compose.        *)
(***************************************************************************)
EXTENDS Compute, SequenceTheorems, TLAPS

\* What is known between two steps: the temporaries in the heap, of the gray copy
\* and the grid those sure to be there, arena pointers sure to be good, whether an
\* arena block may be handed out, and whether the output is written.
Known(temps, kept, good, used, wrote) ==
    [temps |-> temps, kept |-> kept, good |-> good, used |-> used, wrote |-> wrote]

Lasting == {"gray", "grid"}

Kinds == {"test", "take", "arena", "use", "resize", "free", "release", "write", "valid"}
Names == Temporaries \cup Lasting \cup {"scratch", "block_data", "work", "norm", "variances"}
Steps == [do : Kinds, what : SUBSET Names, frees : SUBSET Names, releases : BOOLEAN,
          error : {"none", "INVALID_ARGUMENT", "REQUIRES_COLOR"}]

\* What is known after a step that succeeds.
After(step, a) ==
    CASE step.do = "take"    -> Known(a.temps \cup (step.what \cap Temporaries),
                                      a.kept \cup (step.what \cap Lasting), a.good, a.used, a.wrote)
      [] step.do = "arena"   -> Known(a.temps, a.kept, step.what, 1, a.wrote)
      [] step.do = "free"    -> Known(a.temps \ step.what, a.kept, a.good, a.used, a.wrote)
      [] step.do = "release" -> Known(a.temps, a.kept, {}, 0, a.wrote)
      [] step.do = "valid"   -> Known(a.temps, a.kept \cup {"grid"}, a.good, a.used, a.wrote)
      [] step.do = "write"   -> Known(a.temps, a.kept, a.good, a.used, 1)
      [] OTHER -> a

\* A step that may fail gives back all there is, and nothing is written yet.
MayFail(step) ==
    \/ step.do \in {"take", "arena", "resize"}
    \/ step.do = "test" /\ step.error # "none"

Allowed(step, a) ==
    /\ MayFail(step) =>
          /\ a.temps \cup (IF step.do = "take" THEN step.what \cap Temporaries ELSE {}) \subseteq step.frees
          /\ a.used = 0 \/ step.releases
          /\ a.wrote = 0
    /\ step.do \in {"use", "resize"} => step.what \subseteq a.temps \cup a.kept \cup a.good
    /\ step.do = "free" => step.what \cap Lasting = {}
    /\ step.do = "write" => a.wrote = 0
    /\ step.do = "take" => step.what \subseteq Temporaries \cup Lasting
    /\ step.frees \cap Lasting = {}

\* The steps of p, begun where `a` is known, are all allowed and end where `b` is.
Carries(p, a, b) ==
    /\ p \in Seq(Steps)
    /\ \E known :
          /\ known[1] = a /\ known[Len(p) + 1] = b
          /\ \A k \in 1..Len(p) : Allowed(p[k], known[k]) /\ known[k + 1] = After(p[k], known[k])

-----------------------------------------------------------------------------
LEMMA NoStep == ASSUME NEW a PROVE Carries(<<>>, a, a)
<1>1. <<>> \in Seq(Steps) /\ Len(<<>>) = 0
  OBVIOUS
<1>2. [k \in 1..1 |-> a][1] = a /\ 1..0 = {}
  OBVIOUS
<1> QED
  BY <1>1, <1>2, 0 + 1 = 1 DEF Carries

LEMMA OneStep ==
    ASSUME NEW s \in Steps, NEW a, Allowed(s, a)
    PROVE  Carries(<<s>>, a, After(s, a))
<1> DEFINE known == [k \in 1..2 |-> IF k = 1 THEN a ELSE After(s, a)]
<1>1. <<s>> \in Seq(Steps) /\ Len(<<s>>) = 1 /\ <<s>>[1] = s
  OBVIOUS
<1>2. known[1] = a /\ known[2] = After(s, a)
  OBVIOUS
<1> HIDE DEF known
<1>3. \A k \in 1..1 : k = 1
  OBVIOUS
<1> QED
  BY <1>1, <1>2, <1>3 DEF Carries

\* The judgements of two parts compose.
LEMMA Both ==
    ASSUME NEW p, NEW q, NEW a, NEW b, NEW c, Carries(p, a, b), Carries(q, b, c)
    PROVE  Carries(p \o q, a, c)
<1>1. p \in Seq(Steps) /\ q \in Seq(Steps)
  BY DEF Carries
<1>2. PICK first : /\ first[1] = a /\ first[Len(p) + 1] = b
                   /\ \A k \in 1..Len(p) : /\ Allowed(p[k], first[k])
                                           /\ first[k + 1] = After(p[k], first[k])
  BY DEF Carries
<1>3. PICK second : /\ second[1] = b /\ second[Len(q) + 1] = c
                    /\ \A k \in 1..Len(q) : /\ Allowed(q[k], second[k])
                                            /\ second[k + 1] = After(q[k], second[k])
  BY DEF Carries
<1> DEFINE n == Len(p)
           known == [k \in 1..n + Len(q) + 1 |-> IF k <= n THEN first[k] ELSE second[k - n]]
<1>4. n \in Nat /\ Len(q) \in Nat /\ Len(p \o q) = n + Len(q) /\ p \o q \in Seq(Steps)
  BY <1>1, ConcatProperties, LenProperties
<1>5. \A k \in 1..n : known[k] = first[k]
  BY <1>4
<1>6. \A k \in n + 1..n + Len(q) + 1 : known[k] = second[k - n]
  BY <1>4
<1> HIDE DEF known
<1>7. known[n + 1] = b
  <2>1. n + 1 \in n + 1..n + Len(q) + 1 /\ (n + 1) - n = 1
    BY <1>4
  <2> QED
    BY <1>3, <1>6, <2>1
<1>8. known[1] = a
  <2>1. CASE n = 0
    BY <1>2, <1>7, <2>1
  <2>2. CASE n # 0
    BY <1>2, <1>4, <1>5, <2>2
  <2> QED
    BY <2>1, <2>2
<1>9. known[n + Len(q) + 1] = c
  <2>1. n + Len(q) + 1 \in n + 1..n + Len(q) + 1 /\ (n + Len(q) + 1) - n = Len(q) + 1
    BY <1>4
  <2> QED
    BY <1>3, <1>6, <2>1
<1>10. ASSUME NEW k \in 1..n + Len(q)
       PROVE  Allowed((p \o q)[k], known[k]) /\ known[k + 1] = After((p \o q)[k], known[k])
  <2>1. CASE k < n
    <3>1. (p \o q)[k] = p[k] /\ k \in 1..n /\ k + 1 \in 1..n
      BY <1>1, <1>4, <2>1, ConcatProperties
    <3> QED
      BY <1>2, <1>5, <3>1
  <2>2. CASE k = n
    <3>1. (p \o q)[k] = p[k] /\ k \in 1..n
      BY <1>1, <1>4, <2>2, ConcatProperties
    <3> QED
      BY <1>2, <1>5, <1>7, <2>2, <3>1
  <2>3. CASE k > n
    <3>1. (p \o q)[k] = q[k - n] /\ k - n \in 1..Len(q)
      BY <1>1, <1>4, <2>3, ConcatProperties
    <3>2. k \in n + 1..n + Len(q) + 1 /\ k + 1 \in n + 1..n + Len(q) + 1 /\ (k + 1) - n = (k - n) + 1
      BY <1>4, <2>3
    <3> QED
      BY <1>3, <1>6, <3>1, <3>2
  <2> QED
    BY <1>4, <2>1, <2>2, <2>3
<1> QED
  BY <1>4, <1>8, <1>9, <1>10 DEF Carries

\* The judgements of the steps of a list compose.
LEMMA TwoCut ==
    ASSUME NEW S, NEW x \in S, NEW y \in S
    PROVE  <<x, y>> = <<x>> \o <<y>>
<1> DEFINE s == <<x>> \o <<y>>
           t == <<x, y>>
<1>1. Len(s) = 2 /\ s[1] = x /\ s[2] = y /\ s \in Seq(S)
  OBVIOUS
<1>2. Len(t) = 2 /\ t[1] = x /\ t[2] = y /\ t \in Seq(S)
  OBVIOUS
<1>3. \A i \in 1..2 : i = 1 \/ i = 2
  OBVIOUS
<1> HIDE DEF s, t
<1>4. \A i \in 1..Len(s) : s[i] = t[i]
  BY <1>1, <1>2, <1>3
<1>5. s = t
  BY <1>1, <1>2, <1>4, SeqEqual
<1> QED
  BY <1>5 DEF s, t

LEMMA Two ==
    ASSUME NEW x, NEW y, NEW a, NEW b, NEW c, Carries(<<x>>, a, b), Carries(<<y>>, b, c)
    PROVE  Carries(<<x, y>>, a, c)
<1>1. <<x>> \in Seq(Steps) /\ <<y>> \in Seq(Steps)
  BY DEF Carries
<1>2. Head(<<x>>) = x /\ Head(<<y>>) = y /\ <<x>> # <<>> /\ <<y>> # <<>>
  OBVIOUS
<1>3. x \in Steps /\ y \in Steps
  BY <1>1, <1>2, HeadTailProperties
<1>4. <<x, y>> = <<x>> \o <<y>>
  BY <1>3, TwoCut
<1> QED
  BY <1>4, Both

LEMMA Three ==
    ASSUME NEW x, NEW y, NEW z, NEW a, NEW b, NEW c, NEW d,
           Carries(<<x>>, a, b), Carries(<<y>>, b, c), Carries(<<z>>, c, d)
    PROVE  Carries(<<x, y, z>>, a, d)
<1>1. <<x, y, z>> = <<x>> \o <<y, z>>
  OBVIOUS
<1>2. Carries(<<y, z>>, b, d)
  BY Two
<1> QED
  BY <1>1, <1>2, Both

LEMMA Four ==
    ASSUME NEW x, NEW y, NEW z, NEW w, NEW a, NEW b, NEW c, NEW d, NEW e,
           Carries(<<x>>, a, b), Carries(<<y>>, b, c), Carries(<<z>>, c, d), Carries(<<w>>, d, e)
    PROVE  Carries(<<x, y, z, w>>, a, e)
<1>1. <<x, y, z, w>> = <<x>> \o <<y, z, w>>
  OBVIOUS
<1>2. Carries(<<y, z, w>>, b, e)
  BY Three
<1> QED
  BY <1>1, <1>2, Both

LEMMA Five ==
    ASSUME NEW x, NEW y, NEW z, NEW w, NEW v, NEW a, NEW b, NEW c, NEW d, NEW e, NEW f,
           Carries(<<x>>, a, b), Carries(<<y>>, b, c), Carries(<<z>>, c, d), Carries(<<w>>, d, e),
           Carries(<<v>>, e, f)
    PROVE  Carries(<<x, y, z, w, v>>, a, f)
<1>1. <<x, y, z, w, v>> = <<x>> \o <<y, z, w, v>>
  OBVIOUS
<1>2. Carries(<<y, z, w, v>>, b, f)
  BY Four
<1> QED
  BY <1>1, <1>2, Both

LEMMA Seven ==
    ASSUME NEW x, NEW y, NEW z, NEW w, NEW v, NEW u, NEW t,
           NEW a, NEW b, NEW c, NEW d, NEW e, NEW f, NEW g, NEW h,
           Carries(<<x>>, a, b), Carries(<<y>>, b, c), Carries(<<z>>, c, d), Carries(<<w>>, d, e),
           Carries(<<v>>, e, f), Carries(<<u>>, f, g), Carries(<<t>>, g, h)
    PROVE  Carries(<<x, y, z, w, v, u, t>>, a, h)
<1>1. <<x, y, z, w, v, u, t>> = <<x>> \o <<y, z, w, v, u, t>>
  OBVIOUS
<1>2. <<y, z, w, v, u, t>> = <<y>> \o <<z, w, v, u, t>>
  OBVIOUS
<1>3. Carries(<<z, w, v, u, t>>, c, h)
  BY Five
<1>4. Carries(<<y, z, w, v, u, t>>, b, h)
  BY <1>2, <1>3, Both
<1> QED
  BY <1>1, <1>4, Both

\* What is left after the first step.
LEMMA FirstStep ==
    ASSUME NEW p, NEW a, NEW b, Carries(p, a, b), p # <<>>
    PROVE  /\ Head(p) \in Steps /\ Allowed(Head(p), a)
           /\ Carries(Tail(p), After(Head(p), a), b)
<1>1. p \in Seq(Steps) /\ Len(p) \in Nat \ {0} /\ Head(p) = p[1] /\ Head(p) \in Steps
  BY DEF Carries
<1>2. Tail(p) \in Seq(Steps) /\ Len(Tail(p)) = Len(p) - 1 /\ \A k \in 1..Len(p) - 1 : Tail(p)[k] = p[k + 1]
  BY <1>1
<1>3. PICK known : /\ known[1] = a /\ known[Len(p) + 1] = b
                   /\ \A k \in 1..Len(p) : /\ Allowed(p[k], known[k])
                                           /\ known[k + 1] = After(p[k], known[k])
  BY DEF Carries
<1>4. 1 \in 1..Len(p)
  BY <1>1
<1>5. Allowed(Head(p), a) /\ known[1 + 1] = After(Head(p), a)
  BY <1>1, <1>3, <1>4
<1> DEFINE rest == [k \in 1..Len(p) |-> known[k + 1]]
<1>6. \A k \in 1..Len(p) : rest[k] = known[k + 1]
  OBVIOUS
<1> HIDE DEF rest
<1>7. rest[1] = After(Head(p), a) /\ rest[Len(Tail(p)) + 1] = b
  BY <1>1, <1>2, <1>3, <1>4, <1>5, <1>6
<1>8. ASSUME NEW k \in 1..Len(Tail(p))
      PROVE  Allowed(Tail(p)[k], rest[k]) /\ rest[k + 1] = After(Tail(p)[k], rest[k])
  <2>1. k \in 1..Len(p) /\ k + 1 \in 1..Len(p) /\ Tail(p)[k] = p[k + 1]
    BY <1>1, <1>2
  <2> QED
    BY <1>3, <1>6, <2>1
<1> QED
  BY <1>1, <1>2, <1>5, <1>7, <1>8 DEF Carries
-----------------------------------------------------------------------------
\* The steps, one by one.
LEMMA Tested ==
    ASSUME NEW e \in {"none", "INVALID_ARGUMENT", "REQUIRES_COLOR"}, NEW kept, NEW good
    PROVE  Carries(<<Test(e)>>, Known({}, kept, good, 0, 0), Known({}, kept, good, 0, 0))
<1> DEFINE s == [do |-> "test", what |-> {}, frees |-> {}, releases |-> FALSE, error |-> e]
           a == Known({}, kept, good, 0, 0)
<1>1. Test(e) = s
  BY DEF Test, StepOf
<1>2. s \in Steps /\ Allowed(s, a) /\ After(s, a) = a
  BY DEF Steps, Kinds, Allowed, MayFail, After, Known
<1> QED
  BY <1>1, <1>2, OneStep

LEMMA TestedReleasing ==
    ASSUME NEW kept, NEW good, NEW used
    PROVE  Carries(<<TestReleasing("INVALID_ARGUMENT")>>,
                   Known({}, kept, good, used, 0), Known({}, kept, good, used, 0))
<1> DEFINE s == [do |-> "test", what |-> {}, frees |-> {}, releases |-> TRUE, error |-> "INVALID_ARGUMENT"]
           a == Known({}, kept, good, used, 0)
<1>1. TestReleasing("INVALID_ARGUMENT") = s
  BY DEF TestReleasing, StepOf
<1>2. s \in Steps /\ Allowed(s, a) /\ After(s, a) = a
  BY DEF Steps, Kinds, Allowed, MayFail, After, Known
<1> QED
  BY <1>1, <1>2, OneStep

LEMMA Taken ==
    ASSUME NEW temps, NEW kept, NEW good, NEW used, NEW rel \in BOOLEAN, used = 0 \/ rel,
           NEW what \in SUBSET Temporaries, NEW frees \in SUBSET Temporaries, temps \cup what \subseteq frees
    PROVE  Carries(<<Take(what, frees, rel)>>,
                   Known(temps, kept, good, used, 0), Known(temps \cup what, kept, good, used, 0))
<1> DEFINE s == [do |-> "take", what |-> what, frees |-> frees, releases |-> rel, error |-> "none"]
           a == Known(temps, kept, good, used, 0)
<1>1. Take(what, frees, rel) = s
  BY DEF Take, StepOf
<1>2. what \cap Temporaries = what /\ what \cap Lasting = {} /\ frees \cap Lasting = {}
      /\ what \in SUBSET Names /\ frees \in SUBSET Names /\ what \subseteq Temporaries \cup Lasting
  BY DEF Temporaries, Lasting, Names
<1>3. s \in Steps /\ Allowed(s, a)
  BY <1>2 DEF Steps, Kinds, Allowed, MayFail, Known
<1>4. After(s, a) = Known(temps \cup what, kept, good, used, 0)
  BY <1>2 DEF After, Known
<1> QED
  BY <1>1, <1>3, <1>4, OneStep

LEMMA GrayTaken ==
    ASSUME NEW kept, NEW good, NEW used, NEW rel \in BOOLEAN, used = 0 \/ rel
    PROVE  Carries(<<Take({"gray"}, {}, rel)>>,
                   Known({}, kept, good, used, 0), Known({}, kept \cup {"gray"}, good, used, 0))
<1> DEFINE s == [do |-> "take", what |-> {"gray"}, frees |-> {}, releases |-> rel, error |-> "none"]
           a == Known({}, kept, good, used, 0)
<1>1. Take({"gray"}, {}, rel) = s
  BY DEF Take, StepOf
<1>2. {"gray"} \cap Temporaries = {} /\ {"gray"} \cap Lasting = {"gray"} /\ {"gray"} \in SUBSET Names
      /\ {"gray"} \subseteq Temporaries \cup Lasting
  BY DEF Temporaries, Lasting, Names
<1>3. s \in Steps /\ Allowed(s, a)
  BY <1>2 DEF Steps, Kinds, Allowed, MayFail, Known
<1>4. After(s, a) = Known({}, kept \cup {"gray"}, good, used, 0)
  BY <1>2 DEF After, Known
<1> QED
  BY <1>1, <1>3, <1>4, OneStep

LEMMA Handed ==
    ASSUME NEW temps, NEW kept, NEW good, NEW what \in SUBSET Names,
           NEW frees \in SUBSET Temporaries, temps \subseteq frees
    PROVE  Carries(<<Arena(what, frees)>>, Known(temps, kept, good, 0, 0), Known(temps, kept, what, 1, 0))
<1> DEFINE s == [do |-> "arena", what |-> what, frees |-> frees, releases |-> FALSE, error |-> "none"]
           a == Known(temps, kept, good, 0, 0)
<1>1. Arena(what, frees) = s
  BY DEF Arena, StepOf
<1>2. frees \in SUBSET Names /\ frees \cap Lasting = {}
  BY DEF Names, Temporaries, Lasting
<1>3. s \in Steps /\ Allowed(s, a)
  BY <1>2 DEF Steps, Kinds, Allowed, MayFail, Known
<1>4. After(s, a) = Known(temps, kept, what, 1, 0)
  BY DEF After, Known
<1> QED
  BY <1>1, <1>3, <1>4, OneStep

LEMMA Used ==
    ASSUME NEW temps, NEW kept, NEW good, NEW used, NEW what \in SUBSET Names,
           what \subseteq temps \cup kept \cup good
    PROVE  Carries(<<Use(what)>>, Known(temps, kept, good, used, 0), Known(temps, kept, good, used, 0))
<1> DEFINE s == [do |-> "use", what |-> what, frees |-> {}, releases |-> FALSE, error |-> "none"]
           a == Known(temps, kept, good, used, 0)
<1>1. Use(what) = s
  BY DEF Use, Plain, StepOf
<1>2. s \in Steps /\ Allowed(s, a) /\ After(s, a) = a
  BY DEF Steps, Kinds, Allowed, MayFail, After, Known
<1> QED
  BY <1>1, <1>2, OneStep

LEMMA Resized ==
    ASSUME NEW temps, NEW kept, NEW good, NEW used, NEW what \in SUBSET Names,
           what \subseteq temps \cup kept \cup good,
           NEW rel \in BOOLEAN, used = 0 \/ rel,
           NEW frees \in SUBSET Temporaries, temps \subseteq frees
    PROVE  Carries(<<Resize(what, frees, rel)>>,
                   Known(temps, kept, good, used, 0), Known(temps, kept, good, used, 0))
<1> DEFINE s == [do |-> "resize", what |-> what, frees |-> frees, releases |-> rel, error |-> "none"]
           a == Known(temps, kept, good, used, 0)
<1>1. Resize(what, frees, rel) = s
  BY DEF Resize, StepOf
<1>2. frees \in SUBSET Names /\ frees \cap Lasting = {}
  BY DEF Names, Temporaries, Lasting
<1>3. s \in Steps /\ Allowed(s, a) /\ After(s, a) = a
  BY <1>2 DEF Steps, Kinds, Allowed, MayFail, After, Known
<1> QED
  BY <1>1, <1>3, OneStep

LEMMA Freed ==
    ASSUME NEW temps, NEW kept, NEW good, NEW used, NEW what \in SUBSET Temporaries
    PROVE  Carries(<<Free(what)>>, Known(temps, kept, good, used, 0), Known(temps \ what, kept, good, used, 0))
<1> DEFINE s == [do |-> "free", what |-> what, frees |-> {}, releases |-> FALSE, error |-> "none"]
           a == Known(temps, kept, good, used, 0)
<1>1. Free(what) = s
  BY DEF Free, Plain, StepOf
<1>2. what \in SUBSET Names /\ what \cap Lasting = {}
  BY DEF Names, Temporaries, Lasting
<1>3. s \in Steps /\ Allowed(s, a) /\ After(s, a) = Known(temps \ what, kept, good, used, 0)
  BY <1>2 DEF Steps, Kinds, Allowed, MayFail, After, Known
<1> QED
  BY <1>1, <1>3, OneStep

LEMMA Released ==
    ASSUME NEW temps, NEW kept, NEW good, NEW used, NEW wrote
    PROVE  Carries(<<Release>>, Known(temps, kept, good, used, wrote), Known(temps, kept, {}, 0, wrote))
<1> DEFINE s == [do |-> "release", what |-> {}, frees |-> {}, releases |-> FALSE, error |-> "none"]
           a == Known(temps, kept, good, used, wrote)
<1>1. Release = s
  BY DEF Release, Plain, StepOf
<1>2. s \in Steps /\ Allowed(s, a) /\ After(s, a) = Known(temps, kept, {}, 0, wrote)
  BY DEF Steps, Kinds, Allowed, MayFail, After, Known
<1> QED
  BY <1>1, <1>2, OneStep

LEMMA Validated ==
    ASSUME NEW temps, NEW kept, NEW good, NEW used
    PROVE  Carries(<<Plain("valid", {})>>,
                   Known(temps, kept, good, used, 0), Known(temps, kept \cup {"grid"}, good, used, 0))
<1> DEFINE s == [do |-> "valid", what |-> {}, frees |-> {}, releases |-> FALSE, error |-> "none"]
           a == Known(temps, kept, good, used, 0)
<1>1. Plain("valid", {}) = s
  BY DEF Plain, StepOf
<1>2. s \in Steps /\ Allowed(s, a) /\ After(s, a) = Known(temps, kept \cup {"grid"}, good, used, 0)
  BY DEF Steps, Kinds, Allowed, MayFail, After, Known
<1> QED
  BY <1>1, <1>2, OneStep

LEMMA Wrote ==
    ASSUME NEW temps, NEW kept, NEW good, NEW used
    PROVE  Carries(<<Write>>, Known(temps, kept, good, used, 0), Known(temps, kept, good, used, 1))
<1> DEFINE s == [do |-> "write", what |-> {}, frees |-> {}, releases |-> FALSE, error |-> "none"]
           a == Known(temps, kept, good, used, 0)
<1>1. Write = s
  BY DEF Write, Plain, StepOf
<1>2. s \in Steps /\ Allowed(s, a) /\ After(s, a) = Known(temps, kept, good, used, 1)
  BY DEF Steps, Kinds, Allowed, MayFail, After, Known
<1> QED
  BY <1>1, <1>2, OneStep
-----------------------------------------------------------------------------
\* The parts the functions share, begun where the image's lasting blocks `kept`
\* are known.  A gray image needs no gray copy.
Base == (heap \cap Lasting) \cup (IF options.color THEN {} ELSE {"gray"})

LEMMA GrayCarries ==
    ASSUME NEW kept, Base \subseteq kept, NEW good, NEW used, NEW rel \in BOOLEAN, used = 0 \/ rel
    PROVE  Carries(Gray(rel), Known({}, kept, good, used, 0), Known({}, kept \cup {"gray"}, good, used, 0))
<1>1. CASE options.color /\ "gray" \notin heap
  <2>1. Gray(rel) = <<Take({"gray"}, {}, rel)>>
    BY <1>1 DEF Gray
  <2> QED
    BY <2>1, GrayTaken
<1>2. CASE ~(options.color /\ "gray" \notin heap)
  <2>1. Gray(rel) = <<>>
    BY <1>2 DEF Gray
  <2>2. kept \cup {"gray"} = kept
    BY <1>2 DEF Base, Lasting
  <2> QED
    BY <2>1, <2>2, NoStep
<1> QED
  BY <1>1, <1>2

LEMMA SumsCarries ==
    ASSUME NEW held \in SUBSET {"sums"}, NEW kept, "gray" \in kept, NEW good, NEW used,
           NEW rel \in BOOLEAN, used = 0 \/ rel
    PROVE  Carries(Sums(held, rel), Known(held, kept, good, used, 0), Known(held, kept, good, used, 0))
<1> DEFINE two   == {"cols", "row"}
           all   == two \cup held
           take  == Take(two, all, rel)
           use   == Use({"gray", "cols", "row"})
           free  == Free(two)
           start == Known(held, kept, good, used, 0)
           full  == Known(held \cup two, kept, good, used, 0)
<1>1. two \in SUBSET Temporaries /\ all \in SUBSET Temporaries /\ held \cup two \subseteq all
      /\ {"gray", "cols", "row"} \in SUBSET Names
      /\ {"gray", "cols", "row"} \subseteq (held \cup two) \cup kept \cup good
      /\ (held \cup two) \ two = held
  BY DEF Temporaries, Lasting, Names
<1>2. Carries(<<take>>, start, full)
  BY <1>1, Taken
<1>3. Carries(<<use>>, full, full)
  BY <1>1, Used
<1>4. Carries(<<free>>, full, start)
  <2>1. Carries(<<free>>, full, Known((held \cup two) \ two, kept, good, used, 0))
    BY <1>1, Freed
  <2> QED
    BY <1>1, <2>1
<1>5. Sums(held, rel) = <<take, use, free>>
  BY DEF Sums
<1> HIDE DEF take, use, free, start, full
<1>6. Carries(<<take, use, free>>, start, start)
  BY <1>2, <1>3, <1>4, Three
<1> QED
  BY <1>5, <1>6 DEF start

\* The downscale may leave a gray copy and a valid grid behind, nothing else.
LEMMA DownscaleCarries ==
    ASSUME NEW kept, Base \subseteq kept, NEW good, NEW used,
           NEW divides \in BOOLEAN, NEW rel \in BOOLEAN, used = 0 \/ rel
    PROVE  \E more : /\ kept \subseteq more
                     /\ Carries(Downscale(divides, rel), Known({}, kept, good, used, 0),
                                Known({}, more, good, used, 0))
<1> DEFINE gray  == kept \cup {"gray"}
           start == Known({}, kept, good, used, 0)
           then  == Known({}, gray, good, used, 0)
           grid  == Known({}, gray \cup {"grid"}, good, used, 0)
<1>1. Carries(Gray(rel), start, then)
  BY GrayCarries
<1>2. CASE options.large /\ divides /\ "grid" \in heap
  <2>1. Downscale(divides, rel) = Gray(rel) \o (<<>> \o <<Use({"grid"})>>)
    BY <1>2 DEF Downscale
  <2>2. {"grid"} \in SUBSET Names /\ {"grid"} \subseteq {} \cup gray \cup good
    BY <1>2 DEF Names, Base, Lasting
  <2>3. Carries(<<Use({"grid"})>>, then, then)
    BY <2>2, Used
  <2>4. Carries(<<>> \o <<Use({"grid"})>>, then, then)
    BY <2>3, NoStep, Both
  <2>5. Carries(Downscale(divides, rel), start, then)
    BY <1>1, <2>1, <2>4, Both
  <2> QED
    BY <2>5
<1>3. CASE options.large /\ divides /\ "grid" \notin heap
  <2>1. Downscale(divides, rel) =
            Gray(rel) \o ((Sums({}, rel) \o <<Plain("valid", {})>>) \o <<Use({"grid"})>>)
    BY <1>3 DEF Downscale
  <2>2. {"grid"} \in SUBSET Names /\ {"grid"} \subseteq {} \cup (gray \cup {"grid"}) \cup good
    BY DEF Names, Lasting
  <2>3. Carries(Sums({}, rel), then, then)
    BY SumsCarries
  <2>4. Carries(<<Plain("valid", {})>>, then, grid)
    BY Validated
  <2>5. Carries(<<Use({"grid"})>>, grid, grid)
    BY <2>2, Used
  <2>6. Carries(Sums({}, rel) \o <<Plain("valid", {})>>, then, grid)
    BY <2>3, <2>4, Both
  <2>7. Carries((Sums({}, rel) \o <<Plain("valid", {})>>) \o <<Use({"grid"})>>, then, grid)
    BY <2>5, <2>6, Both
  <2>8. Carries(Downscale(divides, rel), start, grid)
    BY <1>1, <2>1, <2>7, Both
  <2> QED
    BY <2>8
<1>4. CASE ~(options.large /\ divides)
  <2> DEFINE take == Take({"sums"}, {"sums"}, rel)
             use  == Use({"sums"})
             free == Free({"sums"})
             held == Known({"sums"}, gray, good, used, 0)
  <2>1. Downscale(divides, rel) =
            Gray(rel) \o ((<<take>> \o Sums({"sums"}, rel)) \o <<use, free>>)
    BY <1>4 DEF Downscale
  <2>2. {"sums"} \in SUBSET Temporaries /\ {"sums"} \in SUBSET Names
        /\ {"sums"} \subseteq {"sums"} \cup gray \cup good /\ {} \cup {"sums"} = {"sums"}
        /\ {"sums"} \ {"sums"} = {}
    BY DEF Temporaries, Names
  <2>3. Carries(<<take>>, then, held)
    <3>1. Carries(<<take>>, then, Known({} \cup {"sums"}, gray, good, used, 0))
      BY <2>2, Taken
    <3> QED
      BY <2>2, <3>1
  <2>4. Carries(Sums({"sums"}, rel), held, held)
    BY SumsCarries
  <2>5. Carries(<<use>>, held, held)
    BY <2>2, Used
  <2>6. Carries(<<free>>, held, then)
    <3>1. Carries(<<free>>, held, Known({"sums"} \ {"sums"}, gray, good, used, 0))
      BY <2>2, Freed
    <3> QED
      BY <2>2, <3>1
  <2> HIDE DEF take, use, free, held
  <2>7. Carries(<<take>> \o Sums({"sums"}, rel), then, held)
    BY <2>3, <2>4, Both
  <2>8. Carries(<<use, free>>, held, then)
    BY <2>5, <2>6, Two
  <2>9. Carries((<<take>> \o Sums({"sums"}, rel)) \o <<use, free>>, then, then)
    BY <2>7, <2>8, Both
  <2>10. Carries(Downscale(divides, rel), start, then)
    BY <1>1, <2>1, <2>9, Both
  <2> QED
    BY <2>10
<1> QED
  BY <1>2, <1>3, <1>4

LEMMA BlurCarries ==
    ASSUME NEW kept, Base \subseteq kept
    PROVE  Carries(Blur, Known({}, kept, {}, 0, 0), Known({"blurred"}, kept \cup {"gray"}, {}, 0, 0))
<1> DEFINE gray  == kept \cup {"gray"}
           two   == {"blurred", "blur_scratch"}
           used  == {"gray", "blurred", "blur_scratch"}
           take  == Take(two, two, FALSE)
           use   == Use(used)
           free  == Free({"blur_scratch"})
           start == Known({}, kept, {}, 0, 0)
           then  == Known({}, gray, {}, 0, 0)
           both  == Known(two, gray, {}, 0, 0)
           end   == Known({"blurred"}, gray, {}, 0, 0)
<1>1. two \in SUBSET Temporaries /\ {"blur_scratch"} \in SUBSET Temporaries /\ used \in SUBSET Names
      /\ used \subseteq two \cup gray \cup {} /\ {} \cup two = two /\ two \ {"blur_scratch"} = {"blurred"}
  BY DEF Temporaries, Lasting, Names
<1>2. Carries(Gray(FALSE), start, then)
  BY GrayCarries
<1>3. Carries(<<take>>, then, both)
  <2>1. Carries(<<take>>, then, Known({} \cup two, gray, {}, 0, 0))
    BY <1>1, Taken
  <2> QED
    BY <1>1, <2>1
<1>4. Carries(<<use>>, both, both)
  BY <1>1, Used
<1>5. Carries(<<free>>, both, end)
  <2>1. Carries(<<free>>, both, Known(two \ {"blur_scratch"}, gray, {}, 0, 0))
    BY <1>1, Freed
  <2> QED
    BY <1>1, <2>1
<1>6. Blur = Gray(FALSE) \o <<take, use, free>>
  BY DEF Blur
<1> HIDE DEF take, use, free, start, then, both, end
<1>7. Carries(<<take, use, free>>, then, end)
  BY <1>3, <1>4, <1>5, Three
<1>8. Carries(Blur, start, end)
  BY <1>2, <1>6, <1>7, Both
<1> QED
  BY <1>8 DEF start, end
-----------------------------------------------------------------------------
\* Every function, whatever is in the heap when it begins, may take its steps, gives
\* everything back and writes its output.
Start == Known({}, Base, {}, 0, 0)
Computes(p) == \E more : Carries(p, Start, Known({}, more, {}, 0, 1))

LEMMA DownscalingComputes ==
    Computes(Downscale(TRUE, FALSE) \o <<Write>>)
<1>1. PICK more : Carries(Downscale(TRUE, FALSE), Start, Known({}, more, {}, 0, 0))
  BY DownscaleCarries DEF Start
<1>2. Carries(<<Write>>, Known({}, more, {}, 0, 0), Known({}, more, {}, 0, 1))
  BY Wrote
<1> QED
  BY <1>1, <1>2, Both DEF Computes

LEMMA DhashComputes == Computes(Dhash)
<1> DEFINE gray   == Base \cup {"gray"}
           resize == Resize({"gray"}, {}, FALSE)
           then   == Known({}, gray, {}, 0, 0)
           end    == Known({}, gray, {}, 0, 1)
<1>1. {"gray"} \in SUBSET Names /\ {"gray"} \subseteq {} \cup gray \cup {}
  BY DEF Names, Lasting
<1>2. Carries(Gray(FALSE), Start, then)
  BY GrayCarries DEF Start
<1>3. Carries(<<resize>>, then, then)
  BY <1>1, Resized
<1>4. Carries(<<Write>>, then, end)
  BY Wrote
<1>5. Dhash = Gray(FALSE) \o <<resize, Write>>
  BY DEF Dhash
<1> HIDE DEF resize, then
<1>6. Carries(<<resize, Write>>, then, end)
  BY <1>3, <1>4, Two
<1>7. Carries(Dhash, Start, end)
  BY <1>2, <1>5, <1>6, Both
<1> QED
  BY <1>7 DEF Computes

LEMMA PhashComputes == ASSUME options \in Options PROVE Computes(Phash)
<1> DEFINE test    == Test("INVALID_ARGUMENT")
           arena   == Arena({"scratch"}, {})
           again   == TestReleasing("INVALID_ARGUMENT")
           use     == Use({"scratch"})
           handed  == Known({}, Base, {"scratch"}, 1, 0)
<1>1. {"scratch"} \in SUBSET Names /\ options.divides \in BOOLEAN
  BY DEF Names, Options
<1>2. Carries(<<test>>, Start, Start)
  BY Tested DEF Start
<1>3. Carries(<<arena>>, Start, handed)
  BY <1>1, Handed DEF Start
<1>4. PICK more : Carries(Downscale(options.divides, TRUE), handed, Known({}, more, {"scratch"}, 1, 0))
  BY <1>1, DownscaleCarries
<1> DEFINE then == Known({}, more, {"scratch"}, 1, 0)
           used == Known({}, more, {"scratch"}, 1, 1)
           end  == Known({}, more, {}, 0, 1)
<1>5. Carries(<<again>>, then, then)
  BY TestedReleasing
<1>6. Carries(<<use>>, then, then)
  BY <1>1, Used
<1>7. Carries(<<Write>>, then, used)
  BY Wrote
<1>8. Carries(<<Release>>, used, end)
  BY Released
<1>9. Phash = (<<test, arena>> \o Downscale(options.divides, TRUE)) \o <<again, use, Write, Release>>
  BY DEF Phash
<1> HIDE DEF test, arena, again, use, handed, then, used, end
<1>10. Carries(<<test, arena>>, Start, handed)
  BY <1>2, <1>3, Two
<1>11. Carries(<<again, use, Write, Release>>, then, end)
  BY <1>5, <1>6, <1>7, <1>8, Four
<1>12. Carries(<<test, arena>> \o Downscale(options.divides, TRUE), Start, then)
  BY <1>4, <1>10, Both DEF then
<1>13. Carries(Phash, Start, end)
  BY <1>9, <1>11, <1>12, Both
<1> QED
  BY <1>13 DEF Computes, end

LEMMA WhashComputes == Computes(Whash)
<1>1. CASE ~options.full
  BY <1>1, DownscalingComputes DEF Whash
<1>2. CASE options.full
  <2> DEFINE gray   == Base \cup {"gray"}
             both   == {"gray", "scratch"}
             arena  == Arena({"scratch"}, {})
             resize == Resize(both, {}, TRUE)
             use    == Use({"scratch"})
             then   == Known({}, gray, {}, 0, 0)
             handed == Known({}, gray, {"scratch"}, 1, 0)
             wrote  == Known({}, gray, {"scratch"}, 1, 1)
             end    == Known({}, gray, {}, 0, 1)
  <2>1. {"scratch"} \in SUBSET Names /\ both \in SUBSET Names /\ both \subseteq {} \cup gray \cup {"scratch"}
    BY DEF Names, Lasting
  <2>2. Carries(Gray(FALSE), Start, then)
    BY GrayCarries DEF Start
  <2>3. Carries(<<arena>>, then, handed)
    BY <2>1, Handed
  <2>4. Carries(<<resize>>, handed, handed)
    BY <2>1, Resized
  <2>5. Carries(<<use>>, handed, handed)
    BY <2>1, Used
  <2>6. Carries(<<Write>>, handed, wrote)
    BY Wrote
  <2>7. Carries(<<Release>>, wrote, end)
    BY Released
  <2>8. Whash = Gray(FALSE) \o <<arena, resize, use, Write, Release>>
    BY <1>2 DEF Whash
  <2> HIDE DEF arena, resize, use, then, handed, wrote, end
  <2>9. Carries(<<arena, resize, use, Write, Release>>, then, end)
    BY <2>3, <2>4, <2>5, <2>6, <2>7, Five
  <2>10. Carries(Whash, Start, end)
    BY <2>2, <2>8, <2>9, Both
  <2> QED
    BY <2>10 DEF Computes, end
<1> QED
  BY <1>1, <1>2

LEMMA BmhComputes == ASSUME options \in Options PROVE Computes(Bmh)
<1> DEFINE test    == Test("INVALID_ARGUMENT")
           arena   == Arena({"block_data"}, {})
           use     == Use({"block_data"})
           handed  == Known({}, Base, {"block_data"}, 1, 0)
<1>1. {"block_data"} \in SUBSET Names /\ options.divides \in BOOLEAN
  BY DEF Names, Options
<1>2. Carries(<<test>>, Start, Start)
  BY Tested DEF Start
<1>3. Carries(<<arena>>, Start, handed)
  BY <1>1, Handed DEF Start
<1>4. PICK more : Carries(Downscale(options.divides, TRUE), handed, Known({}, more, {"block_data"}, 1, 0))
  BY <1>1, DownscaleCarries
<1> DEFINE then == Known({}, more, {"block_data"}, 1, 0)
           used == Known({}, more, {"block_data"}, 1, 1)
           end  == Known({}, more, {}, 0, 1)
<1>5. Carries(<<use>>, then, then)
  BY <1>1, Used
<1>6. Carries(<<Write>>, then, used)
  BY Wrote
<1>7. Carries(<<Release>>, used, end)
  BY Released
<1>8. Bmh = (<<test, arena>> \o Downscale(options.divides, TRUE)) \o <<use, Write, Release>>
  BY DEF Bmh
<1> HIDE DEF test, arena, use, handed, then, used, end
<1>9. Carries(<<test, arena>>, Start, handed)
  BY <1>2, <1>3, Two
<1>10. Carries(<<use, Write, Release>>, then, end)
  BY <1>5, <1>6, <1>7, Three
<1>11. Carries(<<test, arena>> \o Downscale(options.divides, TRUE), Start, then)
  BY <1>4, <1>9, Both DEF then
<1>12. Carries(Bmh, Start, end)
  BY <1>8, <1>10, <1>11, Both
<1> QED
  BY <1>12 DEF Computes, end

LEMMA MhashComputes == Computes(Mhash)
<1> DEFINE gray    == Base \cup {"gray"}
           two     == {"work", "norm"}
           seen    == {"blurred", "norm"}
           held    == {"blurred"}
           test    == Test("INVALID_ARGUMENT")
           arena   == Arena(two, held)
           resize  == Resize(seen, held, TRUE)
           free    == Free(held)
           again   == TestReleasing("INVALID_ARGUMENT")
           use     == Use(two)
           blurred == Known(held, gray, {}, 0, 0)
           handed  == Known(held, gray, two, 1, 0)
           freed   == Known({}, gray, two, 1, 0)
           wrote   == Known({}, gray, two, 1, 1)
           end     == Known({}, gray, {}, 0, 1)
<1>1. /\ two \in SUBSET Names /\ seen \in SUBSET Names /\ held \in SUBSET Temporaries
      /\ seen \subseteq held \cup gray \cup two /\ two \subseteq {} \cup gray \cup two /\ held \ held = {}
  BY DEF Names, Temporaries
<1>2. Carries(<<test>>, Start, Start)
  BY Tested DEF Start
<1>3. Carries(Blur, Start, blurred)
  BY BlurCarries DEF Start
<1>4. Carries(<<arena>>, blurred, handed)
  BY <1>1, Handed
<1>5. Carries(<<resize>>, handed, handed)
  BY <1>1, Resized
<1>6. Carries(<<free>>, handed, freed)
  <2>1. Carries(<<free>>, handed, Known(held \ held, gray, two, 1, 0))
    BY <1>1, Freed
  <2> QED
    BY <1>1, <2>1
<1>7. Carries(<<again>>, freed, freed)
  BY TestedReleasing
<1>8. Carries(<<use>>, freed, freed)
  BY <1>1, Used
<1>9. Carries(<<Write>>, freed, wrote)
  BY Wrote
<1>10. Carries(<<Release>>, wrote, end)
  BY Released
<1>11. Mhash = (<<test>> \o Blur) \o <<arena, resize, free, again, use, Write, Release>>
  BY DEF Mhash
<1> HIDE DEF test, arena, resize, free, again, use, blurred, handed, freed, wrote, end
<1>12. Carries(<<test>> \o Blur, Start, blurred)
  BY <1>2, <1>3, Both
<1>13. Carries(<<arena, resize, free, again, use, Write, Release>>, blurred, end)
  BY <1>4, <1>5, <1>6, <1>7, <1>8, <1>9, <1>10, Seven
<1>14. Carries(Mhash, Start, end)
  BY <1>11, <1>12, <1>13, Both
<1> QED
  BY <1>14 DEF Computes, end

LEMMA RadialComputes == ASSUME NEW flat \in BOOLEAN PROVE Computes(Radial(flat))
<1> DEFINE gray    == Base \cup {"gray"}
           own     == {"variances"}
           seen    == {"blurred", "variances"}
           held    == {"blurred"}
           test    == Test("INVALID_ARGUMENT")
           arena   == Arena(own, held)
           use     == Use(seen)
           again   == Use(own)
           free    == Free(held)
           blurred == Known(held, gray, {}, 0, 0)
           handed  == Known(held, gray, own, 1, 0)
           back    == Known(held, gray, {}, 0, 0)
           freed   == Known({}, gray, {}, 0, 0)
           end     == Known({}, gray, {}, 0, 1)
<1>1. /\ own \in SUBSET Names /\ seen \in SUBSET Names /\ held \in SUBSET Temporaries
      /\ seen \subseteq held \cup gray \cup own /\ own \subseteq held \cup gray \cup own /\ held \ held = {}
  BY DEF Names, Temporaries
<1>2. Carries(<<test>>, Start, Start)
  BY Tested DEF Start
<1>3. Carries(Blur, Start, blurred)
  BY BlurCarries DEF Start
<1>4. Carries(<<arena>>, blurred, handed)
  BY <1>1, Handed
<1>5. Carries(<<use>>, handed, handed)
  BY <1>1, Used
<1>6. Carries(<<again>>, handed, handed)
  BY <1>1, Used
<1>7. Carries(<<Release>>, handed, back)
  BY Released
<1>8. Carries(<<free>>, back, freed)
  <2>1. Carries(<<free>>, back, Known(held \ held, gray, {}, 0, 0))
    BY <1>1, Freed
  <2> QED
    BY <1>1, <2>1
<1>9. Carries(<<test>>, freed, freed)
  BY Tested
<1>10. Carries(<<Write>>, freed, end)
  BY Wrote
<1>11. Radial(flat) = ((<<test>> \o Blur) \o <<arena, use>>) \o
           (IF flat THEN <<Release, free, Write>> ELSE <<again, Release, free, test, Write>>)
  BY DEF Radial
<1> HIDE DEF test, arena, use, again, free, blurred, handed, back, freed, end
<1>12. Carries(<<test>> \o Blur, Start, blurred)
  BY <1>2, <1>3, Both
<1>13. Carries(<<arena, use>>, blurred, handed)
  BY <1>4, <1>5, Two
<1>14. Carries((<<test>> \o Blur) \o <<arena, use>>, Start, handed)
  BY <1>12, <1>13, Both
<1>15. Carries(<<Release, free, Write>>, handed, end)
  BY <1>7, <1>8, <1>10, Three
<1>16. Carries(<<again, Release, free, test, Write>>, handed, end)
  BY <1>6, <1>7, <1>8, <1>9, <1>10, Five
<1>17. Carries(Radial(flat), Start, end)
  <2>1. CASE flat
    BY <1>11, <1>14, <1>15, <2>1, Both
  <2>2. CASE ~flat
    BY <1>11, <1>14, <1>16, <2>2, Both
  <2> QED
    BY <2>1, <2>2
<1> QED
  BY <1>17 DEF Computes, end

LEMMA ColorsCompute == Computes(ColorHash) /\ Computes(ColorMoments)
<1> DEFINE end  == Known({}, Base, {}, 0, 1)
           test == Test(IF options.color THEN "none" ELSE "REQUIRES_COLOR")
<1>1. Carries(<<test>>, Start, Start)
  <2>1. CASE options.color
    BY <2>1, Tested DEF Start
  <2>2. CASE ~options.color
    BY <2>2, Tested DEF Start
  <2> QED
    BY <2>1, <2>2
<1>2. Carries(<<Write>>, Start, end)
  BY Wrote DEF Start
<1>3. ColorHash = <<test, Write>> /\ ColorMoments = <<test, Write>>
  BY DEF ColorHash, ColorMoments
<1> HIDE DEF test, end
<1>4. Carries(<<test, Write>>, Start, end)
  BY <1>1, <1>2, Two
<1> QED
  BY <1>3, <1>4 DEF Computes, end

Algorithms == {"ahash", "dhash", "phash", "whash", "bmh", "mhash", "radial", "color", "moments"}

LEMMA ProgramsCompute ==
    ASSUME options \in Options, NEW algorithm \in Algorithms, NEW flat \in BOOLEAN
    PROVE  Computes(Program(algorithm, flat))
<1>1. CASE algorithm = "ahash"
  <2>1. Program(algorithm, flat) = Downscale(TRUE, FALSE) \o <<Write>>
    BY <1>1 DEF Program, Ahash
  <2> QED
    BY <2>1, DownscalingComputes
<1>2. CASE algorithm = "dhash"
  BY <1>2, DhashComputes DEF Program
<1>3. CASE algorithm = "phash"
  BY <1>3, PhashComputes DEF Program
<1>4. CASE algorithm = "whash"
  BY <1>4, WhashComputes DEF Program
<1>5. CASE algorithm = "bmh"
  BY <1>5, BmhComputes DEF Program
<1>6. CASE algorithm = "mhash"
  BY <1>6, MhashComputes DEF Program
<1>7. CASE algorithm = "radial"
  BY <1>7, RadialComputes DEF Program
<1>8. CASE algorithm \in {"color", "moments"}
  BY <1>8, ColorsCompute DEF Program
<1> QED
  BY <1>1, <1>2, <1>3, <1>4, <1>5, <1>6, <1>7, <1>8 DEF Algorithms
-----------------------------------------------------------------------------
\* What is known is so.
Holds(a) ==
    /\ a.temps = heap \cap Temporaries
    /\ a.kept \subseteq heap \cup (IF options.color THEN {} ELSE {"gray"})
    /\ a.kept \subseteq Lasting
    /\ a.good \subseteq live
    /\ a.used = 0 => blocks = 0
    /\ a.wrote \in {0, 1}
    /\ \A i \in 1..Len(slots) : slots[i] = "written" <=> i < Slot + a.wrote

Typed ==
    /\ options \in Options
    /\ queue \in Seq(Algorithms)
    /\ slots \in Seq({"callers", "written"})
    /\ Len(queue) <= Len(slots)

\* Between calls nothing is held and the outputs tell where the last one stopped.
Idle ==
    /\ queue = <<>>
    /\ heap \cap Temporaries = {} /\ blocks = 0
    /\ \E k \in 0..Len(slots) : /\ \A i \in 1..Len(slots) : slots[i] = "written" <=> i <= k
                                /\ status = "SUCCESS" <=> k = Len(slots)

\* In a call the steps left may be taken, and lead to a function's end.
Busy ==
    /\ queue # <<>>
    /\ \E a, more : Carries(todo, a, Known({}, more, {}, 0, 1)) /\ Holds(a)

IInv == Typed /\ (Running => Busy) /\ (~Running => Idle)

LEMMA RequestsAreSequences ==
    ASSUME NEW algorithms \in Single \cup Multi
    PROVE  algorithms \in Seq(Algorithms) /\ algorithms # <<>>
<1>1. CASE algorithms \in Single
  <2>1. PICK algorithm \in Algorithms : algorithms = <<algorithm>>
    BY <1>1 DEF Single, Algorithms
  <2> QED
    BY <2>1
<1>2. CASE algorithms \in Multi
  <2>1. PICK a \in {<<>>, <<"ahash">>}, d \in {<<>>, <<"dhash">>}, p \in {<<>>, <<"phash">>},
             w \in {<<>>, <<"whash">>} : algorithms = a \o d \o p \o w
    BY <1>2 DEF Multi
  <2>2. <<>> \in Seq(Algorithms) /\ <<"ahash">> \in Seq(Algorithms) /\ <<"dhash">> \in Seq(Algorithms)
        /\ <<"phash">> \in Seq(Algorithms) /\ <<"whash">> \in Seq(Algorithms)
    BY DEF Algorithms
  <2>3. a \in Seq(Algorithms) /\ d \in Seq(Algorithms) /\ p \in Seq(Algorithms) /\ w \in Seq(Algorithms)
    BY <2>2
  <2>4. a \o d \o p \o w \in Seq(Algorithms)
    BY <2>3, ConcatProperties
  <2>5. algorithms # <<>>
    BY <1>2 DEF Multi
  <2> QED
    BY <2>1, <2>4, <2>5
<1> QED
  BY <1>1, <1>2

\* A failing step leaves things as they are between calls.
LEMMA FailureEnds ==
    ASSUME IInv, Running, todo # <<>>, MayFail(Step),
           NEW error \in {"INVALID_ARGUMENT", "REQUIRES_COLOR", "ALLOCATION_FAILED"},
           NEW got, got \subseteq (IF Step.do = "take" THEN Step.what ELSE {}), FailWith(error, got)
    PROVE  IInv'
<1>1. PICK a, more : Carries(todo, a, Known({}, more, {}, 0, 1)) /\ Holds(a)
  BY DEF IInv, Busy
<1>2. Step \in Steps /\ Allowed(Step, a)
  BY <1>1, FirstStep DEF Step
<1>3. /\ a.temps \cup (IF Step.do = "take" THEN Step.what \cap Temporaries ELSE {}) \subseteq Step.frees
      /\ a.used = 0 \/ Step.releases
      /\ a.wrote = 0
  BY <1>2 DEF Allowed
<1>4. ~Running' /\ queue' = <<>>
  BY DEF FailWith, Running
<1>5. heap' \cap Temporaries = {}
  BY <1>1, <1>3 DEF FailWith, Holds
<1>6. blocks' = 0
  BY <1>1, <1>3 DEF FailWith, Holds, resources
<1>7. Typed'
  <2>1. queue' \in Seq(Algorithms) /\ Len(queue') = 0 /\ Len(slots) \in Nat
    BY <1>4 DEF IInv, Typed
  <2> QED
    BY <2>1 DEF FailWith, IInv, Typed
<1>8. \E k \in 0..Len(slots') : /\ \A i \in 1..Len(slots') : slots'[i] = "written" <=> i <= k
                                /\ status' = "SUCCESS" <=> k = Len(slots')
  <2> DEFINE k == Len(slots) - Len(queue)
  <2>1. Len(queue) \in Nat \ {0} /\ Len(slots) \in Nat /\ Len(queue) <= Len(slots)
    BY DEF IInv, Typed, Busy
  <2>2. \A i \in 1..Len(slots) : slots[i] = "written" <=> i <= k
    BY <1>1, <1>3, <2>1 DEF Holds, Slot
  <2>3. k \in 0..Len(slots) /\ k # Len(slots) /\ status' # "SUCCESS" /\ slots' = slots
    BY <2>1 DEF FailWith
  <2> QED
    BY <2>2, <2>3
<1> QED
  BY <1>4, <1>5, <1>6, <1>7, <1>8 DEF IInv, Idle

\* A step that succeeds leads on.
LEMMA AdvanceLeads ==
    ASSUME IInv, Running, todo # <<>>, Advance, Len(slots') = Len(slots),
           slots' \in Seq({"callers", "written"}),
           \A a, b : Allowed(Step, a) /\ Holds(a) /\ b = After(Step, a) => Holds(b)'
    PROVE  IInv'
<1>1. PICK a, more : Carries(todo, a, Known({}, more, {}, 0, 1)) /\ Holds(a)
  BY DEF IInv, Busy
<1>2. PICK b : b = After(Step, a)
  OBVIOUS
<1>3. Allowed(Step, a) /\ Carries(todo', b, Known({}, more, {}, 0, 1))
  BY <1>1, <1>2, FirstStep DEF Step, Advance
<1>4. Holds(b)'
  BY <1>1, <1>2, <1>3
<1>5. Busy'
  BY <1>3, <1>4 DEF Busy, Advance, IInv
<1>6. Running'
  BY DEF Running, Advance
<1>7. Typed'
  BY DEF Typed, Advance, IInv
<1> QED
  BY <1>5, <1>6, <1>7 DEF IInv

LEMMA CallBegins ==
    ASSUME IInv, NEW algorithms \in Single \cup Multi, Call(algorithms)
    PROVE  IInv'
<1>1. algorithms \in Seq(Algorithms) /\ algorithms # <<>> /\ Len(algorithms) \in Nat \ {0}
      /\ Head(algorithms) \in Algorithms
  BY RequestsAreSequences
<1>2. slots' \in Seq({"callers", "written"}) /\ Len(slots') = Len(algorithms)
      /\ \A i \in 1..Len(slots') : slots'[i] = "callers"
  <2> DEFINE s == [k \in 1..Len(algorithms) |-> "callers"]
  <2>1. s \in [1..Len(algorithms) -> {"callers", "written"}]
    OBVIOUS
  <2>2. s \in Seq({"callers", "written"}) /\ Len(s) = Len(algorithms)
    BY <1>1, <2>1
  <2>3. \A i \in 1..Len(algorithms) : s[i] = "callers"
    OBVIOUS
  <2>4. slots' = s
    BY DEF Call
  <2> HIDE DEF s
  <2> QED
    BY <2>2, <2>3, <2>4
<1>3. Idle /\ options' = options /\ heap' = heap /\ blocks' = blocks /\ live' = live
  BY DEF IInv, Call, resources
<1>4. CASE options.loaded
  <2>1. PICK flat \in BOOLEAN : todo' = Program(Head(algorithms), flat)
    BY <1>4 DEF Call
  <2>2. queue' = algorithms /\ status' = "none"
    BY <1>4 DEF Call
  <2>3. PICK more, begun : begun = Start /\ Carries(todo', begun, Known({}, more, {}, 0, 1))
    BY <1>1, <2>1, ProgramsCompute DEF Computes, IInv, Typed
  <2>4. Slot' = 1
    BY <1>1, <1>2, <2>2 DEF Slot
  <2>5. Holds(begun)'
    <3>1. \A i \in 1..Len(slots') : slots'[i] # "written" /\ ~(i < Slot' + 0)
      BY <1>2, <2>4
    <3> QED
      BY <1>3, <2>3, <3>1 DEF Holds, Start, Known, Idle, Base, Lasting
  <2>6. Busy'
    BY <1>1, <2>2, <2>3, <2>5 DEF Busy
  <2>7. Typed'
    BY <1>1, <1>2, <1>3, <2>2 DEF IInv, Typed
  <2> QED
    BY <2>2, <2>6, <2>7 DEF IInv, Running
<1>5. CASE ~options.loaded
  <2>1. status' = "EMPTY_IMAGE" /\ queue' = queue
    BY <1>5 DEF Call
  <2>2. \E k \in 0..Len(slots') : /\ \A i \in 1..Len(slots') : slots'[i] = "written" <=> i <= k
                                  /\ status' = "SUCCESS" <=> k = Len(slots')
    <3>1. 0 \in 0..Len(slots') /\ 0 # Len(slots') /\ \A i \in 1..Len(slots') : ~(i <= 0)
      BY <1>1, <1>2
    <3> QED
      BY <1>2, <2>1, <3>1
  <2>3. Idle'
    BY <1>3, <2>1, <2>2 DEF Idle
  <2>4. Typed'
    <3>1. queue' \in Seq(Algorithms) /\ Len(queue') = 0
      BY <1>3, <2>1 DEF Idle
    <3> QED
      BY <1>1, <1>2, <1>3, <3>1 DEF IInv, Typed
  <2> QED
    BY <2>1, <2>3, <2>4 DEF IInv, Running
<1> QED
  BY <1>4, <1>5

LEMMA RefusalKeeps == ASSUME IInv, CallRefused PROVE IInv'
<1>1. slots' = <<"callers">> /\ status' = "INVALID_ARGUMENT" /\ Idle
      /\ options' = options /\ queue' = queue /\ heap' = heap /\ blocks' = blocks
  BY DEF CallRefused, IInv, resources
<1>2. Len(slots') = 1 /\ slots' \in Seq({"callers", "written"}) /\ slots'[1] = "callers"
  BY <1>1
<1>3. \E k \in 0..Len(slots') : /\ \A i \in 1..Len(slots') : slots'[i] = "written" <=> i <= k
                                /\ status' = "SUCCESS" <=> k = Len(slots')
  <2>1. 0 \in 0..1 /\ \A i \in 1..1 : i = 1 /\ ~(i <= 0)
    OBVIOUS
  <2> QED
    BY <1>1, <1>2, <2>1
<1>4. Idle'
  BY <1>1, <1>3 DEF Idle
<1>5. queue' \in Seq(Algorithms) /\ Len(queue') = 0
  BY <1>1 DEF Idle
<1> QED
  BY <1>1, <1>2, <1>4, <1>5 DEF IInv, Typed, Running

\* A function ends; ph_compute_multi() begins the next one or ends too.
LEMMA SuccessKeeps == ASSUME IInv, Succeed PROVE IInv'
<1>1. PICK a, more : Carries(todo, a, Known({}, more, {}, 0, 1)) /\ Holds(a)
  BY DEF IInv, Busy, Succeed
<1>2. a = Known({}, more, {}, 0, 1)
  <2>1. Len(todo) = 0
    BY DEF Succeed
  <2> QED
    BY <1>1, <2>1 DEF Carries
<1>3. heap \cap Temporaries = {} /\ blocks = 0
      /\ \A i \in 1..Len(slots) : slots[i] = "written" <=> i < Slot + 1
  BY <1>1, <1>2 DEF Holds, Known
<1>4. options' = options /\ heap' = heap /\ blocks' = blocks /\ live' = live /\ slots' = slots
      /\ queue' = Tail(queue)
  BY DEF Succeed, resources
<1>5. Len(queue) \in Nat \ {0} /\ Len(slots) \in Nat /\ Len(queue) <= Len(slots)
      /\ queue' \in Seq(Algorithms) /\ Len(queue') = Len(queue) - 1
  BY <1>4 DEF IInv, Typed, Busy, Succeed
<1>6. Typed'
  BY <1>4, <1>5 DEF IInv, Typed
<1>7. CASE queue' = <<>>
  <2>1. status' = "SUCCESS"
    BY <1>7 DEF Succeed
  <2>2. Slot = Len(slots)
    <3>1. Len(queue') = 0
      BY <1>7
    <3>2. Len(queue) = 1
      BY <1>5, <3>1
    <3>3. Len(slots) - 1 + 1 = Len(slots)
      BY <1>5
    <3> QED
      BY <3>2, <3>3 DEF Slot
  <2>3. \A i \in 1..Len(slots) : slots[i] = "written" /\ i <= Len(slots)
    BY <1>3, <1>5, <2>2
  <2>4. Idle'
    BY <1>3, <1>4, <1>5, <1>7, <2>1, <2>3 DEF Idle
  <2> QED
    BY <1>6, <2>1, <2>4 DEF IInv, Running
<1>8. CASE queue' # <<>>
  <2>1. todo' = Program(Head(queue'), FALSE) /\ status' = status
    BY <1>8 DEF Succeed
  <2>2. Head(queue') \in Algorithms
    BY <1>5, <1>8
  <2>3. PICK end, begun : begun = Start /\ Carries(todo', begun, Known({}, end, {}, 0, 1))
    BY <2>1, <2>2, ProgramsCompute DEF Computes, IInv, Typed
  <2>4. Slot' = Slot + 1
    BY <1>4, <1>5 DEF Slot
  <2>5. Slot \in Int
    BY <1>5 DEF Slot
  <2>6. \A i \in 1..Len(slots') : slots'[i] = "written" <=> i < Slot' + 0
    BY <1>3, <1>4, <2>4, <2>5
  <2>7. Holds(begun)'
    BY <1>3, <1>4, <2>3, <2>6 DEF Holds, Start, Known, Base, Lasting
  <2>8. Busy'
    BY <1>8, <2>3, <2>7 DEF Busy
  <2> QED
    BY <1>6, <2>1, <2>8 DEF IInv, Running, Succeed
<1> QED
  BY <1>7, <1>8

-----------------------------------------------------------------------------
\* The actions, one by one.  What is known after a step is so after the action.
LEMMA TestPassing == ASSUME IInv, TestPasses PROVE IInv'
<1>1. /\ Running /\ todo # <<>> /\ Step.do = "test" /\ Advance
      /\ heap' = heap /\ blocks' = blocks /\ live' = live /\ slots' = slots
  BY DEF TestPasses, At, resources
<1>2. ASSUME NEW a, NEW b, Allowed(Step, a), Holds(a), b = After(Step, a) PROVE Holds(b)'
  <2>1. b = a
    BY <1>1, <1>2 DEF After
  <2> QED
    BY <1>1, <1>2, <2>1 DEF Holds, Advance, Slot
<1>3. slots' \in Seq({"callers", "written"})
  BY <1>1 DEF IInv, Typed
<1> QED
  BY <1>1, <1>2, <1>3, AdvanceLeads

LEMMA ComputingKeeps == ASSUME IInv, Compute PROVE IInv'
<1>1. /\ Running /\ todo # <<>> /\ Step.do \in {"use", "resize"} /\ Advance
      /\ heap' = heap /\ blocks' = blocks /\ live' = live /\ slots' = slots
  BY DEF Compute, At, resources
<1>2. ASSUME NEW a, NEW b, Allowed(Step, a), Holds(a), b = After(Step, a) PROVE Holds(b)'
  <2>1. b = a
    BY <1>1, <1>2 DEF After
  <2> QED
    BY <1>1, <1>2, <2>1 DEF Holds, Advance, Slot
<1>3. slots' \in Seq({"callers", "written"})
  BY <1>1 DEF IInv, Typed
<1> QED
  BY <1>1, <1>2, <1>3, AdvanceLeads

LEMMA TakingKeeps == ASSUME IInv, TakeAll PROVE IInv'
<1>1. /\ Running /\ todo # <<>> /\ Step.do = "take" /\ Advance /\ heap' = heap \cup Step.what
      /\ blocks' = blocks /\ live' = live /\ slots' = slots
  BY DEF TakeAll, At
<1>2. ASSUME NEW a, NEW b, Allowed(Step, a), Holds(a), b = After(Step, a) PROVE Holds(b)'
  <2>1. b = Known(a.temps \cup (Step.what \cap Temporaries), a.kept \cup (Step.what \cap Lasting),
                  a.good, a.used, a.wrote)
    BY <1>1, <1>2 DEF After
  <2> QED
    BY <1>1, <1>2, <2>1 DEF Holds, Known, Advance, Slot
<1>3. slots' \in Seq({"callers", "written"})
  BY <1>1 DEF IInv, Typed
<1> QED
  BY <1>1, <1>2, <1>3, AdvanceLeads

LEMMA BlockKeeps == ASSUME IInv, GetBlock PROVE IInv'
<1>1. /\ Running /\ todo # <<>> /\ Step.do = "arena" /\ Advance /\ Step.what \subseteq live'
      /\ heap' = heap /\ slots' = slots
  BY DEF GetBlock, At
<1>2. ASSUME NEW a, NEW b, Allowed(Step, a), Holds(a), b = After(Step, a) PROVE Holds(b)'
  <2>1. b = Known(a.temps, a.kept, Step.what, 1, a.wrote)
    BY <1>1, <1>2 DEF After
  <2> QED
    BY <1>1, <1>2, <2>1 DEF Holds, Known, Advance, Slot
<1>3. slots' \in Seq({"callers", "written"})
  BY <1>1 DEF IInv, Typed
<1> QED
  BY <1>1, <1>2, <1>3, AdvanceLeads

LEMMA ValidKeeps == ASSUME IInv, SetValid PROVE IInv'
<1>1. /\ Running /\ todo # <<>> /\ Step.do = "valid" /\ Advance /\ heap' = heap \cup {"grid"}
      /\ blocks' = blocks /\ live' = live /\ slots' = slots
  BY DEF SetValid, At
<1>2. ASSUME NEW a, NEW b, Allowed(Step, a), Holds(a), b = After(Step, a) PROVE Holds(b)'
  <2>1. b = Known(a.temps, a.kept \cup {"grid"}, a.good, a.used, a.wrote)
    BY <1>1, <1>2 DEF After
  <2>2. heap' \cap Temporaries = heap \cap Temporaries /\ {"grid"} \subseteq Lasting
    BY <1>1 DEF Temporaries, Lasting
  <2> QED
    BY <1>1, <1>2, <2>1, <2>2 DEF Holds, Known, Advance, Slot
<1>3. slots' \in Seq({"callers", "written"})
  BY <1>1 DEF IInv, Typed
<1> QED
  BY <1>1, <1>2, <1>3, AdvanceLeads

LEMMA GivingBackKeeps == ASSUME IInv, GiveBack PROVE IInv'
<1>1. CASE At("free") /\ heap' = heap \ Step.what /\ Advance /\ UNCHANGED <<blocks, live, slots>>
  <2>1. /\ Running /\ todo # <<>> /\ Step.do = "free" /\ Advance /\ heap' = heap \ Step.what
        /\ blocks' = blocks /\ live' = live /\ slots' = slots
    BY <1>1 DEF At
  <2>2. ASSUME NEW a, NEW b, Allowed(Step, a), Holds(a), b = After(Step, a) PROVE Holds(b)'
    <3>1. b = Known(a.temps \ Step.what, a.kept, a.good, a.used, a.wrote)
      BY <2>1, <2>2 DEF After
    <3>2. Step.what \cap Lasting = {}
      BY <2>1, <2>2 DEF Allowed
    <3>3. a.kept \subseteq heap' \cup (IF options'.color THEN {} ELSE {"gray"})
      <4>1. a.kept \subseteq Lasting /\ a.kept \subseteq heap \cup (IF options.color THEN {} ELSE {"gray"})
        BY <2>2 DEF Holds
      <4> QED
        BY <2>1, <3>2, <4>1 DEF Advance
    <3> QED
      BY <2>1, <2>2, <3>1, <3>3 DEF Holds, Known, Advance, Slot
  <2>3. slots' \in Seq({"callers", "written"})
    BY <2>1 DEF IInv, Typed
  <2> QED
    BY <2>1, <2>2, <2>3, AdvanceLeads
<1>2. CASE At("release") /\ blocks' = 0 /\ live' = {} /\ Advance /\ UNCHANGED <<heap, slots>>
  <2>1. /\ Running /\ todo # <<>> /\ Step.do = "release" /\ Advance /\ heap' = heap
        /\ blocks' = 0 /\ live' = {} /\ slots' = slots
    BY <1>2 DEF At
  <2>2. ASSUME NEW a, NEW b, Allowed(Step, a), Holds(a), b = After(Step, a) PROVE Holds(b)'
    <3>1. b = Known(a.temps, a.kept, {}, 0, a.wrote)
      BY <2>1, <2>2 DEF After
    <3> QED
      BY <2>1, <2>2, <3>1 DEF Holds, Known, Advance, Slot
  <2>3. slots' \in Seq({"callers", "written"})
    BY <2>1 DEF IInv, Typed
  <2> QED
    BY <2>1, <2>2, <2>3, AdvanceLeads
<1> QED
  BY <1>1, <1>2 DEF GiveBack

LEMMA WritingKeeps == ASSUME IInv, WriteOutput PROVE IInv'
<1>1. /\ Running /\ todo # <<>> /\ Step.do = "write" /\ Advance
      /\ heap' = heap /\ blocks' = blocks /\ live' = live
      /\ slots' = [slots EXCEPT ![Slot] = "written"]
  BY DEF WriteOutput, At, resources
<1>2. Len(queue) \in Nat \ {0} /\ Len(slots) \in Nat /\ Len(queue) <= Len(slots)
  BY <1>1 DEF IInv, Typed, Busy
<1>3. Slot \in 1..Len(slots)
  BY <1>2 DEF Slot
<1>4. slots' \in Seq({"callers", "written"}) /\ Len(slots') = Len(slots)
      /\ slots'[Slot] = "written" /\ \A i \in 1..Len(slots) : i # Slot => slots'[i] = slots[i]
  BY <1>1, <1>3 DEF IInv, Typed
<1>5. Slot' = Slot
  BY <1>1, <1>4 DEF Slot, Advance
<1>6. ASSUME NEW a, NEW b, Allowed(Step, a), Holds(a), b = After(Step, a) PROVE Holds(b)'
  <2>1. b = Known(a.temps, a.kept, a.good, a.used, 1)
    BY <1>1, <1>6 DEF After
  <2>2. a.wrote = 0
    BY <1>1, <1>6 DEF Allowed
  <2>3. \A i \in 1..Len(slots) : slots[i] = "written" <=> i < Slot
    BY <1>3, <1>6, <2>2 DEF Holds
  <2>4. \A i \in 1..Len(slots') : slots'[i] = "written" <=> i < Slot' + 1
    BY <1>3, <1>4, <1>5, <2>3
  <2> QED
    BY <1>1, <1>6, <2>1, <2>4 DEF Holds, Known, Advance
<1> QED
  BY <1>1, <1>4, <1>6, AdvanceLeads

LEMMA StepsAreTyped ==
    ASSUME IInv, Running, todo # <<>>
    PROVE  /\ Step \in Steps
           /\ Step.do \in {"use", "resize"} =>
                Step.what \subseteq heap \cup live \cup (IF options.color THEN {} ELSE {"gray"})
<1>1. PICK a, more : Carries(todo, a, Known({}, more, {}, 0, 1)) /\ Holds(a)
  BY DEF IInv, Busy
<1>2. Step \in Steps /\ Allowed(Step, a)
  BY <1>1, FirstStep DEF Step
<1> QED
  BY <1>1, <1>2 DEF Allowed, Holds

LEMMA FailuresKeep ==
    ASSUME IInv, TestFails \/ TakeFails \/ GetBlockFails \/ ResizeFails
    PROVE  IInv'
<1>1. CASE TestFails
  <2>1. Running /\ todo # <<>> /\ Step.do = "test" /\ Step.error # "none" /\ FailWith(Step.error, {})
    BY <1>1 DEF TestFails, At, Fail
  <2>2. Step.error \in {"INVALID_ARGUMENT", "REQUIRES_COLOR"}
    BY <2>1, StepsAreTyped DEF Steps
  <2> QED
    BY <2>1, <2>2, FailureEnds DEF MayFail
<1>2. CASE TakeFails
  <2>1. PICK some \in SUBSET Step.what : FailWith("ALLOCATION_FAILED", some)
    BY <1>2 DEF TakeFails
  <2>2. Running /\ todo # <<>> /\ Step.do = "take"
    BY <1>2 DEF TakeFails, At
  <2> QED
    BY <2>1, <2>2, FailureEnds DEF MayFail
<1>3. CASE GetBlockFails \/ ResizeFails
  <2>1. Running /\ todo # <<>> /\ Step.do \in {"arena", "resize"} /\ FailWith("ALLOCATION_FAILED", {})
    BY <1>3 DEF GetBlockFails, ResizeFails, At, Fail
  <2> QED
    BY <2>1, FailureEnds DEF MayFail
<1> QED
  BY <1>1, <1>2, <1>3

-----------------------------------------------------------------------------
\* The inductive invariant: while a function runs, the steps it has left are allowed
\* by what is known of the buffers, and what is known is so; between calls nothing
\* is held.
THEOREM InductiveInvariant == Spec => []IInv
<1>1. Init => IInv
  <2> SUFFICES ASSUME Init PROVE IInv
    OBVIOUS
  <2>1. Len(slots) = 0 /\ Len(queue) = 0 /\ queue = <<>> /\ slots = <<>>
    BY DEF Init
  <2>2. Typed
    BY <2>1 DEF Init, Typed
  <2>3. \E k \in 0..Len(slots) : /\ \A i \in 1..Len(slots) : slots[i] = "written" <=> i <= k
                                 /\ status = "SUCCESS" <=> k = Len(slots)
    BY <2>1 DEF Init
  <2>4. Idle
    BY <2>1, <2>3 DEF Init, Idle
  <2> QED
    BY <2>2, <2>4 DEF IInv, Init, Running
<1>2. IInv /\ [Next]_vars => IInv'
  <2> SUFFICES ASSUME IInv, [Next]_vars PROVE IInv'
    OBVIOUS
  <2>1. CASE Next
    <3>1. ASSUME NEW algorithms \in Single \cup Multi, Call(algorithms) PROVE IInv'
      BY <3>1, CallBegins
    <3> QED
      BY <2>1, <3>1, RefusalKeeps, TestPassing, ComputingKeeps, TakingKeeps, BlockKeeps, ValidKeeps,
         GivingBackKeeps, WritingKeeps, FailuresKeep, SuccessKeeps DEF Next
  <2>2. CASE UNCHANGED vars
    <3>1. /\ options' = options /\ todo' = todo /\ queue' = queue /\ heap' = heap /\ blocks' = blocks
          /\ live' = live /\ slots' = slots /\ status' = status
      BY <2>2 DEF vars, resources
    <3>2. \A a : Holds(a)' <=> Holds(a)
      BY <3>1 DEF Holds, Slot
    <3>3. Busy' <=> Busy
      BY <3>1, <3>2 DEF Busy
    <3>4. (Idle' <=> Idle) /\ (Typed' <=> Typed) /\ (Running' <=> Running)
      BY <3>1 DEF Idle, Typed, Running
    <3> QED
      BY <3>3, <3>4 DEF IInv
  <2> QED
    BY <2>1, <2>2
<1> QED
  BY <1>1, <1>2, PTL DEF Spec

\* No function, whatever step of it fails, works on a buffer that is not there or
\* keeps one after it has returned.
THEOREM BuffersTakeTurns == Spec => []BuffersInTurn
<1>1. IInv => BuffersInTurn
  <2> SUFFICES ASSUME IInv PROVE BuffersInTurn
    OBVIOUS
  <2>1. ~Running => heap \cap Temporaries = {} /\ blocks = 0
    BY DEF IInv, Idle
  <2>2. ASSUME At("use") \/ At("resize")
        PROVE  Step.what \subseteq heap \cup live \cup (IF options.color THEN {} ELSE {"gray"})
    <3>1. Running /\ todo # <<>> /\ Step.do \in {"use", "resize"}
      BY <2>2 DEF At
    <3> QED
      BY <3>1, StepsAreTyped
  <2> QED
    BY <2>1, <2>2 DEF BuffersInTurn
<1> QED
  BY <1>1, InductiveInvariant, PTL

\* The outputs written are those before the algorithm at which the call stopped.
THEOREM OutputsMatchStatus == Spec => []OutputsTellStatus
<1>1. IInv => OutputsTellStatus
  <2> SUFFICES ASSUME IInv, ~Running PROVE /\ (status = "SUCCESS") <=> (Written = DOMAIN slots)
                                           /\ \E k \in 0..Len(slots) : Written = 1..k
    BY DEF OutputsTellStatus
  <2>1. PICK k \in 0..Len(slots) : /\ \A i \in 1..Len(slots) : slots[i] = "written" <=> i <= k
                                   /\ status = "SUCCESS" <=> k = Len(slots)
    BY DEF IInv, Idle
  <2>2. DOMAIN slots = 1..Len(slots) /\ Len(slots) \in Nat
    BY DEF IInv, Typed
  <2>3. Written = 1..k
    <3>1. \A i : i \in Written <=> i \in 1..Len(slots) /\ i <= k
      BY <2>1, <2>2 DEF Written
    <3>2. \A i : i \in 1..Len(slots) /\ i <= k <=> i \in 1..k
      BY <2>2
    <3> QED
      BY <3>1, <3>2
  <2>4. (1..k = 1..Len(slots)) <=> k = Len(slots)
    <3> DEFINE n == Len(slots)
    <3>0. n \in Nat /\ k \in 0..n
      BY <2>2
    <3> HIDE DEF n
    <3>1. CASE k # n
      <4>1. k \in Nat /\ k < n
        BY <3>0, <3>1
      <4>2. n \in 1..n /\ n \notin 1..k
        BY <3>0, <4>1
      <4> QED
        BY <3>1, <4>2 DEF n
    <3> QED
      BY <3>1 DEF n
  <2> QED
    BY <2>1, <2>2, <2>3, <2>4
<1> QED
  BY <1>1, InductiveInvariant, PTL
=============================================================================
