----------------------------- MODULE GateProofs -----------------------------
(***************************************************************************)
(* Proofs about Gate, for any number of threads, runs, agents, tools,      *)
(* mandates and versions, and about Budgets, for any number of threads,    *)
(* trajectories, ceilings and moments.                                     *)
(***************************************************************************)
EXTENDS Gate, Budgets, FiniteSetTheorems, WellFoundedInduction, SequenceTheorems, TLAPS

-----------------------------------------------------------------------------
(* The inductive invariant of Gate *)

Distinct(s) == \A i, j \in 1..Len(s) : s[i] = s[j] => i = j

\* The latch's tables are dicts over the runs, agents and tools there are.
LatchType(l) ==
    /\ l = [runs |-> l.runs, versions |-> l.versions, denied |-> l.denied,
            halted |-> l.halted]
    /\ l.runs \in Seq(Runs)
    /\ DOMAIN l.versions \subseteq Runs \X Agents
    /\ DOMAIN l.denied \subseteq Runs \X Agents \X Tools
    /\ DOMAIN l.halted \subseteq Runs
    /\ \A k \in DOMAIN l.denied : l.denied[k] \in Nat

\* What is denied was denied under a version the latch knows.
DeniedVersioned(l) ==
    \A r \in Runs, a \in Agents, tool \in Tools :
        <<r, a, tool>> \in DOMAIN l.denied => <<r, a>> \in DOMAIN l.versions

\* A halt stands on the attempts that brought it about.
Caused(l) ==
    \A r \in DOMAIN l.halted :
        /\ l.halted[r].agent \in Agents /\ l.halted[r].tool \in Tools
        /\ l.halted[r].attempts \in Nat /\ l.halted[r].attempts >= Threshold
        /\ <<r, l.halted[r].agent, l.halted[r].tool>> \in DOMAIN l.denied
        /\ l.denied[<<r, l.halted[r].agent, l.halted[r].tool>>] >= l.halted[r].attempts

\* Denials belong to runs in R.
Placed(l, R) ==
    \A r \in Runs, a \in Agents, tool \in Tools : <<r, a, tool>> \in DOMAIN l.denied => r \in R

\* The part of the latch that is right at every step of an operation on it.
LatchCore(l) == LatchType(l) /\ DeniedVersioned(l) /\ Caused(l)

RunsOK(l) == Distinct(l.runs) /\ Len(l.runs) <= MaxRuns

LatchInv(l) == LatchCore(l) /\ RunsOK(l) /\ Placed(l, Range(l.runs))

\* Below, s is the Boss' snapshot and cs the calls.  A version of the Boss'
\* mandate that is in force, or was.
BossVersion(s, v) == \E n \in 0..s.ver : v = <<n>>

\* A call of the Boss that is under way.
BossCall(c) == c # NoCall /\ c.pc \notin Ended /\ c.agent = Boss

\* The calls of the Boss under version v know that a mandate bars the tool.
Told(cs, v, tool) ==
    \A t \in Threads :
        BossCall(cs[t]) /\ cs[t].tool = tool /\ cs[t].ver = v => cs[t].outside

\* A scope denial of the Boss under version v is one its calls under v know
\* of, and the mandate bears it out if v is its version still.
Borne(s, cs, v, tool) == (v = <<s.ver>> => Bars(s, tool)) /\ Told(cs, v, tool)

MemoryOK(s, cs, l) ==
    /\ \A r \in Runs :
         <<r, Boss>> \in DOMAIN l.versions => BossVersion(s, l.versions[<<r, Boss>>])
    /\ \A r \in Runs, tool \in Tools :
         <<r, Boss, tool>> \in DOMAIN l.denied => Borne(s, cs, l.versions[<<r, Boss>>], tool)

\* What call c knows by where it is.
CallOK(s, cs, c) ==
    /\ c.pc \in {"upstream", "decide", "record", "ran"} => ~c.over
    /\ c.pc = "upstream" => c.agent \in Subs
    /\ c.agent \in Subs => c.scope # NoScope
    /\ c.agent = Boss => BossVersion(s, c.ver)
    /\ c.pc \notin Ended /\ c.agent \in Subs /\ Lets(s, c.tool) => c.lent
    /\ c.pc \notin Ended /\ c.agent = Boss /\ Bars(s, c.tool) => c.outside
    /\ c.pc = "decide" /\ c.agent \in Subs => c.lent
    /\ c.pc = "ran" /\ c.agent \in Subs /\ c.verdict = "run" =>
         c.lent /\ ~OutOfScope(c.scope.tools, c.scope.observing, c.tool)
    /\ c.pc = "record" /\ c.agent = Boss => Borne(s, cs, c.ver, c.tool)
    /\ c.pc = "repeat" /\ c.agent = Boss => c.outside

SnapOK ==
    /\ snap = [a \in Agents |-> snap[a]]
    /\ \A a \in Agents :
         /\ snap[a] \in SnapshotsOf(a)
         /\ snap[a] # NoSnapshot /\ ~snap[a].m.observing => snap[a].enforced
    /\ scope \in [Subs -> Scopes]

CallsOK(s, cs) ==
    /\ cs = [t \in Threads |-> cs[t]]
    /\ \A t \in Threads : cs[t] # NoCall => cs[t] \in Calls /\ CallOK(s, cs, cs[t])

GateInv ==
    /\ SnapOK
    /\ CallsOK(snap[Boss], call)
    /\ LatchInv(latch)
    /\ MemoryOK(snap[Boss], call, latch)

-----------------------------------------------------------------------------
(* Sequences and tables *)

\* A set of naturals that is not empty has a least element.
LEMMA LeastExists ==
    ASSUME NEW S, S \subseteq Nat, S # {}
    PROVE  \E m \in S : \A n \in S : m <= n
<1> DEFINE R == OpToRel(<, Nat)
<1>1. \A x, y \in Nat : y < x => <<y, x>> \in R
    BY DEF OpToRel
<1>2. IsWellFoundedOn(R, Nat)
    BY NatLessThanWellFounded
<1> HIDE DEF R
<1>3. PICK x \in S : \A y \in S : ~ (<<y, x>> \in R)
    BY <1>2, WFMin
<1>4. \A y \in S : ~ (y < x)
    BY <1>1, <1>3
<1> QED
    BY <1>4

\* Taking the first e out of a queue closes the gap that it leaves.
LEMMA RemoveFirstShape ==
    ASSUME NEW S, NEW s \in Seq(S), NEW e, e \in Range(s)
    PROVE  \E k \in 1..Len(s) :
              /\ s[k] = e
              /\ RemoveFirst(s, e) \in Seq(S) /\ Len(RemoveFirst(s, e)) = Len(s) - 1
              /\ \A i \in 1..Len(s) - 1 :
                    RemoveFirst(s, e)[i] = IF i < k THEN s[i] ELSE s[i + 1]
<1>len. Len(s) \in Nat /\ DOMAIN s = 1..Len(s) /\ \A i \in 1..Len(s) : s[i] \in S
    BY LenProperties, ElementOfSeq
<1> DEFINE I == {i \in 1..Len(s) : s[i] = e}
           k == Min(I)
           u == RemoveFirst(s, e)
           a == SubSeq(s, 1, k - 1)
           b == SubSeq(s, k + 1, Len(s))
<1>1. I # {} /\ I \subseteq Nat
    BY <1>len DEF Range
<1>2. \E m \in I : \A n \in I : m <= n
    BY <1>1, LeastExists
<1>3. k \in I
    BY <1>2 DEF Min
<1>4. k \in 1..Len(s) /\ s[k] = e
    BY <1>3
<1>5. u = a \o b
    BY <1>1, <1>4, <1>len DEF RemoveFirst, RemoveAt, SelectInSeq
<1> HIDE DEF k, u
<1>6. /\ a \in Seq(S) /\ Len(a) = k - 1
      /\ \A i \in 1..k - 1 : a[i] = s[i]
  <2>1. /\ a \in Seq(S) /\ Len(a) = IF 1 <= k - 1 THEN (k - 1) - 1 + 1 ELSE 0
        /\ \A i \in 1..((k - 1) - 1 + 1) : a[i] = s[1 + i - 1]
      BY <1>4, <1>len, SubSeqProperties
  <2> QED
      BY <2>1, <1>4, <1>len
<1>7. /\ b \in Seq(S) /\ Len(b) = Len(s) - k
      /\ \A i \in 1..Len(s) - k : b[i] = s[k + i]
  <2>1. /\ b \in Seq(S) /\ Len(b) = IF k + 1 <= Len(s) THEN Len(s) - (k + 1) + 1 ELSE 0
        /\ \A i \in 1..(Len(s) - (k + 1) + 1) : b[i] = s[(k + 1) + i - 1]
      BY <1>4, <1>len, SubSeqProperties
  <2> QED
      BY <2>1, <1>4, <1>len
<1> HIDE DEF a, b
<1>8. /\ u \in Seq(S) /\ Len(u) = Len(s) - 1
      /\ \A i \in 1..Len(s) - 1 : u[i] = IF i < k THEN s[i] ELSE s[i + 1]
  <2>1. /\ u \in Seq(S) /\ Len(u) = Len(a) + Len(b)
        /\ \A i \in 1..Len(a) + Len(b) : u[i] = IF i <= Len(a) THEN a[i] ELSE b[i - Len(a)]
      BY <1>5, <1>6, <1>7, ConcatProperties
  <2>2. Len(u) = Len(s) - 1
      BY <2>1, <1>6, <1>7, <1>4, <1>len
  <2>3. ASSUME NEW i \in 1..Len(s) - 1
        PROVE  u[i] = IF i < k THEN s[i] ELSE s[i + 1]
    <3>1. i \in 1..Len(a) + Len(b) /\ (i <= Len(a) <=> i < k)
        BY <1>6, <1>7, <1>4, <1>len
    <3>2. CASE i < k
        BY <3>1, <3>2, <2>1, <1>6, <1>4, <1>len
    <3>3. CASE ~(i < k)
      <4>1. i - Len(a) \in 1..Len(s) - k /\ k + (i - Len(a)) = i + 1
          BY <3>3, <1>6, <1>4, <1>len
      <4> QED
          BY <4>1, <3>1, <3>3, <2>1, <1>7
    <3> QED
        BY <3>2, <3>3
  <2> QED
      BY <2>1, <2>2, <2>3
<1> QED
    BY <1>4, <1>8 DEF u

\* What is left of a queue without duplicates once an element is taken out.
LEMMA RemoveFirstProps ==
    ASSUME NEW S, NEW s \in Seq(S), NEW e, Distinct(s)
    PROVE  /\ RemoveFirst(s, e) \in Seq(S)
           /\ Distinct(RemoveFirst(s, e))
           /\ Range(RemoveFirst(s, e)) = Range(s) \ {e}
           /\ e \notin Range(s) => RemoveFirst(s, e) = s
           /\ e \in Range(s) => Len(RemoveFirst(s, e)) = Len(s) - 1
<1>0. Len(s) \in Nat /\ DOMAIN s = 1..Len(s) /\ \A i \in 1..Len(s) : s[i] \in S
    BY LenProperties, ElementOfSeq
<1>1. CASE e \notin Range(s)
  <2>1. RemoveFirst(s, e) = s
      BY <1>0, <1>1 DEF RemoveFirst, Range
  <2> QED
      BY <2>1, <1>1
<1>2. CASE e \in Range(s)
  <2> DEFINE u == RemoveFirst(s, e)
  <2>1. PICK k \in 1..Len(s) :
              /\ s[k] = e /\ u \in Seq(S) /\ Len(u) = Len(s) - 1
              /\ \A i \in 1..Len(s) - 1 : u[i] = IF i < k THEN s[i] ELSE s[i + 1]
      BY <1>2, RemoveFirstShape
  <2> HIDE DEF u
  <2>4. k \in 1..Len(s) /\ s[k] = e
      BY <2>1
  <2>8. /\ u \in Seq(S) /\ Len(u) = Len(s) - 1
        /\ \A i \in 1..Len(s) - 1 : u[i] = IF i < k THEN s[i] ELSE s[i + 1]
      BY <2>1
  <2>9. Distinct(u)
    <3> SUFFICES ASSUME NEW i \in 1..Len(u), NEW j \in 1..Len(u), u[i] = u[j]
                 PROVE  i = j
        BY DEF Distinct
    <3>1. i \in 1..Len(s) - 1 /\ j \in 1..Len(s) - 1
        BY <2>8
    <3>2. i + 1 \in 1..Len(s) /\ j + 1 \in 1..Len(s) /\ i \in 1..Len(s) /\ j \in 1..Len(s)
        BY <3>1, <1>0
    <3> DEFINE x == IF i < k THEN i ELSE i + 1
               y == IF j < k THEN j ELSE j + 1
    <3>3. x \in 1..Len(s) /\ y \in 1..Len(s) /\ s[x] = s[y]
        BY <3>1, <3>2, <2>8
    <3>4. x = y
        BY <3>3 DEF Distinct
    <3> QED
        BY <3>4, <3>1, <2>4
  <2>10. Range(u) = Range(s) \ {e}
    <3>1. DOMAIN u = 1..Len(s) - 1
        BY <2>8, LenProperties
    <3>2. ASSUME NEW x \in Range(u) PROVE x \in Range(s) \ {e}
      <4>1. PICK i \in 1..Len(s) - 1 : x = u[i]
          BY <3>1 DEF Range
      <4>2. PICK j \in 1..Len(s) : x = s[j] /\ j # k
          BY <4>1, <2>8, <2>4, <1>0
      <4> QED
          BY <4>2, <2>4, <1>0 DEF Range, Distinct
    <3>3. ASSUME NEW x \in Range(s) \ {e} PROVE x \in Range(u)
      <4>1. PICK j \in 1..Len(s) : x = s[j] /\ j # k
          BY <1>0, <2>4 DEF Range
      <4>2. CASE j < k
        <5>1. j \in 1..Len(s) - 1 /\ u[j] = x
            BY <4>1, <4>2, <2>4, <2>8, <1>0
        <5> QED
            BY <5>1, <3>1 DEF Range
      <4>3. CASE ~(j < k)
        <5>1. j - 1 \in 1..Len(s) - 1 /\ ~(j - 1 < k) /\ (j - 1) + 1 = j
            BY <4>1, <4>3, <2>4, <1>0
        <5>2. u[j - 1] = x
            BY <5>1, <4>1, <2>8
        <5> QED
            BY <5>1, <5>2, <3>1 DEF Range
      <4> QED
          BY <4>2, <4>3
    <3> QED
        BY <3>2, <3>3
  <2> QED
      BY <2>8, <2>9, <2>10, <1>2 DEF u
<1> QED
    BY <1>1, <1>2

\* A queue without duplicates whose last element is new has none either.
LEMMA AppendDistinct ==
    ASSUME NEW S, NEW s \in Seq(S), NEW e \in S, Distinct(s), e \notin Range(s)
    PROVE  /\ Append(s, e) \in Seq(S) /\ Len(Append(s, e)) = Len(s) + 1
           /\ Distinct(Append(s, e))
           /\ Range(Append(s, e)) = Range(s) \cup {e}
<1>0. Len(s) \in Nat /\ DOMAIN s = 1..Len(s)
    BY LenProperties
<1>1. /\ Append(s, e) \in Seq(S) /\ Len(Append(s, e)) = Len(s) + 1
      /\ \A i \in 1..Len(s) : Append(s, e)[i] = s[i]
      /\ Append(s, e)[Len(s) + 1] = e
    BY AppendProperties
<1>2. DOMAIN Append(s, e) = 1..Len(s) + 1
    BY <1>1, LenProperties
<1>3. \A i \in 1..Len(s) : s[i] # e
    BY <1>0 DEF Range
<1>4. Distinct(Append(s, e))
  <2> SUFFICES ASSUME NEW i \in 1..Len(s) + 1, NEW j \in 1..Len(s) + 1,
                      Append(s, e)[i] = Append(s, e)[j]
               PROVE  i = j
      BY <1>1 DEF Distinct
  <2>1. CASE i = Len(s) + 1 /\ j = Len(s) + 1
      BY <2>1
  <2>2. CASE i # Len(s) + 1 /\ j = Len(s) + 1
      BY <2>2, <1>0, <1>1, <1>3
  <2>3. CASE i = Len(s) + 1 /\ j # Len(s) + 1
      BY <2>3, <1>0, <1>1, <1>3
  <2>4. CASE i # Len(s) + 1 /\ j # Len(s) + 1
    <3>1. i \in 1..Len(s) /\ j \in 1..Len(s)
        BY <2>4, <1>0
    <3> QED
        BY <3>1, <1>1 DEF Distinct
  <2> QED
      BY <2>1, <2>2, <2>3, <2>4
<1>5. Range(Append(s, e)) = Range(s) \cup {e}
  <2>1. ASSUME NEW x \in Range(Append(s, e)) PROVE x \in Range(s) \cup {e}
    <3>1. PICK i \in 1..Len(s) + 1 : x = Append(s, e)[i]
        BY <1>2 DEF Range
    <3> QED
        BY <3>1, <1>0, <1>1 DEF Range
  <2>2. ASSUME NEW x \in Range(s) PROVE x \in Range(Append(s, e))
    <3>1. PICK i \in 1..Len(s) : x = s[i]
        BY <1>0 DEF Range
    <3>2. i \in 1..Len(s) + 1
        BY <1>0
    <3> QED
        BY <3>1, <3>2, <1>1, <1>2 DEF Range
  <2>3. e \in Range(Append(s, e))
      BY <1>0, <1>1, <1>2 DEF Range
  <2> QED
      BY <2>1, <2>2, <2>3
<1> QED
    BY <1>1, <1>4, <1>5

\* _touch's queue: r comes last, and what falls out is the oldest.
LEMMA MovedProps ==
    ASSUME NEW l, l.runs \in Seq(Runs), RunsOK(l), NEW r \in Runs, MaxRuns \in Nat \ {0},
           NEW m, m = Append(RemoveFirst(l.runs, r), r)
    PROVE  /\ m \in Seq(Runs) /\ Distinct(m) /\ Range(m) = Range(l.runs) \cup {r}
           /\ Len(m) <= MaxRuns + 1
           /\ Len(m) > MaxRuns =>
                /\ Len(m) = MaxRuns + 1
                /\ Head(m) = Head(l.runs) /\ Head(m) # r
                /\ Head(m) \in Runs
<1> DEFINE u == RemoveFirst(l.runs, r)
<1>1. /\ u \in Seq(Runs) /\ Distinct(u)
      /\ Range(u) = Range(l.runs) \ {r}
      /\ r \notin Range(l.runs) => u = l.runs
      /\ r \in Range(l.runs) => Len(u) = Len(l.runs) - 1
    BY RemoveFirstProps DEF RunsOK
<1>2. m = Append(u, r)
    OBVIOUS
<1> HIDE DEF u
<1>3. r \notin Range(u)
    BY <1>1
<1>4. /\ m \in Seq(Runs) /\ Len(m) = Len(u) + 1 /\ Distinct(m)
      /\ Range(m) = Range(u) \cup {r}
    BY <1>1, <1>2, <1>3, AppendDistinct
<1>5. Len(u) \in Nat /\ Len(l.runs) \in Nat /\ Len(l.runs) <= MaxRuns
    BY <1>1, LenProperties DEF RunsOK
<1>6. Len(m) <= MaxRuns + 1
    BY <1>1, <1>4, <1>5
<1>7. ASSUME Len(m) > MaxRuns
      PROVE  /\ Len(m) = MaxRuns + 1
             /\ Head(m) = Head(l.runs) /\ Head(m) # r
             /\ Head(m) \in Runs
  <2>1. u = l.runs /\ Len(u) = MaxRuns
      BY <1>1, <1>4, <1>5, <1>7
  <2>2. m # << >> /\ u # << >>
      BY <1>4, <1>5, <2>1
  <2>3. Head(m) = m[1] /\ Head(u) = u[1]
      BY <2>2, <1>1, <1>4, HeadTailProperties
  <2>4. 1 \in 1..Len(u) /\ DOMAIN u = 1..Len(u)
      BY <2>1, <1>1, LenProperties
  <2>5. m[1] = u[1] /\ u[1] \in Runs
      BY <2>4, <1>1, <1>2, AppendProperties, ElementOfSeq
  <2>6. u[1] # r
      BY <2>4, <1>3 DEF Range
  <2> QED
      BY <2>1, <2>3, <2>5, <2>6, <1>4
<1> QED
    BY <1>1, <1>4, <1>6, <1>7

-----------------------------------------------------------------------------
(* The operations of the latch *)

\* _forget_principal, table by table.
LEMMA ForgetPrincipalProps ==
    ASSUME NEW l, LatchType(l), NEW r, NEW a,
           NEW m, m = ForgetPrincipal(l, r, a)
    PROVE  /\ m = [runs |-> l.runs, versions |-> l.versions, denied |-> m.denied,
                   halted |-> m.halted]
           /\ m.runs = l.runs /\ m.versions = l.versions
           /\ DOMAIN m.denied = {k \in DOMAIN l.denied : ~(k[1] = r /\ k[2] = a)}
           /\ \A k \in DOMAIN m.denied : m.denied[k] = l.denied[k]
           /\ DOMAIN m.halted = {k \in DOMAIN l.halted : ~(k = r /\ l.halted[k].agent = a)}
           /\ \A k \in DOMAIN m.halted : m.halted[k] = l.halted[k]
<1>1. l = [runs |-> l.runs, versions |-> l.versions, denied |-> l.denied,
           halted |-> l.halted]
    BY DEF LatchType
<1>2. m = [runs |-> l.runs, versions |-> l.versions,
           denied |-> [x \in {k \in DOMAIN l.denied : ~(k[1] = r /\ k[2] = a)} |-> l.denied[x]],
           halted |-> [x \in {k \in DOMAIN l.halted : ~(k = r /\ l.halted[k].agent = a)}
                         |-> l.halted[x]]]
    BY <1>1 DEF ForgetPrincipal, Drop, Restrict
<1> QED
    BY <1>2

\* _forget, table by table.
LEMMA ForgetProps ==
    ASSUME NEW l, NEW r, NEW m, m = Forget(l, r)
    PROVE  /\ m = [runs |-> m.runs, versions |-> m.versions, denied |-> m.denied,
                   halted |-> m.halted]
           /\ m.runs = RemoveFirst(l.runs, r)
           /\ DOMAIN m.versions = {k \in DOMAIN l.versions : ~(k[1] = r)}
           /\ \A k \in DOMAIN m.versions : m.versions[k] = l.versions[k]
           /\ DOMAIN m.denied = {k \in DOMAIN l.denied : ~(k[1] = r)}
           /\ \A k \in DOMAIN m.denied : m.denied[k] = l.denied[k]
           /\ DOMAIN m.halted = DOMAIN l.halted \ {r}
           /\ \A k \in DOMAIN m.halted : m.halted[k] = l.halted[k]
<1>1. m = [runs |-> RemoveFirst(l.runs, r),
           versions |-> [x \in {k \in DOMAIN l.versions : ~(k[1] = r)} |-> l.versions[x]],
           denied |-> [x \in {k \in DOMAIN l.denied : ~(k[1] = r)} |-> l.denied[x]],
           halted |-> [x \in {k \in DOMAIN l.halted : ~(k = r)} |-> l.halted[x]]]
    BY DEF Forget, Drop, Restrict
<1> HIDE DEF Forget
<1> QED
    BY <1>1

\* _reconcile_version: the version is noted; under another one than before,
\* what the agent was denied in this run is gone, and a halt of its making.
Renewed(l, r, a, v) == <<r, a>> \in DOMAIN l.versions /\ l.versions[<<r, a>>] # v

Reconciled(m, l, r, a, v) ==
    /\ m = [runs |-> l.runs, versions |-> m.versions, denied |-> m.denied,
            halted |-> m.halted]
    /\ DOMAIN m.versions = DOMAIN l.versions \cup {<<r, a>>}
    /\ m.versions[<<r, a>>] = v
    /\ \A k \in DOMAIN l.versions : k # <<r, a>> => m.versions[k] = l.versions[k]
    /\ \A k : k \in DOMAIN m.denied <=>
          k \in DOMAIN l.denied /\ ~(Renewed(l, r, a, v) /\ k[1] = r /\ k[2] = a)
    /\ \A k \in DOMAIN m.denied : m.denied[k] = l.denied[k]
    /\ \A k : k \in DOMAIN m.halted <=>
          k \in DOMAIN l.halted /\ ~(Renewed(l, r, a, v) /\ k = r /\ l.halted[k].agent = a)
    /\ \A k \in DOMAIN m.halted : m.halted[k] = l.halted[k]

\* _reconcile_version: what a new mandate version clears, and nothing else.
LEMMA ReconcileProps ==
    ASSUME NEW l, LatchType(l), NEW r, NEW a, NEW v,
           NEW m, m = Reconcile(l, r, a, v)
    PROVE  Reconciled(m, l, r, a, v)
<1>0. l = [runs |-> l.runs, versions |-> l.versions, denied |-> l.denied,
           halted |-> l.halted]
    BY DEF LatchType
<1> DEFINE p == Put(l.versions, <<r, a>>, v)
<1>3. /\ DOMAIN p = DOMAIN l.versions \cup {<<r, a>>}
      /\ p[<<r, a>>] = v
      /\ \A k \in DOMAIN l.versions : k # <<r, a>> => p[k] = l.versions[k]
    BY DEF Put
<1> HIDE DEF p
<1>1. CASE Renewed(l, r, a, v)
  <2> DEFINE k1 == ForgetPrincipal(l, r, a)
  <2>1. m = [k1 EXCEPT !.versions = Put(@, <<r, a>>, v)]
      BY <1>1 DEF Reconcile, Renewed
  <2>2. /\ k1 = [runs |-> l.runs, versions |-> l.versions, denied |-> k1.denied,
                   halted |-> k1.halted]
        /\ DOMAIN k1.denied = {k \in DOMAIN l.denied : ~(k[1] = r /\ k[2] = a)}
        /\ \A k \in DOMAIN k1.denied : k1.denied[k] = l.denied[k]
        /\ DOMAIN k1.halted = {k \in DOMAIN l.halted : ~(k = r /\ l.halted[k].agent = a)}
        /\ \A k \in DOMAIN k1.halted : k1.halted[k] = l.halted[k]
      BY ForgetPrincipalProps
  <2> HIDE DEF k1
  <2>3. m = [runs |-> l.runs, versions |-> p, denied |-> k1.denied, halted |-> k1.halted]
      BY <2>1, <2>2 DEF p
  <2>4. m.runs = l.runs /\ m.versions = p /\ m.denied = k1.denied /\ m.halted = k1.halted
      BY <2>3
  <2>5. /\ \A k : k \in DOMAIN m.denied <=>
                   k \in DOMAIN l.denied /\ ~(Renewed(l, r, a, v) /\ k[1] = r /\ k[2] = a)
        /\ \A k : k \in DOMAIN m.halted <=>
                 k \in DOMAIN l.halted /\ ~(Renewed(l, r, a, v) /\ k = r /\ l.halted[k].agent = a)
      BY <1>1, <2>2, <2>4
  <2> QED
      BY <2>2, <2>3, <2>4, <2>5, <1>3 DEF Reconciled
<1>2. CASE ~Renewed(l, r, a, v)
  <2>1. m = [runs |-> l.runs, versions |-> p, denied |-> l.denied, halted |-> l.halted]
      BY <1>0, <1>2 DEF Reconcile, Renewed, p
  <2>2. m.runs = l.runs /\ m.versions = p /\ m.denied = l.denied /\ m.halted = l.halted
      BY <2>1
  <2>3. /\ \A k : k \in DOMAIN m.denied <=>
                   k \in DOMAIN l.denied /\ ~(Renewed(l, r, a, v) /\ k[1] = r /\ k[2] = a)
        /\ \A k : k \in DOMAIN m.halted <=>
                 k \in DOMAIN l.halted /\ ~(Renewed(l, r, a, v) /\ k = r /\ l.halted[k].agent = a)
      BY <1>2, <2>2
  <2> QED
      BY <2>1, <2>2, <2>3, <1>3 DEF Reconciled
<1> QED
    BY <1>1, <1>2

\* One more attempt.
Counted(m, l, c, key) ==
    /\ m = [runs |-> m.runs, versions |-> m.versions, denied |-> m.denied,
            halted |-> m.halted]
    /\ m.runs = l.runs /\ m.versions = l.versions
    /\ DOMAIN m.denied = DOMAIN l.denied \cup {key}
    /\ m.denied[key] = IF key \in DOMAIN l.denied THEN l.denied[key] + 1 ELSE 1
    /\ m.denied[key] \in Nat
    /\ \A k \in DOMAIN l.denied : k # key => m.denied[k] = l.denied[k]
    /\ \/ m.halted = l.halted
       \/ /\ m.denied[key] >= Threshold /\ c.run \notin DOMAIN l.halted
          /\ m.halted = Put(l.halted, c.run,
                 [agent |-> c.agent, tool |-> c.tool, attempts |-> m.denied[key]])

\* DenialLatch.record: one denial more for the key, and a halt at the threshold.
LEMMA CountProps ==
    ASSUME NEW l, LatchType(l), NEW c, NEW m, m = Count(l, c),
           NEW key, key = <<c.run, c.agent, c.tool>>
    PROVE  Counted(m, l, c, key)
<1>0. /\ l = [runs |-> l.runs, versions |-> l.versions, denied |-> l.denied,
           halted |-> l.halted]
      /\ \A k \in DOMAIN l.denied : l.denied[k] \in Nat
    BY DEF LatchType
<1> DEFINE n == IF key \in DOMAIN l.denied THEN l.denied[key] + 1 ELSE 1
           more == [l EXCEPT !.denied = Put(@, key, n),
                  !.halted = IF n >= Threshold /\ c.run \notin DOMAIN @
                             THEN Put(@, c.run, [agent |-> c.agent, tool |-> c.tool,
                                                 attempts |-> n])
                             ELSE @]
<1>1. n \in Nat
    BY <1>0
<1>6. m = more
    BY DEF Count
<1> HIDE DEF n
<1>2. m = [runs |-> l.runs, versions |-> l.versions, denied |-> Put(l.denied, key, n),
           halted |-> IF n >= Threshold /\ c.run \notin DOMAIN l.halted
                      THEN Put(l.halted, c.run, [agent |-> c.agent, tool |-> c.tool,
                                                 attempts |-> n])
                      ELSE l.halted]
    BY <1>0, <1>6
<1> HIDE DEF more
<1>3. /\ DOMAIN Put(l.denied, key, n) = DOMAIN l.denied \cup {key}
      /\ Put(l.denied, key, n)[key] = n
      /\ \A x \in DOMAIN l.denied : x # key => Put(l.denied, key, n)[x] = l.denied[x]
    BY DEF Put
<1> HIDE DEF n
<1>4. m.denied[key] = n
    BY <1>2, <1>3
<1>5. m.denied[key] = IF key \in DOMAIN l.denied THEN l.denied[key] + 1 ELSE 1
    BY <1>4 DEF n
<1> QED
    BY <1>1, <1>2, <1>3, <1>4, <1>5 DEF Counted

-----------------------------------------------------------------------------
(* The operations keep the latch right *)

\* Latch m holds of l what is not of the runs in E.
Thinned(m, l, E) ==
    /\ m = [runs |-> m.runs, versions |-> m.versions, denied |-> m.denied,
            halted |-> m.halted]
    /\ DOMAIN m.versions = {k \in DOMAIN l.versions : k[1] \notin E}
    /\ \A k \in DOMAIN m.versions : m.versions[k] = l.versions[k]
    /\ DOMAIN m.denied = {k \in DOMAIN l.denied : k[1] \notin E}
    /\ \A k \in DOMAIN m.denied : m.denied[k] = l.denied[k]
    /\ DOMAIN m.halted = DOMAIN l.halted \ E
    /\ \A k \in DOMAIN m.halted : m.halted[k] = l.halted[k]

\* Forgetting whole runs leaves no denial without version, no halt without
\* cause.
LEMMA ThinnedCore ==
    ASSUME NEW l, LatchCore(l), NEW m, m.runs \in Seq(Runs), NEW E, Thinned(m, l, E)
    PROVE  LatchCore(m) /\ \A R : Placed(l, R) => Placed(m, R \ E)
<1> USE DEF LatchCore
<1>1. LatchType(m)
    BY DEF LatchType, Thinned
<1>2. \A r \in Runs, a \in Agents, tool \in Tools :
        <<r, a, tool>> \in DOMAIN m.denied <=> <<r, a, tool>> \in DOMAIN l.denied /\ r \notin E
    BY DEF Thinned
<1>3. \A r \in Runs, a \in Agents :
        <<r, a>> \in DOMAIN m.versions <=> <<r, a>> \in DOMAIN l.versions /\ r \notin E
    BY DEF Thinned
<1>4. DeniedVersioned(m)
    BY <1>2, <1>3 DEF DeniedVersioned
<1>5. Caused(m)
  <2> SUFFICES ASSUME NEW r \in DOMAIN m.halted
               PROVE  /\ m.halted[r].agent \in Agents /\ m.halted[r].tool \in Tools
                      /\ m.halted[r].attempts \in Nat /\ m.halted[r].attempts >= Threshold
                      /\ <<r, m.halted[r].agent, m.halted[r].tool>> \in DOMAIN m.denied
                      /\ m.denied[<<r, m.halted[r].agent, m.halted[r].tool>>]
                            >= m.halted[r].attempts
      BY DEF Caused
  <2>1. r \in DOMAIN l.halted /\ r \notin E /\ m.halted[r] = l.halted[r] /\ r \in Runs
      BY DEF Thinned, LatchType
  <2> DEFINE h == l.halted[r]
  <2>2. /\ h.agent \in Agents /\ h.tool \in Tools /\ h.attempts \in Nat
        /\ h.attempts >= Threshold
        /\ <<r, h.agent, h.tool>> \in DOMAIN l.denied
        /\ l.denied[<<r, h.agent, h.tool>>] >= h.attempts
      BY <2>1 DEF Caused
  <2>3. <<r, h.agent, h.tool>> \in DOMAIN m.denied
      BY <2>1, <2>2, <1>2
  <2>4. m.denied[<<r, h.agent, h.tool>>] = l.denied[<<r, h.agent, h.tool>>]
      BY <2>3 DEF Thinned
  <2> QED
      BY <2>1, <2>2, <2>3, <2>4
<1>6. \A R : Placed(l, R) => Placed(m, R \ E)
    BY <1>2 DEF Placed
<1> QED
    BY <1>1, <1>4, <1>5, <1>6

\* _touch
LEMMA TouchCore ==
    ASSUME NEW l, LatchCore(l), RunsOK(l), NEW r \in Runs,
           Placed(l, Range(l.runs) \cup {r}),
           NEW m, m = Touch(l, r)
    PROVE  /\ LatchInv(m)
           /\ \E E \in SUBSET Runs :
                /\ Thinned(m, l, E)
                /\ r \notin E /\ Range(m.runs) \cap E = {}
                /\ E # {} => E = {Head(l.runs)} /\ Len(m.runs) = MaxRuns
<1> DEFINE q == Append(RemoveFirst(l.runs, r), r)
           moved == [l EXCEPT !.runs = q]
<1>0. MaxRuns \in Nat \ {0}
    BY GateAssumption
<1>1. LatchType(l) /\ l.runs \in Seq(Runs)
    BY DEF LatchCore, LatchType
<1>2. /\ q \in Seq(Runs) /\ Distinct(q) /\ Range(q) = Range(l.runs) \cup {r}
      /\ Len(q) <= MaxRuns + 1
      /\ Len(q) > MaxRuns =>
            /\ Len(q) = MaxRuns + 1
            /\ Head(q) = Head(l.runs) /\ Head(q) # r
            /\ Head(q) \in Runs
    BY <1>0, <1>1, MovedProps
<1>3. m = IF Len(moved.runs) > MaxRuns THEN Forget(moved, Head(moved.runs)) ELSE moved
    BY DEF Touch
<1>4. moved = [runs |-> q, versions |-> l.versions, denied |-> l.denied, halted |-> l.halted]
  <2>1. l = [runs |-> l.runs, versions |-> l.versions, denied |-> l.denied,
             halted |-> l.halted]
      BY <1>1 DEF LatchType
  <2> HIDE DEF q
  <2> QED
      BY <2>1
<1> HIDE DEF moved, q
<1>5. CASE ~(Len(q) > MaxRuns)
  <2>1. m = [runs |-> q, versions |-> l.versions, denied |-> l.denied, halted |-> l.halted]
      BY <1>3, <1>4, <1>5
  <2>2. Thinned(m, l, {}) /\ m.runs = q
      BY <2>1 DEF Thinned
  <2>3. LatchCore(m) /\ Placed(m, Range(q))
    <3>1. LatchCore(m) /\ Placed(m, Range(q) \ {})
        BY <1>2, <2>2, ThinnedCore
    <3> QED
        BY <3>1
  <2>4. Len(q) \in Nat /\ Len(q) <= MaxRuns
      BY <1>0, <1>2, <1>5, LenProperties
  <2>5. LatchInv(m)
      BY <1>2, <2>2, <2>3, <2>4 DEF LatchInv, RunsOK
  <2> QED
      BY <2>2, <2>5
<1>6. CASE Len(q) > MaxRuns
  <2> DEFINE e == Head(q)
  <2>0. m = Forget(moved, e)
      BY <1>3, <1>4, <1>6
  <2>1. e \in Runs /\ e # r /\ e = Head(l.runs) /\ Len(q) = MaxRuns + 1
      BY <1>2, <1>6
  <2>2. e \in Range(q)
    <3>1. q # << >> /\ 1 \in 1..Len(q) /\ DOMAIN q = 1..Len(q)
        BY <1>0, <1>2, <2>1, EmptySeq, LenProperties
    <3>2. e = q[1]
        BY <3>1, <1>2, HeadTailProperties
    <3> QED
        BY <3>1, <3>2 DEF Range
  <2> HIDE DEF e
  <2>3. /\ RemoveFirst(q, e) \in Seq(Runs) /\ Distinct(RemoveFirst(q, e))
        /\ Range(RemoveFirst(q, e)) = Range(q) \ {e}
        /\ Len(RemoveFirst(q, e)) = MaxRuns
    <3>1. /\ RemoveFirst(q, e) \in Seq(Runs) /\ Distinct(RemoveFirst(q, e))
          /\ Range(RemoveFirst(q, e)) = Range(q) \ {e}
          /\ Len(RemoveFirst(q, e)) = Len(q) - 1
        BY <1>2, <2>2, RemoveFirstProps
    <3> QED
        BY <3>1, <2>1, <1>0
  <2>4. m.runs = RemoveFirst(q, e)
    <3>1. m.runs = RemoveFirst(moved.runs, e)
        BY <2>0, ForgetProps
    <3> QED
        BY <3>1, <1>4
  <2>5. Thinned(m, l, {e})
    <3>1. /\ m = [runs |-> m.runs, versions |-> m.versions, denied |-> m.denied,
                   halted |-> m.halted]
          /\ DOMAIN m.versions = {k \in DOMAIN moved.versions : ~(k[1] = e)}
          /\ \A k \in DOMAIN m.versions : m.versions[k] = moved.versions[k]
          /\ DOMAIN m.denied = {k \in DOMAIN moved.denied : ~(k[1] = e)}
          /\ \A k \in DOMAIN m.denied : m.denied[k] = moved.denied[k]
          /\ DOMAIN m.halted = DOMAIN moved.halted \ {e}
          /\ \A k \in DOMAIN m.halted : m.halted[k] = moved.halted[k]
        BY <2>0, ForgetProps
    <3>2. moved.versions = l.versions /\ moved.denied = l.denied /\ moved.halted = l.halted
        BY <1>4
    <3> QED
        BY <3>1, <3>2 DEF Thinned
  <2>6. LatchCore(m) /\ Placed(m, Range(q) \ {e})
      BY <1>2, <2>3, <2>4, <2>5, ThinnedCore
  <2>7. LatchInv(m)
    <3>1. Range(m.runs) = Range(q) \ {e} /\ Distinct(m.runs) /\ Len(m.runs) <= MaxRuns
        BY <1>0, <2>3, <2>4
    <3> QED
        BY <3>1, <2>6 DEF LatchInv, RunsOK
  <2> QED
      BY <2>1, <2>3, <2>4, <2>5, <2>7
<1> QED
    BY <1>5, <1>6

\* _reconcile_version
LEMMA ReconcileCore ==
    ASSUME NEW l, LatchCore(l), NEW r \in Runs, NEW a \in Agents, NEW v,
           NEW m, m = Reconcile(l, r, a, v)
    PROVE  /\ LatchCore(m) /\ m.runs = l.runs
           /\ \A R : Placed(l, R) => Placed(m, R)
           /\ <<r, a>> \in DOMAIN m.versions
<1>0. LatchType(l)
    BY DEF LatchCore
<1>r. Reconciled(m, l, r, a, v)
    BY <1>0, ReconcileProps
<1>1. /\ m = [runs |-> m.runs, versions |-> m.versions, denied |-> m.denied,
              halted |-> m.halted]
      /\ m.runs = l.runs
      /\ DOMAIN m.versions = DOMAIN l.versions \cup {<<r, a>>}
      /\ \A k : k \in DOMAIN m.denied <=>
            k \in DOMAIN l.denied /\ ~(Renewed(l, r, a, v) /\ k[1] = r /\ k[2] = a)
      /\ \A k \in DOMAIN m.denied : m.denied[k] = l.denied[k]
      /\ \A k : k \in DOMAIN m.halted <=>
            k \in DOMAIN l.halted /\ ~(Renewed(l, r, a, v) /\ k = r /\ l.halted[k].agent = a)
      /\ \A k \in DOMAIN m.halted : m.halted[k] = l.halted[k]
    BY <1>r DEF Reconciled
<1>2. LatchType(m)
    BY <1>0, <1>1 DEF LatchType
<1>3. \A s \in Runs, b \in Agents, tool \in Tools :
        <<s, b, tool>> \in DOMAIN m.denied <=>
            <<s, b, tool>> \in DOMAIN l.denied /\ ~(Renewed(l, r, a, v) /\ s = r /\ b = a)
    BY <1>1
<1>4. DeniedVersioned(m)
    BY <1>1, <1>3 DEF DeniedVersioned, LatchCore
<1>5. \A R : Placed(l, R) => Placed(m, R)
    BY <1>3 DEF Placed
<1>6. Caused(m)
  <2> SUFFICES ASSUME NEW s \in DOMAIN m.halted
               PROVE  /\ m.halted[s].agent \in Agents /\ m.halted[s].tool \in Tools
                      /\ m.halted[s].attempts \in Nat /\ m.halted[s].attempts >= Threshold
                      /\ <<s, m.halted[s].agent, m.halted[s].tool>> \in DOMAIN m.denied
                      /\ m.denied[<<s, m.halted[s].agent, m.halted[s].tool>>]
                            >= m.halted[s].attempts
      BY DEF Caused
  <2> DEFINE h == l.halted[s]
  <2>1. /\ s \in DOMAIN l.halted /\ s \in Runs /\ m.halted[s] = h
        /\ ~(Renewed(l, r, a, v) /\ s = r /\ h.agent = a)
      BY <1>0, <1>1 DEF LatchType
  <2>2. /\ h.agent \in Agents /\ h.tool \in Tools /\ h.attempts \in Nat
        /\ h.attempts >= Threshold
        /\ <<s, h.agent, h.tool>> \in DOMAIN l.denied
        /\ l.denied[<<s, h.agent, h.tool>>] >= h.attempts
      BY <2>1 DEF Caused, LatchCore
  <2>3. <<s, h.agent, h.tool>> \in DOMAIN m.denied
      BY <2>1, <2>2, <1>3
  <2>4. m.denied[<<s, h.agent, h.tool>>] = l.denied[<<s, h.agent, h.tool>>]
      BY <2>3, <1>1
  <2> QED
      BY <2>1, <2>2, <2>3, <2>4
<1> QED
    BY <1>1, <1>2, <1>4, <1>5, <1>6 DEF LatchCore

\* One more attempt.
LEMMA CountCore ==
    ASSUME NEW l, LatchCore(l), NEW c, c.run \in Runs, c.agent \in Agents, c.tool \in Tools,
           <<c.run, c.agent>> \in DOMAIN l.versions,
           NEW m, m = Count(l, c)
    PROVE  /\ LatchCore(m) /\ m.runs = l.runs
           /\ \A R : Placed(l, R) => Placed(m, R \cup {c.run})
           /\ DOMAIN l.halted \subseteq DOMAIN m.halted
           /\ \A r \in DOMAIN l.halted : m.halted[r] = l.halted[r]
<1> DEFINE key == <<c.run, c.agent, c.tool>>
<1>0. LatchType(l) /\ Threshold \in Nat
    BY GateAssumption DEF LatchCore
<1>c. Counted(m, l, c, key)
    BY <1>0, CountProps
<1>1. /\ m = [runs |-> m.runs, versions |-> m.versions, denied |-> m.denied,
              halted |-> m.halted]
      /\ m.runs = l.runs /\ m.versions = l.versions
      /\ DOMAIN m.denied = DOMAIN l.denied \cup {key}
      /\ m.denied[key] = IF key \in DOMAIN l.denied THEN l.denied[key] + 1 ELSE 1
      /\ m.denied[key] \in Nat
      /\ \A k \in DOMAIN l.denied : k # key => m.denied[k] = l.denied[k]
      /\ \/ m.halted = l.halted
         \/ /\ m.denied[key] >= Threshold /\ c.run \notin DOMAIN l.halted
            /\ m.halted = Put(l.halted, c.run,
                   [agent |-> c.agent, tool |-> c.tool, attempts |-> m.denied[key]])
    BY <1>c DEF Counted
<1> DEFINE new == [agent |-> c.agent, tool |-> c.tool, attempts |-> m.denied[key]]
<1>2. \/ m.halted = l.halted
      \/ /\ m.denied[key] >= Threshold /\ c.run \notin DOMAIN l.halted
         /\ DOMAIN m.halted = DOMAIN l.halted \cup {c.run}
         /\ m.halted[c.run] = new
         /\ \A r \in DOMAIN l.halted : m.halted[r] = l.halted[r]
    BY <1>1 DEF Put
<1>3. \A k \in DOMAIN l.denied : m.denied[k] \in Nat /\ m.denied[k] >= l.denied[k]
  <2> SUFFICES ASSUME NEW k \in DOMAIN l.denied
               PROVE  m.denied[k] \in Nat /\ m.denied[k] >= l.denied[k]
      OBVIOUS
  <2>1. l.denied[k] \in Nat
      BY <1>0 DEF LatchType
  <2> QED
      BY <2>1, <1>1
<1>4. LatchType(m)
  <2>1. key \in Runs \X Agents \X Tools
      OBVIOUS
  <2>2. DOMAIN m.denied \subseteq Runs \X Agents \X Tools
      BY <2>1, <1>0, <1>1 DEF LatchType
  <2>3. DOMAIN m.halted \subseteq Runs
      BY <1>0, <1>2 DEF LatchType
  <2>4. \A k \in DOMAIN m.denied : m.denied[k] \in Nat
      BY <1>1, <1>3
  <2> HIDE DEF key
  <2> QED
      BY <2>2, <2>3, <2>4, <1>0, <1>1 DEF LatchType
<1>5. \A r \in Runs, a \in Agents, tool \in Tools :
        <<r, a, tool>> \in DOMAIN m.denied =>
          \/ <<r, a, tool>> \in DOMAIN l.denied
          \/ r = c.run /\ a = c.agent
    BY <1>1
<1>6. DeniedVersioned(m)
    BY <1>1, <1>5 DEF DeniedVersioned, LatchCore
<1>7. \A R : Placed(l, R) => Placed(m, R \cup {c.run})
    BY <1>5 DEF Placed
<1>8. Caused(m)
  <2> SUFFICES ASSUME NEW s \in DOMAIN m.halted
               PROVE  /\ m.halted[s].agent \in Agents /\ m.halted[s].tool \in Tools
                      /\ m.halted[s].attempts \in Nat /\ m.halted[s].attempts >= Threshold
                      /\ <<s, m.halted[s].agent, m.halted[s].tool>> \in DOMAIN m.denied
                      /\ m.denied[<<s, m.halted[s].agent, m.halted[s].tool>>]
                            >= m.halted[s].attempts
      BY DEF Caused
  <2>1. CASE s \in DOMAIN l.halted
    <3> DEFINE h == l.halted[s]
    <3>1. m.halted[s] = h
        BY <2>1, <1>2
    <3>2. /\ h.agent \in Agents /\ h.tool \in Tools /\ h.attempts \in Nat
          /\ h.attempts >= Threshold
          /\ <<s, h.agent, h.tool>> \in DOMAIN l.denied
          /\ l.denied[<<s, h.agent, h.tool>>] >= h.attempts
        BY <2>1 DEF Caused, LatchCore
    <3>3. l.denied[<<s, h.agent, h.tool>>] \in Nat
        BY <3>2, <1>0 DEF LatchType
    <3>4. /\ <<s, h.agent, h.tool>> \in DOMAIN m.denied
          /\ m.denied[<<s, h.agent, h.tool>>] \in Nat
          /\ m.denied[<<s, h.agent, h.tool>>] >= l.denied[<<s, h.agent, h.tool>>]
        BY <3>2, <1>1, <1>3
    <3> HIDE DEF h
    <3> QED
        BY <3>1, <3>2, <3>3, <3>4
  <2>2. CASE s \notin DOMAIN l.halted
    <3>1. s = c.run /\ m.halted[s] = new /\ m.denied[key] >= Threshold
        BY <2>2, <1>2
    <3>2. new.agent = c.agent /\ new.tool = c.tool /\ new.attempts = m.denied[key]
        OBVIOUS
    <3>3. key \in DOMAIN m.denied /\ m.denied[key] \in Nat
        BY <1>1
    <3> HIDE DEF new
    <3>4. <<s, m.halted[s].agent, m.halted[s].tool>> = key
        BY <3>1, <3>2
    <3> HIDE DEF key
    <3> QED
        BY <3>1, <3>2, <3>3, <3>4
  <2> QED
      BY <2>1, <2>2
<1> QED
    BY <1>1, <1>2, <1>4, <1>6, <1>7, <1>8 DEF LatchCore

-----------------------------------------------------------------------------
(* What the latch remembers stays justified *)

\* Forgetting a run or an agent keeps what is left justified.
LEMMA ThinnedMemory ==
    ASSUME NEW s, NEW cs, NEW l, NEW m, NEW E, MemoryOK(s, cs, l), LatchCore(m), Thinned(m, l, E)
    PROVE  MemoryOK(s, cs, m)
<1>1. ASSUME NEW r \in Runs, <<r, Boss>> \in DOMAIN m.versions
      PROVE  /\ <<r, Boss>> \in DOMAIN l.versions
             /\ m.versions[<<r, Boss>>] = l.versions[<<r, Boss>>]
    BY <1>1 DEF Thinned
<1>2. ASSUME NEW r \in Runs, NEW tool \in Tools, <<r, Boss, tool>> \in DOMAIN m.denied
      PROVE  <<r, Boss, tool>> \in DOMAIN l.denied /\ <<r, Boss>> \in DOMAIN m.versions
    BY <1>2 DEF Thinned, LatchCore, DeniedVersioned, Agents
<1> QED
    BY <1>1, <1>2 DEF MemoryOK

\* So does taking up a mandate version the boss has had.
LEMMA ReconcileMemory ==
    ASSUME NEW s, NEW cs, NEW l, LatchCore(l), MemoryOK(s, cs, l),
           NEW r \in Runs, NEW a \in Agents, NEW v, a = Boss => BossVersion(s, v),
           NEW m, m = Reconcile(l, r, a, v)
    PROVE  MemoryOK(s, cs, m)
<1>0. Reconciled(m, l, r, a, v)
    BY ReconcileProps DEF LatchCore
<1>1. ASSUME NEW q \in Runs, <<q, Boss>> \in DOMAIN m.versions
      PROVE  BossVersion(s, m.versions[<<q, Boss>>])
  <2>1. CASE <<q, Boss>> = <<r, a>>
      BY <1>0, <2>1 DEF Reconciled
  <2>2. CASE <<q, Boss>> # <<r, a>>
    <3>1. <<q, Boss>> \in DOMAIN l.versions /\ m.versions[<<q, Boss>>] = l.versions[<<q, Boss>>]
        BY <1>0, <1>1, <2>2 DEF Reconciled
    <3> QED
        BY <3>1 DEF MemoryOK
  <2> QED
      BY <2>1, <2>2
<1>2. ASSUME NEW q \in Runs, NEW tool \in Tools, <<q, Boss, tool>> \in DOMAIN m.denied
      PROVE  Borne(s, cs, m.versions[<<q, Boss>>], tool)
  <2>1. /\ <<q, Boss, tool>> \in DOMAIN l.denied
        /\ ~(Renewed(l, r, a, v) /\ q = r /\ Boss = a)
      BY <1>0, <1>2 DEF Reconciled
  <2>2. <<q, Boss>> \in DOMAIN l.versions
      BY <2>1 DEF LatchCore, DeniedVersioned, Agents
  <2>3. m.versions[<<q, Boss>>] = l.versions[<<q, Boss>>]
    <3>1. CASE q = r /\ Boss = a
        BY <3>1, <2>1, <2>2, <1>0 DEF Renewed, Reconciled
    <3>2. CASE ~(q = r /\ Boss = a)
      <4>1. <<q, Boss>> # <<r, a>>
          BY <3>2
      <4> QED
          BY <4>1, <2>2, <1>0 DEF Reconciled
    <3> QED
        BY <3>1, <3>2
  <2> QED
      BY <2>1, <2>3 DEF MemoryOK
<1> QED
    BY <1>1, <1>2 DEF MemoryOK

\* So does counting a denial that a call of the boss bears.
LEMMA CountMemory ==
    ASSUME NEW s, NEW cs, NEW l, LatchCore(l), MemoryOK(s, cs, l),
           NEW c, c.run \in Runs, c.agent \in Agents, c.tool \in Tools,
           c.agent = Boss => Borne(s, cs, l.versions[<<c.run, Boss>>], c.tool),
           NEW m, m = Count(l, c)
    PROVE  MemoryOK(s, cs, m)
<1> DEFINE key == <<c.run, c.agent, c.tool>>
<1>t. LatchType(l)
    BY DEF LatchCore
<1>c. Counted(m, l, c, key)
    BY <1>t, CountProps
<1>0. m.versions = l.versions /\ DOMAIN m.denied = DOMAIN l.denied \cup {key}
    BY <1>c DEF Counted
<1>1. ASSUME NEW q \in Runs, NEW tool \in Tools, <<q, Boss, tool>> \in DOMAIN m.denied
      PROVE  Borne(s, cs, m.versions[<<q, Boss>>], tool)
  <2>1. CASE <<q, Boss, tool>> \in DOMAIN l.denied
      BY <2>1, <1>0 DEF MemoryOK
  <2>2. CASE <<q, Boss, tool>> = <<c.run, c.agent, c.tool>>
    <3>1. q = c.run /\ c.agent = Boss /\ tool = c.tool
        BY <2>2
    <3> QED
        BY <3>1, <1>0
  <2> QED
      BY <2>1, <2>2, <1>0, <1>1
<1> QED
    BY <1>0, <1>1 DEF MemoryOK

\* The facts about denials stand as long as no call of the Boss begins and the
\* mandate is the same.
Lasting(ds, cs) ==
    \A t \in Threads :
        BossCall(ds[t]) =>
            /\ BossCall(cs[t]) /\ ds[t].tool = cs[t].tool /\ ds[t].ver = cs[t].ver
            /\ cs[t].outside => ds[t].outside

\* A denial that a call bears is still borne when calls only move on.
LEMMA BorneLasts ==
    ASSUME NEW s, NEW cs, NEW ds, Lasting(ds, cs)
    PROVE  \A v, tool : Borne(s, cs, v, tool) => Borne(s, ds, v, tool)
BY DEF Lasting, Borne, Told

\* Hence the latch stays justified when calls only move on.
LEMMA MemoryLasts ==
    ASSUME NEW s, NEW cs, NEW ds, NEW l, Lasting(ds, cs), MemoryOK(s, cs, l)
    PROVE  MemoryOK(s, ds, l)
BY BorneLasts DEF MemoryOK

-----------------------------------------------------------------------------
(* Calls *)

CallFields(c) ==
    c = [pc |-> c.pc, run |-> c.run, agent |-> c.agent, tool |-> c.tool, scope |-> c.scope,
         ver |-> c.ver, verdict |-> c.verdict, outside |-> c.outside, lent |-> c.lent,
         over |-> c.over]

Places == {"check", "upstream", "decide", "record"} \cup Ended

\* What a call is made of.
LEMMA CallType ==
    ASSUME NEW c \in Calls
    PROVE  /\ CallFields(c) /\ c # NoCall
           /\ c.pc \in Places /\ c.run \in Runs /\ c.agent \in Agents /\ c.tool \in Tools
           /\ c.scope \in Scopes /\ c.ver \in Seq(Nat)
           /\ c.verdict \in {"none", "run", "park", "deny", "out_of_scope"}
           /\ c.outside \in BOOLEAN /\ c.lent \in BOOLEAN /\ c.over \in BOOLEAN
<1>1. /\ CallFields(c)
      /\ c.pc \in Places /\ c.run \in Runs /\ c.agent \in Agents /\ c.tool \in Tools
      /\ c.scope \in Scopes /\ c.ver \in Seq(Nat)
      /\ c.verdict \in {"none", "run", "park", "deny", "out_of_scope"}
      /\ c.outside \in BOOLEAN /\ c.lent \in BOOLEAN /\ c.over \in BOOLEAN
    BY DEF Calls, CallFields, Places
<1>2. c.pc # "idle"
    BY <1>1 DEF Places, Ended
<1> QED
    BY <1>1, <1>2 DEF NoCall

\* d is c further on.
SameCall(d, c) ==
    /\ d.run = c.run /\ d.agent = c.agent /\ d.tool = c.tool /\ d.scope = c.scope
    /\ d.ver = c.ver
    /\ c.outside <=> d.outside
    /\ c.lent <=> d.lent
    /\ d.over => c.over

\* A call that moves to another place is the same call.
LEMMA MovedCall ==
    ASSUME NEW c \in Calls, NEW pc \in Places, NEW o \in BOOLEAN, o => c.over, NEW d,
           d = [pc |-> pc, run |-> c.run, agent |-> c.agent, tool |-> c.tool,
                scope |-> c.scope, ver |-> c.ver, verdict |-> c.verdict,
                outside |-> c.outside, lent |-> c.lent, over |-> o]
    PROVE  d \in Calls /\ d.pc = pc /\ SameCall(d, c) /\ d.verdict = c.verdict
<1>1. /\ d.pc = pc /\ d.run = c.run /\ d.agent = c.agent /\ d.tool = c.tool
      /\ d.scope = c.scope /\ d.ver = c.ver /\ d.verdict = c.verdict
      /\ d.outside = c.outside /\ d.lent = c.lent /\ d.over = o
    OBVIOUS
<1>2. d \in Calls
    BY CallType DEF Calls, Places
<1> QED
    BY <1>1, <1>2 DEF SameCall

\* A call that stays where it is keeps what it knows.
LEMMA CallKept ==
    ASSUME NEW s, NEW cs, NEW ds, NEW c \in Calls, NEW d \in Calls,
           Lasting(ds, cs), SameCall(d, c), d.pc = c.pc, d.verdict = c.verdict,
           CallOK(s, cs, c)
    PROVE  CallOK(s, ds, d)
<1>1. Borne(s, cs, c.ver, c.tool) => Borne(s, ds, c.ver, c.tool)
    BY BorneLasts
<1> QED
    BY <1>1 DEF CallOK, SameCall

\* The latch has become l, and thread t goes on.
LEMMA StepCalls ==
    ASSUME NEW s, CallsOK(s, call), NEW t \in Threads, NEW l, NEW pc \in Places,
           call[t] \in Calls, Step(t, l, pc),
           call[t].pc \notin Ended,
           pc \in {"upstream", "decide", "repeat", "halted", "refused"},
           pc \in {"upstream", "decide"} => call[t].run \notin DOMAIN l.halted,
           pc = "upstream" => call[t].agent \in Subs,
           pc = "decide" => call[t].agent = Boss,
           pc = "repeat" /\ call[t].agent = Boss => call[t].outside
    PROVE  CallsOK(s, call') /\ Lasting(call', call)
<1>1. call = [u \in Threads |-> call[u]]
    BY DEF CallsOK
<1>2. call' = [u \in Threads |-> call'[u]]
    BY DEF Step, Watched
<1>3. ASSUME NEW u \in Threads, call[u] = NoCall
      PROVE  call'[u] = NoCall
  <2>1. u # t
      BY <1>3, CallType
  <2> QED
      BY <1>1, <1>3, <2>1 DEF Step, Watched
<1>4. ASSUME NEW u \in Threads, call[u] \in Calls
      PROVE  /\ call'[u] \in Calls /\ SameCall(call'[u], call[u])
             /\ call'[u].verdict = call[u].verdict
             /\ call'[u].pc = IF u = t THEN pc ELSE call[u].pc
             /\ call'[u].over => call[u].run \in DOMAIN l.halted
  <2> DEFINE c == call[u]
             p == IF u = t THEN pc ELSE c.pc
             X == c.run \in DOMAIN l.halted
             e == [c EXCEPT !.pc = p]
             d == [e EXCEPT !.over = @ /\ X]
  <2>1. c \in Calls /\ p \in Places /\ X \in BOOLEAN /\ CallFields(c)
      BY <1>4, CallType
  <2>2. [call EXCEPT ![t].pc = pc][u] = e
    <3>1. CASE u = t
        BY <3>1, <1>1
    <3>2. CASE u # t
        BY <3>2, <1>1, <2>1 DEF CallFields
    <3> QED
        BY <3>1, <3>2
  <2>3. e = [pc |-> p, run |-> c.run, agent |-> c.agent, tool |-> c.tool, scope |-> c.scope,
             ver |-> c.ver, verdict |-> c.verdict, outside |-> c.outside, lent |-> c.lent,
             over |-> c.over]
      BY <2>1 DEF CallFields
  <2>4. e # NoCall /\ e.run = c.run
    <3>1. e.pc = p /\ p # "idle"
        BY <2>1, <2>3 DEF Places, Ended
    <3> QED
        BY <3>1, <2>3 DEF NoCall
  <2>5. call'[u] = d
    <3>1. call' = Watched([call EXCEPT ![t].pc = pc], l)
        BY DEF Step
    <3> HIDE DEF e
    <3> QED
        BY <3>1, <2>2, <2>4 DEF Watched
  <2>6. d \in Calls /\ d.pc = p /\ SameCall(d, c) /\ (d.over => X) /\ d.verdict = c.verdict
    <3>1. d = [pc |-> p, run |-> c.run, agent |-> c.agent, tool |-> c.tool,
               scope |-> c.scope, ver |-> c.ver, verdict |-> c.verdict,
               outside |-> c.outside, lent |-> c.lent, over |-> c.over /\ X]
      <4> HIDE DEF e
      <4> QED
          BY <2>3
    <3>2. (c.over /\ X) \in BOOLEAN /\ d.over = (c.over /\ X)
        BY <3>1
    <3> DEFINE o == c.over /\ X
    <3>3. o \in BOOLEAN /\ (o => c.over) /\ (o => X) /\ d.over = o
        BY <3>2
    <3>4. d = [pc |-> p, run |-> c.run, agent |-> c.agent, tool |-> c.tool,
               scope |-> c.scope, ver |-> c.ver, verdict |-> c.verdict,
               outside |-> c.outside, lent |-> c.lent, over |-> o]
        BY <3>1
    <3> HIDE DEF c, p, o, d
    <3> QED
        BY <2>1, <3>3, <3>4, MovedCall
  <2> HIDE DEF d
  <2> QED
      BY <2>5, <2>6
<1>5. \A u \in Threads : call[u] # NoCall => call[u] \in Calls /\ CallOK(s, call, call[u])
    BY DEF CallsOK
<1>6. Lasting(call', call)
  <2> SUFFICES ASSUME NEW u \in Threads, BossCall(call'[u])
               PROVE  /\ BossCall(call[u]) /\ call'[u].tool = call[u].tool
                      /\ call'[u].ver = call[u].ver
                      /\ call[u].outside => call'[u].outside
      BY DEF Lasting
  <2>1. call[u] \in Calls
      BY <1>3, <1>5 DEF BossCall
  <2>2. call[u].pc \notin Ended
      BY <2>1, <1>4 DEF BossCall
  <2> QED
      BY <2>1, <2>2, <1>4, CallType DEF BossCall, SameCall
<1>7. ASSUME NEW u \in Threads, call'[u] # NoCall
      PROVE  call'[u] \in Calls /\ CallOK(s, call', call'[u])
  <2>1. call[u] \in Calls /\ CallOK(s, call, call[u])
      BY <1>3, <1>5, <1>7
  <2>2. /\ call'[u] \in Calls /\ SameCall(call'[u], call[u])
        /\ call'[u].verdict = call[u].verdict
        /\ call'[u].pc = IF u = t THEN pc ELSE call[u].pc
        /\ call'[u].over => call[u].run \in DOMAIN l.halted
      BY <2>1, <1>4
  <2>3. CASE u # t
    <3>1. call'[u].pc = call[u].pc
        BY <2>2, <2>3
    <3> QED
        BY <3>1, <2>1, <2>2, <1>6, CallKept
  <2>4. CASE u = t
    <3>1. call'[u].pc = pc /\ call[u] = call[t]
        BY <2>2, <2>4
    <3>2. Boss \notin Subs
        BY GateAssumption
    <3>3. call[u].pc \notin Ended
        BY <2>4
    <3> DEFINE c == call[u]
               d == call'[u]
    <3>4. /\ d.agent = c.agent /\ d.tool = c.tool /\ d.scope = c.scope /\ d.ver = c.ver
          /\ (c.outside <=> d.outside) /\ (c.lent <=> d.lent)
          /\ d.over => c.run \in DOMAIN l.halted
        BY <2>2 DEF SameCall
    <3>5. /\ c.agent \in Subs => c.scope # NoScope
          /\ c.agent = Boss => BossVersion(s, c.ver)
          /\ c.agent \in Subs /\ Lets(s, c.tool) => c.lent
          /\ c.agent = Boss /\ Bars(s, c.tool) => c.outside
        BY <2>1, <3>3 DEF CallOK
    <3>6. /\ pc \in {"upstream", "decide"} => c.run \notin DOMAIN l.halted
          /\ pc = "upstream" => c.agent \in Subs
          /\ pc = "decide" => c.agent = Boss
          /\ pc = "repeat" /\ c.agent = Boss => c.outside
        BY <2>4
    <3>7. d.pc = pc /\ pc # "record" /\ pc # "ran"
        BY <3>1
    <3> HIDE DEF c, d
    <3>8. CallOK(s, call', d)
        BY <3>2, <3>4, <3>5, <3>6, <3>7 DEF CallOK
    <3> QED
        BY <3>8, <2>2 DEF d
  <2> QED
      BY <2>3, <2>4
<1> QED
    BY <1>2, <1>6, <1>7 DEF CallsOK

-----------------------------------------------------------------------------
(* The latch over one call of check or record *)

\* A halt of l that m lacks ended with its cause, or with its run's place.
HaltsKept(m, l, c) ==
    \A r \in DOMAIN l.halted \ DOMAIN m.halted :
        \/ /\ l.halted[r].agent = c.agent
           /\ m.versions[<<r, c.agent>>] # l.versions[<<r, c.agent>>]
        \/ r \notin Range(m.runs) /\ Head(l.runs) = r /\ Len(m.runs) = MaxRuns

\* What check and record do first.
LEMMA ReconcileLatch ==
    ASSUME NEW s, NEW cs, NEW l, LatchInv(l), MemoryOK(s, cs, l),
           NEW c \in Calls, c.agent = Boss => BossVersion(s, c.ver),
           NEW k, k = Reconcile(l, c.run, c.agent, c.ver)
    PROVE  /\ LatchInv(k) /\ MemoryOK(s, cs, k) /\ k.runs = l.runs
           /\ <<c.run, c.agent>> \in DOMAIN k.versions
           /\ k.versions[<<c.run, c.agent>>] = c.ver
           /\ \A r \in DOMAIN l.halted \ DOMAIN k.halted :
                /\ r = c.run /\ l.halted[r].agent = c.agent
                /\ c.ver # l.versions[<<r, c.agent>>]
<1>0. c.run \in Runs /\ c.agent \in Agents
    BY CallType
<1>1. LatchCore(l) /\ LatchType(l) /\ RunsOK(l) /\ Placed(l, Range(l.runs))
    BY DEF LatchInv, LatchCore
<1>2. /\ LatchCore(k) /\ k.runs = l.runs /\ Placed(k, Range(l.runs))
      /\ <<c.run, c.agent>> \in DOMAIN k.versions
    BY <1>0, <1>1, ReconcileCore
<1>3. Reconciled(k, l, c.run, c.agent, c.ver)
    BY <1>1, ReconcileProps
<1>4. MemoryOK(s, cs, k)
    BY <1>0, <1>1, ReconcileMemory
<1>5. LatchInv(k)
    BY <1>1, <1>2 DEF LatchInv, RunsOK
<1> QED
    BY <1>2, <1>3, <1>4, <1>5 DEF Reconciled, Renewed

\* What they do last, with k the latch so far and n the latch with the
\* attempt counted, if it is.
LEMMA TouchLatch ==
    ASSUME NEW s, NEW cs, NEW l, NEW c \in Calls,
           NEW k, LatchInv(k), MemoryOK(s, cs, k), k.runs = l.runs,
           <<c.run, c.agent>> \in DOMAIN k.versions,
           k.versions[<<c.run, c.agent>>] = c.ver,
           \A r \in DOMAIN l.halted \ DOMAIN k.halted :
                /\ r = c.run /\ l.halted[r].agent = c.agent
                /\ c.ver # l.versions[<<r, c.agent>>],
           c.agent = Boss => Borne(s, cs, c.ver, c.tool),
           NEW n, n = k \/ n = Count(k, c),
           NEW m, m = Touch(n, c.run)
    PROVE  LatchInv(m) /\ MemoryOK(s, cs, m) /\ HaltsKept(m, l, c)
<1>0. c.run \in Runs /\ c.agent \in Agents /\ c.tool \in Tools
    BY CallType
<1>1. LatchCore(k) /\ LatchType(k) /\ RunsOK(k) /\ Placed(k, Range(k.runs))
    BY DEF LatchInv, LatchCore
<1>2. /\ LatchCore(n) /\ n.runs = k.runs /\ n.versions = k.versions
      /\ Placed(n, Range(k.runs) \cup {c.run})
      /\ MemoryOK(s, cs, n)
      /\ DOMAIN k.halted \subseteq DOMAIN n.halted
      /\ \A r \in DOMAIN k.halted : n.halted[r] = k.halted[r]
  <2>1. CASE n = k
    <3>1. Placed(k, Range(k.runs) \cup {c.run})
        BY <1>1 DEF Placed
    <3> QED
        BY <2>1, <3>1, <1>1
  <2>2. CASE n = Count(k, c)
    <3>1. Counted(n, k, c, <<c.run, c.agent, c.tool>>)
        BY <2>2, <1>1, CountProps
    <3>2. n.versions = k.versions
        BY <3>1 DEF Counted
    <3>3. MemoryOK(s, cs, n)
        BY <2>2, <1>0, <1>1, CountMemory
    <3>4. /\ LatchCore(n) /\ n.runs = k.runs
          /\ \A R : Placed(k, R) => Placed(n, R \cup {c.run})
          /\ DOMAIN k.halted \subseteq DOMAIN n.halted
          /\ \A r \in DOMAIN k.halted : n.halted[r] = k.halted[r]
        BY <2>2, <1>0, <1>1, CountCore
    <3> QED
        BY <3>2, <3>3, <3>4, <1>1
  <2> QED
      BY <2>1, <2>2
<1>3. RunsOK(n) /\ Placed(n, Range(n.runs) \cup {c.run})
    BY <1>1, <1>2 DEF RunsOK
<1>4. LatchInv(m)
    BY <1>0, <1>2, <1>3, TouchCore
<1>5. PICK E \in SUBSET Runs :
        /\ Thinned(m, n, E)
        /\ c.run \notin E /\ Range(m.runs) \cap E = {}
        /\ E # {} => E = {Head(n.runs)} /\ Len(m.runs) = MaxRuns
    BY <1>0, <1>2, <1>3, TouchCore
<1>6. MemoryOK(s, cs, m)
    BY <1>2, <1>4, <1>5, ThinnedMemory DEF LatchInv
<1>7. HaltsKept(m, l, c)
  <2> SUFFICES ASSUME NEW r \in DOMAIN l.halted \ DOMAIN m.halted
               PROVE  \/ /\ l.halted[r].agent = c.agent
                         /\ m.versions[<<r, c.agent>>] # l.versions[<<r, c.agent>>]
                      \/ r \notin Range(m.runs) /\ Head(l.runs) = r /\ Len(m.runs) = MaxRuns
      BY DEF HaltsKept
  <2>1. CASE r \in DOMAIN k.halted
    <3>1. r \in DOMAIN n.halted
        BY <2>1, <1>2
    <3>2. r \in E
        BY <3>1, <1>5 DEF Thinned
    <3> QED
        BY <3>2, <1>2, <1>5
  <2>2. CASE r \notin DOMAIN k.halted
    <3>1. /\ r = c.run /\ l.halted[r].agent = c.agent
          /\ c.ver # l.versions[<<r, c.agent>>]
        BY <2>2
    <3>2. m.versions[<<r, c.agent>>] = n.versions[<<r, c.agent>>]
        BY <3>1, <1>2, <1>5 DEF Thinned
    <3> QED
        BY <3>1, <3>2, <1>2
  <2> QED
      BY <2>1, <2>2
<1> QED
    BY <1>4, <1>6, <1>7

-----------------------------------------------------------------------------
(* Every action keeps the invariant *)

\* A thread that is somewhere is in a call.
LEMMA InCall ==
    ASSUME GateInv, NEW t \in Threads, call[t].pc # "idle"
    PROVE  /\ call[t] \in Calls /\ call[t] # NoCall
           /\ CallOK(snap[Boss], call, call[t])
<1>1. call[t] # NoCall
    BY DEF NoCall
<1> QED
    BY <1>1 DEF GateInv, CallsOK

\* A denial from memory, or the first one: the latch counts it.
LEMMA CheckInv ==
    ASSUME GateInv, NEW t \in Threads, Check(t)
    PROVE  GateInv' /\ HaltsKept(latch', latch, call[t])
<1> DEFINE s == snap[Boss]
           c == call[t]
           l == Reconcile(latch, c.run, c.agent, c.ver)
           key == <<c.run, c.agent, c.tool>>
<1>1. c.pc = "check" /\ c \in Calls /\ c # NoCall /\ CallOK(s, call, c)
    BY InCall DEF Check
<1>2. /\ CallsOK(s, call) /\ LatchInv(latch) /\ MemoryOK(s, call, latch) /\ SnapOK
      /\ UNCHANGED <<snap, scope>>
    BY DEF GateInv, Check, gates
<1>3. c.agent = Boss => BossVersion(s, c.ver)
    BY <1>1 DEF CallOK
<1>4. /\ LatchInv(l) /\ MemoryOK(s, call, l) /\ l.runs = latch.runs
      /\ <<c.run, c.agent>> \in DOMAIN l.versions
      /\ l.versions[<<c.run, c.agent>>] = c.ver
      /\ \A r \in DOMAIN latch.halted \ DOMAIN l.halted :
           /\ r = c.run /\ latch.halted[r].agent = c.agent
           /\ c.ver # latch.versions[<<r, c.agent>>]
    BY <1>1, <1>2, <1>3, ReconcileLatch
<1>5. /\ c.run \in Runs /\ c.agent \in Agents /\ c.tool \in Tools
      /\ c.pc \notin Ended /\ Boss \notin Subs
    BY <1>1, CallType, GateAssumption DEF Ended
<1>6. CASE c.run \in DOMAIN l.halted
  <2>1. Step(t, Touch(l, c.run), "halted")
      BY <1>6 DEF Check
  <2>2. LatchInv(Touch(l, c.run)) /\ MemoryOK(s, call, Touch(l, c.run))
        /\ HaltsKept(Touch(l, c.run), latch, c)
    <3> HIDE DEF c, l
    <3>1. LatchCore(l) /\ RunsOK(l) /\ Placed(l, Range(l.runs) \cup {c.run})
        BY <1>4 DEF LatchInv, Placed
    <3>2. LatchInv(Touch(l, c.run))
        BY <3>1, <1>5, TouchCore
    <3>3. PICK E \in SUBSET Runs :
            /\ Thinned(Touch(l, c.run), l, E)
            /\ c.run \notin E /\ Range(Touch(l, c.run).runs) \cap E = {}
            /\ E # {} => E = {Head(l.runs)} /\ Len(Touch(l, c.run).runs) = MaxRuns
        BY <3>1, <1>5, TouchCore
    <3>4. MemoryOK(s, call, Touch(l, c.run))
        BY <1>4, <3>2, <3>3, ThinnedMemory DEF LatchInv
    <3>5. ASSUME NEW r \in DOMAIN latch.halted \ DOMAIN Touch(l, c.run).halted
          PROVE  \/ /\ latch.halted[r].agent = c.agent
                    /\ Touch(l, c.run).versions[<<r, c.agent>>]
                         # latch.versions[<<r, c.agent>>]
                 \/ /\ r \notin Range(Touch(l, c.run).runs) /\ Head(latch.runs) = r
                    /\ Len(Touch(l, c.run).runs) = MaxRuns
      <4>1. CASE r \in DOMAIN l.halted
          BY <4>1, <1>4, <3>3, <3>5 DEF Thinned
      <4>2. CASE r \notin DOMAIN l.halted
          BY <4>2, <1>4, <3>3, <3>5 DEF Thinned
      <4> QED
          BY <4>1, <4>2
    <3> QED
        BY <3>2, <3>4, <3>5 DEF HaltsKept
  <2>3. "halted" \in Places /\ "halted" \notin {"upstream", "decide", "repeat"}
      BY DEF Places, Ended
  <2>4. CallsOK(s, call') /\ Lasting(call', call)
    <3> HIDE DEF l, s
    <3> QED
        BY <2>1, <2>3, <1>1, <1>2, <1>5, StepCalls
  <2>5. latch' = Touch(l, c.run)
      BY <2>1 DEF Step
  <2>6. MemoryOK(s, call', latch')
      BY <2>2, <2>4, <2>5, MemoryLasts
  <2> QED
      BY <2>2, <2>4, <2>5, <2>6, <1>2 DEF GateInv, SnapOK
<1>7. CASE c.run \notin DOMAIN l.halted /\ key \in DOMAIN l.denied
  <2> DEFINE n == Count(l, c)
             pc == "repeat"
  <2>1. Step(t, Touch(n, c.run), pc)
      BY <1>7 DEF Check
  <2>2. c.agent = Boss => Borne(s, call, c.ver, c.tool)
    <3> HIDE DEF c, l
    <3> QED
        BY <1>4, <1>5, <1>7 DEF MemoryOK
  <2>3. LatchInv(Touch(n, c.run)) /\ MemoryOK(s, call, Touch(n, c.run))
        /\ HaltsKept(Touch(n, c.run), latch, c)
    <3> HIDE DEF c, l, s
    <3> QED
        BY <1>1, <1>4, <2>2, TouchLatch
  <2>4. c.agent = Boss => c.outside
      BY <2>2, <1>1, <1>5 DEF Borne, Told, BossCall
  <2>5. pc = "repeat" /\ pc \in Places
      BY DEF Places, Ended
  <2> HIDE DEF n, pc
  <2>6. CallsOK(s, call') /\ Lasting(call', call)
    <3> HIDE DEF l, s
    <3> QED
        BY <2>1, <2>4, <2>5, <1>1, <1>2, <1>5, StepCalls
  <2>7. latch' = Touch(n, c.run)
      BY <2>1 DEF Step
  <2>8. MemoryOK(s, call', latch')
      BY <2>3, <2>6, <2>7, MemoryLasts
  <2> QED
      BY <2>3, <2>6, <2>7, <2>8, <1>2 DEF GateInv, SnapOK
<1>8. CASE c.run \notin DOMAIN l.halted /\ key \notin DOMAIN l.denied
  <2> DEFINE pc == IF c.agent = Boss THEN "decide" ELSE "upstream"
  <2>1. Step(t, l, pc)
      BY <1>8 DEF Check
  <2>2. /\ pc \in {"decide", "upstream"} /\ pc \in Places
        /\ pc = "decide" => c.agent = Boss
        /\ pc = "upstream" => c.agent \in Subs
      BY <1>5 DEF Places, Agents
  <2> HIDE DEF pc
  <2>3. CallsOK(s, call') /\ Lasting(call', call)
    <3> HIDE DEF l, s
    <3> QED
        BY <2>1, <2>2, <1>1, <1>2, <1>5, <1>8, StepCalls
  <2>4. latch' = l
      BY <2>1 DEF Step
  <2>5. MemoryOK(s, call', latch')
      BY <1>4, <2>3, <2>4, MemoryLasts
  <2>6. ASSUME NEW r \in DOMAIN latch.halted \ DOMAIN latch'.halted
        PROVE  /\ latch.halted[r].agent = c.agent
               /\ latch'.versions[<<r, c.agent>>] # latch.versions[<<r, c.agent>>]
    <3> HIDE DEF l
    <3> QED
        BY <2>4, <2>6, <1>4
  <2>7. HaltsKept(latch', latch, c)
      BY <2>6 DEF HaltsKept
  <2> HIDE DEF l
  <2> QED
      BY <1>4, <2>3, <2>4, <2>5, <2>7, <1>2 DEF GateInv, SnapOK
<1> QED
    BY <1>6, <1>7, <1>8

\* The first denial of a tool, or one more that nobody had told the latch of.
LEMMA RecordInv ==
    ASSUME GateInv, NEW t \in Threads, Record(t)
    PROVE  GateInv' /\ HaltsKept(latch', latch, call[t])
<1> DEFINE s == snap[Boss]
           c == call[t]
           l == Reconcile(latch, c.run, c.agent, c.ver)
           n == Count(l, c)
           pc == "refused"
<1>1. c.pc = "record" /\ c \in Calls /\ c # NoCall /\ CallOK(s, call, c)
    BY InCall DEF Record
<1>2. /\ CallsOK(s, call) /\ LatchInv(latch) /\ MemoryOK(s, call, latch) /\ SnapOK
      /\ UNCHANGED <<snap, scope>> /\ Step(t, Touch(n, c.run), pc)
    BY DEF GateInv, Record, gates
<1>3. /\ c.agent = Boss => BossVersion(s, c.ver)
      /\ c.agent = Boss => Borne(s, call, c.ver, c.tool)
    BY <1>1 DEF CallOK
<1>4. /\ LatchInv(l) /\ MemoryOK(s, call, l) /\ l.runs = latch.runs
      /\ <<c.run, c.agent>> \in DOMAIN l.versions
      /\ l.versions[<<c.run, c.agent>>] = c.ver
      /\ \A r \in DOMAIN latch.halted \ DOMAIN l.halted :
           /\ r = c.run /\ latch.halted[r].agent = c.agent
           /\ c.ver # latch.versions[<<r, c.agent>>]
    BY <1>1, <1>2, <1>3, ReconcileLatch
<1>5. /\ c.run \in Runs /\ c.agent \in Agents /\ c.tool \in Tools
      /\ c.pc \notin Ended
    BY <1>1, CallType DEF Ended
<1>6. LatchInv(Touch(n, c.run)) /\ MemoryOK(s, call, Touch(n, c.run))
      /\ HaltsKept(Touch(n, c.run), latch, c)
  <2> HIDE DEF c, l, s
  <2> QED
      BY <1>1, <1>3, <1>4, TouchLatch
<1>7. pc = "refused" /\ pc \in Places
    BY DEF Places, Ended
<1> HIDE DEF n, pc
<1>8. CallsOK(s, call') /\ Lasting(call', call)
  <2> HIDE DEF l, s
  <2> QED
      BY <1>1, <1>2, <1>5, <1>7, StepCalls
<1>9. latch' = Touch(n, c.run)
    BY <1>2 DEF Step
<1>10. MemoryOK(s, call', latch')
    BY <1>6, <1>8, <1>9, MemoryLasts
<1> QED
    BY <1>2, <1>6, <1>8, <1>9, <1>10 DEF GateInv, SnapOK

\* What a snapshot is.
LEMMA SnapshotType ==
    ASSUME SnapOK, NEW a \in Agents
    PROVE  /\ snap[a].ver \in Nat
           /\ snap[a] = NoSnapshot => snap[a].ver = 0
           /\ snap[a] # NoSnapshot =>
                /\ snap[a] = [ver |-> snap[a].ver, m |-> snap[a].m,
                               enforced |-> snap[a].enforced]
                /\ snap[a].ver \in 1..MaxVersion[a] /\ snap[a].m \in Mandates[a]
                /\ snap[a].enforced \in BOOLEAN
                /\ ~snap[a].m.observing => snap[a].enforced
<1>1. snap[a] \in SnapshotsOf(a) /\ MaxVersion[a] \in Nat
    BY GateAssumption DEF SnapOK, Agents
<1>2. CASE snap[a] = NoSnapshot
    BY <1>2 DEF NoSnapshot
<1>3. CASE snap[a] # NoSnapshot
  <2>1. snap[a] \in [ver : 1..MaxVersion[a], m : Mandates[a], enforced : BOOLEAN]
      BY <1>1, <1>3 DEF SnapshotsOf
  <2>2. ~snap[a].m.observing => snap[a].enforced
      BY <1>3 DEF SnapOK
  <2> QED
      BY <2>1, <2>2, <1>1, <1>3
<1> QED
    BY <1>2, <1>3

\* Calls that go on, or stay, in place of those before.
LEMMA AdvanceCalls ==
    ASSUME NEW s, CallsOK(s, call), NEW t \in Threads, NEW d,
           call[t] \in Calls, call[t].pc \notin Ended,
           call' = [call EXCEPT ![t] = d],
           d \in Calls, SameCall(d, call[t]), CallOK(s, call, d)
    PROVE  CallsOK(s, call') /\ Lasting(call', call)
<1>1. call = [u \in Threads |-> call[u]]
    BY DEF CallsOK
<1>2. /\ call' = [u \in Threads |-> call'[u]]
      /\ call'[t] = d
      /\ \A u \in Threads : u # t => call'[u] = call[u]
    BY <1>1
<1>3. Lasting(call', call)
  <2> SUFFICES ASSUME NEW u \in Threads, BossCall(call'[u])
               PROVE  /\ BossCall(call[u]) /\ call'[u].tool = call[u].tool
                      /\ call'[u].ver = call[u].ver
                      /\ call[u].outside => call'[u].outside
      BY DEF Lasting
  <2>1. CASE u = t
      BY <2>1, <1>2, CallType DEF BossCall, SameCall
  <2>2. CASE u # t
      BY <2>2, <1>2
  <2> QED
      BY <2>1, <2>2
<1>4. ASSUME NEW u \in Threads, call'[u] # NoCall
      PROVE  call'[u] \in Calls /\ CallOK(s, call', call'[u])
  <2> DEFINE c == IF u = t THEN d ELSE call[u]
  <2>1. c \in Calls /\ CallOK(s, call, c) /\ call'[u] = c
      BY <1>2, <1>4 DEF CallsOK
  <2>2. SameCall(c, c)
      BY DEF SameCall
  <2> HIDE DEF c
  <2> QED
      BY <2>1, <2>2, <1>3, CallKept
<1> QED
    BY <1>2, <1>3, <1>4 DEF CallsOK

\* The invariant, when only a call has changed.
LEMMA CallsInv ==
    ASSUME GateInv, UNCHANGED <<snap, scope, latch>>,
           CallsOK(snap[Boss], call'), Lasting(call', call)
    PROVE  GateInv'
<1>1. MemoryOK(snap[Boss], call', latch)
    BY MemoryLasts DEF GateInv
<1> QED
    BY <1>1 DEF GateInv, SnapOK

\* MandateGate.decide: a permit is one a mandate lets, a scope denial one it
\* does not.
LEMMA JudgeProps ==
    ASSUME SnapOK, NEW a \in Agents, NEW old \in BOOLEAN, NEW within \in BOOLEAN,
           NEW tool \in Tools, NEW v, v = Judge(snap[a], old, tool, within)
    PROVE  /\ v \in {"run", "park", "deny", "out_of_scope"}
           /\ v = "run" => Lets(snap[a], tool)
           /\ v = "out_of_scope" => Bars(snap[a], tool)
<1>1. CASE snap[a] = NoSnapshot
    BY <1>1 DEF Judge, Unevaluable, Lets
<1>2. CASE snap[a] # NoSnapshot
  <2> DEFINE s == snap[a]
  <2>1. s.m \in Mandates[a] /\ Mandates[a] \subseteq
         [tools : SUBSET Tools, observing : BOOLEAN, approval : [Tools -> Approvals],
          suspended : BOOLEAN, reassess : BOOLEAN, closed : BOOLEAN,
          delegates : BOOLEAN]
      BY <1>2, SnapshotType, GateAssumption DEF Agents
  <2>2. /\ s.m.observing \in BOOLEAN /\ s.m.suspended \in BOOLEAN
        /\ s.m.reassess \in BOOLEAN /\ s.m.closed \in BOOLEAN
        /\ s.m.approval[tool] \in Approvals
      BY <2>1
  <2>3. s # NoSnapshot /\ (~s.m.observing => s.enforced)
      BY <1>2, SnapshotType
  <2> HIDE DEF s
  <2> QED
      BY <2>2, <2>3 DEF Judge, Unevaluable, Budgeted, Lets, Bars, OutOfScope, Approvals, s
<1> QED
    BY <1>1, <1>2

\* Call c with a verdict.
Given(c, v, pc) ==
    [pc |-> pc, run |-> c.run, agent |-> c.agent, tool |-> c.tool,
     scope |-> c.scope, ver |-> c.ver, verdict |-> v,
     outside |-> c.outside, lent |-> c.lent, over |-> c.over]

Rulings == {"run", "park", "deny", "out_of_scope"}

\* A call that is given a verdict is the same call.
LEMMA VerdictCall ==
    ASSUME NEW c \in Calls, NEW pc \in Places, NEW v \in Rulings, NEW d, d = Given(c, v, pc)
    PROVE  d \in Calls /\ d.pc = pc /\ SameCall(d, c) /\ d.verdict = v
<1>1. /\ d.pc = pc /\ d.run = c.run /\ d.agent = c.agent /\ d.tool = c.tool
      /\ d.scope = c.scope /\ d.ver = c.ver /\ d.verdict = v
      /\ d.outside = c.outside /\ d.lent = c.lent /\ d.over = c.over
    BY DEF Given
<1>2. d \in Calls
    BY CallType DEF Calls, Places, Given, Rulings
<1> QED
    BY <1>1, <1>2 DEF SameCall

\* The two updates of a ruled call, as one record.
LEMMA GivenCall ==
    ASSUME NEW c \in Calls, NEW v, NEW pc
    PROVE  [c EXCEPT !.verdict = v, !.pc = pc] = Given(c, v, pc)
<1>1. CallFields(c)
    BY CallType
<1>2. [c EXCEPT !.verdict = v] =
        [pc |-> c.pc, run |-> c.run, agent |-> c.agent, tool |-> c.tool,
         scope |-> c.scope, ver |-> c.ver, verdict |-> v,
         outside |-> c.outside, lent |-> c.lent, over |-> c.over]
    BY <1>1 DEF CallFields
<1> DEFINE e == [c EXCEPT !.verdict = v]
<1>3. [e EXCEPT !.pc = pc] = Given(c, v, pc)
  <2> HIDE DEF e
  <2>1. e = [pc |-> c.pc, run |-> c.run, agent |-> c.agent, tool |-> c.tool,
         scope |-> c.scope, ver |-> c.ver, verdict |-> v,
         outside |-> c.outside, lent |-> c.lent, over |-> c.over]
      BY <1>2 DEF e
  <2> QED
      BY <2>1 DEF Given
<1> QED
    BY <1>3

\* The delegator's gate is asked; only what it lets goes on to the agent's.
LEMMA UpstreamInv ==
    ASSUME GateInv, NEW t \in Threads, NEW old \in BOOLEAN, NEW within \in BOOLEAN,
           Upstream(t, old, within)
    PROVE  GateInv'
<1> DEFINE s == snap[Boss]
           c == call[t]
           v == Judge(snap[Boss], old, call[t].tool, within)
           pc == IF v = "run" THEN "decide" ELSE Consequence(v)
<1>1. c.pc = "upstream" /\ c \in Calls /\ CallOK(s, call, c)
    BY InCall DEF Upstream
<1>2. c.tool \in Tools /\ c.pc \notin Ended /\ Boss \in Agents /\ Boss \notin Subs
    BY <1>1, CallType, GateAssumption DEF Ended, Agents
<1>3. /\ v \in {"run", "park", "deny", "out_of_scope"}
      /\ v = "run" => Lets(s, c.tool)
    BY <1>2, JudgeProps DEF GateInv
<1>4. /\ call' = [call EXCEPT ![t] = Given(c, v, pc)]
      /\ UNCHANGED <<snap, scope, latch>>
  <2>1. call' = [call EXCEPT ![t].verdict = v, ![t].pc = pc]
      BY DEF Upstream
  <2> HIDE DEF v, pc
  <2>2. call = [u \in Threads |-> call[u]]
      BY DEF GateInv, CallsOK
  <2>3. call' = [call EXCEPT ![t] = [c EXCEPT !.verdict = v, !.pc = pc]]
      BY <2>1, <2>2
  <2>4. [c EXCEPT !.verdict = v, !.pc = pc] = Given(c, v, pc)
      BY <1>1, GivenCall
  <2> QED
      BY <2>3, <2>4 DEF Upstream, gates
<1>5. /\ pc \in Places /\ pc \in {"decide", "ran", "refused", "record"}
      /\ pc = "decide" => v = "run"
      /\ pc = "ran" => v # "run"
    BY <1>3 DEF Consequence, Places, Ended
<1> HIDE DEF v, pc
<1>6. ASSUME NEW d \in Calls, d.pc = pc, d.verdict = v, SameCall(d, c)
      PROVE  CallOK(s, call, d)
  <2>1. /\ ~c.over /\ c.agent \in Subs /\ c.scope # NoScope
        /\ Lets(s, c.tool) => c.lent
      BY <1>1, <1>2 DEF CallOK
  <2>2. /\ d.agent = c.agent /\ d.tool = c.tool /\ d.scope = c.scope
        /\ ~d.over /\ (c.lent => d.lent)
      BY <1>6, <2>1 DEF SameCall
  <2>3. d.agent \in Subs /\ d.agent # Boss /\ d.scope # NoScope
      BY <2>1, <2>2, <1>2
  <2> HIDE DEF c, s
  <2> QED
      BY <2>1, <2>2, <2>3, <1>3, <1>5, <1>6 DEF CallOK
<1> DEFINE new == Given(c, v, pc)
<1>10. call' = [call EXCEPT ![t] = new]
    BY <1>4
<1>11. new \in Calls /\ new.pc = pc /\ SameCall(new, c) /\ new.verdict = v
  <2>1. /\ c \in Calls /\ pc \in Places /\ new = Given(c, v, pc)
        /\ v \in Rulings
      BY <1>1, <1>3, <1>5 DEF Rulings
  <2> HIDE DEF c, new
  <2> QED
      BY <2>1, VerdictCall
<1> HIDE DEF new
<1>12. CallOK(s, call, new)
    BY <1>11, <1>6
<1>13. CallsOK(s, call') /\ Lasting(call', call)
    BY <1>1, <1>2, <1>10, <1>11, <1>12, AdvanceCalls DEF GateInv
<1> QED
    BY <1>4, <1>13, CallsInv

\* The agent's own gate.  A scope denial of the Boss is borne out by the
\* mandate, and every call under it has seen that mandate.
LEMMA DecideInv ==
    ASSUME GateInv, NEW t \in Threads, NEW old \in BOOLEAN, NEW within \in BOOLEAN,
           Decide(t, old, within)
    PROVE  GateInv'
<1> DEFINE s == snap[Boss]
           c == call[t]
           own == Judge(snap[c.agent], old, c.tool, within)
           v == IF c.agent = Boss THEN own ELSE Narrowed(own, c.scope, c.tool)
           pc == Consequence(v)
<1>1. c.pc = "decide" /\ c \in Calls /\ CallOK(s, call, c)
    BY InCall DEF Decide
<1>2. /\ c.tool \in Tools /\ c.agent \in Agents /\ c.pc \notin Ended
      /\ Boss \notin Subs
    BY <1>1, CallType, GateAssumption DEF Ended
<1>3. /\ own \in {"run", "park", "deny", "out_of_scope"}
      /\ own = "out_of_scope" => Bars(snap[c.agent], c.tool)
    BY <1>2, JudgeProps DEF GateInv
<1>4. /\ call' = [call EXCEPT ![t] = Given(c, v, pc)]
      /\ UNCHANGED <<snap, scope, latch>>
  <2>1. call' = [call EXCEPT ![t].verdict = v, ![t].pc = pc]
      BY DEF Decide
  <2> HIDE DEF v, pc
  <2>2. call = [u \in Threads |-> call[u]]
      BY DEF GateInv, CallsOK
  <2>3. call' = [call EXCEPT ![t] = [c EXCEPT !.verdict = v, !.pc = pc]]
      BY <2>1, <2>2
  <2>4. [c EXCEPT !.verdict = v, !.pc = pc] = Given(c, v, pc)
      BY <1>1, GivenCall
  <2> QED
      BY <2>3, <2>4 DEF Decide, gates
<1>5. /\ v \in {"run", "park", "deny", "out_of_scope"}
      /\ v = "out_of_scope" /\ c.agent = Boss => Bars(s, c.tool)
      /\ v = "run" /\ c.agent # Boss => ~OutOfScope(c.scope.tools, c.scope.observing, c.tool)
  <2>1. CASE c.agent = Boss
      BY <2>1, <1>3
  <2>2. CASE c.agent # Boss
    <3> HIDE DEF own
    <3> QED
        BY <2>2, <1>3 DEF Narrowed, OutOfScope
  <2> QED
      BY <2>1, <2>2
<1> HIDE DEF v, own
<1>6. /\ pc \in Places /\ pc \in {"ran", "refused", "record"}
      /\ pc = "record" => v = "out_of_scope"
    BY <1>5 DEF Consequence, Places, Ended
<1> HIDE DEF pc
<1>7. Bars(s, c.tool) => Told(call, c.ver, c.tool)
  <2> SUFFICES ASSUME Bars(s, c.tool), NEW u \in Threads, BossCall(call[u]),
                      call[u].tool = c.tool
               PROVE  call[u].outside
      BY DEF Told
  <2>1. CallOK(s, call, call[u])
      BY DEF GateInv, CallsOK, BossCall
  <2> QED
      BY <2>1 DEF CallOK, BossCall
<1>8. ASSUME NEW d \in Calls, d.pc = pc, d.verdict = v, SameCall(d, c)
      PROVE  CallOK(s, call, d)
  <2>1. /\ ~c.over /\ (c.agent \in Subs => c.scope # NoScope)
        /\ c.agent = Boss => BossVersion(s, c.ver)
        /\ c.agent \in Subs /\ Lets(s, c.tool) => c.lent
        /\ c.agent = Boss /\ Bars(s, c.tool) => c.outside
        /\ c.agent \in Subs => c.lent
      BY <1>1, <1>2 DEF CallOK
  <2>2. /\ d.agent = c.agent /\ d.tool = c.tool /\ d.scope = c.scope /\ d.ver = c.ver
        /\ ~d.over /\ (c.lent => d.lent) /\ (c.outside => d.outside)
      BY <1>8, <2>1 DEF SameCall
  <2>3. pc = "record" /\ c.agent = Boss => Borne(s, call, c.ver, c.tool)
      BY <1>5, <1>6, <1>7 DEF Borne
  <2>4. c.agent \in Subs => c.agent # Boss
      BY <1>2
  <2> HIDE DEF c, s
  <2> QED
      BY <2>1, <2>2, <2>3, <2>4, <1>5, <1>6, <1>8 DEF CallOK
<1> DEFINE new == Given(c, v, pc)
<1>10. call' = [call EXCEPT ![t] = new]
    BY <1>4
<1>11. new \in Calls /\ new.pc = pc /\ SameCall(new, c) /\ new.verdict = v
  <2>1. /\ c \in Calls /\ pc \in Places /\ new = Given(c, v, pc)
        /\ v \in Rulings
      BY <1>1, <1>5, <1>6 DEF Rulings
  <2> HIDE DEF c, new
  <2> QED
      BY <2>1, VerdictCall
<1> HIDE DEF new
<1>12. CallOK(s, call, new)
    BY <1>11, <1>8
<1>13. CallsOK(s, call') /\ Lasting(call', call)
    BY <1>1, <1>2, <1>10, <1>11, <1>12, AdvanceCalls DEF GateInv
<1> QED
    BY <1>4, <1>13, CallsInv

\* The wrapper returns.
LEMMA ReturnInv ==
    ASSUME GateInv, NEW t \in Threads, Return(t)
    PROVE  GateInv'
<1>1. /\ call = [u \in Threads |-> call[u]]
      /\ call' = [call EXCEPT ![t] = NoCall] /\ UNCHANGED <<snap, scope, latch>>
    BY DEF GateInv, CallsOK, Return, gates
<1>2. /\ call' = [u \in Threads |-> call'[u]] /\ call'[t] = NoCall
      /\ \A u \in Threads : u # t => call'[u] = call[u]
    BY <1>1
<1>3. Lasting(call', call)
    BY <1>2 DEF Lasting, BossCall
<1>4. ASSUME NEW u \in Threads, call'[u] # NoCall
      PROVE  call'[u] \in Calls /\ CallOK(snap[Boss], call', call'[u])
  <2>1. call'[u] = call[u] /\ call[u] \in Calls /\ CallOK(snap[Boss], call, call[u])
      BY <1>2, <1>4 DEF GateInv, CallsOK
  <2>2. SameCall(call[u], call[u])
      BY DEF SameCall
  <2> QED
      BY <2>1, <2>2, <1>3, CallKept
<1>5. CallsOK(snap[Boss], call')
    BY <1>2, <1>4 DEF CallsOK
<1> QED
    BY <1>1, <1>3, <1>5, CallsInv

\* A hand-off.
LEMMA DelegateInv ==
    ASSUME GateInv, NEW b \in Subs, Delegate(b)
    PROVE  GateInv'
<1> DEFINE new == [ver |-> snap[Boss].ver, observing |-> snap[Boss].m.observing,
                   tools |-> IF snap[b] = NoSnapshot THEN {}
                             ELSE snap[Boss].m.tools \cap snap[b].m.tools]
<1>1. SnapOK /\ Boss \in Agents /\ snap[Boss] # NoSnapshot
    BY DEF GateInv, Agents, Delegate
<1>2. snap[Boss].ver \in 1..MaxVersion[Boss] /\ snap[Boss].m \in Mandates[Boss]
    BY <1>1, SnapshotType
<1>3. snap[Boss].m.observing \in BOOLEAN /\ snap[Boss].m.tools \in SUBSET Tools
  <2>1. Mandates[Boss] \subseteq
         [tools : SUBSET Tools, observing : BOOLEAN, approval : [Tools -> Approvals],
          suspended : BOOLEAN, reassess : BOOLEAN, closed : BOOLEAN,
          delegates : BOOLEAN]
      BY GateAssumption
  <2> QED
      BY <1>2, <2>1
<1>4. new \in Scopes
    BY <1>2, <1>3 DEF Scopes
<1>5. scope' = [scope EXCEPT ![b] = new] /\ UNCHANGED <<snap, latch, call>>
    BY DEF Delegate
<1> HIDE DEF new
<1>6. SnapOK'
    BY <1>1, <1>4, <1>5 DEF SnapOK
<1> QED
    BY <1>5, <1>6 DEF GateInv

\* A call begins.  Under the version in force, what the latch remembers is
\* what the mandate says, so the new call knows it.
LEMMA BeginInv ==
    ASSUME GateInv, NEW t \in Threads, NEW r \in Runs, NEW a \in Agents, NEW tool \in Tools,
           Begin(t, r, a, tool)
    PROVE  GateInv'
<1> DEFINE s == snap[Boss]
           sc == IF a = Boss THEN NoScope ELSE scope[a]
           ver == LatchVersion(a)
           out == \E b \in {a, Boss} : Bars(snap[b], tool)
           lent == a \in Subs /\ Lets(snap[Boss], tool)
           over == r \in DOMAIN latch.halted
           new == [pc |-> "check", run |-> r, agent |-> a, tool |-> tool,
                   scope |-> sc, ver |-> ver, verdict |-> "none",
                   outside |-> out, lent |-> lent, over |-> over]
<1>1. /\ call[t] = NoCall /\ (a \in Subs => scope[a] # NoScope)
      /\ call' = [call EXCEPT ![t] = new] /\ UNCHANGED <<snap, scope, latch>>
    BY DEF Begin, gates
<1>2. /\ SnapOK /\ CallsOK(s, call) /\ MemoryOK(s, call, latch) /\ Boss \in Agents
      /\ Boss \notin Subs
    BY GateAssumption DEF GateInv, Agents
<1>3. snap[a].ver \in Nat /\ s.ver \in Nat
    BY <1>2, SnapshotType
<1>4. a # Boss => a \in Subs /\ scope[a] \in Scopes /\ scope[a].ver \in Nat
  <2>1. a # Boss => a \in Subs /\ scope[a] \in Scopes
      BY <1>2 DEF Agents, SnapOK
  <2>2. MaxVersion[Boss] \in Nat
      BY GateAssumption
  <2>3. \A x \in Scopes : x.ver \in Nat
      BY <2>2 DEF Scopes, NoScope
  <2> QED
      BY <2>1, <2>3
<1>5. ver \in Seq(Nat) /\ sc \in Scopes /\ (a \in Subs => sc # NoScope)
      /\ (a = Boss => ver = <<s.ver>>)
  <2>1. CASE a = Boss
      BY <2>1, <1>2, <1>3 DEF LatchVersion, Scopes
  <2>2. CASE a # Boss
      BY <2>2, <1>1, <1>3, <1>4 DEF LatchVersion
  <2> QED
      BY <2>1, <2>2
<1>6. /\ out \in BOOLEAN /\ lent \in BOOLEAN /\ over \in BOOLEAN
      /\ Bars(s, tool) => out
      /\ a \in Subs /\ Lets(s, tool) => lent
    OBVIOUS
<1> HIDE DEF ver, sc, out, lent, over
<1>7. /\ new.pc = "check" /\ new.run = r /\ new.agent = a /\ new.tool = tool
      /\ new.scope = sc /\ new.ver = ver /\ (out => new.outside) /\ (lent => new.lent)
    OBVIOUS
<1>8. new \in Calls
    BY <1>5, <1>6 DEF Calls
<1> HIDE DEF new
<1>9. call = [u \in Threads |-> call[u]]
    BY <1>2 DEF CallsOK
<1>10. /\ call' = [u \in Threads |-> call'[u]]
       /\ call'[t] = new
       /\ \A u \in Threads : u # t => call'[u] = call[u]
    BY <1>1, <1>9
<1>11. ASSUME NEW v, NEW x \in Tools, Borne(s, call, v, x)
       PROVE  Borne(s, call', v, x)
  <2> SUFFICES ASSUME NEW u \in Threads, BossCall(call'[u]), call'[u].tool = x,
                      call'[u].ver = v
               PROVE  call'[u].outside
      BY <1>11 DEF Borne, Told
  <2>1. CASE u # t
      BY <2>1, <1>10, <1>11 DEF Borne, Told
  <2>2. CASE u = t
    <3>1. a = Boss /\ tool = x /\ ver = v
        BY <2>2, <1>7, <1>10 DEF BossCall
    <3>2. Bars(s, x)
        BY <3>1, <1>5, <1>11 DEF Borne
    <3> QED
        BY <3>1, <3>2, <2>2, <1>6, <1>7, <1>10
  <2> QED
      BY <2>1, <2>2
<1>12. MemoryOK(s, call', latch)
    BY <1>2, <1>11 DEF MemoryOK
<1>13. CallOK(s, call', new)
  <2>1. new.agent = Boss => BossVersion(s, new.ver)
      BY <1>3, <1>5, <1>7 DEF BossVersion
  <2> QED
      BY <2>1, <1>5, <1>6, <1>7 DEF CallOK, Ended
<1>14. ASSUME NEW u \in Threads, call'[u] # NoCall
       PROVE  call'[u] \in Calls /\ CallOK(s, call', call'[u])
  <2>1. CASE u = t
      BY <2>1, <1>8, <1>10, <1>13
  <2>2. CASE u # t
    <3>1. call'[u] = call[u] /\ call[u] \in Calls /\ CallOK(s, call, call[u])
        BY <2>2, <1>2, <1>10, <1>14 DEF CallsOK
    <3>2. call[u].tool \in Tools
        BY <3>1, CallType
    <3>3. Borne(s, call, call[u].ver, call[u].tool) => Borne(s, call', call[u].ver, call[u].tool)
        BY <3>2, <1>11
    <3>4. CallOK(s, call', call[u])
        BY <3>1, <3>3 DEF CallOK
    <3> QED
        BY <3>1, <3>4
  <2> QED
      BY <2>1, <2>2
<1>15. CallsOK(s, call')
    BY <1>10, <1>14 DEF CallsOK
<1> QED
    BY <1>1, <1>12, <1>15 DEF GateInv, SnapOK

\* Calls that learn of a new snapshot.
LEMMA RefreshedCalls ==
    ASSUME GateInv, NEW a \in Agents, NEW m, NEW v, Refresh(a, m, v), NEW u \in Threads
    PROVE  /\ call[u] = NoCall => call'[u] = NoCall
           /\ call[u] # NoCall =>
                LET c == call[u]
                    d == call'[u]
                IN  /\ d \in Calls /\ c \in Calls
                    /\ d.pc = c.pc /\ d.run = c.run /\ d.agent = c.agent /\ d.tool = c.tool
                    /\ d.scope = c.scope /\ d.ver = c.ver /\ d.verdict = c.verdict
                    /\ d.over = c.over
                    /\ c.outside => d.outside
                    /\ c.lent => d.lent
                    /\ c.pc \notin Ended /\ a = Boss /\ Bars(snap'[Boss], c.tool) => d.outside
                    /\ /\ c.pc \notin Ended /\ a = Boss /\ c.agent \in Subs
                       /\ Lets(snap'[Boss], c.tool)
                       => d.lent
<1> DEFINE c == call[u]
           know == c # NoCall /\ c.pc \notin Ended /\ a \in {c.agent, Boss}
           out == c.outside \/ Bars(snap'[a], c.tool)
           lent == c.lent \/ (a = Boss /\ c.agent \in Subs /\ Lets(snap'[a], c.tool))
           d == [c EXCEPT !.outside = @ \/ Bars(snap'[a], c.tool),
                          !.lent = @ \/ (/\ a = Boss
                                         /\ c.agent \in Subs
                                         /\ Lets(snap'[a], c.tool))]
<1>1. call'[u] = IF know THEN d ELSE c
    BY DEF Refresh
<1>2. CASE c = NoCall
    BY <1>1, <1>2
<1>3. CASE c # NoCall /\ ~know
  <2>1. c \in Calls /\ call'[u] = c
      BY <1>1, <1>3 DEF GateInv, CallsOK
  <2> QED
      BY <2>1, <1>3
<1>4. CASE c # NoCall /\ know
  <2>1. c \in Calls /\ call'[u] = d /\ CallFields(c)
      BY <1>1, <1>4, CallType DEF GateInv, CallsOK
  <2>2. d = [pc |-> c.pc, run |-> c.run, agent |-> c.agent, tool |-> c.tool,
             scope |-> c.scope, ver |-> c.ver, verdict |-> c.verdict,
             outside |-> out, lent |-> lent, over |-> c.over]
    <3> HIDE DEF c
    <3> QED
        BY <2>1 DEF CallFields
  <2>3. out \in BOOLEAN /\ lent \in BOOLEAN
      OBVIOUS
  <2>4. /\ c.outside => out
        /\ c.lent => lent
        /\ a = Boss /\ Bars(snap'[Boss], c.tool) => out
        /\ a = Boss /\ c.agent \in Subs /\ Lets(snap'[Boss], c.tool) => lent
      OBVIOUS
  <2> HIDE DEF c, d, out, lent
  <2>5. /\ d.pc = c.pc /\ d.run = c.run /\ d.agent = c.agent /\ d.tool = c.tool
        /\ d.scope = c.scope /\ d.ver = c.ver /\ d.verdict = c.verdict
        /\ d.over = c.over /\ (out => d.outside) /\ (lent => d.lent)
      BY <2>2
  <2>6. d \in Calls
      BY <2>1, <2>2, <2>3, CallType DEF Calls, Places
  <2>7. call[u] = c
      BY DEF c
  <2> QED
      BY <2>1, <2>4, <2>5, <2>6, <2>7, <1>4
<1> QED
    BY <1>2, <1>3, <1>4

\* The version only grows, and under the same version what was barred stays
\* barred, however the dial is turned.
LEMMA RefreshedSnapshot ==
    ASSUME SnapOK, NEW a \in Agents, NEW m \in Mandates[a], NEW v \in 1..MaxVersion[a],
           Refresh(a, m, v)
    PROVE  /\ SnapOK'
           /\ a # Boss => snap'[Boss] = snap[Boss]
           /\ snap[Boss].ver \in Nat /\ snap'[Boss].ver \in Nat
           /\ snap[Boss].ver <= snap'[Boss].ver
           /\ \A tool : snap'[Boss].ver = snap[Boss].ver /\ Bars(snap[Boss], tool)
                          => Bars(snap'[Boss], tool)
<1> DEFINE enforced == ~m.observing \/ (v = snap[a].ver /\ snap[a].enforced)
           new == [ver |-> v, m |-> m, enforced |-> enforced]
<1>0. /\ snap' = [snap EXCEPT ![a] = new] /\ scope' = scope
      /\ v \in {snap[a].ver, snap[a].ver + 1} \ {0}
      /\ v = snap[a].ver => m.tools = snap[a].m.tools
    BY DEF Refresh
<1>1. /\ snap = [b \in Agents |-> snap[b]] /\ Boss \in Agents
      /\ MaxVersion[a] \in Nat
    BY GateAssumption DEF SnapOK, Agents
<1>2. /\ snap'[a] = new /\ snap' = [b \in Agents |-> snap'[b]]
      /\ \A b \in Agents : b # a => snap'[b] = snap[b]
    BY <1>0, <1>1
<1>3. new \in SnapshotsOf(a)
    BY DEF SnapshotsOf
<1>4. new.ver = v /\ new.m = m /\ v \in Nat /\ v # 0 /\ new.enforced = enforced
    BY <1>1
<1> HIDE DEF new
<1>5. SnapOK'
  <2>1. \A b \in Agents :
          /\ snap'[b] \in SnapshotsOf(b)
          /\ snap'[b] # NoSnapshot /\ ~snap'[b].m.observing => snap'[b].enforced
      BY <1>2, <1>3, <1>4 DEF SnapOK
  <2> QED
      BY <2>1, <1>0, <1>2 DEF SnapOK
<1>6. snap[Boss].ver \in Nat /\ snap[a].ver \in Nat
    BY <1>1, SnapshotType
<1>7. CASE a # Boss
    BY <1>1, <1>2, <1>5, <1>6, <1>7
<1>8. CASE a = Boss
  <2>1. new # NoSnapshot
      BY <1>4 DEF NoSnapshot
  <2>2. ASSUME NEW tool, v = snap[Boss].ver, Bars(snap[Boss], tool)
        PROVE  Bars(new, tool)
      BY <2>1, <2>2, <1>0, <1>4, <1>8 DEF Bars
  <2> QED
      BY <2>2, <1>0, <1>2, <1>4, <1>5, <1>6, <1>8
<1> QED
    BY <1>7, <1>8

\* A snapshot arrives.
LEMMA RefreshInv ==
    ASSUME GateInv, NEW a \in Agents, NEW m \in Mandates[a], NEW v \in 1..MaxVersion[a],
           Refresh(a, m, v)
    PROVE  GateInv'
<1> DEFINE s == snap[Boss]
           s2 == snap'[Boss]
<1>1. /\ SnapOK' /\ (a # Boss => s2 = s)
      /\ s.ver \in Nat /\ s2.ver \in Nat /\ s.ver <= s2.ver
      /\ \A tool : s2.ver = s.ver /\ Bars(s, tool) => Bars(s2, tool)
    BY RefreshedSnapshot DEF GateInv
<1>2. CallsOK(s, call) /\ MemoryOK(s, call, latch) /\ latch' = latch
    BY DEF GateInv, Refresh
<1>3. call' = [u \in Threads |-> call'[u]]
    BY DEF Refresh
<1>4. Lasting(call', call)
  <2> SUFFICES ASSUME NEW u \in Threads, BossCall(call'[u])
               PROVE  /\ BossCall(call[u]) /\ call'[u].tool = call[u].tool
                      /\ call'[u].ver = call[u].ver
                      /\ call[u].outside => call'[u].outside
      BY DEF Lasting
  <2>1. call[u] # NoCall
      BY RefreshedCalls DEF BossCall
  <2>2. /\ call'[u].pc = call[u].pc /\ call'[u].agent = call[u].agent
        /\ call'[u].tool = call[u].tool /\ call'[u].ver = call[u].ver
        /\ call[u].outside => call'[u].outside
      BY <2>1, RefreshedCalls
  <2> QED
      BY <2>1, <2>2 DEF BossCall
<1>5. \A x : BossVersion(s, x) => BossVersion(s2, x)
    BY <1>1 DEF BossVersion
<1>6. ASSUME NEW x, NEW tool, BossVersion(s, x), Borne(s, call, x, tool)
      PROVE  Borne(s2, call', x, tool)
  <2>1. Told(call', x, tool)
      BY <1>4, <1>6 DEF Borne, Told, Lasting
  <2>2. x = <<s2.ver>> => Bars(s2, tool)
    <3> SUFFICES ASSUME x = <<s2.ver>> PROVE Bars(s2, tool)
        OBVIOUS
    <3>1. PICK n \in 0..s.ver : x = <<n>>
        BY <1>6 DEF BossVersion
    <3>2. n = s2.ver
        BY <3>1
    <3>3. s2.ver = s.ver
        BY <3>2, <1>1
    <3>4. Bars(s, tool)
        BY <3>1, <3>2, <3>3, <1>6 DEF Borne
    <3> QED
        BY <3>3, <3>4, <1>1
  <2> QED
      BY <2>1, <2>2 DEF Borne
<1>7. MemoryOK(s2, call', latch)
  <2>1. \A r \in Runs, tool \in Tools : <<r, Boss, tool>> \in DOMAIN latch.denied =>
           <<r, Boss>> \in DOMAIN latch.versions
      BY DEF GateInv, LatchInv, LatchCore, DeniedVersioned, Agents
  <2> QED
      BY <2>1, <1>2, <1>5, <1>6 DEF MemoryOK
<1>8. ASSUME NEW u \in Threads, call'[u] # NoCall
      PROVE  call'[u] \in Calls /\ CallOK(s2, call', call'[u])
  <2> DEFINE c == call[u]
             d == call'[u]
  <2>1. c # NoCall
      BY <1>8, RefreshedCalls
  <2>2. CallOK(s, call, c)
      BY <2>1, <1>2 DEF CallsOK
  <2>3. /\ d \in Calls /\ c \in Calls
        /\ d.pc = c.pc /\ d.run = c.run /\ d.agent = c.agent /\ d.tool = c.tool
        /\ d.scope = c.scope /\ d.ver = c.ver /\ d.verdict = c.verdict
        /\ d.over = c.over
        /\ c.outside => d.outside
        /\ c.lent => d.lent
        /\ c.pc \notin Ended /\ a = Boss /\ Bars(s2, c.tool) => d.outside
        /\ c.pc \notin Ended /\ a = Boss /\ c.agent \in Subs /\ Lets(s2, c.tool) => d.lent
      BY <2>1, RefreshedCalls
  <2>4. /\ c.pc \notin Ended /\ c.agent = Boss /\ Bars(s2, c.tool) => d.outside
        /\ c.pc \notin Ended /\ c.agent \in Subs /\ Lets(s2, c.tool) => d.lent
    <3>1. CASE a = Boss
        BY <3>1, <2>3
    <3>2. CASE a # Boss
        BY <3>2, <2>2, <2>3, <1>1 DEF CallOK
    <3> QED
        BY <3>1, <3>2
  <2>5. c.agent = Boss => BossVersion(s2, c.ver)
      BY <2>2, <1>5 DEF CallOK
  <2>6. c.pc = "record" /\ c.agent = Boss => Borne(s2, call', c.ver, c.tool)
      BY <2>2, <1>6 DEF CallOK
  <2> HIDE DEF c, d, s, s2
  <2>7. CallOK(s2, call', d)
      BY <2>2, <2>3, <2>4, <2>5, <2>6 DEF CallOK
  <2> QED
      BY <2>3, <2>7 DEF d
<1>9. CallsOK(s2, call')
    BY <1>3, <1>8 DEF CallsOK
<1> QED
    BY <1>1, <1>2, <1>7, <1>9 DEF GateInv

\* Calls that go on under a latch that has forgotten.
LEMMA WatchedCalls ==
    ASSUME NEW s, CallsOK(s, call), NEW l, call' = Watched(call, l)
    PROVE  CallsOK(s, call') /\ Lasting(call', call)
           /\ \A t \in Threads : call'[t].pc = call[t].pc
<1>2. call' = [u \in Threads |-> call'[u]]
    BY DEF Watched
<1>3. ASSUME NEW u \in Threads, call[u] = NoCall
      PROVE  call'[u] = NoCall
    BY <1>3 DEF Watched
<1>4. ASSUME NEW u \in Threads, call[u] # NoCall
      PROVE  /\ call[u] \in Calls /\ CallOK(s, call, call[u])
             /\ call'[u] \in Calls /\ SameCall(call'[u], call[u])
             /\ call'[u].verdict = call[u].verdict
             /\ call'[u].pc = call[u].pc
  <2> DEFINE c == call[u]
             X == c.run \in DOMAIN l.halted
             o == c.over /\ X
             d == [c EXCEPT !.over = @ /\ X]
  <2>1. c \in Calls /\ CallOK(s, call, c) /\ CallFields(c) /\ c.pc \in Places
      BY <1>4, CallType DEF CallsOK
  <2>2. call'[u] = d
      BY <1>4 DEF Watched
  <2>3. d = [pc |-> c.pc, run |-> c.run, agent |-> c.agent, tool |-> c.tool,
             scope |-> c.scope, ver |-> c.ver, verdict |-> c.verdict,
             outside |-> c.outside, lent |-> c.lent, over |-> o]
    <3> HIDE DEF c, X
    <3> QED
        BY <2>1 DEF CallFields
  <2>4. o \in BOOLEAN /\ (o => c.over)
      OBVIOUS
  <2>5. d \in Calls /\ d.pc = c.pc /\ SameCall(d, c) /\ d.verdict = c.verdict
    <3> HIDE DEF c, o, d
    <3> QED
        BY <2>1, <2>3, <2>4, MovedCall
  <2> HIDE DEF d
  <2> QED
      BY <2>1, <2>2, <2>5
<1>5. Lasting(call', call)
  <2> SUFFICES ASSUME NEW u \in Threads, BossCall(call'[u])
               PROVE  /\ BossCall(call[u]) /\ call'[u].tool = call[u].tool
                      /\ call'[u].ver = call[u].ver
                      /\ call[u].outside => call'[u].outside
      BY DEF Lasting
  <2>1. call[u] # NoCall
      BY <1>3 DEF BossCall
  <2> QED
      BY <2>1, <1>4 DEF BossCall, SameCall
<1>6. ASSUME NEW u \in Threads, call'[u] # NoCall
      PROVE  call'[u] \in Calls /\ CallOK(s, call', call'[u])
  <2>1. call[u] # NoCall
      BY <1>3, <1>6
  <2> QED
      BY <2>1, <1>4, <1>5, CallKept
<1>7. CallsOK(s, call')
    BY <1>2, <1>6 DEF CallsOK
<1>8. \A t \in Threads : call'[t].pc = call[t].pc
    BY <1>3, <1>4
<1> QED
    BY <1>5, <1>7, <1>8

\* A supervisor resets the latch.
LEMMA ResetInv ==
    ASSUME GateInv, NEW which \in {{r} : r \in Runs} \cup {Runs}, Reset(which)
    PROVE  /\ GateInv'
           /\ \A r \in DOMAIN latch.halted \ DOMAIN latch'.halted : r \notin Range(latch'.runs)
           /\ \A t \in Threads : call'[t].pc = call[t].pc
<1> DEFINE s == snap[Boss]
<1>1. /\ CallsOK(s, call) /\ LatchInv(latch) /\ MemoryOK(s, call, latch) /\ SnapOK
      /\ UNCHANGED <<snap, scope>> /\ call' = Watched(call, latch')
    BY DEF GateInv, Reset, gates
<1>2. /\ LatchInv(latch') /\ MemoryOK(s, call, latch')
      /\ \A r \in DOMAIN latch.halted \ DOMAIN latch'.halted : r \notin Range(latch'.runs)
  <2>1. CASE which = Runs
    <3>1. latch' = [runs |-> << >>, versions |-> << >>, denied |-> << >>, halted |-> << >>]
        BY <2>1 DEF Reset, NewLatch
    <3>2. /\ latch'.runs = << >> /\ latch'.versions = << >> /\ latch'.denied = << >>
          /\ latch'.halted = << >>
        BY <3>1
    <3>3. DOMAIN << >> = {} /\ Len(<< >>) = 0 /\ << >> \in Seq(Runs)
        OBVIOUS
    <3>4. LatchCore(latch')
        BY <3>1, <3>2, <3>3 DEF LatchCore, LatchType, DeniedVersioned, Caused
    <3>5. RunsOK(latch') /\ Placed(latch', Range(latch'.runs))
        BY <3>2, <3>3, GateAssumption DEF RunsOK, Distinct, Placed
    <3>6. MemoryOK(s, call, latch')
        BY <3>2, <3>3 DEF MemoryOK
    <3>7. Range(latch'.runs) = {}
        BY <3>2, <3>3 DEF Range
    <3> QED
        BY <3>4, <3>5, <3>6, <3>7 DEF LatchInv
  <2>2. CASE which # Runs
    <3> DEFINE r == CHOOSE x \in which : TRUE
    <3>1. r \in Runs /\ latch' = Forget(latch, r)
        BY <2>2 DEF Reset
    <3> HIDE DEF r
    <3>2. /\ Thinned(latch', latch, {r}) /\ latch'.runs = RemoveFirst(latch.runs, r)
      <4>1. /\ latch' = [runs |-> latch'.runs, versions |-> latch'.versions,
                         denied |-> latch'.denied, halted |-> latch'.halted]
            /\ latch'.runs = RemoveFirst(latch.runs, r)
            /\ DOMAIN latch'.versions = {k \in DOMAIN latch.versions : ~(k[1] = r)}
            /\ \A k \in DOMAIN latch'.versions : latch'.versions[k] = latch.versions[k]
            /\ DOMAIN latch'.denied = {k \in DOMAIN latch.denied : ~(k[1] = r)}
            /\ \A k \in DOMAIN latch'.denied : latch'.denied[k] = latch.denied[k]
            /\ DOMAIN latch'.halted = DOMAIN latch.halted \ {r}
            /\ \A k \in DOMAIN latch'.halted : latch'.halted[k] = latch.halted[k]
          BY <3>1, ForgetProps
      <4> QED
          BY <4>1 DEF Thinned
    <3>3. /\ latch.runs \in Seq(Runs) /\ Distinct(latch.runs) /\ Len(latch.runs) <= MaxRuns
          /\ Placed(latch, Range(latch.runs)) /\ LatchCore(latch)
        BY <1>1 DEF LatchInv, RunsOK, LatchCore, LatchType
    <3>4. /\ latch'.runs \in Seq(Runs) /\ Distinct(latch'.runs)
          /\ Range(latch'.runs) = Range(latch.runs) \ {r}
          /\ r \notin Range(latch.runs) => latch'.runs = latch.runs
          /\ r \in Range(latch.runs) => Len(latch'.runs) = Len(latch.runs) - 1
        BY <3>2, <3>3, RemoveFirstProps
    <3>5. Len(latch.runs) \in Nat /\ MaxRuns \in Nat
        BY <3>3, GateAssumption, LenProperties
    <3>6. Len(latch'.runs) <= MaxRuns
        BY <3>3, <3>4, <3>5
    <3>7. LatchCore(latch') /\ Placed(latch', Range(latch.runs) \ {r})
        BY <3>2, <3>3, <3>4, ThinnedCore
    <3>8. MemoryOK(s, call, latch')
        BY <1>1, <3>2, <3>7, ThinnedMemory
    <3>9. DOMAIN latch.halted \ DOMAIN latch'.halted \subseteq {r}
        BY <3>2 DEF Thinned
    <3> QED
        BY <3>4, <3>6, <3>7, <3>8, <3>9 DEF LatchInv, RunsOK
  <2> QED
      BY <2>1, <2>2
<1>3. /\ CallsOK(s, call') /\ Lasting(call', call)
      /\ \A t \in Threads : call'[t].pc = call[t].pc
  <2> DEFINE l == latch'
  <2>1. call' = Watched(call, l)
      BY <1>1
  <2> HIDE DEF l, s
  <2> QED
      BY <2>1, <1>1, WatchedCalls
<1>4. MemoryOK(s, call', latch')
  <2> DEFINE l == latch'
  <2>1. MemoryOK(s, call, l)
      BY <1>2
  <2> HIDE DEF l, s
  <2>2. MemoryOK(s, call', l)
      BY <2>1, <1>3, MemoryLasts
  <2> QED
      BY <2>2 DEF l
<1> QED
    BY <1>1, <1>2, <1>3, <1>4 DEF GateInv, SnapOK

-----------------------------------------------------------------------------
(* The theorems about Gate *)

\* Nobody has a mandate, and the latch knows nothing.
LEMMA GateInitInv ==
    ASSUME Init
    PROVE  GateInv
<1>1. /\ snap = [a \in Agents |-> NoSnapshot] /\ scope = [a \in Subs |-> NoScope]
      /\ call = [t \in Threads |-> NoCall]
      /\ latch = [runs |-> << >>, versions |-> << >>, denied |-> << >>, halted |-> << >>]
    BY DEF Init, NewLatch
<1>2. SnapOK
    BY <1>1 DEF SnapOK, SnapshotsOf, Scopes
<1>3. CallsOK(snap[Boss], call)
    BY <1>1 DEF CallsOK
<1>4. /\ latch.runs = << >> /\ latch.versions = << >> /\ latch.denied = << >>
      /\ latch.halted = << >>
    BY <1>1
<1>5. DOMAIN << >> = {} /\ Len(<< >>) = 0 /\ << >> \in Seq(Runs)
    OBVIOUS
<1>6. LatchCore(latch)
    BY <1>1, <1>4, <1>5 DEF LatchCore, LatchType, DeniedVersioned, Caused
<1>7. RunsOK(latch) /\ Placed(latch, Range(latch.runs))
    BY <1>4, <1>5, GateAssumption DEF RunsOK, Distinct, Placed
<1>8. MemoryOK(snap[Boss], call, latch)
    BY <1>4, <1>5 DEF MemoryOK
<1> QED
    BY <1>2, <1>3, <1>6, <1>7, <1>8 DEF GateInv, LatchInv

\* A run's halt is gone for a reason.
HaltsEnd ==
    \A r \in DOMAIN latch.halted \ DOMAIN latch'.halted :
        LET a == latch.halted[r].agent
        IN  Dismissed(r) \/ latch'.versions[<<r, a>>] # latch.versions[<<r, a>>]

\* Every step keeps the invariant and ends no halt without a reason.
LEMMA GateNextInv ==
    ASSUME GateInv, [Next]_vars
    PROVE  GateInv' /\ HaltsEnd
<1>1. ASSUME NEW a \in Agents, NEW m \in Mandates[a], NEW v \in 1..MaxVersion[a],
             Refresh(a, m, v)
      PROVE  GateInv' /\ HaltsEnd
    BY <1>1, RefreshInv DEF HaltsEnd, Refresh
<1>2. ASSUME NEW b \in Subs, Delegate(b)
      PROVE  GateInv' /\ HaltsEnd
    BY <1>2, DelegateInv DEF HaltsEnd, Delegate
<1>3. ASSUME NEW t \in Threads, NEW r \in Runs, NEW a \in Agents, NEW tool \in Tools,
             Begin(t, r, a, tool)
      PROVE  GateInv' /\ HaltsEnd
    BY <1>3, BeginInv DEF HaltsEnd, Begin
<1>4. ASSUME NEW t \in Threads, HaltsKept(latch', latch, call[t])
      PROVE  HaltsEnd
    BY <1>4 DEF HaltsKept, HaltsEnd, Dismissed
<1>5. ASSUME NEW t \in Threads, CallStep(t)
      PROVE  GateInv' /\ HaltsEnd
  <2>1. CASE Check(t)
      BY <2>1, <1>4, CheckInv
  <2>2. ASSUME NEW old \in BOOLEAN, NEW within \in BOOLEAN, Upstream(t, old, within)
        PROVE  GateInv' /\ HaltsEnd
      BY <2>2, UpstreamInv DEF HaltsEnd, Upstream
  <2>3. ASSUME NEW old \in BOOLEAN, NEW within \in BOOLEAN, Decide(t, old, within)
        PROVE  GateInv' /\ HaltsEnd
      BY <2>3, DecideInv DEF HaltsEnd, Decide
  <2>4. CASE Record(t)
      BY <2>4, <1>4, RecordInv
  <2>5. CASE Return(t)
      BY <2>5, ReturnInv DEF HaltsEnd, Return
  <2> QED
      BY <1>5, <2>1, <2>2, <2>3, <2>4, <2>5 DEF CallStep
<1>6. ASSUME NEW which \in {{r} : r \in Runs} \cup {Runs}, Reset(which)
      PROVE  GateInv' /\ HaltsEnd
  <2>1. /\ GateInv'
        /\ \A r \in DOMAIN latch.halted \ DOMAIN latch'.halted : r \notin Range(latch'.runs)
        /\ \A t \in Threads : call'[t].pc = call[t].pc
      BY <1>6, ResetInv
  <2> QED
      BY <2>1 DEF HaltsEnd, Dismissed
<1>7. CASE UNCHANGED vars
    BY <1>7 DEF vars, GateInv, SnapOK, HaltsEnd
<1> QED
    BY <1>1, <1>2, <1>3, <1>5, <1>6, <1>7 DEF Next

\* What the invariant says of the properties.
LEMMA GateInvImplies ==
    ASSUME GateInv
    PROVE  TypeOK /\ WhatRunsWasLet /\ LatchIsJust
<1>1. \A t \in Threads : call[t].pc # "idle" =>
         call[t] \in Calls /\ CallOK(snap[Boss], call, call[t])
    BY InCall
<1>2. WhatRunsWasLet
    BY <1>1 DEF WhatRunsWasLet, CallOK
<1>3. \A t \in Threads : call[t].pc = "repeat" /\ call[t].agent = Boss => Justified(call[t])
    BY <1>1 DEF CallOK, Justified
<1>4. HaltHasCause
  <2>1. LatchType(latch) /\ Caused(latch) /\ Placed(latch, Range(latch.runs))
      BY DEF GateInv, LatchInv, LatchCore
  <2>2. ASSUME NEW k \in DOMAIN latch.denied PROVE k[1] \in Range(latch.runs)
    <3>1. k \in Runs \X Agents \X Tools
        BY <2>1 DEF LatchType
    <3>2. PICK r \in Runs, a \in Agents, tool \in Tools : k = <<r, a, tool>>
        BY <3>1
    <3> QED
        BY <3>2, <2>1 DEF Placed
  <2> QED
      BY <2>1, <2>2 DEF HaltHasCause, Caused
<1>5. TypeOK
    BY DEF GateInv, SnapOK, CallsOK, LatchInv, LatchCore, LatchType, RunsOK, TypeOK
<1> QED
    BY <1>2, <1>3, <1>4, <1>5 DEF LatchIsJust

\* The gate's invariant holds throughout.
THEOREM GateInvariant == Spec => []GateInv
<1>1. Init => GateInv
    BY GateInitInv
<1>2. GateInv /\ [Next]_vars => GateInv'
    BY GateNextInv
<1> QED
    BY <1>1, <1>2, PTL DEF Spec

\* governed_tool._check, DelegatedGate.decide: whatever the threads, refreshes,
\* hand-offs and resets, no tool runs in a run that was halted before the call
\* and ever since, and a sub-agent's runs only if its delegator was let it
\* meanwhile and within the scope handed over.
THEOREM GateLetsOnlyScope == Spec => []WhatRunsWasLet
<1>1. GateInv => WhatRunsWasLet
    BY GateInvImplies
<1> QED
    BY <1>1, GateInvariant, PTL

\* DenialLatch: every halt has its cause on record, and memory never refuses
\* an agent what every mandate in force during the call allowed.
THEOREM LatchStaysJust == Spec => []LatchIsJust
<1>1. GateInv => LatchIsJust
    BY GateInvImplies
<1> QED
    BY <1>1, GateInvariant, PTL

\* The latch's tables stay within the runs, agents and tools there are, and it
\* remembers at most max_runs runs.
THEOREM GateTypeCorrect == Spec => []TypeOK
<1>1. GateInv => TypeOK
    BY GateInvImplies
<1> QED
    BY <1>1, GateInvariant, PTL

\* _reconcile_version, _touch, reset: no step ends a halt but a reset, the
\* eviction of the oldest run, or a new mandate version of the agent that
\* caused it.
THEOREM HaltsEndWithTheirCause == Spec => HaltEndsWithItsCause
<1>1. GateInv /\ [Next]_vars => [HaltsEnd]_vars
    BY GateNextInv
<1>2. Spec => [][HaltsEnd]_vars
    BY <1>1, GateInvariant, PTL DEF Spec
<1>3. HaltEndsWithItsCause <=> [][HaltsEnd]_vars
    BY DEF HaltEndsWithItsCause, HaltsEnd
<1> QED
    BY <1>2, <1>3

-----------------------------------------------------------------------------
(* The inductive invariant of Budgets *)

\* x comes before y in queue s.
Before(s, x, y) == \E i, j \in 1..Len(s) : i < j /\ s[i] = x /\ s[j] = y

\* Queue o is a part of queue s, in the same order.
Follows(o, s) ==
    /\ o \in Seq(Trajectories) /\ Distinct(o) /\ Range(o) \subseteq Range(s)
    /\ \A x, y \in Trajectories : Before(o, x, y) => Before(s, x, y)

OverTrajectories(f) == f = [t \in Trajectories |-> f[t]]

\* One OrderedDict: its order is that of the trajectories seen, and of those
\* that were never lost it has what really happened.
TableOK(d, real, s, gone) ==
    /\ d = [order |-> d.order, of |-> d.of]
    /\ Follows(d.order, s)
    /\ OverTrajectories(d.of)
    /\ \A t \in Trajectories \ gone : d.of[t] = real[t]

\* ts, the timestamps kept, are the latest of all, and those let go are older
\* than since.
Kept(ts, all, since) ==
    /\ ts \in Seq(Nat) /\ all \in Seq(Nat) /\ Len(ts) <= Len(all)
    /\ \A i \in 1..Len(ts) : ts[i] = all[Len(all) - Len(ts) + i]
    /\ \A i \in 1..Len(all) - Len(ts) : all[i] < since

\* A decision under way read a clock that has only gone on since.
DecisionOK(d, clock) ==
    d = NotDeciding \/ /\ d.action \in Proposed /\ d.ceiling \in Ceilings
                       /\ d.now \in Nat /\ d.now <= clock

RateInv ==
    /\ now \in Nat
    /\ ceiling \in Ceilings
    /\ deciding = [c \in Callers |-> deciding[c]]
    /\ \A c \in Callers : DecisionOK(deciding[c], now)
    /\ Kept(calls, permits, now - RateWindow)

TrajectoriesInv ==
    /\ seen \in Seq(Trajectories) /\ Distinct(seen)
    /\ OverTrajectories(taken) /\ \A t \in Trajectories : IsFiniteSet(taken[t])
    /\ spent \in [Trajectories -> Nat]
    /\ TableOK(steps, taken, seen, lost)
    /\ TableOK(costs, spent, seen, lost)

BudgetsInv == RateInv /\ TrajectoriesInv

-----------------------------------------------------------------------------
(* Queues and their order *)

\* Taking e out keeps the order of the others, and makes no other.
LEMMA RemoveFirstBefore ==
    ASSUME NEW S, NEW s \in Seq(S), NEW e, Distinct(s), NEW u, u = RemoveFirst(s, e)
    PROVE  /\ \A x, y : x # e /\ y # e /\ Before(s, x, y) => Before(u, x, y)
           /\ \A x, y : Before(u, x, y) => Before(s, x, y)
<1>0. Len(s) \in Nat
    BY LenProperties
<1>1. CASE e \notin Range(s)
    BY <1>1, RemoveFirstProps
<1>2. CASE e \in Range(s)
  <2>0. \E k \in 1..Len(s) :
           /\ s[k] = e
           /\ RemoveFirst(s, e) \in Seq(S) /\ Len(RemoveFirst(s, e)) = Len(s) - 1
           /\ \A i \in 1..Len(s) - 1 :
                 RemoveFirst(s, e)[i] = IF i < k THEN s[i] ELSE s[i + 1]
      BY <1>2, RemoveFirstShape, SMTT(30)
  <2>1. PICK k \in 1..Len(s) :
              /\ s[k] = e /\ u \in Seq(S) /\ Len(u) = Len(s) - 1
              /\ \A i \in 1..Len(s) - 1 : u[i] = IF i < k THEN s[i] ELSE s[i + 1]
      BY <2>0
  <2>2. ASSUME NEW x, NEW y, x # e, y # e, Before(s, x, y) PROVE Before(u, x, y)
    <3>1. PICK i, j \in 1..Len(s) : i < j /\ s[i] = x /\ s[j] = y
        BY <2>2 DEF Before
    <3> DEFINE a == IF i < k THEN i ELSE i - 1
               b == IF j < k THEN j ELSE j - 1
    <3>2. i # k /\ j # k
        BY <2>1, <2>2, <3>1
    <3>3. /\ a \in 1..Len(s) - 1 /\ b \in 1..Len(s) - 1 /\ a < b
          /\ a < k => a = i
          /\ ~(a < k) => a + 1 = i
          /\ b < k => b = j
          /\ ~(b < k) => b + 1 = j
        BY <1>0, <3>1, <3>2
    <3> HIDE DEF a, b
    <3>4. u[a] = x /\ u[b] = y
        BY <2>1, <3>1, <3>3
    <3> QED
        BY <2>1, <3>3, <3>4 DEF Before
  <2>3. ASSUME NEW x, NEW y, Before(u, x, y) PROVE Before(s, x, y)
    <3>1. PICK i, j \in 1..Len(s) - 1 : i < j /\ u[i] = x /\ u[j] = y
        BY <2>1, <2>3 DEF Before
    <3> DEFINE a == IF i < k THEN i ELSE i + 1
               b == IF j < k THEN j ELSE j + 1
    <3>2. a \in 1..Len(s) /\ b \in 1..Len(s) /\ a < b
        BY <1>0, <3>1
    <3>3. s[a] = x /\ s[b] = y
        BY <2>1, <3>1
    <3> HIDE DEF a, b
    <3> QED
        BY <3>2, <3>3 DEF Before
  <2> QED
      BY <2>2, <2>3
<1> QED
    BY <1>1, <1>2

\* u is s, in its order, and e after that.
Ends(u, s, e) ==
    /\ \A x, y : Before(s, x, y) => Before(u, x, y)
    /\ \A x \in Range(s) : Before(u, x, e)
    /\ \A x, y : Before(u, x, y) => Before(s, x, y) \/ (y = e /\ x \in Range(s))

\* What is appended comes after all that is there.
LEMMA AppendBefore ==
    ASSUME NEW S, NEW s \in Seq(S), NEW e \in S, NEW u, u = Append(s, e)
    PROVE  Ends(u, s, e)
<1>0. /\ Len(s) \in Nat /\ DOMAIN s = 1..Len(s)
      /\ Len(u) = Len(s) + 1 /\ u[Len(s) + 1] = e
      /\ \A i \in 1..Len(s) : u[i] = s[i]
    BY LenProperties, AppendProperties
<1>1. 1..Len(s) \subseteq 1..Len(u) /\ Len(s) + 1 \in 1..Len(u)
    BY <1>0
<1>2. ASSUME NEW x, NEW y, Before(s, x, y) PROVE Before(u, x, y)
  <2>1. PICK i, j \in 1..Len(s) : i < j /\ s[i] = x /\ s[j] = y
      BY <1>2 DEF Before
  <2>2. i \in 1..Len(u) /\ j \in 1..Len(u) /\ u[i] = x /\ u[j] = y
      BY <1>0, <1>1, <2>1
  <2> QED
      BY <2>1, <2>2 DEF Before
<1>3. ASSUME NEW x \in Range(s) PROVE Before(u, x, e)
  <2>1. PICK i \in 1..Len(s) : s[i] = x
      BY <1>0 DEF Range
  <2>2. i \in 1..Len(u) /\ u[i] = x /\ i < Len(s) + 1
      BY <1>0, <1>1, <2>1
  <2> QED
      BY <1>0, <1>1, <2>2 DEF Before
<1>4. ASSUME NEW x, NEW y, Before(u, x, y) PROVE Before(s, x, y) \/ (y = e /\ x \in Range(s))
  <2>1. PICK i, j \in 1..Len(u) : i < j /\ u[i] = x /\ u[j] = y
      BY <1>4 DEF Before
  <2>2. i \in 1..Len(s) /\ s[i] = x
      BY <1>0, <2>1
  <2>3. CASE j = Len(s) + 1
      BY <1>0, <2>1, <2>2, <2>3 DEF Range
  <2>4. CASE j # Len(s) + 1
    <3>1. j \in 1..Len(s) /\ s[j] = y
        BY <1>0, <2>1, <2>4
    <3> QED
        BY <2>1, <2>2, <3>1 DEF Before
  <2> QED
      BY <2>3, <2>4
<1> QED
    BY <1>2, <1>3, <1>4 DEF Ends

\* popitem(last=False): the others keep their order.
LEMMA TailOrder ==
    ASSUME NEW S, NEW s \in Seq(S), s # <<>>, Distinct(s), NEW u, u = Tail(s)
    PROVE  /\ u \in Seq(S) /\ Distinct(u) /\ Range(u) = Range(s) \ {Head(s)}
           /\ \A x, y : Before(u, x, y) => Before(s, x, y)
<1>0. /\ Len(s) \in Nat /\ DOMAIN s = 1..Len(s) /\ Len(s) >= 1 /\ Head(s) = s[1]
      /\ u \in Seq(S) /\ Len(u) = Len(s) - 1
      /\ \A i \in 1..Len(s) - 1 : u[i] = s[i + 1]
    BY LenProperties, HeadTailProperties, EmptySeq
<1>1. DOMAIN u = 1..Len(s) - 1
    BY <1>0, LenProperties
<1>2. \A i \in 1..Len(s) - 1 : i + 1 \in 1..Len(s) /\ i + 1 # 1
    BY <1>0
<1>3. Distinct(u)
  <2> SUFFICES ASSUME NEW i \in 1..Len(s) - 1, NEW j \in 1..Len(s) - 1, u[i] = u[j]
               PROVE  i = j
      BY <1>0 DEF Distinct
  <2>1. s[i + 1] = s[j + 1]
      BY <1>0
  <2>2. i + 1 = j + 1
      BY <2>1, <1>2 DEF Distinct
  <2> QED
      BY <2>2, <1>0
<1>4. Range(u) = Range(s) \ {Head(s)}
  <2>1. ASSUME NEW x \in Range(u) PROVE x \in Range(s) \ {Head(s)}
    <3>1. PICK i \in 1..Len(s) - 1 : x = u[i]
        BY <1>1 DEF Range
    <3>2. x = s[i + 1] /\ i + 1 \in 1..Len(s) /\ i + 1 # 1 /\ 1 \in 1..Len(s)
        BY <1>0, <1>2, <3>1
    <3> QED
        BY <1>0, <3>2 DEF Range, Distinct
  <2>2. ASSUME NEW x \in Range(s), x # Head(s) PROVE x \in Range(u)
    <3>1. PICK i \in 1..Len(s) : x = s[i]
        BY <1>0 DEF Range
    <3>2. i - 1 \in 1..Len(s) - 1 /\ (i - 1) + 1 = i
        BY <1>0, <2>2, <3>1
    <3>3. u[i - 1] = x
        BY <1>0, <3>1, <3>2
    <3> QED
        BY <1>1, <3>2, <3>3 DEF Range
  <2> QED
      BY <2>1, <2>2
<1>5. ASSUME NEW x, NEW y, Before(u, x, y) PROVE Before(s, x, y)
  <2>1. PICK i, j \in 1..Len(s) - 1 : i < j /\ u[i] = x /\ u[j] = y
      BY <1>0, <1>5 DEF Before
  <2>2. i + 1 < j + 1 /\ s[i + 1] = x /\ s[j + 1] = y
      BY <1>0, <2>1
  <2> QED
      BY <1>2, <2>1, <2>2 DEF Before
<1> QED
    BY <1>0, <1>3, <1>4, <1>5

-----------------------------------------------------------------------------
(* The two OrderedDicts *)

\* s2 is s with t moved to the end, or put there: SeenNow.
Latest(s2, s, t) ==
    /\ s2 \in Seq(Trajectories) /\ Distinct(s2) /\ Range(s2) = Range(s) \cup {t}
    /\ Len(s2) \in Nat \ {0} /\ s2[Len(s2)] = t
    /\ \A x, y \in Trajectories : x # t /\ y # t /\ Before(s, x, y) => Before(s2, x, y)
    /\ \A x \in Range(s2) : x # t => Before(s2, x, t)

\* SeenNow makes it so.
LEMMA LatestIs ==
    ASSUME NEW s \in Seq(Trajectories), Distinct(s), NEW t \in Trajectories, NEW s2,
           s2 = Append(RemoveFirst(s, t), t)
    PROVE  Latest(s2, s, t)
<1> DEFINE u == RemoveFirst(s, t)
<1>1. /\ u \in Seq(Trajectories) /\ Distinct(u) /\ Range(u) = Range(s) \ {t}
      /\ \A x, y : x # t /\ y # t /\ Before(s, x, y) => Before(u, x, y)
    BY RemoveFirstProps, RemoveFirstBefore
<1> HIDE DEF u
<1>2. s2 = Append(u, t)
    BY DEF u
<1>3. /\ s2 \in Seq(Trajectories) /\ Len(s2) = Len(u) + 1 /\ Distinct(s2)
      /\ Range(s2) = Range(u) \cup {t}
    BY <1>1, <1>2, AppendDistinct
<1>4. Len(u) \in Nat /\ s2[Len(u) + 1] = t
    BY <1>1, <1>2, LenProperties, AppendProperties
<1>5. /\ \A x, y : Before(u, x, y) => Before(s2, x, y)
      /\ \A x \in Range(u) : Before(s2, x, t)
  <2>1. Ends(s2, u, t)
      BY <1>1, <1>2, AppendBefore
  <2> QED
      BY <2>1 DEF Ends
<1>6. Range(s2) = Range(s) \cup {t} /\ Len(s2) \in Nat \ {0} /\ s2[Len(s2)] = t
    BY <1>1, <1>3, <1>4
<1>7. \A x \in Range(s2) : x # t => Before(s2, x, t)
    BY <1>3, <1>5
<1> QED
    BY <1>1, <1>3, <1>5, <1>6, <1>7 DEF Latest

\* A queue that has no t, and one that ends with it, follow as before.
LEMMA FollowsWithout ==
    ASSUME NEW s, NEW s2, NEW o, NEW t \in Trajectories, Latest(s2, s, t), Follows(o, s),
           t \notin Range(o)
    PROVE  Follows(o, s2) /\ Follows(Append(o, t), s2)
<1>1. /\ o \in Seq(Trajectories) /\ Distinct(o) /\ Range(o) \subseteq Range(s2)
    BY DEF Follows, Latest
<1>2. DOMAIN o = 1..Len(o)
    BY <1>1, LenProperties
<1>3. ASSUME NEW x \in Trajectories, NEW y \in Trajectories, Before(o, x, y)
      PROVE  Before(s2, x, y)
  <2>1. x \in Range(o) /\ y \in Range(o)
      BY <1>2, <1>3 DEF Before, Range
  <2> QED
      BY <1>3, <2>1 DEF Follows, Latest
<1> DEFINE a == Append(o, t)
<1>4. /\ a \in Seq(Trajectories) /\ Distinct(a) /\ Range(a) = Range(o) \cup {t}
    BY <1>1, AppendDistinct
<1>4a. a = Append(o, t)
    OBVIOUS
<1> HIDE DEF a
<1>5. Ends(a, o, t)
    BY <1>1, <1>4a, AppendBefore
<1>6. ASSUME NEW x \in Trajectories, NEW y \in Trajectories, Before(a, x, y)
      PROVE  Before(s2, x, y)
  <2>1. CASE Before(o, x, y)
      BY <2>1, <1>3
  <2>2. CASE y = t /\ x \in Range(o)
      BY <2>2, <1>1 DEF Latest
  <2> QED
      BY <2>1, <2>2, <1>5, <1>6 DEF Ends
<1>7. Range(a) \subseteq Range(s2)
    BY <1>1, <1>4 DEF Latest
<1> QED
    BY <1>1, <1>3, <1>4, <1>6, <1>7 DEF Follows, a

\* The head of a full queue without t is not among the MaxTracked latest:
\* the rest of the queue, and t, are later.
LEMMA HeadFallsBehind ==
    ASSUME NEW s2, NEW o, NEW t \in Trajectories, s2 \in Seq(Trajectories), Distinct(s2),
           Len(s2) \in Nat \ {0}, s2[Len(s2)] = t, Follows(o, s2),
           t \notin Range(o), Len(o) >= MaxTracked, MaxTracked \in Nat \ {0}
    PROVE  \E p \in 1..(Len(s2) - MaxTracked) : s2[p] = Head(o)
<1>1. /\ o \in Seq(Trajectories) /\ Distinct(o) /\ Range(o) \subseteq Range(s2)
      /\ \A x, y \in Trajectories : Before(o, x, y) => Before(s2, x, y)
    BY DEF Follows
<1>2. /\ Len(o) \in Nat /\ Len(o) >= 1 /\ DOMAIN o = 1..Len(o) /\ DOMAIN s2 = 1..Len(s2)
      /\ \A i \in 1..Len(o) : o[i] \in Trajectories
    BY <1>1, LenProperties, ElementOfSeq
<1>3. Head(o) = o[1] /\ 1 \in 1..Len(o)
    BY <1>1, <1>2, HeadTailProperties, EmptySeq
<1>4. \A i \in 1..Len(o) : \E j \in 1..Len(s2) : s2[j] = o[i]
    BY <1>1, <1>2 DEF Range
<1> DEFINE f == [i \in 1..Len(o) |-> CHOOSE j \in 1..Len(s2) : s2[j] = o[i]]
<1>5. \A i \in 1..Len(o) : f[i] \in 1..Len(s2) /\ s2[f[i]] = o[i]
    BY <1>4
<1>5a. f = [i \in 1..Len(o) |-> f[i]]
    OBVIOUS
<1> HIDE DEF f
<1>6. \A i \in 1..Len(o) : f[i] # Len(s2)
    BY <1>2, <1>5 DEF Range
<1>7. ASSUME NEW i \in 1..Len(o), i # 1 PROVE f[1] < f[i]
  <2>1. Before(o, o[1], o[i])
    <3>1. 1 < i
        BY <1>2, <1>7
    <3> QED
        BY <1>3, <3>1 DEF Before
  <2>2. Before(s2, o[1], o[i])
      BY <1>1, <1>2, <1>3, <2>1
  <2>3. PICK a, b \in 1..Len(s2) : a < b /\ s2[a] = o[1] /\ s2[b] = o[i]
      BY <2>2 DEF Before
  <2>4. a = f[1] /\ b = f[i]
      BY <1>3, <1>5, <2>3 DEF Distinct
  <2> QED
      BY <2>3, <2>4
<1> DEFINE T == f[1]..(Len(s2) - 1)
<1>8. ASSUME NEW i \in 1..Len(o) PROVE f[i] \in T
    BY <1>3, <1>5, <1>6, <1>7
<1>9. \A i, j \in 1..Len(o) : f[i] = f[j] => i = j
    BY <1>1, <1>5 DEF Distinct
<1>10. f \in Injection(1..Len(o), T)
  <2>1. f \in [1..Len(o) -> T]
      BY <1>5a, <1>8
  <2> QED
      BY <2>1, <1>9 DEF Injection, IsInjective
<1>11. /\ IsFiniteSet(T)
       /\ Cardinality(T) = IF f[1] > Len(s2) - 1 THEN 0 ELSE (Len(s2) - 1) - f[1] + 1
  <2>1. f[1] \in Int /\ Len(s2) - 1 \in Int
      BY <1>3, <1>5
  <2> QED
      BY <2>1, FS_Interval
<1>12. Cardinality(1..Len(o)) = Len(o)
    BY <1>2, FS_Interval
<1>13. Cardinality(1..Len(o)) <= Cardinality(T)
    BY <1>10, <1>11, FS_Injection
<1>14. f[1] \in 1..(Len(s2) - MaxTracked)
  <2>1. f[1] \in 1..Len(s2) /\ f[1] <= Len(s2) - 1
      BY <1>3, <1>5, <1>6
  <2>2. Len(o) <= Len(s2) - f[1]
      BY <2>1, <1>11, <1>12, <1>13
  <2> QED
      BY <2>1, <2>2, <1>2
<1> QED
    BY <1>3, <1>5, <1>14

\* _mark_trajectory_seen, for one table: its order follows what is seen now,
\* and what it forgets is lost.
LEMMA MarkSeenIs ==
    ASSUME NEW s, NEW s2, NEW t \in Trajectories, Latest(s2, s, t),
           NEW d, d = [order |-> d.order, of |-> d.of], Follows(d.order, s),
           OverTrajectories(d.of), NEW zero, NEW m, m = MarkSeen(d, t, zero),
           MaxTracked \in Nat \ {0}
    PROVE  /\ m = [order |-> m.order, of |-> m.of]
           /\ Follows(m.order, s2)
           /\ OverTrajectories(m.of)
           /\ \A x \in Trajectories :
                 \/ m.of[x] = d.of[x]
                 \/ x # t /\ \E p \in 1..(Len(s2) - MaxTracked) : s2[p] = x
<1> DEFINE o == d.order
<1>0. /\ o \in Seq(Trajectories) /\ Distinct(o) /\ Range(o) \subseteq Range(s)
      /\ \A x, y \in Trajectories : Before(o, x, y) => Before(s, x, y)
    BY DEF Follows
<1>L. /\ s2 \in Seq(Trajectories) /\ Distinct(s2)
      /\ Len(s2) \in Nat \ {0} /\ s2[Len(s2)] = t
    BY DEF Latest
<1>1. CASE Len(o) >= MaxTracked /\ ~Tracks(d, t)
  <2>1. t \notin Range(o)
      BY <1>1 DEF Tracks
  <2>2. o # <<>>
      BY <1>1, EmptySeq
  <2>3. /\ Tail(o) \in Seq(Trajectories) /\ Distinct(Tail(o))
        /\ Range(Tail(o)) = Range(o) \ {Head(o)}
        /\ \A x, y : Before(Tail(o), x, y) => Before(o, x, y)
      BY <1>0, <2>2, TailOrder
  <2>4. Follows(Tail(o), s)
      BY <1>0, <2>3 DEF Follows
  <2>5. Follows(Tail(o), s2)
      BY <2>1, <2>3, <2>4, FollowsWithout
  <2>6. Follows(o, s2)
      BY <2>1, FollowsWithout
  <2>7. \E p \in 1..(Len(s2) - MaxTracked) : s2[p] = Head(o)
      BY <1>1, <1>L, <2>1, <2>6, HeadFallsBehind
  <2>8. Head(o) # t
      BY <1>0, <2>1, <2>2, HeadTailProperties, LenProperties, EmptySeq DEF Range
  <2>9. m = [order |-> Tail(o), of |-> [d.of EXCEPT ![Head(o)] = zero]]
      BY <1>1 DEF MarkSeen, PopOldest
  <2> HIDE DEF o
  <2>10. m.order = Tail(o) /\ m.of = [d.of EXCEPT ![Head(o)] = zero]
      BY <2>9
  <2>11. OverTrajectories(m.of)
      BY <2>10 DEF OverTrajectories
  <2>12. \A x \in Trajectories : m.of[x] = d.of[x] \/ x = Head(o)
      BY <2>10 DEF OverTrajectories
  <2> QED
      BY <2>5, <2>7, <2>8, <2>9, <2>10, <2>11, <2>12
<1>2. CASE ~(Len(o) >= MaxTracked /\ ~Tracks(d, t)) /\ Tracks(d, t)
  <2> DEFINE u == RemoveFirst(o, t)
  <2>1. /\ u \in Seq(Trajectories) /\ Distinct(u) /\ Range(u) = Range(o) \ {t}
        /\ \A x, y : Before(u, x, y) => Before(o, x, y)
      BY <1>0, RemoveFirstProps, RemoveFirstBefore
  <2>2. m = [d EXCEPT !.order = Append(u, t)]
      BY <1>2 DEF MarkSeen, MoveToEnd
  <2>3. m = [order |-> Append(u, t), of |-> d.of]
      BY <2>2
  <2> HIDE DEF u
  <2>4. Follows(u, s)
      BY <1>0, <2>1 DEF Follows
  <2>5. Follows(Append(u, t), s2)
      BY <2>1, <2>4, FollowsWithout
  <2>6. m.order = Append(u, t) /\ m.of = d.of
      BY <2>3
  <2> QED
      BY <2>3, <2>5, <2>6
<1>3. CASE ~(Len(o) >= MaxTracked /\ ~Tracks(d, t)) /\ ~Tracks(d, t)
  <2>1. m = d
      BY <1>3 DEF MarkSeen, MoveToEnd
  <2>2. t \notin Range(o)
      BY <1>3 DEF Tracks
  <2> QED
      BY <2>1, <2>2, FollowsWithout
<1> QED
    BY <1>1, <1>2, <1>3

\* d[t] = v: t goes to the end when it is new.
LEMMA SetIs ==
    ASSUME NEW s, NEW s2, NEW t \in Trajectories, Latest(s2, s, t),
           NEW m, Follows(m.order, s2), OverTrajectories(m.of), NEW v,
           NEW n, n = Set(m, t, v)
    PROVE  /\ n = [order |-> n.order, of |-> n.of]
           /\ Follows(n.order, s2)
           /\ OverTrajectories(n.of)
           /\ n.of[t] = v
           /\ \A x \in Trajectories : x # t => n.of[x] = m.of[x]
<1>1. /\ n.order = IF Tracks(m, t) THEN m.order ELSE Append(m.order, t)
      /\ n.of = [m.of EXCEPT ![t] = v]
      /\ n = [order |-> n.order, of |-> n.of]
    BY DEF Set
<1>2. /\ OverTrajectories(n.of) /\ n.of[t] = v
      /\ \A x \in Trajectories : x # t => n.of[x] = m.of[x]
    BY <1>1 DEF OverTrajectories
<1>3. Follows(n.order, s2)
  <2>1. CASE Tracks(m, t)
      BY <1>1, <2>1
  <2>2. CASE ~Tracks(m, t)
    <3>1. t \notin Range(m.order)
        BY <2>2 DEF Tracks
    <3>2. Latest(s2, s2, t)
        BY DEF Latest
    <3> QED
        BY <1>1, <2>2, <3>1, <3>2, FollowsWithout
  <2> QED
      BY <2>1, <2>2
<1> QED
    BY <1>1, <1>2, <1>3

\* LostNow: what is not among the MaxTracked latest of s2 is lost.
Forgets(gone2, gone, s2) ==
    gone \subseteq gone2 /\ \A p \in 1..(Len(s2) - MaxTracked) : s2[p] \in gone2

\* real2 differs from real in that t has w.
Changed(real2, real, t, w) ==
    real2[t] = w /\ \A x \in Trajectories : x # t => real2[x] = real[x]

\* Both tables at once: what is lost, and what happened, moves with them.
LEMMA TableMarked ==
    ASSUME NEW d, NEW real, NEW s \in Seq(Trajectories), Distinct(s), NEW gone, NEW gone2,
           TableOK(d, real, s, gone), NEW t \in Trajectories, NEW zero,
           NEW s2, Latest(s2, s, t), MaxTracked \in Nat \ {0},
           Forgets(gone2, gone, s2),
           NEW m, m = MarkSeen(d, t, zero)
    PROVE  TableOK(m, real, s2, gone2)
<1>1. /\ m = [order |-> m.order, of |-> m.of]
      /\ Follows(m.order, s2)
      /\ OverTrajectories(m.of)
      /\ \A x \in Trajectories :
            \/ m.of[x] = d.of[x]
            \/ x # t /\ \E p \in 1..(Len(s2) - MaxTracked) : s2[p] = x
    BY MarkSeenIs DEF TableOK
<1>2. ASSUME NEW x \in Trajectories \ gone2 PROVE m.of[x] = real[x]
  <2>1. x \notin gone /\ ~\E p \in 1..(Len(s2) - MaxTracked) : s2[p] = x
      BY <1>2 DEF Forgets
  <2>2. d.of[x] = real[x]
      BY <2>1 DEF TableOK
  <2> QED
      BY <1>1, <2>1, <2>2
<1> QED
    BY <1>1, <1>2 DEF TableOK

\* The same, when the table is then told of t.
LEMMA TableSet ==
    ASSUME NEW d, NEW real, NEW s \in Seq(Trajectories), Distinct(s), NEW gone, NEW gone2,
           TableOK(d, real, s, gone), NEW t \in Trajectories, NEW zero,
           NEW s2, Latest(s2, s, t), MaxTracked \in Nat \ {0},
           Forgets(gone2, gone, s2),
           NEW v, NEW w, d.of[t] = real[t] => v = w,
           NEW real2, Changed(real2, real, t, w),
           NEW n, n = Set(MarkSeen(d, t, zero), t, v)
    PROVE  TableOK(n, real2, s2, gone2)
<1> DEFINE m == MarkSeen(d, t, zero)
<1>1. TableOK(m, real, s2, gone2)
    BY TableMarked
<1>2. n = Set(m, t, v)
    OBVIOUS
<1> HIDE DEF m
<1>3. /\ n = [order |-> n.order, of |-> n.of]
      /\ Follows(n.order, s2)
      /\ OverTrajectories(n.of)
      /\ n.of[t] = v
      /\ \A x \in Trajectories : x # t => n.of[x] = m.of[x]
    BY <1>1, <1>2, SetIs DEF TableOK
<1>4. ASSUME NEW x \in Trajectories \ gone2 PROVE n.of[x] = real2[x]
  <2>1. CASE x = t
    <3>1. d.of[t] = real[t]
        BY <1>4, <2>1 DEF TableOK, Forgets
    <3>2. real2[t] = w
        BY DEF Changed
    <3> QED
        BY <1>3, <2>1, <3>1, <3>2
  <2>2. CASE x # t
    <3>1. m.of[x] = real[x]
        BY <1>1, <1>4 DEF TableOK
    <3>2. real2[x] = real[x]
        BY <2>2 DEF Changed
    <3> QED
        BY <1>3, <2>2, <3>1, <3>2
  <2> QED
      BY <2>1, <2>2
<1> QED
    BY <1>3, <1>4 DEF TableOK

-----------------------------------------------------------------------------
(* The timestamps *)

\* Pruning lets go of a prefix, all of it older than the window.
LEMMA PrunedIs ==
    ASSUME NEW c \in Ceilings, NEW at \in Nat, at <= now, now \in Nat,
           Kept(calls, permits, now - RateWindow), NEW p, p = Pruned(c, at)
    PROVE  Kept(p, permits, now - RateWindow)
<1>0. /\ calls \in Seq(Nat) /\ permits \in Seq(Nat) /\ Len(calls) <= Len(permits)
      /\ \A i \in 1..Len(calls) : calls[i] = permits[Len(permits) - Len(calls) + i]
      /\ \A i \in 1..Len(permits) - Len(calls) : permits[i] < now - RateWindow
      /\ RateWindow \in Nat
    BY BudgetsAssumption DEF Kept
<1>0a. /\ Len(calls) \in Nat /\ Len(permits) \in Nat
       /\ \A i \in 1..Len(calls) : calls[i] \in Nat
    BY <1>0, LenProperties, ElementOfSeq
<1>1. CASE c.calls = None
    BY <1>1 DEF Pruned
<1>2. CASE c.calls # None
  <2> DEFINE I == {i \in 1..Len(calls) : calls[i] >= at - RateWindow}
             k == Min(I)
  <2>1. p = IF I = {} THEN <<>> ELSE
              IF k = 0 THEN <<>> ELSE SubSeq(calls, k, Len(calls))
      BY <1>2 DEF Pruned, SelectInSeq
  <2>2. CASE I = {}
    <3>1. p = <<>> /\ Len(p) = 0 /\ p \in Seq(Nat)
        BY <2>1, <2>2
    <3>2. ASSUME NEW i \in 1..Len(permits) PROVE permits[i] < now - RateWindow
      <4>1. CASE i \in 1..Len(permits) - Len(calls)
          BY <4>1, <1>0
      <4>2. CASE i \notin 1..Len(permits) - Len(calls)
        <5> DEFINE j == i - (Len(permits) - Len(calls))
        <5>1. j \in 1..Len(calls) /\ Len(permits) - Len(calls) + j = i
            BY <4>2, <1>0, <1>0a
        <5> HIDE DEF j
        <5>2. permits[i] = calls[j] /\ calls[j] \in Nat
            BY <5>1, <1>0, <1>0a
        <5>3. ~(calls[j] >= at - RateWindow)
            BY <5>1, <2>2
        <5> QED
            BY <5>2, <5>3, <1>0
      <4> QED
          BY <4>1, <4>2
    <3> QED
        BY <3>1, <3>2, <1>0, <1>0a DEF Kept
  <2>3. CASE I # {}
    <3>1. \E m \in I : \A n \in I : m <= n
      <4>1. I \subseteq Nat
          BY <1>0a
      <4> QED
          BY <4>1, <2>3, LeastExists
    <3>2. k \in I /\ \A n \in I : k <= n
        BY <3>1 DEF Min
    <3> HIDE DEF k
    <3>2a. k \in 1..Len(calls) /\ k # 0
        BY <3>2, <1>0a
    <3>3. p = SubSeq(calls, k, Len(calls))
        BY <2>1, <2>3, <3>2a
    <3>4. ASSUME NEW i \in 1..Len(calls), i < k PROVE calls[i] < at - RateWindow
      <4>1. i \notin I
          BY <3>2, <3>2a, <3>4, <1>0a
      <4>2. ~(calls[i] >= at - RateWindow) /\ calls[i] \in Nat
          BY <4>1, <1>0a
      <4> QED
          BY <4>2, <1>0
    <3> HIDE DEF I
    <3>5. /\ p \in Seq(Nat) /\ Len(p) = Len(calls) - k + 1
          /\ \A i \in 1..Len(calls) - k + 1 : p[i] = calls[k + i - 1]
      <4>1. /\ p \in Seq(Nat) /\ Len(p) = IF k <= Len(calls) THEN Len(calls) - k + 1 ELSE 0
            /\ \A i \in 1..(Len(calls) - k + 1) : p[i] = calls[k + i - 1]
        <5>1. /\ k \in Int /\ Len(calls) \in Int
              /\ \A i \in k..Len(calls) : calls[i] \in Nat
            BY <3>2a, <1>0a
        <5> QED
            BY <3>3, <5>1, SubSeqProperties
      <4> QED
          BY <4>1, <3>2a, <1>0a
    <3>6. ASSUME NEW i \in 1..Len(p) PROVE p[i] = permits[Len(permits) - Len(p) + i]
      <4>1. /\ k + i - 1 \in 1..Len(calls)
            /\ Len(permits) - Len(calls) + (k + i - 1) = Len(permits) - Len(p) + i
        <5>1. /\ Len(p) = Len(calls) - k + 1 /\ Len(calls) \in Nat /\ Len(permits) \in Nat
              /\ i \in 1..(Len(calls) - k + 1)
            BY <3>5, <1>0a
        <5> QED
            BY <3>2a, <5>1
      <4>2. p[i] = calls[k + i - 1]
          BY <3>5
      <4>3. calls[k + i - 1] = permits[Len(permits) - Len(calls) + (k + i - 1)]
          BY <4>1, <1>0
      <4> QED
          BY <4>1, <4>2, <4>3
    <3>7. ASSUME NEW i \in 1..Len(permits) - Len(p) PROVE permits[i] < now - RateWindow
      <4>1. CASE i \in 1..Len(permits) - Len(calls)
          BY <4>1, <1>0
      <4>2. CASE i \notin 1..Len(permits) - Len(calls)
        <5> DEFINE j == i - (Len(permits) - Len(calls))
        <5>1. j \in 1..Len(calls) /\ j < k /\ Len(permits) - Len(calls) + j = i
          <6>1. /\ Len(p) = Len(calls) - k + 1 /\ Len(calls) \in Nat /\ Len(permits) \in Nat
                /\ Len(calls) <= Len(permits)
              BY <3>5, <1>0, <1>0a
          <6> QED
              BY <4>2, <3>2a, <6>1
        <5> HIDE DEF j
        <5>2. permits[i] = calls[j] /\ calls[j] \in Nat
            BY <5>1, <1>0, <1>0a
        <5>3. calls[j] < at - RateWindow
            BY <5>1, <3>4
        <5> QED
            BY <5>2, <5>3, <1>0
      <4> QED
          BY <4>1, <4>2
    <3> QED
      <4>1. Len(p) <= Len(permits)
        <5>1. /\ Len(p) = Len(calls) - k + 1 /\ Len(calls) \in Nat /\ Len(permits) \in Nat
              /\ Len(calls) <= Len(permits)
            BY <3>5, <1>0, <1>0a
        <5> QED
            BY <3>2a, <5>1
      <4> QED
          BY <4>1, <3>5, <3>6, <3>7, <1>0 DEF Kept
  <2> QED
      BY <2>2, <2>3
<1> QED
    BY <1>1, <1>2

\* A permitted call is the latest of both.
LEMMA KeptAppend ==
    ASSUME NEW p, NEW all, NEW since \in Int, NEW at \in Nat, Kept(p, all, since)
    PROVE  Kept(Append(p, at), Append(all, at), since)
<1>1. /\ p \in Seq(Nat) /\ all \in Seq(Nat) /\ Len(p) <= Len(all)
      /\ \A i \in 1..Len(p) : p[i] = all[Len(all) - Len(p) + i]
      /\ \A i \in 1..Len(all) - Len(p) : all[i] < since
      /\ Len(p) \in Nat /\ Len(all) \in Nat
    BY LenProperties DEF Kept
<1> DEFINE q == Append(p, at)
           new == Append(all, at)
<1>2. /\ q \in Seq(Nat) /\ Len(q) = Len(p) + 1 /\ q[Len(p) + 1] = at
      /\ \A i \in 1..Len(p) : q[i] = p[i]
    BY <1>1, AppendProperties
<1>3. /\ new \in Seq(Nat) /\ Len(new) = Len(all) + 1 /\ new[Len(all) + 1] = at
      /\ \A i \in 1..Len(all) : new[i] = all[i]
    BY <1>1, AppendProperties
<1> HIDE DEF q, new
<1>4. ASSUME NEW i \in 1..Len(q) PROVE q[i] = new[Len(new) - Len(q) + i]
  <2>1. CASE i = Len(p) + 1
      BY <2>1, <1>1, <1>2, <1>3
  <2>2. CASE i # Len(p) + 1
    <3>1. /\ i \in 1..Len(p) /\ Len(all) - Len(p) + i \in 1..Len(all)
          /\ Len(new) - Len(q) + i = Len(all) - Len(p) + i
      <4>1. /\ Len(p) \in Nat /\ Len(all) \in Nat /\ Len(p) <= Len(all)
            /\ Len(q) = Len(p) + 1 /\ Len(new) = Len(all) + 1
          BY <1>1, <1>2, <1>3
      <4> QED
          BY <2>2, <4>1
    <3> QED
        BY <3>1, <1>1, <1>2, <1>3
  <2> QED
      BY <2>1, <2>2
<1>5. ASSUME NEW i \in 1..Len(new) - Len(q) PROVE new[i] < since
  <2>1. i \in 1..Len(all) - Len(p) /\ i \in 1..Len(all)
    <3>1. /\ Len(p) \in Nat /\ Len(all) \in Nat /\ Len(p) <= Len(all)
          /\ Len(q) = Len(p) + 1 /\ Len(new) = Len(all) + 1
        BY <1>1, <1>2, <1>3
    <3> QED
        BY <3>1
  <2> QED
      BY <2>1, <1>1, <1>3
<1>6. Len(q) <= Len(new)
    BY <1>1, <1>2, <1>3
<1>7. Kept(q, new, since)
    BY <1>2, <1>3, <1>4, <1>5, <1>6 DEF Kept
<1> QED
    BY <1>7 DEF q, new

\* Calls of the window are among those kept.
LEMMA WindowKept ==
    ASSUME NEW p, NEW all, NEW since \in Int, Kept(p, all, since)
    PROVE  Cardinality({i \in DOMAIN all : all[i] >= since}) <= Len(p)
<1>1. /\ p \in Seq(Nat) /\ all \in Seq(Nat) /\ Len(p) <= Len(all)
      /\ \A i \in 1..Len(all) - Len(p) : all[i] < since
      /\ Len(p) \in Nat /\ Len(all) \in Nat
      /\ DOMAIN all = 1..Len(all) /\ \A i \in 1..Len(all) : all[i] \in Nat
    BY LenProperties, ElementOfSeq DEF Kept
<1> DEFINE W == {i \in DOMAIN all : all[i] >= since}
           J == (Len(all) - Len(p) + 1)..Len(all)
<1>2. W \subseteq J
  <2> SUFFICES ASSUME NEW i \in 1..Len(all), all[i] >= since PROVE i \in J
      BY <1>1
  <2>1. i \notin 1..Len(all) - Len(p)
      BY <1>1
  <2> QED
      BY <2>1, <1>1
<1>3. IsFiniteSet(J) /\ Cardinality(J) = Len(p)
  <2>1. /\ IsFiniteSet(J)
        /\ Cardinality(J) = IF Len(all) - Len(p) + 1 > Len(all) THEN 0
                            ELSE Len(all) - (Len(all) - Len(p) + 1) + 1
    <3>1. Len(all) - Len(p) + 1 \in Int /\ Len(all) \in Int
        BY <1>1
    <3> QED
        BY <3>1, FS_Interval
  <2> QED
      BY <2>1, <1>1
<1> QED
    BY <1>2, <1>3, FS_Subset

-----------------------------------------------------------------------------
(* The invariant of Budgets *)

\* Nothing is tracked at first, and nothing has happened.
LEMMA BudgetsInitInv == BudgetsInit => BudgetsInv
<1> SUFFICES ASSUME BudgetsInit PROVE BudgetsInv
    OBVIOUS
<1>1. calls = <<>> /\ permits = <<>> /\ seen = <<>> /\ Len(<<>>) = 0
      /\ <<>> \in Seq(Nat) /\ <<>> \in Seq(Trajectories)
    BY EmptySeq DEF BudgetsInit
<1>2. RateInv
  <2>1. Kept(calls, permits, now - RateWindow)
      BY <1>1 DEF Kept
  <2>2. \A c \in Callers : DecisionOK(deciding[c], now)
      BY DEF BudgetsInit, DecisionOK
  <2> QED
      BY <2>1, <2>2 DEF BudgetsInit, RateInv
<1>3. Distinct(seen) /\ Follows(<<>>, seen)
  <2>1. Range(<<>>) = {}
      BY DEF Range
  <2> QED
      BY <1>1, <2>1 DEF Distinct, Follows, Before
<1>4. /\ taken = [t \in Trajectories |-> {}] /\ spent = [t \in Trajectories |-> 0]
      /\ steps = [order |-> <<>>, of |-> [t \in Trajectories |-> {}]]
      /\ costs = [order |-> <<>>, of |-> [t \in Trajectories |-> 0]]
    BY DEF BudgetsInit, NoneTracked
<1>5. TableOK(steps, taken, seen, lost)
    BY <1>3, <1>4 DEF TableOK, OverTrajectories
<1>6. TableOK(costs, spent, seen, lost)
    BY <1>3, <1>4 DEF TableOK, OverTrajectories
<1>7. OverTrajectories(taken) /\ \A t \in Trajectories : IsFiniteSet(taken[t])
    BY <1>4, FS_EmptySet DEF OverTrajectories
<1> QED
    BY <1>1, <1>2, <1>3, <1>4, <1>5, <1>6, <1>7 DEF BudgetsInv, TrajectoriesInv

\* The clock goes on: what was older than the window still is.
LEMMA TickInv == BudgetsInv /\ Tick => BudgetsInv'
<1> SUFFICES ASSUME BudgetsInv, Tick PROVE BudgetsInv'
    OBVIOUS
<1>1. /\ now \in Nat /\ now' = now + 1 /\ RateWindow \in Nat
      /\ ceiling' = ceiling /\ deciding' = deciding /\ calls' = calls /\ permits' = permits
    BY BudgetsAssumption DEF BudgetsInv, RateInv, Tick, tracked, history
<1>2. TrajectoriesInv'
    BY DEF BudgetsInv, TrajectoriesInv, Tick, tracked, history
<1>3. \A c \in Callers : DecisionOK(deciding[c], now')
    BY <1>1 DEF BudgetsInv, RateInv, DecisionOK
<1>4. Kept(calls, permits, now' - RateWindow)
  <2>1. /\ permits \in Seq(Nat) /\ calls \in Seq(Nat) /\ Len(calls) <= Len(permits)
        /\ \A i \in 1..Len(calls) : calls[i] = permits[Len(permits) - Len(calls) + i]
        /\ \A i \in 1..Len(permits) - Len(calls) : permits[i] < now - RateWindow
        /\ Len(permits) \in Nat /\ Len(calls) \in Nat
        /\ \A i \in 1..Len(permits) : permits[i] \in Nat
      BY LenProperties, ElementOfSeq DEF BudgetsInv, RateInv, Kept
  <2>2. ASSUME NEW i \in 1..Len(permits) - Len(calls) PROVE permits[i] < now' - RateWindow
    <3>1. i \in 1..Len(permits)
        BY <2>1
    <3>2. permits[i] \in Nat /\ permits[i] < now - RateWindow
        BY <2>1, <3>1
    <3> QED
        BY <1>1, <3>2
  <2> QED
      BY <2>1, <2>2 DEF Kept
<1> QED
    BY <1>1, <1>2, <1>3, <1>4 DEF BudgetsInv, RateInv

\* apply_snapshot: decisions under way keep the ceiling they have read.
LEMMA ApplySnapshotInv ==
    ASSUME NEW c \in Ceilings, BudgetsInv, ApplySnapshot(c) PROVE BudgetsInv'
<1>1. TrajectoriesInv'
    BY DEF BudgetsInv, TrajectoriesInv, ApplySnapshot, tracked, history
<1> QED
    BY <1>1 DEF BudgetsInv, RateInv, ApplySnapshot, tracked, history

\* decide: the clock it reads is the clock.
LEMMA StartDecideInv ==
    ASSUME NEW c \in Callers, NEW action \in Proposed, BudgetsInv, StartDecide(c, action)
    PROVE  BudgetsInv'
<1>1. TrajectoriesInv'
    BY DEF BudgetsInv, TrajectoriesInv, StartDecide, tracked, history
<1> DEFINE d == [pc |-> "budgets", action |-> action, ceiling |-> ceiling, now |-> now]
<1>2. /\ deciding = [b \in Callers |-> deciding[b]]
      /\ \A b \in Callers : DecisionOK(deciding[b], now)
      /\ deciding' = [deciding EXCEPT ![c] = d]
      /\ now' = now /\ ceiling' = ceiling /\ calls' = calls /\ permits' = permits
      /\ now \in Nat /\ ceiling \in Ceilings
    BY DEF BudgetsInv, RateInv, StartDecide, tracked, history
<1>3. DecisionOK(d, now)
    BY <1>2 DEF DecisionOK
<1> HIDE DEF d
<1>4. deciding' = [b \in Callers |-> deciding'[b]] /\ \A b \in Callers : DecisionOK(deciding'[b], now)
    BY <1>2, <1>3
<1> QED
    BY <1>1, <1>2, <1>4 DEF BudgetsInv, RateInv

\* A decision that ends, with the timestamps ts and the permits all.
LEMMA DecisionEnds ==
    ASSUME NEW c \in Callers, RateInv, deciding' = [deciding EXCEPT ![c] = NotDeciding],
           now' = now, ceiling' = ceiling, Kept(calls', permits', now - RateWindow)
    PROVE  RateInv'
<1>1. /\ deciding = [b \in Callers |-> deciding[b]]
      /\ \A b \in Callers : DecisionOK(deciding[b], now)
    BY DEF RateInv
<1>2. DecisionOK(NotDeciding, now)
    BY DEF DecisionOK
<1>3. deciding' = [b \in Callers |-> deciding'[b]] /\ \A b \in Callers : DecisionOK(deciding'[b], now)
    BY <1>1, <1>2
<1> QED
    BY <1>3 DEF RateInv

\* What a decision under way knows, and what pruning by its clock leaves.
LEMMA DecisionIs ==
    ASSUME NEW c \in Callers, RateInv, deciding[c] # NotDeciding
    PROVE  /\ deciding[c].action \in Proposed /\ deciding[c].ceiling \in Ceilings
           /\ deciding[c].now \in Nat
           /\ Kept(Pruned(deciding[c].ceiling, deciding[c].now), permits, now - RateWindow)
<1>1. /\ deciding[c].action \in Proposed /\ deciding[c].ceiling \in Ceilings
      /\ deciding[c].now \in Nat /\ deciding[c].now <= now /\ now \in Nat
      /\ Kept(calls, permits, now - RateWindow)
    BY DEF RateInv, DecisionOK
<1>2. Kept(Pruned(deciding[c].ceiling, deciding[c].now), permits, now - RateWindow)
    BY <1>1, PrunedIs
<1> QED
    BY <1>1, <1>2

\* A refusal only prunes.
LEMMA DenyOverBudgetInv ==
    ASSUME NEW c \in Callers, BudgetsInv, DenyOverBudget(c) PROVE BudgetsInv'
<1>1. TrajectoriesInv'
    BY DEF BudgetsInv, TrajectoriesInv, DenyOverBudget, history
<1>2. Kept(calls', permits', now - RateWindow)
    BY DecisionIs DEF BudgetsInv, DenyOverBudget, history
<1>3. RateInv'
    BY <1>2, DecisionEnds DEF BudgetsInv, DenyOverBudget
<1> QED
    BY <1>1, <1>3 DEF BudgetsInv

\* What a trajectory that is seen does to the history.
LEMMA SeenIs ==
    ASSUME TrajectoriesInv, NEW t \in Trajectories, seen' = SeenNow(t), lost' = LostNow(t)
    PROVE  /\ seen \in Seq(Trajectories) /\ Distinct(seen)
           /\ Latest(seen', seen, t)
           /\ seen' \in Seq(Trajectories) /\ Distinct(seen')
           /\ Forgets(lost', lost, seen')
<1>1. seen \in Seq(Trajectories) /\ Distinct(seen)
    BY DEF TrajectoriesInv
<1>2. seen' = Append(RemoveFirst(seen, t), t)
    BY DEF SeenNow
<1>3. Latest(seen', seen, t)
    BY <1>1, <1>2, LatestIs
<1>4. Forgets(lost', lost, seen')
    BY DEF LostNow, Forgets
<1> QED
    BY <1>1, <1>3, <1>4 DEF Latest

\* A permit is charged to the rate, and to its trajectory if it has a step.
LEMMA PermitInv ==
    ASSUME NEW c \in Callers, BudgetsInv, Permit(c) PROVE BudgetsInv'
<1> DEFINE d == deciding[c]
           t == d.action.trajectory
           step == d.action.step
<1>0. RateInv /\ TrajectoriesInv /\ d # NotDeciding
    BY DEF BudgetsInv, Permit
<1>1. /\ d.action \in Proposed /\ d.now \in Nat
      /\ Kept(Pruned(d.ceiling, d.now), permits, now - RateWindow)
    BY <1>0, DecisionIs
<1>2. RateInv'
  <2>1. now - RateWindow \in Int
      BY <1>0, BudgetsAssumption DEF RateInv
  <2>2. /\ calls' = Append(Pruned(d.ceiling, d.now), d.now)
        /\ permits' = Append(permits, d.now)
        /\ now' = now /\ ceiling' = ceiling
        /\ deciding' = [deciding EXCEPT ![c] = NotDeciding]
      BY DEF Permit
  <2>3. Kept(calls', permits', now - RateWindow)
      BY <1>1, <2>1, <2>2, KeptAppend
  <2> QED
      BY <1>0, <2>2, <2>3, DecisionEnds
<1>3. TrajectoriesInv'
  <2>1. CASE t = None \/ step = None
    <3>1. UNCHANGED <<steps, costs, taken, seen, lost, spent>>
        BY <2>1 DEF Permit
    <3> QED
        BY <1>0, <3>1 DEF TrajectoriesInv
  <2>2. CASE ~(t = None \/ step = None)
    <3>1. t \in Trajectories
        BY <1>1, <2>2, BudgetsAssumption
    <3>2. /\ steps' = Set(MarkSeen(steps, t, {}), t, steps.of[t] \cup {step})
          /\ costs' = MarkSeen(costs, t, 0)
          /\ taken' = [taken EXCEPT ![t] = taken[t] \cup {step}]
          /\ seen' = SeenNow(t) /\ lost' = LostNow(t) /\ spent' = spent
        BY <2>2 DEF Permit
    <3> HIDE DEF d, t, step
    <3>3. /\ OverTrajectories(taken) /\ \A x \in Trajectories : IsFiniteSet(taken[x])
          /\ spent \in [Trajectories -> Nat]
          /\ TableOK(steps, taken, seen, lost) /\ TableOK(costs, spent, seen, lost)
          /\ MaxTracked \in Nat \ {0}
        BY <1>0, BudgetsAssumption DEF TrajectoriesInv
    <3>4. /\ seen \in Seq(Trajectories) /\ Distinct(seen)
          /\ Latest(seen', seen, t)
          /\ seen' \in Seq(Trajectories) /\ Distinct(seen')
          /\ Forgets(lost', lost, seen')
        BY <1>0, <3>1, <3>2, SeenIs
    <3>5. TableOK(costs', spent', seen', lost')
        BY <3>1, <3>2, <3>3, <3>4, TableMarked
    <3>6. TableOK(steps', taken', seen', lost')
      <4>1. steps.of[t] = taken[t] => steps.of[t] \cup {step} = taken[t] \cup {step}
          OBVIOUS
      <4>2. Changed(taken', taken, t, taken[t] \cup {step})
          BY <3>1, <3>2, <3>3 DEF Changed, OverTrajectories
      <4> QED
          BY <3>1, <3>2, <3>3, <3>4, <4>1, <4>2, TableSet
    <3>7. OverTrajectories(taken') /\ \A x \in Trajectories : IsFiniteSet(taken'[x])
      <4>1. IsFiniteSet(taken[t] \cup {step})
          BY <3>1, <3>3, FS_AddElement
      <4>2. OverTrajectories(taken')
          BY <3>1, <3>2, <3>3 DEF OverTrajectories
      <4>3. \A x \in Trajectories : taken'[x] = IF x = t THEN taken[t] \cup {step} ELSE taken[x]
          BY <3>1, <3>2, <3>3 DEF OverTrajectories
      <4> QED
          BY <3>3, <4>1, <4>2, <4>3
    <3> QED
        BY <3>2, <3>3, <3>4, <3>5, <3>6, <3>7 DEF TrajectoriesInv
  <2> QED
      BY <2>1, <2>2
<1> QED
    BY <1>2, <1>3 DEF BudgetsInv

\* record_actual_cost: the cost is told, and the trajectory is seen.
LEMMA RecordActualCostInv ==
    ASSUME NEW t \in Trajectories, BudgetsInv, RecordActualCost(t) PROVE BudgetsInv'
<1>1. RateInv'
    BY DEF BudgetsInv, RateInv, RecordActualCost
<1>2. TrajectoriesInv
    BY DEF BudgetsInv
<1>3. /\ OverTrajectories(taken) /\ \A x \in Trajectories : IsFiniteSet(taken[x])
      /\ spent \in [Trajectories -> Nat]
      /\ TableOK(steps, taken, seen, lost) /\ TableOK(costs, spent, seen, lost)
      /\ MaxTracked \in Nat \ {0}
    BY <1>2, BudgetsAssumption DEF TrajectoriesInv
<1>4. /\ steps' = MarkSeen(steps, t, {})
      /\ costs' = Set(MarkSeen(costs, t, 0), t, costs.of[t] + 1)
      /\ spent' = [spent EXCEPT ![t] = spent[t] + 1] /\ taken' = taken
      /\ seen' = SeenNow(t) /\ lost' = LostNow(t)
    BY DEF RecordActualCost
<1>5. /\ seen \in Seq(Trajectories) /\ Distinct(seen)
      /\ Latest(seen', seen, t)
      /\ seen' \in Seq(Trajectories) /\ Distinct(seen')
      /\ Forgets(lost', lost, seen')
    BY <1>2, <1>4, SeenIs
<1>6. TableOK(steps', taken', seen', lost')
    BY <1>3, <1>4, <1>5, TableMarked
<1>7. TableOK(costs', spent', seen', lost')
  <2>1. Changed(spent', spent, t, spent[t] + 1)
      BY <1>3, <1>4 DEF Changed
  <2>2. costs.of[t] = spent[t] => costs.of[t] + 1 = spent[t] + 1
      OBVIOUS
  <2> QED
      BY <1>3, <1>4, <1>5, <2>1, <2>2, TableSet
<1>8. spent' \in [Trajectories -> Nat]
    BY <1>3, <1>4
<1> QED
    BY <1>1, <1>3, <1>4, <1>5, <1>6, <1>7, <1>8 DEF BudgetsInv, TrajectoriesInv

\* Every step preserves the invariant.
LEMMA BudgetsStep == BudgetsInv /\ [BudgetsNext]_budgetVars => BudgetsInv'
<1> SUFFICES ASSUME BudgetsInv, [BudgetsNext]_budgetVars PROVE BudgetsInv'
    OBVIOUS
<1>1. CASE UNCHANGED budgetVars
  <2>1. TrajectoriesInv'
      BY <1>1 DEF BudgetsInv, TrajectoriesInv, budgetVars, tracked, history
  <2> QED
      BY <1>1, <2>1 DEF BudgetsInv, RateInv, budgetVars, tracked, history
<1>2. CASE Tick
    BY <1>2, TickInv
<1>3. ASSUME NEW c \in Ceilings, ApplySnapshot(c) PROVE BudgetsInv'
    BY <1>3, ApplySnapshotInv
<1>4. ASSUME NEW c \in Callers, NEW action \in Proposed, StartDecide(c, action) PROVE BudgetsInv'
    BY <1>4, StartDecideInv
<1>5. ASSUME NEW c \in Callers, DenyOverBudget(c) PROVE BudgetsInv'
    BY <1>5, DenyOverBudgetInv
<1>6. ASSUME NEW c \in Callers, Permit(c) PROVE BudgetsInv'
    BY <1>6, PermitInv
<1>7. ASSUME NEW t \in Trajectories, RecordActualCost(t) PROVE BudgetsInv'
    BY <1>7, RecordActualCostInv
<1> QED
    BY <1>1, <1>2, <1>3, <1>4, <1>5, <1>6, <1>7 DEF BudgetsNext

\* The invariant holds in every behaviour of the budgets.
THEOREM BudgetsInvariant == BudgetsSpec => []BudgetsInv
<1> QED
    BY BudgetsInitInv, BudgetsStep, PTL DEF BudgetsSpec

\* The budgets a permitted call was within.
Within(c) ==
    LET d == deciding[c]
        t == d.action.trajectory
    IN  /\ d.ceiling.calls # None =>
             Cardinality({i \in DOMAIN permits : permits[i] >= now - RateWindow})
               < d.ceiling.calls
        /\ t # None /\ t \notin lost =>
             /\ \/ d.ceiling.steps = None \/ d.action.step = None
                \/ Cardinality(taken[t] \cup {d.action.step}) <= d.ceiling.steps
                \/ d.action.step \in taken[t]
             /\ d.ceiling.cost # None => spent[t] < d.ceiling.cost

\* A permit is within every budget of the snapshot that was read for it.
LEMMA PermittedWithin ==
    ASSUME BudgetsInv, NEW c \in Callers, Permit(c)
    PROVE  Within(c)
<1> DEFINE d == deciding[c]
           t == d.action.trajectory
           step == d.action.step
           p == Pruned(d.ceiling, d.now)
<1>0. /\ RateInv /\ TrajectoriesInv /\ d # NotDeciding
      /\ ~OverRate(d.ceiling, d.now)
      /\ t # None => ~OverSteps(d.ceiling, d.action) /\ ~OverCost(d.ceiling, d.action)
    BY DEF BudgetsInv, Permit, OverBudget
<1>1. /\ d.action \in Proposed /\ d.ceiling \in Ceilings
      /\ Kept(p, permits, now - RateWindow)
    BY <1>0, DecisionIs
<1>2. /\ d.ceiling.calls \in Nat \cup {None} /\ d.ceiling.steps \in Nat \cup {None}
      /\ d.ceiling.cost \in Nat \cup {None}
    BY <1>1, BudgetsAssumption
<1>3. ASSUME d.ceiling.calls # None
      PROVE  Cardinality({i \in DOMAIN permits : permits[i] >= now - RateWindow})
               < d.ceiling.calls
  <2> DEFINE W == {i \in DOMAIN permits : permits[i] >= now - RateWindow}
  <2>1. now - RateWindow \in Int
      BY <1>0, BudgetsAssumption DEF RateInv
  <2>2. Cardinality(W) <= Len(p)
      BY <1>1, <2>1, WindowKept
  <2>3. ~(Len(p) >= d.ceiling.calls)
      BY <1>0, <1>3 DEF OverRate
  <2>4. Len(p) \in Nat
      BY <1>1, LenProperties DEF Kept
  <2>5. Cardinality(W) \in Nat
    <3>1. permits \in Seq(Nat)
        BY <1>1 DEF Kept
    <3>2. DOMAIN permits = 1..Len(permits) /\ Len(permits) \in Nat
        BY <3>1, LenProperties
    <3>3. IsFiniteSet(1..Len(permits))
        BY <3>2, FS_Interval
    <3>4. IsFiniteSet(W)
        BY <3>2, <3>3, FS_Subset
    <3> QED
        BY <3>4, FS_CardinalityType
  <2> HIDE DEF W
  <2>6. Cardinality(W) < d.ceiling.calls
      BY <1>2, <1>3, <2>2, <2>3, <2>4, <2>5
  <2> QED
      BY <2>6 DEF W
<1>4. ASSUME t # None, t \notin lost
      PROVE  /\ \/ d.ceiling.steps = None \/ d.action.step = None
                \/ Cardinality(taken[t] \cup {d.action.step}) <= d.ceiling.steps
                \/ d.action.step \in taken[t]
             /\ d.ceiling.cost # None => spent[t] < d.ceiling.cost
  <2>1. t \in Trajectories
      BY <1>1, <1>4, BudgetsAssumption
  <2>2. /\ steps.of[t] = taken[t] /\ costs.of[t] = spent[t]
        /\ IsFiniteSet(taken[t]) /\ spent[t] \in Nat
      BY <1>0, <1>4, <2>1 DEF TrajectoriesInv, TableOK
  <2>3. d.ceiling.cost # None => spent[t] < d.ceiling.cost
    <3>1. d.ceiling.cost # None => ~(spent[t] >= d.ceiling.cost)
        BY <1>0, <1>4, <2>2 DEF OverCost
    <3> QED
        BY <1>2, <2>2, <3>1
  <2>4. ASSUME d.ceiling.steps # None, step # None, step \notin taken[t]
        PROVE  Cardinality(taken[t] \cup {step}) <= d.ceiling.steps
    <3>1. ~(Cardinality(taken[t]) >= d.ceiling.steps)
        BY <1>0, <1>4, <2>2, <2>4 DEF OverSteps
    <3>2. Cardinality(taken[t] \cup {step}) = Cardinality(taken[t]) + 1
        BY <2>2, <2>4, FS_AddElement
    <3>3. Cardinality(taken[t]) \in Nat
        BY <2>2, FS_CardinalityType
    <3> QED
        BY <1>2, <2>4, <3>1, <3>2, <3>3
  <2> QED
      BY <2>3, <2>4
<1> QED
    BY <1>3, <1>4 DEF Within

\* mandate.py _check_budgets, _mark_trajectory_seen: for any number of threads
\* and trajectories, whatever clock a thread has read and whatever the gate
\* has forgotten, no call is permitted beyond its budgets.
THEOREM BudgetsAreKept == BudgetsSpec => BudgetsHold
<1> DEFINE A == \A c \in Callers : permits' # permits /\ deciding'[c] # deciding[c] => Within(c)
<1>1. BudgetsInv /\ [BudgetsNext]_budgetVars => [A]_budgetVars
  <2> SUFFICES ASSUME BudgetsInv, BudgetsNext, NEW c \in Callers, permits' # permits,
                      deciding'[c] # deciding[c]
               PROVE  Within(c)
      OBVIOUS
  <2>1. PICK b \in Callers : Permit(b)
      BY DEF BudgetsNext, Tick, ApplySnapshot, StartDecide, DenyOverBudget, RecordActualCost,
             history
  <2>2. deciding' = [deciding EXCEPT ![b] = NotDeciding]
      BY <2>1 DEF Permit
  <2>3. c = b
      BY <2>2 DEF BudgetsInv, RateInv
  <2> QED
      BY <2>1, <2>3, PermittedWithin
<1>2. []BudgetsInv /\ [][BudgetsNext]_budgetVars => [][A]_budgetVars
    BY <1>1, PTL
<1> QED
    BY <1>2, BudgetsInvariant DEF BudgetsSpec, BudgetsHold, Within
=============================================================================
