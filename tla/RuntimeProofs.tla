---------------------------- MODULE RuntimeProofs ----------------------------
(***************************************************************************)
(* Proofs about Runtime and Workers, for any number of processes, requests *)
(* and providers, any retry policy, cache size and prefetch, and any       *)
(* number of faults and deaths.                                            *)
(***************************************************************************)
EXTENDS Workers, FiniteSetTheorems, WellFoundedInduction, SequenceTheorems, TLAPS

-----------------------------------------------------------------------------
(* The inductive invariant *)

AskedBy(r, h) == [prompt |-> Req[r].prompt, hist |-> h,
                  query |-> Req[r].query, model |-> Req[r].model]
KeyOf(r, h) == <<Req[r].prompt, h, Req[r].query, Req[r].model>>
AnswerTo(r, h, text) == [asked |-> AskedBy(r, h), text |-> text]

\* What the caches may hold: answers with a text, under what they answer.
EntryOf(r, h) == [emb |-> Req[r].query, answer |-> AnswerTo(r, h, TRUE)]
Entry == UNION {{EntryOf(r, h) : h \in BOOLEAN} : r \in Requests}
ExactOK(e) ==
    \A k \in DOMAIN e : \E r \in Requests, h \in BOOLEAN :
        k = KeyOf(r, h) /\ e[k] = [answer |-> AnswerTo(r, h, TRUE)]
MirrorOK(m) == m = [slots |-> m.slots, next |-> m.next] /\ \A k \in DOMAIN m.slots : m.slots[k] \in Entry

Fields == {"pc", "proc", "hist", "key", "emb", "reply", "own", "order", "attempt", "calls",
           "spent", "yielded", "text", "sent", "answer", "cached", "outcome"}
IsContext(c) == c = [f \in Fields |-> c[f]]

\* The answer that a caller may be given.
AnswerOK(r, h, answer, cached) ==
    /\ cached \in {Nothing, "exact"} => answer.asked = AskedBy(r, h)
    /\ cached = "semantic" => Similarity(Req[r].query, answer.asked.query) >= Threshold
    /\ cached # Nothing => answer.text

Placed(c) ==
    /\ c.hist \in BOOLEAN
    /\ c.pc # "idle" => c.proc \in Procs
    /\ c.pc # "end" => c.outcome = Nothing /\ c.cached = Nothing

\* What the request carries from the lookups to the write-back.
Carries(r, c, n) ==
    /\ c.key \in {Nothing, KeyOf(r, c.hist)}
    /\ c.pc = "idle" => c.key = Nothing
    /\ c.emb \in {Nothing, Req[r].query}
    /\ c.pc = "sync" => c.emb = Req[r].query /\ c.reply \in SUBSET (1..n)
    /\ c.pc \in {"write", "append", "mirror"} => c.answer = AnswerTo(r, c.hist, c.answer.text)
    /\ c.pc \in {"append", "mirror"} => c.answer.text = TRUE
    /\ c.pc = "write" => c.answer.text \in BOOLEAN
    /\ c.pc = "mirror" => c.own \in 1..n

\* The router: whom it has not tried for good is still in the order, and what
\* a client has of the stream comes from the head of it.
Untried(c) ==
    /\ c.attempt = 0 /\ c.calls = 0 /\ c.spent = {} /\ c.sent = {} /\ c.yielded = FALSE
    /\ c.text = FALSE
Routing(r, c) ==
    /\ c.order \in Seq(Provider) /\ Len(c.order) > 0
    /\ Provider = c.spent \cup Range(c.order)
    /\ c.attempt = c.calls /\ c.calls \in 0..MaxRetries
    /\ c.sent \subseteq {Head(c.order)} /\ (c.yielded = FALSE => c.sent = {})
    /\ c.yielded \in BOOLEAN /\ c.text \in BOOLEAN /\ (~Req[r].stream => c.yielded = FALSE)
RouteOK(r, c) ==
    /\ c.pc \in {"idle", "exact", "semantic", "sync"} => Untried(c)
    /\ c.pc = "call" => Routing(r, c)
    /\ \E p \in Provider : c.sent \subseteq {p}
    /\ c.outcome = "unavailable" => c.spent = Provider

CtxOK(r, c, n) ==
    /\ IsContext(c) /\ Placed(c) /\ Carries(r, c, n) /\ RouteOK(r, c)
    /\ c.outcome = "ok" => AnswerOK(r, c.hist, c.answer, c.cached)

RuntimeInv ==
    /\ ctx = [r \in Requests |-> ctx[r]]
    /\ \A r \in Requests : CtxOK(r, ctx[r], Len(semStream))
    /\ ExactOK(exact)
    /\ semStream \in Seq(Entry)
    /\ mirror = [p \in Procs |-> mirror[p]] /\ \A p \in Procs : MirrorOK(mirror[p])
    /\ lastId = [p \in Procs |-> lastId[p]] /\ \A p \in Procs : lastId[p] \in Nat
    /\ rr = [p \in Procs |-> rr[p]] /\ \A p \in Procs : rr[p] \in Nat

\* What a job's entry is doing while nobody died.
Held(j, p, b, f, u) == j \in Range(b[p]) \cup f[p] \/ j \in u
QueueInv ==
    /\ queue \in Seq(Jobs) /\ cursor \in Nat /\ crashes \in Nat
    /\ buffer = [p \in Procs |-> buffer[p]] /\ \A p \in Procs : buffer[p] \in Seq(Jobs)
    /\ inFlight = [p \in Procs |-> inFlight[p]]
    /\ \A j \in DOMAIN pending : pending[j] \in Procs
    /\ acked \subseteq results
    /\ crashes = 0 => \A j \in DOMAIN pending : Held(j, pending[j], buffer, inFlight, undelivered)

-----------------------------------------------------------------------------
(* Contexts that begin or end *)

\* There is a provider.
LEMMA SomeProvider == Head(Providers) \in Provider /\ Len(Providers) \in Nat \ {0}
<1>1. Providers \in Seq(Range(Providers)) /\ Len(Providers) > 0
    BY RuntimeAssumption
<1>2. Len(Providers) \in Nat /\ DOMAIN Providers = 1..Len(Providers) /\ Providers # <<>>
    BY <1>1, LenProperties, EmptySeq
<1> QED
    BY <1>1, <1>2, HeadTailProperties DEF Provider

\* The fields of a context.
LEMMA InFields ==
    /\ "pc" \in Fields /\ "proc" \in Fields /\ "hist" \in Fields /\ "key" \in Fields
    /\ "emb" \in Fields /\ "reply" \in Fields /\ "own" \in Fields /\ "order" \in Fields
    /\ "attempt" \in Fields /\ "calls" \in Fields /\ "spent" \in Fields
    /\ "yielded" \in Fields /\ "text" \in Fields /\ "sent" \in Fields
    /\ "answer" \in Fields /\ "cached" \in Fields /\ "outcome" \in Fields
BY DEF Fields

\* A new RequestContext has its fields.
LEMMA FreshIs == IsContext(FreshContext)
BY DEF IsContext, FreshContext, Fields

\* A request that has not been seen yet.
LEMMA FreshOK ==
    ASSUME NEW r, NEW n PROVE CtxOK(r, FreshContext, n)
<1> DEFINE c == FreshContext
<1>1. /\ c.pc = "idle" /\ c.hist = FALSE /\ c.key = Nothing /\ c.emb = Nothing
      /\ c.attempt = 0 /\ c.calls = 0 /\ c.spent = {} /\ c.yielded = FALSE /\ c.text = FALSE
      /\ c.sent = {} /\ c.cached = Nothing /\ c.outcome = Nothing
    BY DEF FreshContext
<1>2. IsContext(c)
    BY FreshIs
<1> HIDE DEF c
<1>3. Nothing # "ok" /\ Nothing # "unavailable"
    BY RuntimeAssumption
<1>4. Placed(c)
    BY <1>1 DEF Placed
<1>5. Carries(r, c, n)
    BY <1>1 DEF Carries
<1>6. RouteOK(r, c)
    BY <1>1, <1>3, SomeProvider DEF RouteOK, Untried
<1> QED
    BY <1>1, <1>2, <1>3, <1>4, <1>5, <1>6 DEF CtxOK, c

\* Whoever is answered has what it may be given, and nothing is left over.
LEMMA CompletedOK ==
    ASSUME NEW r, NEW n, NEW c, c.proc \in Procs, c.hist \in BOOLEAN,
           AnswerOK(r, c.hist, c.answer, c.cached)
    PROVE  CtxOK(r, Completed(c), n)
<1> DEFINE d == Completed(c)
<1>1. /\ d.pc = "end" /\ d.proc = c.proc /\ d.hist = c.hist /\ d.key = Nothing /\ d.emb = Nothing
      /\ d.spent = {} /\ d.sent = {} /\ d.answer = c.answer /\ d.cached = c.cached
      /\ d.outcome = "ok"
    BY DEF FreshContext, Completed
<1>2. IsContext(d)
    BY FreshIs DEF IsContext, Completed
<1> HIDE DEF d
<1>4. Placed(d)
    BY <1>1 DEF Placed
<1>5. Carries(r, d, n)
    BY <1>1 DEF Carries
<1>6. RouteOK(r, d)
    BY <1>1, SomeProvider DEF RouteOK
<1> QED
    BY <1>1, <1>2, <1>4, <1>5, <1>6 DEF CtxOK, d

\* Nor is anything of one that ends otherwise.
LEMMA EndedOK ==
    ASSUME NEW r, NEW n, NEW c, c.proc \in Procs, NEW how, how \in {"gone", "failed"}
    PROVE  CtxOK(r, Ended(c, how), n)
<1> DEFINE d == Ended(c, how)
<1>1. /\ d.pc = "end" /\ d.proc = c.proc /\ d.hist = FALSE /\ d.key = Nothing /\ d.emb = Nothing
      /\ d.spent = {} /\ d.sent = {} /\ d.outcome = how
    BY DEF FreshContext, Ended
<1>2. IsContext(d)
    BY FreshIs DEF IsContext, Ended
<1> HIDE DEF d
<1>3. how # "ok" /\ how # "unavailable"
    OBVIOUS
<1>4. Placed(d)
    BY <1>1 DEF Placed
<1>5. Carries(r, d, n)
    BY <1>1 DEF Carries
<1>6. RouteOK(r, d)
    BY <1>1, <1>3, SomeProvider DEF RouteOK
<1> QED
    BY <1>1, <1>2, <1>3, <1>4, <1>5, <1>6 DEF CtxOK, d

\* AllProvidersFailedError: every provider was tried for good.
LEMMA UnavailableOK ==
    ASSUME NEW r, NEW n, NEW c, c.proc \in Procs, c.spent = Provider
    PROVE  CtxOK(r, [Ended(c, "unavailable") EXCEPT !.spent = c.spent], n)
<1> DEFINE d == [Ended(c, "unavailable") EXCEPT !.spent = c.spent]
<1>1. /\ d.pc = "end" /\ d.proc = c.proc /\ d.hist = FALSE /\ d.key = Nothing /\ d.emb = Nothing
      /\ d.spent = c.spent /\ d.sent = {} /\ d.outcome = "unavailable"
    BY DEF FreshContext, Ended
<1>2. IsContext(d)
    BY FreshIs DEF IsContext, Ended
<1> HIDE DEF d
<1>4. Placed(d)
    BY <1>1 DEF Placed
<1>5. Carries(r, d, n)
    BY <1>1 DEF Carries
<1>6. RouteOK(r, d)
    BY <1>1, SomeProvider DEF RouteOK
<1> QED
    BY <1>1, <1>2, <1>4, <1>5, <1>6 DEF CtxOK, d

\* More entries in the stream do no harm.
LEMMA LongerStream ==
    ASSUME NEW r, NEW c, NEW n \in Nat, NEW n2 \in Nat, n <= n2, CtxOK(r, c, n)
    PROVE  CtxOK(r, c, n2)
<1>1. Carries(r, c, n2)
  <2>1. \A i \in 1..n : i \in 1..n2
      OBVIOUS
  <2> QED
      BY <2>1 DEF CtxOK, Carries
<1> QED
    BY <1>1 DEF CtxOK

-----------------------------------------------------------------------------
(* One request at a time *)

\* A step of one request that leaves the caches alone.
LEMMA StepOf ==
    ASSUME RuntimeInv, NEW r, NEW c, Set(r, c), r \in Requests => CtxOK(r, c, Len(semStream)),
           UNCHANGED <<exact, semStream, mirror, lastId>>,
           rr' = [p \in Procs |-> rr'[p]], \A p \in Procs : rr'[p] \in Nat
    PROVE  RuntimeInv'
<1>1. /\ ctx' = [q \in Requests |-> ctx'[q]]
      /\ \A q \in Requests : CtxOK(q, ctx'[q], Len(semStream))
    BY DEF RuntimeInv, Set
<1> QED
    BY <1>1 DEF RuntimeInv

\* A step of one request that leaves the router's cursor alone too.
LEMMA StepAlone ==
    ASSUME RuntimeInv, NEW r, NEW c, Set(r, c), r \in Requests => CtxOK(r, c, Len(semStream)),
           UNCHANGED <<exact, semStream, mirror, lastId, rr>>
    PROVE  RuntimeInv'
<1>1. rr' = [p \in Procs |-> rr'[p]] /\ \A p \in Procs : rr'[p] \in Nat
    BY DEF RuntimeInv
<1> QED
    BY <1>1, StepOf

\* ContextResolver: the history is read, or left out.
LEMMA EnterInv ==
    ASSUME RuntimeInv, NEW p \in Procs, NEW r, Enter(p, r) PROVE RuntimeInv'
<1>1. PICK h \in BOOLEAN : Set(r, [ctx[r] EXCEPT !.proc = p, !.hist = h,
                                      !.pc = IF Req[r].stream THEN "semantic" ELSE "exact"])
    BY DEF Enter
<1> DEFINE c == ctx[r]
           d == [c EXCEPT !.proc = p, !.hist = h, !.pc = IF Req[r].stream THEN "semantic" ELSE "exact"]
           n == Len(semStream)
<1>2. ASSUME r \in Requests PROVE CtxOK(r, d, n)
  <2>1. CtxOK(r, c, n) /\ c.pc = "idle"
      BY <1>2 DEF RuntimeInv, Enter
  <2>2. IsContext(c)
      BY <2>1 DEF CtxOK
  <2>3. d.pc \in {"semantic", "exact"} /\ d.proc = p /\ d.hist = h
      BY <2>2, InFields DEF IsContext
  <2>4. /\ d.key = c.key /\ d.emb = c.emb /\ d.attempt = c.attempt /\ d.calls = c.calls
        /\ d.spent = c.spent /\ d.yielded = c.yielded /\ d.text = c.text /\ d.sent = c.sent
        /\ d.cached = c.cached /\ d.outcome = c.outcome
      BY <2>2, InFields DEF IsContext
  <2>5. IsContext(d)
      BY <2>2, InFields DEF IsContext
  <2> HIDE DEF d, c
  <2>6. Placed(d)
      BY <2>1, <2>3, <2>4 DEF CtxOK, Placed
  <2>7. Carries(r, d, n)
      BY <2>1, <2>3, <2>4 DEF CtxOK, Carries
  <2>8. RouteOK(r, d)
      BY <2>1, <2>3, <2>4 DEF CtxOK, RouteOK, Untried
  <2>9. d.outcome # "ok"
      BY <2>1, <2>4, RuntimeAssumption DEF CtxOK, Placed
  <2> QED
      BY <2>5, <2>6, <2>7, <2>8, <2>9 DEF CtxOK
<1>3. UNCHANGED <<exact, semStream, mirror, lastId, rr>>
    BY DEF Enter
<1> HIDE DEF d
<1>4. Set(r, d)
    BY <1>1 DEF d
<1> QED
    BY <1>2, <1>3, <1>4, StepAlone

\* The key is the fingerprint of what is asked.
LEMMA KeysTellApart ==
    ASSUME NEW r, NEW h, NEW r2, NEW h2, KeyOf(r, h) = KeyOf(r2, h2)
    PROVE  AskedBy(r, h) = AskedBy(r2, h2)
BY DEF KeyOf, AskedBy

\* CacheLookup.execute: what is found under a key answers what the key is of.
LEMMA LookupExactInv ==
    ASSUME RuntimeInv, NEW r \in Requests, LookupExact(r) PROVE RuntimeInv'
<1> DEFINE c == ctx[r]
           k == KeyOf(r, c.hist)
           e == [c EXCEPT !.key = k]
           d == [e EXCEPT !.pc = "semantic"]
           f == [e EXCEPT !.answer = exact[e.key].answer, !.cached = "exact"]
           n == Len(semStream)
<1>0. Fingerprint(r) = k
    BY DEF Fingerprint, KeyOf
<1>1. /\ c.pc = "exact" /\ UNCHANGED <<exact, semStream, mirror, lastId, rr>>
      /\ \/ e.key \in DOMAIN exact /\ Set(r, Completed(f))
         \/ Set(r, d)
    BY <1>0 DEF LookupExact, ExactHit
<1>2. CtxOK(r, c, n) /\ ExactOK(exact)
    BY DEF RuntimeInv
<1>3. IsContext(c) /\ c.hist \in BOOLEAN /\ c.proc \in Procs
    BY <1>1, <1>2 DEF CtxOK, Placed
<1>4. e.key = k /\ e.hist = c.hist /\ e.proc = c.proc /\ IsContext(e)
    BY <1>3, InFields DEF IsContext
<1>5. CASE e.key \in DOMAIN exact /\ Set(r, Completed(f))
  <2>1. /\ f.answer = exact[k].answer /\ f.cached = "exact" /\ f.hist = c.hist
        /\ f.proc = c.proc
      BY <1>4, InFields DEF IsContext
  <2>2. PICK r2 \in Requests, h2 \in BOOLEAN :
           k = KeyOf(r2, h2) /\ exact[k] = [answer |-> AnswerTo(r2, h2, TRUE)]
      BY <1>2, <1>4, <1>5 DEF ExactOK
  <2>3. f.answer = AnswerTo(r2, h2, TRUE)
    <3> HIDE DEF f, k
    <3> QED
        BY <2>1, <2>2
  <2>4. AskedBy(r, c.hist) = AskedBy(r2, h2)
      BY <2>2, KeysTellApart
  <2>5. AnswerTo(r2, h2, TRUE).asked = AskedBy(r2, h2) /\ AnswerTo(r2, h2, TRUE).text = TRUE
      BY DEF AnswerTo
  <2> HIDE DEF f, e, k, c
  <2>6. AnswerOK(r, f.hist, f.answer, f.cached)
    <3>1. "exact" # "semantic"
        OBVIOUS
    <3> QED
        BY <2>1, <2>3, <2>4, <2>5, <3>1 DEF AnswerOK
  <2>7. CtxOK(r, Completed(f), n)
      BY <1>3, <2>1, <2>6, CompletedOK
  <2> QED
      BY <1>1, <1>5, <2>7, StepAlone
<1>6. CASE Set(r, d)
  <2>3. /\ d.pc = "semantic" /\ d.proc = c.proc /\ d.hist = c.hist /\ d.key = k
        /\ d.emb = c.emb /\ d.attempt = c.attempt /\ d.calls = c.calls
      BY <1>3, InFields DEF IsContext
  <2>4. /\ d.spent = c.spent /\ d.yielded = c.yielded /\ d.text = c.text /\ d.sent = c.sent
        /\ d.cached = c.cached /\ d.outcome = c.outcome
      BY <1>3, InFields DEF IsContext
  <2>5. IsContext(d)
      BY <1>3, InFields DEF IsContext
  <2> HIDE DEF d, c, e
  <2>6. Placed(d)
      BY <1>1, <1>2, <2>3, <2>4 DEF CtxOK, Placed
  <2>7. Carries(r, d, n)
      BY <1>1, <1>2, <2>3, <2>4 DEF CtxOK, Carries
  <2>8. RouteOK(r, d)
      BY <1>1, <1>2, <2>3, <2>4 DEF CtxOK, RouteOK, Untried
  <2>9. d.outcome # "ok"
      BY <1>1, <1>2, <2>4, RuntimeAssumption DEF CtxOK, Placed
  <2>10. CtxOK(r, d, n)
      BY <2>5, <2>6, <2>7, <2>8, <2>9 DEF CtxOK
  <2> QED
      BY <1>1, <1>6, <2>10, StepAlone
<1> QED
    BY <1>1, <1>5, <1>6

-----------------------------------------------------------------------------
(* The semantic cache *)

\* A non-empty set of numbers has a least.
LEMMA LeastNat ==
    ASSUME NEW S, S \subseteq Nat, S # {}
    PROVE  \E m \in S : \A n \in S : m <= n
<1> DEFINE R == OpToRel(<, Nat)
<1>1. \A x, y \in Nat : y < x => <<y, x>> \in R
    BY DEF OpToRel
<1>2. IsWellFoundedOn(R, Nat)
    BY NatLessThanWellFounded
<1> HIDE DEF R
<1>3. PICK x \in S : \A y \in S : ~ (<<y, x>> \in R)
    BY <1>2, WFMin
<1>4. \A y \in S : ~ (y < x)
    BY <1>1, <1>3
<1> QED
    BY <1>4

\* Among finitely many numbered things one has the greatest value.
LEMMA GreatestValue ==
    ASSUME NEW N \in Nat, NEW L \in SUBSET (1..N), L # {}, NEW f, \A i \in L : f[i] \in Int
    PROVE  \E i \in L : \A j \in L : f[i] >= f[j]
<1> DEFINE Has(M) == \E i \in M : \A j \in M : f[i] >= f[j]
           P(n) == \A M \in SUBSET (1..n) : M # {} /\ M \subseteq L => Has(M)
           S == {n \in Nat : ~P(n)}
<1>1. P(0)
  <2>1. 1..0 = {}
      OBVIOUS
  <2> QED
      BY <2>1
<1>2. ASSUME NEW n \in Nat, P(n) PROVE P(n + 1)
  <2> SUFFICES ASSUME NEW M \in SUBSET (1..(n + 1)), M # {}, M \subseteq L PROVE Has(M)
      OBVIOUS
  <2>1. M \ {n + 1} \in SUBSET (1..n)
      OBVIOUS
  <2>2. CASE n + 1 \notin M
    <3>1. M \in SUBSET (1..n)
        BY <2>1, <2>2
    <3> HIDE DEF Has
    <3> QED
        BY <1>2, <3>1
  <2>3. CASE n + 1 \in M /\ M \ {n + 1} = {}
    <3>1. M = {n + 1} /\ f[n + 1] \in Int
        BY <2>3
    <3> QED
        BY <3>1
  <2>4. CASE n + 1 \in M /\ M \ {n + 1} # {}
    <3>1. Has(M \ {n + 1})
      <4> HIDE DEF Has
      <4>1. M \ {n + 1} \subseteq L
          OBVIOUS
      <4> QED
          BY <1>2, <2>1, <2>4, <4>1
    <3>2. PICK i \in M \ {n + 1} : \A j \in M \ {n + 1} : f[i] >= f[j]
        BY <3>1
    <3>3. f[i] \in Int /\ f[n + 1] \in Int /\ \A j \in M : f[j] \in Int
        BY <2>4
    <3>4. CASE f[i] >= f[n + 1]
      <4>1. \A j \in M : f[i] >= f[j]
          BY <3>2, <3>4
      <4> QED
          BY <4>1
    <3>5. CASE ~(f[i] >= f[n + 1])
      <4>1. \A j \in M : f[n + 1] >= f[j]
          BY <3>2, <3>3, <3>5
      <4> QED
          BY <2>4, <4>1
    <3> QED
        BY <3>4, <3>5
  <2> QED
      BY <2>2, <2>3, <2>4
<1> HIDE DEF P
<1>3. S = {}
  <2> SUFFICES ASSUME S # {} PROVE FALSE
      OBVIOUS
  <2>1. PICK m \in S : \A n \in S : m <= n
    <3>1. S \subseteq Nat
        OBVIOUS
    <3> HIDE DEF S
    <3> QED
        BY <3>1, LeastNat
  <2>2. m \in Nat /\ ~P(m)
      BY <2>1
  <2>3. m # 0
      BY <1>1, <2>2
  <2>4. m - 1 \in Nat /\ m - 1 < m
      BY <2>2, <2>3
  <2>5. P(m - 1)
    <3>1. m - 1 \notin S
      <4> HIDE DEF S
      <4> QED
          BY <2>1, <2>2, <2>4
    <3> QED
        BY <2>4, <3>1
  <2>6. P((m - 1) + 1) /\ (m - 1) + 1 = m
      BY <1>2, <2>2, <2>4, <2>5
  <2> QED
      BY <2>2, <2>6
<1>4. P(N)
    BY <1>3
<1> QED
    BY <1>4 DEF P

\* What an entry is.
LEMMA EntryIs ==
    ASSUME NEW e \in Entry
    PROVE  /\ \E r \in Requests : e.emb = Req[r].query
           /\ e.answer.asked.query = e.emb /\ e.answer.text = TRUE
<1>1. PICK r \in Requests, h \in BOOLEAN :
         e = EntryOf(r, h)
    BY DEF Entry
<1>2. e.emb = Req[r].query /\ e.answer = AnswerTo(r, h, TRUE)
    BY <1>1 DEF EntryOf
<1>3. AnswerTo(r, h, TRUE).asked.query = Req[r].query /\ AnswerTo(r, h, TRUE).text = TRUE
    BY DEF AnswerTo, AskedBy
<1> QED
    BY <1>2, <1>3

\* _find_best: a hit is similar enough, and has a text.
LEMMA FindBestIs ==
    ASSUME NEW r \in Requests, NEW m, MirrorOK(m), NEW live \in SUBSET (1..Capacity),
           live \subseteq DOMAIN m.slots,
           NEW hit, hit = FindBest(m, Req[r].query, live), hit # Nothing
    PROVE  AnswerOK(r, FALSE, hit, "semantic")
<1> DEFINE q == Req[r].query
           val == [i \in live |-> Similarity(q, m.slots[i].emb)]
           best(i) == /\ \A j \in live : Similarity(q, m.slots[i].emb) >= Similarity(q, m.slots[j].emb)
                      /\ \A j \in live : Similarity(q, m.slots[j].emb) = Similarity(q, m.slots[i].emb)
                                             => i <= j
           b == CHOOSE i \in live : best(i)
<1>1. /\ \E i \in live : Similarity(q, m.slots[i].emb) >= Threshold
      /\ hit = m.slots[b].answer
    BY DEF FindBest
<1>2. \A i \in live : m.slots[i] \in Entry
    BY DEF MirrorOK
<1>3. \A i \in live : Similarity(q, m.slots[i].emb) \in Int
  <2> SUFFICES ASSUME NEW i \in live PROVE Similarity(q, m.slots[i].emb) \in Int
      OBVIOUS
  <2>1. PICK s \in Requests : m.slots[i].emb = Req[s].query
      BY <1>2, EntryIs
  <2>2. Similarity(Req[r].query, Req[s].query) \in Int
      BY RuntimeAssumption
  <2> QED
      BY <2>1, <2>2
<1>4. \E i \in live : best(i)
  <2>1. live # {} /\ \A i \in live : val[i] \in Int
      BY <1>1, <1>3
  <2>2. PICK i \in live : \A j \in live : val[i] >= val[j]
    <3> HIDE DEF val
    <3> QED
        BY <2>1, GreatestValue, RuntimeAssumption
  <2> DEFINE T == {j \in live : val[j] = val[i]}
  <2>3. T \subseteq Nat /\ T # {}
    <3>1. Capacity \in Nat
        BY RuntimeAssumption
    <3>2. 1..Capacity \subseteq Nat
        BY <3>1
    <3> HIDE DEF val
    <3> QED
        BY <2>2, <3>2
  <2>4. PICK k \in T : \A j \in T : k <= j
    <3> HIDE DEF T
    <3> QED
        BY <2>3, LeastNat
  <2>5. k \in live /\ val[k] = val[i] /\ \A j \in live : val[k] >= val[j]
      BY <2>2, <2>4
  <2>6. \A j \in live : val[j] = val[k] => k <= j
      BY <2>4, <2>5
  <2> QED
      BY <2>5, <2>6
<1>5. b \in live /\ best(b)
    BY <1>4
<1> HIDE DEF b
<1>6. m.slots[b] \in Entry /\ Similarity(q, m.slots[b].emb) >= Threshold
  <2>1. PICK i \in live : Similarity(q, m.slots[i].emb) >= Threshold
      BY <1>1
  <2>2. Similarity(q, m.slots[b].emb) >= Similarity(q, m.slots[i].emb)
      BY <1>5
  <2>3. Similarity(q, m.slots[b].emb) \in Int /\ Similarity(q, m.slots[i].emb) \in Int /\ Threshold \in Int
      BY <1>3, <1>5, RuntimeAssumption
  <2> QED
      BY <1>2, <1>5, <2>1, <2>2, <2>3
<1>7. hit.asked.query = m.slots[b].emb /\ hit.text = TRUE
    BY <1>1, <1>6, EntryIs
<1>8. "semantic" \notin {Nothing, "exact"}
    BY RuntimeAssumption
<1> QED
    BY <1>6, <1>7, <1>8 DEF AnswerOK

\* _sync: what is replayed are entries of the stream.
LEMMA ReplayOK ==
    ASSUME RuntimeInv, NEW m, MirrorOK(m), NEW reply \in SUBSET (1..Len(semStream))
    PROVE  MirrorOK(Replay(m, reply))
<1> DEFINE slot(i) == ((m.next - 1 + Cardinality({j \in reply : j < i})) % Capacity) + 1
           taken == {slot(i) : i \in reply}
           x == Replay(m, reply)
<1>1. /\ x = [slots |-> x.slots, next |-> x.next]
      /\ x.slots = [k \in taken \cup DOMAIN m.slots |->
                      IF k \in taken THEN semStream[CHOOSE i \in reply : slot(i) = k]
                      ELSE m.slots[k]]
    BY DEF Replay
<1> HIDE DEF x, slot
<1>2. ASSUME NEW k \in DOMAIN x.slots PROVE x.slots[k] \in Entry
  <2>1. CASE k \in taken
    <3>1. PICK i \in reply : slot(i) = k
        BY <2>1
    <3>2. (CHOOSE j \in reply : slot(j) = k) \in reply
        BY <3>1
    <3>3. x.slots[k] = semStream[CHOOSE j \in reply : slot(j) = k]
        BY <1>1, <2>1
    <3>4. semStream \in Seq(Entry)
        BY DEF RuntimeInv
    <3> QED
        BY <3>2, <3>3, <3>4, ElementOfSeq
  <2>2. CASE k \notin taken
    <3>1. k \in DOMAIN m.slots /\ x.slots[k] = m.slots[k]
        BY <1>1, <1>2, <2>2
    <3> QED
        BY <3>1 DEF MirrorOK
  <2> QED
      BY <2>1, <2>2
<1> QED
    BY <1>1, <1>2 DEF MirrorOK, x

-----------------------------------------------------------------------------
(* The router *)

\* The ring from any start has every provider in it.
LEMMA RingIsWhole ==
    ASSUME NEW start \in 0..(Len(Providers) - 1), NEW o,
           o = SubSeq(Providers, start + 1, Len(Providers)) \o SubSeq(Providers, 1, start)
    PROVE  o \in Seq(Provider) /\ Len(o) > 0 /\ Range(o) = Provider
<1> DEFINE n == Len(Providers)
           a == SubSeq(Providers, start + 1, n)
           z == SubSeq(Providers, 1, start)
<1>1. /\ n \in Nat \ {0} /\ DOMAIN Providers = 1..n
      /\ \A i \in 1..n : Providers[i] \in Provider
    BY SomeProvider, RuntimeAssumption, LenProperties, ElementOfSeq DEF Provider
<1>2. start \in Nat /\ start < n
    BY <1>1
<1>3. /\ a \in Seq(Provider) /\ Len(a) = n - start
      /\ \A i \in 1..(n - start) : a[i] = Providers[start + i]
  <2>1. start + 1 \in Int /\ n \in Int /\ \A i \in (start + 1)..n : Providers[i] \in Provider
      BY <1>1, <1>2
  <2>2. /\ SubSeq(Providers, start + 1, n) \in Seq(Provider)
        /\ Len(SubSeq(Providers, start + 1, n)) = IF start + 1 <= n THEN n - (start + 1) + 1 ELSE 0
        /\ \A i \in 1..(n - (start + 1) + 1) :
              SubSeq(Providers, start + 1, n)[i] = Providers[(start + 1) + i - 1]
      BY <2>1, SubSeqProperties
  <2> HIDE DEF n
  <2>3. n - (start + 1) + 1 = n - start /\ start + 1 <= n
      BY <1>1, <1>2
  <2>4. \A i \in 1..(n - start) : (start + 1) + i - 1 = start + i
      BY <1>1, <1>2
  <2> QED
      BY <2>2, <2>3, <2>4
<1>4. /\ z \in Seq(Provider) /\ Len(z) = start
      /\ \A i \in 1..start : z[i] = Providers[i]
  <2>1. 1 \in Int /\ start \in Int /\ \A i \in 1..start : Providers[i] \in Provider
      BY <1>1, <1>2
  <2>2. /\ SubSeq(Providers, 1, start) \in Seq(Provider)
        /\ Len(SubSeq(Providers, 1, start)) = IF 1 <= start THEN start - 1 + 1 ELSE 0
        /\ \A i \in 1..(start - 1 + 1) : SubSeq(Providers, 1, start)[i] = Providers[1 + i - 1]
      BY <2>1, SubSeqProperties
  <2>3. start - 1 + 1 = start /\ (~(1 <= start) => start = 0)
      BY <1>2
  <2>4. \A i \in 1..start : 1 + i - 1 = i
      BY <1>2
  <2> QED
      BY <2>2, <2>3, <2>4
<1> HIDE DEF a, z
<1>5. /\ o \in Seq(Provider) /\ Len(o) = Len(a) + Len(z)
      /\ \A i \in 1..(Len(a) + Len(z)) : o[i] = IF i <= Len(a) THEN a[i] ELSE z[i - Len(a)]
  <2>1. o = a \o z
      BY DEF a, z
  <2>2. /\ a \o z \in Seq(Provider) /\ Len(a \o z) = Len(a) + Len(z)
        /\ \A i \in 1..(Len(a) + Len(z)) :
              (a \o z)[i] = IF i <= Len(a) THEN a[i] ELSE z[i - Len(a)]
    <3>1. a \in Seq(Provider) /\ z \in Seq(Provider)
        BY <1>3, <1>4
    <3> QED
        BY <3>1, ConcatProperties
  <2> QED
      BY <2>1, <2>2
<1>6. Len(o) = n /\ Len(a) + Len(z) = n /\ DOMAIN o = 1..n
  <2>1. Len(o) = (n - start) + start
      BY <1>3, <1>4, <1>5
  <2> HIDE DEF n
  <2>2. (n - start) + start = n
      BY <1>1, <1>2
  <2> QED
      BY <1>3, <1>4, <1>5, <2>1, <2>2, LenProperties
<1> HIDE DEF n
<1>7. ASSUME NEW i \in 1..n PROVE \E j \in 1..n : o[j] = Providers[i]
  <2>1. CASE i <= start
    <3>1. i \in 1..start /\ (n - start) + i \in 1..n /\ ~((n - start) + i <= n - start)
          /\ ((n - start) + i) - (n - start) = i
        BY <1>1, <1>2, <2>1
    <3>2. o[(n - start) + i] = z[i]
        BY <1>3, <1>5, <1>6, <3>1
    <3> QED
        BY <1>4, <3>1, <3>2
  <2>2. CASE ~(i <= start)
    <3>1. i - start \in 1..(n - start) /\ i - start \in 1..n /\ i - start <= n - start
          /\ start + (i - start) = i
        BY <1>1, <1>2, <2>2
    <3> QED
        BY <1>3, <1>5, <1>6, <3>1
  <2> QED
      BY <2>1, <2>2
<1>8. \A j \in 1..n : o[j] \in Provider
    BY <1>5, <1>6, ElementOfSeq
<1>9. \A x \in Provider : \E i \in 1..n : x = Providers[i]
    BY <1>1 DEF Provider, Range
<1>10. Range(o) = Provider
  <2>1. \A x \in Range(o) : x \in Provider
      BY <1>6, <1>8 DEF Range
  <2>2. ASSUME NEW x \in Provider PROVE x \in Range(o)
    <3>1. PICK i \in 1..n : x = Providers[i]
        BY <1>9
    <3>2. PICK j \in 1..n : o[j] = Providers[i]
        BY <1>7
    <3> QED
        BY <1>6, <3>1, <3>2 DEF Range
  <2> QED
      BY <2>1, <2>2
<1> QED
    BY <1>1, <1>5, <1>6, <1>10

\* A miss goes on to the providers, none of them tried.
LEMMA RoutedOK ==
    ASSUME RuntimeInv, NEW r \in Requests, NEW n, NEW c, CtxOK(r, c, n), c.pc \in {"semantic", "sync"}
    PROVE  CtxOK(r, Routed(c), n)
<1> DEFINE start == rr[c.proc] % Len(Providers)
           o == SubSeq(Providers, start + 1, Len(Providers)) \o SubSeq(Providers, 1, start)
           d == [c EXCEPT !.pc = "call", !.order = o]
<1>0. Routed(c) = d
    BY DEF Routed
<1>1. o \in Seq(Provider) /\ Len(o) > 0 /\ Range(o) = Provider
  <2>1. rr[c.proc] \in Nat
      BY DEF RuntimeInv, CtxOK, Placed
  <2>2. start \in 0..(Len(Providers) - 1)
    <3>1. Len(Providers) \in Nat \ {0}
        BY SomeProvider
    <3> QED
        BY <2>1, <3>1
  <2> HIDE DEF start
  <2> QED
      BY <2>2, RingIsWhole
<1> HIDE DEF o
<1>2. IsContext(c) /\ Untried(c)
    BY DEF CtxOK, RouteOK
<1>3. /\ d.pc = "call" /\ d.order = o /\ d.proc = c.proc /\ d.hist = c.hist /\ d.key = c.key
      /\ d.emb = c.emb /\ d.attempt = c.attempt /\ d.calls = c.calls
    BY <1>2, InFields DEF IsContext
<1>4. /\ d.spent = c.spent /\ d.yielded = c.yielded /\ d.text = c.text /\ d.sent = c.sent
      /\ d.cached = c.cached /\ d.outcome = c.outcome
    BY <1>2, InFields DEF IsContext
<1>5. IsContext(d)
    BY <1>2, InFields DEF IsContext
<1> HIDE DEF d
<1>6. Placed(d)
    BY <1>3, <1>4 DEF CtxOK, Placed
<1>7. Carries(r, d, n)
    BY <1>3, <1>4 DEF CtxOK, Carries
<1>8. Routing(r, d)
  <2>1. 0 \in 0..MaxRetries
      BY RuntimeAssumption
  <2>2. /\ d.order = o /\ d.attempt = 0 /\ d.calls = 0 /\ d.spent = {} /\ d.sent = {}
        /\ d.yielded = FALSE /\ d.text = FALSE
      BY <1>2, <1>3, <1>4 DEF Untried
  <2>3. Provider = d.spent \cup Range(d.order)
      BY <1>1, <2>2
  <2> QED
      BY <1>1, <2>1, <2>2, <2>3 DEF Routing
<1>9. RouteOK(r, d)
  <2>1. d.sent = {} /\ d.outcome # "unavailable"
      BY <1>2, <1>4, RuntimeAssumption DEF Untried, CtxOK, Placed
  <2> QED
      BY <1>3, <1>8, <2>1, SomeProvider DEF RouteOK
<1>10. d.outcome # "ok"
    BY <1>4, RuntimeAssumption DEF CtxOK, Placed
<1> QED
    BY <1>0, <1>5, <1>6, <1>7, <1>9, <1>10 DEF CtxOK

\* The cursor stays a number.
LEMMA AdvanceOK ==
    ASSUME RuntimeInv, NEW p \in Procs, Advance(p)
    PROVE  rr' = [q \in Procs |-> rr'[q]] /\ \A q \in Procs : rr'[q] \in Nat
<1>1. Len(Providers) \in Nat \ {0} /\ rr[p] \in Nat
    BY SomeProvider DEF RuntimeInv
<1>2. (rr[p] + 1) % Len(Providers) \in Nat
    BY <1>1
<1> QED
    BY <1>2 DEF RuntimeInv, Advance

\* SemanticCacheLookup.execute, up to the reply: the ids are of entries there are.
LEMMA LookupSemanticInv ==
    ASSUME RuntimeInv, NEW r \in Requests, LookupSemantic(r) PROVE RuntimeInv'
<1> DEFINE c == ctx[r]
           n == Len(semStream)
           reply == RangeAfter(lastId[c.proc])
           d == [c EXCEPT !.pc = "sync", !.emb = Req[r].query, !.reply = reply]
<1>1. /\ c.pc = "semantic" /\ UNCHANGED <<exact, semStream, mirror, lastId>>
      /\ \/ Set(r, d) /\ UNCHANGED rr
         \/ Set(r, Routed(c)) /\ Advance(c.proc)
    BY DEF LookupSemantic
<1>2. CtxOK(r, c, n) /\ IsContext(c) /\ c.proc \in Procs
    BY <1>1 DEF RuntimeInv, CtxOK, Placed
<1>3. CASE Set(r, d) /\ UNCHANGED rr
  <2>1. reply \in SUBSET (1..n)
    <3>1. lastId[c.proc] \in Nat /\ n \in Nat
        BY <1>2, LenProperties DEF RuntimeInv
    <3> QED
        BY <3>1 DEF RangeAfter
  <2> HIDE DEF reply
  <2>2. /\ d.pc = "sync" /\ d.emb = Req[r].query /\ d.reply = reply /\ d.proc = c.proc
        /\ d.hist = c.hist /\ d.key = c.key /\ d.attempt = c.attempt /\ d.calls = c.calls
      BY <1>2, InFields DEF IsContext
  <2>3. /\ d.spent = c.spent /\ d.yielded = c.yielded /\ d.text = c.text /\ d.sent = c.sent
        /\ d.cached = c.cached /\ d.outcome = c.outcome
      BY <1>2, InFields DEF IsContext
  <2>4. IsContext(d)
      BY <1>2, InFields DEF IsContext
  <2> HIDE DEF d, c
  <2>5. Placed(d)
      BY <1>1, <1>2, <2>2, <2>3 DEF CtxOK, Placed
  <2>6. Carries(r, d, n)
      BY <1>1, <1>2, <2>1, <2>2, <2>3 DEF CtxOK, Carries
  <2>7. RouteOK(r, d)
      BY <1>1, <1>2, <2>2, <2>3 DEF CtxOK, RouteOK, Untried
  <2>8. d.outcome # "ok"
      BY <1>1, <1>2, <2>3, RuntimeAssumption DEF CtxOK, Placed
  <2>9. CtxOK(r, d, n)
      BY <2>4, <2>5, <2>6, <2>7, <2>8 DEF CtxOK
  <2> QED
      BY <1>1, <1>3, <2>9, StepAlone
<1>4. CASE Set(r, Routed(c)) /\ Advance(c.proc)
  <2>1. CtxOK(r, Routed(c), n)
      BY <1>1, <1>2, RoutedOK
  <2>2. rr' = [q \in Procs |-> rr'[q]] /\ \A q \in Procs : rr'[q] \in Nat
      BY <1>2, <1>4, AdvanceOK
  <2> QED
      BY <1>1, <1>4, <2>1, <2>2, StepOf
<1> QED
    BY <1>1, <1>3, <1>4

\* The greatest id of a reply is one of it.
LEMMA MaxIsIn ==
    ASSUME NEW n \in Nat, NEW S \in SUBSET (1..n), S # {} PROVE Max(S) \in S
<1> DEFINE f == [i \in S |-> i]
<1>1. \A i \in S : f[i] \in Int
    OBVIOUS
<1>2. PICK i \in S : \A j \in S : f[i] >= f[j]
  <2> HIDE DEF f
  <2> QED
      BY <1>1, GreatestValue
<1>3. i \in S /\ \A j \in S : i >= j
    BY <1>2
<1> QED
    BY <1>3 DEF Max

\* SemanticCacheLookup.execute, after the reply: a hit is similar enough.
LEMMA SyncAndFindInv ==
    ASSUME RuntimeInv, NEW r \in Requests, NEW live \in SUBSET (1..Capacity), SyncAndFind(r, live)
    PROVE  RuntimeInv'
<1> DEFINE c == ctx[r]
           n == Len(semStream)
           p == c.proc
           m == Replay(mirror[p], c.reply)
           hit == FindBest(m, c.emb, live)
           e == [c EXCEPT !.reply = {}]
           f == [e EXCEPT !.answer = hit, !.cached = "semantic"]
           y == IF hit = Nothing THEN Routed(e) ELSE Completed(f)
<1>1. /\ c.pc = "sync" /\ live \subseteq DOMAIN m.slots
      /\ mirror' = [mirror EXCEPT ![p] = m]
      /\ lastId' = [lastId EXCEPT ![p] = IF c.reply = {} THEN lastId[p] ELSE Max(c.reply)]
      /\ Set(r, y) /\ (IF hit = Nothing THEN Advance(p) ELSE UNCHANGED rr)
      /\ UNCHANGED <<exact, semStream>>
    BY DEF SyncAndFind
<1>2. CtxOK(r, c, n) /\ IsContext(c) /\ p \in Procs /\ c.hist \in BOOLEAN
    BY <1>1 DEF RuntimeInv, CtxOK, Placed
<1>3. c.emb = Req[r].query /\ c.reply \in SUBSET (1..n) /\ n \in Nat
    BY <1>1, <1>2, LenProperties DEF RuntimeInv, CtxOK, Carries
<1>4. MirrorOK(m)
    BY <1>2, <1>3, ReplayOK DEF RuntimeInv
<1> HIDE DEF m
<1>5. lastId[p] \in Nat /\ (c.reply # {} => Max(c.reply) \in Nat)
  <2>1. c.reply # {} => Max(c.reply) \in c.reply
      BY <1>3, MaxIsIn
  <2> QED
      BY <1>2, <1>3, <2>1 DEF RuntimeInv
<1>6. /\ e.pc = "sync" /\ e.emb = c.emb /\ e.reply = {} /\ e.proc = p
      /\ e.hist = c.hist /\ e.key = c.key /\ e.attempt = c.attempt /\ e.calls = c.calls
    BY <1>1, <1>2, InFields DEF IsContext
<1>7. /\ e.spent = c.spent /\ e.yielded = c.yielded /\ e.text = c.text /\ e.sent = c.sent
      /\ e.cached = c.cached /\ e.outcome = c.outcome
    BY <1>2, InFields DEF IsContext
<1>8. IsContext(e)
    BY <1>2, InFields DEF IsContext
<1>9. CtxOK(r, e, n)
  <2> HIDE DEF c, e
  <2>5. Placed(e)
      BY <1>1, <1>2, <1>6, <1>7 DEF CtxOK, Placed
  <2>6. Carries(r, e, n)
      BY <1>1, <1>2, <1>6, <1>7 DEF CtxOK, Carries
  <2>7. RouteOK(r, e)
      BY <1>1, <1>2, <1>6, <1>7 DEF CtxOK, RouteOK, Untried
  <2>8. e.outcome # "ok"
      BY <1>1, <1>2, <1>7, RuntimeAssumption DEF CtxOK, Placed
  <2> QED
      BY <1>8, <2>5, <2>6, <2>7, <2>8 DEF CtxOK
<1>10. CtxOK(r, y, n)
  <2>1. CASE hit = Nothing
    <3>1. y = Routed(e)
        BY <2>1
    <3> HIDE DEF e, y
    <3> QED
        BY <1>6, <1>9, <3>1, RoutedOK
  <2>2. CASE hit # Nothing
    <3>1. y = Completed(f)
        BY <2>2
    <3>2. f.answer = hit /\ f.cached = "semantic" /\ f.hist = c.hist /\ f.proc = p
      <4> HIDE DEF e, hit, c
      <4> QED
          BY <1>6, <1>8, InFields DEF IsContext
    <3>3. AnswerOK(r, FALSE, hit, "semantic")
      <4>1. hit = FindBest(m, Req[r].query, live)
          BY <1>3
      <4> HIDE DEF hit
      <4> QED
          BY <1>1, <1>4, <2>2, <4>1, FindBestIs
    <3>4. AnswerOK(r, c.hist, hit, "semantic")
      <4>1. "semantic" \notin {Nothing, "exact"}
          BY RuntimeAssumption
      <4> HIDE DEF hit, c
      <4> QED
          BY <3>3, <4>1 DEF AnswerOK
    <3> HIDE DEF f, y, hit, c
    <3> QED
        BY <1>2, <3>1, <3>2, <3>4, CompletedOK DEF c
  <2> QED
      BY <2>1, <2>2
<1>11. rr' = [q \in Procs |-> rr'[q]] /\ \A q \in Procs : rr'[q] \in Nat
    BY <1>1, <1>2, AdvanceOK DEF RuntimeInv
<1> HIDE DEF y, c, hit
<1>12. mirror' = [q \in Procs |-> mirror'[q]] /\ \A q \in Procs : MirrorOK(mirror'[q])
    BY <1>1, <1>2, <1>4 DEF RuntimeInv
<1>13. lastId' = [q \in Procs |-> lastId'[q]] /\ \A q \in Procs : lastId'[q] \in Nat
    BY <1>1, <1>2, <1>5 DEF RuntimeInv
<1>14. ctx' = [q \in Requests |-> ctx'[q]] /\ \A q \in Requests : CtxOK(q, ctx'[q], n)
    BY <1>1, <1>10 DEF RuntimeInv, Set
<1> QED
    BY <1>1, <1>11, <1>12, <1>13, <1>14 DEF RuntimeInv

-----------------------------------------------------------------------------
(* The provider calls *)

\* A provider's own answer, to what it was asked.
LEMMA AnsweredOK ==
    ASSUME NEW r \in Requests, NEW n, NEW c, CtxOK(r, c, n), c.pc = "call", NEW b \in BOOLEAN,
           NEW d, d = [c EXCEPT !.answer = AnswerTo(r, c.hist, b), !.pc = "write"]
    PROVE  CtxOK(r, d, n)
<1>1. IsContext(c) /\ Routing(r, c)
    BY DEF CtxOK, RouteOK
<1>2. /\ d.pc = "write" /\ d.answer = AnswerTo(r, c.hist, b) /\ d.proc = c.proc
      /\ d.hist = c.hist /\ d.key = c.key /\ d.emb = c.emb
      /\ d.sent = c.sent /\ d.cached = c.cached /\ d.outcome = c.outcome
    BY <1>1, InFields DEF IsContext
<1>3. IsContext(d)
    BY <1>1, InFields DEF IsContext
<1>4. AnswerTo(r, c.hist, b).text = b
    BY DEF AnswerTo
<1>5. Placed(d)
    BY <1>2 DEF CtxOK, Placed
<1>6. Carries(r, d, n)
    BY <1>2, <1>4 DEF CtxOK, Carries
<1>7. d.outcome # "ok" /\ d.outcome # "unavailable"
    BY <1>2, RuntimeAssumption DEF CtxOK, Placed
<1>8. RouteOK(r, d)
    BY <1>2, <1>7 DEF CtxOK, RouteOK
<1> QED
    BY <1>3, <1>5, <1>6, <1>7, <1>8 DEF CtxOK

\* A context in the middle of the calls, of which only the route has changed.
LEMMA RoutingOK ==
    ASSUME NEW r \in Requests, NEW n, NEW c, CtxOK(r, c, n), c.pc = "call",
           NEW d, IsContext(d), Routing(r, d), d.pc = "call", d.proc = c.proc, d.hist = c.hist,
           d.key = c.key, d.emb = c.emb, d.cached = c.cached, d.outcome = c.outcome
    PROVE  CtxOK(r, d, n)
<1>1. d.outcome # "ok" /\ d.outcome # "unavailable"
    BY RuntimeAssumption DEF CtxOK, Placed
<1>2. Placed(d)
    BY DEF CtxOK, Placed
<1>3. Carries(r, d, n)
    BY DEF CtxOK, Carries
<1>4. \E p \in Provider : d.sent \subseteq {p}
  <2>1. d.order \in Seq(Provider) /\ Len(d.order) > 0 /\ d.sent \subseteq {Head(d.order)}
      BY DEF Routing
  <2>2. d.order # <<>>
      BY <2>1, EmptySeq
  <2> QED
      BY <2>1, <2>2, HeadTailProperties
<1>5. RouteOK(r, d)
    BY <1>1, <1>4 DEF RouteOK
<1> QED
    BY <1>1, <1>2, <1>3, <1>5 DEF CtxOK

\* What is left of an order without its head.
LEMMA OrderIs ==
    ASSUME NEW o \in Seq(Provider), Len(o) > 0
    PROVE  /\ Head(o) \in Provider /\ Tail(o) \in Seq(Provider) /\ Len(Tail(o)) = Len(o) - 1
           /\ Len(o) \in Nat /\ Range(o) \subseteq {Head(o)} \cup Range(Tail(o))
           /\ Range(Tail(o)) \subseteq Range(o)
<1>1. o # <<>> /\ Len(o) \in Nat /\ DOMAIN o = 1..Len(o) /\ Head(o) = o[1]
    BY EmptySeq, LenProperties
<1>2. /\ Head(o) \in Provider /\ Tail(o) \in Seq(Provider) /\ Len(Tail(o)) = Len(o) - 1
      /\ \A i \in 1..Len(Tail(o)) : Tail(o)[i] = o[i + 1]
    BY <1>1, HeadTailProperties
<1>3. DOMAIN Tail(o) = 1..Len(Tail(o))
    BY <1>2, LenProperties
<1>4. ASSUME NEW i \in 1..Len(o) PROVE o[i] = Head(o) \/ o[i] \in Range(Tail(o))
  <2>1. CASE i = 1
      BY <1>1, <2>1
  <2>2. CASE i # 1
    <3>1. i - 1 \in 1..Len(Tail(o)) /\ (i - 1) + 1 = i
        BY <1>1, <1>2, <2>2
    <3> QED
        BY <1>2, <1>3, <3>1 DEF Range
  <2> QED
      BY <2>1, <2>2
<1>5. ASSUME NEW i \in 1..Len(Tail(o)) PROVE Tail(o)[i] \in Range(o)
  <2>1. i + 1 \in 1..Len(o)
      BY <1>1, <1>2
  <2> QED
      BY <1>1, <1>2, <2>1 DEF Range
<1>6. Range(o) \subseteq {Head(o)} \cup Range(Tail(o))
    BY <1>1, <1>4 DEF Range
<1>7. Range(Tail(o)) \subseteq Range(o)
    BY <1>3, <1>5 DEF Range
<1> QED
    BY <1>1, <1>2, <1>6, <1>7

\* ProviderRouter: an error before any content is tried again, or the next
\* provider is, and the last one's is AllProvidersFailedError.
LEMMA AfterErrorOK ==
    ASSUME NEW r \in Requests, NEW n, NEW c, CtxOK(r, c, n), c.pc = "call", c.yielded = FALSE,
           NEW retryable \in BOOLEAN
    PROVE  CtxOK(r, AfterError(c, retryable), n)
<1> DEFINE final == ~retryable \/ c.calls = MaxRetries
           s == IF final THEN c.spent \cup {Head(c.order)} ELSE c.spent
           d == Called(c, retryable)
<1>1. IsContext(c) /\ Routing(r, c) /\ c.proc \in Procs
    BY DEF CtxOK, RouteOK, Placed
<1>2. /\ c.order \in Seq(Provider) /\ Len(c.order) > 0 /\ c.attempt = c.calls
      /\ c.calls \in Nat /\ c.calls <= MaxRetries /\ MaxRetries \in Nat /\ c.sent = {}
      /\ Provider = c.spent \cup Range(c.order)
    BY <1>1, RuntimeAssumption DEF Routing
<1>3. /\ Head(c.order) \in Provider /\ Tail(c.order) \in Seq(Provider)
      /\ Len(Tail(c.order)) = Len(c.order) - 1 /\ Len(c.order) \in Nat
      /\ Range(c.order) \subseteq {Head(c.order)} \cup Range(Tail(c.order))
      /\ Range(Tail(c.order)) \subseteq Range(c.order)
    BY <1>2, OrderIs
<1>4. d = [c EXCEPT !.calls = c.calls + 1, !.spent = s]
    BY DEF Called
<1>5. /\ d.calls = c.calls + 1 /\ d.spent = s /\ d.pc = "call" /\ d.proc = c.proc
      /\ d.hist = c.hist /\ d.key = c.key /\ d.emb = c.emb /\ d.cached = c.cached
      /\ d.outcome = c.outcome
  <2> HIDE DEF s, d
  <2> QED
      BY <1>1, <1>4, InFields DEF IsContext
<1>6. /\ IsContext(d) /\ d.order = c.order /\ d.attempt = c.attempt /\ d.yielded = c.yielded
      /\ d.text = c.text /\ d.sent = c.sent
  <2> HIDE DEF s, d
  <2> QED
      BY <1>1, <1>4, InFields DEF IsContext
<1> HIDE DEF d
<1>7. CASE retryable /\ c.attempt < MaxRetries
  <2> DEFINE e == [d EXCEPT !.attempt = d.attempt + 1]
  <2>1. AfterError(c, retryable) = e
      BY <1>7 DEF AfterError, d
  <2>2. /\ e.attempt = c.attempt + 1 /\ e.calls = c.calls + 1 /\ e.spent = s /\ e.pc = "call"
        /\ e.proc = c.proc /\ e.hist = c.hist /\ e.key = c.key /\ e.emb = c.emb
        /\ e.cached = c.cached /\ e.outcome = c.outcome
      BY <1>5, <1>6, InFields DEF IsContext
  <2>3. /\ IsContext(e) /\ e.order = c.order /\ e.yielded = c.yielded /\ e.text = c.text
        /\ e.sent = c.sent
      BY <1>6, InFields DEF IsContext
  <2>4. s = c.spent
      BY <1>2, <1>7
  <2> HIDE DEF e, s
  <2>5. c.calls + 1 \in 0..MaxRetries
      BY <1>2, <1>7
  <2>6. Routing(r, e)
      BY <1>1, <1>2, <2>2, <2>3, <2>4, <2>5 DEF Routing
  <2>7. CtxOK(r, e, n)
      BY <2>2, <2>3, <2>6, RoutingOK
  <2> QED
      BY <2>1, <2>7
<1>8. CASE ~(retryable /\ c.attempt < MaxRetries)
  <2>1. AfterError(c, retryable) = FallThrough(d)
      BY <1>8 DEF AfterError, d
  <2>2. s = c.spent \cup {Head(c.order)}
      BY <1>2, <1>8
  <2> HIDE DEF s
  <2>3. CASE Len(c.order) = 1
    <3>1. FallThrough(d) = [Ended(d, "unavailable") EXCEPT !.spent = d.spent]
        BY <1>6, <2>3 DEF FallThrough
    <3>2. Range(Tail(c.order)) = {}
      <4>1. Len(Tail(c.order)) = 0
          BY <1>3, <2>3
      <4> QED
          BY <1>3, <4>1, LenProperties DEF Range
    <3>3. d.spent = Provider
        BY <1>2, <1>3, <1>5, <2>2, <3>2
    <3>4. CtxOK(r, [Ended(d, "unavailable") EXCEPT !.spent = d.spent], n)
        BY <1>1, <1>5, <3>3, UnavailableOK
    <3> QED
        BY <2>1, <3>1, <3>4
  <2>4. CASE Len(c.order) # 1
    <3> DEFINE e == [d EXCEPT !.order = Tail(d.order), !.attempt = 0, !.calls = 0]
    <3>1. FallThrough(d) = e
        BY <1>6, <2>4 DEF FallThrough
    <3>2. /\ e.order = Tail(c.order) /\ e.attempt = 0 /\ e.calls = 0 /\ e.spent = s
          /\ e.pc = "call" /\ e.proc = c.proc /\ e.hist = c.hist /\ e.key = c.key
          /\ e.emb = c.emb /\ e.cached = c.cached /\ e.outcome = c.outcome
        BY <1>5, <1>6, InFields DEF IsContext
    <3>3. IsContext(e) /\ e.yielded = c.yielded /\ e.text = c.text /\ e.sent = c.sent
        BY <1>6, InFields DEF IsContext
    <3> HIDE DEF e
    <3>4. Len(e.order) > 0 /\ 0 \in 0..MaxRetries
      <4>1. 0 \in 0..MaxRetries
          BY RuntimeAssumption
      <4>2. /\ Len(c.order) \in Nat /\ Len(c.order) > 0 /\ Len(c.order) # 1
            /\ Len(e.order) = Len(c.order) - 1
          BY <1>2, <1>3, <2>4, <3>2
      <4>3. \A x \in Nat : x > 0 /\ x # 1 => x - 1 > 0
          OBVIOUS
      <4>4. Len(c.order) - 1 > 0
          BY <4>2, <4>3
      <4> QED
          BY <4>1, <4>2, <4>4
    <3>5. Provider = e.spent \cup Range(e.order)
        BY <1>2, <1>3, <2>2, <3>2
    <3>6. Routing(r, e)
      <4>1. e.order \in Seq(Provider) /\ e.attempt = e.calls /\ e.calls \in 0..MaxRetries
          BY <1>3, <3>2, <3>4
      <4>2. e.sent = {} /\ e.yielded = FALSE /\ e.text \in BOOLEAN
          BY <1>1, <1>2, <3>3 DEF Routing
      <4> QED
          BY <3>4, <3>5, <4>1, <4>2 DEF Routing
    <3>7. CtxOK(r, e, n)
        BY <3>2, <3>3, <3>6, RoutingOK
    <3> QED
        BY <2>1, <3>1, <3>7
  <2> QED
      BY <2>3, <2>4
<1> QED
    BY <1>7, <1>8

\* ProviderRouter.complete, one attempt.
LEMMA CompleteInv ==
    ASSUME RuntimeInv, NEW r \in Requests, Complete(r) PROVE RuntimeInv'
<1> DEFINE c == ctx[r]
           n == Len(semStream)
<1>1. /\ c.pc = "call" /\ ~Req[r].stream /\ UNCHANGED <<exact, semStream, mirror, lastId, rr>>
      /\ \/ \E b \in BOOLEAN : Set(r, [c EXCEPT !.answer = AnswerOf(r, b), !.pc = "write"])
         \/ \E retryable \in BOOLEAN : Set(r, AfterError(c, retryable))
  <2>1. PICK o : Set(r, IF o \in {"text", "toolcall"}
                        THEN [c EXCEPT !.answer = AnswerOf(r, o = "text"), !.pc = "write"]
                        ELSE AfterError(c, o = "retryable"))
      BY DEF Complete
  <2>2. (o = "text") \in BOOLEAN /\ (o = "retryable") \in BOOLEAN
      OBVIOUS
  <2>3. c.pc = "call" /\ ~Req[r].stream /\ UNCHANGED <<exact, semStream, mirror, lastId, rr>>
      BY DEF Complete
  <2>4. CASE o \in {"text", "toolcall"}
    <3>1. Set(r, [c EXCEPT !.answer = AnswerOf(r, o = "text"), !.pc = "write"])
        BY <2>1, <2>4
    <3> QED
        BY <2>2, <2>3, <3>1
  <2>5. CASE o \notin {"text", "toolcall"}
    <3>1. Set(r, AfterError(c, o = "retryable"))
        BY <2>1, <2>5
    <3> QED
        BY <2>2, <2>3, <3>1
  <2> QED
      BY <2>4, <2>5
<1>2. CtxOK(r, c, n)
    BY DEF RuntimeInv
<1>3. ASSUME NEW b \in BOOLEAN, Set(r, [c EXCEPT !.answer = AnswerOf(r, b), !.pc = "write"])
      PROVE  RuntimeInv'
  <2>1. AnswerOf(r, b) = AnswerTo(r, c.hist, b)
      BY DEF AnswerOf, Asked, AnswerTo, AskedBy
  <2>2. CtxOK(r, [c EXCEPT !.answer = AnswerOf(r, b), !.pc = "write"], n)
      BY <1>1, <1>2, <2>1, AnsweredOK
  <2> QED
      BY <1>1, <1>3, <2>2, StepAlone
<1>4. ASSUME NEW retryable \in BOOLEAN, Set(r, AfterError(c, retryable)) PROVE RuntimeInv'
  <2>1. c.yielded = FALSE
      BY <1>1, <1>2 DEF CtxOK, RouteOK, Routing
  <2>2. CtxOK(r, AfterError(c, retryable), n)
      BY <1>1, <1>2, <2>1, AfterErrorOK
  <2> QED
      BY <1>1, <1>4, <2>2, StepAlone
<1> QED
    BY <1>1, <1>3, <1>4

\* A chunk that goes to the client, from the provider at the head.
LEMMA ChunkOK ==
    ASSUME NEW r \in Requests, NEW n, NEW c, CtxOK(r, c, n), c.pc = "call", Req[r].stream,
           NEW b \in BOOLEAN,
           NEW d, d = [c EXCEPT !.yielded = TRUE, !.sent = c.sent \cup {Head(c.order)},
                                !.text = c.text \/ b]
    PROVE  CtxOK(r, d, n)
<1>1. IsContext(c) /\ Routing(r, c)
    BY DEF CtxOK, RouteOK
<1>2. /\ d.yielded = TRUE /\ d.sent = c.sent \cup {Head(c.order)} /\ d.text = (c.text \/ b)
      /\ d.pc = "call" /\ d.proc = c.proc /\ d.hist = c.hist /\ d.key = c.key /\ d.emb = c.emb
      /\ d.cached = c.cached /\ d.outcome = c.outcome
    BY <1>1, InFields DEF IsContext
<1>3. /\ IsContext(d) /\ d.order = c.order /\ d.attempt = c.attempt /\ d.calls = c.calls
      /\ d.spent = c.spent
    BY <1>1, InFields DEF IsContext
<1>4. Routing(r, d)
  <2>1. d.sent \subseteq {Head(d.order)}
      BY <1>1, <1>2, <1>3 DEF Routing
  <2>2. (c.text \/ b) \in BOOLEAN
      OBVIOUS
  <2>3. d.yielded \in BOOLEAN /\ d.text \in BOOLEAN /\ d.yielded # FALSE
      BY <1>2, <2>2
  <2> QED
      BY <1>1, <1>3, <2>1, <2>3 DEF Routing
<1> QED
    BY <1>2, <1>3, <1>4, RoutingOK

\* ProviderRouter.stream, one chunk.
LEMMA StreamChunkInv ==
    ASSUME RuntimeInv, NEW r \in Requests, StreamChunk(r) PROVE RuntimeInv'
<1> DEFINE c == ctx[r]
           n == Len(semStream)
           next(b) == [c EXCEPT !.yielded = TRUE, !.sent = c.sent \cup {Head(c.order)},
                                !.text = c.text \/ b]
           done == [c EXCEPT !.answer = AnswerOf(r, c.text), !.pc = "write"]
<1>1. /\ c.pc = "call" /\ Req[r].stream /\ UNCHANGED <<exact, semStream, mirror, lastId, rr>>
      /\ \/ \E b \in BOOLEAN : Set(r, next(b))
         \/ Set(r, done)
         \/ \E retryable \in BOOLEAN : Set(r, AfterStreamError(c, retryable))
  <2>1. PICK e : Set(r, CASE e \in {"text", "tool"} -> next(e = "text")
                          [] e = "done" -> done
                          [] OTHER -> AfterStreamError(c, e = "retryable"))
      BY DEF StreamChunk
  <2>2. (e = "text") \in BOOLEAN /\ (e = "retryable") \in BOOLEAN
      OBVIOUS
  <2>3. c.pc = "call" /\ Req[r].stream /\ UNCHANGED <<exact, semStream, mirror, lastId, rr>>
      BY DEF StreamChunk
  <2> HIDE DEF next, done, c
  <2>4. \/ Set(r, next(e = "text")) \/ Set(r, done)
        \/ Set(r, AfterStreamError(c, e = "retryable"))
    <3>1. CASE e \in {"text", "tool"}
      <4>1. e # "done"
          BY <3>1
      <4> QED
          BY <2>1, <3>1, <4>1
    <3>2. CASE e = "done"
      <4>1. e \notin {"text", "tool"}
          BY <3>2
      <4> QED
          BY <2>1, <3>2, <4>1
    <3>3. CASE e \notin {"text", "tool"} /\ e # "done"
        BY <2>1, <3>3
    <3> QED
        BY <3>1, <3>2, <3>3
  <2> QED
      BY <2>2, <2>3, <2>4
<1>2. CtxOK(r, c, n)
    BY DEF RuntimeInv
<1>3. ASSUME NEW b \in BOOLEAN, Set(r, next(b)) PROVE RuntimeInv'
  <2>1. CtxOK(r, next(b), n)
      BY <1>1, <1>2, ChunkOK
  <2> HIDE DEF next
  <2> QED
      BY <1>1, <1>3, <2>1, StepAlone
<1>4. ASSUME Set(r, done) PROVE RuntimeInv'
  <2>1. c.text \in BOOLEAN
      BY <1>1, <1>2 DEF CtxOK, RouteOK, Routing
  <2>2. AnswerOf(r, c.text) = AnswerTo(r, c.hist, c.text)
      BY DEF AnswerOf, Asked, AnswerTo, AskedBy
  <2>3. CtxOK(r, done, n)
      BY <1>1, <1>2, <2>1, <2>2, AnsweredOK
  <2> HIDE DEF done
  <2> QED
      BY <1>1, <1>4, <2>3, StepAlone
<1>5. ASSUME NEW retryable \in BOOLEAN, Set(r, AfterStreamError(c, retryable)) PROVE RuntimeInv'
  <2>1. c.yielded \in BOOLEAN /\ c.proc \in Procs
      BY <1>1, <1>2 DEF CtxOK, RouteOK, Routing, Placed
  <2>2. CASE c.yielded = TRUE
    <3>1. AfterStreamError(c, retryable) = Ended(c, "failed")
        BY <2>2 DEF AfterStreamError
    <3>2. CtxOK(r, Ended(c, "failed"), n)
        BY <2>1, EndedOK
    <3> QED
        BY <1>1, <1>5, <3>1, <3>2, StepAlone
  <2>3. CASE c.yielded = FALSE
    <3>1. AfterStreamError(c, retryable) = AfterError(c, retryable)
        BY <2>3 DEF AfterStreamError
    <3>2. CtxOK(r, AfterError(c, retryable), n)
        BY <1>1, <1>2, <2>3, AfterErrorOK
    <3> QED
        BY <1>1, <1>5, <3>1, <3>2, StepAlone
  <2> QED
      BY <2>1, <2>2, <2>3
<1> QED
    BY <1>1, <1>3, <1>4, <1>5

\* The client of a stream goes away.
LEMMA DisconnectInv ==
    ASSUME RuntimeInv, NEW r \in Requests, Disconnect(r) PROVE RuntimeInv'
<1>1. /\ ctx[r].pc = "call" /\ Set(r, Ended(ctx[r], "gone"))
      /\ UNCHANGED <<exact, semStream, mirror, lastId, rr>>
    BY DEF Disconnect
<1>2. ctx[r].proc \in Procs
    BY <1>1 DEF RuntimeInv, CtxOK, Placed
<1>3. CtxOK(r, Ended(ctx[r], "gone"), Len(semStream))
    BY <1>2, EndedOK
<1> QED
    BY <1>1, <1>3, StepAlone

-----------------------------------------------------------------------------
(* The write-back *)

\* The answer is the caller's own, and goes to the caller.
LEMMA OwnAnswer ==
    ASSUME NEW r, NEW n, NEW c, CtxOK(r, c, n), c.pc \in {"write", "append", "mirror"}
    PROVE  CtxOK(r, Completed(c), n)
<1>1. c.proc \in Procs /\ c.hist \in BOOLEAN /\ c.cached = Nothing
    BY DEF CtxOK, Placed
<1>2. c.answer = AnswerTo(r, c.hist, c.answer.text)
    BY DEF CtxOK, Carries
<1>3. c.answer.asked = AskedBy(r, c.hist)
    BY <1>2 DEF AnswerTo
<1>4. Nothing # "semantic"
    BY RuntimeAssumption
<1>5. AnswerOK(r, c.hist, c.answer, c.cached)
    BY <1>1, <1>3, <1>4 DEF AnswerOK
<1> QED
    BY <1>1, <1>5, CompletedOK

\* A step of one request that may add to the caches.
LEMMA WriteBack ==
    ASSUME RuntimeInv, NEW r \in Requests, NEW c, Set(r, c), CtxOK(r, c, Len(semStream')),
           ExactOK(exact'), semStream' \in Seq(Entry), Len(semStream) <= Len(semStream'),
           UNCHANGED <<mirror, lastId, rr>>
    PROVE  RuntimeInv'
<1>1. Len(semStream) \in Nat /\ Len(semStream') \in Nat
    BY LenProperties DEF RuntimeInv
<1>2. \A q \in Requests : CtxOK(q, ctx[q], Len(semStream'))
    BY <1>1, LongerStream DEF RuntimeInv
<1>3. ctx' = [q \in Requests |-> ctx'[q]] /\ \A q \in Requests : CtxOK(q, ctx'[q], Len(semStream'))
    BY <1>2 DEF RuntimeInv, Set
<1> QED
    BY <1>3 DEF RuntimeInv

\* The write-back to the exact cache puts the answer under its own key.
LEMMA WriteExactInv ==
    ASSUME RuntimeInv, NEW r \in Requests, WriteExact(r) PROVE RuntimeInv'
<1> DEFINE c == ctx[r]
           n == Len(semStream)
           d == [c EXCEPT !.pc = "append"]
           y == IF c.answer.text THEN d ELSE Completed(c)
<1>1. /\ c.pc = "write" /\ Set(r, y) /\ UNCHANGED <<semStream, mirror, lastId, rr>>
      /\ \/ exact' = exact
         \/ c.key # Nothing /\ c.answer.text /\ exact' = Put(exact, c.key, [answer |-> c.answer])
    BY DEF WriteExact
<1>2. CtxOK(r, c, n) /\ ExactOK(exact) /\ semStream \in Seq(Entry)
    BY DEF RuntimeInv
<1>3. /\ IsContext(c) /\ c.hist \in BOOLEAN /\ c.answer = AnswerTo(r, c.hist, c.answer.text)
      /\ c.answer.text \in BOOLEAN /\ c.key \in {Nothing, KeyOf(r, c.hist)}
    BY <1>1, <1>2 DEF CtxOK, Placed, Carries
<1>4. CtxOK(r, y, n)
  <2>1. CASE c.answer.text = TRUE
    <3>1. y = d
        BY <2>1
    <3>2. /\ d.pc = "append" /\ d.proc = c.proc /\ d.hist = c.hist /\ d.key = c.key
          /\ d.emb = c.emb /\ d.answer = c.answer /\ d.sent = c.sent /\ d.cached = c.cached
          /\ d.outcome = c.outcome
        BY <1>3, InFields DEF IsContext
    <3>3. IsContext(d)
        BY <1>3, InFields DEF IsContext
    <3> HIDE DEF d, y, c
    <3>4. Placed(d)
        BY <1>1, <1>2, <3>2 DEF CtxOK, Placed
    <3>5. Carries(r, d, n)
        BY <1>1, <1>2, <2>1, <3>2 DEF CtxOK, Carries
    <3>6. d.outcome # "ok" /\ d.outcome # "unavailable"
        BY <1>1, <1>2, <3>2, RuntimeAssumption DEF CtxOK, Placed
    <3>7. RouteOK(r, d)
        BY <1>2, <3>2, <3>6 DEF CtxOK, RouteOK
    <3> QED
        BY <3>1, <3>3, <3>4, <3>5, <3>6, <3>7 DEF CtxOK
  <2>2. CASE c.answer.text = FALSE
    <3>1. y = Completed(c)
        BY <2>2
    <3> QED
        BY <1>1, <1>2, <3>1, OwnAnswer
  <2> QED
      BY <1>3, <2>1, <2>2
<1>5. ExactOK(exact')
  <2>1. CASE exact' = exact
      BY <1>2, <2>1
  <2>2. CASE c.key # Nothing /\ c.answer.text /\ exact' = Put(exact, c.key, [answer |-> c.answer])
    <3> DEFINE k == c.key
               v == [answer |-> c.answer]
    <3>1. k = KeyOf(r, c.hist) /\ c.answer.text = TRUE
        BY <1>3, <2>2
    <3>2. v = [answer |-> AnswerTo(r, c.hist, TRUE)]
        BY <1>3, <3>1
    <3> HIDE DEF v, k, c
    <3>3. exact' = [x \in {k} \cup DOMAIN exact |-> IF x = k THEN v ELSE exact[x]]
        BY <2>2 DEF Put, k, v
    <3>4. ASSUME NEW x \in DOMAIN exact'
          PROVE  \E q \in Requests, h \in BOOLEAN :
                    x = KeyOf(q, h) /\ exact'[x] = [answer |-> AnswerTo(q, h, TRUE)]
      <4>1. CASE x = k
        <5>1. exact'[x] = v
            BY <3>3, <3>4, <4>1
        <5> QED
            BY <1>3, <3>1, <3>2, <4>1, <5>1
      <4>2. CASE x # k
        <5>1. x \in DOMAIN exact /\ exact'[x] = exact[x]
            BY <3>3, <3>4, <4>2
        <5> QED
            BY <1>2, <5>1 DEF ExactOK
      <4> QED
          BY <4>1, <4>2
    <3> QED
        BY <3>4 DEF ExactOK
  <2> QED
      BY <1>1, <2>1, <2>2
<1>6. semStream' \in Seq(Entry) /\ Len(semStream) <= Len(semStream') /\ Len(semStream') = n
    BY <1>1, <1>2, LenProperties
<1> HIDE DEF y, c
<1> QED
    BY <1>1, <1>4, <1>5, <1>6, WriteBack

\* The write-back to the semantic cache: XADD.
LEMMA AppendSemanticInv ==
    ASSUME RuntimeInv, NEW r \in Requests, AppendSemantic(r) PROVE RuntimeInv'
<1> DEFINE c == ctx[r]
           n == Len(semStream)
           e == [emb |-> c.emb, answer |-> c.answer]
           d == [c EXCEPT !.pc = "mirror", !.own = n + 1]
<1>1. /\ c.pc = "append" /\ UNCHANGED <<exact, mirror, lastId, rr>>
      /\ \/ Set(r, Completed(c)) /\ UNCHANGED semStream
         \/ c.emb # Nothing /\ semStream' = Append(semStream, e) /\ Set(r, d)
    BY DEF AppendSemantic
<1>2. CtxOK(r, c, n) /\ ExactOK(exact) /\ semStream \in Seq(Entry) /\ n \in Nat
    BY LenProperties DEF RuntimeInv
<1>3. CASE Set(r, Completed(c)) /\ UNCHANGED semStream
  <2>1. CtxOK(r, Completed(c), n)
      BY <1>1, <1>2, OwnAnswer
  <2> QED
      BY <1>1, <1>3, <2>1, StepAlone
<1>4. CASE c.emb # Nothing /\ semStream' = Append(semStream, e) /\ Set(r, d)
  <2>1. /\ IsContext(c) /\ c.hist \in BOOLEAN /\ c.answer = AnswerTo(r, c.hist, TRUE)
        /\ c.emb = Req[r].query
      BY <1>1, <1>2, <1>4 DEF CtxOK, Placed, Carries
  <2>2. e \in Entry
    <3>1. e = EntryOf(r, c.hist)
        BY <2>1 DEF EntryOf
    <3> HIDE DEF e
    <3> QED
        BY <2>1, <3>1 DEF Entry
  <2> HIDE DEF e
  <2>3. semStream' \in Seq(Entry) /\ Len(semStream') = n + 1
      BY <1>2, <1>4, <2>2, AppendProperties
  <2>4. /\ d.pc = "mirror" /\ d.own = n + 1 /\ d.proc = c.proc /\ d.hist = c.hist /\ d.key = c.key
        /\ d.emb = c.emb /\ d.answer = c.answer /\ d.sent = c.sent /\ d.cached = c.cached
        /\ d.outcome = c.outcome
      BY <2>1, InFields DEF IsContext
  <2>5. IsContext(d)
      BY <2>1, InFields DEF IsContext
  <2> HIDE DEF d, c
  <2>6. Placed(d)
      BY <1>1, <1>2, <2>4 DEF CtxOK, Placed
  <2>7. Carries(r, d, n + 1)
    <3>1. n + 1 \in 1..(n + 1)
        BY <1>2
    <3> HIDE DEF n
    <3> QED
        BY <1>1, <1>2, <2>4, <3>1 DEF CtxOK, Carries
  <2>8. d.outcome # "ok" /\ d.outcome # "unavailable"
      BY <1>1, <1>2, <2>4, RuntimeAssumption DEF CtxOK, Placed
  <2>9. RouteOK(r, d)
      BY <1>2, <2>4, <2>8 DEF CtxOK, RouteOK
  <2>10. CtxOK(r, d, n + 1)
      BY <2>5, <2>6, <2>7, <2>8, <2>9 DEF CtxOK
  <2>11. Len(semStream) <= Len(semStream')
      BY <1>2, <2>3
  <2> QED
      BY <1>1, <1>2, <1>4, <2>3, <2>10, <2>11, WriteBack
<1> QED
    BY <1>1, <1>3, <1>4

\* And the entry added is mirrored.
LEMMA MirrorOwnInv ==
    ASSUME RuntimeInv, NEW r \in Requests, MirrorOwn(r) PROVE RuntimeInv'
<1> DEFINE c == ctx[r]
           n == Len(semStream)
           p == c.proc
           m == mirror[p]
           e == semStream[c.own]
           x == RingAdd(m, e)
<1>1. /\ c.pc = "mirror" /\ lastId' = [lastId EXCEPT ![p] = c.own]
      /\ mirror' = [mirror EXCEPT ![p] = x] /\ Set(r, Completed(c))
      /\ UNCHANGED <<exact, semStream, rr>>
    BY DEF MirrorOwn
<1>2. CtxOK(r, c, n) /\ p \in Procs /\ c.own \in 1..n /\ n \in Nat
    BY <1>1, LenProperties DEF RuntimeInv, CtxOK, Placed, Carries
<1>3. e \in Entry
    BY <1>2, ElementOfSeq DEF RuntimeInv
<1>4. MirrorOK(m)
    BY <1>2 DEF RuntimeInv
<1>5. MirrorOK(x)
  <2> HIDE DEF m, e
  <2>1. /\ x = [slots |-> x.slots, next |-> x.next]
        /\ x.slots = [k \in {m.next} \cup DOMAIN m.slots |-> IF k = m.next THEN e ELSE m.slots[k]]
      BY DEF RingAdd, Put
  <2> HIDE DEF x
  <2>2. \A k \in DOMAIN x.slots : x.slots[k] \in Entry
      BY <1>3, <1>4, <2>1 DEF MirrorOK
  <2> QED
      BY <2>1, <2>2 DEF MirrorOK
<1>6. CtxOK(r, Completed(c), n)
    BY <1>1, <1>2, OwnAnswer
<1> HIDE DEF x
<1>7. mirror' = [q \in Procs |-> mirror'[q]] /\ \A q \in Procs : MirrorOK(mirror'[q])
    BY <1>1, <1>2, <1>5 DEF RuntimeInv
<1>8. lastId' = [q \in Procs |-> lastId'[q]] /\ \A q \in Procs : lastId'[q] \in Nat
  <2>1. c.own \in Nat
      BY <1>2
  <2> QED
      BY <1>1, <1>2, <2>1 DEF RuntimeInv
<1>9. ctx' = [q \in Requests |-> ctx'[q]] /\ \A q \in Requests : CtxOK(q, ctx'[q], n)
    BY <1>1, <1>6 DEF RuntimeInv, Set
<1> QED
    BY <1>1, <1>7, <1>8, <1>9 DEF RuntimeInv

\* One step of the request's own task.
LEMMA RequestStepInv ==
    ASSUME RuntimeInv, NEW r \in Requests, RequestStep(r) PROVE RuntimeInv'
BY LookupExactInv, LookupSemanticInv, SyncAndFindInv, CompleteInv, StreamChunkInv, WriteExactInv,
   AppendSemanticInv, MirrorOwnInv DEF RequestStep

-----------------------------------------------------------------------------
(* The process *)

\* Nobody has asked anything yet.
LEMMA RtInitInv == RtInit => RuntimeInv
<1> SUFFICES ASSUME RtInit PROVE RuntimeInv
    OBVIOUS
<1>1. \A r \in Requests : CtxOK(r, FreshContext, Len(semStream))
    BY FreshOK
<1>2. ctx = [r \in Requests |-> ctx[r]] /\ \A r \in Requests : ctx[r] = FreshContext
    BY DEF RtInit
<1>3. \A r \in Requests : CtxOK(r, ctx[r], Len(semStream))
    BY <1>1, <1>2
<1>4. ExactOK(exact)
    BY DEF RtInit, ExactOK
<1>5. semStream \in Seq(Entry)
    BY EmptySeq DEF RtInit
<1>6. MirrorOK(EmptyMirror)
    BY DEF MirrorOK, EmptyMirror
<1>7. mirror = [p \in Procs |-> mirror[p]] /\ \A p \in Procs : MirrorOK(mirror[p])
    BY <1>6 DEF RtInit
<1>8. /\ lastId = [p \in Procs |-> lastId[p]] /\ \A p \in Procs : lastId[p] \in Nat
      /\ rr = [p \in Procs |-> rr[p]] /\ \A p \in Procs : rr[p] \in Nat
    BY DEF RtInit
<1> QED
    BY <1>2, <1>3, <1>4, <1>5, <1>7, <1>8 DEF RuntimeInv

\* A process that dies takes its mirror and its requests with it.
LEMMA CrashRuntime ==
    ASSUME RuntimeInv, NEW p \in Procs, Crash(p) PROVE RuntimeInv'
<1>1. /\ ctx' = [r \in Requests |-> ctx'[r]]
      /\ \A r \in Requests : \/ ctx'[r] = ctx[r]
                             \/ ctx[r].proc = p /\ ctx'[r] = Ended(ctx[r], "gone")
    BY DEF Crash
<1>2. \A r \in Requests : CtxOK(r, ctx'[r], Len(semStream))
  <2> TAKE r \in Requests
  <2>1. CtxOK(r, ctx[r], Len(semStream))
      BY DEF RuntimeInv
  <2>2. ctx[r].proc = p => CtxOK(r, Ended(ctx[r], "gone"), Len(semStream))
      BY EndedOK
  <2> QED
      BY <1>1, <2>1, <2>2
<1>3. MirrorOK(EmptyMirror)
    BY DEF MirrorOK, EmptyMirror
<1>4. mirror' = [q \in Procs |-> mirror'[q]] /\ \A q \in Procs : MirrorOK(mirror'[q])
    BY <1>3 DEF RuntimeInv, Crash
<1>5. /\ lastId' = [q \in Procs |-> lastId'[q]] /\ \A q \in Procs : lastId'[q] \in Nat
      /\ rr' = [q \in Procs |-> rr'[q]] /\ \A q \in Procs : rr'[q] \in Nat
    BY DEF RuntimeInv, Crash
<1>6. UNCHANGED <<exact, semStream>>
    BY DEF Crash
<1> QED
    BY <1>1, <1>2, <1>4, <1>5, <1>6 DEF RuntimeInv

\* Every step of the system keeps what the runtime guarantees.
LEMMA RuntimeStep == RuntimeInv /\ [Next]_vars => RuntimeInv'
<1> SUFFICES ASSUME RuntimeInv, [Next]_vars PROVE RuntimeInv'
    OBVIOUS
<1> DEFINE Same == UNCHANGED <<ctx, exact, semStream, mirror, lastId, rr>>
<1>1. CASE Same
    BY <1>1 DEF RuntimeInv
<1>2. CASE \E p \in Procs, r \in Requests : StartStream(p, r)
    BY <1>2, EnterInv DEF StartStream
<1>3. CASE \E r \in Requests : Step(r)
    BY <1>3, RequestStepInv DEF Step
<1>4. CASE \E r \in Requests : Hangup(r)
    BY <1>4, DisconnectInv DEF Hangup
<1>5. CASE \E p \in Procs : Crash(p)
    BY <1>5, CrashRuntime
<1>6. ASSUME NEW p \in Procs, Take(p) PROVE RuntimeInv'
  <2>1. PICK j : Enter(p, j)
      BY <1>6 DEF Take
  <2> QED
      BY <2>1, EnterInv
<1>7. CASE UNCHANGED vars
    BY <1>7, <1>1 DEF vars, rtvars
<1>8. CASE \E p \in Procs, j \in Jobs : PushResult(p, j) \/ Ack(p, j)
    BY <1>8, <1>1 DEF PushResult, Ack
<1>9. CASE \/ \E j \in Jobs : Publish(j)
           \/ \E p \in Procs : Stop(p) \/ Drained(p)
    BY <1>9, <1>1 DEF Publish, Stop, Drained, rtvars
<1> QED
    BY <1>2, <1>3, <1>4, <1>5, <1>6, <1>7, <1>8, <1>9 DEF Next, Progress

-----------------------------------------------------------------------------
(* The queue *)

\* A batch is its first entry and the rest of it.
LEMMA BatchSplits ==
    ASSUME NEW s \in Seq(Jobs), s # <<>>
    PROVE  /\ Head(s) \in Jobs /\ Rest(s) \in Seq(Jobs)
           /\ Range(s) = {Head(s)} \cup Range(Rest(s))
<1>1. /\ Head(s) \in Jobs /\ Tail(s) \in Seq(Jobs) /\ Len(Tail(s)) = Len(s) - 1
      /\ \A i \in 1..Len(Tail(s)) : Tail(s)[i] = s[i + 1]
    BY HeadTailProperties
<1>2. Len(s) \in Nat \ {0} /\ DOMAIN s = 1..Len(s) /\ DOMAIN Tail(s) = 1..Len(Tail(s))
    BY <1>1, EmptySeq, LenProperties
<1>3. Head(s) = s[1]
    BY <1>2
<1> DEFINE n == Len(s)
           t == Tail(s)
<1>4. /\ n \in Nat \ {0} /\ DOMAIN s = 1..n /\ DOMAIN t = 1..(n - 1)
      /\ \A i \in 1..(n - 1) : t[i] = s[i + 1]
    BY <1>1, <1>2
<1> HIDE DEF n, t
<1>5. ASSUME NEW x \in Range(s) PROVE x = s[1] \/ x \in Range(t)
  <2>1. PICK i \in 1..n : x = s[i]
      BY <1>4 DEF Range
  <2>2. CASE i # 1
    <3>1. i - 1 \in 1..(n - 1) /\ (i - 1) + 1 = i
        BY <2>2, <1>4
    <3>2. t[i - 1] = x
        BY <2>1, <3>1, <1>4
    <3> QED
        BY <3>1, <3>2, <1>4 DEF Range
  <2> QED
      BY <2>1, <2>2
<1>6. ASSUME NEW x \in Range(t) PROVE x \in Range(s)
  <2>1. PICK i \in 1..(n - 1) : x = t[i]
      BY <1>4 DEF Range
  <2>2. i + 1 \in 1..n
      BY <1>4
  <2> QED
      BY <2>1, <2>2, <1>4 DEF Range
<1>7. s[1] \in Range(s)
  <2>1. 1 \in 1..n
      BY <1>4
  <2> QED
      BY <2>1, <1>4 DEF Range
<1>8. Range(s) = {Head(s)} \cup Range(t)
    BY <1>3, <1>5, <1>6, <1>7
<1> QED
    BY <1>1, <1>8 DEF Rest, t

\* A sequence has finitely many values.
LEMMA FiniteRange ==
    ASSUME NEW s \in Seq(Jobs) PROVE Cardinality(Range(s)) \in Nat
<1>1. Len(s) \in Nat /\ DOMAIN s = 1..Len(s) /\ s = [i \in 1..Len(s) |-> s[i]]
    BY LenProperties
<1>2. s \in Surjection(1..Len(s), Range(s))
    BY <1>1 DEF Surjection, Range
<1>3. IsFiniteSet(1..Len(s))
  <2>1. \A n \in Nat : n \in Int /\ 1 \in Int
      OBVIOUS
  <2>2. \A n \in Nat : IsFiniteSet(1..n)
      BY <2>1, FS_Interval
  <2> QED
      BY <1>1, <2>2
<1>4. IsFiniteSet(Range(s))
    BY <1>2, <1>3, FS_Surjection
<1> QED
    BY <1>4, FS_CardinalityType

\* XREADGROUP gives jobs of the stream.
LEMMA EntriesAreJobs ==
    ASSUME QueueInv PROVE NewEntries \in Seq(Jobs)
<1> DEFINE n == Len(queue)
           last == IF cursor + Prefetch < n THEN cursor + Prefetch ELSE n
<1>1. /\ n \in Nat /\ DOMAIN queue = 1..n /\ \A i \in 1..n : queue[i] \in Jobs
      /\ cursor \in Nat /\ Prefetch \in Nat
    BY LenProperties, WorkersAssumption DEF QueueInv
<1> HIDE DEF n
<1>2. last \in Int /\ last <= n /\ cursor + 1 \in Int /\ cursor + 1 >= 1
    BY <1>1
<1> HIDE DEF last
<1>3. \A i \in (cursor + 1)..last : i \in 1..n
    BY <1>1, <1>2
<1>4. \A i \in (cursor + 1)..last : queue[i] \in Jobs
    BY <1>1, <1>3
<1>5. SubSeq(queue, cursor + 1, last) \in Seq(Jobs)
    BY <1>2, <1>4, SubSeqProperties
<1> QED
    BY <1>5 DEF NewEntries, last, n

\* pop: what was read is in the buffer, but for the entry that is in flight now.
LEMMA TakeQueue ==
    ASSUME QueueInv, NEW p \in Procs, Take(p) PROVE QueueInv'
<1> DEFINE batch == IF buffer[p] # <<>> THEN buffer[p] ELSE NewEntries
           fresh == IF buffer[p] # <<>> THEN {} ELSE Range(NewEntries)
<1>1. /\ batch # <<>> /\ buffer' = [buffer EXCEPT ![p] = Rest(batch)]
      /\ cursor' = cursor + Cardinality(fresh)
      /\ pending' = [j \in fresh \cup DOMAIN pending |-> IF j \in fresh THEN p ELSE pending[j]]
      /\ inFlight' = [inFlight EXCEPT ![p] = @ \cup {Head(batch)}]
      /\ UNCHANGED <<queue, results, undelivered, acked, worker, crashes>>
    BY DEF Take
<1>2. batch \in Seq(Jobs) /\ Cardinality(fresh) \in Nat
  <2>1. NewEntries \in Seq(Jobs) /\ buffer[p] \in Seq(Jobs)
      BY EntriesAreJobs DEF QueueInv
  <2>2. Cardinality(Range(NewEntries)) \in Nat
      BY <2>1, FiniteRange
  <2>3. Cardinality({}) \in Nat
      BY FS_EmptySet
  <2> QED
      BY <2>1, <2>2, <2>3
<1>3. fresh \subseteq Range(batch) /\ (Range(buffer[p]) \subseteq Range(batch))
    BY EmptySeq DEF Range
<1> HIDE DEF batch, fresh
<1>4. /\ Head(batch) \in Jobs /\ Rest(batch) \in Seq(Jobs)
      /\ Range(batch) = {Head(batch)} \cup Range(Rest(batch))
    BY <1>1, <1>2, BatchSplits
<1>5. buffer' = [q \in Procs |-> buffer'[q]] /\ \A q \in Procs : buffer'[q] \in Seq(Jobs)
    BY <1>1, <1>4 DEF QueueInv
<1>6. inFlight' = [q \in Procs |-> inFlight'[q]]
    BY <1>1 DEF QueueInv
<1>7. cursor' \in Nat
    BY <1>1, <1>2 DEF QueueInv
<1>8. /\ DOMAIN pending' = fresh \cup DOMAIN pending
      /\ \A j \in DOMAIN pending' : pending'[j] = IF j \in fresh THEN p ELSE pending[j]
    BY <1>1
<1>9. \A j \in DOMAIN pending' : pending'[j] \in Procs
    BY <1>8 DEF QueueInv
<1>10. /\ buffer'[p] = Rest(batch) /\ inFlight'[p] = inFlight[p] \cup {Head(batch)}
       /\ \A q \in Procs : q # p => buffer'[q] = buffer[q] /\ inFlight'[q] = inFlight[q]
    BY <1>1 DEF QueueInv
<1>11. \A j \in Range(batch) : Held(j, p, buffer', inFlight', undelivered)
    BY <1>4, <1>10 DEF Held
<1>12. ASSUME crashes = 0, NEW j \in DOMAIN pending'
       PROVE  Held(j, pending'[j], buffer', inFlight', undelivered)
  <2>1. CASE j \in fresh
      BY <2>1, <1>3, <1>8, <1>11
  <2>2. CASE j \notin fresh
    <3>1. j \in DOMAIN pending /\ pending'[j] = pending[j] /\ pending[j] \in Procs
        BY <2>2, <1>8 DEF QueueInv
    <3>2. Held(j, pending[j], buffer, inFlight, undelivered)
        BY <1>12, <3>1 DEF QueueInv
    <3> QED
        BY <3>1, <3>2, <1>3, <1>10, <1>11 DEF Held
  <2> QED
      BY <2>1, <2>2
<1> QED
    BY <1>1, <1>5, <1>6, <1>7, <1>9, <1>12 DEF QueueInv

\* An entry that leaves the worker's hands was acknowledged or reported.
LEMMA HandsOver ==
    ASSUME QueueInv, NEW p \in Procs, NEW j, Release(p, j),
           UNCHANGED <<queue, cursor, buffer, crashes>>,
           acked' \subseteq results', undelivered \subseteq undelivered',
           DOMAIN pending' \subseteq DOMAIN pending,
           \A k \in DOMAIN pending' : pending'[k] = pending[k],
           j \in DOMAIN pending' => j \in undelivered'
    PROVE  QueueInv'
<1>1. /\ inFlight' = [q \in Procs |-> inFlight'[q]]
      /\ \A q \in Procs : inFlight[q] \ {j} \subseteq inFlight'[q]
    BY DEF QueueInv, Release
<1>2. ASSUME crashes = 0, NEW k \in DOMAIN pending'
      PROVE  Held(k, pending'[k], buffer', inFlight', undelivered')
  <2>1. k \in DOMAIN pending /\ pending'[k] = pending[k] /\ pending[k] \in Procs
      BY DEF QueueInv
  <2>2. Held(k, pending[k], buffer, inFlight, undelivered)
      BY <1>2, <2>1 DEF QueueInv
  <2>3. CASE k = j
      BY <2>3 DEF Held
  <2>4. CASE k # j
      BY <2>1, <2>2, <2>4, <1>1 DEF Held
  <2> QED
      BY <2>3, <2>4
<1>3. \A k \in DOMAIN pending' : pending'[k] \in Procs
    BY DEF QueueInv
<1> QED
    BY <1>1, <1>2, <1>3 DEF QueueInv

\* RuntimeWorker._process: push_result.
LEMMA PushResultQueue ==
    ASSUME QueueInv, NEW p \in Procs, NEW j \in Jobs, PushResult(p, j) PROVE QueueInv'
<1>1. CASE results' = results \cup {j} /\ UNCHANGED <<undelivered, inFlight>>
    BY <1>1 DEF PushResult, QueueInv
<1>2. CASE undelivered' = undelivered \cup {j} /\ Release(p, j) /\ UNCHANGED results
  <2>1. UNCHANGED <<queue, cursor, pending, buffer, acked, crashes>>
      BY DEF PushResult
  <2>2. acked' \subseteq results'
      BY <1>2, <2>1 DEF QueueInv
  <2> QED
      BY <1>2, <2>1, <2>2, HandsOver
<1> QED
    BY <1>1, <1>2 DEF PushResult

\* RuntimeWorker._process: ack.
LEMMA AckQueue ==
    ASSUME QueueInv, NEW p \in Procs, NEW j \in Jobs, Ack(p, j) PROVE QueueInv'
<1>1. /\ Release(p, j) /\ j \in results
      /\ UNCHANGED <<queue, cursor, buffer, results, crashes>> /\ acked \subseteq results
    BY DEF Ack, QueueInv
<1>2. CASE /\ acked' = acked \cup {j} /\ UNCHANGED undelivered
           /\ pending' = [k \in DOMAIN pending \ {j} |-> pending[k]]
    BY <1>1, <1>2, HandsOver
<1>3. CASE undelivered' = undelivered \cup {j} /\ UNCHANGED <<acked, pending>>
    BY <1>1, <1>3, HandsOver
<1> QED
    BY <1>2, <1>3 DEF Ack

\* Every step of the system keeps what the queue guarantees.
LEMMA QueueStep == QueueInv /\ [Next]_vars => QueueInv'
<1> SUFFICES ASSUME QueueInv, [Next]_vars PROVE QueueInv'
    OBVIOUS
<1>1. CASE UNCHANGED wkvars
    BY <1>1 DEF QueueInv, wkvars
<1>2. ASSUME NEW p \in Procs, Take(p) PROVE QueueInv'
    BY <1>2, TakeQueue
<1>3. ASSUME NEW p \in Procs, Drained(p) PROVE QueueInv'
    BY <1>3 DEF Drained, QueueInv
<1>4. ASSUME NEW p \in Procs, NEW j \in Jobs, PushResult(p, j) \/ Ack(p, j) PROVE QueueInv'
    BY <1>4, PushResultQueue, AckQueue
<1>5. ASSUME NEW j \in Jobs, Publish(j) PROVE QueueInv'
  <2>1. queue' \in Seq(Jobs)
      BY <1>5, AppendProperties DEF Publish, QueueInv
  <2>2. UNCHANGED <<cursor, pending, buffer, inFlight, results, undelivered, acked, crashes>>
      BY <1>5 DEF Publish
  <2> QED
      BY <2>1, <2>2 DEF QueueInv
<1>6. ASSUME NEW p \in Procs, Stop(p) PROVE QueueInv'
  <2>1. crashes' \in Nat /\ crashes' # 0
      BY <1>6 DEF Stop, QueueInv
  <2>2. UNCHANGED <<queue, cursor, pending, buffer, inFlight, results, undelivered, acked>>
      BY <1>6 DEF Stop
  <2> QED
      BY <2>1, <2>2 DEF QueueInv
<1>7. ASSUME NEW p \in Procs, Crash(p) PROVE QueueInv'
  <2>1. crashes' \in Nat /\ crashes' # 0
      BY <1>7 DEF Crash, QueueInv
  <2>2. UNCHANGED <<queue, cursor, pending, results, undelivered, acked>>
      BY <1>7 DEF Crash
  <2>3. buffer' = [q \in Procs |-> buffer'[q]] /\ \A q \in Procs : buffer'[q] \in Seq(Jobs)
      BY <1>7, EmptySeq DEF Crash, QueueInv
  <2>4. inFlight' = [q \in Procs |-> inFlight'[q]]
      BY <1>7 DEF Crash, QueueInv
  <2> QED
      BY <2>1, <2>2, <2>3, <2>4 DEF QueueInv
<1>8. CASE \/ \E p \in Procs, r \in Requests : StartStream(p, r)
           \/ \E r \in Requests : Step(r) \/ Hangup(r)
    BY <1>8, <1>1 DEF StartStream, Step, Hangup
<1>9. CASE UNCHANGED vars
    BY <1>9, <1>1 DEF vars
<1> QED
    BY <1>2, <1>3, <1>4, <1>5, <1>6, <1>7, <1>8, <1>9 DEF Next, Progress

-----------------------------------------------------------------------------
(* The theorems *)

\* Nothing is queued yet.
LEMMA QueueInit == Init => QueueInv
BY EmptySeq DEF Init, QueueInv

\* The inductive invariant of the runtime and its workers.
THEOREM RuntimeInvariant == Spec => [](RuntimeInv /\ QueueInv)
<1>1. Init => RuntimeInv /\ QueueInv
    BY RtInitInv, QueueInit DEF Init
<1>2. RuntimeInv /\ QueueInv /\ [Next]_vars => RuntimeInv' /\ QueueInv'
    BY RuntimeStep, QueueStep
<1> QED
    BY <1>1, <1>2, PTL DEF Spec

\* A caller gets the answer to its own question (CacheLookup.fingerprint,
\* SemanticCacheLookup.execute, Runtime._write_back_cache), whatever fails and
\* whichever processes share the caches.
THEOREM AnswersAreOwn == Spec => []AnswersTheRequest
<1>1. RuntimeInv => AnswersTheRequest
  <2> SUFFICES ASSUME RuntimeInv, NEW r \in Requests, ctx[r].outcome = "ok"
               PROVE  /\ ctx[r].cached \in {Nothing, "exact"} => ctx[r].answer.asked = Asked(r)
                      /\ ctx[r].cached = "semantic" =>
                            Similarity(Req[r].query, ctx[r].answer.asked.query) >= Threshold
                      /\ ctx[r].cached # Nothing => ctx[r].answer.text
      BY DEF AnswersTheRequest
  <2>1. AnswerOK(r, ctx[r].hist, ctx[r].answer, ctx[r].cached)
      BY DEF RuntimeInv, CtxOK
  <2>2. Asked(r) = AskedBy(r, ctx[r].hist)
      BY DEF Asked, AskedBy
  <2> QED
      BY <2>1, <2>2 DEF AnswerOK
<1> QED
    BY <1>1, RuntimeInvariant, PTL

\* What a client is streamed comes from one provider, and
\* AllProvidersFailedError is raised only when each of them has been tried for
\* good (ProviderRouter.complete, ProviderRouter.stream), for any number of
\* providers and any retry policy.
THEOREM FallbackStaysClean == Spec => []FallbackIsClean
<1>1. RuntimeInv => FallbackIsClean
  <2> SUFFICES ASSUME RuntimeInv, NEW r \in Requests
               PROVE  /\ Cardinality(ctx[r].sent) <= 1
                      /\ ctx[r].outcome = "unavailable" => ctx[r].spent = Provider
      BY DEF FallbackIsClean
  <2>1. RouteOK(r, ctx[r])
      BY DEF RuntimeInv, CtxOK
  <2>2. PICK p \in Provider : ctx[r].sent \subseteq {p}
      BY <2>1 DEF RouteOK
  <2>3. Cardinality(ctx[r].sent) <= 1
    <3>1. IsFiniteSet({p}) /\ Cardinality({p}) = 1
        BY FS_Singleton
    <3>2. ctx[r].sent \in SUBSET {p}
        BY <2>2
    <3>3. Cardinality(ctx[r].sent) <= Cardinality({p})
        BY <3>1, <3>2, FS_Subset
    <3> QED
        BY <3>1, <3>3
  <2> QED
      BY <2>1, <2>3 DEF RouteOK
<1> QED
    BY <1>1, RuntimeInvariant, PTL

\* A job is acknowledged only after its result is stored, and what the group
\* has handed out and not had acknowledged is in a live worker's hands or was
\* reported (RedisStreamQueue.pop, RuntimeWorker._process), for any prefetch
\* and concurrency, as long as no worker died.
THEOREM PendingStaysHeld == Spec => []PendingIsHeld
<1>1. QueueInv => PendingIsHeld
    BY DEF QueueInv, PendingIsHeld, Held
<1> QED
    BY <1>1, RuntimeInvariant, PTL
==============================================================================
