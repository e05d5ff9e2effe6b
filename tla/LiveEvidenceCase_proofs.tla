----------------------- MODULE LiveEvidenceCase_proofs -----------------------
(***************************************************************************)
(* Theorems about LiveEvidenceCase: for any cases, any interleaving of the *)
(* processes with the parent, and any number of mishaps.                   *)
(***************************************************************************)
EXTENDS LiveEvidenceClient, LiveEvidenceCase, SequenceTheorems, TLAPS

-----------------------------------------------------------------------------
(* The order of the scripts *)

Dos == {"spawn", "resume", "startup", "sample_startup", "ask", "shutdown", "classify", "sample",
        "alive", "call", "invalidate", "supersede", "snapshot", "terminate", "await_exit",
        "conclude", "census", "wait", "close", "record", "done"}
Ops == Operations \cup {"none", "before_resolve", "after_resolve"}
Steps == [do : Dos, on : Labels, op : Ops]

\* What the parent knows at a position of the prefix or the failure: how many canonical calls
\* it has made, which claims it has withdrawn since the last census, and which child it has
\* spawned and not yet resumed.
Views == [n : 0..5, out : SUBSET Domains, new : Labels \cup {"none"}]

\* The steps that change nothing of it.
Neutral == {"startup", "sample_startup", "alive", "snapshot", "terminate", "await_exit", "conclude"}

\* What a step relies on, and what is known when it is done.
Allowed(c, s, v, x) ==
  CASE x.do = "spawn" -> v.new = "none"
    [] x.do = "resume" -> v.new = x.on
    [] x.do = "ask" ->
         /\ x.on \in Domains /\ x.op \in Operations
         /\ x.op \in {"bind_0001", "materialize_0001"} => s = "prefix" /\ v.n = 0
    [] x.do = "call" -> v.n <= 4 /\ (v.n = 3 => v.out = Domains \/ c \in CanonicalFaults)
    [] x.do \in {"invalidate", "classify", "sample"} -> x.on \in Domains
    [] x.do = "supersede" -> x.on \in Domains /\ v.n >= 4 /\ c \notin CanonicalFaults
    [] OTHER -> x.do \in Neutral

After(v, x) ==
  CASE x.do = "spawn" -> [v EXCEPT !.new = x.on]
    [] x.do = "resume" -> [v EXCEPT !.new = "none"]
    [] x.do = "call" -> [v EXCEPT !.n = @ + 1]
    [] x.do = "invalidate" -> [v EXCEPT !.out = @ \cup {x.on}]
    [] x.do \in {"classify", "supersede"} -> [v EXCEPT !.out = @ \ {x.on}]
    [] OTHER -> v

\* t gives the view at every position of the program p, and one of Y at its end.
Marks(c, s, p, t, Y) ==
  /\ p \in Seq(Steps)
  /\ t \in [1 .. Len(p) + 1 -> Views] /\ t[Len(p) + 1] \in Y
  /\ \A k \in 1 .. Len(p) : Allowed(c, s, t[k], p[k]) /\ t[k + 1] = After(t[k], p[k])

\* From any view of X the program keeps this order to a view of Y.
Leads(c, s, p, X, Y) == \A v \in X : \E t : Marks(c, s, p, t, Y) /\ t[1] = v

LEMMA Joined ==
  ASSUME NEW c, NEW s, NEW p, NEW q, NEW a, NEW b, NEW Y, NEW Z,
         Marks(c, s, p, a, Y), Marks(c, s, q, b, Z), b[1] = a[Len(p) + 1]
  PROVE  \E t : Marks(c, s, p \o q, t, Z) /\ t[1] = a[1]
<1> DEFINE n == Len(p)
           m == Len(q)
           r == p \o q
<1>1. /\ p \in Seq(Steps) /\ q \in Seq(Steps) /\ n \in Nat /\ m \in Nat
  BY DEF Marks
<1>2. /\ a \in [1 .. n + 1 -> Views]
      /\ \A k \in 1 .. n : Allowed(c, s, a[k], p[k]) /\ a[k + 1] = After(a[k], p[k])
  BY DEF Marks
<1>3. /\ b \in [1 .. m + 1 -> Views] /\ b[m + 1] \in Z
      /\ \A k \in 1 .. m : Allowed(c, s, b[k], q[k]) /\ b[k + 1] = After(b[k], q[k])
  BY DEF Marks
<1>4. /\ r \in Seq(Steps) /\ Len(r) = n + m
      /\ \A k \in 1 .. n : r[k] = p[k]
      /\ \A k \in 1 .. m : r[n + k] = q[k]
  BY <1>1
<1>0. b[1] = a[n + 1]
  OBVIOUS
<1> HIDE DEF n, m, r
<1> DEFINE t == [k \in 1 .. n + m + 1 |-> IF k <= n THEN a[k] ELSE b[k - n]]
<1>5. t \in [1 .. n + m + 1 -> Views] /\ t[n + m + 1] \in Z
  BY <1>1, <1>2, <1>3
<1>6. \A k \in 1 .. n + 1 : t[k] = a[k]
  BY <1>0, <1>1, <1>2, <1>3
<1>7. \A k \in 1 .. m + 1 : t[n + k] = b[k]
  BY <1>1, <1>3
<1>8. t[1] = a[1]
  <2>1. 1 \in 1 .. n + 1
    BY <1>1
  <2>2. QED
    BY <1>2, <1>6, <2>1
<1> HIDE DEF t
<1>9. ASSUME NEW k \in 1 .. n + m
      PROVE  Allowed(c, s, t[k], r[k]) /\ t[k + 1] = After(t[k], r[k])
  <2>1. CASE k <= n
    <3>0. k \in 1 .. n /\ k \in 1 .. n + 1 /\ k + 1 \in 1 .. n + 1
      BY <1>1, <2>1
    <3>1. t[k] = a[k] /\ t[k + 1] = a[k + 1] /\ r[k] = p[k]
      BY <1>4, <1>6, <3>0
    <3>2. QED
      BY <1>2, <3>0, <3>1
  <2>2. CASE ~(k <= n)
    <3>1. PICK j \in 1 .. m : k = n + j
      <4>1. k - n \in 1 .. m /\ k = n + (k - n)
        BY <1>1, <2>2
      <4>2. QED
        BY <4>1
    <3>2. j \in 1 .. m + 1 /\ j + 1 \in 1 .. m + 1 /\ n + (j + 1) = k + 1
      BY <1>1, <3>1
    <3>3. t[k] = b[j] /\ t[k + 1] = b[j + 1] /\ r[k] = q[j]
      BY <1>4, <1>7, <3>1, <3>2
    <3>4. QED
      BY <1>3, <3>3
  <2>3. QED
    BY <2>1, <2>2
<1>10. Marks(c, s, r, t, Z)
  BY <1>4, <1>5, <1>9 DEF Marks
<1>11. QED
  BY <1>8, <1>10 DEF r

LEMMA LeadsOn ==
  ASSUME NEW c, NEW s, NEW p, NEW q, NEW X, NEW Y, NEW Z, Leads(c, s, p, X, Y), Leads(c, s, q, Y, Z)
  PROVE  Leads(c, s, p \o q, X, Z)
<1> SUFFICES ASSUME NEW u \in X PROVE \E t : Marks(c, s, p \o q, t, Z) /\ t[1] = u
  BY DEF Leads
<1>1. PICK a : Marks(c, s, p, a, Y) /\ a[1] = u
  BY DEF Leads
<1>2. a[Len(p) + 1] \in Y
  BY <1>1 DEF Marks
<1>3. PICK b : Marks(c, s, q, b, Z) /\ b[1] = a[Len(p) + 1]
  BY <1>2 DEF Leads
<1>4. QED
  BY <1>1, <1>3, Joined

LEMMA LeadsNowhere ==
  ASSUME NEW c, NEW s, NEW X \in SUBSET Views
  PROVE  Leads(c, s, <<>>, X, X)
<1> SUFFICES ASSUME NEW v \in X PROVE \E t : Marks(c, s, <<>>, t, X) /\ t[1] = v
  BY DEF Leads
<1> DEFINE t == [k \in 1..1 |-> v]
<1>1. t \in [1..1 -> Views] /\ t[1] = v /\ <<>> \in Seq(Steps) /\ Len(<<>>) = 0
  OBVIOUS
<1> HIDE DEF t
<1>2. QED
  BY <1>1 DEF Marks

LEMMA LeadsWider ==
  ASSUME NEW c, NEW s, NEW p, NEW X, NEW Y, NEW Z, Leads(c, s, p, X, Y), Y \subseteq Z
  PROVE  Leads(c, s, p, X, Z)
<1>1. \A t : Marks(c, s, p, t, Y) => Marks(c, s, p, t, Z)
  BY DEF Marks
<1>2. QED
  BY <1>1 DEF Leads

LEMMA LeadsStep ==
  ASSUME NEW c, NEW s, NEW do \in Dos, NEW on \in Labels, NEW op \in Ops,
         NEW X \in SUBSET Views, NEW Y \in SUBSET Views,
         \A v \in X : Allowed(c, s, v, S(do, on, op)) /\ After(v, S(do, on, op)) \in Y
  PROVE  Leads(c, s, <<S(do, on, op)>>, X, Y)
<1> DEFINE x == S(do, on, op)
<1>1. x \in Steps
  BY DEF Steps, S
<1>2. \A v \in X : Allowed(c, s, v, x) /\ After(v, x) \in Y
  OBVIOUS
<1> HIDE DEF x
<1>3. ASSUME NEW v \in X PROVE \E t : Marks(c, s, <<x>>, t, Y) /\ t[1] = v
  <2> DEFINE t == [k \in 1..2 |-> IF k = 1 THEN v ELSE After(v, x)]
  <2>1. <<x>> \in Seq(Steps) /\ Len(<<x>>) = 1 /\ <<x>>[1] = x
    BY <1>1
  <2>2. t \in [1..2 -> Views] /\ t[1] = v /\ t[2] = After(v, x)
    BY <1>2
  <2> HIDE DEF t
  <2>3. Marks(c, s, <<x>>, t, Y)
    BY <1>2, <2>1, <2>2 DEF Marks
  <2>4. QED
    BY <2>2, <2>3
<1>4. QED
  BY <1>3 DEF Leads, x

LEMMA LeadsTwo ==
  ASSUME NEW c, NEW s, NEW x, NEW y, NEW X, NEW Y, NEW Z,
         Leads(c, s, <<x>>, X, Y), Leads(c, s, <<y>>, Y, Z)
  PROVE  Leads(c, s, <<x, y>>, X, Z)
<1>1. <<x, y>> = <<x>> \o <<y>>
  <2>1. <<x>> \in Seq({x, y}) /\ <<y>> \in Seq({x, y}) /\ <<x, y>> \in Seq({x, y})
    OBVIOUS
  <2>2. Len(<<x>> \o <<y>>) = 2 /\ (<<x>> \o <<y>>)[1] = x /\ (<<x>> \o <<y>>)[2] = y
    BY <2>1
  <2>3. <<x>> \o <<y>> \in Seq({x, y}) /\ Len(<<x, y>>) = 2
    BY <2>1
  <2>4. \A i \in 1 .. Len(<<x, y>>) : <<x, y>>[i] = (<<x>> \o <<y>>)[i]
    BY <2>2, <2>3
  <2>5. QED
    BY <2>1, <2>2, <2>3, <2>4, SeqEqual
<1>2. QED
  BY <1>1, LeadsOn

LEMMA LeadsOpen ==
  ASSUME NEW c, NEW s, NEW p, NEW q, NEW X, NEW Y, NEW Z, NEW v \in X,
         Leads(c, s, p, X, Y), Leads(c, s, q, Y, Z), p # <<>> \/ q # <<>>
  PROVE  p \o q # <<>>
<1>1. PICK a : Marks(c, s, p, a, Y)
  BY DEF Leads
<1>2. p \in Seq(Steps) /\ a[Len(p) + 1] \in Y
  BY <1>1 DEF Marks
<1>3. PICK b : Marks(c, s, q, b, Z)
  BY <1>2 DEF Leads
<1>4. q \in Seq(Steps)
  BY <1>3 DEF Marks
<1>5. Len(p \o q) # 0
  BY <1>2, <1>4
<1>6. QED
  BY <1>5

\* The views with n calls made and at least the claims of O withdrawn.
Known(n, O) == [n : {n}, out : {o \in SUBSET Domains : O \subseteq o}, new : {"none"}]
CallsOf(c) == IF Phases(c) < 2 THEN 0 ELSE IF Phases(c) = 2 THEN 3 ELSE 4

LEMMA KnownViews ==
  ASSUME NEW n \in 0..5, NEW O
  PROVE  Known(n, O) \in SUBSET Views
  BY DEF Known, Views

LEMMA KnownSome == ASSUME NEW n \in 0..5 PROVE \E v : v \in Known(n, {})
<1>1. [n |-> n, out |-> {}, new |-> "none"] \in Known(n, {})
  BY DEF Known
<1>2. QED
  BY <1>1

LEMMA LabelsOf == "domain_A" \in Labels /\ "domain_B" \in Labels /\ "replacement" \in Labels
  BY CaseAssumption

LEMMA DomainLabels == ASSUME NEW d \in Domains PROVE d \in Labels
  BY LabelsOf DEF Domains

LEMMA NeutralLeads ==
  ASSUME NEW c, NEW s, NEW do \in Neutral, NEW l \in Labels, NEW op \in Ops,
         NEW n \in 0..5, NEW O
  PROVE  Leads(c, s, <<S(do, l, op)>>, Known(n, O), Known(n, O))
<1>1. do \in Dos
  BY DEF Neutral, Dos
<1>2. \A v : Allowed(c, s, v, S(do, l, op)) /\ After(v, S(do, l, op)) = v
  BY DEF Allowed, After, S, Neutral
<1>3. QED
  BY <1>1, <1>2, KnownViews, LeadsStep

LEMMA SampleLeads ==
  ASSUME NEW c, NEW s, NEW d \in Domains, NEW op \in Ops, NEW n \in 0..5, NEW O
  PROVE  Leads(c, s, <<S("sample", d, op)>>, Known(n, O), Known(n, O))
<1>1. "sample" \in Dos /\ d \in Labels
  BY DomainLabels DEF Dos
<1>2. \A v : Allowed(c, s, v, S("sample", d, op)) /\ After(v, S("sample", d, op)) = v
  BY DEF Allowed, After, S
<1>3. QED
  BY <1>1, <1>2, KnownViews, LeadsStep

Later == {"bind_0001", "materialize_0001"}
LEMMA AskLeads ==
  ASSUME NEW c, NEW s, NEW d \in Domains, NEW op \in Operations, NEW n \in 0..5, NEW O,
         op \in Later => s = "prefix" /\ n = 0
  PROVE  Leads(c, s, <<S("ask", d, op)>>, Known(n, O), Known(n, O))
<1>1. "ask" \in Dos /\ d \in Labels /\ op \in Ops
  BY DomainLabels DEF Dos, Ops
<1>2. \A v \in Known(n, O) : Allowed(c, s, v, S("ask", d, op)) /\ After(v, S("ask", d, op)) = v
  BY DEF Allowed, After, S, Later, Known
<1>3. QED
  BY <1>1, <1>2, KnownViews, LeadsStep

LEMMA ClassifyLeads ==
  ASSUME NEW c, NEW s, NEW d \in Domains, NEW op \in Ops, NEW n \in 0..5
  PROVE  Leads(c, s, <<S("classify", d, op)>>, Known(n, {}), Known(n, {}))
<1>1. "classify" \in Dos /\ d \in Labels
  BY DomainLabels DEF Dos
<1>2. \A v \in Known(n, {}) : Allowed(c, s, v, S("classify", d, op))
                               /\ After(v, S("classify", d, op)) \in Known(n, {})
  BY DEF Allowed, After, S, Known
<1>3. QED
  BY <1>1, <1>2, KnownViews, LeadsStep

LEMMA SupersedeLeads ==
  ASSUME NEW c, NEW s, NEW d \in Domains, c \notin CanonicalFaults
  PROVE  Leads(c, s, <<S("supersede", d, "none")>>, Known(4, {}), Known(4, {}))
<1>1. "supersede" \in Dos /\ d \in Labels /\ "none" \in Ops
  BY DomainLabels DEF Dos, Ops
<1>2. \A v \in Known(4, {}) : Allowed(c, s, v, S("supersede", d, "none"))
                               /\ After(v, S("supersede", d, "none")) \in Known(4, {})
  BY DEF Allowed, After, S, Known
<1>3. QED
  BY <1>1, <1>2, KnownViews, LeadsStep

LEMMA InvalidateLeads ==
  ASSUME NEW c, NEW s, NEW d \in Domains, NEW n \in 0..5, NEW O
  PROVE  Leads(c, s, <<S("invalidate", d, "none")>>, Known(n, O), Known(n, O \cup {d}))
<1>1. "invalidate" \in Dos /\ d \in Labels /\ "none" \in Ops
  BY DomainLabels DEF Dos, Ops
<1>2. \A v \in Known(n, O) : Allowed(c, s, v, S("invalidate", d, "none"))
                               /\ After(v, S("invalidate", d, "none")) \in Known(n, O \cup {d})
  BY DEF Allowed, After, S, Known
<1>3. QED
  BY <1>1, <1>2, KnownViews, LeadsStep

LEMMA CallLeads ==
  ASSUME NEW c, NEW s, NEW n \in 0..4, NEW O,
         n = 3 => O = Domains \/ c \in CanonicalFaults
  PROVE  Leads(c, s, Canonical, Known(n, O), Known(n + 1, O))
<1>1. "call" \in Dos /\ "domain_A" \in Labels /\ "none" \in Ops /\ n \in 0..5 /\ n + 1 \in 0..5
  BY LabelsOf DEF Dos, Ops
<1>2. \A v \in Known(n, O) : Allowed(c, s, v, S("call", "domain_A", "none"))
                               /\ After(v, S("call", "domain_A", "none")) \in Known(n + 1, O)
  BY DEF Allowed, After, S, Known
<1>3. QED
  BY <1>1, <1>2, KnownViews, LeadsStep DEF Canonical

LEMMA LaunchLeads ==
  ASSUME NEW c, NEW s, NEW l \in Labels, NEW n \in 0..5, NEW O
  PROVE  Leads(c, s, Launch(l), Known(n, O), Known(n, O))
<1> DEFINE Between == [n : {n}, out : {o \in SUBSET Domains : O \subseteq o}, new : {l}]
           a == S("spawn", l, "none")
           b == S("resume", l, "none")
<1>1. "spawn" \in Dos /\ "resume" \in Dos /\ "none" \in Ops
  BY DEF Dos, Ops
<1>2. Between \in SUBSET Views
  BY DEF Views
<1>3. \A v \in Known(n, O) : Allowed(c, s, v, a) /\ After(v, a) \in Between
  BY DEF Allowed, After, S, Known
<1>4. \A v \in Between : Allowed(c, s, v, b) /\ After(v, b) \in Known(n, O)
  BY DEF Allowed, After, S, Known
<1> HIDE DEF Between
<1>5. Leads(c, s, <<a>>, Known(n, O), Between)
  BY <1>1, <1>2, <1>3, KnownViews, LeadsStep
<1>6. Leads(c, s, <<b>>, Between, Known(n, O))
  BY <1>1, <1>2, <1>4, KnownViews, LeadsStep
<1>7. QED
  BY <1>5, <1>6, LeadsTwo DEF Launch

LEMMA BothNeutral ==
  ASSUME NEW c, NEW s, NEW do \in Neutral, NEW op \in Ops, NEW n \in 0..5, NEW O
  PROVE  Leads(c, s, Both(do, op), Known(n, O), Known(n, O))
<1>1. /\ Leads(c, s, <<S(do, "domain_A", op)>>, Known(n, O), Known(n, O))
      /\ Leads(c, s, <<S(do, "domain_B", op)>>, Known(n, O), Known(n, O))
  BY LabelsOf, NeutralLeads
<1>2. QED
  BY <1>1, LeadsTwo DEF Both

LEMMA InAsks ==
  ASSUME NEW c, NEW s, NEW order \in {AB, BA}, NEW op \in Operations, NEW n \in 0..5, NEW O,
         op \in Later => s = "prefix" /\ n = 0
  PROVE  Leads(c, s, In(order, "ask", op), Known(n, O), Known(n, O))
<1>1. order[1] \in Domains /\ order[2] \in Domains
  BY DEF AB, BA, Domains
<1> HIDE DEF AB, BA
<1>2. /\ Leads(c, s, <<S("ask", order[1], op)>>, Known(n, O), Known(n, O))
      /\ Leads(c, s, <<S("ask", order[2], op)>>, Known(n, O), Known(n, O))
  BY <1>1, AskLeads
<1>3. QED
  BY <1>2, LeadsTwo DEF In

LEMMA BothAsk ==
  ASSUME NEW c, NEW s, NEW op \in Operations, NEW n \in 0..5, NEW O,
         op \in Later => s = "prefix" /\ n = 0
  PROVE  Leads(c, s, Both("ask", op), Known(n, O), Known(n, O))
<1>1. "domain_A" \in Domains /\ "domain_B" \in Domains
  BY DEF Domains
<1>2. /\ Leads(c, s, <<S("ask", "domain_A", op)>>, Known(n, O), Known(n, O))
      /\ Leads(c, s, <<S("ask", "domain_B", op)>>, Known(n, O), Known(n, O))
  BY <1>1, AskLeads
<1>3. QED
  BY <1>2, LeadsTwo DEF Both

LEMMA BothDomains ==
  ASSUME NEW c, NEW s, NEW n \in 0..5
  PROVE  /\ Leads(c, s, Both("invalidate", "none"), Known(n, {}), Known(n, Domains))
         /\ c \notin CanonicalFaults =>
              Leads(c, s, Both("supersede", "none"), Known(4, {}), Known(4, {}))
<1>1. /\ "domain_A" \in Domains /\ "domain_B" \in Domains
      /\ Domains = ({} \cup {"domain_A"}) \cup {"domain_B"}
  BY DEF Domains
<1>3. Leads(c, s, Both("invalidate", "none"), Known(n, {}), Known(n, Domains))
  <2> DEFINE A == {} \cup {"domain_A"}
  <2>1. Leads(c, s, <<S("invalidate", "domain_A", "none")>>, Known(n, {}), Known(n, A))
    BY <1>1, InvalidateLeads
  <2>2. Leads(c, s, <<S("invalidate", "domain_B", "none")>>, Known(n, A), Known(n, A \cup {"domain_B"}))
    BY <1>1, InvalidateLeads
  <2>3. Leads(c, s, Both("invalidate", "none"), Known(n, {}), Known(n, A \cup {"domain_B"}))
    BY <2>1, <2>2, LeadsTwo DEF Both
  <2>4. QED
    BY <1>1, <2>3
<1>4. ASSUME c \notin CanonicalFaults
      PROVE  Leads(c, s, Both("supersede", "none"), Known(4, {}), Known(4, {}))
  BY <1>1, <1>4, SupersedeLeads, LeadsTwo DEF Both
<1>5. QED
  BY <1>3, <1>4

LEMMA BothSample ==
  ASSUME NEW c, NEW s, NEW op \in Ops, NEW n \in 0..5, NEW O
  PROVE  Leads(c, s, Both("sample", op), Known(n, O), Known(n, O))
<1>1. "domain_A" \in Domains /\ "domain_B" \in Domains
  BY DEF Domains
<1>2. /\ Leads(c, s, <<S("sample", "domain_A", op)>>, Known(n, O), Known(n, O))
      /\ Leads(c, s, <<S("sample", "domain_B", op)>>, Known(n, O), Known(n, O))
  BY <1>1, SampleLeads
<1>3. QED
  BY <1>2, LeadsTwo DEF Both

LEMMA LiveLeads ==
  ASSUME NEW c, NEW s, NEW op \in Ops, NEW n \in 0..5, NEW O
  PROVE  Leads(c, s, Live(op), Known(n, O), Known(n, O))
<1>1. "alive" \in Neutral /\ "none" \in Ops
  BY DEF Neutral, Ops
<1>2. Leads(c, s, Both("sample", op), Known(n, O), Known(n, O))
  BY BothSample
<1>3. Leads(c, s, <<S("alive", "domain_A", "none")>>, Known(n, O), Known(n, O))
  BY <1>1, LabelsOf, NeutralLeads
<1>4. QED
  BY <1>2, <1>3, LeadsOn DEF Live

LEMMA InspectsLeads ==
  ASSUME NEW c, NEW s, NEW op \in Inspections, NEW n \in 0..5
  PROVE  Leads(c, s, Inspects(op), Known(n, {}), Known(n, {})) /\ Inspects(op) # <<>>
<1>1. op \in Operations /\ op \in Ops /\ op \notin Later
  BY DEF Operations, Ops, Inspections, Later
<1> DEFINE K == Known(n, {})
<1>2. Leads(c, s, Both("ask", op), K, K)
  BY <1>1, BothAsk
<1> HIDE DEF K
<1>3. Leads(c, s, Both("classify", op), K, K)
  <2>1. "domain_A" \in Domains /\ "domain_B" \in Domains
    BY DEF Domains
  <2>2. /\ Leads(c, s, <<S("classify", "domain_A", op)>>, K, K)
        /\ Leads(c, s, <<S("classify", "domain_B", op)>>, K, K)
    BY <1>1, <2>1, ClassifyLeads DEF K
  <2>3. QED
    BY <2>2, LeadsTwo DEF Both
<1>4. Leads(c, s, Live(op), K, K)
  BY <1>1, LiveLeads DEF K
<1>5. Leads(c, s, Both("ask", op) \o Both("classify", op), K, K)
  BY <1>2, <1>3, LeadsOn
<1>6. Live(op) # <<>>
  <2>1. Leads(c, s, Both("sample", op), K, K) /\ Leads(c, s, <<S("alive", "domain_A", "none")>>, K, K)
    BY <1>1, LabelsOf, BothSample, NeutralLeads DEF K, Neutral, Ops
  <2>2. <<S("alive", "domain_A", "none")>> # <<>>
    OBVIOUS
  <2>3. QED
    BY <2>1, <2>2, KnownSome, LeadsOpen DEF Live, K
<1>7. Inspects(op) # <<>>
  BY <1>4, <1>5, <1>6, KnownSome, LeadsOpen DEF Inspects, K
<1>8. QED
  BY <1>4, <1>5, <1>7, LeadsOn DEF Inspects, K

LEMMA CallsLead ==
  ASSUME NEW c, NEW s
  PROVE  Leads(c, s, Calls3, Known(0, {}), Known(3, {}))
<1>1. /\ Leads(c, s, Canonical, Known(0, {}), Known(0 + 1, {}))
      /\ Leads(c, s, Canonical, Known(1, {}), Known(1 + 1, {}))
      /\ Leads(c, s, Canonical, Known(2, {}), Known(2 + 1, {}))
  <2>1. 0 \in 0..4 /\ 1 \in 0..4 /\ 2 \in 0..4 /\ 0 # 3 /\ 1 # 3 /\ 2 # 3
    OBVIOUS
  <2>2. QED
    BY <2>1, CallLeads
<1>2. 0 + 1 = 1 /\ 1 + 1 = 2 /\ 2 + 1 = 3
  OBVIOUS
<1>3. Leads(c, s, Canonical \o Canonical, Known(0, {}), Known(2, {}))
  BY <1>1, <1>2, LeadsOn
<1>4. QED
  BY <1>1, <1>2, <1>3, LeadsOn DEF Calls3

LEMMA ResolvesLead ==
  ASSUME NEW c, NEW s, NEW O, O = Domains \/ c \in CanonicalFaults
  PROVE  Leads(c, s, Resolves, Known(3, O), Known(4, O))
<1>1. "before_resolve" \in Ops /\ "after_resolve" \in Ops /\ 3 \in 0..5 /\ 4 \in 0..5
      /\ 3 \in 0..4 /\ 3 + 1 = 4
  BY DEF Ops
<1>2. Leads(c, s, Live("before_resolve"), Known(3, O), Known(3, O))
  BY <1>1, LiveLeads
<1>3. Leads(c, s, Canonical, Known(3, O), Known(4, O))
  BY <1>1, CallLeads
<1>4. Leads(c, s, Live("after_resolve"), Known(4, O), Known(4, O))
  BY <1>1, LiveLeads
<1>5. Leads(c, s, Live("before_resolve") \o Canonical, Known(3, O), Known(4, O))
  BY <1>2, <1>3, LeadsOn
<1>6. QED
  BY <1>4, <1>5, LeadsOn DEF Resolves

LEMMA PairsJoined ==
  ASSUME NEW w, NEW x, NEW y, NEW z
  PROVE  <<w, x, y, z>> = <<w, x>> \o <<y, z>>
<1> DEFINE A == {w, x, y, z}
           p == <<w, x, y, z>>
           q == <<w, x>> \o <<y, z>>
<1>1. /\ p \in Seq(A) /\ Len(p) = 4
      /\ p[1] = w /\ p[2] = x /\ p[3] = y /\ p[4] = z
  OBVIOUS
<1>2. <<w, x>> \in Seq(A) /\ <<y, z>> \in Seq(A) /\ Len(<<w, x>>) = 2 /\ Len(<<y, z>>) = 2
  OBVIOUS
<1>3. q \in Seq(A) /\ Len(q) = 4 /\ q[1] = w /\ q[2] = x /\ q[3] = y /\ q[4] = z
  BY <1>2
<1> HIDE DEF p, q
<1>4. \A i \in 1 .. Len(p) : p[i] = q[i]
  BY <1>1, <1>3
<1>5. p = q
  BY <1>1, <1>3, <1>4, SeqEqual
<1>6. QED
  BY <1>5 DEF p, q

LEMMA PhasesOf ==
  ASSUME NEW c
  PROVE  /\ Phases(c) \in 0..5 /\ CallsOf(c) \in 0..5
         /\ Emission(c) \in {AB, BA} /\ Refresh(c)[1] \in Domains /\ Refresh(c)[2] \in Domains
         /\ Phases(c) >= 3 => c \notin CanonicalFaults
  BY DEF Phases, CallsOf, Emission, Refresh, AB, BA, Domains, Witnesses, CanonicalFaults

LEMMA Phase0Leads ==
  ASSUME NEW c
  PROVE  Leads(c, "prefix", Phase(c, 0), Known(0, {}), Known(0, {})) /\ Phase(c, 0) # <<>>
<1> DEFINE K == Known(0, {})
           L(p) == Leads(c, "prefix", p, K, K)
           x == <<S("sample_startup", "domain_A", "none"), S("ask", "domain_A", "bind_0001"),
                  S("sample_startup", "domain_B", "none"), S("ask", "domain_B", "bind_0001")>>
           x1 == <<S("sample_startup", "domain_A", "none")>>
           x2 == <<S("ask", "domain_A", "bind_0001")>>
           x3 == <<S("sample_startup", "domain_B", "none")>>
           x4 == <<S("ask", "domain_B", "bind_0001")>>
<1>1. /\ "bind_0001" \in Operations /\ "materialize_0001" \in Operations
      /\ "inspect_L0" \in Inspections /\ "none" \in Ops /\ "startup" \in Neutral
      /\ "sample_startup" \in Neutral /\ 0 \in 0..5
      /\ "domain_A" \in Domains /\ "domain_B" \in Domains
  BY DEF Operations, Materializations, Inspections, Ops, Neutral, Domains
<1>2. L(Launch("domain_A")) /\ L(Launch("domain_B"))
  BY <1>1, LabelsOf, LaunchLeads
<1>3. L(Both("startup", "none"))
  BY <1>1, BothNeutral
<1>4. L(x1) /\ L(x2) /\ L(x3) /\ L(x4)
  BY <1>1, LabelsOf, NeutralLeads, AskLeads
<1>5. L(Both("ask", "materialize_0001"))
  BY <1>1, BothAsk
<1>6. L(Inspects("inspect_L0"))
  BY <1>1, InspectsLeads
<1> HIDE DEF K
<1>7. L(Launch("domain_A") \o Launch("domain_B"))
  BY <1>2, LeadsOn
<1>8. L(Launch("domain_A") \o Launch("domain_B") \o Both("startup", "none"))
  BY <1>3, <1>7, LeadsOn
<1>9. L(x)
  <2> DEFINE a == S("sample_startup", "domain_A", "none")
             b == S("ask", "domain_A", "bind_0001")
             d == S("sample_startup", "domain_B", "none")
             e == S("ask", "domain_B", "bind_0001")
  <2> HIDE DEF a, b, d, e
  <2>1. L(<<a>>) /\ L(<<b>>) /\ L(<<d>>) /\ L(<<e>>)
    BY <1>4 DEF a, b, d, e
  <2>2. L(<<a, b>>) /\ L(<<d, e>>)
    BY <2>1, LeadsTwo
  <2>3. L(<<a, b>> \o <<d, e>>)
    BY <2>2, LeadsOn
  <2>4. <<a, b, d, e>> = <<a, b>> \o <<d, e>>
    BY PairsJoined
  <2>5. QED
    BY <2>3, <2>4 DEF a, b, d, e
<1> HIDE DEF x
<1>10. L(Launch("domain_A") \o Launch("domain_B") \o Both("startup", "none") \o x)
  BY <1>8, <1>9, LeadsOn
<1>11. L(Launch("domain_A") \o Launch("domain_B") \o Both("startup", "none") \o x
          \o Both("ask", "materialize_0001"))
  BY <1>5, <1>10, LeadsOn
<1>12. L(Launch("domain_A") \o Launch("domain_B") \o Both("startup", "none") \o x
          \o Both("ask", "materialize_0001") \o Inspects("inspect_L0"))
  BY <1>6, <1>11, LeadsOn
<1>13. Phase(c, 0) = Launch("domain_A") \o Launch("domain_B") \o Both("startup", "none") \o x
          \o Both("ask", "materialize_0001") \o Inspects("inspect_L0")
  BY DEF Phase, x
<1>14. Phase(c, 0) # <<>>
  <2>1. Inspects("inspect_L0") # <<>>
    BY <1>1, InspectsLeads
  <2>2. QED
    BY <1>1, <1>6, <1>11, <1>13, <2>1, KnownSome, LeadsOpen DEF K
<1>15. QED
  BY <1>12, <1>13, <1>14 DEF K

LEMMA PhasesLead ==
  ASSUME NEW c
  PROVE  /\ Leads(c, "prefix", Phase(c, 1), Known(0, {}), Known(0, {}))
         /\ Leads(c, "prefix", Phase(c, 2), Known(0, {}), Known(3, {}))
         /\ c \notin CanonicalFaults =>
              Leads(c, "prefix", Phase(c, 3), Known(3, {}), Known(4, {}))
         /\ Leads(c, "prefix", Phase(c, 4), Known(4, {}), Known(4, {}))
         /\ Leads(c, "prefix", Phase(c, 5), Known(4, {}), Known(4, {}))
<1> DEFINE L(p, X, Y) == Leads(c, "prefix", p, X, Y)
<1>0. /\ "emit_0001" \in Operations /\ "materialize_0002" \in Operations
      /\ "emit_0001" \notin Later /\ "materialize_0002" \notin Later
      /\ "inspect_L1" \in Inspections /\ "inspect_L2" \in Inspections
      /\ "inspect_L3" \in Inspections /\ "inspect_L4" \in Inspections
      /\ "inspect_L5" \in Inspections
      /\ 0 \in 0..5 /\ 3 \in 0..5 /\ 4 \in 0..5
  BY DEF Operations, Materializations, Inspections, Later
<1>1. L(Phase(c, 1), Known(0, {}), Known(0, {}))
  <2>1. L(In(Emission(c), "ask", "emit_0001"), Known(0, {}), Known(0, {}))
    BY <1>0, PhasesOf, InAsks
  <2>2. L(Inspects("inspect_L1"), Known(0, {}), Known(0, {}))
    BY <1>0, InspectsLeads
  <2>3. Phase(c, 1) = In(Emission(c), "ask", "emit_0001") \o Inspects("inspect_L1")
    BY DEF Phase
  <2>4. QED
    BY <2>1, <2>2, <2>3, LeadsOn
<1>2. L(Phase(c, 2), Known(0, {}), Known(3, {}))
  <2>1. L(Inspects("inspect_L2"), Known(3, {}), Known(3, {}))
    BY <1>0, InspectsLeads
  <2>2. Phase(c, 2) = Calls3 \o Inspects("inspect_L2")
    BY DEF Phase
  <2>3. L(Calls3, Known(0, {}), Known(3, {}))
    BY CallsLead
  <2>4. QED
    BY <2>1, <2>2, <2>3, LeadsOn
<1>3. ASSUME c \notin CanonicalFaults PROVE L(Phase(c, 3), Known(3, {}), Known(4, {}))
  <2> DEFINE x == Both("invalidate", "none")
             y == Resolves
             z == Both("supersede", "none")
             i == Inspects("inspect_L3")
  <2>1. L(x, Known(3, {}), Known(3, Domains))
    BY <1>0, BothDomains
  <2>2. L(y, Known(3, Domains), Known(4, Domains))
    BY ResolvesLead
  <2>3. Known(4, Domains) \subseteq Known(4, {})
    BY DEF Known
  <2>4. L(y, Known(3, Domains), Known(4, {}))
    BY <2>2, <2>3, LeadsWider
  <2>5. L(z, Known(4, {}), Known(4, {}))
    BY <1>0, <1>3, BothDomains
  <2>6. L(i, Known(4, {}), Known(4, {}))
    BY <1>0, InspectsLeads
  <2>7. Phase(c, 3) = x \o y \o z \o i
    BY DEF Phase
  <2> HIDE DEF x, y, z, i
  <2>8. L(x \o y, Known(3, {}), Known(4, {}))
    BY <2>1, <2>4, LeadsOn
  <2>9. L(x \o y \o z, Known(3, {}), Known(4, {}))
    BY <2>5, <2>8, LeadsOn
  <2>10. QED
    BY <2>6, <2>7, <2>9, LeadsOn
<1>4. ASSUME NEW d \in Domains, NEW op \in Inspections
      PROVE  L(<<S("ask", d, "materialize_0002")>> \o Inspects(op), Known(4, {}), Known(4, {}))
  <2>1. L(<<S("ask", d, "materialize_0002")>>, Known(4, {}), Known(4, {}))
    BY <1>0, AskLeads
  <2>2. L(Inspects(op), Known(4, {}), Known(4, {}))
    BY <1>0, InspectsLeads
  <2>3. QED
    BY <2>1, <2>2, LeadsOn
<1>5. /\ Phase(c, 4) = <<S("ask", Refresh(c)[1], "materialize_0002")>> \o Inspects("inspect_L4")
      /\ Phase(c, 5) = <<S("ask", Refresh(c)[2], "materialize_0002")>> \o Inspects("inspect_L5")
  BY DEF Phase
<1>6. /\ L(Phase(c, 4), Known(4, {}), Known(4, {}))
      /\ L(Phase(c, 5), Known(4, {}), Known(4, {}))
  BY <1>0, <1>4, <1>5, PhasesOf
<1>7. QED
  BY <1>1, <1>2, <1>3, <1>6

LEMMA PrefixLeads ==
  ASSUME NEW c
  PROVE  Leads(c, "prefix", Prefix(c), Known(0, {}), Known(CallsOf(c), {})) /\ Prefix(c) # <<>>
<1> DEFINE L(p, X, Y) == Leads(c, "prefix", p, X, Y)
           K(p) == Known(IF p < 2 THEN 0 ELSE IF p = 2 THEN 3 ELSE 4, {})
           m(p) == IF p <= Phases(c) THEN p ELSE Phases(c)
           F(p) == IF Phases(c) < p THEN K(Phases(c)) ELSE K(p)
<1>0. Phases(c) \in 0..5 /\ (Phases(c) >= 3 => c \notin CanonicalFaults)
  BY PhasesOf
<1>1. K(0) = Known(0, {}) /\ K(1) = Known(0, {}) /\ K(2) = Known(3, {}) /\ K(3) = Known(4, {})
      /\ K(4) = Known(4, {}) /\ K(5) = Known(4, {}) /\ K(Phases(c)) = Known(CallsOf(c), {})
  BY DEF CallsOf
<1>2. ASSUME NEW p \in 0..5 PROVE K(p) \in SUBSET Views
  BY KnownViews
<1> HIDE DEF K
<1>3. /\ L(Phase(c, 0), K(0), K(0))
      /\ L(Phase(c, 1), K(0), K(1))
      /\ L(Phase(c, 2), K(1), K(2))
      /\ Phases(c) >= 3 => L(Phase(c, 3), K(2), K(3))
      /\ L(Phase(c, 4), K(3), K(4))
      /\ L(Phase(c, 5), K(4), K(5))
  BY <1>0, <1>1, Phase0Leads, PhasesLead
<1>4. ASSUME NEW p \in 1..5, p <= Phases(c) => L(Phase(c, p), K(p - 1), K(p))
      PROVE  L(From(c, p), F(p - 1), F(p))
  <2>1. CASE p <= Phases(c)
    BY <1>0, <1>4, <2>1 DEF From
  <2>2. CASE ~(p <= Phases(c))
    <3>1. From(c, p) = <<>> /\ F(p - 1) = F(p) /\ F(p) = K(Phases(c))
      BY <1>0, <2>2 DEF From
    <3>2. QED
      BY <1>0, <1>2, <3>1, LeadsNowhere
  <2>3. QED
    BY <2>1, <2>2
<1>5. /\ L(From(c, 1), F(0), F(1)) /\ L(From(c, 2), F(1), F(2)) /\ L(From(c, 3), F(2), F(3))
      /\ L(From(c, 4), F(3), F(4)) /\ L(From(c, 5), F(4), F(5))
  <2>1. /\ L(From(c, 1), F(1 - 1), F(1)) /\ L(From(c, 2), F(2 - 1), F(2)) /\ L(From(c, 3), F(3 - 1), F(3))
        /\ L(From(c, 4), F(4 - 1), F(4)) /\ L(From(c, 5), F(5 - 1), F(5))
    <3> HIDE DEF F
    <3>1. /\ 1 \in 1..5 /\ 2 \in 1..5 /\ 3 \in 1..5 /\ 4 \in 1..5 /\ 5 \in 1..5
          /\ 1 - 1 = 0 /\ 2 - 1 = 1 /\ 3 - 1 = 2 /\ 4 - 1 = 3 /\ 5 - 1 = 4
      OBVIOUS
    <3>2. 3 <= Phases(c) => L(Phase(c, 3), K(2), K(3))
      BY <1>0, <1>3
    <3>3. QED
      BY <1>3, <1>4, <3>1, <3>2
  <2>2. QED
    BY <2>1
<1>6. F(0) = K(0) /\ F(5) = K(Phases(c))
  BY <1>0
<1> HIDE DEF F
<1>7. L(Phase(c, 0) \o From(c, 1), K(0), F(1))
  BY <1>3, <1>5, <1>6, LeadsOn
<1>8. L(Phase(c, 0) \o From(c, 1) \o From(c, 2), K(0), F(2))
  BY <1>5, <1>7, LeadsOn
<1>9. L(Phase(c, 0) \o From(c, 1) \o From(c, 2) \o From(c, 3), K(0), F(3))
  BY <1>5, <1>8, LeadsOn
<1>10. L(Phase(c, 0) \o From(c, 1) \o From(c, 2) \o From(c, 3) \o From(c, 4), K(0), F(4))
  BY <1>5, <1>9, LeadsOn
<1>11. L(Prefix(c), K(0), F(5))
  BY <1>5, <1>10, LeadsOn DEF Prefix
<1>12. Prefix(c) # <<>>
  <2>1. PICK v : v \in K(0)
    BY <1>1, KnownSome
  <2>2. Phase(c, 0) \o From(c, 1) # <<>>
    BY <1>3, <1>5, <1>6, <2>1, LeadsOpen, Phase0Leads
  <2>3. Phase(c, 0) \o From(c, 1) \o From(c, 2) # <<>>
    BY <1>5, <1>7, <2>1, <2>2, LeadsOpen
  <2>4. Phase(c, 0) \o From(c, 1) \o From(c, 2) \o From(c, 3) # <<>>
    BY <1>5, <1>8, <2>1, <2>3, LeadsOpen
  <2>5. Phase(c, 0) \o From(c, 1) \o From(c, 2) \o From(c, 3) \o From(c, 4) # <<>>
    BY <1>5, <1>9, <2>1, <2>4, LeadsOpen
  <2>6. QED
    BY <1>5, <1>10, <2>1, <2>5, LeadsOpen DEF Prefix
<1>13. QED
  BY <1>1, <1>6, <1>11, <1>12

LEMMA LeadsThree ==
  ASSUME NEW c, NEW s, NEW x, NEW y, NEW z, NEW X,
         Leads(c, s, <<x>>, X, X), Leads(c, s, <<y>>, X, X), Leads(c, s, <<z>>, X, X)
  PROVE  Leads(c, s, <<x, y, z>>, X, X)
<1> DEFINE A == {x, y, z}
           p == <<x, y, z>>
           q == <<x, y>> \o <<z>>
<1>1. p \in Seq(A) /\ Len(p) = 3 /\ p[1] = x /\ p[2] = y /\ p[3] = z
  OBVIOUS
<1>2. <<x, y>> \in Seq(A) /\ <<z>> \in Seq(A) /\ Len(<<x, y>>) = 2 /\ Len(<<z>>) = 1
  OBVIOUS
<1>3. q \in Seq(A) /\ Len(q) = 3 /\ q[1] = x /\ q[2] = y /\ q[3] = z
  BY <1>2
<1> HIDE DEF p, q
<1>4. \A i \in 1 .. Len(p) : p[i] = q[i]
  BY <1>1, <1>3
<1>5. p = q
  BY <1>1, <1>3, <1>4, SeqEqual
<1>6. Leads(c, s, <<x, y>>, X, X)
  BY LeadsTwo
<1>7. Leads(c, s, q, X, X)
  BY <1>6, LeadsOn DEF q
<1>8. QED
  BY <1>5, <1>7 DEF p

\* The failure of a case, without its conclusion.
Fails(c) ==
  LET kill == <<S("snapshot", Killed(c), "none"), S("terminate", Killed(c), "none"),
                S("await_exit", Killed(c), "none")>>
      refresh == S("ask", ArmDomain(c), "materialize_0002")
  IN CASE c = "F01" -> <<S("ask", "domain_A", "emit_0001")>> \o Canonical \o Canonical
       [] c \in {"F02", "F03", "F05", "F06", "F10a", "F10b"} -> Canonical
       [] c \in {"F04a", "F04b"} -> Calls3
       [] c \in CanonicalFaults -> Resolves
       [] c = "F07" -> kill \o Launch("replacement")
                         \o <<S("startup", "replacement", "none"),
                              S("snapshot", "replacement", "none")>>
       [] c = "F08" -> <<S("ask", "domain_A", "emit_0001")>> \o kill
       [] c \in {"F11", "F12"} -> kill
       [] c \in {"F09", "F17", "F18"} -> <<refresh>>
       [] OTHER -> <<S("ask", ArmDomain(c), "arm_fault_0001"), refresh>> \o Inspects("inspect_L4")

LEMMA FailsLead ==
  ASSUME NEW c
  PROVE  \E n \in 0..5 : Leads(c, "failure", Fails(c), Known(CallsOf(c), {}), Known(n, {}))
<1> DEFINE n == CallsOf(c)
           K == Known(n, {})
           L(p) == Leads(c, "failure", p, K, K)
           kill == <<S("snapshot", Killed(c), "none"), S("terminate", Killed(c), "none"),
                S("await_exit", Killed(c), "none")>>
           emit == <<S("ask", "domain_A", "emit_0001")>>
           refresh == S("ask", ArmDomain(c), "materialize_0002")
<1>0. /\ "emit_0001" \in Operations /\ "materialize_0002" \in Operations /\ "none" \in Ops
      /\ "arm_fault_0001" \in Operations /\ "inspect_L4" \in Inspections
      /\ "emit_0001" \notin Later /\ "materialize_0002" \notin Later /\ "arm_fault_0001" \notin Later
      /\ "domain_A" \in Domains /\ ArmDomain(c) \in Domains /\ Killed(c) \in Labels
      /\ {"startup", "snapshot", "terminate", "await_exit"} \subseteq Neutral
  BY LabelsOf DEF Operations, Materializations, Inspections, Later, Domains, ArmDomain, Killed, Neutral, Ops
<1>1. n \in 0..5
  BY PhasesOf
<1>2. L(kill)
  <2>1. /\ L(<<S("snapshot", Killed(c), "none")>>)
        /\ L(<<S("terminate", Killed(c), "none")>>)
        /\ L(<<S("await_exit", Killed(c), "none")>>)
    BY <1>0, <1>1, NeutralLeads
  <2>2. QED
    BY <2>1, LeadsThree
<1>3. L(emit) /\ L(<<refresh>>) /\ L(<<S("ask", ArmDomain(c), "arm_fault_0001")>>)
  BY <1>0, <1>1, AskLeads
<1>4. L(Inspects("inspect_L4"))
  BY <1>0, <1>1, InspectsLeads
<1>5. CASE c = "F01"
  <2>1. n = 0
    BY <1>5 DEF CallsOf, Phases, Witnesses
  <2>2. /\ Leads(c, "failure", Canonical, Known(0, {}), Known(0 + 1, {}))
        /\ Leads(c, "failure", Canonical, Known(1, {}), Known(1 + 1, {}))
    <3>1. 0 \in 0..4 /\ 1 \in 0..4 /\ 0 # 3 /\ 1 # 3
      OBVIOUS
    <3>2. QED
      BY <3>1, CallLeads
  <2>3. 0 + 1 = 1 /\ 1 + 1 = 2 /\ 2 \in 0..5
    OBVIOUS
  <2>4. Leads(c, "failure", emit, Known(0, {}), Known(0, {}))
    BY <1>3, <2>1
  <2> HIDE DEF emit
  <2>5. Leads(c, "failure", emit \o Canonical, Known(0, {}), Known(1, {}))
    BY <2>2, <2>3, <2>4, LeadsOn
  <2>6. Leads(c, "failure", emit \o Canonical \o Canonical, Known(0, {}), Known(2, {}))
    BY <2>2, <2>3, <2>5, LeadsOn
  <2>7. Fails(c) = emit \o Canonical \o Canonical
    BY <1>5 DEF Fails, emit, CanonicalFaults
  <2>8. QED
    BY <2>1, <2>3, <2>6, <2>7
<1>6. CASE c \in {"F02", "F03", "F05", "F06", "F10a", "F10b"}
  <2>1. n \in 0..4 /\ n # 3
    BY <1>6 DEF CallsOf, Phases, Witnesses, CanonicalFaults
  <2>2. Leads(c, "failure", Canonical, K, Known(n + 1, {}))
    BY <2>1, CallLeads
  <2>3. Fails(c) = Canonical
    BY <1>6 DEF Fails, CanonicalFaults
  <2>4. n + 1 \in 0..5
    BY <2>1
  <2>5. QED
    BY <2>2, <2>3, <2>4
<1>7. CASE c \in {"F04a", "F04b"}
  <2>1. n = 0
    BY <1>7 DEF CallsOf, Phases, Witnesses
  <2>2. Fails(c) = Calls3
    BY <1>7 DEF Fails, CanonicalFaults
  <2>3. QED
    BY <2>1, <2>2, CallsLead
<1>8. CASE c \in CanonicalFaults
  <2>1. n = 3
    BY <1>8 DEF CallsOf, Phases, Witnesses, CanonicalFaults
  <2>2. Fails(c) = Resolves
    BY <1>8 DEF Fails, CanonicalFaults
  <2>3. QED
    BY <1>8, <2>1, <2>2, ResolvesLead
<1>9. CASE c = "F07"
  <2> DEFINE a == Launch("replacement")
             b == S("startup", "replacement", "none")
             d == S("snapshot", "replacement", "none")
  <2>1. Fails(c) = kill \o a \o <<b, d>>
    BY <1>9 DEF Fails
  <2>2. L(a)
    BY <1>1, LabelsOf, LaunchLeads
  <2>3. L(<<b>>) /\ L(<<d>>)
    BY <1>0, <1>1, LabelsOf, NeutralLeads
  <2> HIDE DEF a, b, d, kill
  <2>4. L(<<b, d>>)
    BY <2>3, LeadsTwo
  <2>5. L(kill \o a)
    BY <1>2, <2>2, LeadsOn
  <2>6. L(kill \o a \o <<b, d>>)
    BY <2>4, <2>5, LeadsOn
  <2>7. QED
    BY <1>1, <2>1, <2>6
<1>10. CASE c = "F08"
  <2>1. Fails(c) = emit \o kill
    BY <1>10 DEF Fails
  <2> HIDE DEF emit, kill
  <2>2. L(emit \o kill)
    BY <1>2, <1>3, LeadsOn
  <2>3. QED
    BY <1>1, <2>1, <2>2
<1>11. CASE c \in {"F11", "F12"}
  <2>1. Fails(c) = kill
    BY <1>11 DEF Fails, CanonicalFaults
  <2>2. QED
    BY <1>1, <1>2, <2>1
<1>12. CASE c \in {"F09", "F17", "F18"}
  <2>1. Fails(c) = <<refresh>>
    BY <1>12 DEF Fails, CanonicalFaults
  <2>2. QED
    BY <1>1, <1>3, <2>1
<1>13. CASE c \notin {"F01", "F02", "F03", "F05", "F06", "F10a", "F10b", "F04a", "F04b", "F07", "F08",
                      "F11", "F12", "F09", "F17", "F18"} \cup CanonicalFaults
  <2> DEFINE a == S("ask", ArmDomain(c), "arm_fault_0001")
             i == Inspects("inspect_L4")
  <2>1. Fails(c) = <<a, refresh>> \o i
    BY <1>13 DEF Fails, CanonicalFaults
  <2>2. L(<<a>>)
    BY <1>3
  <2> HIDE DEF refresh, a, i
  <2>3. L(<<a, refresh>>)
    BY <1>3, <2>2, LeadsTwo
  <2>4. L(<<a, refresh>> \o i)
    BY <1>4, <2>3, LeadsOn DEF i
  <2>5. QED
    BY <1>1, <2>1, <2>4
<1>14. QED
  BY <1>5, <1>6, <1>7, <1>8, <1>9, <1>10, <1>11, <1>12, <1>13

LEMMA FailureLeads ==
  ASSUME NEW c
  PROVE  Leads(c, "failure", Failure(c), Known(CallsOf(c), {}), Views) /\ Failure(c) # <<>>
<1>1. PICK n \in 0..5 : Leads(c, "failure", Fails(c), Known(CallsOf(c), {}), Known(n, {}))
  BY FailsLead
<1>2. "conclude" \in Neutral /\ "domain_A" \in Labels /\ "none" \in Ops
  BY LabelsOf DEF Neutral, Ops
<1>3. Leads(c, "failure", <<S("conclude", "domain_A", "none")>>, Known(n, {}), Known(n, {}))
  BY <1>2, NeutralLeads
<1>4. Known(n, {}) \subseteq Views
  BY KnownViews
<1>5. Failure(c) = Fails(c) \o <<S("conclude", "domain_A", "none")>>
  BY DEF Failure, Fails
<1>6. Leads(c, "failure", Failure(c), Known(CallsOf(c), {}), Known(n, {}))
  BY <1>1, <1>3, <1>5, LeadsOn
<1>7. Failure(c) # <<>>
  <2>1. CallsOf(c) \in 0..5 /\ <<S("conclude", "domain_A", "none")>> # <<>>
    BY PhasesOf
  <2>2. QED
    BY <1>1, <1>3, <1>5, <2>1, KnownSome, LeadsOpen
<1>8. QED
  BY <1>4, <1>6, <1>7, LeadsWider

-----------------------------------------------------------------------------
(* Where the parent stands *)

Cast == Cases \cup CalmCases

TerminalSteps ==
  {S("ask", d, "inspect_terminal") : d \in Domains}
    \cup {S("sample", d, "inspect_terminal") : d \in Domains} \cup {S("census", d, "none") : d \in Domains}

\* Three programs of the same length, one after the other.
Thrice(A, a, b, c, m) ==
  /\ a \in Seq(A) /\ b \in Seq(A) /\ c \in Seq(A) /\ m \in Nat
  /\ Len(a) = m /\ Len(b) = m /\ Len(c) = m

Joins(A, q, a, b, c, m) ==
  /\ q \in Seq(A) /\ Len(q) = m + m + m
  /\ \A k \in 1 .. m : q[k] = a[k] /\ q[m + k] = b[k] /\ q[m + m + k] = c[k]

LEMMA JoinThree ==
  ASSUME NEW A, NEW a, NEW b, NEW c, NEW m, Thrice(A, a, b, c, m)
  PROVE  Joins(A, a \o b \o c, a, b, c, m)
<1> DEFINE p == a \o b
<1>0. /\ a \in Seq(A) /\ b \in Seq(A) /\ c \in Seq(A) /\ m \in Nat
      /\ Len(a) = m /\ Len(b) = m /\ Len(c) = m
  BY DEF Thrice
<1>1. p \in Seq(A) /\ Len(p) = m + m
  BY <1>0
<1>2. \A k \in 1 .. m : p[k] = a[k] /\ p[m + k] = b[k]
  BY <1>0
<1> HIDE DEF p
<1>3. /\ p \o c \in Seq(A) /\ Len(p \o c) = Len(p) + Len(c)
      /\ \A i \in 1 .. Len(p) + Len(c) : (p \o c)[i] = IF i <= Len(p) THEN p[i] ELSE c[i - Len(p)]
  BY <1>0, <1>1, ConcatProperties
<1>4. ASSUME NEW k \in 1 .. m + m PROVE (p \o c)[k] = p[k]
  BY <1>0, <1>1, <1>3
<1>5. ASSUME NEW k \in 1 .. m PROVE (p \o c)[m + m + k] = c[k]
  <2>1. PICK i \in 1 .. Len(p) + Len(c) : i = m + m + k /\ ~(i <= Len(p)) /\ i - Len(p) = k
    BY <1>0, <1>1
  <2>2. (p \o c)[i] = c[k]
    BY <1>3, <2>1
  <2>3. QED
    BY <2>1, <2>2
<1>6. \A k \in 1 .. m : k \in 1 .. m + m /\ m + k \in 1 .. m + m
  BY <1>0
<1>7. /\ p \o c \in Seq(A) /\ Len(p \o c) = m + m + m
  BY <1>0, <1>1, <1>3
<1>8. QED
  BY <1>2, <1>4, <1>5, <1>6, <1>7 DEF p, Joins

LEMMA TerminalScript == Terminal_ \in Seq(TerminalSteps) /\ Len(Terminal_) = 6
<1>1. ASSUME NEW do, NEW op, {S(do, d, op) : d \in Domains} \subseteq TerminalSteps
      PROVE  /\ Both(do, op) \in Seq(TerminalSteps) /\ Len(Both(do, op)) = 2
  <2> DEFINE x == S(do, "domain_A", op)
             y == S(do, "domain_B", op)
  <2>1. x \in TerminalSteps /\ y \in TerminalSteps
    BY <1>1 DEF Domains
  <2> HIDE DEF x, y
  <2>2. QED
    BY <2>1 DEF Both, x, y
<1> DEFINE a == Both("ask", "inspect_terminal")
           b == Both("sample", "inspect_terminal")
           c == Both("census", "none")
<1>2. /\ {S("ask", d, "inspect_terminal") : d \in Domains} \subseteq TerminalSteps
      /\ {S("sample", d, "inspect_terminal") : d \in Domains} \subseteq TerminalSteps
      /\ {S("census", d, "none") : d \in Domains} \subseteq TerminalSteps
  BY DEF TerminalSteps
<1>3. /\ a \in Seq(TerminalSteps) /\ b \in Seq(TerminalSteps) /\ c \in Seq(TerminalSteps)
      /\ Len(a) = 2 /\ Len(b) = 2 /\ Len(c) = 2
  BY <1>1, <1>2
<1> HIDE DEF a, b, c
<1>4. a \o b \o c \in Seq(TerminalSteps) /\ Len(a \o b \o c) = 2 + 2 + 2
  <2>1. Thrice(TerminalSteps, a, b, c, 2)
    BY <1>3 DEF Thrice
  <2>2. Joins(TerminalSteps, a \o b \o c, a, b, c, 2)
    BY <2>1, JoinThree
  <2>3. QED
    BY <2>2 DEF Joins
<1>5. QED
  BY <1>4 DEF Terminal_, a, b, c

\* The label a step of the cleanup is about, by its place.
CleanedBy(k) == IF k <= 3 THEN "domain_A" ELSE IF k <= 6 THEN "domain_B" ELSE "replacement"

LEMMA CleanupScript ==
  /\ Len(Cleanup) = 9
  /\ \A k \in 1..9 :
       Cleanup[k] = IF k \in {1, 4, 7} THEN S("shutdown", CleanedBy(k), "shutdown_0001")
                    ELSE IF k \in {2, 5, 8} THEN S("wait", CleanedBy(k), "none")
                    ELSE S("close", CleanedBy(k), "none")
<1> DEFINE a == Ends("domain_A")
           b == Ends("domain_B")
           c == Ends("replacement")
           A == [do : {"shutdown", "wait", "close"}, on : Labels, op : {"shutdown_0001", "none"}]
<1>1. ASSUME NEW l \in Labels
      PROVE  /\ Ends(l) \in Seq(A) /\ Len(Ends(l)) = 3
             /\ Ends(l)[1] = S("shutdown", l, "shutdown_0001")
             /\ Ends(l)[2] = S("wait", l, "none") /\ Ends(l)[3] = S("close", l, "none")
  <2> DEFINE x == S("shutdown", l, "shutdown_0001")
             y == S("wait", l, "none")
             z == S("close", l, "none")
  <2>1. x \in A /\ y \in A /\ z \in A
    BY DEF S
  <2> HIDE DEF x, y, z, A
  <2>2. Ends(l) = <<x, y, z>>
    BY DEF Ends, x, y, z
  <2>3. <<x, y, z>> \in Seq(A) /\ Len(<<x, y, z>>) = 3
        /\ <<x, y, z>>[1] = x /\ <<x, y, z>>[2] = y /\ <<x, y, z>>[3] = z
    BY <2>1
  <2>4. QED
    BY <2>2, <2>3 DEF x, y, z
<1> HIDE DEF A
<1>2. a \in Seq(A) /\ b \in Seq(A) /\ c \in Seq(A) /\ Len(a) = 3 /\ Len(b) = 3 /\ Len(c) = 3
  BY <1>1, LabelsOf
<1>3. /\ a[1] = S("shutdown", "domain_A", "shutdown_0001") /\ a[2] = S("wait", "domain_A", "none")
      /\ a[3] = S("close", "domain_A", "none")
      /\ b[1] = S("shutdown", "domain_B", "shutdown_0001") /\ b[2] = S("wait", "domain_B", "none")
      /\ b[3] = S("close", "domain_B", "none")
      /\ c[1] = S("shutdown", "replacement", "shutdown_0001") /\ c[2] = S("wait", "replacement", "none")
      /\ c[3] = S("close", "replacement", "none")
  BY <1>1, LabelsOf
<1> HIDE DEF a, b, c
<1>4. Cleanup = a \o b \o c
  BY DEF Cleanup, a, b, c
<1>5. PICK m \in Nat : m = 3
  OBVIOUS
<1>6. /\ Len(Cleanup) = 9
      /\ Cleanup[1] = a[1] /\ Cleanup[2] = a[2] /\ Cleanup[3] = a[3]
      /\ Cleanup[4] = b[1] /\ Cleanup[5] = b[2] /\ Cleanup[6] = b[3]
      /\ Cleanup[7] = c[1] /\ Cleanup[8] = c[2] /\ Cleanup[9] = c[3]
  <2>1. Thrice(A, a, b, c, m)
    BY <1>2, <1>5 DEF Thrice
  <2>0. Joins(A, Cleanup, a, b, c, m)
    BY <1>4, <2>1, JoinThree
  <2>2. /\ Len(Cleanup) = m + m + m
        /\ \A k \in 1 .. m : /\ Cleanup[k] = a[k] /\ Cleanup[m + k] = b[k]
                            /\ Cleanup[m + m + k] = c[k]
    BY <2>0 DEF Joins
  <2>3. 1 \in 1 .. m /\ 2 \in 1 .. m /\ 3 \in 1 .. m
    BY <1>5
  <2>4. /\ m + 1 = 4 /\ m + 2 = 5 /\ m + 3 = 6 /\ m + m + 1 = 7 /\ m + m + 2 = 8 /\ m + m + 3 = 9
        /\ m + m + m = 9
    BY <1>5
  <2>5. Cleanup[1] = a[1] /\ Cleanup[m + 1] = b[1] /\ Cleanup[m + m + 1] = c[1]
    BY <2>2, <2>3
  <2>6. Cleanup[2] = a[2] /\ Cleanup[m + 2] = b[2] /\ Cleanup[m + m + 2] = c[2]
    BY <2>2, <2>3
  <2>7. Cleanup[3] = a[3] /\ Cleanup[m + 3] = b[3] /\ Cleanup[m + m + 3] = c[3]
    BY <2>2, <2>3
  <2>8. QED
    BY <2>2, <2>4, <2>5, <2>6, <2>7
<1>7. ASSUME NEW k \in 1..9
      PROVE Cleanup[k] = IF k \in {1, 4, 7} THEN S("shutdown", CleanedBy(k), "shutdown_0001")
                    ELSE IF k \in {2, 5, 8} THEN S("wait", CleanedBy(k), "none")
                    ELSE S("close", CleanedBy(k), "none")
  <2>1. k = 1 \/ k = 2 \/ k = 3 \/ k = 4 \/ k = 5 \/ k = 6 \/ k = 7 \/ k = 8 \/ k = 9
    OBVIOUS
  <2>2. QED
    BY <1>3, <1>6, <2>1 DEF CleanedBy
<1>8. QED
  BY <1>6, <1>7

\* The set of views the program of a stage leads to.
Aims(s, c) == IF s = "prefix" THEN Known(CallsOf(c), {}) ELSE Views

LEMMA PrefixMarks ==
  ASSUME NEW c \in Cast, NEW v \in Known(0, {})
  PROVE  \E t : Marks(c, "prefix", Script["prefix"][c], t, Aims("prefix", c)) /\ t[1] = v
<1>1. Script["prefix"][c] = Prefix(c)
  BY DEF Script, Stages, Cast
<1>2. QED
  BY <1>1, PrefixLeads DEF Leads, Aims

LEMMA FailureMarks ==
  ASSUME NEW c \in Cast, NEW v \in Known(CallsOf(c), {})
  PROVE  \E t : Marks(c, "failure", Script["failure"][c], t, Aims("failure", c)) /\ t[1] = v
<1>1. Script["failure"][c] = Failure(c)
  BY DEF Script, Stages, Cast
<1>2. QED
  BY <1>1, FailureLeads DEF Leads, Aims

LEMMA Scripts ==
  ASSUME NEW c \in Cast
  PROVE  /\ Script["terminal"][c] = Terminal_ /\ Script["cleanup"][c] = Cleanup
         /\ Script["record"][c] = <<S("record", "domain_A", "none")>>
         /\ Script["done"][c] = <<S("done", "domain_A", "none")>>
  BY DEF Script, Stages, Cast

LEMMA Nonempty ==
  ASSUME NEW c \in Cast, NEW s \in Stages
  PROVE  Len(Script[s][c]) \in Nat \ {0}
<1> DEFINE v == [n |-> 0, out |-> {}, new |-> "none"]
<1>1. CASE s = "prefix"
  <2>1. v \in Known(0, {})
    BY DEF Known
  <2>2. PICK t : Marks(c, "prefix", Prefix(c), t, Known(CallsOf(c), {}))
    BY <2>1, PrefixLeads DEF Leads
  <2>3. Prefix(c) \in Seq(Steps) /\ Prefix(c) # <<>>
    BY <2>2, PrefixLeads DEF Marks
  <2>4. Script[s][c] = Prefix(c)
    BY <1>1 DEF Script, Stages, Cast
  <2>5. QED
    BY <2>3, <2>4
<1>2. CASE s = "failure"
  <2>1. [v EXCEPT !.n = CallsOf(c)] \in Known(CallsOf(c), {})
    BY DEF Known
  <2>2. PICK t : Marks(c, "failure", Failure(c), t, Views)
    BY <2>1, FailureLeads DEF Leads
  <2>3. Failure(c) \in Seq(Steps) /\ Failure(c) # <<>>
    BY <2>2, FailureLeads DEF Marks
  <2>4. Script[s][c] = Failure(c)
    BY <1>2 DEF Script, Stages, Cast
  <2>5. QED
    BY <2>3, <2>4
<1>3. CASE s = "terminal"
  BY <1>3, TerminalScript, Scripts
<1>4. CASE s = "cleanup"
  BY <1>4, CleanupScript, Scripts
<1>5. CASE s \in {"record", "done"}
  <2> DEFINE x == S("record", "domain_A", "none")
             y == S("done", "domain_A", "none")
  <2> HIDE DEF x, y
  <2>1. Script[s][c] = <<x>> \/ Script[s][c] = <<y>>
    BY <1>5, Scripts DEF x, y
  <2>2. Len(<<x>>) = 1 /\ Len(<<y>>) = 1
    OBVIOUS
  <2>3. Len(Script[s][c]) = 1
    BY <2>1, <2>2
  <2>4. QED
    BY <2>3
<1>6. QED
  BY <1>1, <1>2, <1>3, <1>4, <1>5 DEF Stages

Working == stage \in {"prefix", "failure"}

\* What is known of a position is so.
Fits(v) ==
  /\ v.n = calls
  /\ \A d \in v.out : disposition[d] = "unclaimed"
  /\ v.new # "none" => v.new \in birth

PlaceInv == case \in Cast /\ stage \in Stages /\ at \in 1 .. Len(Script[stage][case])

\* The script of a working parent can be read as a program, and it stands where its program says;
\* the last step of a failure, to which an expected error leaps, needs no such knowledge.
LeadsInv ==
  Working =>
    \E t : /\ Marks(case, stage, Script[stage][case], t, Aims(stage, case))
           /\ Fits(t[at]) \/ (stage = "failure" /\ at = Len(Script[stage][case]))

ScriptInv == PlaceInv /\ LeadsInv

\* What the steps of a stage can be.
StepOK ==
  /\ Step.do \in Dos /\ Step.on \in Labels
  /\ Working => Step.do \in Neutral \cup {"spawn", "resume", "ask", "call", "invalidate", "classify",
                                          "supersede", "sample"}
  /\ stage = "terminal" => Step.do \in {"ask", "sample", "census"}
  /\ stage = "cleanup" => Step.do \in {"shutdown", "wait", "close"}
  /\ stage \in {"record", "done"} => Step.do = stage
  /\ Step.do \in {"ask", "sample", "invalidate", "classify", "supersede", "census"} => Step.on \in Domains
  /\ Does("ask") => Step.op \in Operations
  /\ Does("ask") /\ stage = "failure" => Step.op \notin Later
  /\ Does("ask") /\ stage = "terminal" => Step.op = "inspect_terminal"
  /\ Does("shutdown") => Step.op = "shutdown_0001"

LEMMA StepShape == ASSUME ScriptInv PROVE StepOK
<1> USE DEF ScriptInv, PlaceInv
<1>1. CASE Working
  <2>1. PICK t : Marks(case, stage, Script[stage][case], t, Aims(stage, case))
    BY <1>1 DEF LeadsInv
  <2>2. Allowed(case, stage, t[at], Step) /\ Script[stage][case] \in Seq(Steps)
    BY <2>1 DEF Marks, Step
  <2>3. Step \in Steps
    BY <2>2 DEF Step
  <2>4. Step.do \in Dos /\ Step.on \in Labels
    BY <2>3 DEF Steps
  <2>5. Step.do \in Neutral \cup {"spawn", "resume", "ask", "call", "invalidate", "classify",
                                  "supersede", "sample"}
    BY <2>2 DEF Allowed
  <2>6. Step.do \in {"ask", "sample", "invalidate", "classify", "supersede"} => Step.on \in Domains
    BY <2>2 DEF Allowed
  <2>7. Step.do = "ask" => Step.op \in Operations /\ (stage = "failure" => Step.op \notin Later)
    BY <2>2 DEF Allowed, Later
  <2>8. Step.do \notin {"census", "shutdown"}
    BY <2>5 DEF Neutral
  <2>9. QED
    BY <1>1, <2>4, <2>5, <2>6, <2>7, <2>8 DEF StepOK, Does, Working
<1>2. CASE stage = "terminal"
  <2>1. Step \in TerminalSteps
    BY <1>2, Scripts, TerminalScript DEF Step
  <2>2. /\ Step.do \in {"ask", "sample", "census"} /\ Step.on \in Domains
        /\ Step.do = "ask" => Step.op = "inspect_terminal"
    BY <2>1 DEF TerminalSteps, S
  <2>3. "inspect_terminal" \in Operations
    BY DEF Operations, Inspections
  <2>4. Step.do \in Dos /\ Step.on \in Labels
    BY <2>2, DomainLabels DEF Dos
  <2>5. QED
    BY <1>2, <2>2, <2>3, <2>4 DEF StepOK, Does, Working
<1>3. CASE stage = "cleanup"
  <2>1. Step = Cleanup[at] /\ at \in 1..9
    BY <1>3, Scripts, CleanupScript DEF Step
  <2>2. /\ Step.do \in {"shutdown", "wait", "close"} /\ Step.on = CleanedBy(at)
        /\ Step.do = "shutdown" => Step.op = "shutdown_0001"
    BY <2>1, CleanupScript DEF S
  <2>3. Step.do \in Dos /\ Step.on \in Labels
    BY <2>2, LabelsOf DEF Dos, CleanedBy
  <2>4. QED
    BY <1>3, <2>2, <2>3 DEF StepOK, Does, Working
<1>4. CASE stage \in {"record", "done"}
  <2>1. /\ stage = "record" => Script[stage][case] = <<S("record", "domain_A", "none")>>
        /\ stage = "done" => Script[stage][case] = <<S("done", "domain_A", "none")>>
    BY Scripts
  <2>2. at = 1
    <3> DEFINE x == S("record", "domain_A", "none")
               y == S("done", "domain_A", "none")
    <3> HIDE DEF x, y
    <3>1. Len(<<x>>) = 1 /\ Len(<<y>>) = 1
      OBVIOUS
    <3>2. Len(Script[stage][case]) = 1
      BY <1>4, <2>1, <3>1 DEF x, y
    <3>3. QED
      BY <3>2
  <2>3. Step.do = stage /\ Step.on = "domain_A"
    BY <1>4, <2>1, <2>2 DEF Step, S
  <2>4. Step.do \in Dos /\ Step.on \in Labels
    BY <1>4, <2>3, LabelsOf DEF Dos
  <2>5. QED
    BY <1>4, <2>3, <2>4 DEF StepOK, Does, Working
<1>5. QED
  BY <1>1, <1>2, <1>3, <1>4 DEF Working, Stages

-----------------------------------------------------------------------------
(* How a step of the parent ends *)

LEMMA MovesPlace ==
  ASSUME PlaceInv, Moves, case' = case
  PROVE  /\ PlaceInv' /\ (~Working => ~Working')
         /\ Working' => stage' = stage \/ (stage = "prefix" /\ stage' = "failure" /\ at' = 1)
         /\ Working /\ stage' = stage => at' = at + 1 /\ at + 1 \in 1 .. Len(Script[stage][case])
<1>2. NextStage \in Stages
  BY DEF NextStage, PlaceInv, Stages
<1>3. Working => NextStage \in {"cleanup", "failure", "terminal"} /\ (NextStage = "failure" => stage = "prefix")
                    /\ NextStage # stage
  BY DEF NextStage, Working
<1>4. ~Working => NextStage \notin {"prefix", "failure"}
  BY DEF NextStage, Working
<1>5. \A s \in Stages : Len(Script[s][case]) \in Nat \ {0}
  BY Nonempty DEF PlaceInv
<1>6. CASE at < Len(Script[stage][case])
  <2>1. at' = at + 1 /\ stage' = stage
    BY <1>6 DEF Moves
  <2>2. at + 1 \in 1 .. Len(Script[stage][case])
    BY <1>5, <1>6 DEF PlaceInv
  <2>3. QED
    BY <2>1, <2>2 DEF PlaceInv, Working
<1>7. CASE ~(at < Len(Script[stage][case]))
  <2>1. at' = 1 /\ stage' = NextStage
    BY <1>7 DEF Moves
  <2>2. QED
    BY <1>2, <1>3, <1>4, <1>5, <2>1 DEF PlaceInv, Working
<1>8. QED
  BY <1>6, <1>7

LEMMA RaisesScript ==
  ASSUME ScriptInv, StepOK, Raises, case' = case
  PROVE  ScriptInv' /\ ~Working'
<1>1. CASE stage \in {"prefix", "failure"} \/ Does("census")
  <2>1. stage' = "cleanup" /\ at' = 1
    BY <1>1 DEF Raises
  <2>2. Len(Script["cleanup"][case]) \in Nat \ {0} /\ "cleanup" \in Stages
    BY Nonempty DEF ScriptInv, PlaceInv, Stages
  <2>3. ~Working'
    BY <2>1 DEF Working
  <2>4. QED
    BY <2>1, <2>2, <2>3 DEF ScriptInv, PlaceInv, LeadsInv
<1>2. CASE ~(stage \in {"prefix", "failure"} \/ Does("census"))
  <2>1. ~Working /\ Moves
    BY <1>2 DEF Raises, Working
  <2>2. QED
    BY <2>1, MovesPlace DEF ScriptInv, LeadsInv
<1>3. QED
  BY <1>1, <1>2

LEMMA StaysScript ==
  ASSUME ScriptInv, UNCHANGED <<case, stage, at, calls, disposition>>, birth \subseteq birth'
  PROVE  ScriptInv'
<1>1. PlaceInv'
  BY DEF ScriptInv, PlaceInv
<1>2. ASSUME Working' PROVE LeadsInv'
  <2>1. PICK t : /\ Marks(case, stage, Script[stage][case], t, Aims(stage, case))
                 /\ Fits(t[at]) \/ (stage = "failure" /\ at = Len(Script[stage][case]))
    BY <1>2 DEF ScriptInv, LeadsInv, Working
  <2>2. Marks(case, stage, Script[stage][case], t, Aims(stage, case))'
    BY <2>1
  <2>3. Fits(t[at]) => Fits(t[at])'
    BY DEF Fits
  <2>4. QED
    BY <2>1, <2>2, <2>3 DEF LeadsInv
<1>3. LeadsInv'
  BY <1>2 DEF LeadsInv
<1>4. QED
  BY <1>1, <1>3 DEF ScriptInv

\* An expected error leaps to the conclusion of the failure.
LEMMA LeapsScript ==
  ASSUME ScriptInv, stage = "failure", at' = Len(Script[stage][case]), UNCHANGED <<case, stage>>
  PROVE  ScriptInv'
<1>1. PlaceInv'
  BY Nonempty DEF ScriptInv, PlaceInv
<1>2. PICK t : Marks(case, stage, Script[stage][case], t, Aims(stage, case))
  BY DEF ScriptInv, LeadsInv, Working
<1>3. LeadsInv'
  BY <1>2 DEF LeadsInv
<1>4. QED
  BY <1>1, <1>3 DEF ScriptInv

\* What was known before the step gives what is known after it.
Carries ==
  \A v, w \in Views : Working /\ Fits(v) /\ Allowed(case, stage, v, Step) /\ w = After(v, Step) => Fits(w)'

LEMMA AdvanceScript ==
  ASSUME ScriptInv, Moves, case' = case, Carries
  PROVE  ScriptInv'
<1>0. PlaceInv'
  BY MovesPlace DEF ScriptInv
<1> SUFFICES ASSUME Working' PROVE LeadsInv'
  BY <1>0 DEF ScriptInv, LeadsInv
<1>1. Working
  BY MovesPlace DEF ScriptInv
<1> DEFINE p == Script[stage][case]
<1>2. PICK t : /\ Marks(case, stage, p, t, Aims(stage, case))
               /\ Fits(t[at]) \/ (stage = "failure" /\ at = Len(p))
  BY <1>1 DEF ScriptInv, LeadsInv
<1>3. /\ t \in [1 .. Len(p) + 1 -> Views] /\ t[Len(p) + 1] \in Aims(stage, case)
      /\ Allowed(case, stage, t[at], Step) /\ t[at + 1] = After(t[at], Step)
      /\ at \in 1 .. Len(p) /\ Len(p) \in Nat
  BY <1>2 DEF Marks, Step, ScriptInv, PlaceInv
<1>4. Fits(t[at])
  <2>1. ASSUME stage = "failure", at = Len(p) PROVE FALSE
    <3>1. ~(at < Len(p)) /\ NextStage = "terminal"
      BY <1>3, <2>1 DEF NextStage
    <3>2. stage' = "terminal"
      BY <3>1 DEF Moves
    <3>3. QED
      BY <3>2 DEF Working
  <2>2. QED
    BY <1>2, <2>1
<1>5. PICK w \in Views : w = t[at + 1]
  <2>1. at \in 1 .. Len(p) + 1 /\ at + 1 \in 1 .. Len(p) + 1
    BY <1>3
  <2>2. QED
    BY <1>3, <2>1
<1>6. Fits(w)'
  <2>1. t[at] \in Views
    BY <1>3
  <2>2. QED
    BY <1>1, <1>3, <1>4, <1>5, <2>1 DEF Carries
<1>7. CASE stage' = stage
  <2>1. at' = at + 1
    BY <1>1, <1>7, MovesPlace DEF ScriptInv
  <2>2. w = t[at']
    BY <1>5, <2>1
  <2>3. Fits(t[at])'
    BY <1>6, <2>2 DEF Fits
  <2>4. Marks(case, stage, Script[stage][case], t, Aims(stage, case))'
    BY <1>2, <1>7
  <2>5. QED
    BY <2>3, <2>4 DEF LeadsInv
<1>8. CASE stage' # stage
  <2>1. stage = "prefix" /\ stage' = "failure" /\ at' = 1
    BY <1>8, MovesPlace DEF ScriptInv
  <2>2. at = Len(p)
    <3>1. ~(at < Len(p))
      BY <1>8 DEF Moves
    <3>2. QED
      BY <1>3, <3>1
  <2>3. w \in Known(CallsOf(case), {})
    BY <1>3, <1>5, <2>1, <2>2 DEF Aims
  <2>4. PICK u : Marks(case, "failure", Script["failure"][case], u, Aims("failure", case)) /\ u[1] = w
    BY <2>3, FailureMarks DEF ScriptInv, PlaceInv
  <2>5. w = u[at']
    BY <2>1, <2>4
  <2>6. Fits(u[at])'
    BY <1>6, <2>5 DEF Fits
  <2>7. Marks(case, stage, Script[stage][case], u, Aims(stage, case))'
    BY <2>1, <2>4
  <2>8. QED
    BY <2>6, <2>7 DEF LeadsInv
<1>9. QED
  BY <1>7, <1>8

Claims == {"unclaimed", "current", "stale", "unavailable"}

ProcessTypes ==
  /\ proc \in [Labels -> Processes] /\ control \in [Labels -> Seq(Lines)]
  /\ output \in [Labels -> Seq(Objects)] /\ closed \in [Labels -> BOOLEAN]
  /\ conn \in [Labels -> Connections]
EndTypes == wrong \in BOOLEAN /\ code \in FailureCodes /\ disposition \in [Domains -> Claims]
CanonicalTypes ==
  /\ head \in {"R0", "R1"} /\ calls \in 0..5 /\ captures \in SUBSET Domains
  /\ represented \in [Domains -> {"none", "R0", "R1"}]
  /\ observed \in [Domains -> Worlds]
ParentTypes ==
  /\ wireFaults \in Seq(Worlds) /\ dead \in SUBSET Domains
  /\ birth \in SUBSET Labels /\ monitored \in SUBSET birth
  /\ signal \in [Labels -> {"none", "TERM", "KILL"}]
RecordTypes ==
  /\ status \in {"running", "accepted", "expected_failure", "acquisition_failure", "unwritten"}
  /\ mishaps \in 0 .. MishapBound + 1

TypeInv == ScriptInv /\ ProcessTypes /\ EndTypes /\ CanonicalTypes /\ ParentTypes /\ RecordTypes

LEMMA TypeInvOK == TypeInv => TypeOKCase
<1> SUFFICES ASSUME TypeInv PROVE TypeOKCase
  OBVIOUS
<1>1. TypeOK /\ ConnectionTypeOK
  BY DEF TypeInv, ProcessTypes, TypeOK, ConnectionTypeOK
<1>2. stage \in Stages /\ at \in 1..Len(Script[stage][case])
  BY DEF TypeInv, ScriptInv, PlaceInv
<1>3. QED
  BY <1>1, <1>2 DEF TypeInv, EndTypes, CanonicalTypes, ParentTypes, RecordTypes, TypeOKCase, Claims

\* The step moves on, and knows what it knew.
LEMMA ProceedsScript ==
  ASSUME ScriptInv, Proceeds(disposition), case' = case, calls' = calls, birth \subseteq birth',
         Working => Step.do \in Neutral \cup {"ask", "sample"}
  PROVE  ScriptInv'
<1>1. Carries
  <2> SUFFICES ASSUME NEW v \in Views, NEW w \in Views, Working, Fits(v), w = After(v, Step)
               PROVE  Fits(w)'
    BY DEF Carries
  <2>1. w = v
    BY DEF After, Neutral
  <2>2. QED
    BY <2>1 DEF Fits, Proceeds
<1>2. QED
  BY <1>1, AdvanceScript DEF Proceeds

LEMMA ProceedsTypes ==
  ASSUME EndTypes, NEW claims \in [Domains -> Claims], Proceeds(claims) PROVE EndTypes'
  BY DEF EndTypes, Proceeds

LEMMA RaisesTypes ==
  ASSUME EndTypes, Raises PROVE EndTypes'
<1>1. Unclaimed \in [Domains -> Claims]
  BY DEF Unclaimed, Claims
<1>2. disposition' \in [Domains -> Claims]
  BY <1>1 DEF Raises, EndTypes
<1>3. wrong' = TRUE /\ code' = code
  BY DEF Raises
<1>4. QED
  BY <1>2, <1>3 DEF EndTypes

LEMMA RaisesCodeEnds ==
  ASSUME ScriptInv, StepOK, EndTypes, NEW c, RaisesCode(c), case' = case
  PROVE  ScriptInv' /\ EndTypes'
<1>1. CASE Catches /\ c = ExpectedCode(case)
  <2>1. ScriptInv'
    BY <1>1, LeapsScript DEF RaisesCode, Catches
  <2>2. ExpectedCode(case) \in FailureCodes
    <3>1. case \in Kills \cup PartialCases \cup SabotageCases \cup {"F01", "F09", "F17", "F18"}
      BY <1>1 DEF Catches
    <3>2. QED
      BY <3>1 DEF FailureCodes
  <2>3. QED
    BY <1>1, <2>1, <2>2 DEF RaisesCode, EndTypes
<1>2. CASE ~(Catches /\ c = ExpectedCode(case))
  BY <1>2, RaisesScript, RaisesTypes DEF RaisesCode
<1>3. QED
  BY <1>1, <1>2

LEMMA LifeType ==
  ASSUME NEW p \in Processes, NEW life \in {"suspended", "running", "exited", "reaped"}
  PROVE  [p EXCEPT !.life = life] \in Processes
  BY DEF Processes

LEMMA PolledTypes ==
  ASSUME ProcessTypes, NEW l \in Labels, Polled(l), UNCHANGED conn
  PROVE  ProcessTypes'
<1>1. proc' \in [Labels -> Processes]
  <2>1. [proc[l] EXCEPT !.life = "reaped"] \in Processes
    BY LifeType DEF ProcessTypes
  <2>2. QED
    BY <2>1 DEF Polled, ProcessTypes
<1>2. QED
  BY <1>1 DEF Polled, ProcessTypes

LEMMA ProcessStays == ASSUME ProcessTypes, UNCHANGED <<processVars, conn>> PROVE ProcessTypes'
  BY DEF ProcessTypes, processVars

LEMMA LifeTypes ==
  ASSUME ProcessTypes, NEW l \in Labels, NEW life \in {"suspended", "running", "exited"},
         proc' = [proc EXCEPT ![l].life = life], UNCHANGED <<control, output, closed, conn>>
  PROVE  ProcessTypes'
<1>1. [proc[l] EXCEPT !.life = life] \in Processes
  BY LifeType DEF ProcessTypes
<1>2. QED
  BY <1>1 DEF ProcessTypes

LEMMA ConnTypes ==
  ASSUME ProcessTypes, NEW l \in Labels, NEW c \in Connections, conn' = [conn EXCEPT ![l] = c],
         UNCHANGED processVars
  PROVE  ProcessTypes'
  BY DEF ProcessTypes, processVars

LEMMA CanonicalStays == ASSUME CanonicalTypes, UNCHANGED <<canonicalVars, claimVars>> PROVE CanonicalTypes'
  BY DEF CanonicalTypes, canonicalVars, claimVars

LEMMA ParentStays == ASSUME ParentTypes, UNCHANGED parentVars PROVE ParentTypes'
  BY DEF ParentTypes, parentVars

LEMMA RecordStays == ASSUME RecordTypes, UNCHANGED status, UNCHANGED mishaps \/ Mishap PROVE RecordTypes'
  BY CaseAssumption DEF RecordTypes, Mishap

-----------------------------------------------------------------------------
(* What a process does in a step *)

\* Objects of which the last, and no other, is a response.
SoleResponse(t) ==
  /\ t \in Seq(Objects) /\ Len(t) # 0
  /\ \A i \in DOMAIN t : t[i].kind # "startup" /\ (t[i].kind = "response" <=> i = Len(t))

\* What the objects t of a process that becomes q say of it.
Tells(p, q, t) ==
  \A i \in DOMAIN t :
    /\ t[i].seen = Pair("R1") => q.world = Pair("R1")
    /\ t[i].kind = "response" /\ t[i].code = "ok" =>
         /\ t[i].op = "materialize_0001" => q.world = Pair("R0")
         /\ t[i].op = "materialize_0002" => p.pending # NoLine
         /\ t[i].op = "emit_0001" => q.emitted

Same(p, q) ==
  /\ q.world = p.world /\ q.generation = p.generation
  /\ p.emitted => q.emitted

\* A line is answered; only the first pair is built so.
Replies(l, q, t) ==
  /\ Reads(l) /\ Answer(l, q, t)
  /\ q \in Processes /\ q.pending = NoLine /\ q.life \in {proc[l].life, "exiting", "exited"}
  /\ SoleResponse(t) /\ Tells(proc[l], q, t)
  /\ \/ Same(proc[l], q) /\ (q.emitted => proc[l].emitted \/ proc[l].world = Pair("R0"))
     \/ /\ Line(l).op = "materialize_0001" /\ proc[l].generation = "none"
        /\ ~proc[l].emitted /\ ~q.emitted
        /\ q.generation = "R0" /\ q.world # Pair("R1")
        /\ \E i \in DOMAIN t : t[i].kind = "response" /\ t[i].op = "materialize_0001"

\* A line waits for the old pair to go.
Replaces(l, q) ==
  /\ Reads(l) /\ Answer(l, q, <<>>)
  /\ q \in Processes /\ q.pending = Line(l) /\ q.life = proc[l].life
  /\ Line(l).op = "materialize_0002" /\ Line(l).record = "R1"
  /\ proc[l].generation = "R0" /\ q.generation = "R0" /\ q.world = Empty
  /\ proc[l].emitted => q.emitted
  /\ q.emitted => proc[l].emitted

\* The line that waited is answered.
Completes(l, q, t) ==
  /\ proc[l].life = "running" /\ proc[l].pending # NoLine
  /\ proc' = [proc EXCEPT ![l] = q] /\ output' = [output EXCEPT ![l] = @ \o t]
  /\ UNCHANGED <<case, control, closed>>
  /\ q \in Processes /\ q.pending = NoLine /\ q.life = "running"
  /\ SoleResponse(t) /\ Tells(proc[l], q, t)
  /\ proc[l].emitted => q.emitted
  /\ q.emitted => proc[l].emitted
  /\ \/ Same(proc[l], q)
     \/ q.generation = "R1" /\ q.world # Pair("R0")

LEMMA OneReply ==
  ASSUME NEW o \in Objects, o.kind = "response"
  PROVE  SoleResponse(<<o>>) /\ DOMAIN <<o>> = {1} /\ <<o>>[1] = o
<1>1. <<o>> \in Seq(Objects) /\ Len(<<o>>) = 1 /\ <<o>>[1] = o /\ DOMAIN <<o>> = {1}
  OBVIOUS
<1>2. QED
  BY <1>1 DEF SoleResponse

LEMMA TwoReplies ==
  ASSUME NEW e \in Objects, e.kind \in {"physical_event", "fault_event"}, NEW o \in Objects, o.kind = "response"
  PROVE  SoleResponse(<<e, o>>) /\ DOMAIN <<e, o>> = {1, 2} /\ <<e, o>>[1] = e /\ <<e, o>>[2] = o
<1>1. <<e, o>> \in Seq(Objects) /\ Len(<<e, o>>) = 2 /\ DOMAIN <<e, o>> = {1, 2}
      /\ <<e, o>>[1] = e /\ <<e, o>>[2] = o
  OBVIOUS
<1>2. QED
  BY <1>1 DEF SoleResponse

LEMMA TerminalOf ==
  ASSUME NEW p \in Processes
  PROVE  /\ Terminal(p) \in Processes /\ Terminal(p).pending = NoLine /\ Terminal(p).life = p.life
         /\ Terminal(p).world = p.world /\ Terminal(p).generation = p.generation
         /\ (Terminal(p).emitted <=> p.emitted)
  BY DEF Terminal, Processes, NoLine, Lines, Records

LEMMA NotPair == Empty # Pair("R1") /\ Empty # Pair("R0") /\ Pair("R0") # Pair("R1")
  BY DEF Empty, Pair

LEMMA Reading ==
  ASSUME ProcessTypes, NEW l \in Labels, Reads(l)
  PROVE  Line(l) \in Lines /\ proc[l] \in Processes /\ proc[l].life \in {"running", "exiting"}
  BY DEF ProcessTypes, Reads, Ticking, Line

LEMMA UsedUp ==
  ASSUME ProcessTypes, NEW l \in Labels, Reads(l), Line(l).op \in Operations
  PROVE  /\ Used(l) \in Processes /\ Used(l).life = proc[l].life /\ Used(l).world = proc[l].world
         /\ Used(l).generation = proc[l].generation /\ Used(l).pending = proc[l].pending
         /\ (Used(l).emitted <=> proc[l].emitted)
<1>1. proc[l] \in Processes
  BY DEF ProcessTypes
<1>2. QED
  BY <1>1 DEF Used, Processes

LEMMA Refused ==
  ASSUME ProcessTypes, NEW l \in Labels, NEW p \in Processes, NEW reply \in Codes \ {"ok"},
         Reads(l), Line(l).op # "malformed", Refuse(l, p, reply),
         p.life = proc[l].life, p.world = proc[l].world, p.generation = proc[l].generation,
         (p.emitted <=> proc[l].emitted)
  PROVE  \E q, t : Replies(l, q, t)
<1> DEFINE o == Response(Line(l).op, reply, Empty)
           q == Terminal(p)
<1>1. o \in Objects /\ o.kind = "response" /\ o.code # "ok" /\ o.seen # Pair("R1")
  BY Reading, NotPair DEF Response, Objects, Lines, Worlds, Empty
<1>2. Answer(l, q, <<o>>)
  BY DEF Refuse
<1>3. /\ q \in Processes /\ q.pending = NoLine /\ q.life = proc[l].life
      /\ q.world = proc[l].world /\ q.generation = proc[l].generation
      /\ (q.emitted <=> proc[l].emitted)
  BY TerminalOf, Reading
<1> HIDE DEF o, q
<1>4. SoleResponse(<<o>>) /\ Tells(proc[l], q, <<o>>)
  BY <1>1, OneReply DEF Tells
<1>5. Same(proc[l], q)
  BY <1>3 DEF Same
<1>6. Replies(l, q, <<o>>)
  BY <1>2, <1>3, <1>4, <1>5 DEF Replies
<1>7. QED
  BY <1>6

LEMMA RefusalDeed ==
  ASSUME ProcessTypes, NEW l \in Labels,
         \/ DispatchMisrouted(l) \/ DispatchOutOfSequence(l) \/ DispatchPayload(l)
         \/ RejectMaterialize(l)
  PROVE  \E q, t : Replies(l, q, t)
<1>1. Reads(l)
  BY DEF DispatchMisrouted, DispatchOutOfSequence, DispatchPayload, RejectMaterialize, Dispatches
<1>2. proc[l] \in Processes
  BY <1>1, Reading
<1>3. CASE DispatchMisrouted(l) \/ DispatchOutOfSequence(l)
  <2>1. /\ Line(l).op # "malformed"
        /\ Refuse(l, proc[l], "binding_mismatch") \/ Refuse(l, proc[l], "sequence")
    BY <1>3 DEF DispatchMisrouted, DispatchOutOfSequence
  <2>2. QED
    BY <1>1, <1>2, <2>1, Refused DEF Codes
<1>4. CASE DispatchPayload(l)
  <2>1. Line(l).op # "malformed" /\ Refuse(l, proc[l], "schema")
    BY <1>4 DEF DispatchPayload, Dispatches, NoPayload, Inspections
  <2>2. QED
    BY <1>1, <1>2, <2>1, Refused DEF Codes
<1>5. CASE RejectMaterialize(l)
  <2>1. Line(l).op \in Materializations
    BY <1>5 DEF RejectMaterialize, Dispatches
  <2>2. Line(l).op \in Operations /\ Line(l).op # "malformed"
    BY <2>1 DEF Operations, Materializations
  <2>3. Authentication(proc[l], Line(l)) \in Codes \ {"ok"}
    BY <1>5 DEF RejectMaterialize, Authentication, Codes
  <2>4. Refuse(l, Used(l), Authentication(proc[l], Line(l)))
    BY <1>5 DEF RejectMaterialize
  <2>5. QED
    BY <1>1, <2>2, <2>3, <2>4, UsedUp, Refused
<1>6. QED
  BY <1>3, <1>4, <1>5

\* A command that succeeds at once: the binding, the arming, the census, the shutdown.
LEMMA Succeeded ==
  ASSUME ProcessTypes, NEW l \in Labels, NEW q \in Processes, NEW o \in Objects,
         Reads(l), Answer(l, q, <<o>>), q.pending = NoLine, q.life \in {proc[l].life, "exiting", "exited"},
         q.world = proc[l].world, q.generation = proc[l].generation, (q.emitted <=> proc[l].emitted),
         o.kind = "response", o.op \notin Materializations \cup {"emit_0001"},
         o.seen \in {Empty, proc[l].world}
  PROVE  \E r, t : Replies(l, r, t)
<1>1. Tells(proc[l], q, <<o>>)
  BY OneReply, NotPair DEF Tells, Materializations
<1>2. Same(proc[l], q)
  BY DEF Same
<1>3. Replies(l, q, <<o>>)
  BY <1>1, <1>2, OneReply DEF Replies
<1>4. QED
  BY <1>3

LEMMA Dispatched ==
  ASSUME ProcessTypes, NEW l \in Labels, NEW ops \in SUBSET Operations, Dispatches(l, ops)
  PROVE  /\ Reads(l) /\ Line(l) \in Lines /\ Line(l).op \in ops /\ Line(l).op # "malformed"
         /\ proc[l].pending = NoLine
         /\ Used(l) \in Processes /\ Used(l).life = proc[l].life /\ Used(l).pending = NoLine
         /\ Used(l).world = proc[l].world /\ Used(l).generation = proc[l].generation
         /\ (Used(l).emitted <=> proc[l].emitted)
<1>1. Reads(l) /\ Line(l).op \in ops /\ ~OutOfSequence(proc[l], Line(l))
  BY DEF Dispatches
<1>2. Line(l) \in Lines /\ Line(l).op \in Operations /\ Line(l).op # "malformed"
  BY <1>1, Reading DEF Operations, Materializations, Inspections
<1>3. proc[l].pending = NoLine
  BY <1>1 DEF OutOfSequence
<1>4. QED
  BY <1>1, <1>2, <1>3, UsedUp, Reading

LEMMA ResponseType ==
  ASSUME NEW op \in Operations \cup {"none", "unknown"}, NEW reply \in Codes, NEW seen \in Worlds
  PROVE  /\ Response(op, reply, seen) \in Objects
         /\ Response(op, reply, seen).kind = "response" /\ Response(op, reply, seen).op = op
         /\ Response(op, reply, seen).code = reply /\ Response(op, reply, seen).seen = seen
  BY DEF Response, Objects

LEMMA EventType ==
  ASSUME NEW kind \in {"physical_event", "fault_event"}, NEW op \in Operations, NEW seen \in Worlds
  PROVE  /\ Event(kind, op, seen) \in Objects /\ Event(kind, op, seen).kind = kind
         /\ Event(kind, op, seen).seen = seen
  BY DEF Event, Objects, Codes

LEMMA EmptyWorld == Empty \in Worlds /\ "ok" \in Codes
  BY DEF Empty, Worlds, Codes

LEMMA BindDeed ==
  ASSUME ProcessTypes, NEW l \in Labels, Bind(l) PROVE \E q, t : Replies(l, q, t)
<1>1. Dispatches(l, {"bind_0001"}) /\ {"bind_0001"} \in SUBSET Operations
  BY DEF Bind, Operations
<1>2. /\ Reads(l) /\ Line(l).op = "bind_0001" /\ Line(l).op # "malformed"
      /\ Used(l) \in Processes /\ Used(l).life = proc[l].life /\ Used(l).pending = NoLine
      /\ Used(l).world = proc[l].world /\ Used(l).generation = proc[l].generation
      /\ (Used(l).emitted <=> proc[l].emitted)
  BY <1>1, Dispatched
<1>3. CASE Line(l).exact /\ Line(l).binding
  <2> DEFINE q == [Used(l) EXCEPT !.bound = TRUE]
             o == Response("bind_0001", "ok", Empty)
  <2>1. o \in Objects /\ o.kind = "response" /\ o.op = "bind_0001" /\ o.seen = Empty
    BY ResponseType, EmptyWorld DEF Operations
  <2>2. Answer(l, q, <<o>>)
    BY <1>3 DEF Bind
  <2>3. /\ q \in Processes /\ q.life = proc[l].life /\ q.pending = NoLine
        /\ q.world = proc[l].world /\ q.generation = proc[l].generation
        /\ (q.emitted <=> proc[l].emitted)
    BY <1>2 DEF Processes
  <2>4. o.op \notin Materializations \cup {"emit_0001"}
    BY <2>1 DEF Materializations
  <2> HIDE DEF q, o
  <2>5. QED
    BY <1>2, <2>1, <2>2, <2>3, <2>4, Succeeded
<1>4. CASE ~(Line(l).exact /\ Line(l).binding)
  <2>1. Refuse(l, Used(l), "binding_mismatch")
    BY <1>4 DEF Bind
  <2>2. "binding_mismatch" \in Codes \ {"ok"} /\ Used(l).life = proc[l].life
    BY <1>2, Reading DEF Codes
  <2>3. QED
    BY <1>2, <2>1, <2>2, Refused
<1>5. QED
  BY <1>3, <1>4

LEMMA ArmDeed ==
  ASSUME ProcessTypes, NEW l \in Labels, ArmFault(l) PROVE \E q, t : Replies(l, q, t)
<1>1. Dispatches(l, {"arm_fault_0001"}) /\ {"arm_fault_0001"} \in SUBSET Operations
  BY DEF ArmFault, Operations
<1>2. /\ Reads(l) /\ Line(l).op = "arm_fault_0001" /\ Line(l).op # "malformed"
      /\ Used(l) \in Processes /\ Used(l).life = proc[l].life /\ Used(l).pending = NoLine
      /\ Used(l).world = proc[l].world /\ Used(l).generation = proc[l].generation
      /\ (Used(l).emitted <=> proc[l].emitted)
  BY <1>1, Dispatched
<1>3. CASE MayArm(l, proc[l]) /\ Line(l).exact
  <2> DEFINE q == [Used(l) EXCEPT !.armed = TRUE]
             o == Response("arm_fault_0001", "ok", Empty)
  <2>1. o \in Objects /\ o.kind = "response" /\ o.op = "arm_fault_0001" /\ o.seen = Empty
    BY ResponseType, EmptyWorld DEF Operations
  <2>2. Answer(l, q, <<o>>)
    BY <1>3 DEF ArmFault
  <2>3. /\ q \in Processes /\ q.life = proc[l].life /\ q.pending = NoLine
        /\ q.world = proc[l].world /\ q.generation = proc[l].generation
        /\ (q.emitted <=> proc[l].emitted)
    BY <1>2 DEF Processes
  <2>4. o.op \notin Materializations \cup {"emit_0001"}
    BY <2>1 DEF Materializations
  <2> HIDE DEF q, o
  <2>5. QED
    BY <1>2, <2>1, <2>2, <2>3, <2>4, Succeeded
<1>4. CASE ~(MayArm(l, proc[l]) /\ Line(l).exact)
  <2>1. Refuse(l, Used(l), "fault_arm")
    BY <1>4 DEF ArmFault
  <2>2. "fault_arm" \in Codes \ {"ok"} /\ Used(l).life = proc[l].life
    BY <1>2, Reading DEF Codes
  <2>3. QED
    BY <1>2, <2>1, <2>2, Refused
<1>5. QED
  BY <1>3, <1>4

LEMMA InspectDeed ==
  ASSUME ProcessTypes, NEW l \in Labels, Inspect(l) PROVE \E q, t : Replies(l, q, t)
<1> DEFINE o == Response(Line(l).op, "ok", proc[l].world)
<1>1. Dispatches(l, Inspections) /\ Inspections \in SUBSET Operations
  BY DEF Inspect, Operations
<1>2. /\ Reads(l) /\ Line(l).op \in Inspections
      /\ Used(l) \in Processes /\ Used(l).life = proc[l].life /\ Used(l).pending = NoLine
      /\ Used(l).world = proc[l].world /\ Used(l).generation = proc[l].generation
      /\ (Used(l).emitted <=> proc[l].emitted)
  BY <1>1, Dispatched
<1>3. proc[l].world \in Worlds
  BY <1>2, Reading DEF Processes
<1>4. o \in Objects /\ o.kind = "response" /\ o.op = Line(l).op /\ o.seen = proc[l].world
  BY <1>1, <1>2, <1>3, ResponseType, EmptyWorld
<1>5. o.op \notin Materializations \cup {"emit_0001"}
  BY <1>2, <1>4 DEF Materializations, Inspections
<1>6. Answer(l, Used(l), <<o>>)
  BY DEF Inspect
<1> HIDE DEF o
<1>7. QED
  BY <1>2, <1>4, <1>5, <1>6, Succeeded

LEMMA ShutdownDeed ==
  ASSUME ProcessTypes, NEW l \in Labels, Shutdown(l) PROVE \E q, t : Replies(l, q, t)
<1>1. Dispatches(l, {"shutdown_0001"}) /\ {"shutdown_0001"} \in SUBSET Operations
  BY DEF Shutdown, Operations
<1>2. /\ Reads(l) /\ Used(l) \in Processes
      /\ Used(l).world = proc[l].world /\ Used(l).generation = proc[l].generation
      /\ (Used(l).emitted <=> proc[l].emitted)
  BY <1>1, Dispatched
<1>3. PICK life \in {"exited", "exiting"}, reply \in {"arm_unused", "ok"} :
        Answer(l, [Used(l) EXCEPT !.terminal = TRUE, !.pending = NoLine, !.life = life],
               <<Response("shutdown_0001", reply, Empty)>>)
  BY DEF Shutdown
<1> DEFINE q == [Used(l) EXCEPT !.terminal = TRUE, !.pending = NoLine, !.life = life]
           o == Response("shutdown_0001", reply, Empty)
<1>4. o \in Objects /\ o.kind = "response" /\ o.op = "shutdown_0001" /\ o.seen = Empty
  BY ResponseType, EmptyWorld DEF Operations, Codes
<1>5. Answer(l, q, <<o>>)
  BY <1>3
<1>6. /\ q \in Processes /\ q.life \in {proc[l].life, "exiting", "exited"} /\ q.pending = NoLine
      /\ q.world = proc[l].world /\ q.generation = proc[l].generation
      /\ (q.emitted <=> proc[l].emitted)
  BY <1>2 DEF Processes, NoLine, Lines, Records
<1>7. o.op \notin Materializations \cup {"emit_0001"}
  BY <1>4 DEF Materializations
<1> HIDE DEF q, o
<1>8. QED
  BY <1>2, <1>4, <1>5, <1>6, <1>7, Succeeded

LEMMA EmitDeed ==
  ASSUME ProcessTypes, NEW l \in Labels, Emit(l) PROVE \E q, t : Replies(l, q, t)
<1>1. Dispatches(l, {"emit_0001"}) /\ {"emit_0001"} \in SUBSET Operations
  BY DEF Emit, Operations
<1>2. /\ Reads(l) /\ Line(l).op = "emit_0001" /\ Line(l).op # "malformed"
      /\ Used(l) \in Processes /\ Used(l).life = proc[l].life /\ Used(l).pending = NoLine
      /\ Used(l).world = proc[l].world /\ Used(l).generation = proc[l].generation
      /\ (Used(l).emitted <=> proc[l].emitted)
  BY <1>1, Dispatched
<1>3. CASE MayEmit(proc[l])
  <2> DEFINE q == [Used(l) EXCEPT !.emitted = TRUE]
             e == Event("physical_event", "emit_0001", Empty)
             o == Response("emit_0001", "ok", Empty)
  <2>1. o \in Objects /\ o.kind = "response" /\ o.op = "emit_0001" /\ o.seen = Empty
    BY ResponseType, EmptyWorld DEF Operations
  <2>2. e \in Objects /\ e.kind = "physical_event" /\ e.seen = Empty
    BY EventType, EmptyWorld DEF Operations
  <2>3. Answer(l, q, <<e, o>>)
    BY <1>3 DEF Emit
  <2>4. /\ q \in Processes /\ q.life = proc[l].life /\ q.pending = NoLine
        /\ q.world = proc[l].world /\ q.generation = proc[l].generation /\ q.emitted
    BY <1>2 DEF Processes
  <2>5. proc[l].world = Pair("R0")
    BY <1>3 DEF MayEmit
  <2> HIDE DEF q, e, o
  <2>6. SoleResponse(<<e, o>>) /\ Tells(proc[l], q, <<e, o>>)
    BY <2>1, <2>2, <2>4, TwoReplies, NotPair DEF Tells
  <2>7. Replies(l, q, <<e, o>>)
    BY <1>2, <2>3, <2>4, <2>5, <2>6 DEF Replies, Same
  <2>8. QED
    BY <2>7
<1>4. CASE ~MayEmit(proc[l])
  <2>1. Refuse(l, Used(l), "sequence")
    BY <1>4 DEF Emit
  <2>2. "sequence" \in Codes \ {"ok"} /\ Used(l).life = proc[l].life
    BY <1>2, Reading DEF Codes
  <2>3. QED
    BY <1>2, <2>1, <2>2, Refused
<1>5. QED
  BY <1>3, <1>4

LEMMA ReplaceDeed ==
  ASSUME ProcessTypes, NEW l \in Labels, Replace(l) PROVE \E q : Replaces(l, q)
<1> DEFINE q == [Used(l) EXCEPT !.pending = Line(l), !.world = Empty]
<1>1. Dispatches(l, {"materialize_0002"}) /\ {"materialize_0002"} \in SUBSET Operations
  BY DEF Replace, Operations, Materializations
<1>2. /\ Reads(l) /\ Line(l) \in Lines /\ Line(l).op = "materialize_0002"
      /\ Used(l) \in Processes /\ Used(l).life = proc[l].life
      /\ Used(l).generation = proc[l].generation
      /\ (Used(l).emitted <=> proc[l].emitted)
  BY <1>1, Dispatched
<1>3. Line(l).record = "R1" /\ proc[l].generation = "R0"
  BY <1>2 DEF Replace, Authentication
<1>4. Answer(l, q, <<>>)
  BY DEF Replace
<1>5. /\ q \in Processes /\ q.pending = Line(l) /\ q.life = proc[l].life /\ q.world = Empty
      /\ q.generation = proc[l].generation /\ (q.emitted <=> proc[l].emitted)
  BY <1>2, EmptyWorld DEF Processes
<1> HIDE DEF q
<1>6. Replaces(l, q)
  BY <1>2, <1>3, <1>4, <1>5 DEF Replaces
<1>7. QED
  BY <1>6

\* A representation is built, or fails to be: t is said of a process that has become p.
BuildDeed(l, op, record, p, t) ==
  /\ p \in Processes /\ p.life = proc[l].life /\ p.pending \in {proc[l].pending, NoLine}
  /\ (p.emitted <=> proc[l].emitted)
  /\ SoleResponse(t)
  /\ \E i \in DOMAIN t : t[i].kind = "response" /\ t[i].op = op
  /\ \A i \in DOMAIN t :
       /\ t[i].seen = Pair("R1") => p.world = Pair("R1")
       /\ t[i].kind = "response" => t[i].op = op
       /\ t[i].kind = "response" /\ t[i].code = "ok" /\ op = "materialize_0001" => p.world = Pair("R0")
  /\ \/ p.world = proc[l].world /\ p.generation = proc[l].generation
     \/ p.generation = record /\ \A other \in {"R0", "R1"} : p.world = Pair(other) => other = record

LEMMA BuiltDeed ==
  ASSUME ProcessTypes, NEW l \in Labels, NEW op, NEW record, NEW p, NEW t,
         Built(l, op, record, p, t), BuildDeed(l, op, record, p, t)
  PROVE  \E q : Replies(l, q, t) \/ Completes(l, q, t)
<1>1. CASE /\ BuildsR0(l) /\ op = "materialize_0001" /\ record = "R0"
           /\ Answer(l, [p EXCEPT !.ops = @ \cup {op}], t)
  <2> DEFINE q == [p EXCEPT !.ops = @ \cup {op}]
  <2>1. Dispatches(l, {"materialize_0001"}) /\ {"materialize_0001"} \in SUBSET Operations
    BY <1>1 DEF BuildsR0, Operations, Materializations
  <2>2. /\ Reads(l) /\ Line(l).op = "materialize_0001" /\ proc[l].pending = NoLine
    BY <2>1, Dispatched, Reading
  <2>3. proc[l].generation = "none" /\ ~proc[l].emitted
    BY <1>1, <2>2 DEF BuildsR0, Authentication
  <2>4. op \in Operations
    BY <1>1 DEF Operations, Materializations
  <2>5. /\ q \in Processes /\ q.pending = NoLine /\ q.life = proc[l].life
        /\ q.world = p.world /\ q.generation = p.generation /\ ~q.emitted
    BY <2>2, <2>3, <2>4 DEF BuildDeed, Processes
  <2>6. Answer(l, q, t)
    BY <1>1
  <2> HIDE DEF q
  <2>7. Tells(proc[l], q, t)
    BY <1>1, <2>5 DEF Tells, BuildDeed
  <2>8. SoleResponse(t) /\ \E i \in DOMAIN t : t[i].kind = "response" /\ t[i].op = "materialize_0001"
    BY <1>1 DEF BuildDeed
  <2>9. CASE p.world = proc[l].world /\ p.generation = proc[l].generation
    <3>1. Same(proc[l], q)
      BY <2>3, <2>5, <2>9 DEF Same
    <3>2. Replies(l, q, t)
      BY <2>2, <2>5, <2>6, <2>7, <2>8, <3>1 DEF Replies
    <3>3. QED
      BY <3>2
  <2>10. CASE p.generation = "R0" /\ \A other \in {"R0", "R1"} : p.world = Pair(other) => other = "R0"
    <3>1. q.generation = "R0" /\ q.world # Pair("R1")
      BY <2>5, <2>10
    <3>2. Replies(l, q, t)
      BY <2>2, <2>3, <2>5, <2>6, <2>7, <2>8, <3>1 DEF Replies
    <3>3. QED
      BY <3>2
  <2>11. QED
    BY <1>1, <2>9, <2>10 DEF BuildDeed
<1>2. CASE /\ BuildsR1(l) /\ op = "materialize_0002" /\ record = "R1"
           /\ proc' = [proc EXCEPT ![l] = [p EXCEPT !.pending = NoLine]]
           /\ output' = [output EXCEPT ![l] = @ \o t]
           /\ UNCHANGED <<case, control, closed>>
  <2> DEFINE q == [p EXCEPT !.pending = NoLine]
  <2>1. proc[l].life = "running" /\ proc[l].pending # NoLine
    BY <1>2 DEF BuildsR1
  <2>2. /\ q \in Processes /\ q.pending = NoLine /\ q.life = "running"
        /\ q.world = p.world /\ q.generation = p.generation /\ (q.emitted <=> proc[l].emitted)
    BY <2>1 DEF BuildDeed, Processes, NoLine, Lines, Records
  <2>3. proc' = [proc EXCEPT ![l] = q]
    BY <1>2
  <2> HIDE DEF q
  <2>4. Tells(proc[l], q, t)
    BY <1>2, <2>1, <2>2 DEF Tells, BuildDeed
  <2>5. SoleResponse(t)
    BY DEF BuildDeed
  <2>6. Same(proc[l], q) \/ (q.generation = "R1" /\ q.world # Pair("R0"))
    BY <1>2, <2>2 DEF Same, BuildDeed
  <2>7. Completes(l, q, t)
    BY <1>2, <2>1, <2>2, <2>3, <2>4, <2>5, <2>6 DEF Completes
  <2>8. QED
    BY <2>7
<1>3. QED
  BY <1>1, <1>2 DEF Built

LEMMA BuildOf ==
  ASSUME NEW l, NEW op, NEW record, NEW p, NEW t, Built(l, op, record, p, t)
  PROVE  op \in Materializations /\ record \in {"R0", "R1"} /\ (op = "materialize_0001" => record = "R0")
  BY DEF Built, Materializations

LEMMA Told ==
  ASSUME ProcessTypes, NEW l \in Labels, NEW op \in Materializations, NEW record \in {"R0", "R1"},
         NEW p \in Processes, NEW reply \in Codes,
         p.life = proc[l].life, p.pending \in {proc[l].pending, NoLine}, (p.emitted <=> proc[l].emitted),
         reply = "ok" /\ op = "materialize_0001" => p.world = Pair("R0"),
         \/ p.world = proc[l].world /\ p.generation = proc[l].generation
         \/ p.generation = record /\ \A other \in {"R0", "R1"} : p.world = Pair(other) => other = record
  PROVE  /\ BuildDeed(l, op, record, p, <<Response(op, reply, Empty)>>)
         /\ \A e \in Objects : e.kind = "fault_event" /\ (e.seen = Pair("R1") => p.world = Pair("R1")) =>
              BuildDeed(l, op, record, p, <<e, Response(op, reply, Empty)>>)
<1> DEFINE o == Response(op, reply, Empty)
<1>1. o \in Objects /\ o.kind = "response" /\ o.op = op /\ o.code = reply /\ o.seen = Empty
  BY ResponseType, EmptyWorld DEF Operations
<1> HIDE DEF o
<1>2. BuildDeed(l, op, record, p, <<o>>)
  BY <1>1, OneReply, NotPair DEF BuildDeed
<1>3. ASSUME NEW e \in Objects, e.kind = "fault_event", e.seen = Pair("R1") => p.world = Pair("R1")
      PROVE  BuildDeed(l, op, record, p, <<e, o>>)
  BY <1>1, <1>3, TwoReplies, NotPair DEF BuildDeed
<1>4. QED
  BY <1>2, <1>3 DEF o

LEMMA RepresentsOf ==
  ASSUME NEW p \in Processes, NEW record \in {"R0", "R1"}, NEW w \in Worlds
  PROVE  /\ Represents(p, record, w) \in Processes /\ Represents(p, record, w).world = w
         /\ Represents(p, record, w).generation = record /\ Represents(p, record, w).life = p.life
         /\ Represents(p, record, w).pending = p.pending
         /\ (Represents(p, record, w).emitted <=> p.emitted)
  BY DEF Represents, Processes

LEMMA WorldsOf ==
  ASSUME NEW record \in {"R0", "R1"}
  PROVE  /\ Pair(record) \in Worlds /\ [anchor |-> "none", resources |-> {record}] \in Worlds
         /\ \A other \in {"R0", "R1"} :
              /\ Pair(record) = Pair(other) => other = record
              /\ [anchor |-> "none", resources |-> {record}] # Pair(other)
  BY DEF Pair, Worlds, Resources

LEMMA SabotagedWorld ==
  Sabotaged \in Worlds /\ Sabotaged # Pair("R0") /\ Sabotaged # Pair("R1")
<1>1. PICK r \in SUBSET Resources : Sabotaged = [anchor |-> "R1", resources |-> r] /\ r # {"R1"}
  BY DEF Sabotaged, Resources
<1>2. QED
  BY <1>1 DEF Worlds, Pair

LEMMA CompleteDeed ==
  ASSUME ProcessTypes, NEW l \in Labels, NEW op, NEW record, CompleteMaterialization(l, op, record)
  PROVE  \E q, t : Replies(l, q, t) \/ Completes(l, q, t)
<1> DEFINE p == Represents(proc[l], record, Pair(record))
           t == <<Response(op, "ok", Empty)>>
<1>1. Built(l, op, record, p, t)
  BY DEF CompleteMaterialization
<1>2. op \in Materializations /\ record \in {"R0", "R1"} /\ (op = "materialize_0001" => record = "R0")
  BY <1>1, BuildOf
<1>3. proc[l] \in Processes
  BY DEF ProcessTypes
<1>4. /\ p \in Processes /\ p.world = Pair(record) /\ p.generation = record /\ p.life = proc[l].life
      /\ p.pending = proc[l].pending /\ (p.emitted <=> proc[l].emitted)
  <2>1. PICK w \in Worlds : w = Pair(record)
    BY <1>2, WorldsOf
  <2>2. p = Represents(proc[l], record, w)
    BY <2>1
  <2> HIDE DEF p
  <2>3. QED
    BY <1>2, <1>3, <2>1, <2>2, RepresentsOf
<1>5. \A other \in {"R0", "R1"} : p.world = Pair(other) => other = record
  BY <1>2, <1>4, WorldsOf
<1> HIDE DEF p
<1>6. BuildDeed(l, op, record, p, t)
  BY <1>2, <1>4, <1>5, Told, EmptyWorld
<1>7. QED
  BY <1>1, <1>6, BuiltDeed

LEMMA SpawnDeed ==
  ASSUME ProcessTypes, NEW l \in Labels, NEW op, NEW record, SpawnFails(l, op, record)
  PROVE  \E q, t : Replies(l, q, t) \/ Completes(l, q, t)
<1>1. proc[l] \in Processes
  BY DEF ProcessTypes
<1>2. ASSUME NEW p, NEW reply \in Codes \ {"ok"}, Built(l, op, record, p, <<Response(op, reply, Empty)>>),
             p \in Processes, p.life = proc[l].life, p.pending \in {proc[l].pending, NoLine},
             (p.emitted <=> proc[l].emitted),
             record \in {"R0", "R1"} =>
               \/ p.world = proc[l].world /\ p.generation = proc[l].generation
               \/ p.generation = record /\ \A other \in {"R0", "R1"} : p.world = Pair(other) => other = record
      PROVE  \E q, t : Replies(l, q, t) \/ Completes(l, q, t)
  <2>1. op \in Materializations /\ record \in {"R0", "R1"}
    BY <1>2, BuildOf
  <2>2. BuildDeed(l, op, record, p, <<Response(op, reply, Empty)>>)
    BY <1>2, <2>1, Told
  <2>3. QED
    BY <1>2, <2>2, BuiltDeed
<1>3. CASE Built(l, op, record, Terminal(proc[l]), <<Response(op, "cardinality", Empty)>>)
  <2> DEFINE p == Terminal(proc[l])
  <2>1. /\ p \in Processes /\ p.life = proc[l].life /\ p.pending = NoLine
        /\ (p.emitted <=> proc[l].emitted) /\ p.world = proc[l].world /\ p.generation = proc[l].generation
    BY <1>1, TerminalOf
  <2>2. Built(l, op, record, p, <<Response(op, "cardinality", Empty)>>)
    BY <1>3
  <2> HIDE DEF p
  <2>3. QED
    BY <1>2, <2>1, <2>2 DEF Codes
<1>4. ASSUME NEW w, NEW reply \in {"cardinality", "fault_arm"}, record \in {"R0", "R1"} => w \in Worlds,
             record \in {"R0", "R1"} => \A other \in {"R0", "R1"} : w = Pair(other) => other = record,
             Built(l, op, record, Terminal(Represents(proc[l], record, w)), <<Response(op, reply, Empty)>>)
      PROVE  \E q, t : Replies(l, q, t) \/ Completes(l, q, t)
  <2> DEFINE r == Represents(proc[l], record, w)
             p == Terminal(r)
  <2>1. record \in {"R0", "R1"}
    BY <1>4, BuildOf
  <2>2. /\ r \in Processes /\ r.world = w /\ r.generation = record /\ r.life = proc[l].life
        /\ (r.emitted <=> proc[l].emitted)
    BY <1>1, <1>4, <2>1, RepresentsOf
  <2> HIDE DEF r
  <2>3. /\ p \in Processes /\ p.life = proc[l].life /\ p.pending = NoLine
        /\ (p.emitted <=> proc[l].emitted) /\ p.world = w /\ p.generation = record
    BY <2>2, TerminalOf
  <2>4. Built(l, op, record, p, <<Response(op, reply, Empty)>>)
    BY <1>4 DEF r
  <2>5. reply \in Codes \ {"ok"}
    BY <1>4 DEF Codes
  <2> HIDE DEF p
  <2>6. QED
    BY <1>2, <1>4, <2>3, <2>4, <2>5
<1>5. QED
  <2>1. CASE Built(l, op, record, Terminal(Represents(proc[l], record, [anchor |-> "none", resources |-> {record}])),
                   <<Response(op, "cardinality", Empty)>>)
    <3> DEFINE w == [anchor |-> "none", resources |-> {record}]
    <3>1. record \in {"R0", "R1"} => w \in Worlds /\ \A other \in {"R0", "R1"} : w = Pair(other) => other = record
      BY WorldsOf
    <3>2. Built(l, op, record, Terminal(Represents(proc[l], record, w)), <<Response(op, "cardinality", Empty)>>)
      BY <2>1
    <3> HIDE DEF w
    <3>3. QED
      BY <1>4, <3>1, <3>2
  <2>2. CASE Built(l, op, record, Terminal(Represents(proc[l], record, Pair(record))),
                   <<Response(op, "fault_arm", Empty)>>)
    <3>1. record \in {"R0", "R1"} => Pair(record) \in Worlds /\ \A other \in {"R0", "R1"} : Pair(record) = Pair(other) => other = record
      BY WorldsOf
    <3>2. QED
      BY <1>4, <2>2, <3>1
  <2>3. QED
    BY <1>3, <2>1, <2>2 DEF SpawnFails

LEMMA PartialDeed ==
  ASSUME ProcessTypes, NEW l \in Labels, PartialPublication(l)
  PROVE  \E q, t : Replies(l, q, t) \/ Completes(l, q, t)
<1> DEFINE torn == [anchor |-> "none", resources |-> {"R1"}]
           r == [Represents(proc[l], "R1", torn) EXCEPT !.consumed = TRUE]
           p == Terminal(r)
           e == Event("fault_event", "materialize_0002", torn)
           t == <<e, Response("materialize_0002", "partial_publication", Empty)>>
<1>1. proc[l] \in Processes
  BY DEF ProcessTypes
<1>2. torn \in Worlds /\ \A other \in {"R0", "R1"} : torn # Pair(other)
  BY WorldsOf
<1>3. Built(l, "materialize_0002", "R1", p, t)
  BY DEF PartialPublication
<1> HIDE DEF torn
<1>4. /\ r \in Processes /\ r.world = torn /\ r.generation = "R1" /\ r.life = proc[l].life
      /\ (r.emitted <=> proc[l].emitted)
  <2>1. PICK s : s = Represents(proc[l], "R1", torn)
    OBVIOUS
  <2>2. /\ s \in Processes /\ s.world = torn /\ s.generation = "R1" /\ s.life = proc[l].life
        /\ (s.emitted <=> proc[l].emitted)
    BY <1>1, <1>2, <2>1, RepresentsOf
  <2>3. r = [s EXCEPT !.consumed = TRUE]
    BY <2>1
  <2>4. QED
    BY <2>2, <2>3 DEF Processes
<1> HIDE DEF r
<1>5. /\ p \in Processes /\ p.life = proc[l].life /\ p.pending = NoLine
      /\ (p.emitted <=> proc[l].emitted) /\ p.world = torn /\ p.generation = "R1"
  BY <1>4, TerminalOf
<1>6. e \in Objects /\ e.kind = "fault_event" /\ e.seen = torn
  BY <1>2, EventType DEF Operations, Materializations
<1>7. "partial_publication" \in Codes \ {"ok"} /\ "materialize_0002" \in Materializations
  BY DEF Codes, Materializations
<1> HIDE DEF p, e
<1>8. BuildDeed(l, "materialize_0002", "R1", p, t)
  BY <1>2, <1>5, <1>6, <1>7, Told
<1>9. QED
  BY <1>3, <1>8, BuiltDeed

LEMMA SabotageDeed ==
  ASSUME ProcessTypes, NEW l \in Labels, SabotageAfterReceipt(l)
  PROVE  \E q, t : Replies(l, q, t) \/ Completes(l, q, t)
<1> DEFINE p == [Represents(proc[l], "R1", Sabotaged) EXCEPT !.consumed = TRUE, !.terminal = TRUE]
           e == Event("fault_event", "materialize_0002", Sabotaged)
           t == <<e, Response("materialize_0002", "ok", Empty)>>
<1>1. proc[l] \in Processes
  BY DEF ProcessTypes
<1>2. Built(l, "materialize_0002", "R1", p, t)
  BY DEF SabotageAfterReceipt
<1>3. /\ p \in Processes /\ p.world = Sabotaged /\ p.generation = "R1" /\ p.life = proc[l].life
      /\ (p.emitted <=> proc[l].emitted) /\ p.pending = proc[l].pending
  <2>1. PICK s : s = Represents(proc[l], "R1", Sabotaged)
    OBVIOUS
  <2>2. /\ s \in Processes /\ s.world = Sabotaged /\ s.generation = "R1" /\ s.life = proc[l].life
        /\ (s.emitted <=> proc[l].emitted) /\ s.pending = proc[l].pending
    BY <1>1, <2>1, RepresentsOf, SabotagedWorld
  <2>3. p = [s EXCEPT !.consumed = TRUE, !.terminal = TRUE]
    BY <2>1
  <2>4. QED
    BY <2>2, <2>3 DEF Processes
<1>4. e \in Objects /\ e.kind = "fault_event" /\ e.seen = Sabotaged
  BY SabotagedWorld, EventType DEF Operations, Materializations
<1>5. "ok" \in Codes /\ "materialize_0002" \in Materializations /\ "materialize_0002" # "materialize_0001"
  BY DEF Codes, Materializations
<1> HIDE DEF p, e
<1>6. BuildDeed(l, "materialize_0002", "R1", p, t)
  BY <1>3, <1>4, <1>5, SabotagedWorld, Told
<1>7. QED
  BY <1>2, <1>6, BuiltDeed

\* Whatever a process does in a step is one of these.
LEMMA ProcessDeeds ==
  ASSUME ProcessTypes, NEW l \in Labels, Tick(l) \/ SpawnFailure(l)
  PROVE  \/ \E q, t : Replies(l, q, t) \/ Completes(l, q, t)
         \/ \E q : Replaces(l, q)
         \/ Boot(l)
         \/ proc[l].life \in {"running", "exiting"} /\ Exits(l, "exited")
<1>1. CASE DispatchMalformed(l) \/ DispatchEndOfInput(l) \/ Exit(l)
  BY <1>1 DEF DispatchMalformed, DispatchEndOfInput, Exit, Reads, Ticking
<1>2. CASE DispatchMisrouted(l) \/ DispatchOutOfSequence(l) \/ DispatchPayload(l) \/ RejectMaterialize(l)
  BY <1>2, RefusalDeed
<1>3. CASE Bind(l) \/ Emit(l) \/ Inspect(l) \/ ArmFault(l) \/ Shutdown(l)
  BY <1>3, BindDeed, EmitDeed, InspectDeed, ArmDeed, ShutdownDeed
<1>4. CASE ContinueMaterialization(l)
  BY <1>4, CompleteDeed, PartialDeed, SabotageDeed DEF ContinueMaterialization
<1>5. CASE SpawnFailure(l)
  BY <1>5, SpawnDeed DEF SpawnFailure
<1>6. CASE Replace(l)
  BY <1>6, ReplaceDeed
<1>7. QED
  BY <1>1, <1>2, <1>3, <1>4, <1>5, <1>6 DEF Tick, Dispatch

-----------------------------------------------------------------------------
(* Types and scripts are kept *)

Undecided == UNCHANGED <<stage, at, wrong, code, disposition>>

\* A step that waits, goes on or raises, and that neither calls nor claims.
LEMMA Outcome ==
  ASSUME ScriptInv, StepOK, EndTypes, case' = case, calls' = calls, birth \subseteq birth',
         Undecided \/ Raises \/ Proceeds(disposition),
         Step.do \notin {"spawn", "resume", "call", "invalidate", "classify", "supersede"}
  PROVE  ScriptInv' /\ EndTypes'
<1>1. CASE Undecided
  BY <1>1, StaysScript DEF Undecided, EndTypes
<1>2. CASE Raises
  BY <1>2, RaisesScript, RaisesTypes
<1>3. CASE Proceeds(disposition)
  <2>1. Working => Step.do \in Neutral \cup {"ask", "sample"}
    BY DEF StepOK
  <2>2. disposition \in [Domains -> Claims]
    BY DEF EndTypes
  <2>3. QED
    BY <1>3, <2>1, <2>2, ProceedsScript, ProceedsTypes
<1>4. QED
  BY <1>1, <1>2, <1>3

\* A connection as Retained, and what else of the types a step leaves.
LEMMA AskedType ==
  ASSUME ProcessTypes, NEW l \in Labels, NEW op \in Operations
  PROVE  /\ Asked(l, op) \in Connections
         /\ [Asked(l, op) EXCEPT !.asked = "none", !.failed = TRUE] \in Connections
<1>1. conn[l] \in Connections
  BY DEF ProcessTypes
<1>2. QED
  BY <1>1 DEF Asked, Connections

LEMMA FailedType ==
  ASSUME ProcessTypes, NEW l \in Labels PROVE Failed(l) \in Connections
<1>1. conn[l] \in Connections
  BY DEF ProcessTypes
<1>2. QED
  BY <1>1 DEF Failed, Connections

LEMMA CommandType ==
  ASSUME ScriptInv, StepOK, CanonicalTypes, Asks
  PROVE  Command \in Lines /\ Command.op = Step.op /\ Step.op \in Operations /\ Step.on \in Labels
<1>1. Step.op \in Operations /\ Step.on \in Labels
  <2>1. "shutdown_0001" \in Operations
    BY DEF Operations
  <2>2. QED
    BY <2>1 DEF Asks, StepOK
<1>2. /\ Command.op = Step.op
      /\ Command.record \in Records /\ Command.binding \in BOOLEAN /\ Command.exact \in BOOLEAN
  <2>1. head \in Records /\ "none" \in Records /\ "working" \in Records /\ "R0" \in Records
    BY DEF CanonicalTypes, Records
  <2>2. QED
    BY <2>1 DEF Command
<1>3. Command = [op |-> Command.op, binding |-> Command.binding, record |-> Command.record,
                 exact |-> Command.exact]
  BY DEF Command
<1>4. QED
  BY <1>1, <1>2, <1>3 DEF Lines

LEMMA TakesTypes ==
  ASSUME ProcessTypes, NEW l \in Labels, NEW c \in Connections, Takes(l, c), output[l] # <<>>
  PROVE  ProcessTypes' /\ case' = case
<1>1. Tail(output[l]) \in Seq(Objects)
  BY DEF ProcessTypes
<1>2. output' \in [Labels -> Seq(Objects)]
  BY <1>1 DEF Takes, ProcessTypes
<1>3. conn' \in [Labels -> Connections]
  BY DEF Takes, ProcessTypes
<1>4. QED
  BY <1>2, <1>3 DEF Takes, ProcessTypes

LEMMA ObjectType ==
  ASSUME ProcessTypes, NEW l \in Labels, output[l] # <<>> PROVE Object(l) \in Objects
  BY DEF ProcessTypes, Object

LEMMA AnsweredType ==
  ASSUME NEW x \in Connections, NEW o
  PROVE  [x EXCEPT !.asked = "none",
                   !.startup = @ \/ o.kind = "startup",
                   !.bound = @ \/ (o.op = "bind_0001" /\ o.code = "ok"),
                   !.failed = o.op = "bind_0001" /\ ~(o.code = "ok"),
                   !.shut = o.op = "shutdown_0001"] \in Connections
<1>1. ASSUME NEW s \in BOOLEAN, NEW b \in BOOLEAN, NEW f \in BOOLEAN, NEW h \in BOOLEAN
      PROVE  [x EXCEPT !.asked = "none", !.startup = s, !.bound = b, !.failed = f, !.shut = h] \in Connections
  BY DEF Connections
<1>2. (o.op = "bind_0001" /\ ~(o.code = "ok")) \in BOOLEAN
  OBVIOUS
<1>3. (o.op = "shutdown_0001") \in BOOLEAN
  OBVIOUS
<1>4. (x.startup \/ o.kind = "startup") \in BOOLEAN
  OBVIOUS
<1>5. (x.bound \/ (o.op = "bind_0001" /\ o.code = "ok")) \in BOOLEAN
  OBVIOUS
<1>6. QED
  BY <1>1, <1>2, <1>3, <1>4, <1>5, Zenon

LEMMA AnsweredTypes ==
  ASSUME ProcessTypes, NEW l \in Labels, Answered(l) PROVE ProcessTypes' /\ case' = case
<1> DEFINE c == [conn[l] EXCEPT !.asked = "none",
                              !.startup = @ \/ Object(l).kind = "startup",
                              !.bound = @ \/ (Object(l).op = "bind_0001" /\ Object(l).code = "ok"),
                              !.failed = Object(l).op = "bind_0001" /\ ~(Object(l).code = "ok"),
                              !.shut = Object(l).op = "shutdown_0001"]
<1>1. Takes(l, c) /\ output[l] # <<>>
  BY DEF Answered, Answers, Readable
<1>2. conn[l] \in Connections
  BY DEF ProcessTypes
<1>3. c \in Connections
  <2>0. PICK x \in Connections : x = conn[l]
    BY <1>2
  <2>1. PICK o : o = Object(l)
    OBVIOUS
  <2>2. c = [x EXCEPT !.asked = "none",
                   !.startup = @ \/ o.kind = "startup",
                   !.bound = @ \/ (o.op = "bind_0001" /\ o.code = "ok"),
                   !.failed = o.op = "bind_0001" /\ ~(o.code = "ok"),
                   !.shut = o.op = "shutdown_0001"]
    BY <2>0, <2>1
  <2> HIDE DEF c
  <2>3. QED
    BY <2>2, AnsweredType, Zenon
<1>4. QED
  BY <1>1, <1>3, TakesTypes

LEMMA HearsTypes ==
  ASSUME ProcessTypes, NEW l \in Labels, Hears(l) PROVE ProcessTypes' /\ case' = case
<1>1. output[l] # <<>> /\ conn[l] \in Connections
  BY DEF Hears, Readable, ProcessTypes
<1>2. Object(l).seen \in Worlds
  BY <1>1, ObjectType DEF Objects
<1>3. PICK c \in Connections : Takes(l, c)
  <2>1. [conn[l] EXCEPT !.physical = TRUE] \in Connections
    BY <1>1 DEF Connections
  <2>2. [conn[l] EXCEPT !.faults = <<Object(l).seen>>] \in Connections
    BY <1>1, <1>2 DEF Connections
  <2>3. QED
    BY <2>1, <2>2 DEF Hears
<1>4. QED
  BY <1>1, <1>3, TakesTypes

LEMMA BreaksTypes ==
  ASSUME ProcessTypes, NEW l \in Labels, Breaks(l) \/ GivesUp(l) PROVE ProcessTypes' /\ case' = case
<1>1. Failed(l) \in Connections
  BY FailedType
<1>2. CASE output[l] # <<>> /\ Takes(l, Failed(l))
  BY <1>1, <1>2, TakesTypes
<1>3. CASE conn' = [conn EXCEPT ![l] = Failed(l)] /\ UNCHANGED processVars
  BY <1>1, <1>3, ConnTypes DEF processVars
<1>4. QED
  BY <1>2, <1>3 DEF Breaks, GivesUp, Readable

LEMMA PolledAll ==
  ASSUME ProcessTypes, NEW l \in Labels, Polled(l), UNCHANGED conn
  PROVE  ProcessTypes' /\ case' = case
  BY PolledTypes DEF Polled

\* Only the process the parent stands at is awaited, for what the step asks, and no connection
\* has failed while the parent works.
AwaitInv ==
  \A l \in Labels :
    /\ Awaits(l) =>
         /\ Step.on = l /\ ~conn[l].failed
         /\ \/ Does("startup") /\ conn[l].asked = "startup"
            \/ /\ Does("ask") \/ Does("shutdown")
               /\ conn[l].asked = Step.op /\ Step.op \in conn[l].ops /\ l \in Domains
    /\ Working => ~conn[l].failed

LEMMA Heard ==
  ASSUME TypeInv, StepOK, AwaitInv, NEW l \in Labels, l = Step.on, Does("ask") \/ Does("shutdown"), Answers(l)
  PROVE  /\ l \in Domains /\ Object(l) \in Objects /\ Object(l).kind = "response"
         /\ Object(l).op = Step.op /\ conn[l].asked = Step.op /\ Step.op \in Operations /\ ~conn[l].failed
         /\ Step.op \in conn[l].ops
         /\ output[l] # <<>> /\ Awaits(l)
<1>1. Awaits(l) /\ output[l] # <<>> /\ Expects(conn[l], Object(l)) /\ Object(l).kind \in {"startup", "response"}
  BY DEF Answers, Readable
<1>2. ~conn[l].failed /\ conn[l].asked = Step.op /\ l \in Domains /\ Step.op \in conn[l].ops
  BY <1>1 DEF AwaitInv, Does
<1>3. Step.op \in Operations /\ "startup" \notin Operations
  BY DEF StepOK, Does, Operations, Materializations, Inspections
<1>4. Object(l).kind = "response" /\ Object(l).op = Step.op
  BY <1>1, <1>2, <1>3 DEF Expects
<1>5. Object(l) \in Objects
  BY <1>1, ObjectType DEF TypeInv
<1>6. QED
  BY <1>1, <1>2, <1>3, <1>4, <1>5

\* The exchanges.
LEMMA AskTypes ==
  ASSUME TypeInv, StepOK, AwaitInv, Request \/ Skip \/ Hear \/ Response_ \/ NoResponse \/ ReadStartup
  PROVE  TypeInv'
<1> USE DEF TypeInv
<1>0. Step.on \in Labels
  BY DEF StepOK
<1>1. ASSUME Request PROVE TypeInv'
  <2>1. /\ Command \in Lines /\ Command.op = Step.op /\ Step.op \in Operations
    BY <1>1, CommandType DEF Request
  <2>2. ProcessTypes' /\ case' = case
    <3>0. /\ Asked(Step.on, Command.op) \in Connections
          /\ [Asked(Step.on, Command.op) EXCEPT !.asked = "none", !.failed = TRUE] \in Connections
      <4>1. PICK l \in Labels, op \in Operations : l = Step.on /\ op = Command.op
        BY <1>0, <2>1
      <4>2. QED
        BY <4>1, AskedType, Zenon
    <3>1. CASE Ask(Step.on, Command)
      <4>1. Asked(Step.on, Command.op) \in Connections
        BY <3>0
      <4>2. conn' \in [Labels -> Connections]
        BY <1>0, <3>1, <4>1 DEF Ask, ProcessTypes
      <4>3. Append(control[Step.on], Command) \in Seq(Lines)
        BY <1>0, <2>1 DEF ProcessTypes
      <4>4. control' \in [Labels -> Seq(Lines)]
        BY <1>0, <3>1, <4>3 DEF Ask, ProcessTypes
      <4>5. QED
        BY <3>1, <4>2, <4>4 DEF Ask, ProcessTypes
    <3>2. CASE AskInVain(Step.on, Command)
      <4>1. [Asked(Step.on, Command.op) EXCEPT !.asked = "none", !.failed = TRUE] \in Connections
        BY <3>0
      <4>2. QED
        BY <1>0, <3>2, <4>1, ConnTypes DEF AskInVain, processVars
    <3>3. QED
      BY <1>1, <3>1, <3>2 DEF Request
  <2>3. /\ CanonicalTypes' /\ ParentTypes' /\ RecordTypes'
    BY <1>1, CanonicalStays, ParentStays, RecordStays DEF Request, Quietly
  <2>4. Step.do \in {"ask", "shutdown"}
    BY <1>1 DEF Request, Asks, Does
  <2>5. (Undecided \/ Raises) /\ calls' = calls /\ birth \subseteq birth'
    BY <1>1 DEF Request, Undecided, canonicalVars, parentVars
  <2>6. ScriptInv' /\ EndTypes'
    BY <2>2, <2>4, <2>5, Outcome
  <2>7. QED
    BY <2>2, <2>3, <2>6
<1>2. ASSUME Skip PROVE TypeInv'
  <2>1. ProcessTypes' /\ case' = case
    BY <1>0, <1>2, PolledAll DEF Skip
  <2>2. /\ CanonicalTypes' /\ ParentTypes' /\ RecordTypes'
    BY <1>2, CanonicalStays, ParentStays, RecordStays DEF Skip, Quietly
  <2>3. Step.do \in {"ask", "shutdown"} /\ Proceeds(disposition) /\ calls' = calls /\ birth \subseteq birth'
    BY <1>2 DEF Skip, Does, canonicalVars, parentVars
  <2>4. ScriptInv' /\ EndTypes'
    BY <2>1, <2>3, Outcome
  <2>5. QED
    BY <2>1, <2>2, <2>4
<1>3. ASSUME Hear PROVE TypeInv'
  <2>1. ProcessTypes' /\ case' = case
    BY <1>0, <1>3, HearsTypes DEF Hear
  <2>2. /\ CanonicalTypes' /\ ParentTypes' /\ RecordTypes'
    BY <1>3, CanonicalStays, ParentStays, RecordStays DEF Hear, Quietly
  <2>3. Undecided /\ calls' = calls /\ birth' = birth
    BY <1>3 DEF Hear, Undecided, canonicalVars, parentVars
  <2>4. ScriptInv' /\ EndTypes'
    BY <2>1, <2>3, StaysScript DEF Undecided, EndTypes
  <2>5. QED
    BY <2>1, <2>2, <2>4
<1>4. ASSUME Response_ PROVE TypeInv'
  <2> DEFINE l == Step.on
             object == Object(l)
  <2>0. Answered(l)
    BY <1>4 DEF Response_
  <2>a. ProcessTypes' /\ case' = case
    BY <1>0, <2>0, AnsweredTypes, Zenon
  <2>b. output[l] # <<>>
    BY <2>0 DEF Answered, Answers, Readable
  <2>1. ProcessTypes' /\ case' = case /\ output[l] # <<>>
    BY <2>a, <2>b
  <2>2. object \in Objects
    BY <1>0, <2>1, ObjectType
  <2>3. RecordTypes'
    BY <1>4, RecordStays DEF Response_, Quietly
  <2>4. ParentTypes'
    <3>1. conn[l].faults \in Seq(Worlds)
      <4>1. conn[l].faults \in {<<>>} \cup {<<w>> : w \in Worlds}
        BY <1>0 DEF ProcessTypes, Connections
      <4>2. <<>> \in Seq(Worlds) /\ \A w \in Worlds : <<w>> \in Seq(Worlds)
        OBVIOUS
      <4>3. QED
        BY <4>1, <4>2
    <3>2. wireFaults \o conn[l].faults \in Seq(Worlds)
      BY <3>1, ConcatProperties DEF ParentTypes
    <3>3. wireFaults' = wireFaults \o conn[l].faults /\ UNCHANGED <<dead, birth, monitored, signal>>
      BY <1>4 DEF Response_
    <3>4. QED
      BY <3>2, <3>3 DEF ParentTypes
  <2>5. CASE object.code = "ok"
    <3>1. Retains(l, object.op, object.seen) /\ Proceeds(disposition) /\ UNCHANGED <<head, calls, birth>>
      BY <1>4, <2>5 DEF Response_
    <3>2. Step.do \in {"ask", "shutdown"}
      BY <1>4 DEF Response_, Does
    <3>3. ScriptInv' /\ EndTypes'
      BY <2>1, <3>1, <3>2, Outcome
    <3>4. CanonicalTypes'
      <4>1. object.op = "emit_0001" => l \in Domains
        <5>1. Answers(l) /\ (Does("ask") \/ Does("shutdown"))
          BY <1>4 DEF Response_, Answered
        <5>2. QED
          BY <1>0, <5>1, Heard
      <4>2. object.seen \in Worlds
        BY <2>2 DEF Objects
      <4>3. captures' \in SUBSET Domains
        BY <3>1, <4>1 DEF Retains, CanonicalTypes
      <4>4. represented' \in [Domains -> {"none", "R0", "R1"}] /\ observed' \in [Domains -> Worlds]
        BY <3>1, <4>2 DEF Retains, CanonicalTypes
      <4>5. QED
        BY <3>1, <4>3, <4>4 DEF CanonicalTypes
    <3>5. QED
      BY <2>1, <2>3, <2>4, <3>3, <3>4
  <2>6. CASE object.code # "ok"
    <3>1. RaisesCode(object.code) /\ UNCHANGED <<head, calls, represented, observed, captures>>
      BY <1>4, <2>6 DEF Response_
    <3>2. ScriptInv' /\ EndTypes'
      BY <2>1, <3>1, RaisesCodeEnds
    <3>3. CanonicalTypes'
      BY <3>1 DEF CanonicalTypes
    <3>4. QED
      BY <2>1, <2>3, <2>4, <3>2, <3>3
  <2>7. QED
    BY <2>5, <2>6
<1>5. ASSUME NoResponse PROVE TypeInv'
  <2>1. ProcessTypes' /\ case' = case
    BY <1>0, <1>5, BreaksTypes DEF NoResponse
  <2>2. /\ CanonicalTypes' /\ ParentTypes' /\ RecordTypes'
    BY <1>5, CanonicalStays, ParentStays, RecordStays DEF NoResponse, Quietly, Mishap
  <2>3. Raises
    BY <1>5 DEF NoResponse
  <2>4. ScriptInv' /\ EndTypes'
    BY <2>1, <2>3, RaisesScript, RaisesTypes
  <2>5. QED
    BY <2>1, <2>2, <2>4
<1>6. ASSUME ReadStartup PROVE TypeInv'
  <2>1. ProcessTypes' /\ case' = case
    <3>1. CASE AwaitStartup(Step.on)
      <4>0. conn[Step.on] \in Connections
        BY <1>0 DEF ProcessTypes
      <4>1. [conn[Step.on] EXCEPT !.asked = "startup"] \in Connections
        <5>1. PICK c \in Connections : c = conn[Step.on]
          BY <4>0
        <5>2. [c EXCEPT !.asked = "startup"] \in Connections
          BY DEF Connections
        <5>3. QED
          BY <5>1, <5>2
      <4>2. conn' = [conn EXCEPT ![Step.on] = [conn[Step.on] EXCEPT !.asked = "startup"]] /\ UNCHANGED processVars
        BY <3>1 DEF AwaitStartup
      <4>3. QED
        BY <1>0, <4>1, <4>2, ConnTypes DEF processVars
    <3>2. QED
      BY <1>0, <1>6, <3>1, AnsweredTypes DEF ReadStartup
  <2>2. /\ CanonicalTypes' /\ ParentTypes' /\ RecordTypes'
    BY <1>6, CanonicalStays, ParentStays, RecordStays DEF ReadStartup, Quietly
  <2>3. Step.do = "startup" /\ (Undecided \/ Proceeds(disposition)) /\ calls' = calls /\ birth' = birth
    BY <1>6 DEF ReadStartup, Does, Undecided, canonicalVars, parentVars
  <2>4. ScriptInv' /\ EndTypes'
    BY <2>1, <2>3, Outcome
  <2>5. QED
    BY <2>1, <2>2, <2>4
<1>7. QED
  BY <1>1, <1>2, <1>3, <1>4, <1>5, <1>6

Claiming == {"spawn", "resume", "call", "invalidate", "classify", "supersede"}

LEMMA Simple ==
  ASSUME TypeInv, StepOK, ProcessTypes', case' = case, UNCHANGED <<canonicalVars, claimVars>>,
         ParentTypes', birth' = birth, status' = status, UNCHANGED mishaps \/ Mishap,
         Undecided \/ Raises \/ (Proceeds(disposition) /\ Step.do \notin Claiming)
  PROVE  TypeInv'
<1>1. ScriptInv /\ EndTypes /\ CanonicalTypes /\ RecordTypes
  BY DEF TypeInv
<1>2. CanonicalTypes' /\ RecordTypes'
  BY <1>1, CanonicalStays, RecordStays
<1>3. calls' = calls /\ birth \subseteq birth'
  BY DEF canonicalVars
<1>4. ScriptInv' /\ EndTypes'
  <2>1. CASE Raises
    BY <1>1, <2>1, RaisesScript, RaisesTypes
  <2>2. CASE Undecided
    BY <1>1, <1>3, <2>2, StaysScript DEF Undecided, EndTypes
  <2>3. CASE Proceeds(disposition) /\ Step.do \notin Claiming
    BY <1>1, <1>3, <2>3, Outcome DEF Claiming
  <2>4. QED
    BY <2>1, <2>2, <2>3
<1>5. QED
  BY <1>2, <1>4 DEF TypeInv

LEMMA PlainTypes ==
  ASSUME TypeInv, StepOK,
         \/ SampleStartup \/ Snapshot \/ Exited \/ Sample \/ NotExited \/ Hitch \/ Close
         \/ Terminate \/ Kill
  PROVE  TypeInv'
<1>0. Step.on \in Labels /\ ProcessTypes /\ ParentTypes
  BY DEF StepOK, TypeInv
<1>1. CASE SampleStartup \/ Snapshot \/ Exited
  <2>1. Polled(Step.on) /\ UNCHANGED conn /\ UNCHANGED <<canonicalVars, claimVars>> /\ UNCHANGED parentVars
        /\ Quietly /\ (Raises \/ Proceeds(disposition))
        /\ Step.do \in {"sample_startup", "snapshot", "await_exit", "wait"}
    BY <1>1 DEF SampleStartup, Snapshot, Exited, Does
  <2>2. ProcessTypes' /\ case' = case /\ ParentTypes' /\ birth' = birth
    BY <1>0, <2>1, PolledAll, ParentStays DEF parentVars
  <2>3. QED
    BY <2>1, <2>2, Simple DEF Quietly, Claiming
<1>2. CASE Sample
  <2>1. Polled(Step.on) /\ UNCHANGED conn /\ UNCHANGED <<canonicalVars, claimVars>>
        /\ UNCHANGED <<wireFaults, birth, monitored, signal>>
        /\ dead' \in {dead, dead \cup {Step.on}} /\ Quietly /\ Proceeds(disposition)
        /\ Step.do = "sample"
    BY <1>2 DEF Sample, Does
  <2>2. Step.on \in Domains
    BY <2>1 DEF StepOK
  <2>3. ParentTypes'
    BY <1>0, <2>1, <2>2 DEF ParentTypes
  <2>4. ProcessTypes' /\ case' = case
    BY <1>0, <2>1, PolledAll
  <2>5. QED
    BY <2>1, <2>3, <2>4, Simple DEF Quietly, Claiming
<1>3. CASE NotExited \/ Hitch
  <2>1. UNCHANGED processVars /\ UNCHANGED conn /\ UNCHANGED <<canonicalVars, claimVars>> /\ UNCHANGED parentVars
        /\ Raises /\ status' = status /\ (UNCHANGED mishaps \/ Mishap)
    BY <1>3 DEF NotExited, Hitch, Quietly, Mishap
  <2>2. ProcessTypes' /\ case' = case /\ ParentTypes' /\ birth' = birth
    BY <1>0, <2>1, ProcessStays, ParentStays DEF parentVars, processVars
  <2>3. QED
    BY <2>1, <2>2, Simple
<1>4. CASE Close
  <2>1. closed' = [closed EXCEPT ![Step.on] = TRUE] /\ UNCHANGED <<case, proc, control, output, conn>>
        /\ UNCHANGED <<canonicalVars, claimVars>> /\ UNCHANGED parentVars
        /\ (Raises \/ Proceeds(disposition)) /\ status' = status /\ (UNCHANGED mishaps \/ Mishap)
        /\ Step.do = "close"
    BY <1>4 DEF Close, Quietly, Mishap, Does
  <2>2. ProcessTypes'
    BY <1>0, <2>1 DEF ProcessTypes
  <2>3. ParentTypes' /\ birth' = birth
    BY <1>0, <2>1, ParentStays DEF parentVars
  <2>4. QED
    BY <2>1, <2>2, <2>3, Simple DEF Claiming
<1>5. CASE Terminate
  <2>1. Polled(Step.on) /\ UNCHANGED conn /\ UNCHANGED <<canonicalVars, claimVars>>
        /\ UNCHANGED <<wireFaults, dead, birth, monitored>> /\ Quietly
        /\ (Raises \/ Proceeds(disposition)) /\ Step.do = "terminate"
        /\ signal' \in {signal, [signal EXCEPT ![Step.on] = "TERM"]}
    BY <1>5 DEF Terminate, Does, Signals
  <2>2. ProcessTypes' /\ case' = case
    BY <1>0, <2>1, PolledAll
  <2>3. ParentTypes'
    BY <1>0, <2>1 DEF ParentTypes
  <2>4. QED
    BY <2>1, <2>2, <2>3, Simple DEF Quietly, Claiming
<1>6. CASE Kill
  <2>1. UNCHANGED processVars /\ UNCHANGED conn /\ UNCHANGED <<canonicalVars, claimVars>>
        /\ UNCHANGED <<wireFaults, dead, birth, monitored>> /\ Quietly /\ (Raises \/ Undecided)
        /\ signal' \in {signal, [signal EXCEPT ![Step.on] = "KILL"]}
    BY <1>6 DEF Kill, Signals, Undecided
  <2>2. ProcessTypes' /\ case' = case
    BY <1>0, <2>1, ProcessStays DEF processVars
  <2>3. ParentTypes'
    BY <1>0, <2>1 DEF ParentTypes
  <2>4. QED
    BY <2>1, <2>2, <2>3, Simple DEF Quietly
<1>7. QED
  BY <1>1, <1>2, <1>3, <1>4, <1>5, <1>6

LEMMA SpawnTypes == ASSUME TypeInv, StepOK, Spawn PROVE TypeInv'
<1> DEFINE l == Step.on
<1>0. l \in Labels /\ ProcessTypes /\ ParentTypes /\ ScriptInv /\ EndTypes /\ CanonicalTypes /\ RecordTypes
  BY DEF StepOK, TypeInv
<1>1. proc' = [proc EXCEPT ![l].life = "suspended"] /\ UNCHANGED <<case, control, output, closed, conn>>
      /\ UNCHANGED <<canonicalVars, claimVars>> /\ UNCHANGED <<wireFaults, dead, signal>>
      /\ Step.do = "spawn"
  BY DEF Spawn, Does
<1>2. ProcessTypes'
  BY <1>0, <1>1, LifeTypes
<1>3. CanonicalTypes'
  BY <1>0, <1>1, CanonicalStays
<1>4. ParentTypes' /\ birth \subseteq birth'
  <2>1. /\ birth' \in {birth, birth \cup {l}} /\ monitored' \in {monitored, monitored \cup {l}}
        /\ monitored' # monitored => birth' = birth \cup {l}
    BY DEF Spawn
  <2>2. QED
    BY <1>0, <1>1, <2>1 DEF ParentTypes
<1>5. RecordTypes'
  BY <1>0, RecordStays DEF Spawn, Quietly, Mishap
<1>6. CASE Raises
  BY <1>0, <1>1, <1>2, <1>3, <1>4, <1>5, <1>6, RaisesScript, RaisesTypes DEF TypeInv
<1>7. CASE birth' = birth \cup {l} /\ Proceeds(disposition)
  <2>1. Carries
    <3> SUFFICES ASSUME NEW v \in Views, NEW w \in Views, Working, Fits(v), w = After(v, Step)
                 PROVE  Fits(w)'
      BY DEF Carries
    <3>1. w = [v EXCEPT !.new = l]
      BY <1>1 DEF After
    <3>2. w.n = v.n /\ w.out = v.out /\ w.new = l
      BY <3>1 DEF Views
    <3>3. calls' = calls /\ disposition' = disposition
      BY <1>1, <1>7 DEF Proceeds, canonicalVars
    <3>4. QED
      BY <1>7, <3>2, <3>3 DEF Fits
  <2>2. ScriptInv'
    BY <1>0, <1>1, <1>7, <2>1, AdvanceScript DEF Proceeds
  <2>3. EndTypes'
    BY <1>0, <1>7, ProceedsTypes DEF EndTypes
  <2>4. QED
    BY <1>2, <1>3, <1>4, <1>5, <2>2, <2>3 DEF TypeInv
<1>8. QED
  BY <1>6, <1>7 DEF Spawn

LEMMA ResumeTypes == ASSUME TypeInv, StepOK, Resume PROVE TypeInv'
<1> DEFINE l == Step.on
<1>0. l \in Labels /\ ProcessTypes /\ ParentTypes /\ ScriptInv /\ EndTypes /\ CanonicalTypes /\ RecordTypes
  BY DEF StepOK, TypeInv
<1>1. proc' = [proc EXCEPT ![l].life = "running"] /\ UNCHANGED <<case, control, output, closed, conn>>
      /\ UNCHANGED <<canonicalVars, claimVars>> /\ UNCHANGED parentVars
      /\ Step.do = "resume" /\ Proceeds(disposition) /\ Quietly
  BY DEF Resume, Does
<1>2. ProcessTypes'
  BY <1>0, <1>1, LifeTypes
<1>3. CanonicalTypes' /\ ParentTypes' /\ RecordTypes'
  BY <1>0, <1>1, CanonicalStays, ParentStays, RecordStays DEF Quietly
<1>4. Carries
  <2> SUFFICES ASSUME NEW v \in Views, NEW w \in Views, Working, Fits(v), w = After(v, Step)
               PROVE  Fits(w)'
    BY DEF Carries
  <2>1. w = [v EXCEPT !.new = "none"]
    BY <1>1 DEF After
  <2>2. w.n = v.n /\ w.out = v.out /\ w.new = "none"
    BY <2>1 DEF Views
  <2>3. calls' = calls /\ disposition' = disposition /\ birth' = birth
    BY <1>1 DEF Proceeds, canonicalVars, parentVars
  <2>4. QED
    BY <2>2, <2>3 DEF Fits
<1>5. ScriptInv'
  BY <1>0, <1>1, <1>4, AdvanceScript DEF Proceeds
<1>6. EndTypes'
  BY <1>0, <1>1, ProceedsTypes DEF EndTypes
<1>7. QED
  BY <1>2, <1>3, <1>5, <1>6 DEF TypeInv

\* A claim is made, or taken back.
LEMMA ClaimedTypes ==
  ASSUME TypeInv, StepOK, UNCHANGED <<processVars, conn, canonicalVars, claimVars, parentVars>>, Quietly,
         NEW x \in Claims, Proceeds([disposition EXCEPT ![Step.on] = x]),
         \/ Step.do = "invalidate" /\ x = "unclaimed"
         \/ Step.do \in {"classify", "supersede"}
         \/ Step.do = "census" /\ stage = "terminal"
  PROVE  TypeInv'
<1>0. Step.on \in Domains /\ ProcessTypes /\ ParentTypes /\ ScriptInv /\ EndTypes /\ CanonicalTypes /\ RecordTypes
  BY DEF StepOK, TypeInv
<1>1. ProcessTypes' /\ CanonicalTypes' /\ ParentTypes' /\ RecordTypes' /\ case' = case
  BY <1>0, ProcessStays, CanonicalStays, ParentStays, RecordStays DEF Quietly, processVars
<1>2. disposition' = [disposition EXCEPT ![Step.on] = x] /\ [disposition EXCEPT ![Step.on] = x] \in [Domains -> Claims]
  BY <1>0 DEF Proceeds, EndTypes
<1>3. EndTypes'
  BY <1>0, <1>2, ProceedsTypes
<1>4. Carries
  <2> SUFFICES ASSUME NEW v \in Views, NEW w \in Views, Working, Fits(v), w = After(v, Step)
               PROVE  Fits(w)'
    BY DEF Carries
  <2>1. Step.do # "census"
    BY DEF Working
  <2>2. /\ Step.do = "invalidate" => w = [v EXCEPT !.out = @ \cup {Step.on}]
        /\ Step.do \in {"classify", "supersede"} => w = [v EXCEPT !.out = @ \ {Step.on}]
    BY DEF After
  <2>3. /\ w.n = v.n /\ w.new = v.new
        /\ Step.do = "invalidate" => w.out = v.out \cup {Step.on}
        /\ Step.do \in {"classify", "supersede"} => w.out = v.out \ {Step.on}
        /\ v.out \in SUBSET Domains
    BY <2>1, <2>2 DEF Views
  <2>4. calls' = calls /\ birth' = birth
    BY DEF canonicalVars, parentVars
  <2>5. \A d \in w.out : disposition'[d] = "unclaimed"
    <3> SUFFICES ASSUME NEW d \in w.out PROVE disposition'[d] = "unclaimed"
      OBVIOUS
    <3>1. d \in Domains
      BY <1>0, <2>1, <2>3
    <3>2. d # Step.on => disposition[d] = "unclaimed"
      BY <2>1, <2>3 DEF Fits
    <3>3. d = Step.on => x = "unclaimed"
      BY <2>1, <2>3
    <3>4. QED
      BY <1>0, <1>2, <3>1, <3>2, <3>3 DEF EndTypes
  <2>6. QED
    BY <2>3, <2>4, <2>5 DEF Fits
<1>5. ScriptInv'
  BY <1>0, <1>1, <1>4, AdvanceScript DEF Proceeds
<1>6. QED
  BY <1>1, <1>3, <1>5 DEF TypeInv

LEMMA CensusTypes ==
  ASSUME TypeInv, StepOK, Classify \/ Claim \/ Census \/ Alive PROVE TypeInv'
<1>0. ProcessTypes /\ ParentTypes /\ ScriptInv /\ EndTypes /\ CanonicalTypes /\ RecordTypes
  BY DEF TypeInv
<1>1. UNCHANGED <<processVars, conn, canonicalVars, claimVars, parentVars>> /\ Quietly
  BY DEF Classify, Claim, Census, Alive
<1>2. ProcessTypes' /\ CanonicalTypes' /\ ParentTypes' /\ RecordTypes' /\ case' = case
  BY <1>0, <1>1, ProcessStays, CanonicalStays, ParentStays, RecordStays DEF Quietly, processVars
<1>3. ASSUME NEW c, RaisesCode(c) PROVE TypeInv'
  BY <1>0, <1>2, <1>3, RaisesCodeEnds DEF TypeInv
<1>4. CASE Raises
  BY <1>0, <1>2, <1>4, RaisesScript, RaisesTypes DEF TypeInv
<1>5. CASE Classify
  <2>1. CASE RaisesCode(WorldCode(observed[Step.on], represented[Step.on]))
    BY <1>3, <2>1
  <2>2. CASE Proceeds([disposition EXCEPT ![Step.on] =
                      IF represented[Step.on] = head THEN "current" ELSE "stale"])
    <3>1. PICK x \in Claims : Proceeds([disposition EXCEPT ![Step.on] = x])
      BY <2>2 DEF Claims
    <3>2. Step.do = "classify"
      BY <1>5 DEF Classify, Does
    <3>3. QED
      BY <1>1, <3>1, <3>2, ClaimedTypes
  <2>3. QED
    BY <1>5, <2>1, <2>2 DEF Classify
<1>6. CASE Claim
  <2>1. CASE Step.do = "invalidate"
    <3>1. Proceeds([disposition EXCEPT ![Step.on] = "unclaimed"]) /\ "unclaimed" \in Claims
      BY <1>6, <2>1 DEF Claim, Does, Claims
    <3>2. QED
      BY <1>1, <2>1, <3>1, ClaimedTypes
  <2>2. CASE Step.do = "supersede"
    <3>1. Proceeds([disposition EXCEPT ![Step.on] = "stale"]) /\ "stale" \in Claims
      BY <1>6, <2>2 DEF Claim, Does, Claims
    <3>2. QED
      BY <1>1, <2>2, <3>1, ClaimedTypes
  <2>3. QED
    BY <1>6, <2>1, <2>2 DEF Claim, Does
<1>7. CASE Census /\ ~Raises
  <2>1. Step.do = "census"
    BY <1>7 DEF Census, Does
  <2>2. stage = "terminal"
    BY <2>1, <1>0 DEF StepOK, Neutral, Working, ScriptInv, PlaceInv, Stages
  <2>3. TerminalClaim(Step.on) # "invalid" /\ Proceeds([disposition EXCEPT ![Step.on] = TerminalClaim(Step.on)])
    BY <1>7 DEF Census
  <2>4. TerminalClaim(Step.on) \in Claims
    BY <2>3 DEF TerminalClaim, Claims
  <2>5. QED
    BY <1>1, <2>1, <2>2, <2>3, <2>4, ClaimedTypes
<1>8. CASE Alive
  <2>1. CASE RaisesCode("exited")
    BY <1>3, <2>1
  <2>2. CASE Proceeds(disposition)
    <3>1. Step.do = "alive"
      BY <1>8 DEF Alive, Does
    <3>2. birth' = birth
      BY <1>1 DEF parentVars
    <3>3. QED
      BY <1>1, <1>2, <2>2, <3>1, <3>2, Simple DEF Quietly, Claiming
  <2>3. QED
    BY <1>8, <2>1, <2>2 DEF Alive
<1>9. QED
  BY <1>4, <1>5, <1>6, <1>7, <1>8

LEMMA Concludes ==
  ASSUME NEW c \in Cast
  PROVE  Script["failure"][c][Len(Script["failure"][c])].do = "conclude"
<1> DEFINE x == S("conclude", "domain_A", "none")
<1>1. Script["failure"][c] = Fails(c) \o <<x>>
  BY DEF Script, Stages, Cast, Failure, Fails
<1>2. Fails(c) \in Seq(Steps) /\ x \in Steps
  <2>1. PICK n \in 0..5 : Leads(c, "failure", Fails(c), Known(CallsOf(c), {}), Known(n, {}))
    BY FailsLead
  <2>2. PICK v : v \in Known(CallsOf(c), {})
    BY PhasesOf, KnownSome
  <2>3. Fails(c) \in Seq(Steps)
    BY <2>1, <2>2 DEF Leads, Marks
  <2>4. "conclude" \in Dos /\ "domain_A" \in Labels /\ "none" \in Ops
    BY LabelsOf DEF Dos, Ops
  <2>5. QED
    BY <2>3, <2>4 DEF S, Steps
<1>3. x.do = "conclude"
  BY DEF S
<1> HIDE DEF x
<1>4. <<x>> \in Seq(Steps) /\ Len(<<x>>) = 1 /\ <<x>>[1] = x
  BY <1>2
<1>5. /\ Len(Fails(c) \o <<x>>) = Len(Fails(c)) + 1
      /\ (Fails(c) \o <<x>>)[Len(Fails(c)) + 1] = <<x>>[1]
  BY <1>2, <1>4
<1>6. QED
  BY <1>1, <1>3, <1>4, <1>5

\* At every step but the conclusion of a failure the parent knows what the step relies on.
LEMMA Foreseen ==
  ASSUME ScriptInv, Working, ~Does("conclude")
  PROVE  \E v \in Views : Fits(v) /\ Allowed(case, stage, v, Step)
<1>1. PICK t : /\ Marks(case, stage, Script[stage][case], t, Aims(stage, case))
               /\ Fits(t[at]) \/ (stage = "failure" /\ at = Len(Script[stage][case]))
  BY DEF ScriptInv, LeadsInv
<1>2. ~(stage = "failure" /\ at = Len(Script[stage][case]))
  BY Concludes DEF ScriptInv, PlaceInv, Does, Step
<1>3. at \in 1 .. Len(Script[stage][case]) /\ Script[stage][case] \in Seq(Steps)
  BY <1>1 DEF Marks, ScriptInv, PlaceInv
<1>4. t[at] \in Views /\ Allowed(case, stage, t[at], Step)
  BY <1>1, <1>3 DEF Marks, Step
<1>5. QED
  BY <1>1, <1>2, <1>4

LEMMA CallKnown ==
  ASSUME TypeInv, StepOK, CanonicalCall
  PROVE  /\ Working /\ calls \in 0..4 /\ calls' = calls + 1
         /\ calls = 3 => disposition = Unclaimed \/ case \in CanonicalFaults
<1>1. Step.do = "call" /\ calls' = calls + 1 /\ ScriptInv
  BY DEF CanonicalCall, Does, TypeInv
<1>2. Working
  BY <1>1 DEF StepOK, ScriptInv, PlaceInv, Stages, Working
<1>3. PICK v \in Views : Fits(v) /\ Allowed(case, stage, v, Step)
  BY <1>1, <1>2, Foreseen DEF Does
<1>4. v.n <= 4 /\ (v.n = 3 => v.out = Domains \/ case \in CanonicalFaults) /\ v.n = calls
  BY <1>1, <1>3 DEF Allowed, Fits
<1>5. calls \in 0..4
  BY <1>4 DEF TypeInv, CanonicalTypes
<1>6. ASSUME v.out = Domains PROVE disposition = Unclaimed
  <2>1. \A d \in Domains : disposition[d] = "unclaimed"
    BY <1>3, <1>6 DEF Fits
  <2>2. disposition \in [Domains -> Claims]
    BY DEF TypeInv, EndTypes
  <2>3. QED
    BY <2>1, <2>2 DEF Unclaimed
<1>7. QED
  BY <1>1, <1>2, <1>4, <1>5, <1>6

LEMMA CallTypes == ASSUME TypeInv, StepOK, CanonicalCall PROVE TypeInv'
<1>0. ProcessTypes /\ ParentTypes /\ ScriptInv /\ EndTypes /\ CanonicalTypes /\ RecordTypes
  BY DEF TypeInv
<1>1. UNCHANGED <<processVars, conn, captures, claimVars, parentVars>> /\ Step.do = "call"
      /\ status' = status /\ (UNCHANGED mishaps \/ Mishap)
      /\ head' \in {head, "R1"}
  BY DEF CanonicalCall, Quietly, Mishap, Does
<1>2. ProcessTypes' /\ ParentTypes' /\ RecordTypes' /\ case' = case
  BY <1>0, <1>1, ProcessStays, ParentStays, RecordStays DEF processVars
<1>3. CanonicalTypes'
  BY <1>0, <1>1, CallKnown DEF CanonicalTypes, claimVars
<1>4. ASSUME disposition' = disposition PROVE Carries
  <2> SUFFICES ASSUME NEW v \in Views, NEW w \in Views, Working, Fits(v), w = After(v, Step)
               PROVE  Fits(w)'
    BY DEF Carries
  <2>1. w = [v EXCEPT !.n = @ + 1]
    BY <1>1 DEF After
  <2>2. w.n = v.n + 1 /\ w.out = v.out /\ w.new = v.new
    BY <2>1 DEF Views
  <2>3. QED
    BY <1>1, <1>4, <2>2, CallKnown DEF Fits, parentVars
<1>5. CASE Raises
  BY <1>0, <1>2, <1>3, <1>5, RaisesScript, RaisesTypes DEF TypeInv
<1>6. CASE Proceeds(disposition)
  <2>1. ScriptInv'
    BY <1>0, <1>2, <1>4, <1>6, AdvanceScript DEF Proceeds
  <2>2. EndTypes'
    BY <1>0, <1>6, ProceedsTypes DEF EndTypes
  <2>3. QED
    BY <1>2, <1>3, <2>1, <2>2 DEF TypeInv
<1>7. CASE /\ stage = "failure" /\ code' = "rejected" /\ UNCHANGED <<wrong, disposition>>
           /\ Moves \/ (at' = Len(Script[stage][case]) /\ UNCHANGED stage)
  <2>1. ScriptInv'
    <3>1. CASE Moves
      BY <1>0, <1>2, <1>4, <1>7, <3>1, AdvanceScript
    <3>2. CASE at' = Len(Script[stage][case]) /\ UNCHANGED stage
      BY <1>0, <1>2, <1>7, <3>2, LeapsScript
    <3>3. QED
      BY <1>7, <3>1, <3>2
  <2>2. "rejected" \in FailureCodes
    <3>1. ExpectedCode("F01") = "rejected"
      BY DEF ExpectedCode, PartialCases
    <3>2. QED
      BY <3>1 DEF FailureCodes
  <2>3. EndTypes'
    BY <1>0, <1>7, <2>2 DEF EndTypes
  <2>4. QED
    BY <1>2, <1>3, <2>1, <2>3 DEF TypeInv
<1>8. QED
  BY <1>5, <1>6, <1>7 DEF CanonicalCall

LEMMA ConcludeTypes == ASSUME TypeInv, StepOK, Conclude PROVE TypeInv'
<1>0. ProcessTypes /\ ParentTypes /\ ScriptInv /\ EndTypes /\ CanonicalTypes /\ RecordTypes
  BY DEF TypeInv
<1>1. UNCHANGED <<processVars, conn, canonicalVars, claimVars, parentVars>> /\ Quietly /\ Step.do = "conclude"
  BY DEF Conclude, Does
<1>2. ProcessTypes' /\ CanonicalTypes' /\ ParentTypes' /\ RecordTypes' /\ case' = case
  BY <1>0, <1>1, ProcessStays, CanonicalStays, ParentStays, RecordStays DEF Quietly, processVars
<1>3. CASE Raises
  BY <1>0, <1>2, <1>3, RaisesScript, RaisesTypes DEF TypeInv
<1>4. CASE ~Raises
  <2> DEFINE reached == IF case \in Kills THEN ExpectedCode(case) ELSE code
  <2>1. code' = reached /\ disposition' = Unclaimed /\ Moves /\ UNCHANGED wrong
    BY <1>4 DEF Conclude
  <2>2. reached \in FailureCodes
    BY <1>0 DEF FailureCodes, EndTypes
  <2> HIDE DEF reached
  <2>3. disposition' \in [Domains -> Claims]
    BY <2>1 DEF Unclaimed, Claims
  <2>4. EndTypes'
    BY <1>0, <2>1, <2>2, <2>3 DEF EndTypes
  <2>5. Carries
    <3> SUFFICES ASSUME NEW v \in Views, NEW w \in Views, Working, Fits(v), w = After(v, Step)
                 PROVE  Fits(w)'
      BY DEF Carries
    <3>1. w = v
      BY <1>1 DEF After
    <3>2. \A d \in v.out : disposition'[d] = "unclaimed"
      BY <2>1 DEF Views, Unclaimed
    <3>3. QED
      BY <1>1, <3>1, <3>2 DEF Fits, canonicalVars, parentVars
  <2>6. ScriptInv'
    BY <1>0, <1>2, <2>1, <2>5, AdvanceScript
  <2>7. QED
    BY <1>2, <2>4, <2>6 DEF TypeInv
<1>5. QED
  BY <1>3, <1>4

LEMMA RecordTypesKept == ASSUME TypeInv, StepOK, Record PROVE TypeInv'
<1>0. ProcessTypes /\ ParentTypes /\ ScriptInv /\ EndTypes /\ CanonicalTypes /\ RecordTypes
  BY DEF TypeInv
<1>1. UNCHANGED <<processVars, conn, wrong, code, disposition, canonicalVars, claimVars, parentVars>>
      /\ Step.do = "record" /\ Moves
  BY DEF Record, Does
<1>2. ProcessTypes' /\ CanonicalTypes' /\ ParentTypes' /\ case' = case /\ EndTypes'
  BY <1>0, <1>1, ProcessStays, CanonicalStays, ParentStays DEF processVars, EndTypes
<1>3. status' \in {"accepted", "expected_failure", "acquisition_failure", "unwritten"}
  BY DEF Record
<1>4. mishaps' \in 0 .. MishapBound + 1
  BY <1>0, CaseAssumption DEF Record, RecordTypes
<1>5. ScriptInv'
  <2>1. ~Working
    BY <1>1 DEF StepOK, Neutral
  <2>2. QED
    BY <1>0, <1>1, <1>2, <2>1, MovesPlace DEF ScriptInv, LeadsInv
<1>6. QED
  BY <1>2, <1>3, <1>4, <1>5 DEF TypeInv, RecordTypes

LEMMA ParentTypesKept ==
  ASSUME TypeInv, StepOK, AwaitInv, Parent PROVE TypeInv'
<1>1. CASE Request \/ Skip \/ Hear \/ Response_ \/ NoResponse \/ ReadStartup
  BY <1>1, AskTypes
<1>2. CASE \/ SampleStartup \/ Snapshot \/ Exited \/ Sample \/ NotExited \/ Hitch \/ Close
           \/ Terminate \/ Kill
  BY <1>2, PlainTypes
<1>3. CASE Classify \/ Claim \/ Census \/ Alive
  BY <1>3, CensusTypes
<1>4. CASE Spawn \/ Resume \/ CanonicalCall \/ Conclude \/ Record
  BY <1>4, SpawnTypes, ResumeTypes, CallTypes, ConcludeTypes, RecordTypesKept
<1>5. QED
  BY <1>1, <1>2, <1>3, <1>4 DEF Parent

-----------------------------------------------------------------------------
(* What everything else does *)

\* The parent stands where it stood.
LEMMA ScriptStays ==
  ASSUME TypeInv, case' = case,
         UNCHANGED <<stage, at, wrong, code, canonicalVars, claimVars, disposition, parentVars, status>>,
         UNCHANGED mishaps \/ Mishap, ProcessTypes'
  PROVE  TypeInv' /\ Step' = Step
<1>1. ScriptInv /\ EndTypes /\ CanonicalTypes /\ ParentTypes /\ RecordTypes
  BY DEF TypeInv
<1>2. ScriptInv'
  BY <1>1, StaysScript DEF canonicalVars, parentVars
<1>3. EndTypes'
  BY <1>1 DEF EndTypes
<1>4. CanonicalTypes' /\ ParentTypes' /\ RecordTypes'
  BY <1>1, CanonicalStays, ParentStays, RecordStays
<1>5. Step' = Step
  BY DEF Step
<1>6. QED
  BY <1>2, <1>3, <1>4, <1>5 DEF TypeInv

LEMMA AnswerTypes ==
  ASSUME ProcessTypes, NEW l \in Labels, NEW q \in Processes, NEW t \in Seq(Objects),
         proc' = [proc EXCEPT ![l] = q], output' = [output EXCEPT ![l] = @ \o t],
         control' = control \/ (control' = [control EXCEPT ![l] = Tail(@)] /\ control[l] # <<>>),
         UNCHANGED <<case, closed, conn>>
  PROVE  ProcessTypes'
<1>1. output[l] \in Seq(Objects) /\ control[l] \in Seq(Lines)
  BY DEF ProcessTypes
<1>2. output[l] \o t \in Seq(Objects)
  BY <1>1, ConcatProperties
<1>3. control[l] # <<>> => Tail(control[l]) \in Seq(Lines)
  BY <1>1
<1>4. proc' \in [Labels -> Processes] /\ output' \in [Labels -> Seq(Objects)]
  BY <1>2 DEF ProcessTypes
<1>5. control' \in [Labels -> Seq(Lines)]
  BY <1>3 DEF ProcessTypes
<1>6. QED
  BY <1>4, <1>5 DEF ProcessTypes

LEMMA ProcessTypesKept ==
  ASSUME TypeInv, NEW l \in Labels, Process(l) \/ Dies(l) \/ CrashMishap(l) \/ DrainFails(l)
  PROVE  TypeInv' /\ Step' = Step
<1>0. ProcessTypes
  BY DEF TypeInv
<1>1. CASE Process(l)
  <2>0. Tick(l) \/ SpawnFailure(l)
    BY <1>1 DEF Process
  <2>1. UNCHANGED <<conn, stage, at, wrong, code, canonicalVars, claimVars, disposition, parentVars, status>>
        /\ UNCHANGED mishaps
    BY <1>1 DEF Process, caseVars
  <2>2. ASSUME NEW q, NEW t, Replies(l, q, t) \/ Completes(l, q, t) PROVE ProcessTypes' /\ case' = case
    <3>1. q \in Processes /\ t \in Seq(Objects)
      BY <2>2 DEF Replies, Completes, SoleResponse
    <3>2. proc' = [proc EXCEPT ![l] = q] /\ output' = [output EXCEPT ![l] = @ \o t]
          /\ (control' = control \/ (control' = [control EXCEPT ![l] = Tail(@)] /\ control[l] # <<>>))
          /\ UNCHANGED <<case, closed>>
      BY <2>2 DEF Replies, Completes, Answer, Reads
    <3>3. QED
      BY <1>0, <2>1, <3>1, <3>2, AnswerTypes
  <2>3. ASSUME NEW q, Replaces(l, q) PROVE ProcessTypes' /\ case' = case
    <3>1. q \in Processes /\ <<>> \in Seq(Objects)
      BY <2>3 DEF Replaces
    <3>2. proc' = [proc EXCEPT ![l] = q] /\ output' = [output EXCEPT ![l] = @ \o <<>>]
          /\ control' = [control EXCEPT ![l] = Tail(@)] /\ control[l] # <<>>
          /\ UNCHANGED <<case, closed>>
      BY <2>3 DEF Replaces, Answer, Reads
    <3>3. QED
      BY <1>0, <2>1, <3>1, <3>2, AnswerTypes
  <2>4. ASSUME Boot(l) PROVE ProcessTypes' /\ case' = case
    <3>1. Event("startup", "none", Empty) \in Objects
      BY EmptyWorld DEF Event, Objects
    <3>2. output[l] \in Seq(Objects) /\ proc[l] \in Processes
      BY <1>0 DEF ProcessTypes
    <3>3. Append(output[l], Event("startup", "none", Empty)) \in Seq(Objects)
      BY <3>1, <3>2
    <3>4. [proc[l] EXCEPT !.started = TRUE] \in Processes
      <4>1. PICK p \in Processes : p = proc[l]
        BY <3>2
      <4>2. [p EXCEPT !.started = TRUE] \in Processes
        BY DEF Processes
      <4>3. QED
        BY <4>1, <4>2
    <3>5. proc' = [proc EXCEPT ![l] = [proc[l] EXCEPT !.started = TRUE]]
          /\ output' = [output EXCEPT ![l] = Append(output[l], Event("startup", "none", Empty))]
          /\ UNCHANGED <<case, control, closed>>
      BY <2>4 DEF Boot
    <3>6. proc' \in [Labels -> Processes]
      BY <1>0, <3>4, <3>5 DEF ProcessTypes
    <3>7. output' \in [Labels -> Seq(Objects)]
      BY <1>0, <3>3, <3>5 DEF ProcessTypes
    <3>8. QED
      BY <1>0, <2>1, <3>5, <3>6, <3>7 DEF ProcessTypes
  <2>5. ASSUME Exits(l, "exited") PROVE ProcessTypes' /\ case' = case
    <3>1. proc' = [proc EXCEPT ![l].life = "exited"] /\ UNCHANGED <<case, control, output, closed, conn>>
      BY <2>1, <2>5 DEF Exits
    <3>2. QED
      BY <1>0, <3>1, LifeTypes
  <2>6. ProcessTypes' /\ case' = case
    BY <1>0, <2>0, <2>2, <2>3, <2>4, <2>5, ProcessDeeds
  <2>7. QED
    BY <2>1, <2>6, ScriptStays
<1>2. CASE Dies(l) \/ CrashMishap(l)
  <2>1. /\ Exits(l, "exited") /\ (UNCHANGED mishaps \/ (mishaps' = mishaps + 1 /\ mishaps < MishapBound))
        /\ UNCHANGED <<conn, stage, at, wrong, code, canonicalVars, claimVars, disposition, parentVars, status>>
    BY <1>2 DEF Dies, CrashMishap, Crash, caseVars
  <2>2. proc' = [proc EXCEPT ![l].life = "exited"] /\ UNCHANGED <<case, control, output, closed, conn>>
    BY <2>1 DEF Exits
  <2>3. ProcessTypes' /\ case' = case
    BY <1>0, <2>2, LifeTypes
  <2>4. UNCHANGED mishaps \/ Mishap
    BY <2>1 DEF Mishap
  <2>5. QED
    BY <2>1, <2>3, <2>4, ScriptStays
<1>3. CASE DrainFails(l)
  <2>1. /\ conn' = [conn EXCEPT ![l].stopped = TRUE] /\ UNCHANGED processVars
        /\ (UNCHANGED mishaps \/ (mishaps' = mishaps + 1 /\ mishaps < MishapBound))
        /\ UNCHANGED <<stage, at, wrong, code, canonicalVars, claimVars, disposition, parentVars, status>>
    BY <1>3 DEF DrainFails
  <2>2. [conn[l] EXCEPT !.stopped = TRUE] \in Connections
    <3>1. PICK c \in Connections : c = conn[l]
      BY <1>0 DEF ProcessTypes
    <3>2. [c EXCEPT !.stopped = TRUE] \in Connections
      BY DEF Connections
    <3>3. QED
      BY <3>1, <3>2
  <2>3. ProcessTypes' /\ case' = case
    <3>1. conn' = [conn EXCEPT ![l] = [conn[l] EXCEPT !.stopped = TRUE]]
      BY <2>1
    <3>2. QED
      BY <1>0, <2>1, <2>2, <3>1, ConnTypes DEF processVars
  <2>4. UNCHANGED mishaps \/ Mishap
    BY <2>1 DEF Mishap
  <2>5. QED
    BY <2>1, <2>3, <2>4, ScriptStays
<1>4. QED
  BY <1>1, <1>2, <1>3

LEMMA TypeInit == Init => TypeInv /\ AwaitInv
<1> SUFFICES ASSUME Init PROVE TypeInv /\ AwaitInv
  OBVIOUS
<1>1. ProcessTypes
  <2>1. AbsentProcess \in Processes
    BY EmptyWorld DEF AbsentProcess, Processes, NoLine, Lines, Records
  <2>2. [startup |-> FALSE, bound |-> FALSE, failed |-> FALSE, shut |-> FALSE,
         stopped |-> FALSE, ops |-> {}, asked |-> "none", physical |-> FALSE, faults |-> <<>>] \in Connections
    BY DEF Connections
  <2>3. QED
    BY <2>1, <2>2 DEF Init, ProcessInit, ConnectionInit, ProcessTypes
<1>2. EndTypes /\ CanonicalTypes /\ ParentTypes /\ RecordTypes
  <2>1. EndTypes
    BY DEF Init, EndTypes, FailureCodes, Claims
  <2>2. CanonicalTypes
    BY EmptyWorld DEF Init, CanonicalTypes
  <2>3. ParentTypes
    BY DEF Init, ParentTypes
  <2>4. RecordTypes
    BY CaseAssumption DEF Init, RecordTypes
  <2>5. QED
    BY <2>1, <2>2, <2>3, <2>4
<1>3. ScriptInv
  <2> DEFINE v == [n |-> 0, out |-> {}, new |-> "none"]
  <2>1. case \in Cast /\ stage = "prefix" /\ at = 1 /\ calls = 0
    BY DEF Init, Cast
  <2>2. PlaceInv
    BY <2>1, Nonempty DEF PlaceInv, Stages
  <2>3. v \in Known(0, {}) /\ Fits(v)
    BY <2>1 DEF Known, Fits
  <2> HIDE DEF v
  <2>4. PICK t : Marks(case, "prefix", Script["prefix"][case], t, Aims("prefix", case)) /\ t[1] = v
    BY <2>1, <2>3, PrefixMarks
  <2>5. LeadsInv
    BY <2>1, <2>3, <2>4 DEF LeadsInv
  <2>6. QED
    BY <2>2, <2>5 DEF ScriptInv
<1>4. \A l \in Labels : conn[l].asked = "none" /\ ~conn[l].failed
  <2>1. conn = [l \in Labels |->
            [startup |-> FALSE, bound |-> FALSE, failed |-> FALSE, shut |-> FALSE,
             stopped |-> FALSE, ops |-> {}, asked |-> "none", physical |-> FALSE, faults |-> <<>>]]
    BY DEF Init, ConnectionInit
  <2>2. QED
    BY <2>1, Zenon
<1>5. QED
  BY <1>1, <1>2, <1>3, <1>4 DEF TypeInv, AwaitInv, Awaits

-----------------------------------------------------------------------------
(* Steps that leave the processes and the exchanges as they are *)

Held(l) ==
  /\ proc'[l].world = proc[l].world /\ proc'[l].generation = proc[l].generation
  /\ proc'[l].pending = proc[l].pending /\ (proc'[l].emitted <=> proc[l].emitted)
Still == (\A l \in Labels : Held(l)) /\ UNCHANGED <<case, control, output>>
Kept == UNCHANGED <<canonicalVars, claimVars>>
Backs == (Working' => Working) /\ disposition' \in {disposition, Unclaimed}

QuietSteps ==
  \/ SampleStartup \/ Snapshot \/ Exited \/ Sample \/ NotExited \/ Hitch \/ Close \/ Terminate
  \/ Kill \/ Alive \/ Conclude \/ Record \/ Skip \/ Spawn \/ Resume

LEMMA LifeHeld ==
  ASSUME ProcessTypes, NEW l \in Labels, NEW x, proc' = [proc EXCEPT ![l].life = x]
  PROVE  \A m \in Labels : Held(m)
<1> SUFFICES ASSUME NEW m \in Labels PROVE Held(m)
  OBVIOUS
<1>1. proc[m] \in Processes /\ (m = l => proc'[m] = [proc[m] EXCEPT !.life = x]) /\ (m # l => proc'[m] = proc[m])
  BY DEF ProcessTypes
<1>2. PICK p \in Processes : p = proc[m]
  BY <1>1
<1>3. \A q : q = [p EXCEPT !.life = x] =>
        q.world = p.world /\ q.generation = p.generation /\ q.pending = p.pending /\ (q.emitted <=> p.emitted)
  BY DEF Processes
<1>4. QED
  BY <1>1, <1>2, <1>3 DEF Held

LEMMA PolledStill ==
  ASSUME ProcessTypes, NEW l \in Labels, Polled(l) PROVE Still
<1>1. proc' = proc \/ proc' = [proc EXCEPT ![l].life = "reaped"]
  BY DEF Polled
<1>2. \A m \in Labels : Held(m)
  BY <1>1, LifeHeld DEF Held
<1>3. QED
  BY <1>2 DEF Polled, Still

LEMMA RaisesBacks == ASSUME TypeInv, StepOK, Raises, case' = case PROVE Backs /\ ~Working'
<1>1. ~Working'
  BY RaisesScript DEF TypeInv
<1>2. disposition' \in {disposition, Unclaimed}
  BY DEF Raises
<1>3. QED
  BY <1>1, <1>2 DEF Backs

LEMMA ProceedsBacks == ASSUME TypeInv, Proceeds(disposition), case' = case PROVE Backs
<1>1. Working' => Working
  BY MovesPlace DEF TypeInv, ScriptInv, Proceeds
<1>2. QED
  BY <1>1 DEF Backs, Proceeds

LEMMA CodeBacks == ASSUME TypeInv, StepOK, NEW c, RaisesCode(c), case' = case PROVE Backs
<1>1. CASE Raises
  BY <1>1, RaisesBacks
<1>2. CASE UNCHANGED <<stage, disposition>>
  BY <1>2 DEF Backs, Working
<1>3. QED
  BY <1>1, <1>2 DEF RaisesCode

LEMMA UndecidedBacks == ASSUME Undecided PROVE Backs
  BY DEF Undecided, Backs, Working

LEMMA QuietDeed ==
  ASSUME TypeInv, StepOK, QuietSteps
  PROVE  Still /\ Kept /\ Backs /\ conn' = conn /\ case' = case
<1>0. Step.on \in Labels /\ ProcessTypes
  BY DEF StepOK, TypeInv
<1>1. CASE SampleStartup \/ Snapshot \/ Exited \/ Sample \/ Terminate \/ Skip
  <2>1. Polled(Step.on) /\ UNCHANGED conn /\ Kept /\ (Raises \/ Proceeds(disposition))
    BY <1>1 DEF SampleStartup, Snapshot, Exited, Sample, Terminate, Skip, Kept
  <2>2. case' = case /\ Still
    BY <1>0, <2>1, PolledStill DEF Polled
  <2>3. QED
    BY <2>1, <2>2, RaisesBacks, ProceedsBacks
<1>2. CASE NotExited \/ Hitch \/ Kill \/ Alive \/ Close
  <2>1. UNCHANGED <<case, proc, control, output, conn>> /\ Kept
        /\ (Raises \/ Proceeds(disposition) \/ Undecided \/ RaisesCode("exited"))
    BY <1>2 DEF NotExited, Hitch, Kill, Alive, Close, Kept, processVars, Undecided
  <2>2. Still
    BY <2>1 DEF Still, Held
  <2>3. QED
    BY <2>1, <2>2, RaisesBacks, ProceedsBacks, CodeBacks, UndecidedBacks
<1>3. CASE Conclude \/ Record
  <2>1. UNCHANGED <<case, proc, control, output, conn>> /\ Kept
        /\ (Raises \/ (Moves /\ disposition' \in {disposition, Unclaimed}))
    BY <1>3 DEF Conclude, Record, processVars, Kept
  <2>2. Still
    BY <2>1 DEF Still, Held
  <2>3. Moves => (Working' => Working)
    BY <2>1, MovesPlace DEF TypeInv, ScriptInv
  <2>4. QED
    BY <2>1, <2>2, <2>3, RaisesBacks DEF Backs
<1>4. CASE Spawn \/ Resume
  <2>1. UNCHANGED <<case, control, output, conn>> /\ Kept /\ (Raises \/ Proceeds(disposition))
        /\ (proc' = [proc EXCEPT ![Step.on].life = "suspended"] \/ proc' = [proc EXCEPT ![Step.on].life = "running"])
    BY <1>4 DEF Spawn, Resume, Kept
  <2>2. Still
    BY <1>0, <2>1, LifeHeld DEF Still
  <2>3. QED
    BY <2>1, <2>2, RaisesBacks, ProceedsBacks
<1>5. QED
  BY <1>1, <1>2, <1>3, <1>4 DEF QuietSteps

Waiting == {"startup", "ask", "shutdown"}
NoneAwaited == \A l \in Labels : conn[l].asked = "none"

\* The parent has other things to do than to wait.
LEMMA Idle ==
  ASSUME AwaitInv, conn[Step.on].asked = "none" \/ Step.do \notin Waiting
  PROVE  NoneAwaited
<1>1. \A l \in Labels : conn[l].asked # "none" => Step.on = l /\ Step.do \in Waiting
  BY DEF AwaitInv, Awaits, Does, Waiting
<1>2. \A l \in Labels : conn[l].asked = "none"
  BY <1>1, Zenon
<1>3. QED
  BY <1>2, Zenon DEF NoneAwaited

LEMMA IdleKept ==
  ASSUME AwaitInv, NoneAwaited, conn' = conn, Working' => Working
  PROVE  AwaitInv'
  BY DEF AwaitInv, Awaits, NoneAwaited

LEMMA QuietIdle ==
  ASSUME AwaitInv, QuietSteps PROVE NoneAwaited
<1>1. CASE Skip \/ Hitch
  <2>1. conn[Step.on].asked = "none"
    BY <1>1 DEF Skip, Hitch, Awaits
  <2>2. QED
    BY <2>1, Idle
<1>2. CASE \/ SampleStartup \/ Snapshot \/ Exited \/ Sample \/ NotExited \/ Close \/ Terminate
           \/ Kill \/ Alive \/ Conclude \/ Record \/ Spawn \/ Resume
  <2>1. Step.do \notin Waiting
    BY <1>2 DEF SampleStartup, Snapshot, Exited, Sample, NotExited, Close, Terminate,
       Kill, Alive, Conclude, Record, Spawn, Resume, Does, Waiting
  <2>2. QED
    BY <2>1, Idle
<1>3. QED
  BY <1>1, <1>2 DEF QuietSteps

\* A startup record is no response, whatever it is.
StartupInv == \A l \in Labels : \A i \in DOMAIN output[l] : output[l][i].kind = "startup" => output[l][i].op = "none"

LEMMA TailFrom ==
  ASSUME NEW s \in Seq(Objects), s # <<>>
  PROVE  /\ Tail(s) \in Seq(Objects)
         /\ \A i \in DOMAIN Tail(s) : i + 1 \in DOMAIN s /\ Tail(s)[i] = s[i + 1]
         /\ \A j \in DOMAIN s : j # 1 => j - 1 \in DOMAIN Tail(s) /\ Tail(s)[j - 1] = s[j]
         /\ 1 \in DOMAIN s /\ Head(s) = s[1]
  OBVIOUS

LEMMA ConcatFrom ==
  ASSUME NEW s \in Seq(Objects), NEW t \in Seq(Objects)
  PROVE  /\ s \o t \in Seq(Objects)
         /\ \A i \in DOMAIN (s \o t) :
              \/ i \in DOMAIN s /\ (s \o t)[i] = s[i]
              \/ i - Len(s) \in DOMAIN t /\ i - Len(s) >= 1 /\ (s \o t)[i] = t[i - Len(s)]
         /\ \A i \in DOMAIN s : i \in DOMAIN (s \o t) /\ (s \o t)[i] = s[i]
         /\ \A i \in DOMAIN t : i + Len(s) \in DOMAIN (s \o t) /\ (s \o t)[i + Len(s)] = t[i]
  BY ConcatProperties

-----------------------------------------------------------------------------
(* What an exchange does in a step *)

\* The connection of the process the parent stands at becomes c.
Ties(l, c) ==
  /\ l = Step.on /\ l \in Labels /\ c \in Connections
  /\ conn' = [conn EXCEPT ![l] = c] /\ UNCHANGED <<case, proc, closed>>
  /\ conn[l].ops \subseteq c.ops
\* The startup record is waited for.
Begins(l, c) ==
  /\ Ties(l, c) /\ Undecided /\ Kept /\ UNCHANGED <<control, output>>
  /\ Does("startup") /\ conn[l].asked = "none" /\ c.asked = "startup" /\ ~conn[l].failed /\ ~c.failed
\* The command is written.
Writes(l, c) ==
  /\ Ties(l, c) /\ Undecided /\ Kept /\ UNCHANGED output
  /\ control' = [control EXCEPT ![l] = Append(@, Command)]
  /\ Command \in Lines /\ Command.op = Step.op
  /\ (Does("ask") \/ Does("shutdown")) /\ l \in Domains
  /\ conn[l].asked = "none" /\ ~conn[l].failed /\ Step.op \notin conn[l].ops
  /\ c.asked = Step.op /\ ~c.failed /\ Step.op \in c.ops
\* An object that is no answer is taken.
Listens(l, c) ==
  /\ Ties(l, c) /\ Undecided /\ Kept /\ UNCHANGED control
  /\ output[l] # <<>> /\ output' = [output EXCEPT ![l] = Tail(@)]
  /\ Object(l) \in Objects /\ Object(l).kind \notin {"response", "startup"}
  /\ c.asked = conn[l].asked /\ c.asked # "none" /\ (c.failed <=> conn[l].failed)
\* The answer is taken.
TakesAnswer(l, c) ==
  /\ Ties(l, c) /\ UNCHANGED control
  /\ output[l] # <<>> /\ output' = [output EXCEPT ![l] = Tail(@)]
  /\ Object(l) \in Objects
  /\ conn[l].asked # "none" /\ ~conn[l].failed /\ c.asked = "none" /\ Step.do \in Waiting
  /\ \/ /\ Object(l).kind = "startup" /\ conn[l].asked = "startup" /\ ~c.failed
        /\ Proceeds(disposition) /\ Kept
     \/ /\ Object(l).kind = "response" /\ Object(l).op = Step.op /\ conn[l].asked = Step.op
        /\ l \in Domains /\ Step.op \in conn[l].ops /\ Step.op \in Operations /\ Step.do # "startup"
        /\ \/ /\ Object(l).code = "ok" /\ ~c.failed /\ Proceeds(disposition)
              /\ Retains(l, Step.op, Object(l).seen) /\ UNCHANGED <<head, calls>>
           \/ /\ RaisesCode(Object(l).code) /\ Kept
              /\ c.failed => Step.op = "bind_0001"
\* There is no answer.
Loses(l, c) ==
  /\ Ties(l, c) /\ Raises /\ Kept /\ UNCHANGED control
  /\ UNCHANGED output \/ (output[l] # <<>> /\ output' = [output EXCEPT ![l] = Tail(@)])
  /\ c.asked = "none" /\ c.failed /\ Step.do \in Waiting

LEMMA RequestDeed ==
  ASSUME TypeInv, StepOK, AwaitInv, Request
  PROVE  \E l, c : Writes(l, c) \/ Loses(l, c)
<1> DEFINE l == Step.on
           y == Asked(l, Command.op)
           z == [Asked(l, Command.op) EXCEPT !.asked = "none", !.failed = TRUE]
<1>1. /\ Command \in Lines /\ Command.op = Step.op /\ Step.op \in Operations /\ l \in Labels /\ conn[l] \in Connections
  BY CommandType DEF Request, TypeInv, ProcessTypes
<1>2. /\ y \in Connections /\ conn[l].ops \subseteq y.ops /\ Step.op \in y.ops /\ y.asked = Step.op
      /\ (y.failed <=> conn[l].failed)
      /\ z \in Connections /\ conn[l].ops \subseteq z.ops /\ z.asked = "none" /\ z.failed
  <2>1. PICK x \in Connections, op \in Operations : x = conn[l] /\ op = Command.op /\ op = Step.op
    BY <1>1
  <2>2. y = [x EXCEPT !.ops = @ \cup {op}, !.asked = op, !.physical = FALSE, !.faults = <<>>]
    BY <2>1 DEF Asked
  <2>3. z = [y EXCEPT !.asked = "none", !.failed = TRUE]
    OBVIOUS
  <2> HIDE DEF y, z
  <2>4. QED
    <3>1. /\ y \in Connections /\ x.ops \subseteq y.ops /\ op \in y.ops /\ y.asked = op /\ (y.failed <=> x.failed)
          /\ z \in Connections /\ x.ops \subseteq z.ops /\ z.asked = "none" /\ z.failed
      BY <2>2, <2>3 DEF Connections
    <3>2. QED
      BY <2>1, <3>1
<1>3. (Does("ask") \/ Does("shutdown")) /\ l \in Domains /\ Step.do \in Waiting /\ Kept
  <2>1. Asks /\ Kept
    BY DEF Request, Kept
  <2>2. QED
    BY <2>1 DEF Asks, StepOK, Does, Waiting
<1>4. CASE Ask(l, Command) /\ Undecided
  <2>1. /\ conn' = [conn EXCEPT ![l] = y] /\ UNCHANGED <<case, proc, closed, output>>
        /\ control' = [control EXCEPT ![l] = Append(@, Command)]
        /\ ~conn[l].failed /\ Step.op \notin conn[l].ops /\ conn[l].asked = "none"
    BY <1>1, <1>4 DEF Ask, MayAsk, Awaits
  <2> HIDE DEF y, z
  <2>2. Ties(l, y)
    BY <1>1, <1>2, <2>1 DEF Ties
  <2>3. Writes(l, y)
    BY <1>1, <1>2, <1>3, <1>4, <2>1, <2>2 DEF Writes
  <2>4. QED
    BY <2>3
<1>5. CASE AskInVain(l, Command) /\ Raises
  <2>1. /\ conn' = [conn EXCEPT ![l] = z] /\ UNCHANGED <<case, proc, closed, output, control>>
    BY <1>5 DEF AskInVain, processVars
  <2> HIDE DEF y, z
  <2>2. Ties(l, z)
    BY <1>1, <1>2, <2>1 DEF Ties
  <2>3. Loses(l, z)
    BY <1>1, <1>2, <1>3, <1>5, <2>1, <2>2 DEF Loses
  <2>4. QED
    BY <2>3
<1>6. QED
  BY <1>4, <1>5 DEF Request, Undecided

LEMMA NoResponseDeed ==
  ASSUME TypeInv, StepOK, AwaitInv, NoResponse
  PROVE  \E l, c : Loses(l, c)
<1> DEFINE l == Step.on
           z == Failed(l)
<1>1. l \in Labels /\ conn[l] \in Connections /\ Awaits(l) /\ Raises /\ Kept /\ (Breaks(l) \/ GivesUp(l))
  BY DEF NoResponse, TypeInv, ProcessTypes, StepOK, Kept
<1>2. z \in Connections /\ conn[l].ops \subseteq z.ops /\ z.asked = "none" /\ z.failed
  <2>1. PICK x \in Connections : x = conn[l]
    BY <1>1
  <2>2. z = [x EXCEPT !.asked = "none", !.failed = TRUE]
    BY <2>1 DEF Failed
  <2> HIDE DEF z
  <2>3. QED
    BY <2>1, <2>2 DEF Connections
<1>3. Step.do \in Waiting
  BY <1>1 DEF AwaitInv, Waiting, Does
<1>4. /\ conn' = [conn EXCEPT ![l] = z] /\ UNCHANGED <<case, proc, closed, control>>
      /\ UNCHANGED output \/ (output[l] # <<>> /\ output' = [output EXCEPT ![l] = Tail(@)])
  BY <1>1 DEF Breaks, GivesUp, Takes, Readable, processVars
<1> HIDE DEF z
<1>5. Loses(l, z)
  BY <1>1, <1>2, <1>3, <1>4 DEF Loses, Ties
<1>6. QED
  BY <1>5

LEMMA HearDeed ==
  ASSUME TypeInv, StepOK, AwaitInv, Hear
  PROVE  \E l, c : Listens(l, c)
<1> DEFINE l == Step.on
<1>1. l \in Labels /\ conn[l] \in Connections /\ Hears(l) /\ Undecided /\ Kept
  BY DEF Hear, TypeInv, ProcessTypes, StepOK, Kept, Undecided
<1>2. /\ output[l] # <<>> /\ Object(l).kind \in {"physical_event", "fault_event"} /\ conn[l].asked # "none"
  BY <1>1 DEF Hears, Readable, Awaits
<1>3. Object(l) \in Objects
  BY <1>1, <1>2, ObjectType DEF TypeInv
<1>4. PICK c \in Connections :
        Takes(l, c) /\ c.ops = conn[l].ops /\ c.asked = conn[l].asked /\ (c.failed <=> conn[l].failed)
  <2>1. PICK x \in Connections : x = conn[l]
    BY <1>1
  <2>2. PICK w \in Worlds : w = Object(l).seen
    BY <1>3 DEF Objects
  <2>3. /\ [x EXCEPT !.physical = TRUE] \in Connections /\ [x EXCEPT !.faults = <<w>>] \in Connections
        /\ \A c \in {[x EXCEPT !.physical = TRUE], [x EXCEPT !.faults = <<w>>]} :
             c.ops = x.ops /\ c.asked = x.asked /\ (c.failed <=> x.failed)
    BY DEF Connections
  <2>4. Takes(l, [x EXCEPT !.physical = TRUE]) \/ Takes(l, [x EXCEPT !.faults = <<w>>])
    BY <1>1, <2>1, <2>2 DEF Hears
  <2>5. QED
    BY <2>1, <2>3, <2>4
<1>5. Ties(l, c) /\ UNCHANGED control /\ output' = [output EXCEPT ![l] = Tail(@)]
  BY <1>1, <1>4 DEF Ties, Takes
<1>6. Listens(l, c)
  BY <1>1, <1>2, <1>3, <1>4, <1>5 DEF Listens
<1>7. QED
  BY <1>6

LEMMA AnsweredTies ==
  ASSUME ProcessTypes, NEW l \in Labels, l = Step.on, Answered(l)
  PROVE  \E c \in Connections :
           /\ Ties(l, c) /\ c.asked = "none"
           /\ c.failed <=> Object(l).op = "bind_0001" /\ ~(Object(l).code = "ok")
<1>1. PICK x \in Connections : x = conn[l]
  BY DEF ProcessTypes
<1>2. PICK o : o = Object(l)
  OBVIOUS
<1> DEFINE c == [x EXCEPT !.asked = "none",
                   !.startup = @ \/ o.kind = "startup",
                   !.bound = @ \/ (o.op = "bind_0001" /\ o.code = "ok"),
                   !.failed = o.op = "bind_0001" /\ ~(o.code = "ok"),
                   !.shut = o.op = "shutdown_0001"]
<1>3. Takes(l, c)
  BY <1>1, <1>2 DEF Answered
<1>4. c \in Connections
  BY AnsweredType, Zenon
<1>5. c.ops = x.ops /\ c.asked = "none" /\ (c.failed <=> o.op = "bind_0001" /\ ~(o.code = "ok"))
  BY DEF Connections
<1> HIDE DEF c
<1>6. Ties(l, c)
  BY <1>1, <1>3, <1>4, <1>5 DEF Ties, Takes
<1>7. QED
  BY <1>2, <1>4, <1>5, <1>6

LEMMA StartupDeed ==
  ASSUME TypeInv, StepOK, AwaitInv, StartupInv, ReadStartup
  PROVE  \E l, c : Begins(l, c) \/ TakesAnswer(l, c)
<1> DEFINE l == Step.on
<1>1. l \in Labels /\ conn[l] \in Connections /\ ProcessTypes /\ Kept /\ Does("startup") /\ Step.do \in Waiting
  BY DEF ReadStartup, TypeInv, ProcessTypes, StepOK, Kept, Does, Waiting
<1>2. CASE AwaitStartup(l) /\ Undecided
  <2>1. PICK c \in Connections :
          /\ conn' = [conn EXCEPT ![l] = c] /\ c.ops = conn[l].ops /\ c.asked = "startup" /\ (c.failed <=> conn[l].failed)
    <3>1. PICK x \in Connections : x = conn[l]
      BY <1>1
    <3>2. [x EXCEPT !.asked = "startup"] \in Connections
      BY DEF Connections
    <3>3. conn' = [conn EXCEPT ![l] = [x EXCEPT !.asked = "startup"]]
      BY <1>2, <3>1 DEF AwaitStartup
    <3>4. LET c == [x EXCEPT !.asked = "startup"] IN
            c.ops = x.ops /\ c.asked = "startup" /\ (c.failed <=> x.failed)
      BY DEF Connections
    <3>5. QED
      BY <3>1, <3>2, <3>3, <3>4
  <2>2. ~conn[l].failed /\ conn[l].asked = "none" /\ UNCHANGED <<case, proc, control, output, closed>>
    BY <1>2 DEF AwaitStartup, Awaits, processVars
  <2>3. Begins(l, c)
    BY <1>1, <1>2, <2>1, <2>2 DEF Begins, Ties
  <2>4. QED
    BY <2>3
<1>3. CASE Answered(l) /\ Proceeds(disposition)
  <2>1. Awaits(l) /\ output[l] # <<>> /\ Expects(conn[l], Object(l)) /\ Object(l).kind \in {"startup", "response"}
    BY <1>3 DEF Answered, Answers, Readable
  <2>2. conn[l].asked = "startup" /\ ~conn[l].failed
    BY <1>1, <2>1 DEF AwaitInv, Does
  <2>3. Object(l) \in Objects
    BY <1>1, <2>1, ObjectType
  <2>4. Object(l).kind = "startup"
    <3>1. Object(l).op \in Operations \cup {"none", "unknown"} /\ "startup" \notin Operations \cup {"none", "unknown"}
      BY <2>3 DEF Objects, Operations, Materializations, Inspections
    <3>2. QED
      BY <2>1, <2>2, <3>1 DEF Expects
  <2>5. Object(l).op = "none"
    <3>1. output[l] \in Seq(Objects)
      BY <1>1 DEF ProcessTypes
    <3>2. 1 \in DOMAIN output[l] /\ Object(l) = output[l][1]
      BY <2>1, <3>1 DEF Object
    <3>3. QED
      BY <1>1, <2>4, <3>2 DEF StartupInv
  <2>6. PICK c \in Connections : Ties(l, c) /\ c.asked = "none" /\ ~c.failed
    BY <1>1, <1>3, <2>5, AnsweredTies
  <2>7. UNCHANGED control /\ output' = [output EXCEPT ![l] = Tail(@)]
    BY <1>3 DEF Answered, Takes
  <2>8. TakesAnswer(l, c)
    BY <1>1, <1>3, <2>1, <2>2, <2>3, <2>4, <2>6, <2>7 DEF TakesAnswer, Awaits
  <2>9. QED
    BY <2>8
<1>4. QED
  BY <1>2, <1>3 DEF ReadStartup, Undecided

LEMMA ResponseDeed ==
  ASSUME TypeInv, StepOK, AwaitInv, Response_
  PROVE  \E l, c : TakesAnswer(l, c)
<1> DEFINE l == Step.on
<1>1. l \in Labels /\ conn[l] \in Connections /\ ProcessTypes /\ Step.do \in Waiting
      /\ (Does("ask") \/ Does("shutdown")) /\ Step.do # "startup" /\ Answered(l) /\ Answers(l)
  BY DEF Response_, TypeInv, ProcessTypes, StepOK, Does, Waiting, Answered
<1>2. /\ l \in Domains /\ Object(l) \in Objects /\ Object(l).kind = "response"
      /\ Object(l).op = Step.op /\ conn[l].asked = Step.op /\ Step.op \in Operations /\ ~conn[l].failed
      /\ Step.op \in conn[l].ops /\ output[l] # <<>> /\ Awaits(l)
  BY <1>1, Heard
<1>3. PICK c \in Connections :
        /\ Ties(l, c) /\ c.asked = "none"
        /\ c.failed <=> Object(l).op = "bind_0001" /\ ~(Object(l).code = "ok")
  BY <1>1, AnsweredTies
<1>4. UNCHANGED control /\ output' = [output EXCEPT ![l] = Tail(@)]
  BY <1>1 DEF Answered, Takes
<1>5. \/ /\ Object(l).code = "ok" /\ ~c.failed /\ Proceeds(disposition)
         /\ Retains(l, Step.op, Object(l).seen) /\ UNCHANGED <<head, calls>>
      \/ /\ RaisesCode(Object(l).code) /\ Kept
         /\ c.failed => Step.op = "bind_0001"
  BY <1>2, <1>3 DEF Response_, Kept, canonicalVars, claimVars
<1>6. TakesAnswer(l, c)
  BY <1>1, <1>2, <1>3, <1>4, <1>5 DEF TakesAnswer, Awaits
<1>7. QED
  BY <1>6

Exchanges == Request \/ Hear \/ Response_ \/ NoResponse \/ ReadStartup
LEMMA ExchangeDeeds ==
  ASSUME TypeInv, StepOK, AwaitInv, StartupInv, Exchanges
  PROVE  \E l, c : Begins(l, c) \/ Writes(l, c) \/ Listens(l, c) \/ TakesAnswer(l, c) \/ Loses(l, c)
  BY RequestDeed, HearDeed, ResponseDeed, NoResponseDeed, StartupDeed DEF Exchanges

-----------------------------------------------------------------------------
(* Only the process the parent stands at is awaited *)

\* The claims of the step are the parent's own.
Judges == Classify \/ Claim \/ Census

LEMMA JudgedBacks ==
  ASSUME TypeInv, StepOK, Judges \/ CanonicalCall
  PROVE  (Working' => Working) /\ conn' = conn /\ Step.do \notin Waiting /\ UNCHANGED processVars
<1>1. UNCHANGED <<processVars, conn>> /\ case' = case
  BY DEF Judges, Classify, Claim, Census, CanonicalCall, processVars
<1>2. Raises \/ Moves \/ UNCHANGED stage
  BY DEF Judges, Classify, Claim, Census, CanonicalCall, Proceeds, RaisesCode
<1>3. Working' => Working
  <2>1. CASE Raises
    BY <1>1, <2>1, RaisesBacks
  <2>2. CASE Moves
    BY <1>1, <2>2, MovesPlace DEF TypeInv, ScriptInv
  <2>3. CASE UNCHANGED stage
    BY <2>3 DEF Working
  <2>4. QED
    BY <1>2, <2>1, <2>2, <2>3
<1>4. Step.do \in {"classify", "invalidate", "supersede", "census", "call"}
  BY DEF Judges, Classify, Claim, Census, CanonicalCall, Does
<1>5. QED
  BY <1>1, <1>3, <1>4 DEF Waiting

LEMMA TiesConn ==
  ASSUME ProcessTypes, NEW l, NEW c, Ties(l, c)
  PROVE  /\ l \in Labels /\ l = Step.on /\ conn'[l] = c
         /\ \A m \in Labels : m # l => conn'[m] = conn[m]
  BY DEF Ties, ProcessTypes

LEMMA UndecidedStep == ASSUME Undecided, case' = case PROVE Step' = Step /\ (Working' <=> Working)
  BY DEF Undecided, Step, Working

\* The step goes on, or ends the work.
LEMMA AnswerBacks ==
  ASSUME TypeInv, StepOK, NEW l, NEW c, TakesAnswer(l, c)
  PROVE  (Working' => Working) /\ (c.failed => ~Working')
<1>1. case' = case
  BY DEF TakesAnswer, Ties
<1>2. CASE Proceeds(disposition) /\ ~c.failed
  BY <1>1, <1>2, ProceedsBacks DEF Backs
<1>3. CASE RaisesCode(Object(l).code) /\ (c.failed => Step.op = "bind_0001")
  <2>1. Working' => Working
    BY <1>1, <1>3, CodeBacks DEF Backs
  <2>2. CASE Raises
    BY <1>1, <2>1, <2>2, RaisesBacks
  <2>3. CASE Catches
    <3>0. stage = "failure" /\ Working
      BY <2>3 DEF Catches, Working
    <3>1. Step.do # "shutdown"
      BY <3>0 DEF StepOK, Neutral
    <3>2. CASE c.failed
      <4>1. Step.op \in Later
        BY <1>3, <3>2 DEF Later
      <4>2. Step.do \in Waiting /\ Step.do # "startup"
        BY <3>2 DEF TakesAnswer
      <4>3. Does("ask")
        BY <3>1, <4>2 DEF Does, Waiting
      <4>4. QED
        BY <3>0, <4>1, <4>3 DEF StepOK
    <3>3. QED
      BY <2>1, <3>2
  <2>4. QED
    BY <1>3, <2>1, <2>2, <2>3 DEF RaisesCode
<1>4. QED
  BY <1>2, <1>3 DEF TakesAnswer

LEMMA AwaitExchange ==
  ASSUME TypeInv, StepOK, AwaitInv, StartupInv, Exchanges
  PROVE  AwaitInv'
<1>1. PICK l, c : Begins(l, c) \/ Writes(l, c) \/ Listens(l, c) \/ TakesAnswer(l, c) \/ Loses(l, c)
  BY ExchangeDeeds
<1>2. Ties(l, c) /\ case' = case
  BY <1>1 DEF Begins, Writes, Listens, TakesAnswer, Loses, Ties
<1>3. /\ l \in Labels /\ l = Step.on /\ conn'[l] = c
      /\ \A m \in Labels : m # l => conn'[m] = conn[m] /\ conn[m].asked = "none"
  <2>1. \A m \in Labels : m # Step.on => conn[m].asked = "none"
    BY DEF AwaitInv, Awaits
  <2>2. QED
    BY <1>2, <2>1, TiesConn DEF TypeInv
<1>4. CASE Begins(l, c) \/ Writes(l, c) \/ Listens(l, c)
  <2>1. Step' = Step /\ (Working' <=> Working)
    BY <1>2, <1>4, UndecidedStep DEF Begins, Writes, Listens
  <2>2. /\ ~c.failed
        /\ \/ Does("startup") /\ c.asked = "startup"
           \/ (Does("ask") \/ Does("shutdown")) /\ c.asked = Step.op /\ Step.op \in c.ops /\ l \in Domains
    <3>1. CASE Begins(l, c) \/ Writes(l, c)
      BY <3>1 DEF Begins, Writes
    <3>2. CASE Listens(l, c)
      BY <1>3, <3>2 DEF Listens, AwaitInv, Awaits, Ties
    <3>3. QED
      BY <1>4, <3>1, <3>2
  <2>3. QED
    BY <1>3, <2>1, <2>2 DEF AwaitInv, Awaits, Does
<1>5. CASE TakesAnswer(l, c) \/ Loses(l, c)
  <2>1. c.asked = "none" /\ (Working' => Working) /\ (c.failed => ~Working')
    <3>1. CASE TakesAnswer(l, c)
      BY <3>1, AnswerBacks DEF TakesAnswer
    <3>2. CASE Loses(l, c)
      BY <1>2, <3>2, RaisesBacks DEF Loses
    <3>3. QED
      BY <1>5, <3>1, <3>2
  <2>2. QED
    BY <1>3, <2>1 DEF AwaitInv, Awaits
<1>6. QED
  BY <1>1, <1>4, <1>5

\* A process of its own accord changes nothing the parent knows of.
Alone(l) == Process(l) \/ Dies(l) \/ CrashMishap(l) \/ DrainFails(l)

LEMMA AloneConn ==
  ASSUME TypeInv, NEW l \in Labels, Alone(l)
  PROVE  /\ Step' = Step /\ UNCHANGED <<stage, at, disposition, canonicalVars, claimVars, birth, signal>> /\ case' = case
         /\ conn' \in [Labels -> Connections]
         /\ \A m \in Labels : /\ conn'[m].asked = conn[m].asked /\ (conn'[m].failed <=> conn[m].failed)
                              /\ conn'[m].ops = conn[m].ops
<1>1. TypeInv' /\ Step' = Step
  BY ProcessTypesKept DEF Alone
<1>2. UNCHANGED <<stage, at, disposition, canonicalVars, claimVars, birth, signal>>
  BY DEF Alone, Process, Dies, CrashMishap, DrainFails, caseVars, parentVars, canonicalVars, claimVars
<1>3. case' = case
  <2>1. CASE DrainFails(l) \/ Dies(l) \/ CrashMishap(l)
    BY <2>1 DEF DrainFails, Dies, CrashMishap, processVars, Exits, Crash
  <2>2. CASE Process(l)
    <3>1. Tick(l) \/ SpawnFailure(l)
      BY <2>2 DEF Process
    <3>2. QED
      BY <3>1, ProcessDeeds DEF TypeInv, Replies, Replaces, Completes, Boot, Exits, Answer
  <2>3. QED
    BY <2>1, <2>2 DEF Alone
<1>4. conn' = conn \/ conn' = [conn EXCEPT ![l].stopped = TRUE]
  BY DEF Alone, Process, Dies, CrashMishap, DrainFails, caseVars
<1>5. \A m \in Labels : /\ conn'[m].asked = conn[m].asked /\ (conn'[m].failed <=> conn[m].failed)
                        /\ conn'[m].ops = conn[m].ops
  <2>1. CASE conn' = conn
    BY <2>1
  <2>2. CASE conn' = [conn EXCEPT ![l].stopped = TRUE]
    <3>1. PICK x \in Connections : x = conn[l]
      BY DEF TypeInv, ProcessTypes
    <3>2. conn'[l] = [x EXCEPT !.stopped = TRUE] /\ \A m \in Labels : m # l => conn'[m] = conn[m]
      BY <2>2, <3>1 DEF TypeInv, ProcessTypes
    <3>3. \A y : y = [x EXCEPT !.stopped = TRUE] => y.asked = x.asked /\ (y.failed <=> x.failed) /\ y.ops = x.ops
      BY DEF Connections
    <3>4. QED
      BY <3>1, <3>2, <3>3
  <2>3. QED
    BY <1>4, <2>1, <2>2
<1>6. QED
  BY <1>1, <1>2, <1>3, <1>5 DEF TypeInv, ProcessTypes

LEMMA AwaitKept ==
  ASSUME TypeInv, StepOK, AwaitInv, StartupInv, Next
  PROVE  AwaitInv'
<1>1. CASE QuietSteps
  BY <1>1, QuietIdle, QuietDeed, IdleKept DEF Backs
<1>2. CASE Judges \/ CanonicalCall
  BY <1>2, JudgedBacks, Idle, IdleKept
<1>3. CASE Exchanges
  BY <1>3, AwaitExchange
<1>4. CASE Finished
  <2>1. UNCHANGED <<conn, stage, at, case>>
    BY <1>4 DEF Finished, vars, processVars
  <2>2. Step' = Step /\ (Working' <=> Working)
    BY <2>1 DEF Step, Working
  <2>3. QED
    BY <2>1, <2>2 DEF AwaitInv, Awaits, Does
<1>5. ASSUME NEW l \in Labels, Alone(l) PROVE AwaitInv'
  <2>1. /\ Step' = Step /\ stage' = stage
        /\ \A m \in Labels : /\ conn'[m].asked = conn[m].asked /\ (conn'[m].failed <=> conn[m].failed)
                             /\ conn'[m].ops = conn[m].ops
    BY <1>5, AloneConn
  <2>2. Working' <=> Working
    BY <2>1 DEF Working
  <2>3. QED
    BY <2>1, <2>2 DEF AwaitInv, Awaits, Does
<1>6. QED
  BY <1>1, <1>2, <1>3, <1>4, <1>5 DEF Next, Parent, QuietSteps, Judges, Exchanges, Alone

-----------------------------------------------------------------------------
(* One command at a time *)

Silent(s) == \A i \in DOMAIN s : s[i].kind # "response"
Single(s) == \A i, j \in DOMAIN s : s[i].kind = "response" /\ s[j].kind = "response" => i = j
Greets(s) == \A i \in DOMAIN s : s[i].kind = "startup" => s[i].op = "none"

LEMMA TailQueue ==
  ASSUME NEW s \in Seq(Objects), s # <<>>
  PROVE  /\ Silent(s) => Silent(Tail(s))
         /\ Single(s) => Single(Tail(s))
         /\ Single(s) /\ Head(s).kind = "response" => Silent(Tail(s))
         /\ Silent(s) => Head(s).kind # "response"
         /\ Greets(s) => Greets(Tail(s))
<1>1. /\ \A i \in DOMAIN Tail(s) : i + 1 \in DOMAIN s /\ Tail(s)[i] = s[i + 1]
      /\ 1 \in DOMAIN s /\ Head(s) = s[1]
      /\ Tail(s) \in Seq(Objects)
  BY TailFrom
<1>2. \A i \in DOMAIN Tail(s) : i \in Nat /\ i # 0
  BY <1>1
<1>3. Silent(s) => Silent(Tail(s)) /\ Head(s).kind # "response"
  BY <1>1 DEF Silent
<1>4. Greets(s) => Greets(Tail(s))
  BY <1>1 DEF Greets
<1>5. ASSUME Single(s) PROVE Single(Tail(s))
  <2> SUFFICES ASSUME NEW i \in DOMAIN Tail(s), NEW j \in DOMAIN Tail(s),
                      Tail(s)[i].kind = "response", Tail(s)[j].kind = "response"
               PROVE  i = j
    BY DEF Single
  <2>1. i + 1 = j + 1
    BY <1>1, <1>5 DEF Single
  <2>2. QED
    BY <1>2, <2>1
<1>6. ASSUME Single(s), Head(s).kind = "response" PROVE Silent(Tail(s))
  <2> SUFFICES ASSUME NEW i \in DOMAIN Tail(s), Tail(s)[i].kind = "response" PROVE FALSE
    BY DEF Silent
  <2>1. i + 1 = 1
    BY <1>1, <1>6 DEF Single
  <2>2. QED
    BY <1>2, <2>1
<1>7. QED
  BY <1>3, <1>4, <1>5, <1>6

LEMMA JoinQueue ==
  ASSUME NEW s \in Seq(Objects), NEW t, SoleResponse(t)
  PROVE  /\ Silent(s) => Single(s \o t)
         /\ Greets(s) => Greets(s \o t)
<1>1. t \in Seq(Objects) /\ \A i \in DOMAIN t : t[i].kind # "startup" /\ (t[i].kind = "response" => i = Len(t))
  BY DEF SoleResponse
<1>2. \A i \in DOMAIN (s \o t) :
        \/ i \in DOMAIN s /\ (s \o t)[i] = s[i]
        \/ i - Len(s) \in DOMAIN t /\ i - Len(s) >= 1 /\ (s \o t)[i] = t[i - Len(s)]
  BY <1>1, ConcatFrom
<1>3. ASSUME Silent(s) PROVE Single(s \o t)
  <2>1. \A i \in DOMAIN (s \o t) : (s \o t)[i].kind = "response" => i - Len(s) = Len(t)
    BY <1>1, <1>2, <1>3 DEF Silent
  <2>2. s \o t \in Seq(Objects)
    BY <1>1, ConcatFrom
  <2>3. \A i \in DOMAIN (s \o t) : i \in Nat
    BY <2>2
  <2>4. \A i, j \in DOMAIN (s \o t) : (s \o t)[i].kind = "response" /\ (s \o t)[j].kind = "response" => i = j
    <3> SUFFICES ASSUME NEW i \in DOMAIN (s \o t), NEW j \in DOMAIN (s \o t),
                        (s \o t)[i].kind = "response", (s \o t)[j].kind = "response"
                 PROVE  i = j
      OBVIOUS
    <3>0. i - Len(s) = Len(t) /\ j - Len(s) = Len(t) /\ i \in Nat /\ j \in Nat
      BY <2>1, <2>3, Zenon
    <3>1. Len(s) \in Nat /\ Len(t) \in Nat
      BY <1>1
    <3>2. QED
      BY <3>0, <3>1
  <2>5. QED
    BY <2>4 DEF Single
<1>4. ASSUME Greets(s) PROVE Greets(s \o t)
  <2>1. \A i \in DOMAIN (s \o t) : (s \o t)[i].kind = "startup" => (s \o t)[i].op = "none"
    BY <1>1, <1>2, <1>4 DEF Greets
  <2>2. QED
    BY <2>1 DEF Greets
<1>5. QED
  BY <1>3, <1>4

Greeting == Event("startup", "none", Empty)
LEMMA GreetQueue ==
  ASSUME NEW s \in Seq(Objects)
  PROVE  LET r == Append(s, Greeting) IN
         /\ Silent(r) <=> Silent(s)
         /\ Single(r) <=> Single(s)
         /\ Greets(s) => Greets(r)
<1> DEFINE r == Append(s, Greeting)
<1>1. Greeting.kind = "startup" /\ Greeting.op = "none"
  BY DEF Greeting, Event
<1>2. /\ \A i \in DOMAIN r : (i \in DOMAIN s /\ r[i] = s[i]) \/ r[i] = Greeting
      /\ \A i \in DOMAIN s : i \in DOMAIN r /\ r[i] = s[i]
  OBVIOUS
<1> HIDE DEF r
<1>3. Silent(r) <=> Silent(s)
  BY <1>1, <1>2 DEF Silent
<1>4. \A i \in DOMAIN r : r[i].kind = "response" => i \in DOMAIN s /\ s[i].kind = "response"
  BY <1>1, <1>2
<1>5. \A i \in DOMAIN s : s[i].kind = "response" => i \in DOMAIN r /\ r[i].kind = "response"
  BY <1>2
<1>6. Single(r) <=> Single(s)
  BY <1>4, <1>5 DEF Single
<1>7. Greets(s) => Greets(r)
  BY <1>1, <1>2 DEF Greets
<1>8. QED
  BY <1>3, <1>6, <1>7 DEF r

\* Nothing is left of an exchange that is over, or has not begun.
Settled(l) == control[l] = <<>> /\ proc[l].pending = NoLine /\ Silent(output[l])
Free(l) == ~conn[l].failed /\ conn[l].asked \in {"none", "startup"}

\* A line is unread, or waits for the old pair to go, or is answered: never two of them.
Orderly(l) ==
  /\ Greets(output[l]) /\ Single(output[l]) /\ Len(control[l]) <= 1
  /\ proc[l].pending # NoLine => control[l] = <<>>
  /\ ~Silent(output[l]) => control[l] = <<>> /\ proc[l].pending = NoLine
  /\ Free(l) => Settled(l)
ExchangeInv == \A l \in Labels : Orderly(l)

LEMMA Greeted == ASSUME ExchangeInv PROVE StartupInv
  BY DEF ExchangeInv, Orderly, Greets, StartupInv

\* Who has to do with an exchange: one process, and its connection.
LEMMA OthersOrderly ==
  ASSUME ExchangeInv, NEW l \in Labels, Orderly(l)',
         \A m \in Labels : m # l =>
           /\ control'[m] = control[m] /\ output'[m] = output[m] /\ proc'[m].pending = proc[m].pending
           /\ conn'[m].asked = conn[m].asked /\ (conn'[m].failed <=> conn[m].failed)
  PROVE  ExchangeInv'
<1>1. ASSUME NEW m \in Labels, m # l PROVE Orderly(m)'
  <2>1. Orderly(m)
    BY DEF ExchangeInv
  <2>2. /\ control'[m] = control[m] /\ output'[m] = output[m] /\ proc'[m].pending = proc[m].pending
        /\ conn'[m].asked = conn[m].asked /\ (conn'[m].failed <=> conn[m].failed)
    BY <1>1
  <2>3. QED
    BY <2>1, <2>2 DEF Orderly, Free, Settled
<1>2. QED
  BY <1>1 DEF ExchangeInv

LEMMA StillOrderly ==
  ASSUME ExchangeInv, UNCHANGED <<control, output>>,
         \A m \in Labels :
           /\ proc'[m].pending = proc[m].pending
           /\ conn'[m].asked = conn[m].asked /\ (conn'[m].failed <=> conn[m].failed)
  PROVE  ExchangeInv'
<1>1. ASSUME NEW m \in Labels PROVE Orderly(m)'
  <2>1. Orderly(m)
    BY DEF ExchangeInv
  <2>2. /\ control'[m] = control[m] /\ output'[m] = output[m] /\ proc'[m].pending = proc[m].pending
        /\ conn'[m].asked = conn[m].asked /\ (conn'[m].failed <=> conn[m].failed)
    OBVIOUS
  <2>3. QED
    BY <2>1, <2>2 DEF Orderly, Free, Settled
<1>2. QED
  BY <1>1 DEF ExchangeInv

LEMMA ExchangeOrderly ==
  ASSUME TypeInv, StepOK, AwaitInv, ExchangeInv, Exchanges
  PROVE  ExchangeInv'
<1>1. PICK l, c : Begins(l, c) \/ Writes(l, c) \/ Listens(l, c) \/ TakesAnswer(l, c) \/ Loses(l, c)
  BY ExchangeDeeds, Greeted
<1>2. Ties(l, c)
  BY <1>1 DEF Begins, Writes, Listens, TakesAnswer, Loses
<1>3. /\ l \in Labels /\ l = Step.on /\ conn'[l] = c /\ ProcessTypes
      /\ \A m \in Labels : m # l => conn'[m] = conn[m]
  BY <1>2, TiesConn DEF TypeInv
<1>4. /\ proc' = proc /\ Orderly(l)
      /\ control[l] \in Seq(Lines) /\ output[l] \in Seq(Objects)
      /\ proc'[l].pending = proc[l].pending
  BY <1>2, <1>3 DEF Ties, ExchangeInv, ProcessTypes
<1>5. \A m \in Labels : m # l => control'[m] = control[m] /\ output'[m] = output[m]
  BY <1>1, <1>3 DEF Begins, Writes, Listens, TakesAnswer, Loses, ProcessTypes
<1>6. Orderly(l)'
  <2>1. CASE Begins(l, c)
    <3>1. control'[l] = control[l] /\ output'[l] = output[l] /\ Free(l)
      BY <2>1 DEF Begins, Free
    <3>2. QED
      BY <1>4, <3>1 DEF Orderly, Settled, Free
  <2>2. CASE Writes(l, c)
    <3>1. control[l] = <<>> /\ proc[l].pending = NoLine /\ Silent(output[l])
      BY <1>4, <2>2 DEF Writes, Orderly, Free, Settled
    <3>2. control'[l] = Append(<<>>, Command) /\ output'[l] = output[l]
      BY <1>3, <2>2, <3>1 DEF Writes, ProcessTypes
    <3>3. Len(control'[l]) <= 1
      BY <3>2
    <3>4. c.asked \in Operations
      BY <2>2 DEF Writes, StepOK, Does, Operations
    <3>5. ~Free(l)'
      BY <1>3, <3>4 DEF Free, Operations, Materializations, Inspections
    <3>6. Silent(output'[l]) /\ Greets(output'[l]) /\ Single(output'[l]) /\ proc'[l].pending = NoLine
      BY <1>4, <3>1, <3>2 DEF Orderly
    <3>7. QED
      BY <3>3, <3>5, <3>6 DEF Orderly
  <2>3. CASE Listens(l, c)
    <3>1. control'[l] = control[l] /\ output'[l] = Tail(output[l]) /\ output[l] # <<>> /\ (Free(l)' <=> Free(l))
      BY <1>3, <2>3 DEF Listens, Free, ProcessTypes
    <3>2. /\ Silent(output[l]) => Silent(output'[l])
          /\ Single(output[l]) => Single(output'[l])
          /\ Greets(output[l]) => Greets(output'[l])
      BY <1>4, <3>1, TailQueue
    <3>3. QED
      BY <1>4, <3>1, <3>2 DEF Orderly, Settled
  <2>4. CASE TakesAnswer(l, c)
    <3>1. control'[l] = control[l] /\ output'[l] = Tail(output[l]) /\ output[l] # <<>>
      BY <1>3, <2>4 DEF TakesAnswer, ProcessTypes
    <3>2. /\ Silent(output[l]) => Silent(output'[l]) /\ Head(output[l]).kind # "response"
          /\ Single(output[l]) => Single(output'[l])
          /\ Single(output[l]) /\ Head(output[l]).kind = "response" => Silent(output'[l])
          /\ Greets(output[l]) => Greets(output'[l])
      BY <1>4, <3>1, TailQueue
    <3>3. Free(l) \/ Head(output[l]).kind = "response"
      BY <2>4 DEF TakesAnswer, Object, Free
    <3>4. control[l] = <<>> /\ proc[l].pending = NoLine /\ Silent(output'[l])
      BY <1>4, <3>2, <3>3 DEF Orderly, Settled
    <3>5. QED
      BY <1>4, <3>1, <3>2, <3>4 DEF Orderly, Settled
  <2>5. CASE Loses(l, c)
    <3>1. ~Free(l)' /\ control'[l] = control[l]
      BY <1>3, <2>5 DEF Loses, Free
    <3>2. CASE output' = output
      BY <1>4, <3>1, <3>2 DEF Orderly
    <3>3. CASE output[l] # <<>> /\ output' = [output EXCEPT ![l] = Tail(@)]
      <4>1. output'[l] = Tail(output[l])
        BY <1>3, <3>3 DEF ProcessTypes
      <4>2. /\ Silent(output[l]) => Silent(output'[l])
            /\ Single(output[l]) => Single(output'[l])
            /\ Greets(output[l]) => Greets(output'[l])
        BY <1>4, <3>3, <4>1, TailQueue
      <4>3. QED
        BY <1>4, <3>1, <4>2 DEF Orderly
    <3>4. QED
      BY <2>5, <3>2, <3>3 DEF Loses
  <2>6. QED
    BY <1>1, <2>1, <2>2, <2>3, <2>4, <2>5
<1>7. QED
  BY <1>3, <1>4, <1>5, <1>6, OthersOrderly

\* The queues of a process that answers, or is to answer later.
LEMMA ReplyQueues ==
  ASSUME ProcessTypes, NEW l \in Labels, NEW q, NEW t \in Seq(Objects), Reads(l), Answer(l, q, t)
  PROVE  /\ control[l] \in Seq(Lines) /\ control[l] # <<>> /\ output[l] \in Seq(Objects)
         /\ control'[l] = Tail(control[l]) /\ output'[l] = output[l] \o t /\ proc'[l] = q
         /\ \A m \in Labels : m # l => control'[m] = control[m] /\ output'[m] = output[m] /\ proc'[m] = proc[m]
  BY DEF ProcessTypes, Reads, Answer

LEMMA CompletionQueues ==
  ASSUME ProcessTypes, NEW l \in Labels, NEW q, NEW t, Completes(l, q, t)
  PROVE  /\ output[l] \in Seq(Objects) /\ control' = control
         /\ output'[l] = output[l] \o t /\ proc'[l] = q
         /\ \A m \in Labels : m # l => output'[m] = output[m] /\ proc'[m] = proc[m]
  BY DEF ProcessTypes, Completes

LEMMA OnlyLine ==
  ASSUME NEW s \in Seq(Lines), s # <<>>, Len(s) <= 1
  PROVE  Tail(s) = <<>> /\ 1 \in DOMAIN s /\ Head(s) = s[1]
<1>1. Len(s) \in Nat /\ Len(s) # 0
  BY EmptySeq
<1>2. Len(s) = 1
  <2>1. PICK n \in Nat : n = Len(s)
    BY <1>1
  <2>2. n # 0 /\ n <= 1
    BY <1>1, <2>1
  <2>3. n = 1
    BY <2>2
  <2>4. QED
    BY <2>1, <2>3
<1>3. Tail(s) \in Seq(Lines) /\ Len(Tail(s)) = 0
  BY <1>2, HeadTailProperties
<1>4. Tail(s) = <<>>
  BY <1>3, EmptySeq
<1>5. QED
  BY <1>2, <1>4

\* The line that is read is the only one, and nothing is left of another.
LEMMA Alone1 ==
  ASSUME ProcessTypes, ExchangeInv, NEW l \in Labels, Reads(l)
  PROVE  /\ Tail(control[l]) = <<>> /\ Silent(output[l]) /\ proc[l].pending = NoLine /\ ~Free(l)
         /\ 1 \in DOMAIN control[l] /\ Line(l) = control[l][1]
<1>1. control[l] \in Seq(Lines) /\ control[l] # <<>> /\ Orderly(l)
  BY DEF Reads, ProcessTypes, ExchangeInv
<1>2. Len(control[l]) <= 1
  BY <1>1 DEF Orderly
<1>3. Tail(control[l]) = <<>> /\ 1 \in DOMAIN control[l] /\ Head(control[l]) = control[l][1]
  BY <1>1, <1>2, OnlyLine
<1>4. QED
  BY <1>1, <1>3 DEF Orderly, Settled, Line

LEMMA AloneOrderly ==
  ASSUME TypeInv, ExchangeInv, NEW l \in Labels, Alone(l)
  PROVE  ExchangeInv'
<1>0. ProcessTypes /\ Orderly(l) /\ output[l] \in Seq(Objects)
  BY DEF TypeInv, ExchangeInv, ProcessTypes
<1>1. \A m \in Labels : conn'[m].asked = conn[m].asked /\ (conn'[m].failed <=> conn[m].failed)
  BY AloneConn
<1>2. \A m \in Labels : Free(m)' <=> Free(m)
  BY <1>1 DEF Free
<1>3. ASSUME NEW q, NEW t, Replies(l, q, t) PROVE ExchangeInv'
  <2>1. Reads(l) /\ Answer(l, q, t) /\ t \in Seq(Objects) /\ SoleResponse(t) /\ q.pending = NoLine
    BY <1>3 DEF Replies, SoleResponse
  <2>2. /\ control'[l] = Tail(control[l]) /\ output'[l] = output[l] \o t /\ proc'[l] = q
        /\ \A m \in Labels : m # l => control'[m] = control[m] /\ output'[m] = output[m] /\ proc'[m] = proc[m]
    BY <1>0, <2>1, ReplyQueues
  <2>3. Tail(control[l]) = <<>> /\ Silent(output[l]) /\ ~Free(l)
    BY <1>0, <2>1, Alone1
  <2>4. Single(output'[l]) /\ Greets(output'[l])
    BY <1>0, <2>1, <2>2, <2>3, JoinQueue DEF Orderly
  <2>a. control'[l] = <<>> /\ proc'[l].pending = NoLine /\ ~Free(l)'
    BY <1>2, <2>1, <2>2, <2>3
  <2>b. Len(control'[l]) <= 1
    BY <2>a
  <2>5. Orderly(l)'
    BY <2>4, <2>a, <2>b DEF Orderly
  <2>6. QED
    BY <1>1, <2>2, <2>5, OthersOrderly
<1>4. ASSUME NEW q, Replaces(l, q) PROVE ExchangeInv'
  <2>0. <<>> \in Seq(Objects)
    OBVIOUS
  <2>1. Reads(l) /\ Answer(l, q, <<>>)
    BY <1>4 DEF Replaces
  <2>2. /\ control'[l] = Tail(control[l]) /\ output'[l] = output[l] \o <<>> /\ proc'[l] = q
        /\ \A m \in Labels : m # l => control'[m] = control[m] /\ output'[m] = output[m] /\ proc'[m] = proc[m]
    BY <1>0, <2>0, <2>1, ReplyQueues
  <2>3. Tail(control[l]) = <<>> /\ Silent(output[l]) /\ ~Free(l)
    BY <1>0, <2>1, Alone1
  <2>4. output'[l] = output[l]
    BY <1>0, <2>2, ConcatEmptySeq
  <2>5. Orderly(l)'
    BY <1>0, <1>2, <2>2, <2>3, <2>4 DEF Orderly
  <2>6. QED
    BY <1>1, <2>2, <2>5, OthersOrderly
<1>5. ASSUME NEW q, NEW t, Completes(l, q, t) PROVE ExchangeInv'
  <2>1. /\ control' = control /\ output'[l] = output[l] \o t /\ proc'[l] = q
        /\ \A m \in Labels : m # l => output'[m] = output[m] /\ proc'[m] = proc[m]
    BY <1>0, <1>5, CompletionQueues
  <2>2. SoleResponse(t) /\ q.pending = NoLine /\ proc[l].pending # NoLine
    BY <1>5 DEF Completes
  <2>3. control[l] = <<>> /\ Silent(output[l]) /\ ~Free(l)
    BY <1>0, <2>2 DEF Orderly, Settled
  <2>4. Single(output'[l]) /\ Greets(output'[l])
    BY <1>0, <2>1, <2>2, <2>3, JoinQueue DEF Orderly
  <2>5. Orderly(l)'
    BY <1>0, <1>2, <2>1, <2>2, <2>3, <2>4 DEF Orderly
  <2>6. QED
    BY <1>1, <2>1, <2>5, OthersOrderly
<1>6. ASSUME Boot(l) PROVE ExchangeInv'
  <2>1. /\ control' = control /\ proc' = [proc EXCEPT ![l].started = TRUE]
        /\ output' = [output EXCEPT ![l] = Append(@, Greeting)]
    BY <1>6 DEF Boot, Greeting
  <2>2. \A m \in Labels : proc'[m].pending = proc[m].pending
    <3>1. PICK p \in Processes : p = proc[l]
      BY <1>0 DEF ProcessTypes
    <3>2. proc'[l] = [p EXCEPT !.started = TRUE] /\ \A m \in Labels : m # l => proc'[m] = proc[m]
      BY <1>0, <2>1, <3>1 DEF ProcessTypes
    <3>3. \A r : r = [p EXCEPT !.started = TRUE] => r.pending = p.pending
      BY DEF Processes
    <3>4. QED
      BY <3>1, <3>2, <3>3
  <2>3. /\ output'[l] = Append(output[l], Greeting)
        /\ \A m \in Labels : m # l => output'[m] = output[m]
    BY <1>0, <2>1 DEF ProcessTypes
  <2>4. /\ Silent(output'[l]) <=> Silent(output[l])
        /\ Single(output'[l]) <=> Single(output[l])
        /\ Greets(output[l]) => Greets(output'[l])
    BY <1>0, <2>3, GreetQueue
  <2>5. Orderly(l)'
    BY <1>0, <1>2, <2>1, <2>2, <2>4 DEF Orderly, Settled
  <2>6. QED
    BY <1>1, <2>1, <2>2, <2>3, <2>5, OthersOrderly
<1>7. ASSUME Exits(l, "exited") PROVE ExchangeInv'
  <2>1. proc' = [proc EXCEPT ![l].life = "exited"] /\ UNCHANGED <<control, output>>
    BY <1>7 DEF Exits
  <2>2. \A m \in Labels : proc'[m].pending = proc[m].pending
    BY <1>0, <2>1, LifeHeld DEF Held
  <2>3. QED
    BY <1>1, <2>1, <2>2, StillOrderly
<1>8. ASSUME DrainFails(l) PROVE ExchangeInv'
  <2>1. UNCHANGED <<control, output, proc>>
    BY <1>8 DEF DrainFails, processVars
  <2>2. QED
    BY <1>1, <2>1, StillOrderly
<1>9. CASE Process(l)
  <2>1. Tick(l) \/ SpawnFailure(l)
    BY <1>9 DEF Process
  <2>2. QED
    BY <1>0, <2>1, <1>3, <1>4, <1>5, <1>6, <1>7, ProcessDeeds
<1>10. CASE Dies(l) \/ CrashMishap(l)
  BY <1>7, <1>10 DEF Dies, CrashMishap, Crash
<1>11. QED
  BY <1>8, <1>9, <1>10 DEF Alone

LEMMA ExchangeKept ==
  ASSUME TypeInv, StepOK, AwaitInv, ExchangeInv, Next
  PROVE  ExchangeInv'
<1>1. CASE QuietSteps
  <2>1. Still /\ conn' = conn
    BY <1>1, QuietDeed
  <2>2. QED
    BY <2>1, StillOrderly DEF Still, Held
<1>2. CASE Judges \/ CanonicalCall
  <2>1. UNCHANGED <<control, output, proc, conn>>
    BY <1>2, JudgedBacks DEF processVars
  <2>2. QED
    BY <2>1, StillOrderly
<1>3. CASE Exchanges
  BY <1>3, ExchangeOrderly
<1>4. CASE Finished
  <2>1. UNCHANGED <<control, output, proc, conn>>
    BY <1>4 DEF Finished, vars, processVars
  <2>2. QED
    BY <2>1, StillOrderly
<1>5. ASSUME NEW l \in Labels, Alone(l) PROVE ExchangeInv'
  BY <1>5, AloneOrderly
<1>6. QED
  BY <1>1, <1>2, <1>3, <1>4, <1>5 DEF Next, Parent, QuietSteps, Judges, Exchanges, Alone

LEMMA ExchangeInit == Init => ExchangeInv
<1>1. ASSUME Init, NEW l \in Labels PROVE Orderly(l)
  <2>1. control[l] = <<>> /\ output[l] = <<>> /\ proc[l] = AbsentProcess
    BY <1>1 DEF Init, ProcessInit
  <2>2. proc[l].pending = NoLine
    BY <2>1 DEF AbsentProcess
  <2>3. Silent(output[l]) /\ Single(output[l]) /\ Greets(output[l]) /\ Len(control[l]) <= 1
    BY <2>1 DEF Silent, Single, Greets
  <2>4. QED
    BY <2>1, <2>2, <2>3 DEF Orderly, Settled
<1>2. ASSUME Init PROVE ExchangeInv
  <2>1. \A l \in Labels : Orderly(l)
    BY <1>1, <1>2, Zenon
  <2>2. QED
    BY <2>1, Zenon DEF ExchangeInv
<1>3. QED
  BY <1>2, Zenon

-----------------------------------------------------------------------------

CohortInv == TypeInv /\ AwaitInv /\ ExchangeInv

LEMMA FinishedTypes == ASSUME TypeInv, UNCHANGED vars PROVE TypeInv'
<1>1. /\ UNCHANGED <<case, proc, control, output, closed, conn, stage, at, wrong, code, head, calls, captures,
                     represented, observed, disposition>>
      /\ UNCHANGED <<wireFaults, dead, birth, monitored, signal, status, mishaps>>
  BY DEF vars, processVars, canonicalVars, claimVars, parentVars
<1>2. ProcessTypes' /\ ParentTypes' /\ RecordTypes' /\ CanonicalTypes' /\ EndTypes'
  BY <1>1 DEF TypeInv, ProcessTypes, ParentTypes, RecordTypes, CanonicalTypes, EndTypes
<1>3. ScriptInv'
  BY <1>1, StaysScript DEF TypeInv
<1>4. QED
  BY <1>2, <1>3 DEF TypeInv

LEMMA CohortInit == Init => CohortInv
  BY TypeInit, ExchangeInit DEF CohortInv

LEMMA CohortNext == CohortInv /\ [Next]_vars => CohortInv'
<1> SUFFICES ASSUME TypeInv, AwaitInv, ExchangeInv, [Next]_vars PROVE CohortInv'
  BY DEF CohortInv
<1>1. StepOK
  BY StepShape DEF TypeInv
<1>2. CASE Next
  <2>1. TypeInv'
    BY <1>1, <1>2, ParentTypesKept, ProcessTypesKept, FinishedTypes DEF Next, Finished
  <2>2. QED
    BY <1>1, <1>2, <2>1, AwaitKept, ExchangeKept, Greeted DEF CohortInv
<1>3. CASE UNCHANGED vars
  <2>1. TypeInv'
    BY <1>3, FinishedTypes
  <2>2. UNCHANGED <<conn, stage, at, case, control, output, proc>>
    BY <1>3 DEF vars, processVars
  <2>3. Step' = Step /\ (Working' <=> Working)
    BY <2>2 DEF Step, Working
  <2>4. AwaitInv'
    BY <2>2, <2>3 DEF AwaitInv, Awaits, Does
  <2>5. ExchangeInv'
    BY <2>2, StillOrderly
  <2>6. QED
    BY <2>1, <2>4, <2>5 DEF CohortInv
<1>4. QED
  BY <1>2, <1>3

\* Whatever the processes do, and whenever the parent gives an exchange up, every variable has
\* its type and no command is written behind an unanswered one (_exchange, cleanup).
THEOREM Alternates == Spec => []OneCommandAtATime
<1>1. CohortInv => OneCommandAtATime
  BY TypeInvOK DEF CohortInv, OneCommandAtATime, ExchangeInv, Orderly
<1>2. QED
  BY <1>1, CohortInit, CohortNext, PTL DEF Spec

-----------------------------------------------------------------------------
(* What the cleanup leaves *)

Swept(l) ==
  \/ proc[l].life \in {"absent", "exited", "reaped"} \/ signal[l] = "KILL"
  \/ l \notin birth /\ proc[l].life = "suspended"

\* The wait for a process is behind the parent.
Waits == {2, 5, 8}
Passed(k) == stage \in {"record", "done"} \/ (stage = "cleanup" /\ k < at)

\* Only a child that is identified is resumed, and a wait is not over before its child is.
CleanInv ==
  /\ \A l \in Labels : proc[l].life \in {"running", "exiting"} => l \in birth
  /\ \A k \in Waits : Passed(k) => Swept(CleanedBy(k))

Passes == Raises \/ Moves \/ UNCHANGED <<stage, at>> \/ (stage = "failure" /\ UNCHANGED stage)

LEMMA PassedOn ==
  ASSUME TypeInv, StepOK, Passes, case' = case, NEW k \in Waits, Passed(k)'
  PROVE  Passed(k) \/ (stage = "cleanup" /\ Step.do = "wait" /\ Step.on = CleanedBy(k))
<1>1. /\ stage \in Stages /\ case \in Cast /\ at \in 1 .. Len(Script[stage][case])
      /\ stage' \in {"cleanup", "record", "done"} /\ (stage' = "cleanup" => k < at') /\ ~(k < 1)
  BY DEF TypeInv, ScriptInv, PlaceInv, Passed, Waits
<1>2. Raises => Moves \/ (stage' = "cleanup" /\ at' = 1)
  BY DEF Raises
<1>0. stage' = "cleanup" => at' # 1
  BY <1>1
<1>3. Raises => Moves
  BY <1>0, <1>2
<1>4. CASE Moves
  <2>1. CASE stage = "cleanup"
    <3>1. Script["cleanup"][case] = Cleanup /\ Len(Cleanup) = 9
      BY <1>1, Scripts, CleanupScript
    <3>2. at \in 1..9 /\ (at < 9 => at' = at + 1 /\ stage' = "cleanup")
      BY <1>1, <1>4, <2>1, <3>1 DEF Moves
    <3>3. k \in {2, 5, 8}
      BY DEF Waits
    <3>4. k < at \/ k = at
      BY <1>1, <3>2, <3>3
    <3>5. CASE k = at
      <4>1. Step = Cleanup[k]
        BY <2>1, <3>1, <3>5 DEF Step
      <4>2. Cleanup[k] = S("wait", CleanedBy(k), "none")
        BY <3>3, CleanupScript
      <4>3. QED
        BY <2>1, <4>1, <4>2 DEF S
    <3>6. QED
      BY <2>1, <3>4, <3>5 DEF Passed
  <2>2. CASE stage \in {"record", "done"}
    BY <2>2 DEF Passed
  <2>3. CASE stage \in {"prefix", "failure", "terminal"}
    <3>1. stage' = stage \/ (at' = 1 /\ stage' \in {"failure", "terminal", "cleanup"})
      BY <1>4, <2>3 DEF Moves, NextStage
    <3>2. QED
      BY <1>0, <1>1, <2>3, <3>1
  <2>4. QED
    BY <1>1, <2>1, <2>2, <2>3 DEF Stages
<1>5. CASE UNCHANGED <<stage, at>>
  BY <1>5 DEF Passed
<1>6. CASE stage = "failure" /\ UNCHANGED stage
  BY <1>1, <1>6
<1>7. QED
  BY <1>3, <1>4, <1>5, <1>6 DEF Passes

LEMMA NotYetPassed ==
  ASSUME TypeInv, StepOK, Passes, case' = case, NEW k \in Waits, Working
  PROVE  ~Passed(k)'
<1>1. ~Passed(k) /\ stage # "cleanup"
  BY DEF Working, Passed
<1>2. QED
  BY <1>1, PassedOn

\* A process only gets older.
Ages ==
  \A m \in Labels : \/ proc'[m].life \in {proc[m].life, "exited", "reaped"}
                    \/ proc[m].life \in {"running", "exiting"} /\ proc'[m].life = "exiting"

LEMMA SweptStays ==
  ASSUME CleanInv, Ages, birth' = birth, NEW l \in Labels, signal'[l] \in {signal[l], "KILL"}, Swept(l)
  PROVE  Swept(l)'
<1>1. proc[l].life \in {"running", "exiting"} => l \in birth
  BY DEF CleanInv
<1>2. \/ proc'[l].life \in {proc[l].life, "exited", "reaped"}
      \/ proc[l].life \in {"running", "exiting"} /\ proc'[l].life = "exiting"
  BY DEF Ages
<1>3. QED
  BY <1>1, <1>2 DEF Swept

LEMMA CleanedLabel == \A k \in Waits : CleanedBy(k) \in Labels
  BY LabelsOf DEF CleanedBy

LEMMA AgesClean ==
  ASSUME CleanInv, Ages, birth' = birth, \A l \in Labels : signal'[l] \in {signal[l], "KILL"},
         \A k \in Waits : Passed(k)' => Passed(k) \/ Swept(CleanedBy(k))
  PROVE  CleanInv'
<1>1. ASSUME NEW l \in Labels, proc'[l].life \in {"running", "exiting"} PROVE l \in birth'
  BY <1>1 DEF CleanInv, Ages
<1>2. ASSUME NEW k \in Waits, Passed(k)' PROVE Swept(CleanedBy(k))'
  <2>1. CleanedBy(k) \in Labels /\ Swept(CleanedBy(k))
    BY <1>2, CleanedLabel DEF CleanInv
  <2>2. QED
    BY <2>1, SweptStays
<1>3. QED
  BY <1>1, <1>2 DEF CleanInv

\* While the parent works nothing has been waited for.
LEMMA WorkingClean ==
  ASSUME TypeInv, StepOK, Passes, case' = case, Working,
         \A l \in Labels : proc'[l].life \in {"running", "exiting"} => l \in birth'
  PROVE  CleanInv'
  BY NotYetPassed DEF CleanInv

LEMMA PolledAges == ASSUME ProcessTypes, NEW l \in Labels, Polled(l) PROVE Ages
<1>1. CASE proc' = proc
  BY <1>1 DEF Ages
<1>2. CASE proc' = [proc EXCEPT ![l].life = "reaped"]
  <2>1. PICK p \in Processes : p = proc[l]
    BY DEF ProcessTypes
  <2>2. proc'[l] = [p EXCEPT !.life = "reaped"] /\ \A m \in Labels : m # l => proc'[m] = proc[m]
    BY <1>2, <2>1 DEF ProcessTypes
  <2>3. \A r : r = [p EXCEPT !.life = "reaped"] => r.life = "reaped"
    BY DEF Processes
  <2>4. QED
    BY <2>2, <2>3 DEF Ages
<1>3. QED
  BY <1>1, <1>2 DEF Polled

LEMMA LifeAges ==
  ASSUME ProcessTypes, NEW l \in Labels, NEW x, proc' = [proc EXCEPT ![l].life = x]
  PROVE  proc'[l].life = x /\ \A m \in Labels : m # l => proc'[m] = proc[m]
<1>1. PICK p \in Processes : p = proc[l]
  BY DEF ProcessTypes
<1>2. proc'[l] = [p EXCEPT !.life = x] /\ \A m \in Labels : m # l => proc'[m] = proc[m]
  BY <1>1 DEF ProcessTypes
<1>3. \A r : r = [p EXCEPT !.life = x] => r.life = x
  BY DEF Processes
<1>4. QED
  BY <1>2, <1>3

\* However a step of the parent ends.
LEMMA ParentPasses ==
  ASSUME TypeInv, StepOK, AwaitInv, StartupInv, Parent PROVE Passes /\ case' = case
<1>1. CASE QuietSteps
  <2>1. case' = case
    BY <1>1, QuietDeed
  <2>2. Raises \/ Moves \/ UNCHANGED <<stage, at>> \/ RaisesCode("exited")
    BY <1>1 DEF QuietSteps, SampleStartup, Snapshot, Exited, Sample, NotExited, Hitch, Close, Terminate,
                Kill, Alive, Conclude, Record, Skip, Spawn, Resume, Proceeds
  <2>3. QED
    BY <2>1, <2>2 DEF RaisesCode, Passes, Catches
<1>2. CASE Judges
  BY <1>2 DEF Judges, Classify, Claim, Census, Proceeds, RaisesCode, Passes, Catches, processVars
<1>3. CASE CanonicalCall
  BY <1>3 DEF CanonicalCall, Proceeds, Passes, processVars
<1>4. CASE Exchanges
  <2>1. PICK l, c : Begins(l, c) \/ Writes(l, c) \/ Listens(l, c) \/ TakesAnswer(l, c) \/ Loses(l, c)
    BY <1>4, ExchangeDeeds
  <2>2. case' = case
    BY <2>1 DEF Begins, Writes, Listens, TakesAnswer, Loses, Ties
  <2>3. Undecided \/ Raises \/ Proceeds(disposition) \/ RaisesCode(Object(l).code)
    BY <2>1 DEF Begins, Writes, Listens, TakesAnswer, Loses
  <2>4. QED
    BY <2>2, <2>3 DEF Undecided, Proceeds, RaisesCode, Passes, Catches
<1>5. QED
  BY <1>1, <1>2, <1>3, <1>4 DEF Parent, QuietSteps, Judges, Exchanges

\* Who is still to be resumed is known.
LEMMA ResumesKnown ==
  ASSUME TypeInv, StepOK, Resume PROVE Working /\ Step.on \in birth
<1>1. Does("resume") /\ Step.do = "resume"
  BY DEF Resume, Does
<1>2. Working
  BY <1>1 DEF StepOK, TypeInv, ScriptInv, PlaceInv, Stages, Working
<1>3. PICK v \in Views : Fits(v) /\ Allowed(case, stage, v, Step)
  BY <1>1, <1>2, Foreseen DEF TypeInv, Does
<1>4. v.new = Step.on
  BY <1>1, <1>3 DEF Allowed
<1>5. Step.on \in Labels /\ "none" \notin Labels
  BY CaseAssumption DEF StepOK
<1>6. QED
  BY <1>2, <1>3, <1>4, <1>5 DEF Fits

LEMMA ParentClean ==
  ASSUME TypeInv, StepOK, AwaitInv, ExchangeInv, CleanInv, Parent PROVE CleanInv'
<1>1. Passes /\ case' = case
  BY ParentPasses, Greeted
<1>2. ProcessTypes /\ Step.on \in Labels
  BY DEF TypeInv, StepOK
<1>3. CASE Spawn \/ Resume
  <2>1. Working
    <3>1. Step.do \in {"spawn", "resume"}
      BY <1>3 DEF Spawn, Resume, Does
    <3>2. QED
      BY <3>1 DEF StepOK, TypeInv, ScriptInv, PlaceInv, Stages, Working
  <2>2. \A l \in Labels : proc'[l].life \in {"running", "exiting"} => l \in birth'
    <3>1. CASE Spawn
      <4>1. proc'[Step.on].life = "suspended" /\ \A m \in Labels : m # Step.on => proc'[m] = proc[m]
        BY <1>2, <3>1, LifeAges DEF Spawn
      <4>2. birth \subseteq birth'
        BY <3>1 DEF Spawn
      <4>3. QED
        BY <4>1, <4>2 DEF CleanInv
    <3>2. CASE Resume
      <4>1. proc'[Step.on].life = "running" /\ \A m \in Labels : m # Step.on => proc'[m] = proc[m]
        BY <1>2, <3>2, LifeAges DEF Resume
      <4>2. birth' = birth /\ Step.on \in birth
        BY <3>2, ResumesKnown DEF Resume, parentVars
      <4>3. QED
        BY <4>1, <4>2 DEF CleanInv
    <3>3. QED
      BY <1>3, <3>1, <3>2
  <2>3. QED
    BY <1>1, <2>1, <2>2, WorkingClean
<1>4. CASE Terminate
  <2>1. Ages /\ birth' = birth
    BY <1>2, <1>4, PolledAges DEF Terminate
  <2>2. Working
    <3>1. Step.do = "terminate"
      BY <1>4 DEF Terminate, Does
    <3>2. QED
      BY <3>1 DEF StepOK, TypeInv, ScriptInv, PlaceInv, Stages, Working
  <2>3. \A l \in Labels : proc'[l].life \in {"running", "exiting"} => l \in birth'
    BY <2>1 DEF CleanInv, Ages
  <2>4. QED
    BY <1>1, <2>2, <2>3, WorkingClean
<1>5. CASE Exited
  <2>1. Ages /\ birth' = birth /\ signal' = signal
    BY <1>2, <1>5, PolledAges DEF Exited, parentVars
  <2>2. Swept(Step.on)
    BY <1>5 DEF Exited, Swept, Dead
  <2>3. QED
    BY <1>1, <2>1, <2>2, PassedOn, AgesClean
<1>6. CASE NotExited
  <2>1. Ages /\ birth' = birth /\ signal' = signal
    BY <1>6 DEF NotExited, parentVars, processVars, Ages
  <2>2. Swept(Step.on)
    BY <1>6 DEF NotExited, Swept
  <2>3. QED
    BY <1>1, <2>1, <2>2, PassedOn, AgesClean
<1>7. CASE Kill
  <2>1. Ages /\ birth' = birth
    BY <1>7 DEF Kill, processVars, Ages
  <2>2. CASE Step.on \in birth
    <3>1. signal' = [signal EXCEPT ![Step.on] = "KILL"] /\ UNCHANGED <<stage, at>>
      BY <1>7, <2>2 DEF Kill, Signals
    <3>2. \A l \in Labels : signal'[l] \in {signal[l], "KILL"}
      BY <3>1 DEF TypeInv, ParentTypes
    <3>3. \A k \in Waits : Passed(k)' => Passed(k)
      BY <3>1 DEF Passed
    <3>4. QED
      BY <2>1, <3>2, <3>3, AgesClean
  <2>3. CASE Step.on \notin birth
    <3>1. signal' = signal
      BY <1>7, <2>3 DEF Kill
    <3>2. Swept(Step.on)
      <4>1. proc[Step.on].life \notin {"absent", "exited", "reaped"}
        BY <1>7 DEF Kill, Dead
      <4>2. proc[Step.on].life \in {"absent", "suspended", "running", "exiting", "exited", "reaped"}
        BY <1>2 DEF ProcessTypes, Processes
      <4>3. proc[Step.on].life \notin {"running", "exiting"}
        BY <1>2, <2>3 DEF CleanInv
      <4>4. QED
        BY <2>3, <4>1, <4>2, <4>3 DEF Swept
    <3>3. QED
      BY <1>1, <2>1, <3>1, <3>2, PassedOn, AgesClean
  <2>4. QED
    BY <2>2, <2>3
<1>8. CASE \/ SampleStartup \/ Snapshot \/ Sample \/ Hitch \/ Close \/ Alive \/ Conclude \/ Record \/ Skip
           \/ Judges \/ CanonicalCall \/ Exchanges
  <2>1. Ages
    <3>1. CASE SampleStartup \/ Snapshot \/ Sample \/ Skip
      BY <1>2, <3>1, PolledAges DEF SampleStartup, Snapshot, Sample, Skip
    <3>2. CASE Hitch \/ Close \/ Alive \/ Conclude \/ Record
      BY <3>2 DEF Hitch, Close, Alive, Conclude, Record, processVars, Ages
    <3>3. CASE Judges \/ CanonicalCall
      BY <3>3, JudgedBacks DEF processVars, Ages
    <3>4. CASE Exchanges
      <4>1. PICK l, c : Begins(l, c) \/ Writes(l, c) \/ Listens(l, c) \/ TakesAnswer(l, c) \/ Loses(l, c)
        BY <3>4, ExchangeDeeds, Greeted
      <4>2. proc' = proc
        BY <4>1 DEF Begins, Writes, Listens, TakesAnswer, Loses, Ties
      <4>3. QED
        BY <4>2 DEF Ages
    <3>5. QED
      BY <1>8, <3>1, <3>2, <3>3, <3>4
  <2>2. birth' = birth /\ signal' = signal
    BY <1>8 DEF SampleStartup, Snapshot, Sample, Hitch, Close, Alive, Conclude, Record, Skip, parentVars,
       Judges, Classify, Claim, Census, CanonicalCall, Exchanges, Request, Hear, Response_, NoResponse, ReadStartup
  <2>3. ~(stage = "cleanup" /\ Step.do = "wait")
    <3>1. CASE Hitch
      BY <3>1 DEF Hitch
    <3>2. CASE Exchanges
      <4>1. Step.do \in Waiting
        <5>1. PICK l, c : Begins(l, c) \/ Writes(l, c) \/ Listens(l, c) \/ TakesAnswer(l, c) \/ Loses(l, c)
          BY <3>2, ExchangeDeeds, Greeted
        <5>2. CASE Listens(l, c)
          <6>1. conn[l].asked # "none" /\ l \in Labels
            BY <5>2 DEF Listens, Ties
          <6>2. QED
            BY <6>1 DEF AwaitInv, Awaits, Does, Waiting
        <5>3. CASE Begins(l, c) \/ Writes(l, c) \/ TakesAnswer(l, c) \/ Loses(l, c)
          BY <5>3 DEF Begins, Writes, TakesAnswer, Loses, Does, Waiting
        <5>4. QED
          BY <5>1, <5>2, <5>3
      <4>2. QED
        BY <4>1 DEF Waiting
    <3>3. CASE \/ SampleStartup \/ Snapshot \/ Sample \/ Close \/ Alive \/ Conclude \/ Record \/ Skip
               \/ Judges \/ CanonicalCall
      BY <3>3 DEF SampleStartup, Snapshot, Sample, Close, Alive, Conclude, Record, Skip,
         Judges, Classify, Claim, Census, CanonicalCall, Does
    <3>4. QED
      BY <1>8, <3>1, <3>2, <3>3
  <2>4. QED
    BY <1>1, <2>1, <2>2, <2>3, PassedOn, AgesClean
<1>9. QED
  BY <1>3, <1>4, <1>5, <1>6, <1>7, <1>8 DEF Parent, Judges, Exchanges

LEMMA AloneClean ==
  ASSUME TypeInv, CleanInv, NEW l \in Labels, Alone(l) PROVE CleanInv'
<1>0. ProcessTypes /\ proc[l] \in Processes
  BY DEF TypeInv, ProcessTypes
<1>1. UNCHANGED <<stage, at, birth, signal>>
  BY AloneConn
<1>2. Ages
  <2>1. ASSUME NEW q, proc' = [proc EXCEPT ![l] = q], proc[l].life \in {"running", "exiting"},
               q.life \in {proc[l].life, "exiting", "exited"}
        PROVE  Ages
    BY <1>0, <2>1 DEF Ages, ProcessTypes
  <2>2. ASSUME Exits(l, "exited") PROVE Ages
    BY <1>0, <2>2, LifeAges DEF Exits, Ages
  <2>3. ASSUME Boot(l) PROVE Ages
    <3>1. PICK p \in Processes : p = proc[l]
      BY <1>0
    <3>2. proc'[l] = [p EXCEPT !.started = TRUE] /\ \A m \in Labels : m # l => proc'[m] = proc[m]
      BY <1>0, <2>3, <3>1 DEF ProcessTypes, Boot
    <3>3. \A r : r = [p EXCEPT !.started = TRUE] => r.life = p.life
      BY DEF Processes
    <3>4. QED
      BY <3>1, <3>2, <3>3 DEF Ages
  <2>4. ASSUME DrainFails(l) PROVE Ages
    BY <2>4 DEF DrainFails, processVars, Ages
  <2>5. ASSUME NEW q, NEW t, Replies(l, q, t) \/ Completes(l, q, t) PROVE Ages
    <3>1. /\ proc' = [proc EXCEPT ![l] = q] /\ proc[l].life \in {"running", "exiting"}
          /\ q.life \in {proc[l].life, "exiting", "exited"}
      BY <2>5 DEF Replies, Completes, Reads, Ticking, Answer
    <3>2. QED
      BY <2>1, <3>1
  <2>6. ASSUME NEW q, Replaces(l, q) PROVE Ages
    <3>1. /\ proc' = [proc EXCEPT ![l] = q] /\ proc[l].life \in {"running", "exiting"}
          /\ q.life \in {proc[l].life, "exiting", "exited"}
      BY <2>6 DEF Replaces, Reads, Ticking, Answer
    <3>2. QED
      BY <2>1, <3>1
  <2>7. CASE Process(l)
    <3>1. Tick(l) \/ SpawnFailure(l)
      BY <2>7 DEF Process
    <3>2. QED
      BY <1>0, <3>1, <2>2, <2>3, <2>5, <2>6, ProcessDeeds
  <2>8. CASE Dies(l) \/ CrashMishap(l)
    BY <2>2, <2>8 DEF Dies, CrashMishap, Crash
  <2>9. QED
    BY <2>4, <2>7, <2>8 DEF Alone
<1>3. \A k \in Waits : Passed(k)' => Passed(k)
  BY <1>1 DEF Passed
<1>4. QED
  BY <1>1, <1>2, <1>3, AgesClean

LEMMA CleanInit == Init => CleanInv
<1> SUFFICES ASSUME Init PROVE CleanInv
  OBVIOUS
<1>1. ASSUME NEW l \in Labels PROVE proc[l] = AbsentProcess
  BY DEF Init, ProcessInit
<1>2. AbsentProcess.life = "absent" /\ stage = "prefix"
  BY DEF Init, AbsentProcess
<1>3. QED
  BY <1>1, <1>2 DEF CleanInv, Passed

LEMMA CleanNext == CohortInv /\ CleanInv /\ [Next]_vars => CleanInv'
<1> SUFFICES ASSUME TypeInv, AwaitInv, ExchangeInv, CleanInv, [Next]_vars PROVE CleanInv'
  BY DEF CohortInv
<1>1. StepOK
  BY StepShape DEF TypeInv
<1>2. CASE UNCHANGED vars
  <2>1. UNCHANGED <<proc, birth, signal, stage, at>>
    BY <1>2 DEF vars, processVars, parentVars
  <2>2. Ages /\ \A k \in Waits : Passed(k)' => Passed(k)
    BY <2>1 DEF Ages, Passed
  <2>3. QED
    BY <2>1, <2>2, AgesClean
<1>3. QED
  BY <1>1, <1>2, ParentClean, AloneClean DEF Next, Finished, Alone

LEMMA AllSwept ==
  ASSUME CleanInv, stage \in {"record", "done"}, NEW l \in Labels
  PROVE  Swept(l)
<1>1. CleanedBy(2) = "domain_A" /\ CleanedBy(5) = "domain_B" /\ CleanedBy(8) = "replacement"
  BY DEF CleanedBy
<1>2. PICK k \in Waits : l = CleanedBy(k)
  BY <1>1, CaseAssumption DEF Waits
<1>3. QED
  BY <1>2 DEF CleanInv, Passed

\* Whoever dies, and wherever a step raises: when the record is due, every child that could be
\* identified is dead or has been sent the signal it cannot ignore, and any other was never
\* resumed (cleanup, terminate_original, send_signal).
THEOREM NoneSurvives == Spec => []IdentifiedAreKilled
<1>1. ASSUME CleanInv PROVE IdentifiedAreKilled
  <2>1. ASSUME stage \in {"record", "done"}, NEW l \in Labels
        PROVE  \/ proc[l].life \in {"absent", "exited", "reaped"} \/ signal[l] = "KILL"
               \/ l \notin birth /\ proc[l].life = "suspended"
    BY <1>1, <2>1, AllSwept DEF Swept
  <2>2. QED
    BY <2>1, Zenon DEF IdentifiedAreKilled
<1>2. CleanInv => IdentifiedAreKilled
  BY <1>1
<1>3. QED
  BY <1>2, CohortInit, CohortNext, CleanInit, CleanNext, PTL DEF Spec

-----------------------------------------------------------------------------
(* Worlds, records and claims *)

Among(s) == {s[i] : i \in DOMAIN s}

LEMMA AmongTail ==
  ASSUME NEW s \in Seq(Objects), s # <<>>
  PROVE  Head(s) \in Among(s) /\ \A o : o \in Among(s) <=> o = Head(s) \/ o \in Among(Tail(s))
<1>1. /\ \A i \in DOMAIN Tail(s) : i + 1 \in DOMAIN s /\ Tail(s)[i] = s[i + 1]
      /\ \A j \in DOMAIN s : j # 1 => j - 1 \in DOMAIN Tail(s) /\ Tail(s)[j - 1] = s[j]
      /\ 1 \in DOMAIN s /\ Head(s) = s[1]
  BY TailFrom
<1> DEFINE t == Tail(s)
<1>2. \A i \in DOMAIN t : \E j \in DOMAIN s : t[i] = s[j]
  BY <1>1
<1>3. \A j \in DOMAIN s : s[j] = Head(s) \/ \E i \in DOMAIN t : s[j] = t[i]
  BY <1>1
<1>4. \E j \in DOMAIN s : Head(s) = s[j]
  BY <1>1
<1> HIDE DEF t
<1>5. Head(s) \in Among(s) /\ \A o : o \in Among(s) <=> o = Head(s) \/ o \in Among(t)
  BY <1>2, <1>3, <1>4 DEF Among
<1>6. QED
  BY <1>5 DEF t

LEMMA AmongJoin ==
  ASSUME NEW s \in Seq(Objects), NEW t \in Seq(Objects)
  PROVE  \A o : o \in Among(s \o t) <=> o \in Among(s) \/ o \in Among(t)
<1>1. /\ \A i \in DOMAIN (s \o t) :
           \/ i \in DOMAIN s /\ (s \o t)[i] = s[i]
           \/ i - Len(s) \in DOMAIN t /\ i - Len(s) >= 1 /\ (s \o t)[i] = t[i - Len(s)]
      /\ \A i \in DOMAIN s : i \in DOMAIN (s \o t) /\ (s \o t)[i] = s[i]
      /\ \A i \in DOMAIN t : i + Len(s) \in DOMAIN (s \o t) /\ (s \o t)[i + Len(s)] = t[i]
  BY ConcatFrom
<1> DEFINE r == s \o t
<1>2. \A i \in DOMAIN r : (\E j \in DOMAIN s : r[i] = s[j]) \/ (\E j \in DOMAIN t : r[i] = t[j])
  BY <1>1
<1>3. \A j \in DOMAIN s : \E i \in DOMAIN r : r[i] = s[j]
  BY <1>1
<1>4. \A j \in DOMAIN t : \E i \in DOMAIN r : r[i] = t[j]
  BY <1>1
<1> HIDE DEF r
<1>5. \A o : o \in Among(r) <=> o \in Among(s) \/ o \in Among(t)
  BY <1>2, <1>3, <1>4 DEF Among
<1>6. QED
  BY <1>5 DEF r

LEMMA AmongGreeted ==
  ASSUME NEW s \in Seq(Objects)
  PROVE  \A o : o \in Among(Append(s, Greeting)) <=> o \in Among(s) \/ o = Greeting
<1> DEFINE r == Append(s, Greeting)
<1>1. /\ \A i \in DOMAIN r : (i \in DOMAIN s /\ r[i] = s[i]) \/ r[i] = Greeting
      /\ \A i \in DOMAIN s : i \in DOMAIN r /\ r[i] = s[i]
      /\ Len(s) + 1 \in DOMAIN r /\ r[Len(s) + 1] = Greeting
  OBVIOUS
<1> HIDE DEF r
<1>2. \A o : o \in Among(r) <=> o \in Among(s) \/ o = Greeting
  BY <1>1 DEF Among
<1>3. QED
  BY <1>2 DEF r

LEMMA AmongNone == \A o : o \notin Among(<<>>)
  BY DEF Among

\* What a world shows is what its process was given last, a pair is replaced for a published
\* successor only, and an emission is that of the record the process still shows.
WorldOK(l) ==
  /\ \A r \in {"R0", "R1"} : proc[l].world = Pair(r) => proc[l].generation = r
  /\ proc[l].pending # NoLine => proc[l].generation = "R0" /\ proc[l].world = Empty /\ head = "R1"
  /\ \A line \in Among(control[l]) : line.record = "R1" => head = "R1"
  /\ proc[l].emitted => proc[l].generation # "none" /\ (head = "R0" => proc[l].world = Pair("R0"))

\* What is said, and not yet read, is so.
Says(l, o) ==
  /\ o.seen = Pair("R1") => proc[l].world = Pair("R1")
  /\ o.kind = "response" /\ o.code = "ok" =>
       /\ o.op = "materialize_0001" /\ head = "R0" => proc[l].world = Pair("R0")
       /\ o.op = "materialize_0002" => head = "R1"
       /\ o.op = "emit_0001" => proc[l].emitted
SaidOK(l) == \A o \in Among(output[l]) : Says(l, o)

\* What the parent has retained of a domain.
Receipt(o) == o.kind = "response" /\ o.op = "materialize_0001"
RecordOK(d) ==
  /\ represented[d] = "R1" => head = "R1" /\ "materialize_0002" \in conn[d].ops
  /\ represented[d] # "none" => "materialize_0001" \in conn[d].ops
  /\ represented[d] = "R0" /\ head = "R0" => proc[d].world = Pair("R0")
  /\ observed[d] = Pair("R1") => proc[d].world = Pair("R1")
  /\ d \in captures => proc[d].emitted /\ represented[d] # "none"
  /\ Working /\ proc[d].generation # "none" =>
       represented[d] # "none" \/ \E o \in Among(output[d]) : Receipt(o)

\* What the parent says of a domain.
Effective(line) == line.op = "materialize_0001" \/ (line.op = "materialize_0002" /\ line.record = "R1")
ClaimOK(d) ==
  /\ disposition[d] = "current" =>
       /\ represented[d] = head /\ proc[d].world = Pair(head) /\ proc[d].pending = NoLine
       /\ \A line \in Among(control[d]) : ~Effective(line)
  /\ disposition[d] = "stale" => head = "R1"

\* The calls made.
CallInv ==
  /\ \A i \in 1 .. calls : CallSequence(case)[i] \in Domains => CallSequence(case)[i] \in captures
  /\ calls >= 4 /\ case \notin CanonicalFaults => head = "R1"
  /\ head = "R1" => calls >= 4 /\ captures = Domains

WorldInv == \A l \in Labels : WorldOK(l)
SaidInv == \A l \in Labels : SaidOK(l)
RecordInv == \A d \in Domains : RecordOK(d)
ClaimInv == \A d \in Domains : ClaimOK(d)
EvidenceInv == WorldInv /\ SaidInv /\ RecordInv /\ ClaimInv /\ CallInv

\* The head only moves on.
Onward == head' \in {head, "R1"}

LEMMA WorldFrame ==
  ASSUME NEW l, WorldOK(l), Held(l), Onward,
         \A line \in Among(control'[l]) : line \in Among(control[l]) \/ (line.record = "R1" => head' = "R1")
  PROVE  WorldOK(l)'
  BY DEF WorldOK, Held, Onward

LEMMA SaidFrame ==
  ASSUME NEW l, SaidOK(l), Held(l), Onward,
         \A o \in Among(output'[l]) : o \in Among(output[l]) \/ (o.kind # "response" /\ o.seen # Pair("R1"))
  PROVE  SaidOK(l)'
<1>1. ASSUME NEW o \in Among(output'[l]) PROVE Says(l, o)'
  BY <1>1 DEF SaidOK, Says, Held, Onward
<1>2. QED
  BY <1>1 DEF SaidOK

LEMMA RecordFrame ==
  ASSUME NEW d, RecordOK(d), Held(d), Onward, conn[d].ops \subseteq conn'[d].ops,
         represented'[d] = represented[d], observed'[d] = observed[d], d \in captures' => d \in captures,
         Working' => Working,
         Working' => \A o \in Among(output[d]) : Receipt(o) => o \in Among(output'[d])
  PROVE  RecordOK(d)'
<1>1. Working' /\ (\E o \in Among(output[d]) : Receipt(o)) => \E o \in Among(output'[d]) : Receipt(o)
  OBVIOUS
<1>2. /\ proc'[d].world = proc[d].world /\ proc'[d].generation = proc[d].generation
      /\ (proc'[d].emitted <=> proc[d].emitted)
  BY DEF Held
<1>3. QED
  BY <1>1, <1>2 DEF RecordOK, Onward

LEMMA ClaimFrame ==
  ASSUME NEW d, ClaimOK(d), Held(d), head' = head, represented'[d] = represented[d],
         disposition'[d] \in {disposition[d], "unclaimed"},
         \A line \in Among(control'[d]) : line \in Among(control[d]) \/ ~Effective(line)
  PROVE  ClaimOK(d)'
  BY DEF ClaimOK, Held

LEMMA StillEvidence ==
  ASSUME EvidenceInv, Still, Kept, Backs, \A m \in Labels : conn'[m].ops = conn[m].ops
  PROVE  EvidenceInv'
<1>1. /\ UNCHANGED <<head, calls, captures, represented, observed, case, control, output>>
      /\ \A l \in Labels : Held(l)
      /\ (Working' => Working) /\ disposition' \in {disposition, Unclaimed}
  BY DEF Still, Kept, canonicalVars, claimVars, Backs
<1>2. ASSUME NEW l \in Labels PROVE WorldOK(l)' /\ SaidOK(l)'
  BY <1>1, WorldFrame, SaidFrame DEF EvidenceInv, WorldInv, SaidInv, Onward
<1>3. ASSUME NEW d \in Domains PROVE RecordOK(d)' /\ ClaimOK(d)'
  <2>1. d \in Labels /\ RecordOK(d) /\ ClaimOK(d) /\ Held(d) /\ conn[d].ops \subseteq conn'[d].ops
    BY <1>1, DomainLabels DEF EvidenceInv, RecordInv, ClaimInv
  <2>2. RecordOK(d)'
    BY <1>1, <2>1, RecordFrame DEF Onward
  <2>3. disposition'[d] \in {disposition[d], "unclaimed"}
    BY <1>1 DEF Unclaimed
  <2>4. ClaimOK(d)'
    BY <1>1, <2>1, <2>3, ClaimFrame
  <2>5. QED
    BY <2>2, <2>4
<1>4. CallInv'
  <2>1. CallSequence(case)' = CallSequence(case)
    BY <1>1 DEF CallSequence, Presentation
  <2>2. QED
    BY <1>1, <2>1 DEF EvidenceInv, CallInv
<1>5. QED
  BY <1>2, <1>3, <1>4 DEF EvidenceInv, WorldInv, SaidInv, RecordInv, ClaimInv

\* A claim that is made is true.
LEMMA ClassifiedTruly ==
  ASSUME CohortInv, StepOK, EvidenceInv, Does("classify"), NEW d, d = Step.on,
         WorldCode(observed[d], represented[d]) = "ok"
  PROVE  IF represented[d] = head
         THEN proc[d].world = Pair(head) /\ proc[d].pending = NoLine /\ control[d] = <<>>
         ELSE head = "R1"
<1>1. d \in Domains /\ d \in Labels /\ RecordOK(d) /\ Orderly(d) /\ Step.do = "classify"
  BY DomainLabels DEF StepOK, Does, EvidenceInv, RecordInv, CohortInv, ExchangeInv
<1>2. head \in {"R0", "R1"} /\ represented[d] \in {"none", "R0", "R1"}
  BY <1>1 DEF CohortInv, TypeInv, CanonicalTypes
<1>3. observed[d] = Pair(represented[d]) /\ represented[d] # "none"
  <2>1. observed[d].anchor # "none" /\ observed[d] = Pair(represented[d])
    BY DEF WorldCode
  <2>2. Pair(represented[d]).anchor = represented[d]
    BY DEF Pair
  <2>3. QED
    BY <2>1, <2>2
<1>4. represented[d] # head => head = "R1"
  BY <1>1, <1>2, <1>3 DEF RecordOK
<1>5. represented[d] = head => proc[d].world = Pair(head)
  BY <1>1, <1>2, <1>3 DEF RecordOK
<1>6. Settled(d)
  <2>1. Working
    BY <1>1 DEF StepOK, CohortInv, TypeInv, ScriptInv, PlaceInv, Stages, Working
  <2>2. NoneAwaited
    BY <1>1, Idle DEF CohortInv, Waiting
  <2>3. conn[d].asked = "none" /\ ~conn[d].failed
    BY <1>1, <2>1, <2>2 DEF NoneAwaited, CohortInv, AwaitInv
  <2>4. QED
    BY <1>1, <2>3 DEF Orderly, Free
<1>7. QED
  BY <1>4, <1>5, <1>6 DEF Settled

LEMMA SupersededTruly ==
  ASSUME CohortInv, StepOK, EvidenceInv, Does("supersede") PROVE head = "R1"
<1>1. Step.do = "supersede"
  BY DEF Does
<1>2. Working
  BY <1>1 DEF StepOK, CohortInv, TypeInv, ScriptInv, PlaceInv, Stages, Working
<1>3. PICK v \in Views : Fits(v) /\ Allowed(case, stage, v, Step)
  BY <1>1, <1>2, Foreseen DEF CohortInv, TypeInv, Does
<1>4. v.n >= 4 /\ case \notin CanonicalFaults /\ v.n = calls
  BY <1>1, <1>3 DEF Allowed, Fits
<1>5. QED
  BY <1>4 DEF EvidenceInv, CallInv

LEMMA JudgedEvidence ==
  ASSUME CohortInv, StepOK, EvidenceInv, Judges PROVE EvidenceInv'
<1> DEFINE d == Step.on
<1>0. TypeInv
  BY DEF CohortInv
<1>1. /\ UNCHANGED <<processVars, conn, head, calls, captures, represented, observed>>
      /\ (Working' => Working) /\ case' = case
  BY <1>0, JudgedBacks DEF Judges, Classify, Claim, Census, canonicalVars, claimVars, processVars
<1>2. UNCHANGED <<proc, control, output>> /\ Onward
  BY <1>1 DEF processVars, Onward
<1>3. \A l \in Labels : Held(l)
  BY <1>2 DEF Held
<1>4. ASSUME NEW l \in Labels PROVE WorldOK(l)' /\ SaidOK(l)'
  BY <1>1, <1>2, <1>3, WorldFrame, SaidFrame DEF EvidenceInv, WorldInv, SaidInv
<1>5. ASSUME NEW m \in Domains PROVE RecordOK(m)'
  <2>1. m \in Labels /\ RecordOK(m) /\ Held(m) /\ conn[m].ops \subseteq conn'[m].ops
    BY <1>1, <1>3, DomainLabels DEF EvidenceInv, RecordInv
  <2>2. QED
    BY <1>1, <1>2, <2>1, RecordFrame
<1>6. CallInv'
  <2>1. CallSequence(case)' = CallSequence(case)
    BY <1>1 DEF CallSequence, Presentation
  <2>2. QED
    BY <1>1, <2>1 DEF EvidenceInv, CallInv
<1>7. \/ disposition' \in {disposition, Unclaimed}
      \/ \E x : /\ disposition' = [disposition EXCEPT ![d] = x]
                /\ \/ x \in {"unclaimed", "unavailable"}
                   \/ x = "stale" /\ head = "R1"
                   \/ /\ x = "current" /\ represented[d] = head /\ proc[d].world = Pair(head)
                      /\ proc[d].pending = NoLine /\ control[d] = <<>>
  <2>1. CASE Classify
    <3>1. CASE WorldCode(observed[d], represented[d]) # "ok"
      BY <2>1, <3>1 DEF Classify, RaisesCode, Raises
    <3>2. CASE WorldCode(observed[d], represented[d]) = "ok"
      <4>1. /\ Does("classify")
            /\ disposition' = [disposition EXCEPT ![d] = IF represented[d] = head THEN "current" ELSE "stale"]
        BY <2>1, <3>2 DEF Classify, Proceeds
      <4>2. IF represented[d] = head
            THEN proc[d].world = Pair(head) /\ proc[d].pending = NoLine /\ control[d] = <<>>
            ELSE head = "R1"
        BY <3>2, <4>1, ClassifiedTruly
      <4>3. QED
        BY <4>1, <4>2
    <3>3. QED
      BY <3>1, <3>2
  <2>2. CASE Claim
    <3>1. CASE Does("invalidate")
      BY <2>2, <3>1 DEF Claim, Proceeds
    <3>2. CASE ~Does("invalidate")
      <4>1. Does("supersede") /\ disposition' = [disposition EXCEPT ![d] = "stale"]
        BY <2>2, <3>2 DEF Claim, Proceeds
      <4>2. head = "R1"
        BY <4>1, SupersededTruly
      <4>3. QED
        BY <4>1, <4>2
    <3>3. QED
      BY <3>1, <3>2
  <2>3. CASE Census
    <3>1. CASE Raises
      BY <3>1 DEF Raises
    <3>2. CASE TerminalClaim(d) # "invalid" /\ Proceeds([disposition EXCEPT ![d] = TerminalClaim(d)])
      <4>1. TerminalClaim(d) \in {"unclaimed", "unavailable"} \/ (TerminalClaim(d) = "stale" /\ head = "R1")
        BY <3>2 DEF TerminalClaim
      <4>2. disposition' = [disposition EXCEPT ![d] = TerminalClaim(d)]
        BY <3>2 DEF Proceeds
      <4>3. QED
        BY <4>1, <4>2
    <3>3. QED
      BY <2>3, <3>1, <3>2 DEF Census
  <2>4. QED
    BY <2>1, <2>2, <2>3 DEF Judges
<1>8. ASSUME NEW m \in Domains PROVE ClaimOK(m)'
  <2>1. m \in Labels /\ ClaimOK(m) /\ Held(m)
    BY <1>3, DomainLabels DEF EvidenceInv, ClaimInv
  <2>2. CASE disposition'[m] \in {disposition[m], "unclaimed"}
    BY <1>1, <1>2, <2>1, <2>2, ClaimFrame
  <2>3. CASE disposition'[m] \notin {disposition[m], "unclaimed"}
    <3>1. disposition' \notin {disposition, Unclaimed}
      BY <2>3 DEF Unclaimed
    <3>2. PICK x : /\ disposition' = [disposition EXCEPT ![d] = x]
                   /\ \/ x \in {"unclaimed", "unavailable"}
                      \/ x = "stale" /\ head = "R1"
                      \/ /\ x = "current" /\ represented[d] = head /\ proc[d].world = Pair(head)
                         /\ proc[d].pending = NoLine /\ control[d] = <<>>
      BY <1>7, <3>1
    <3>3. m = d /\ disposition'[m] = x
      BY <1>0, <2>3, <3>2 DEF TypeInv, EndTypes
    <3>4. QED
      BY <1>1, <1>2, <3>2, <3>3, AmongNone DEF ClaimOK
  <2>4. QED
    BY <2>2, <2>3
<1>9. QED
  BY <1>4, <1>5, <1>6, <1>8 DEF EvidenceInv, WorldInv, SaidInv, RecordInv, ClaimInv

LEMMA CompletePlaces ==
  ASSUME NEW x, NEW y, NEW s, s = [i \in 1..2 |-> IF i = 1 THEN x ELSE y] \o <<"construct", "resolve">>
  PROVE  /\ Len(s) = 4 /\ s[1] = x /\ s[2] = y /\ s[3] = "construct" /\ s[4] = "resolve"
         /\ s \in Seq({x, y, "construct", "resolve"})
<1> DEFINE A == {x, y, "construct", "resolve"}
           p == [i \in 1..2 |-> IF i = 1 THEN x ELSE y]
           q == <<"construct", "resolve">>
<1>1. p \in Seq(A) /\ Len(p) = 2 /\ p[1] = x /\ p[2] = y
  OBVIOUS
<1>2. q \in Seq(A) /\ Len(q) = 2 /\ q[1] = "construct" /\ q[2] = "resolve"
  OBVIOUS
<1> HIDE DEF p, q, A
<1>3. /\ p \o q \in Seq(A) /\ Len(p \o q) = 4
      /\ (p \o q)[1] = p[1] /\ (p \o q)[2] = p[2] /\ (p \o q)[3] = q[1] /\ (p \o q)[4] = q[2]
  <2>1. /\ p \o q \in Seq(A) /\ Len(p \o q) = Len(p) + Len(q)
        /\ \A i \in 1 .. Len(p) + Len(q) : (p \o q)[i] = IF i <= Len(p) THEN p[i] ELSE q[i - Len(p)]
    BY <1>1, <1>2, ConcatProperties
  <2> DEFINE r == p \o q
  <2> HIDE DEF r
  <2>2. /\ Len(r) = 4 /\ r \in Seq(A)
        /\ \A i \in 1 .. 4 : r[i] = IF i <= 2 THEN p[i] ELSE q[i - 2]
    BY <1>1, <1>2, <2>1 DEF r
  <2>3. r[1] = p[1] /\ r[2] = p[2] /\ r[3] = q[1] /\ r[4] = q[2]
    BY <2>2
  <2>4. QED
    BY <2>2, <2>3 DEF r
<1>4. s = p \o q
  BY DEF p, q
<1>5. QED
  BY <1>1, <1>2, <1>3, <1>4 DEF A

\* The resolution is the fourth call, and the two presentations go before it.
LEMMA CallPlaces ==
  ASSUME NEW c
  PROVE  /\ Len(CallSequence(c)) \in Nat
         /\ \A i \in 1 .. Len(CallSequence(c)) : CallSequence(c)[i] = "resolve" => i = 4
         /\ Len(CallSequence(c)) >= 4 =>
              /\ CallSequence(c)[4] = "resolve"
              /\ \A d \in Domains : CallSequence(c)[1] = d \/ CallSequence(c)[2] = d
<1> DEFINE P == Presentation(c)
           s == [i \in 1..2 |-> P[i]] \o <<"construct", "resolve">>
<1>1. P \in {AB, BA}
  BY DEF Presentation
<1>2. /\ P[1] \in Domains /\ P[2] \in Domains /\ \A d \in Domains : P[1] = d \/ P[2] = d
  BY <1>1 DEF AB, BA, Domains
<1> HIDE DEF P
<1>3. [i \in 1..2 |-> P[i]] = [i \in 1..2 |-> IF i = 1 THEN P[1] ELSE P[2]]
  OBVIOUS
<1>4. /\ Len(s) = 4 /\ s[1] = P[1] /\ s[2] = P[2] /\ s[3] = "construct" /\ s[4] = "resolve"
      /\ s \in Seq({P[1], P[2], "construct", "resolve"})
  BY <1>3, CompletePlaces
<1>5. "resolve" \notin Domains /\ "construct" # "resolve" /\ "domain_A" # "resolve"
  BY DEF Domains
<1>6. \/ CallSequence(c) = s \/ CallSequence(c) = s \o <<"domain_A">> \/ CallSequence(c) = SubSeq(s, 1, 3)
      \/ CallSequence(c) = <<"domain_A", "construct">> \/ CallSequence(c) = <<"domain_A">>
      \/ CallSequence(c) = <<>>
  BY DEF CallSequence, P
<1> HIDE DEF s
<1>7. CASE CallSequence(c) = s
  <2> DEFINE r == CallSequence(c)
  <2>1. Len(r) = 4 /\ r[1] = P[1] /\ r[2] = P[2] /\ r[3] = "construct" /\ r[4] = "resolve"
    BY <1>4, <1>7
  <2> HIDE DEF r
  <2>2. \A i \in 1 .. 4 : i = 1 \/ i = 2 \/ i = 3 \/ i = 4
    OBVIOUS
  <2>3. \A i \in 1 .. 4 : r[i] = "resolve" => i = 4
    BY <1>2, <1>5, <2>1, <2>2
  <2>4. \A d \in Domains : r[1] = d \/ r[2] = d
    BY <1>2, <2>1
  <2>5. QED
    BY <2>1, <2>3, <2>4 DEF r
<1>8. CASE CallSequence(c) = s \o <<"domain_A">>
  <2>1. PICK A : s \in Seq(A) /\ "domain_A" \in A
    <3>1. s \in Seq({P[1], P[2], "construct", "resolve", "domain_A"})
      BY <1>4
    <3>2. QED
      BY <3>1
  <2>2. <<"domain_A">> \in Seq(A) /\ Len(<<"domain_A">>) = 1 /\ <<"domain_A">>[1] = "domain_A"
    BY <2>1
  <2> DEFINE q == <<"domain_A">>
             r == CallSequence(c)
  <2>3. Len(r) = 5 /\ \A i \in 1 .. 5 : r[i] = IF i <= 4 THEN s[i] ELSE q[i - 4]
    <3>1. /\ Len(s \o q) = Len(s) + Len(q)
          /\ \A i \in 1 .. Len(s) + Len(q) : (s \o q)[i] = IF i <= Len(s) THEN s[i] ELSE q[i - Len(s)]
      BY <2>1, <2>2, ConcatProperties
    <3>2. QED
      BY <1>4, <1>8, <2>2, <3>1
  <2> HIDE DEF q, r
  <2>4. q[1] = "domain_A"
    BY DEF q
  <2>5. r[1] = P[1] /\ r[2] = P[2] /\ r[3] = "construct" /\ r[4] = "resolve" /\ r[5] = "domain_A"
    BY <1>4, <2>3, <2>4
  <2>6. \A i \in 1 .. 5 : i = 1 \/ i = 2 \/ i = 3 \/ i = 4 \/ i = 5
    OBVIOUS
  <2>7. \A i \in 1 .. 5 : r[i] = "resolve" => i = 4
    BY <1>2, <1>5, <2>5, <2>6
  <2>8. \A d \in Domains : r[1] = d \/ r[2] = d
    BY <1>2, <2>5
  <2>9. QED
    BY <2>3, <2>5, <2>7, <2>8 DEF r
<1>9. CASE CallSequence(c) = SubSeq(s, 1, 3)
  <2>1. Len(CallSequence(c)) = 3 /\ \A i \in 1..3 : CallSequence(c)[i] = s[i]
    BY <1>4, <1>9, SubSeqProperties
  <2>2. QED
    BY <1>2, <1>4, <1>5, <2>1
<1>10. CASE CallSequence(c) = <<"domain_A", "construct">>
  BY <1>5, <1>10
<1>11. CASE CallSequence(c) = <<"domain_A">> \/ CallSequence(c) = <<>>
  BY <1>5, <1>11
<1>12. QED
  BY <1>6, <1>7, <1>8, <1>9, <1>10, <1>11

\* The head moves in the fourth call, when both claims are withdrawn and both emissions retained.
Grounded ==
  /\ head = "R0" /\ head' = "R1" /\ calls = 3 /\ captures = Domains /\ disposition = Unclaimed
  /\ \A d \in Domains : proc[d].emitted /\ represented[d] = "R0"

LEMMA CallGrounded ==
  ASSUME CohortInv, StepOK, EvidenceInv, CanonicalCall, head' # head PROVE Grounded
<1>0. TypeInv /\ calls \in Nat /\ head \in {"R0", "R1"} /\ captures \in SUBSET Domains
  BY DEF CohortInv, TypeInv, CanonicalTypes
<1>1. NextCall = "resolve" /\ ~Rejected /\ head' = "R1" /\ calls < Len(CallSequence(case))
  BY DEF CanonicalCall
<1>2. calls = 3 /\ Len(CallSequence(case)) >= 4
  <2>1. calls + 1 \in 1 .. Len(CallSequence(case)) /\ CallSequence(case)[calls + 1] = "resolve"
    BY <1>0, <1>1, CallPlaces DEF NextCall
  <2>2. calls + 1 = 4
    BY <2>1, CallPlaces
  <2>3. QED
    BY <1>0, <2>1, <2>2, CallPlaces
<1>3. case \notin CanonicalFaults
  BY <1>1 DEF Rejected
<1>4. disposition = Unclaimed
  BY <1>0, <1>2, <1>3, CallKnown
<1>5. ASSUME NEW d \in Domains PROVE d \in captures
  <2>1. CallSequence(case)[1] = d \/ CallSequence(case)[2] = d
    BY <1>2, CallPlaces
  <2>2. 1 \in 1 .. calls /\ 2 \in 1 .. calls
    BY <1>2
  <2>3. QED
    BY <2>1, <2>2 DEF EvidenceInv, CallInv
<1>6. ASSUME NEW d \in Domains PROVE proc[d].emitted /\ represented[d] = "R0"
  <2>1. d \in captures /\ RecordOK(d) /\ represented[d] \in {"none", "R0", "R1"}
    BY <1>0, <1>5 DEF EvidenceInv, RecordInv, TypeInv, CanonicalTypes
  <2>2. head = "R0"
    BY <1>0, <1>1
  <2>3. QED
    BY <2>1, <2>2 DEF RecordOK
<1>7. QED
  BY <1>0, <1>1, <1>2, <1>4, <1>5, <1>6 DEF Grounded

LEMMA CallEvidence ==
  ASSUME CohortInv, StepOK, EvidenceInv, CanonicalCall PROVE EvidenceInv'
<1>0. TypeInv /\ calls \in Nat /\ head \in {"R0", "R1"}
  BY DEF CohortInv, TypeInv, CanonicalTypes
<1>1. /\ UNCHANGED <<processVars, conn, captures, represented, observed>>
      /\ (Working' => Working) /\ case' = case /\ calls' = calls + 1
      /\ NextCall \in Domains => NextCall \in captures
  BY <1>0, JudgedBacks DEF CanonicalCall, claimVars, processVars
<1>2. UNCHANGED <<proc, control, output>> /\ Onward
  BY <1>1 DEF processVars, Onward, CanonicalCall
<1>3. \A l \in Labels : Held(l)
  BY <1>2 DEF Held
<1>4. ASSUME NEW l \in Labels PROVE WorldOK(l)' /\ SaidOK(l)'
  BY <1>1, <1>2, <1>3, WorldFrame, SaidFrame DEF EvidenceInv, WorldInv, SaidInv
<1>5. ASSUME NEW m \in Domains PROVE RecordOK(m)'
  <2>1. m \in Labels /\ RecordOK(m) /\ Held(m) /\ conn[m].ops \subseteq conn'[m].ops
    BY <1>1, <1>3, DomainLabels DEF EvidenceInv, RecordInv
  <2>2. QED
    BY <1>1, <1>2, <2>1, RecordFrame
<1>6. disposition' \in {disposition, Unclaimed}
  BY DEF CanonicalCall, Proceeds, Raises
<1>7. ASSUME NEW m \in Domains PROVE ClaimOK(m)'
  <2>1. m \in Labels /\ ClaimOK(m) /\ Held(m)
    BY <1>3, DomainLabels DEF EvidenceInv, ClaimInv
  <2>2. CASE head' = head
    BY <1>1, <1>2, <1>6, <2>1, <2>2, ClaimFrame DEF Unclaimed
  <2>3. CASE head' # head
    <3>1. disposition' = Unclaimed
      BY <1>6, <2>3, CallGrounded DEF Grounded
    <3>2. QED
      BY <3>1 DEF ClaimOK, Unclaimed
  <2>4. QED
    BY <2>2, <2>3
<1>8. CallInv'
  <2>1. CallSequence(case)' = CallSequence(case)
    BY <1>1 DEF CallSequence, Presentation
  <2>2. ASSUME NEW i \in 1 .. calls', CallSequence(case)[i] \in Domains PROVE CallSequence(case)[i] \in captures
    <3>1. i \in 1 .. calls \/ i = calls + 1
      BY <1>0, <1>1
    <3>2. QED
      BY <1>1, <2>2, <3>1 DEF EvidenceInv, CallInv, NextCall
  <2>3. ASSUME calls' >= 4, case \notin CanonicalFaults PROVE head' = "R1"
    <3>1. CASE calls >= 4
      <4>1. head = "R1"
        BY <2>3, <3>1 DEF EvidenceInv, CallInv
      <4>2. QED
        BY <1>2, <4>1 DEF Onward
    <3>2. CASE calls < 4
      <4>1. calls = 3
        BY <1>0, <1>1, <2>3, <3>2
      <4>2. Len(CallSequence(case)) >= 4
        BY <4>1, CallPlaces DEF CanonicalCall
      <4>3. NextCall = "resolve"
        BY <4>1, <4>2, CallPlaces DEF NextCall
      <4>4. QED
        BY <2>3, <4>3 DEF CanonicalCall, Rejected
    <3>3. QED
      BY <1>0, <3>1, <3>2
  <2>4. ASSUME head' = "R1" PROVE calls' >= 4 /\ captures' = Domains
    <3>1. CASE head = "R1"
      <4>1. calls >= 4 /\ captures = Domains
        BY <3>1 DEF EvidenceInv, CallInv
      <4>2. QED
        BY <1>0, <1>1, <4>1
    <3>2. CASE head # "R1"
      <4>1. calls = 3 /\ captures = Domains
        BY <2>4, <3>2, CallGrounded DEF Grounded
      <4>2. QED
        BY <1>1, <4>1
    <3>3. QED
      BY <3>1, <3>2
  <2>5. QED
    BY <1>1, <2>1, <2>2, <2>3, <2>4 DEF CallInv
<1>9. QED
  BY <1>4, <1>5, <1>7, <1>8 DEF EvidenceInv, WorldInv, SaidInv, RecordInv, ClaimInv

-----------------------------------------------------------------------------
(* Exchanges keep the evidence *)

LEMMA AmongSingle ==
  ASSUME NEW s, Single(s), NEW o \in Among(s), NEW r \in Among(s), o.kind = "response", r.kind = "response"
  PROVE  o = r
<1>1. PICK i \in DOMAIN s : o = s[i]
  BY DEF Among
<1>2. PICK j \in DOMAIN s : r = s[j]
  BY DEF Among
<1>3. i = j
  BY <1>1, <1>2 DEF Single
<1>4. QED
  BY <1>1, <1>2, <1>3

LEMMA AmongOne == ASSUME NEW x PROVE \A y : y \in Among(<<x>>) => y = x
<1>1. DOMAIN <<x>> = {1} /\ <<x>>[1] = x
  OBVIOUS
<1>2. QED
  BY <1>1 DEF Among

LEMMA CommandRecord == Command.record = "R1" => head = "R1"
  BY DEF Command

\* A step of an exchange concerns one process, and the domain it is of.
LEMMA ExchangeFrame ==
  ASSUME EvidenceInv, ProcessTypes, NEW l, NEW c, Ties(l, c), head' = head, calls' = calls,
         captures \subseteq captures', captures' \subseteq captures \cup {l}, captures' \in SUBSET Domains,
         Working' => Working, disposition' \in {disposition, Unclaimed},
         \A m \in Domains : m # l => represented'[m] = represented[m] /\ observed'[m] = observed[m],
         \A m \in Labels : m # l => control'[m] = control[m] /\ output'[m] = output[m],
         \A line \in Among(control'[l]) : line \in Among(control[l]) \/ (line.record = "R1" => head' = "R1"),
         \A o \in Among(output'[l]) : o \in Among(output[l]),
         l \in Domains => RecordOK(l)' /\ ClaimOK(l)'
  PROVE  EvidenceInv'
<1>1. /\ l \in Labels /\ conn'[l] = c /\ \A m \in Labels : m # l => conn'[m] = conn[m]
  BY TiesConn
<1>2. proc' = proc /\ case' = case
  BY DEF Ties
<1>3. \A m \in Labels : Held(m)
  BY <1>2 DEF Held
<1>4. Onward
  BY DEF Onward
<1>5. ASSUME NEW m \in Labels PROVE WorldOK(m)' /\ SaidOK(m)'
  <2>1. WorldOK(m) /\ SaidOK(m) /\ Held(m)
    BY <1>3 DEF EvidenceInv, WorldInv, SaidInv
  <2>2. \A line \in Among(control'[m]) : line \in Among(control[m]) \/ (line.record = "R1" => head' = "R1")
    OBVIOUS
  <2>3. \A o \in Among(output'[m]) : o \in Among(output[m])
    OBVIOUS
  <2>4. WorldOK(m)'
    BY <1>4, <2>1, <2>2, WorldFrame
  <2>5. SaidOK(m)'
    BY <1>4, <2>1, <2>3, SaidFrame
  <2>6. QED
    BY <2>4, <2>5
<1>6. ASSUME NEW m \in Domains, m # l PROVE RecordOK(m)' /\ ClaimOK(m)'
  <2>1. m \in Labels /\ RecordOK(m) /\ ClaimOK(m) /\ Held(m)
    BY <1>3, DomainLabels DEF EvidenceInv, RecordInv, ClaimInv
  <2>2. /\ conn[m].ops \subseteq conn'[m].ops /\ control'[m] = control[m] /\ output'[m] = output[m]
        /\ represented'[m] = represented[m] /\ observed'[m] = observed[m] /\ (m \in captures' => m \in captures)
    BY <1>1, <1>6, <2>1
  <2>3. disposition'[m] \in {disposition[m], "unclaimed"}
    BY DEF Unclaimed
  <2>4. RecordOK(m)'
    BY <1>4, <2>1, <2>2, RecordFrame
  <2>5. ClaimOK(m)'
    BY <2>1, <2>2, <2>3, ClaimFrame
  <2>6. QED
    BY <2>4, <2>5
<1>7. CallInv'
  <2>1. CallSequence(case)' = CallSequence(case)
    BY <1>2 DEF CallSequence, Presentation
  <2>2. CallInv /\ captures \subseteq Domains
    BY DEF EvidenceInv
  <2>3. (head = "R1" => captures' = Domains)
    BY <2>2 DEF CallInv
  <2>4. QED
    BY <1>2, <2>1, <2>2, <2>3 DEF CallInv
<1>8. WorldInv' /\ SaidInv'
  BY <1>5 DEF WorldInv, SaidInv
<1>9. RecordInv' /\ ClaimInv'
  BY <1>6 DEF RecordInv, ClaimInv
<1>10. QED
  BY <1>7, <1>8, <1>9 DEF EvidenceInv

\* Nothing but the connection and its queues changes.
LEMMA KeptFrame ==
  ASSUME EvidenceInv, TypeInv, NEW l, NEW c, Ties(l, c), Kept, Working' => Working,
         disposition' \in {disposition, Unclaimed},
         \A m \in Labels : m # l => control'[m] = control[m] /\ output'[m] = output[m],
         \A line \in Among(control'[l]) : line \in Among(control[l])
           \/ (/\ line.record = "R1" => head = "R1"
               /\ l \in Domains /\ disposition[l] = "current" => ~Effective(line)),
         \A o \in Among(output'[l]) : o \in Among(output[l]),
         Working' => \A o \in Among(output[l]) : Receipt(o) => o \in Among(output'[l])
  PROVE  EvidenceInv'
<1>1. UNCHANGED <<head, calls, captures, represented, observed>> /\ captures \in SUBSET Domains /\ ProcessTypes
  BY DEF Kept, canonicalVars, claimVars, TypeInv, CanonicalTypes
<1>2. Held(l) /\ Onward /\ conn[l].ops \subseteq conn'[l].ops
  <2>1. proc' = proc /\ conn[l].ops \subseteq c.ops
    BY DEF Ties
  <2>2. conn'[l] = c
    BY <1>1, TiesConn
  <2>3. QED
    BY <1>1, <2>1, <2>2 DEF Held, Onward
<1>3. ASSUME l \in Domains PROVE RecordOK(l)' /\ ClaimOK(l)'
  <2>1. RecordOK(l) /\ ClaimOK(l)
    BY <1>3 DEF EvidenceInv, RecordInv, ClaimInv
  <2>2. RecordOK(l)'
    BY <1>1, <1>2, <2>1, RecordFrame
  <2>3. disposition'[l] \in {disposition[l], "unclaimed"}
    BY <1>3 DEF Unclaimed
  <2>4. CASE disposition[l] = "current"
    <3>1. \A line \in Among(control'[l]) : line \in Among(control[l]) \/ ~Effective(line)
      BY <1>3, <2>4
    <3>2. head' = head /\ represented'[l] = represented[l]
      BY <1>1
    <3>3. QED
      BY <1>2, <2>1, <2>2, <2>3, <3>1, <3>2, ClaimFrame
  <2>5. CASE disposition[l] # "current"
    <3>1. disposition'[l] # "current" /\ (disposition'[l] = "stale" => head' = "R1")
      BY <1>1, <2>1, <2>3, <2>5 DEF ClaimOK
    <3>2. QED
      BY <2>2, <3>1 DEF ClaimOK
  <2>6. QED
    BY <2>2, <2>4, <2>5
<1>4. QED
  BY <1>1, <1>3, ExchangeFrame

LEMMA WritesEvidence ==
  ASSUME CohortInv, EvidenceInv, NEW l, NEW c, Writes(l, c) PROVE EvidenceInv'
<1>0. TypeInv /\ ProcessTypes /\ ExchangeInv
  BY DEF CohortInv, TypeInv
<1>1. /\ Ties(l, c) /\ Kept /\ Undecided /\ output' = output /\ l \in Domains /\ l \in Labels
      /\ control' = [control EXCEPT ![l] = Append(@, Command)] /\ case' = case
      /\ conn[l].asked = "none" /\ ~conn[l].failed /\ Step.op \notin conn[l].ops /\ Command.op = Step.op
  BY DEF Writes, Ties
<1>2. control[l] = <<>>
  BY <1>0, <1>1 DEF ExchangeInv, Orderly, Free, Settled
<1>3. control'[l] = <<Command>> /\ \A m \in Labels : m # l => control'[m] = control[m]
  <2>1. control'[l] = Append(<<>>, Command) /\ \A m \in Labels : m # l => control'[m] = control[m]
    BY <1>0, <1>1, <1>2 DEF ProcessTypes
  <2>2. Append(<<>>, Command) = <<Command>>
    OBVIOUS
  <2>3. QED
    BY <2>1, <2>2
<1>4. ASSUME disposition[l] = "current" PROVE ~Effective(Command)
  <2>1. represented[l] = head /\ RecordOK(l) /\ head \in {"R0", "R1"}
    BY <1>0, <1>1, <1>4 DEF EvidenceInv, ClaimInv, RecordInv, ClaimOK, TypeInv, CanonicalTypes
  <2>2. "materialize_0001" \in conn[l].ops /\ (head = "R1" => "materialize_0002" \in conn[l].ops)
    BY <2>1 DEF RecordOK
  <2>3. QED
    BY <1>1, <2>2, CommandRecord DEF Effective
<1>5. \A line \in Among(control'[l]) : line = Command
  BY <1>3, AmongOne
<1>6. Working' => Working
  BY <1>1, UndecidedStep
<1>7. disposition' = disposition
  BY <1>1 DEF Undecided
<1>8. \A line \in Among(control'[l]) : line \in Among(control[l])
           \/ (/\ line.record = "R1" => head = "R1"
               /\ l \in Domains /\ disposition[l] = "current" => ~Effective(line))
  BY <1>4, <1>5, CommandRecord
<1>9. QED
  BY <1>0, <1>1, <1>3, <1>6, <1>7, <1>8, KeptFrame

LEMMA TakenQueue ==
  ASSUME TypeInv, NEW l \in Labels, control' = control, output[l] # <<>>,
         output'[l] = Tail(output[l]), \A m \in Labels : m # l => output'[m] = output[m]
  PROVE  /\ \A m \in Labels : m # l => control'[m] = control[m] /\ output'[m] = output[m]
         /\ \A line \in Among(control'[l]) : line \in Among(control[l])
         /\ Object(l) \in Among(output[l])
         /\ \A o \in Among(output'[l]) : o \in Among(output[l])
         /\ \A o \in Among(output[l]) : o = Object(l) \/ o \in Among(output'[l])
<1>1. output[l] \in Seq(Objects)
  BY DEF TypeInv, ProcessTypes
<1>2. Object(l) \in Among(output[l])
      /\ \A o : o \in Among(output[l]) <=> o = Object(l) \/ o \in Among(output'[l])
  BY <1>1, AmongTail DEF Object
<1>3. QED
  BY <1>1, <1>2

LEMMA LosesEvidence ==
  ASSUME CohortInv, StepOK, EvidenceInv, NEW l, NEW c, Loses(l, c) PROVE EvidenceInv'
<1>0. TypeInv /\ Ties(l, c) /\ l \in Labels /\ Kept /\ Raises /\ control' = control /\ case' = case
  BY DEF CohortInv, Loses, Ties
<1>1. Backs /\ ~Working'
  BY <1>0, RaisesBacks
<1>2. /\ \A m \in Labels : m # l => control'[m] = control[m] /\ output'[m] = output[m]
      /\ \A o \in Among(output'[l]) : o \in Among(output[l])
  <2>1. CASE output' = output
    BY <1>0, <2>1
  <2>2. CASE output[l] # <<>> /\ output' = [output EXCEPT ![l] = Tail(@)]
    <3>1. output'[l] = Tail(output[l]) /\ \A m \in Labels : m # l => output'[m] = output[m]
      BY <1>0, <2>2 DEF TypeInv, ProcessTypes
    <3>2. QED
      BY <1>0, <2>2, <3>1, TakenQueue
  <2>3. QED
    BY <2>1, <2>2 DEF Loses
<1>3. disposition' \in {disposition, Unclaimed}
  BY <1>1 DEF Backs
<1>4. \A line \in Among(control'[l]) : line \in Among(control[l])
  BY <1>0
<1>5. QED
  BY <1>0, <1>1, <1>2, <1>3, <1>4, KeptFrame

LEMMA ListensEvidence ==
  ASSUME CohortInv, StepOK, EvidenceInv, NEW l, NEW c, Begins(l, c) \/ Listens(l, c) PROVE EvidenceInv'
<1>0. TypeInv /\ Ties(l, c) /\ l \in Labels /\ Kept /\ Undecided /\ control' = control /\ case' = case
  BY DEF CohortInv, Begins, Listens, Ties
<1>1. (Working' => Working) /\ disposition' = disposition
  BY <1>0, UndecidedStep DEF Undecided
<1>2. /\ \A m \in Labels : m # l => control'[m] = control[m] /\ output'[m] = output[m]
      /\ \A o \in Among(output'[l]) : o \in Among(output[l])
      /\ \A o \in Among(output[l]) : Receipt(o) => o \in Among(output'[l])
  <2>1. CASE output' = output
    BY <1>0, <2>1
  <2>2. CASE output[l] # <<>> /\ output' = [output EXCEPT ![l] = Tail(@)] /\ Object(l).kind # "response"
    <3>1. output'[l] = Tail(output[l]) /\ \A m \in Labels : m # l => output'[m] = output[m]
      BY <1>0, <2>2 DEF TypeInv, ProcessTypes
    <3>2. QED
      BY <1>0, <2>2, <3>1, TakenQueue DEF Receipt
  <2>3. QED
    BY <2>1, <2>2 DEF Begins, Listens
<1>3. \A line \in Among(control'[l]) : line \in Among(control[l])
  BY <1>0
<1>4. QED
  BY <1>0, <1>1, <1>2, <1>3, KeptFrame

\* An answer that is taken is retained as what it says.
AnswersWell(l, o) ==
  /\ Step.do \in Waiting /\ Step.do # "startup" /\ l = Step.on /\ l \in Domains
  /\ o = Object(l) /\ o.kind = "response" /\ o.op = Step.op /\ Step.op \in conn[l].ops /\ Step.op \in Operations
  /\ o.code = "ok" /\ Retains(l, Step.op, o.seen) /\ UNCHANGED <<head, calls, control, proc, case>>
  /\ \A r \in Among(output[l]) : r.kind = "response" => r = o
  /\ o \in Among(output[l])

LEMMA EarlyHead ==
  ASSUME CohortInv, StepOK, EvidenceInv, Does("ask"), Step.op = "materialize_0001" PROVE head = "R0" /\ Working
<1>1. Step.op \in Later /\ stage \in Stages
  BY DEF Later, CohortInv, TypeInv, ScriptInv, PlaceInv
<1>2. stage = "prefix"
  BY <1>1 DEF StepOK, Does, Stages
<1>3. PICK v \in Views : Fits(v) /\ Allowed(case, stage, v, Step)
  BY <1>2, Foreseen DEF CohortInv, TypeInv, Does, Working
<1>4. v.n = 0 /\ v.n = calls
  BY <1>3 DEF Allowed, Fits, Does
<1>5. QED
  BY <1>2, <1>4 DEF EvidenceInv, CallInv, Working, CohortInv, TypeInv, CanonicalTypes

LEMMA WorkingAsk ==
  ASSUME CohortInv, StepOK, Step.do \in Waiting, Step.do # "startup",
         Step.op \notin Inspections \cup {"shutdown_0001"}
  PROVE  Does("ask") /\ Working
<1>1. Does("ask")
  BY DEF StepOK, Does, Waiting
<1>2. stage \in Stages
  BY DEF CohortInv, TypeInv, ScriptInv, PlaceInv
<1>3. QED
  BY <1>1, <1>2 DEF StepOK, Does, Stages, Working, Inspections

LEMMA GoodRecord ==
  ASSUME CohortInv, StepOK, EvidenceInv, NEW l \in Domains, NEW o, AnswersWell(l, o),
         Working' => Working, conn[l].ops \subseteq conn'[l].ops
  PROVE  RecordOK(l)'
<1>0. /\ RecordOK(l) /\ Says(l, o) /\ WorldOK(l) /\ head \in {"R0", "R1"} /\ captures \in SUBSET Domains
      /\ represented \in [Domains -> {"none", "R0", "R1"}] /\ observed \in [Domains -> Worlds]
  <2>1. SaidOK(l) /\ WorldOK(l) /\ RecordOK(l) /\ o \in Among(output[l])
    BY DomainLabels DEF EvidenceInv, SaidInv, WorldInv, RecordInv, AnswersWell
  <2>2. QED
    BY <2>1 DEF SaidOK, CohortInv, TypeInv, CanonicalTypes
<1>1. /\ UNCHANGED <<head, calls, proc>> /\ o.kind = "response" /\ o.code = "ok" /\ o.op = Step.op
      /\ Step.op \in conn[l].ops /\ Step.op \in Operations
      /\ represented'[l] = IF Step.op \in Materializations THEN head ELSE represented[l]
      /\ observed'[l] = IF Step.op \in Inspections THEN o.seen ELSE observed[l]
      /\ captures' = IF Step.op = "emit_0001" THEN captures \cup {l} ELSE captures
  BY <1>0 DEF AnswersWell, Retains
<1>2. Step.op = "materialize_0001" => head = "R0" /\ proc[l].world = Pair("R0")
  <2>1. ASSUME Step.op = "materialize_0001" PROVE Does("ask")
    BY <2>1, WorkingAsk DEF AnswersWell, Inspections
  <2>2. Step.op = "materialize_0001" => head = "R0"
    BY <2>1, EarlyHead
  <2>3. QED
    BY <1>0, <1>1, <2>2 DEF Says
<1>3. Step.op = "materialize_0002" => head = "R1" /\ represented[l] # "none"
  <2>1. ASSUME Step.op = "materialize_0002" PROVE head = "R1"
    BY <1>0, <1>1, <2>1 DEF Says
  <2>2. head = "R1" => l \in captures
    BY DEF EvidenceInv, CallInv
  <2>3. QED
    BY <1>0, <2>1, <2>2 DEF RecordOK
<1>4. represented'[l] = "R1" => head' = "R1" /\ "materialize_0002" \in conn'[l].ops
  BY <1>0, <1>1, <1>2, <1>3 DEF RecordOK, Materializations
<1>5. represented'[l] # "none" => "materialize_0001" \in conn'[l].ops
  BY <1>0, <1>1, <1>3 DEF RecordOK, Materializations
<1>6. represented'[l] = "R0" /\ head' = "R0" => proc'[l].world = Pair("R0")
  BY <1>0, <1>1, <1>2, <1>3 DEF RecordOK, Materializations
<1>7. observed'[l] = Pair("R1") => proc'[l].world = Pair("R1")
  BY <1>0, <1>1 DEF RecordOK, Says
<1>8. represented[l] # "none" => represented'[l] # "none"
  BY <1>0, <1>1
<1>9. l \in captures' => proc'[l].emitted /\ represented'[l] # "none"
  <2>1. CASE l \in captures
    BY <1>0, <1>1, <1>8, <2>1 DEF RecordOK
  <2>2. CASE l \notin captures /\ l \in captures'
    <3>1. Step.op = "emit_0001" /\ proc[l].emitted
      BY <1>0, <1>1, <2>2 DEF Says
    <3>2. Working
      BY <3>1, WorkingAsk DEF AnswersWell, Inspections
    <3>3. proc[l].generation # "none"
      BY <1>0, <3>1 DEF WorldOK
    <3>4. \A r \in Among(output[l]) : ~Receipt(r)
      BY <1>1, <3>1 DEF AnswersWell, Receipt
    <3>5. represented[l] # "none"
      BY <1>0, <3>2, <3>3, <3>4 DEF RecordOK
    <3>6. QED
      BY <1>1, <1>8, <3>1, <3>5
  <2>3. QED
    BY <2>1, <2>2
<1>10. Working' /\ proc'[l].generation # "none" => represented'[l] # "none"
  <2>1. ASSUME Working', proc'[l].generation # "none", represented[l] = "none" PROVE represented'[l] # "none"
    <3>1. PICK r \in Among(output[l]) : Receipt(r)
      BY <1>0, <1>1, <2>1 DEF RecordOK
    <3>2. Step.op = "materialize_0001"
      BY <1>1, <3>1 DEF AnswersWell, Receipt
    <3>3. QED
      BY <1>0, <1>1, <3>2 DEF Materializations
  <2>2. QED
    BY <1>8, <2>1
<1>11. QED
  BY <1>4, <1>5, <1>6, <1>7, <1>9, <1>10 DEF RecordOK

LEMMA GoodEvidence ==
  ASSUME CohortInv, StepOK, EvidenceInv, NEW l \in Domains, NEW c, NEW o, Ties(l, c), AnswersWell(l, o),
         Working' => Working, disposition' \in {disposition, Unclaimed},
         \A m \in Labels : m # l => output'[m] = output[m],
         \A x \in Among(output'[l]) : x \in Among(output[l])
  PROVE  EvidenceInv'
<1>0. TypeInv /\ ProcessTypes /\ l \in Labels /\ conn'[l] = c /\ conn[l].ops \subseteq conn'[l].ops
  <2>1. TypeInv /\ ProcessTypes
    BY DEF CohortInv, TypeInv
  <2>2. l \in Labels /\ conn'[l] = c
    BY <2>1, TiesConn
  <2>3. conn[l].ops \subseteq c.ops
    BY DEF Ties
  <2>4. QED
    BY <2>1, <2>2, <2>3
<1>1. /\ UNCHANGED <<head, calls, control, proc>>
      /\ captures' = IF Step.op = "emit_0001" THEN captures \cup {l} ELSE captures
      /\ represented'[l] \in {head, represented[l]}
      /\ \A m \in Domains : m # l => represented'[m] = represented[m] /\ observed'[m] = observed[m]
      /\ captures \in SUBSET Domains
  BY <1>0 DEF AnswersWell, Retains, TypeInv, CanonicalTypes
<1>2. RecordOK(l)'
  BY <1>0, GoodRecord
<1>3. ClaimOK(l)'
  <2>1. ClaimOK(l) /\ disposition'[l] \in {disposition[l], "unclaimed"}
    BY DEF EvidenceInv, ClaimInv, Unclaimed
  <2>2. QED
    BY <1>1, <2>1 DEF ClaimOK
<1>4. /\ \A m \in Labels : m # l => control'[m] = control[m] /\ output'[m] = output[m]
      /\ \A line \in Among(control'[l]) : line \in Among(control[l]) \/ (line.record = "R1" => head' = "R1")
  BY <1>1
<1>5. captures \subseteq captures' /\ captures' \subseteq captures \cup {l} /\ captures' \in SUBSET Domains
  BY <1>1
<1>6. QED
  BY <1>0, <1>1, <1>2, <1>3, <1>4, <1>5, ExchangeFrame

LEMMA TakesEvidence ==
  ASSUME CohortInv, StepOK, EvidenceInv, NEW l, NEW c, TakesAnswer(l, c) PROVE EvidenceInv'
<1>0. TypeInv /\ Ties(l, c) /\ l \in Labels /\ l = Step.on /\ control' = control /\ case' = case /\ proc' = proc
  BY DEF CohortInv, TakesAnswer, Ties
<1>1. /\ \A m \in Labels : m # l => control'[m] = control[m] /\ output'[m] = output[m]
      /\ \A line \in Among(control'[l]) : line \in Among(control[l])
      /\ Object(l) \in Among(output[l])
      /\ \A o \in Among(output'[l]) : o \in Among(output[l])
      /\ \A o \in Among(output[l]) : o = Object(l) \/ o \in Among(output'[l])
  <2>1. output[l] # <<>> /\ output'[l] = Tail(output[l]) /\ \A m \in Labels : m # l => output'[m] = output[m]
    BY <1>0 DEF TakesAnswer, TypeInv, ProcessTypes
  <2>2. QED
    BY <1>0, <2>1, TakenQueue
<1>2. (Working' => Working)
  BY <1>0, AnswerBacks
<1>3. disposition' \in {disposition, Unclaimed}
  BY DEF TakesAnswer, Proceeds, RaisesCode, Raises
<1>4. ASSUME Kept, Working' => ~Receipt(Object(l)) PROVE EvidenceInv'
  <2>1. Working' => \A o \in Among(output[l]) : Receipt(o) => o \in Among(output'[l])
    BY <1>1, <1>4
  <2>2. QED
    BY <1>0, <1>1, <1>2, <1>3, <1>4, <2>1, KeptFrame
<1>5. CASE Object(l).kind = "startup" /\ Kept
  BY <1>4, <1>5 DEF Receipt
<1>6. CASE /\ Object(l).op = Step.op /\ Step.do # "startup" /\ Step.do \in Waiting
           /\ RaisesCode(Object(l).code) /\ Kept
  <2>1. ASSUME Working' PROVE ~Receipt(Object(l))
    <3>1. ~Raises
      BY <1>0, <2>1, RaisesBacks
    <3>2. stage = "failure"
      BY <1>6, <3>1 DEF RaisesCode, Catches
    <3>3. Does("ask")
      BY <1>6, <3>2 DEF StepOK, Waiting, Neutral, Does, Working
    <3>4. Step.op \notin Later
      BY <3>2, <3>3 DEF StepOK
    <3>5. QED
      BY <1>6, <3>4 DEF Receipt, Later
  <2>2. QED
    BY <1>4, <1>6, <2>1
<1>7. CASE /\ Object(l).kind = "response" /\ Object(l).op = Step.op /\ l \in Domains /\ Step.op \in conn[l].ops
           /\ Step.op \in Operations /\ Step.do # "startup" /\ Step.do \in Waiting
           /\ Object(l).code = "ok" /\ Retains(l, Step.op, Object(l).seen) /\ UNCHANGED <<head, calls>>
  <2>1. PICK o : o = Object(l)
    OBVIOUS
  <2>2. Single(output[l])
    BY <1>0 DEF CohortInv, ExchangeInv, Orderly
  <2>3. \A r \in Among(output[l]) : r.kind = "response" => r = o
    BY <1>1, <1>7, <2>1, <2>2, AmongSingle
  <2>4. AnswersWell(l, o)
    BY <1>0, <1>1, <1>7, <2>1, <2>3 DEF AnswersWell
  <2>5. QED
    BY <1>0, <1>1, <1>2, <1>3, <1>7, <2>4, GoodEvidence
<1>8. QED
  BY <1>5, <1>6, <1>7 DEF TakesAnswer

LEMMA ExchangeEvidence ==
  ASSUME CohortInv, StepOK, EvidenceInv, Exchanges PROVE EvidenceInv'
<1>1. PICK l, c : Begins(l, c) \/ Writes(l, c) \/ Listens(l, c) \/ TakesAnswer(l, c) \/ Loses(l, c)
  BY ExchangeDeeds, Greeted DEF CohortInv
<1>2. QED
  BY <1>1, WritesEvidence, LosesEvidence, ListensEvidence, TakesEvidence

-----------------------------------------------------------------------------
(* What a process does of its own accord keeps the evidence *)

\* The process becomes q, has read what it was sent, and nothing but o of T is added to its output.
Turn(l, q, T) ==
  /\ Alone(l) /\ proc'[l] = q /\ control'[l] = <<>>
  /\ \A o : o \in Among(output'[l]) <=> o \in Among(output[l]) \/ o \in T
  /\ \A m \in Labels : m # l => control'[m] = control[m] /\ output'[m] = output[m] /\ proc'[m] = proc[m]
  /\ \A o \in Among(output[l]) : o.kind # "response"

LEMMA AloneKeeps ==
  ASSUME TypeInv, NEW l \in Labels, Alone(l)
  PROVE  /\ UNCHANGED <<head, calls, captures, represented, observed, disposition, case>> /\ Onward
         /\ (Working' <=> Working) /\ \A m \in Labels : conn'[m].ops = conn[m].ops
<1>1. /\ Step' = Step /\ UNCHANGED <<stage, at, disposition, canonicalVars, claimVars>> /\ case' = case
      /\ \A m \in Labels : conn'[m].ops = conn[m].ops
  BY AloneConn
<1>2. QED
  BY <1>1 DEF canonicalVars, claimVars, Onward, Working

LEMMA AloneFrame ==
  ASSUME EvidenceInv, TypeInv, NEW l \in Labels, Alone(l),
         \A m \in Labels : m # l => control'[m] = control[m] /\ output'[m] = output[m] /\ proc'[m] = proc[m],
         WorldOK(l)', SaidOK(l)', l \in Domains => RecordOK(l)' /\ ClaimOK(l)'
  PROVE  EvidenceInv'
<1>1. /\ UNCHANGED <<head, calls, captures, represented, observed, disposition, case>> /\ Onward
      /\ (Working' <=> Working) /\ \A m \in Labels : conn'[m].ops = conn[m].ops
  BY AloneKeeps
<1>2. ASSUME NEW m \in Labels, m # l PROVE WorldOK(m)' /\ SaidOK(m)'
  <2>1. WorldOK(m) /\ SaidOK(m) /\ control'[m] = control[m] /\ output'[m] = output[m] /\ Held(m)
    BY <1>2 DEF EvidenceInv, WorldInv, SaidInv, Held
  <2>2. WorldOK(m)'
    BY <1>1, <2>1, WorldFrame
  <2>3. SaidOK(m)'
    BY <1>1, <2>1, SaidFrame
  <2>4. QED
    BY <2>2, <2>3
<1>3. ASSUME NEW m \in Domains, m # l PROVE RecordOK(m)' /\ ClaimOK(m)'
  <2>1. m \in Labels
    BY DomainLabels
  <2>2. RecordOK(m) /\ ClaimOK(m) /\ control'[m] = control[m] /\ output'[m] = output[m] /\ Held(m)
        /\ conn[m].ops \subseteq conn'[m].ops
    BY <1>1, <1>3, <2>1 DEF EvidenceInv, RecordInv, ClaimInv, Held
  <2>3. RecordOK(m)'
    BY <1>1, <2>2, RecordFrame
  <2>4. ClaimOK(m)'
    BY <1>1, <2>2, ClaimFrame
  <2>5. QED
    BY <2>3, <2>4
<1>4. CallInv'
  <2>1. CallSequence(case)' = CallSequence(case)
    BY <1>1 DEF CallSequence, Presentation
  <2>2. QED
    BY <1>1, <2>1 DEF EvidenceInv, CallInv
<1>5. WorldInv' /\ SaidInv'
  BY <1>2 DEF WorldInv, SaidInv
<1>6. RecordInv' /\ ClaimInv'
  BY <1>3 DEF RecordInv, ClaimInv
<1>7. QED
  BY <1>4, <1>5, <1>6 DEF EvidenceInv

\* What a turn needs for its evidence.
LEMMA TurnFrame ==
  ASSUME EvidenceInv, TypeInv, NEW l \in Labels, NEW q, NEW T, Turn(l, q, T),
         \A r \in {"R0", "R1"} : q.world = Pair(r) => q.generation = r,
         q.pending # NoLine => q.generation = "R0" /\ q.world = Empty /\ head = "R1",
         q.emitted => q.generation # "none" /\ (head = "R0" => q.world = Pair("R0")),
         proc[l].emitted => q.emitted,
         proc[l].world = Pair("R1") => q.world = Pair("R1"),
         head = "R0" /\ proc[l].world = Pair("R0") => q.world = Pair("R0"),
         \A o \in T : /\ o.seen = Pair("R1") => q.world = Pair("R1")
                      /\ o.kind = "response" /\ o.code = "ok" =>
                           /\ o.op = "materialize_0001" /\ head = "R0" => q.world = Pair("R0")
                           /\ o.op = "materialize_0002" => head = "R1"
                           /\ o.op = "emit_0001" => q.emitted,
         q.generation # "none" => proc[l].generation # "none" \/ \E o \in T : Receipt(o),
         l \in Domains /\ disposition[l] = "current" => q.world = proc[l].world /\ q.pending = NoLine
  PROVE  EvidenceInv'
<1>1. /\ UNCHANGED <<head, calls, captures, represented, observed, disposition, case>>
      /\ (Working' <=> Working) /\ \A m \in Labels : conn'[m].ops = conn[m].ops
  BY AloneKeeps DEF Turn
<1>2. /\ proc'[l] = q /\ control'[l] = <<>>
      /\ \A o : o \in Among(output'[l]) <=> o \in Among(output[l]) \/ o \in T
      /\ \A o \in Among(output[l]) : o.kind # "response"
  BY DEF Turn
<1>3. WorldOK(l) /\ SaidOK(l)
  BY DEF EvidenceInv, WorldInv, SaidInv
<1>4. WorldOK(l)'
  BY <1>1, <1>2, AmongNone DEF WorldOK
<1>5. SaidOK(l)'
  <2>1. ASSUME NEW o \in Among(output'[l]) PROVE Says(l, o)'
    <3>1. CASE o \in Among(output[l])
      BY <1>1, <1>2, <1>3, <3>1 DEF SaidOK, Says
    <3>2. CASE o \in T
      BY <1>1, <1>2, <3>2 DEF Says
    <3>3. QED
      BY <1>2, <3>1, <3>2
  <2>2. QED
    BY <2>1 DEF SaidOK
<1>6. ASSUME l \in Domains PROVE RecordOK(l)' /\ ClaimOK(l)'
  <2>1. RecordOK(l) /\ ClaimOK(l)
    BY <1>6 DEF EvidenceInv, RecordInv, ClaimInv
  <2>2. /\ represented'[l] = "R1" => head' = "R1" /\ "materialize_0002" \in conn'[l].ops
        /\ represented'[l] # "none" => "materialize_0001" \in conn'[l].ops
    BY <1>1, <2>1 DEF RecordOK
  <2>3. represented'[l] = "R0" /\ head' = "R0" => proc'[l].world = Pair("R0")
    BY <1>1, <1>2, <2>1 DEF RecordOK
  <2>4. observed'[l] = Pair("R1") => proc'[l].world = Pair("R1")
    BY <1>1, <1>2, <2>1 DEF RecordOK
  <2>5. l \in captures' => proc'[l].emitted /\ represented'[l] # "none"
    BY <1>1, <1>2, <2>1 DEF RecordOK
  <2>6. Working' /\ proc'[l].generation # "none" =>
          represented'[l] # "none" \/ \E o \in Among(output'[l]) : Receipt(o)
    BY <1>1, <1>2, <2>1 DEF RecordOK
  <2>7. RecordOK(l)'
    BY <2>2, <2>3, <2>4, <2>5, <2>6 DEF RecordOK
  <2>8. ClaimOK(l)'
    BY <1>1, <1>2, <1>6, <2>1, AmongNone DEF ClaimOK
  <2>9. QED
    BY <2>7, <2>8
<1>7. QED
  BY <1>4, <1>5, <1>6, AloneFrame DEF Turn

LEMMA RepliesTurn ==
  ASSUME CohortInv, NEW l \in Labels, NEW q, NEW t \in Seq(Objects), Alone(l), Reads(l), Answer(l, q, t)
  PROVE  /\ Turn(l, q, Among(t)) /\ proc[l].pending = NoLine /\ Line(l) \in Among(control[l])
<1>0. TypeInv /\ ProcessTypes /\ ExchangeInv
  BY DEF CohortInv, TypeInv
<1>1. /\ control'[l] = Tail(control[l]) /\ output'[l] = output[l] \o t /\ proc'[l] = q
      /\ output[l] \in Seq(Objects)
      /\ \A m \in Labels : m # l => control'[m] = control[m] /\ output'[m] = output[m] /\ proc'[m] = proc[m]
  BY <1>0, ReplyQueues
<1>2. /\ Tail(control[l]) = <<>> /\ Silent(output[l]) /\ proc[l].pending = NoLine
      /\ 1 \in DOMAIN control[l] /\ Line(l) = control[l][1]
  BY <1>0, Alone1
<1>3. \A o : o \in Among(output'[l]) <=> o \in Among(output[l]) \/ o \in Among(t)
  BY <1>1, AmongJoin
<1>4. \A o \in Among(output[l]) : o.kind # "response"
  BY <1>2 DEF Silent, Among
<1>5. Line(l) \in Among(control[l])
  BY <1>2 DEF Among
<1>6. QED
  BY <1>1, <1>2, <1>3, <1>4, <1>5 DEF Turn

LEMMA Told1 ==
  ASSUME NEW p, NEW q, NEW t, Tells(p, q, t)
  PROVE  \A o \in Among(t) :
           /\ o.seen = Pair("R1") => q.world = Pair("R1")
           /\ o.kind = "response" /\ o.code = "ok" =>
                /\ o.op = "materialize_0001" => q.world = Pair("R0")
                /\ o.op = "materialize_0002" => p.pending # NoLine
                /\ o.op = "emit_0001" => q.emitted
<1>1. ASSUME NEW o \in Among(t)
      PROVE  /\ o.seen = Pair("R1") => q.world = Pair("R1")
             /\ o.kind = "response" /\ o.code = "ok" =>
                  /\ o.op = "materialize_0001" => q.world = Pair("R0")
                  /\ o.op = "materialize_0002" => p.pending # NoLine
                  /\ o.op = "emit_0001" => q.emitted
  <2>1. PICK i \in DOMAIN t : o = t[i]
    BY DEF Among
  <2>2. QED
    BY <2>1 DEF Tells
<1>2. QED
  BY <1>1

LEMMA RepliesEvidence ==
  ASSUME CohortInv, EvidenceInv, NEW l \in Labels, NEW q, NEW t, Alone(l), Replies(l, q, t)
  PROVE  EvidenceInv'
<1> DEFINE p == proc[l]
           T == Among(t)
<1>0. TypeInv /\ WorldOK(l)
  BY DEF CohortInv, EvidenceInv, WorldInv
<1>1. /\ Reads(l) /\ Answer(l, q, t) /\ t \in Seq(Objects) /\ q.pending = NoLine /\ Tells(p, q, t)
      /\ \/ Same(p, q) /\ (q.emitted => p.emitted \/ p.world = Pair("R0"))
         \/ /\ Line(l).op = "materialize_0001" /\ p.generation = "none"
            /\ ~p.emitted /\ ~q.emitted
            /\ q.generation = "R0" /\ q.world # Pair("R1")
            /\ \E i \in DOMAIN t : t[i].kind = "response" /\ t[i].op = "materialize_0001"
  BY DEF Replies, SoleResponse
<1>2. Turn(l, q, T) /\ p.pending = NoLine /\ Line(l) \in Among(control[l])
  BY <1>1, RepliesTurn
<1>3. \A o \in T :
        /\ o.seen = Pair("R1") => q.world = Pair("R1")
        /\ o.kind = "response" /\ o.code = "ok" =>
             /\ o.op = "materialize_0001" /\ head = "R0" => q.world = Pair("R0")
             /\ o.op = "materialize_0002" => head = "R1"
             /\ o.op = "emit_0001" => q.emitted
  BY <1>1, <1>2, Told1
<1>4. (\E i \in DOMAIN t : t[i].kind = "response" /\ t[i].op = "materialize_0001") => \E o \in T : Receipt(o)
  BY DEF Among, Receipt
<1> HIDE DEF T
<1>5. /\ \A r \in {"R0", "R1"} : p.world = Pair(r) => p.generation = r
      /\ p.emitted => p.generation # "none" /\ (head = "R0" => p.world = Pair("R0"))
  BY <1>0 DEF WorldOK
<1> HIDE DEF p
<1>6. CASE Same(p, q) /\ (q.emitted => p.emitted \/ p.world = Pair("R0"))
  <2>1. /\ \A r \in {"R0", "R1"} : q.world = Pair(r) => q.generation = r
        /\ q.emitted => q.generation # "none" /\ (head = "R0" => q.world = Pair("R0"))
        /\ p.emitted => q.emitted
        /\ p.world = Pair("R1") => q.world = Pair("R1")
        /\ p.world = Pair("R0") => q.world = Pair("R0")
        /\ q.world = p.world /\ q.generation = p.generation
    BY <1>5, <1>6 DEF Same
  <2>2. QED
    BY <1>0, <1>1, <1>2, <1>3, <2>1, TurnFrame DEF p
<1>7. CASE /\ Line(l).op = "materialize_0001" /\ p.generation = "none"
           /\ ~p.emitted /\ ~q.emitted
           /\ q.generation = "R0" /\ q.world # Pair("R1")
           /\ \E i \in DOMAIN t : t[i].kind = "response" /\ t[i].op = "materialize_0001"
  <2>1. p.world # Pair("R0") /\ p.world # Pair("R1")
    BY <1>5, <1>7
  <2>2. \A r \in {"R0", "R1"} : q.world = Pair(r) => q.generation = r
    BY <1>7
  <2>3. ASSUME l \in Domains, disposition[l] = "current" PROVE FALSE
    <3>1. ~Effective(Line(l))
      BY <1>2, <2>3 DEF EvidenceInv, ClaimInv, ClaimOK
    <3>2. QED
      BY <1>7, <3>1 DEF Effective
  <2>4. \E o \in T : Receipt(o)
    BY <1>4, <1>7
  <2>5. QED
    BY <1>0, <1>1, <1>2, <1>3, <1>7, <2>1, <2>2, <2>3, <2>4, TurnFrame DEF p
<1>8. QED
  BY <1>1, <1>6, <1>7 DEF p

LEMMA ReplacesEvidence ==
  ASSUME CohortInv, EvidenceInv, NEW l \in Labels, NEW q, Alone(l), Replaces(l, q)
  PROVE  EvidenceInv'
<1> DEFINE p == proc[l]
           T == Among(<<>>)
<1>0. TypeInv /\ WorldOK(l)
  BY DEF CohortInv, EvidenceInv, WorldInv
<1>1. /\ Reads(l) /\ Answer(l, q, <<>>) /\ <<>> \in Seq(Objects)
      /\ q.pending = Line(l) /\ Line(l).op = "materialize_0002" /\ Line(l).record = "R1"
      /\ p.generation = "R0" /\ q.generation = "R0" /\ q.world = Empty /\ (p.emitted => q.emitted)
      /\ (q.emitted => p.emitted)
  BY DEF Replaces
<1>2. Turn(l, q, T) /\ Line(l) \in Among(control[l])
  BY <1>1, RepliesTurn
<1>3. head = "R1"
  BY <1>0, <1>1, <1>2 DEF WorldOK
<1>4. p.world # Pair("R1")
  BY <1>0, <1>1 DEF WorldOK
<1>5. q.world # Pair("R0") /\ q.world # Pair("R1")
  BY <1>1, NotPair
<1>6. ASSUME l \in Domains, disposition[l] = "current" PROVE FALSE
  <2>1. ~Effective(Line(l))
    BY <1>2, <1>6 DEF EvidenceInv, ClaimInv, ClaimOK
  <2>2. QED
    BY <1>1, <2>1 DEF Effective
<1>7. \A o \in T : FALSE
  BY AmongNone
<1> HIDE DEF T
<1>8. \A r \in {"R0", "R1"} : q.world = Pair(r) => q.generation = r
  BY <1>5
<1>9. QED
  BY <1>0, <1>1, <1>2, <1>3, <1>4, <1>6, <1>7, <1>8, TurnFrame

LEMMA CompletesEvidence ==
  ASSUME CohortInv, EvidenceInv, NEW l \in Labels, NEW q, NEW t, Alone(l), Completes(l, q, t)
  PROVE  EvidenceInv'
<1> DEFINE p == proc[l]
           T == Among(t)
<1>0. TypeInv /\ ProcessTypes /\ WorldOK(l) /\ Orderly(l)
  BY DEF CohortInv, TypeInv, EvidenceInv, WorldInv, ExchangeInv
<1>1. /\ p.pending # NoLine /\ t \in Seq(Objects) /\ q.pending = NoLine /\ Tells(p, q, t)
      /\ p.emitted => q.emitted
      /\ q.emitted => p.emitted
      /\ Same(p, q) \/ (q.generation = "R1" /\ q.world # Pair("R0"))
  BY DEF Completes, SoleResponse
<1>2. p.generation = "R0" /\ p.world = Empty /\ head = "R1"
  BY <1>0, <1>1 DEF WorldOK
<1>3. /\ output[l] \in Seq(Objects) /\ control' = control
      /\ output'[l] = output[l] \o t /\ proc'[l] = q
      /\ \A m \in Labels : m # l => output'[m] = output[m] /\ proc'[m] = proc[m]
  BY <1>0, CompletionQueues
<1>4. control[l] = <<>> /\ Silent(output[l])
  BY <1>0, <1>1 DEF Orderly
<1>5. Turn(l, q, T)
  <2>1. \A o : o \in Among(output'[l]) <=> o \in Among(output[l]) \/ o \in T
    BY <1>1, <1>3, AmongJoin
  <2>2. \A o \in Among(output[l]) : o.kind # "response"
    BY <1>4 DEF Silent, Among
  <2>3. QED
    BY <1>3, <1>4, <2>1, <2>2 DEF Turn
<1>6. \A o \in T :
        /\ o.seen = Pair("R1") => q.world = Pair("R1")
        /\ o.kind = "response" /\ o.code = "ok" =>
             /\ o.op = "materialize_0001" /\ head = "R0" => q.world = Pair("R0")
             /\ o.op = "materialize_0002" => head = "R1"
             /\ o.op = "emit_0001" => q.emitted
  BY <1>1, <1>2, Told1
<1> HIDE DEF T
<1>7. p.world # Pair("R0") /\ p.world # Pair("R1")
  BY <1>2, NotPair
<1>8. /\ \A r \in {"R0", "R1"} : q.world = Pair(r) => q.generation = r
      /\ q.emitted => q.generation # "none"
  BY <1>1, <1>2, <1>7 DEF Same
<1>9. ASSUME l \in Domains, disposition[l] = "current" PROVE FALSE
  BY <1>1, <1>9 DEF EvidenceInv, ClaimInv, ClaimOK
<1>10. QED
  BY <1>0, <1>1, <1>2, <1>5, <1>6, <1>7, <1>8, <1>9, TurnFrame

LEMMA BootEvidence ==
  ASSUME CohortInv, EvidenceInv, NEW l \in Labels, Alone(l), Boot(l)
  PROVE  EvidenceInv'
<1>0. TypeInv /\ ProcessTypes
  BY DEF CohortInv, TypeInv
<1>1. /\ control' = control /\ proc' = [proc EXCEPT ![l].started = TRUE]
      /\ output' = [output EXCEPT ![l] = Append(@, Greeting)]
  BY DEF Boot, Greeting
<1>2. Held(l) /\ \A m \in Labels : m # l => proc'[m] = proc[m]
  <2>1. PICK p \in Processes : p = proc[l]
    BY <1>0 DEF ProcessTypes
  <2>2. proc'[l] = [p EXCEPT !.started = TRUE] /\ \A m \in Labels : m # l => proc'[m] = proc[m]
    BY <1>0, <1>1, <2>1 DEF ProcessTypes
  <2>3. \A r : r = [p EXCEPT !.started = TRUE] =>
          r.world = p.world /\ r.generation = p.generation /\ r.pending = p.pending /\ (r.emitted <=> p.emitted)
    BY DEF Processes
  <2>4. QED
    BY <2>1, <2>2, <2>3 DEF Held
<1>3. /\ output'[l] = Append(output[l], Greeting) /\ output[l] \in Seq(Objects)
      /\ \A m \in Labels : m # l => output'[m] = output[m]
  BY <1>0, <1>1 DEF ProcessTypes
<1>4. /\ \A o : o \in Among(output'[l]) <=> o \in Among(output[l]) \/ o = Greeting
      /\ Greeting.kind # "response" /\ Greeting.seen # Pair("R1")
  BY <1>3, AmongGreeted, NotPair DEF Greeting, Event
<1>5. /\ UNCHANGED <<head, calls, captures, represented, observed, disposition, case>> /\ Onward
      /\ (Working' <=> Working) /\ \A m \in Labels : conn'[m].ops = conn[m].ops
  BY <1>0, AloneKeeps
<1>6. WorldOK(l)' /\ SaidOK(l)'
  <2>1. WorldOK(l) /\ SaidOK(l)
    BY DEF EvidenceInv, WorldInv, SaidInv
  <2>2. WorldOK(l)'
    BY <1>1, <1>2, <1>5, <2>1, WorldFrame
  <2>3. SaidOK(l)'
    BY <1>2, <1>4, <1>5, <2>1, SaidFrame
  <2>4. QED
    BY <2>2, <2>3
<1>7. ASSUME l \in Domains PROVE RecordOK(l)' /\ ClaimOK(l)'
  <2>1. RecordOK(l) /\ ClaimOK(l) /\ conn[l].ops \subseteq conn'[l].ops
    BY <1>5, <1>7 DEF EvidenceInv, RecordInv, ClaimInv
  <2>2. RecordOK(l)'
    BY <1>2, <1>4, <1>5, <2>1, RecordFrame
  <2>3. ClaimOK(l)'
    BY <1>1, <1>2, <1>5, <2>1, ClaimFrame
  <2>4. QED
    BY <2>2, <2>3
<1>8. QED
  BY <1>0, <1>1, <1>2, <1>3, <1>6, <1>7, AloneFrame

LEMMA AloneEvidence ==
  ASSUME CohortInv, EvidenceInv, NEW l \in Labels, Alone(l)
  PROVE  EvidenceInv'
<1>0. TypeInv /\ ProcessTypes
  BY DEF CohortInv, TypeInv
<1>1. ASSUME Exits(l, "exited") \/ DrainFails(l) PROVE EvidenceInv'
  <2>1. /\ UNCHANGED <<case, control, output>>
        /\ proc' = proc \/ proc' = [proc EXCEPT ![l].life = "exited"]
    BY <1>1 DEF Exits, DrainFails, processVars
  <2>2. \A m \in Labels : Held(m)
    <3>1. CASE proc' = proc
      BY <3>1 DEF Held
    <3>2. CASE proc' = [proc EXCEPT ![l].life = "exited"]
      BY <1>0, <3>2, LifeHeld
    <3>3. QED
      BY <2>1, <3>1, <3>2
  <2>3. /\ UNCHANGED <<canonicalVars, claimVars, disposition, stage>> /\ \A m \in Labels : conn'[m].ops = conn[m].ops
    BY <1>0, AloneConn
  <2>4. Still /\ Kept /\ Backs
    BY <2>1, <2>2, <2>3 DEF Still, Kept, Backs, Working
  <2>5. QED
    BY <2>3, <2>4, StillEvidence
<1>2. CASE Process(l)
  <2>1. Tick(l) \/ SpawnFailure(l)
    BY <1>2 DEF Process
  <2>2. \/ \E q, t : Replies(l, q, t) \/ Completes(l, q, t)
        \/ \E q : Replaces(l, q)
        \/ Boot(l) \/ Exits(l, "exited")
    BY <1>0, <2>1, ProcessDeeds
  <2>3. QED
    BY <1>1, <2>2, RepliesEvidence, ReplacesEvidence, CompletesEvidence, BootEvidence
<1>3. CASE Dies(l) \/ CrashMishap(l) \/ DrainFails(l)
  BY <1>1, <1>3 DEF Dies, CrashMishap, Crash
<1>4. QED
  BY <1>2, <1>3 DEF Alone

LEMMA EvidenceInit == Init => EvidenceInv
<1> SUFFICES ASSUME Init PROVE EvidenceInv
  OBVIOUS
<1>1. /\ \A l \in Labels : proc[l] = AbsentProcess /\ control[l] = <<>> /\ output[l] = <<>>
      /\ head = "R0" /\ calls = 0 /\ captures = {}
      /\ \A d \in Domains : represented[d] = "none" /\ observed[d] = Empty /\ disposition[d] = "unclaimed"
  BY DEF Init, ProcessInit
<1>2. /\ AbsentProcess.world = Empty /\ AbsentProcess.pending = NoLine /\ ~AbsentProcess.emitted
      /\ AbsentProcess.generation = "none"
  BY DEF AbsentProcess
<1>3. ASSUME NEW l \in Labels PROVE WorldOK(l) /\ SaidOK(l)
  <2>1. WorldOK(l)
    BY <1>1, <1>2, AmongNone, NotPair DEF WorldOK
  <2>2. SaidOK(l)
    BY <1>1, AmongNone DEF SaidOK
  <2>3. QED
    BY <2>1, <2>2
<1>4. ASSUME NEW d \in Domains PROVE RecordOK(d) /\ ClaimOK(d)
  <2>1. d \in Labels
    BY DomainLabels
  <2>2. RecordOK(d)
    BY <1>1, <1>2, <2>1, NotPair DEF RecordOK
  <2>3. ClaimOK(d)
    BY <1>1 DEF ClaimOK
  <2>4. QED
    BY <2>2, <2>3
<1>5. CallInv
  BY <1>1 DEF CallInv
<1>6. QED
  BY <1>3, <1>4, <1>5 DEF EvidenceInv, WorldInv, SaidInv, RecordInv, ClaimInv

LEMMA EvidenceNext == CohortInv /\ EvidenceInv /\ [Next]_vars => EvidenceInv'
<1> SUFFICES ASSUME CohortInv, EvidenceInv, [Next]_vars PROVE EvidenceInv'
  OBVIOUS
<1>0. TypeInv /\ StepOK
  BY StepShape DEF CohortInv, TypeInv
<1>1. ASSUME UNCHANGED vars PROVE EvidenceInv'
  <2>1. /\ UNCHANGED <<case, proc, control, output, conn, stage, canonicalVars, claimVars, disposition>>
    BY <1>1 DEF vars, processVars
  <2>2. Still /\ Kept /\ Backs /\ \A m \in Labels : conn'[m].ops = conn[m].ops
    BY <2>1 DEF Still, Held, Kept, Backs, Working
  <2>3. QED
    BY <2>2, StillEvidence
<1>2. CASE QuietSteps
  <2>1. Still /\ Kept /\ Backs /\ conn' = conn
    BY <1>0, <1>2, QuietDeed
  <2>2. QED
    BY <2>1, StillEvidence
<1>3. CASE Judges \/ CanonicalCall \/ Exchanges
  BY <1>0, <1>3, JudgedEvidence, CallEvidence, ExchangeEvidence
<1>4. ASSUME NEW l \in Labels, Alone(l) PROVE EvidenceInv'
  BY <1>4, AloneEvidence
<1>5. QED
  BY <1>1, <1>2, <1>3, <1>4 DEF Next, Parent, QuietSteps, Judges, Exchanges, Alone, Finished

\* Who moves the head, and who changes what is claimed.
LEMMA HeadMoves ==
  ASSUME CohortInv, EvidenceInv, [Next]_vars, head' # head PROVE Grounded /\ CanonicalCall
<1>0. TypeInv /\ StepOK
  BY StepShape DEF CohortInv, TypeInv
<1>1. CASE UNCHANGED vars
  BY <1>1 DEF vars, canonicalVars
<1>2. CASE QuietSteps
  <2>1. Kept
    BY <1>0, <1>2, QuietDeed
  <2>2. QED
    BY <2>1 DEF Kept, canonicalVars
<1>3. CASE Judges
  BY <1>3 DEF Judges, Classify, Claim, Census, canonicalVars
<1>4. CASE Exchanges
  <2>1. PICK l, c : Begins(l, c) \/ Writes(l, c) \/ Listens(l, c) \/ TakesAnswer(l, c) \/ Loses(l, c)
    BY <1>0, <1>4, ExchangeDeeds, Greeted DEF CohortInv
  <2>2. QED
    BY <2>1 DEF Begins, Writes, Listens, TakesAnswer, Loses, Kept, canonicalVars
<1>5. ASSUME NEW l \in Labels, Alone(l) PROVE FALSE
  BY <1>0, <1>5, AloneKeeps
<1>6. CASE CanonicalCall
  BY <1>0, <1>6, CallGrounded
<1>7. QED
  BY <1>1, <1>2, <1>3, <1>4, <1>5, <1>6 DEF Next, Parent, QuietSteps, Judges, Exchanges, Alone, Finished

\* The head of a live case moves once, and on the evidence of both processes: they have emitted from
\* the R0 they were given, and nothing is claimed of either (run_prefix, CanonicalRoundTrip.call).
THEOREM OnEvidence == Spec => PublishedOnEvidence
<1> DEFINE Publishes ==
      head' # head =>
        /\ head = "R0" /\ head' = "R1"
        /\ captures = Domains /\ disposition = Unclaimed
        /\ \A d \in Domains : proc[d].emitted /\ represented[d] = "R0"
<1>1. CohortInv /\ EvidenceInv /\ [Next]_vars => Publishes
  BY HeadMoves DEF Grounded
<1>2. CohortInv /\ EvidenceInv /\ [Next]_vars => [Publishes]_vars
  BY <1>1
<1> HIDE DEF Publishes
<1>3. Spec => [][Publishes]_vars
  BY <1>2, CohortInit, CohortNext, EvidenceInit, EvidenceNext, PTL DEF Spec
<1>4. QED
  BY <1>3 DEF Publishes, PublishedOnEvidence

-----------------------------------------------------------------------------
(* The live case keeps the law of the round trip *)

SayOf(x) == IF x \in {"current", "stale"} THEN x ELSE "none"
ShowOf(w) == IF w \in {Pair("R0"), Pair("R1")} THEN w.anchor ELSE "other"
Said == [d \in Domains |-> SayOf(disposition[d])]
Shown == [d \in Domains |-> ShowOf(proc[d].world)]

LEMMA ShowsPair ==
  /\ \A r \in {"R0", "R1"} : ShowOf(Pair(r)) = r
  /\ \A w : ShowOf(w) \in {"R0", "R1", "other"}
<1>1. Pair("R0").anchor = "R0" /\ Pair("R1").anchor = "R1"
  BY DEF Pair
<1>2. QED
  BY <1>1 DEF ShowOf

\* The worlds stay as they are, and so does the head.
WorldsStay == \A d \in Domains : proc'[d].world = proc[d].world
ClaimOf(d, x) == disposition' = [disposition EXCEPT ![d] = x]

LEMMA WorldsShown == ASSUME WorldsStay PROVE Shown' = Shown
<1>1. \A d \in Domains : ShowOf(proc'[d].world) = ShowOf(proc[d].world)
  BY DEF WorldsStay
<1>2. QED
  BY <1>1 DEF Shown

LEMMA JudgedClaims ==
  ASSUME Judges
  PROVE  /\ UNCHANGED <<head, proc>>
         /\ disposition' \in {disposition, Unclaimed} \/ \E x : ClaimOf(Step.on, x)
<1>1. UNCHANGED <<head, proc>>
  BY DEF Judges, Classify, Claim, Census, canonicalVars, processVars
<1>2. CASE Classify
  BY <1>1, <1>2 DEF Classify, Proceeds, RaisesCode, Raises, ClaimOf
<1>3. CASE Claim
  BY <1>1, <1>3 DEF Claim, Proceeds, ClaimOf
<1>4. CASE Census
  BY <1>1, <1>4 DEF Census, Proceeds, Raises, ClaimOf
<1>5. QED
  BY <1>2, <1>3, <1>4 DEF Judges

LEMMA ExchangeClaims ==
  ASSUME CohortInv, StepOK, Exchanges
  PROVE  UNCHANGED <<head, proc>> /\ disposition' \in {disposition, Unclaimed}
<1>0. TypeInv
  BY DEF CohortInv
<1>1. PICK l, c : Begins(l, c) \/ Writes(l, c) \/ Listens(l, c) \/ TakesAnswer(l, c) \/ Loses(l, c)
  BY <1>0, ExchangeDeeds, Greeted DEF CohortInv
<1>2. UNCHANGED <<head, proc>>
  BY <1>1 DEF Begins, Writes, Listens, TakesAnswer, Loses, Ties, Kept, canonicalVars
<1>3. disposition' \in {disposition, Unclaimed}
  BY <1>1 DEF Begins, Writes, Listens, TakesAnswer, Loses, Undecided, Proceeds, RaisesCode, Raises
<1>4. QED
  BY <1>2, <1>3

LEMMA AloneOthers ==
  ASSUME TypeInv, NEW l \in Labels, Alone(l)
  PROVE  UNCHANGED <<head, disposition>> /\ \A m \in Labels : m # l => proc'[m] = proc[m]
<1>0. ProcessTypes
  BY DEF TypeInv
<1>1. UNCHANGED <<head, disposition>>
  BY AloneKeeps
<1>2. ASSUME Exits(l, "exited") \/ DrainFails(l) \/ Boot(l)
      PROVE  \A m \in Labels : m # l => proc'[m] = proc[m]
  BY <1>0, <1>2 DEF Exits, DrainFails, Boot, processVars, ProcessTypes
<1>3. CASE Process(l)
  <2>1. Tick(l) \/ SpawnFailure(l)
    BY <1>3 DEF Process
  <2>2. \/ \E q, t : Replies(l, q, t) \/ Completes(l, q, t)
        \/ \E q : Replaces(l, q)
        \/ Boot(l) \/ Exits(l, "exited")
    BY <1>0, <2>1, ProcessDeeds
  <2>3. ASSUME NEW q, NEW t, Answer(l, q, t) \/ Completes(l, q, t)
        PROVE  \A m \in Labels : m # l => proc'[m] = proc[m]
    BY <1>0, <2>3 DEF Answer, Completes, ProcessTypes
  <2>4. QED
    BY <1>1, <1>2, <2>2, <2>3 DEF Replies, Replaces
<1>4. CASE Dies(l) \/ CrashMishap(l) \/ DrainFails(l)
  BY <1>1, <1>2, <1>4 DEF Dies, CrashMishap, Crash
<1>5. QED
  BY <1>1, <1>3, <1>4 DEF Alone

\* Whoever acts, it claims or withdraws, publishes, or changes one world.
LEMMA LawfulSteps ==
  ASSUME CohortInv, EvidenceInv, [Next]_vars
  PROVE  \/ WorldsStay /\ disposition' \in {disposition, Unclaimed}
         \/ WorldsStay /\ head' = head /\ \E d, x : ClaimOf(d, x)
         \/ \E l \in Labels : /\ UNCHANGED <<head, disposition>>
                              /\ \A m \in Labels : m # l => proc'[m] = proc[m]
<1>0. TypeInv /\ StepOK
  BY StepShape DEF CohortInv, TypeInv
<1>1. proc' = proc => WorldsStay
  BY DEF WorldsStay
<1>2. CASE UNCHANGED vars
  BY <1>1, <1>2 DEF vars, processVars
<1>3. CASE QuietSteps
  <2>1. Still /\ Backs
    BY <1>0, <1>3, QuietDeed
  <2>2. WorldsStay
    BY <2>1, DomainLabels DEF Still, Held, WorldsStay
  <2>3. QED
    BY <2>1, <2>2 DEF Backs
<1>4. CASE Judges
  BY <1>1, <1>4, JudgedClaims
<1>5. CASE Exchanges
  BY <1>0, <1>1, <1>5, ExchangeClaims
<1>6. CASE CanonicalCall
  <2>1. proc' = proc /\ disposition' \in {disposition, Unclaimed}
    BY <1>6 DEF CanonicalCall, processVars, Proceeds, Raises
  <2>2. QED
    BY <1>1, <2>1
<1>7. ASSUME NEW l \in Labels, Alone(l)
      PROVE  UNCHANGED <<head, disposition>> /\ \A m \in Labels : m # l => proc'[m] = proc[m]
  BY <1>0, <1>7, AloneOthers
<1>8. QED
  BY <1>2, <1>3, <1>4, <1>5, <1>6, <1>7
    DEF Next, Parent, QuietSteps, Judges, Exchanges, Alone, Finished

\* What is said is true, as the law has it.
TrueClaims(h, say, show) ==
  \A d \in Domains : /\ say[d] = "current" => show[d] = h
                     /\ say[d] = "stale" => h = "R1"

LEMMA SaidTruly == CohortInv /\ EvidenceInv => TrueClaims(head, Said, Shown)
<1> SUFFICES ASSUME CohortInv, EvidenceInv, NEW d \in Domains
             PROVE  /\ Said[d] = "current" => Shown[d] = head
                    /\ Said[d] = "stale" => head = "R1"
  BY DEF TrueClaims
<1>1. ClaimOK(d) /\ head \in {"R0", "R1"}
  BY DEF EvidenceInv, ClaimInv, CohortInv, TypeInv, CanonicalTypes
<1>2. Said[d] = SayOf(disposition[d]) /\ Shown[d] = ShowOf(proc[d].world)
  BY DEF Said, Shown
<1>3. ASSUME Said[d] = "current" PROVE Shown[d] = head
  <2>1. disposition[d] = "current"
    BY <1>2, <1>3 DEF SayOf
  <2>2. proc[d].world = Pair(head)
    BY <1>1, <2>1 DEF ClaimOK
  <2>3. QED
    BY <1>1, <1>2, <2>2, ShowsPair
<1>4. ASSUME Said[d] = "stale" PROVE head = "R1"
  <2>1. disposition[d] = "stale"
    BY <1>2, <1>4 DEF SayOf
  <2>2. QED
    BY <1>1, <2>1 DEF ClaimOK
<1>5. QED
  BY <1>3, <1>4

LEMMA SaidTrulyThen ==
  ASSUME CohortInv', EvidenceInv' PROVE TrueClaims(head', Said', Shown')
<1> SUFFICES ASSUME NEW d \in Domains
             PROVE  /\ Said'[d] = "current" => Shown'[d] = head'
                    /\ Said'[d] = "stale" => head' = "R1"
  BY DEF TrueClaims
<1>1. ClaimOK(d)' /\ head' \in {"R0", "R1"}
  BY DEF EvidenceInv, ClaimInv, CohortInv, TypeInv, CanonicalTypes
<1>2. Said'[d] = SayOf(disposition'[d]) /\ Shown'[d] = ShowOf(proc'[d].world)
  BY DEF Said, Shown
<1>3. ASSUME Said'[d] = "current" PROVE Shown'[d] = head'
  <2>1. disposition'[d] = "current"
    BY <1>2, <1>3 DEF SayOf
  <2>2. proc'[d].world = Pair(head')
    BY <1>1, <2>1 DEF ClaimOK
  <2>3. QED
    BY <1>1, <1>2, <2>2, ShowsPair
<1>4. ASSUME Said'[d] = "stale" PROVE head' = "R1"
  <2>1. disposition'[d] = "stale"
    BY <1>2, <1>4 DEF SayOf
  <2>2. QED
    BY <1>1, <2>1 DEF ClaimOK
<1>5. QED
  BY <1>3, <1>4

LEMMA StepWithdraws ==
  ASSUME WorldsStay, head' = head, disposition' \in {disposition, Unclaimed}
  PROVE  Law!Next \/ UNCHANGED Law!lawVars
<1>1. Shown' = Shown
  BY WorldsShown
<1>2. CASE disposition' = disposition
  <2>1. Said' = Said
    BY <1>2 DEF Said
  <2>2. QED
    BY <1>1, <2>1 DEF Law!lawVars, Said, Shown, SayOf, ShowOf
<1>3. CASE disposition' = Unclaimed
  <2>1. Said' = [d \in Domains |-> IF d \in Domains THEN "none" ELSE Said[d]]
    BY <1>3 DEF Said, SayOf, Unclaimed
  <2>2. Law!Withdraw
    BY <1>1, <2>1 DEF Law!Withdraw, Said, Shown, SayOf, ShowOf
  <2>3. QED
    BY <2>2 DEF Law!Next
<1>4. QED
  BY <1>2, <1>3

LEMMA StepClaims ==
  ASSUME CohortInv, CohortInv', EvidenceInv', WorldsStay, head' = head, NEW d, NEW x, ClaimOf(d, x)
  PROVE  Law!Next \/ UNCHANGED Law!lawVars
<1>0. disposition \in [Domains -> Claims]
  BY DEF CohortInv, TypeInv, EndTypes
<1>1. Shown' = Shown
  BY WorldsShown
<1>2. CASE d \notin Domains
  <2>1. disposition' = disposition
    BY <1>0, <1>2 DEF ClaimOf
  <2>2. QED
    BY <2>1, StepWithdraws
<1>3. CASE d \in Domains
  <2>1. /\ disposition'[d] = x
        /\ \A m \in Domains : m # d => disposition'[m] = disposition[m]
    BY <1>0, <1>3 DEF ClaimOf
  <2>2. Said' = [m \in Domains |-> IF m = d THEN SayOf(x) ELSE Said[m]]
    <3>1. \A m \in Domains : SayOf(disposition'[m]) = IF m = d THEN SayOf(x) ELSE SayOf(disposition[m])
      BY <2>1
    <3>2. \A m \in Domains : Said[m] = SayOf(disposition[m])
      BY DEF Said
    <3>3. QED
      BY <3>1, <3>2 DEF Said
  <2>3. /\ SayOf(x) = "current" => Shown[d] = head
        /\ SayOf(x) = "stale" => head = "R1"
    <3>1. Said'[d] = SayOf(x)
      BY <1>3, <2>2
    <3>2. QED
      BY <1>1, <1>3, <3>1, SaidTrulyThen DEF TrueClaims
  <2>4. SayOf(x) \in {"current", "stale", "none"}
    BY DEF SayOf
  <2>5. CASE SayOf(x) = "none"
    <3>1. Said' = [m \in Domains |-> IF m \in {d} THEN "none" ELSE Said[m]]
      BY <2>2, <2>5
    <3>2. {d} \in SUBSET Domains
      BY <1>3
    <3>3. Law!Withdraw
      BY <1>1, <3>1, <3>2 DEF Law!Withdraw, Said, Shown, SayOf, ShowOf
    <3>4. QED
      BY <3>3 DEF Law!Next
  <2>6. Said' = [Said EXCEPT ![d] = SayOf(x)]
    BY <1>3, <2>2 DEF Said
  <2>7. CASE SayOf(x) = "current"
    <3>1. Shown[d] = head /\ Said' = [Said EXCEPT ![d] = "current"]
      BY <2>3, <2>6, <2>7
    <3>2. Law!ClaimCurrent(d)
      BY <1>1, <3>1 DEF Law!ClaimCurrent, Said, Shown, SayOf, ShowOf
    <3>3. QED
      BY <1>3, <3>2 DEF Law!Next
  <2>8. CASE SayOf(x) = "stale"
    <3>1. head = "R1" /\ Said' = [Said EXCEPT ![d] = "stale"]
      BY <2>3, <2>6, <2>8
    <3>2. Law!ClaimStale(d)
      BY <1>1, <3>1 DEF Law!ClaimStale, Said, Shown, SayOf, ShowOf
    <3>3. QED
      BY <1>3, <3>2 DEF Law!Next
  <2>9. QED
    BY <2>4, <2>5, <2>7, <2>8
<1>4. QED
  BY <1>2, <1>3

LEMMA StepPublishes ==
  ASSUME CohortInv, EvidenceInv, Grounded, CanonicalCall
  PROVE  Law!Next
<1>1. proc' = proc /\ disposition' \in {disposition, Unclaimed} /\ disposition = Unclaimed
  BY DEF Grounded, CanonicalCall, processVars, Proceeds, Raises
<1>2. Shown' = Shown
  BY <1>1, WorldsShown DEF WorldsStay
<1>3. Said' = Said
  BY <1>1 DEF Said
<1>4. ASSUME NEW d \in Domains PROVE Said[d] = "none" /\ Shown[d] = "R0"
  <2>1. proc[d].world = Pair("R0")
    BY DEF Grounded, EvidenceInv, RecordInv, RecordOK
  <2>2. Said[d] = SayOf("unclaimed") /\ Shown[d] = ShowOf(Pair("R0"))
    BY <1>1, <2>1 DEF Said, Shown, Unclaimed
  <2>3. QED
    BY <2>2, ShowsPair DEF SayOf
<1>5. Law!Publish
  BY <1>2, <1>3, <1>4 DEF Law!Publish, Grounded, Said, Shown, SayOf, ShowOf
<1>6. QED
  BY <1>5 DEF Law!Next

\* A process changes its world only when the world is not said to be current.
LEMMA StepChanges ==
  ASSUME CohortInv, CohortInv', EvidenceInv, EvidenceInv', NEW l \in Labels, UNCHANGED <<head, disposition>>,
         \A m \in Labels : m # l => proc'[m] = proc[m]
  PROVE  Law!Next \/ UNCHANGED Law!lawVars
<1>1. Said' = Said
  BY DEF Said
<1>2. CASE Shown' = Shown
  BY <1>1, <1>2 DEF Law!lawVars, Said, Shown, SayOf, ShowOf
<1>3. CASE Shown' # Shown
  <2>1. l \in Domains
    <3>1. ASSUME l \notin Domains PROVE WorldsStay
      BY <3>1, DomainLabels DEF WorldsStay
    <3>2. QED
      BY <1>3, <3>1, WorldsShown
  <2>2. Shown' = [Shown EXCEPT ![l] = ShowOf(proc'[l].world)]
    <3>1. \A m \in Domains : m # l => ShowOf(proc'[m].world) = ShowOf(proc[m].world)
      BY DomainLabels
    <3>2. \A m \in Domains : Shown[m] = ShowOf(proc[m].world)
      BY DEF Shown
    <3>3. Shown' = [m \in Domains |-> IF m = l THEN ShowOf(proc'[l].world) ELSE Shown[m]]
      BY <3>1, <3>2 DEF Shown
    <3>4. QED
      BY <3>3 DEF Shown
  <2>3. Said[l] # "current"
    <3>1. ASSUME Said[l] = "current" PROVE Shown' = Shown
      <4>1. Shown[l] = head /\ Shown'[l] = head
        BY <1>1, <2>1, <3>1, SaidTruly, SaidTrulyThen DEF TrueClaims
      <4>2. Shown'[l] = ShowOf(proc'[l].world)
        BY <2>1 DEF Shown
      <4>3. QED
        BY <2>2, <4>1, <4>2 DEF Shown
    <3>2. QED
      BY <1>3, <3>1
  <2>4. ShowOf(proc'[l].world) \in {"R0", "R1", "other"}
    BY ShowsPair
  <2>5. Law!Change(l)
    BY <1>1, <2>2, <2>3, <2>4 DEF Law!Change, Said, Shown, SayOf, ShowOf
  <2>6. QED
    BY <2>1, <2>5 DEF Law!Next
<1>4. QED
  BY <1>2, <1>3

LEMMA LawInit == Init => Law!Init
<1> SUFFICES ASSUME Init PROVE Law!Init
  OBVIOUS
<1>1. \A d \in Domains : disposition[d] = "unclaimed" /\ proc[d].world = Empty
  BY DomainLabels DEF Init, ProcessInit, AbsentProcess
<1>2. Shown = [d \in Domains |-> "other"]
  BY <1>1, NotPair DEF Shown, ShowOf
<1>3. Said = [d \in Domains |-> "none"]
  BY <1>1 DEF Said, SayOf
<1>4. QED
  BY <1>2, <1>3 DEF Init, Law!Init, Said, Shown, SayOf, ShowOf

LEMMA LawNext ==
  ASSUME CohortInv, CohortInv', EvidenceInv, EvidenceInv', [Next]_vars
  PROVE  Law!Next \/ UNCHANGED Law!lawVars
<1>1. CASE head' # head
  <2>1. Grounded /\ CanonicalCall
    BY <1>1, HeadMoves
  <2>2. QED
    BY <2>1, StepPublishes
<1>2. CASE head' = head
  <2>1. CASE WorldsStay /\ disposition' \in {disposition, Unclaimed}
    BY <1>2, <2>1, StepWithdraws
  <2>2. ASSUME WorldsStay, NEW d, NEW x, ClaimOf(d, x) PROVE Law!Next \/ UNCHANGED Law!lawVars
    BY <1>2, <2>2, StepClaims
  <2>3. ASSUME NEW l \in Labels, UNCHANGED <<head, disposition>>,
               \A m \in Labels : m # l => proc'[m] = proc[m]
        PROVE  Law!Next \/ UNCHANGED Law!lawVars
    BY <2>3, StepChanges
  <2>4. QED
    BY <2>1, <2>2, <2>3, LawfulSteps
<1>3. QED
  BY <1>1, <1>2

\* Every live case keeps the law of the round trip, whatever becomes of its processes: a claim is
\* made of a world that shows what is claimed, is withdrawn before the world or the head can change,
\* and the head is published once (_inspect, invalidate_claims, run_prefix, capture_terminal).
THEOREM ObeysTheLaw == Spec => RoundTrip
<1>1. /\ CohortInv /\ EvidenceInv /\ [Next]_vars /\ CohortInv' /\ EvidenceInv' => [Law!Next]_(Law!lawVars)
  BY LawNext
<1>2. QED
  BY <1>1, LawInit, CohortInit, CohortNext, EvidenceInit, EvidenceNext, PTL DEF Spec, RoundTrip, Law!Spec

\* A domain that is said to be current shows the canonical head, for as long as it is said, and one
\* said to be stale is said so of a superseded record (_inspect, capture_terminal).
THEOREM ClaimsAreTrue == Spec => []Law!ClaimsTrue
<1>1. CohortInv /\ EvidenceInv => Law!ClaimsTrue
  BY SaidTruly DEF TrueClaims, Law!ClaimsTrue, Said, Shown, SayOf, ShowOf
<1>2. QED
  BY <1>1, CohortInit, CohortNext, EvidenceInit, EvidenceNext, PTL DEF Spec

\* The canonical head is published once, when nothing is claimed of either domain and both show the
\* record that is superseded (run_prefix, CanonicalRoundTrip.call).
THEOREM HeadMovesUnclaimed == Spec => Law!MovesUnclaimed
<1> DEFINE Publishes ==
      head' # head =>
        /\ head = "R0" /\ head' = "R1"
        /\ \A d \in Domains : Said[d] = "none" /\ Shown[d] = "R0"
<1>1. ASSUME CohortInv, EvidenceInv, [Next]_vars, head' # head
      PROVE  /\ head = "R0" /\ head' = "R1"
             /\ \A d \in Domains : Said[d] = "none" /\ Shown[d] = "R0"
  <2>1. Grounded
    BY <1>1, HeadMoves
  <2>2. \A d \in Domains : Said[d] = SayOf("unclaimed") /\ Shown[d] = ShowOf(Pair("R0"))
    BY <1>1, <2>1 DEF Grounded, EvidenceInv, RecordInv, RecordOK, Said, Shown, Unclaimed
  <2>3. QED
    BY <2>1, <2>2, ShowsPair DEF Grounded, SayOf
<1>2. CohortInv /\ EvidenceInv /\ [Next]_vars => [Publishes]_(Law!lawVars)
  BY <1>1
<1>3. Spec => [][Publishes]_(Law!lawVars)
  BY <1>2, CohortInit, CohortNext, EvidenceInit, EvidenceNext, PTL DEF Spec
<1>4. QED
  BY <1>3 DEF Publishes, Law!MovesUnclaimed, Said, Shown, SayOf, ShowOf

-----------------------------------------------------------------------------
(* The processes of LiveEvidenceClient under any parent, for any witnesses and any bounds: *)
(* their state is typed, a representation is whole unless its process has said otherwise,  *)
(* no operation succeeds twice, and the first pair stands until its successor is           *)
(* authenticated.                                                                          *)
(*                                                                                         *)
(* The invariant is one statement per process about its state and its whole output         *)
(* (Holds): the world of a fault event is the world of every later census, since the       *)
(* process is then terminal, waits for nothing, and dispatches only inspections and its    *)
(* shutdown (WorldTold); what succeeded is used up and no longer pending (Once); and       *)
(* evidence comes after the report of R0, R1 after the evidence (Succeeds).                *)

ClientTyped ==
  /\ proc \in [Labels -> Processes]
  /\ control \in [Labels -> Seq(Lines)]
  /\ output \in [Labels -> Seq(Objects)]
  /\ closed \in [Labels -> BOOLEAN]

WorldSeen(o) == o.op \in Inspections /\ o.code = "ok"

\* A process that works shows the pair of the record it accepted last.
Whole(p) ==
  ~p.terminal /\ p.pending = NoLine /\ p.generation # "none" => p.world = Pair(p.generation)

\* What a fault event in its output says of a process, and of what follows it there.
WorldTold(p, s) ==
  \A i \in DOMAIN s : s[i].kind = "fault_event" =>
    /\ p.consumed /\ p.terminal /\ p.pending = NoLine /\ p.world = s[i].seen
    /\ \A j \in DOMAIN s : i < j /\ WorldSeen(s[j]) => s[j].seen = s[i].seen

\* An object that says an operation succeeded.
Achieved(o) == o.code = "ok" /\ o.op # "none"

\* What has succeeded is used up and not pending, each once, the interaction told before its
\* response; and only the replacement waits.
Once(p, s) ==
  /\ p.pending # NoLine => p.pending.op = "materialize_0002" /\ "materialize_0002" \in p.ops
  /\ \A i \in DOMAIN s : Achieved(s[i]) => s[i].op \in p.ops /\ s[i].op # p.pending.op
  /\ \A i, j \in DOMAIN s :
       s[i].kind = s[j].kind /\ s[i].op = s[j].op /\ Achieved(s[i]) /\ Achieved(s[j]) => i = j
  /\ \A i \in DOMAIN s : s[i].kind = "response" /\ s[i].op = "emit_0001" /\ s[i].code = "ok" =>
       i - 1 \in DOMAIN s /\ s[i - 1].kind = "physical_event"

\* The first pair has been reported.
Reported(s) ==
  \E i \in DOMAIN s : s[i].op = "materialize_0001" /\ s[i].kind = "response" /\ s[i].code = "ok"

\* R1 follows the evidence, and the evidence the report of R0.
Succeeds(p, s) ==
  /\ p.pending # NoLine => p.pending.record = "R1" /\ p.emitted
  /\ p.generation = "R1" => p.emitted
  /\ p.emitted \/ (p.generation # "none" /\ ~p.terminal) => Reported(s)

Holds(p, s) == Whole(p) /\ WorldTold(p, s) /\ Once(p, s) /\ Succeeds(p, s)
ClientInv == ClientTyped /\ \A l \in Labels : Holds(proc[l], output[l])

-----------------------------------------------------------------------------
(* Outputs *)

\* An object appended to an output is found at its end, the others stay.
LEMMA Appended ==
  ASSUME NEW s \in Seq(Objects), NEW t \in Seq(Objects)
  PROVE  /\ s \o t \in Seq(Objects)
         /\ \A i \in DOMAIN (s \o t) :
              \/ i \in DOMAIN s /\ (s \o t)[i] = s[i]
              \/ \E k \in DOMAIN t : i = Len(s) + k /\ (s \o t)[i] = t[k]
<1>1. s \o t \in Seq(Objects) /\ Len(s \o t) = Len(s) + Len(t)
  OBVIOUS
<1>2. ASSUME NEW i \in DOMAIN (s \o t), i \notin DOMAIN s
      PROVE  \E k \in DOMAIN t : i = Len(s) + k /\ (s \o t)[i] = t[k]
  <2>1. i - Len(s) \in DOMAIN t /\ i = Len(s) + (i - Len(s))
    BY <1>1, <1>2
  <2>2. (s \o t)[i] = t[i - Len(s)]
    BY <1>1, <1>2, <2>1
  <2>3. QED
    BY <2>1, <2>2
<1>3. \A i \in DOMAIN s : (s \o t)[i] = s[i]
  OBVIOUS
<1>4. QED
  BY <1>1, <1>2, <1>3

\* Answers that tell of no fault, by a process that keeps its world.
LEMMA ToldQuietly ==
  ASSUME NEW s \in Seq(Objects), NEW t \in Seq(Objects), NEW p \in Processes, NEW q \in Processes,
         WorldTold(p, s),
         \A k \in DOMAIN t : t[k].kind # "fault_event" /\ (WorldSeen(t[k]) => t[k].seen = p.world),
         p.consumed => q.consumed, p.terminal => q.terminal, q.world = p.world,
         p.terminal /\ p.pending = NoLine => q.pending = NoLine
  PROVE  WorldTold(q, s \o t)
<1> SUFFICES ASSUME NEW i \in DOMAIN (s \o t), (s \o t)[i].kind = "fault_event"
             PROVE  /\ q.consumed /\ q.terminal /\ q.pending = NoLine /\ q.world = (s \o t)[i].seen
                    /\ \A j \in DOMAIN (s \o t) :
                         i < j /\ WorldSeen((s \o t)[j]) => (s \o t)[j].seen = (s \o t)[i].seen
  BY DEF WorldTold
<1>1. i \in DOMAIN s /\ (s \o t)[i] = s[i]
  BY Appended
<1>2. p.consumed /\ p.terminal /\ p.pending = NoLine /\ p.world = s[i].seen
  BY <1>1 DEF WorldTold
<1>3. ASSUME NEW j \in DOMAIN (s \o t), i < j, WorldSeen((s \o t)[j])
      PROVE  (s \o t)[j].seen = s[i].seen
  <2>1. CASE j \in DOMAIN s /\ (s \o t)[j] = s[j]
    BY <1>1, <1>3, <2>1 DEF WorldTold
  <2>2. CASE \E k \in DOMAIN t : (s \o t)[j] = t[k]
    BY <1>2, <1>3, <2>2
  <2>3. QED
    BY <2>1, <2>2, Appended
<1>4. QED
  BY <1>1, <1>2, <1>3

\* The first fault event of a process, and the response that goes with it.
LEMMA ToldOnce ==
  ASSUME NEW s \in Seq(Objects), NEW t \in Seq(Objects), NEW q \in Processes,
         \A i \in DOMAIN s : s[i].kind # "fault_event",
         \A k \in DOMAIN t : ~WorldSeen(t[k]) /\ (t[k].kind = "fault_event" => t[k].seen = q.world),
         (\E k \in DOMAIN t : t[k].kind = "fault_event")
            => q.consumed /\ q.terminal /\ q.pending = NoLine
  PROVE  WorldTold(q, s \o t)
<1> SUFFICES ASSUME NEW i \in DOMAIN (s \o t), (s \o t)[i].kind = "fault_event"
             PROVE  /\ q.consumed /\ q.terminal /\ q.pending = NoLine /\ q.world = (s \o t)[i].seen
                    /\ \A j \in DOMAIN (s \o t) :
                         i < j /\ WorldSeen((s \o t)[j]) => (s \o t)[j].seen = (s \o t)[i].seen
  BY DEF WorldTold
<1>1. PICK k \in DOMAIN t : i = Len(s) + k /\ (s \o t)[i] = t[k]
  BY Appended
<1>2. \A j \in DOMAIN (s \o t) : i < j => \E m \in DOMAIN t : (s \o t)[j] = t[m]
  <2> SUFFICES ASSUME NEW j \in DOMAIN (s \o t), i < j PROVE j \notin DOMAIN s
    BY Appended
  <2>1. i > Len(s)
    BY <1>1
  <2>2. QED
    BY <2>1
<1>3. QED
  BY <1>1, <1>2

\* An operation that has not succeeded yet may, once.
LEMMA OnceMore ==
  ASSUME NEW s \in Seq(Objects), NEW t \in Seq(Objects), NEW p \in Processes, NEW q \in Processes,
         NEW op, Once(p, s), p.ops \subseteq q.ops,
         q.pending # NoLine => q.pending.op = "materialize_0002" /\ "materialize_0002" \in q.ops,
         q.pending.op = p.pending.op \/ q.pending.op \notin p.ops,
         \A k \in DOMAIN t : Achieved(t[k]) =>
           t[k].op = op /\ op \in q.ops /\ q.pending.op # op /\ (op \notin p.ops \/ p.pending.op = op),
         \A k, m \in DOMAIN t : t[k].kind = t[m].kind => k = m,
         \A k \in DOMAIN t : t[k].kind = "response" /\ t[k].op = "emit_0001" /\ t[k].code = "ok" =>
           k = 2 /\ t[1].kind = "physical_event"
  PROVE  Once(q, s \o t)
<1>1. \A i \in DOMAIN (s \o t) :
        \/ i \in DOMAIN s /\ (s \o t)[i] = s[i]
        \/ \E k \in DOMAIN t : i = Len(s) + k /\ (s \o t)[i] = t[k]
  BY Appended
<1>2. \A i \in DOMAIN (s \o t) : Achieved((s \o t)[i]) =>
        (s \o t)[i].op \in q.ops /\ (s \o t)[i].op # q.pending.op
  BY <1>1 DEF Once
<1>3. ASSUME NEW i \in DOMAIN (s \o t), NEW j \in DOMAIN (s \o t),
             (s \o t)[i].kind = (s \o t)[j].kind, (s \o t)[i].op = (s \o t)[j].op,
             Achieved((s \o t)[i]), Achieved((s \o t)[j])
      PROVE  i = j
  <2>1. CASE i \in DOMAIN s /\ (s \o t)[i] = s[i] /\ j \in DOMAIN s /\ (s \o t)[j] = s[j]
    BY <1>3, <2>1 DEF Once
  <2>2. ASSUME NEW k \in DOMAIN t, i = Len(s) + k, (s \o t)[i] = t[k],
               NEW m \in DOMAIN t, j = Len(s) + m, (s \o t)[j] = t[m]
        PROVE  i = j
    BY <1>3, <2>2
  <2>3. ASSUME NEW a \in DOMAIN s, NEW k \in DOMAIN t, s[a].op = t[k].op,
               Achieved(s[a]), Achieved(t[k])
        PROVE  FALSE
    BY <2>3 DEF Once
  <2>4. QED
    BY <1>1, <1>3, <2>1, <2>2, <2>3
<1>4. ASSUME NEW i \in DOMAIN (s \o t), (s \o t)[i].kind = "response",
             (s \o t)[i].op = "emit_0001", (s \o t)[i].code = "ok"
      PROVE  i - 1 \in DOMAIN (s \o t) /\ (s \o t)[i - 1].kind = "physical_event"
  <2>1. CASE i \in DOMAIN s /\ (s \o t)[i] = s[i]
    <3>1. i - 1 \in DOMAIN s /\ s[i - 1].kind = "physical_event"
      BY <1>4, <2>1 DEF Once
    <3>2. QED
      BY <3>1
  <2>2. CASE \E k \in DOMAIN t : i = Len(s) + k /\ (s \o t)[i] = t[k]
    <3>1. i = Len(s) + 2 /\ 2 \in DOMAIN t /\ t[1].kind = "physical_event"
      BY <1>4, <2>2
    <3>2. 1 \in DOMAIN t /\ i - 1 = Len(s) + 1
      BY <3>1
    <3>3. i - 1 \in DOMAIN (s \o t) /\ (s \o t)[i - 1] = t[1]
      BY <3>2
    <3>4. QED
      BY <3>1, <3>3
  <2>3. QED
    BY <1>1, <2>1, <2>2
<1>5. QED
  BY <1>2, <1>3, <1>4 DEF Once

\* What was reported stays reported.
LEMMA ReportedStays ==
  ASSUME NEW s \in Seq(Objects), NEW t \in Seq(Objects), Reported(s) \/ Reported(t)
  PROVE  Reported(s \o t)
<1>1. CASE Reported(s)
  <2>1. PICK i \in DOMAIN s :
          s[i].op = "materialize_0001" /\ s[i].kind = "response" /\ s[i].code = "ok"
    BY <1>1 DEF Reported
  <2>2. i \in DOMAIN (s \o t) /\ (s \o t)[i] = s[i]
    OBVIOUS
  <2>3. QED
    BY <2>1, <2>2 DEF Reported
<1>2. CASE Reported(t)
  <2>1. PICK k \in DOMAIN t :
          t[k].op = "materialize_0001" /\ t[k].kind = "response" /\ t[k].code = "ok"
    BY <1>2 DEF Reported
  <2>2. Len(s) + k \in DOMAIN (s \o t) /\ (s \o t)[Len(s) + k] = t[k]
    OBVIOUS
  <2>3. QED
    BY <2>1, <2>2 DEF Reported
<1>3. QED
  BY <1>1, <1>2

\* The flags and operation ids that are never taken back, and the representation.
Keeps(p, q) ==
  /\ q.world = p.world /\ q.generation = p.generation
  /\ p.emitted => q.emitted
  /\ p.consumed => q.consumed
  /\ p.terminal => q.terminal
  /\ p.ops \subseteq q.ops
  /\ q.pending \in {p.pending, NoLine}

\* An operation newly used up that may be reported.
Fresh(p, q, op) == op \in Operations /\ op \notin p.ops /\ op \in q.ops /\ q.pending = NoLine

LEMMA HoldsQuietly ==
  ASSUME NEW s \in Seq(Objects), NEW t \in Seq(Objects), NEW p \in Processes, NEW q \in Processes,
         NEW op, Holds(p, s), Keeps(p, q), Whole(q),
         \A k \in DOMAIN t : t[k].kind # "fault_event" /\ (WorldSeen(t[k]) => t[k].seen = p.world),
         \A k \in DOMAIN t : Achieved(t[k]) => t[k].op = op /\ Fresh(p, q, op),
         \A k, m \in DOMAIN t : t[k].kind = t[m].kind => k = m,
         \A k \in DOMAIN t : t[k].kind = "response" /\ t[k].op = "emit_0001" /\ t[k].code = "ok" =>
           k = 2 /\ t[1].kind = "physical_event",
         q.emitted => p.emitted \/ (p.generation # "none" /\ ~p.terminal)
  PROVE  Holds(q, s \o t)
<1>1. WorldTold(q, s \o t)
  BY ToldQuietly DEF Holds, Keeps
<1>2. NoLine.op = "unknown" /\ "unknown" \notin Operations /\ p.ops \subseteq Operations
  BY DEF NoLine, Operations, Materializations, Inspections, Processes
<1>3. q.pending # NoLine => q.pending.op = "materialize_0002" /\ "materialize_0002" \in q.ops
  BY DEF Holds, Once, Keeps
<1>4. q.pending.op = p.pending.op \/ q.pending.op \notin p.ops
  BY <1>2 DEF Keeps
<1>5. \A k \in DOMAIN t : Achieved(t[k]) =>
        t[k].op = op /\ op \in q.ops /\ q.pending.op # op /\ (op \notin p.ops \/ p.pending.op = op)
  BY <1>2 DEF Fresh
<1>6. Once(q, s \o t)
  BY <1>3, <1>4, <1>5, OnceMore DEF Holds, Keeps
<1>7. Succeeds(q, s \o t)
  BY ReportedStays DEF Holds, Succeeds, Keeps
<1>8. QED
  BY <1>1, <1>6, <1>7 DEF Holds

-----------------------------------------------------------------------------
(* One dispatch *)

\* Whatever a process does in a step, it is a new state of it and objects after its output.
LEMMA StepIInv ==
  ASSUME ClientInv, NEW l \in Labels, NEW q \in Processes, NEW t \in Seq(Objects),
         proc' = [proc EXCEPT ![l] = q], output' = [output EXCEPT ![l] = @ \o t],
         control' \in [Labels -> Seq(Lines)], closed' = closed,
         Holds(q, output[l] \o t)
  PROVE  ClientInv'
<1>1. ClientTyped'
  <2>1. output[l] \o t \in Seq(Objects)
    BY Appended DEF ClientInv, ClientTyped
  <2>2. QED
    BY <2>1 DEF ClientInv, ClientTyped
<1>2. ASSUME NEW m \in Labels PROVE Holds(proc[m], output[m])'
  <2>1. CASE m = l
    <3>1. proc'[m] = q /\ output'[m] = output[l] \o t
      BY <2>1 DEF ClientInv, ClientTyped
    <3>2. Holds(proc'[m], output'[m])
      BY <3>1
    <3>3. QED
      BY <3>2 DEF Holds, Whole, WorldTold, Once, Succeeds, Reported
  <2>2. CASE m # l
    <3>1. proc'[m] = proc[m] /\ output'[m] = output[m]
      BY <2>2 DEF ClientInv, ClientTyped
    <3>2. Holds(proc'[m], output'[m])
      BY <3>1 DEF ClientInv
    <3>3. QED
      BY <3>2 DEF Holds, Whole, WorldTold, Once, Succeeds, Reported
  <2>3. QED
    BY <2>1, <2>2
<1>3. QED
  BY <1>1, <1>2 DEF ClientInv

LEMMA Types ==
  ASSUME ClientInv, NEW l \in Labels
  PROVE  /\ proc[l] \in Processes /\ output[l] \in Seq(Objects) /\ control[l] \in Seq(Lines)
         /\ Holds(proc[l], output[l])
         /\ Reads(l) => Line(l) \in Lines
  BY DEF ClientInv, ClientTyped, Reads, Line

LEMMA AnswerIInv ==
  ASSUME ClientInv, NEW l \in Labels, NEW q \in Processes, NEW t \in Seq(Objects),
         Reads(l), Answer(l, q, t), Holds(q, output[l] \o t)
  PROVE  ClientInv'
<1>1. Tail(control[l]) \in Seq(Lines)
  BY DEF Reads, ClientInv, ClientTyped
<1>2. control' \in [Labels -> Seq(Lines)]
  BY <1>1 DEF Answer, ClientInv, ClientTyped
<1>3. QED
  BY <1>2, StepIInv DEF Answer

\* A response that tells of no fault.
LEMMA QuietIInv ==
  ASSUME ClientInv, NEW l \in Labels, NEW q \in Processes, NEW o \in Objects,
         Reads(l), Answer(l, q, <<o>>), Keeps(proc[l], q), Whole(q),
         o.kind # "fault_event", WorldSeen(o) => o.seen = proc[l].world,
         Achieved(o) => Fresh(proc[l], q, o.op), o.op # "emit_0001" \/ o.code # "ok",
         (q.emitted <=> proc[l].emitted)
  PROVE  ClientInv'
<1> DEFINE t == <<o>>
<1>1. t \in Seq(Objects) /\ \A k \in DOMAIN t : k = 1 /\ t[k] = o
  OBVIOUS
<1>2. Answer(l, q, t)
  OBVIOUS
<1> HIDE DEF t
<1>3. Holds(q, output[l] \o t)
  BY <1>1, Types, HoldsQuietly
<1>4. QED
  BY <1>1, <1>2, <1>3, AnswerIInv

\* The process with its operation id used up is as it was otherwise.
LEMMA UsedProcess ==
  ASSUME ClientInv, NEW l \in Labels, Reads(l), Line(l).op \in Operations
  PROVE  /\ Used(l) \in Processes
         /\ Used(l).ops = proc[l].ops \cup {Line(l).op}
         /\ \A f \in {"life", "started", "bound", "terminal", "generation", "emitted", "armed",
                      "consumed", "pending", "world"} : Used(l)[f] = proc[l][f]
  BY Types DEF Used, Processes

\* A refused line, whatever for: the process is terminal, its world stays.
LEMMA RefuseIInv ==
  ASSUME ClientInv, NEW l \in Labels, NEW p \in Processes, NEW answer \in Codes \ {"ok"},
         Reads(l), Line(l).op # "malformed", Refuse(l, p, answer),
         p.world = proc[l].world, p.consumed = proc[l].consumed, proc[l].ops \subseteq p.ops,
         p.generation = proc[l].generation, (p.emitted <=> proc[l].emitted)
  PROVE  ClientInv'
<1> DEFINE o == Response(Line(l).op, answer, Empty)
<1>1. Terminal(p) \in Processes
  BY DEF Terminal, Processes, NoLine, Lines, Records
<1>2. /\ Terminal(p).world = p.world /\ Terminal(p).consumed = p.consumed
      /\ Terminal(p).terminal /\ Terminal(p).pending = NoLine /\ Terminal(p).ops = p.ops
      /\ Terminal(p).generation = p.generation /\ (Terminal(p).emitted <=> p.emitted)
  BY DEF Terminal, Processes
<1>3. o \in Objects /\ o.kind # "fault_event" /\ ~WorldSeen(o) /\ o.code # "ok" /\ ~Achieved(o)
  BY Types DEF Response, Objects, Lines, Worlds, Empty, WorldSeen, Achieved
<1>4. Keeps(proc[l], Terminal(p)) /\ Whole(Terminal(p))
  BY <1>2 DEF Keeps, Whole
<1> HIDE DEF o
<1>5. Answer(l, Terminal(p), <<o>>)
  BY DEF Refuse, o
<1>6. QED
  BY <1>1, <1>2, <1>3, <1>4, <1>5, QuietIInv

\* Everything a process refuses.
LEMMA RefusalIInv ==
  ASSUME ClientInv, NEW l \in Labels,
         \/ DispatchMisrouted(l) \/ DispatchOutOfSequence(l) \/ DispatchPayload(l)
         \/ RejectMaterialize(l)
  PROVE  ClientInv'
<1>1. Reads(l) /\ proc[l] \in Processes
  BY Types DEF DispatchMisrouted, DispatchOutOfSequence, DispatchPayload, RejectMaterialize, Dispatches
<1>2. CASE DispatchMisrouted(l) \/ DispatchOutOfSequence(l)
  <2>1. /\ Line(l).op # "malformed"
        /\ Refuse(l, proc[l], "binding_mismatch") \/ Refuse(l, proc[l], "sequence")
    BY <1>2 DEF DispatchMisrouted, DispatchOutOfSequence
  <2>2. QED
    BY <1>1, <2>1, RefuseIInv DEF Codes
<1>3. CASE DispatchPayload(l)
  <2>1. Line(l).op # "malformed" /\ Refuse(l, proc[l], "schema")
    BY <1>3 DEF DispatchPayload, Dispatches, NoPayload, Inspections
  <2>2. QED
    BY <1>1, <2>1, RefuseIInv DEF Codes
<1>4. CASE RejectMaterialize(l)
  <2>1. Line(l).op \in Materializations
    BY <1>4 DEF RejectMaterialize, Dispatches
  <2>2. Line(l).op \in Operations /\ Line(l).op # "malformed"
    BY <2>1 DEF Operations, Materializations
  <2>3. /\ Used(l) \in Processes /\ Used(l).world = proc[l].world
        /\ Used(l).consumed = proc[l].consumed /\ proc[l].ops \subseteq Used(l).ops
        /\ Used(l).generation = proc[l].generation /\ (Used(l).emitted <=> proc[l].emitted)
    BY <1>1, <2>2, UsedProcess
  <2>4. Authentication(proc[l], Line(l)) \in Codes \ {"ok"}
    BY <1>4 DEF RejectMaterialize, Authentication, Codes
  <2>5. QED
    BY <1>1, <1>4, <2>2, <2>3, <2>4, RefuseIInv DEF RejectMaterialize
<1>5. QED
  BY <1>2, <1>3, <1>4

\* What is dispatched is an operation, not yet used, of a process that waits for nothing.
LEMMA ClientDispatched ==
  ASSUME ClientInv, NEW l \in Labels, NEW ops \in SUBSET Operations, Dispatches(l, ops)
  PROVE  /\ Reads(l) /\ Line(l) \in Lines /\ Line(l).op \in ops /\ Line(l).op # "malformed"
         /\ proc[l].pending = NoLine
         /\ Line(l).op \notin Inspections \cup {"shutdown_0001"} => ~proc[l].terminal
         /\ Used(l) \in Processes /\ Keeps(proc[l], Used(l)) /\ Whole(Used(l))
         /\ Used(l).pending = NoLine /\ Used(l).terminal = proc[l].terminal
         /\ Used(l).world = proc[l].world /\ Used(l).consumed = proc[l].consumed
         /\ proc[l].ops \subseteq Used(l).ops /\ Fresh(proc[l], Used(l), Line(l).op)
         /\ Used(l).generation = proc[l].generation /\ (Used(l).emitted <=> proc[l].emitted)
<1>1. Reads(l) /\ Line(l).op \in ops /\ ~OutOfSequence(proc[l], Line(l))
  BY DEF Dispatches
<1>2. Line(l) \in Lines /\ Line(l).op \in Operations /\ Line(l).op # "malformed"
  BY <1>1, Types DEF Operations, Materializations, Inspections
<1>3. /\ proc[l].pending = NoLine /\ Line(l).op \notin proc[l].ops
      /\ Line(l).op \notin Inspections \cup {"shutdown_0001"} => ~proc[l].terminal
  BY <1>1 DEF OutOfSequence
<1>4. /\ Used(l) \in Processes /\ Used(l).world = proc[l].world /\ Used(l).terminal = proc[l].terminal
      /\ Used(l).consumed = proc[l].consumed /\ Used(l).pending = proc[l].pending
      /\ Used(l).generation = proc[l].generation /\ Used(l).ops = proc[l].ops \cup {Line(l).op}
      /\ (Used(l).emitted <=> proc[l].emitted)
  BY <1>1, <1>2, UsedProcess
<1>5. Keeps(proc[l], Used(l)) /\ Whole(Used(l)) /\ Fresh(proc[l], Used(l), Line(l).op)
  BY <1>2, <1>3, <1>4, Types DEF Holds, Keeps, Whole, Fresh
<1>6. QED
  BY <1>1, <1>2, <1>3, <1>4, <1>5

\* The binding, the arming of a fault and the inspections.
LEMMA CommandIInv ==
  ASSUME ClientInv, NEW l \in Labels, Bind(l) \/ ArmFault(l) \/ Inspect(l)
  PROVE  ClientInv'
<1> DEFINE ops == {"bind_0001", "arm_fault_0001"} \cup Inspections
<1>1. Dispatches(l, ops)
  BY DEF Bind, ArmFault, Inspect, Dispatches
<1>2. ops \in SUBSET Operations
  BY DEF Operations
<1> HIDE DEF ops
<1>3. /\ Reads(l) /\ Line(l) \in Lines /\ Line(l).op # "malformed"
      /\ Used(l) \in Processes /\ Keeps(proc[l], Used(l)) /\ Whole(Used(l))
      /\ Used(l).world = proc[l].world /\ Used(l).consumed = proc[l].consumed
      /\ proc[l].ops \subseteq Used(l).ops /\ Fresh(proc[l], Used(l), Line(l).op)
      /\ Used(l).generation = proc[l].generation /\ (Used(l).emitted <=> proc[l].emitted)
  BY <1>1, <1>2, ClientDispatched
<1>4. ASSUME NEW answer \in Codes \ {"ok"}, Refuse(l, Used(l), answer) PROVE ClientInv'
  BY <1>3, <1>4, RefuseIInv
<1>5. CASE Bind(l)
  <2> DEFINE q == [Used(l) EXCEPT !.bound = TRUE]
             o == Response("bind_0001", "ok", Empty)
  <2>1. /\ q \in Processes /\ Keeps(proc[l], q) /\ Whole(q) /\ Fresh(proc[l], q, o.op)
        /\ (q.emitted <=> proc[l].emitted)
    <3>1. o.op = Line(l).op
      BY <1>5 DEF Bind, Dispatches, Response
    <3>2. QED
      BY <1>3, <3>1 DEF Processes, Keeps, Whole, Fresh
  <2>2. o \in Objects /\ o.kind # "fault_event" /\ ~WorldSeen(o) /\ o.op # "emit_0001"
    BY DEF Response, Objects, Operations, Codes, Worlds, Empty, WorldSeen, Inspections
  <2>3. Answer(l, q, <<o>>) \/ Refuse(l, Used(l), "binding_mismatch")
    BY <1>5 DEF Bind
  <2> HIDE DEF q, o
  <2>4. QED
    BY <1>3, <1>4, <2>1, <2>2, <2>3, QuietIInv DEF Codes
<1>6. CASE ArmFault(l)
  <2> DEFINE q == [Used(l) EXCEPT !.armed = TRUE]
             o == Response("arm_fault_0001", "ok", Empty)
  <2>1. /\ q \in Processes /\ Keeps(proc[l], q) /\ Whole(q) /\ Fresh(proc[l], q, o.op)
        /\ (q.emitted <=> proc[l].emitted)
    <3>1. o.op = Line(l).op
      BY <1>6 DEF ArmFault, Dispatches, Response
    <3>2. QED
      BY <1>3, <3>1 DEF Processes, Keeps, Whole, Fresh
  <2>2. o \in Objects /\ o.kind # "fault_event" /\ ~WorldSeen(o) /\ o.op # "emit_0001"
    BY DEF Response, Objects, Operations, Codes, Worlds, Empty, WorldSeen, Inspections
  <2>3. Answer(l, q, <<o>>) \/ Refuse(l, Used(l), "fault_arm")
    BY <1>6 DEF ArmFault
  <2> HIDE DEF q, o
  <2>4. QED
    BY <1>3, <1>4, <2>1, <2>2, <2>3, QuietIInv DEF Codes
<1>7. CASE Inspect(l)
  <2> DEFINE o == Response(Line(l).op, "ok", proc[l].world)
  <2>1. Line(l).op \in Inspections
    BY <1>7 DEF Inspect, Dispatches
  <2>2. proc[l].world \in Worlds
    BY Types DEF Processes
  <2>3. /\ o \in Objects /\ o.kind # "fault_event" /\ o.seen = proc[l].world
        /\ o.op = Line(l).op /\ o.op # "emit_0001"
    BY <2>1, <2>2 DEF Response, Objects, Operations, Codes, Inspections
  <2>4. Answer(l, Used(l), <<o>>)
    BY <1>7 DEF Inspect
  <2> HIDE DEF o
  <2>5. QED
    BY <1>3, <2>3, <2>4, QuietIInv
<1>8. QED
  BY <1>5, <1>6, <1>7

\* The one interaction, told before it is answered.
LEMMA EmitIInv == ASSUME ClientInv, NEW l \in Labels, Emit(l) PROVE ClientInv'
<1> DEFINE q == [Used(l) EXCEPT !.emitted = TRUE]
           t == <<Event("physical_event", "emit_0001", Empty), Response("emit_0001", "ok", Empty)>>
<1>1. Dispatches(l, {"emit_0001"}) /\ {"emit_0001"} \in SUBSET Operations
  BY DEF Emit, Operations
<1>2. /\ Reads(l) /\ Line(l) \in Lines /\ Line(l).op # "malformed"
      /\ Used(l) \in Processes /\ Keeps(proc[l], Used(l)) /\ Whole(Used(l))
      /\ Used(l).world = proc[l].world /\ Used(l).consumed = proc[l].consumed
      /\ proc[l].ops \subseteq Used(l).ops /\ Fresh(proc[l], Used(l), "emit_0001")
      /\ Used(l).generation = proc[l].generation /\ (Used(l).emitted <=> proc[l].emitted)
  BY <1>1, ClientDispatched
<1>3. /\ q \in Processes /\ Keeps(proc[l], q) /\ Whole(q) /\ Fresh(proc[l], q, "emit_0001")
  BY <1>2 DEF Processes, Keeps, Whole, Fresh
<1>4. /\ t \in Seq(Objects)
      /\ \A k \in DOMAIN t : t[k].kind # "fault_event" /\ ~WorldSeen(t[k]) /\ t[k].op = "emit_0001"
      /\ \A k, m \in DOMAIN t : t[k].kind = t[m].kind => k = m
      /\ \A k \in DOMAIN t : t[k].kind = "response" => k = 2 /\ t[1].kind = "physical_event"
  <2> DEFINE a == Event("physical_event", "emit_0001", Empty)
             b == Response("emit_0001", "ok", Empty)
  <2>1. /\ a \in Objects /\ a.kind = "physical_event" /\ ~WorldSeen(a) /\ a.op = "emit_0001"
        /\ b \in Objects /\ b.kind = "response" /\ ~WorldSeen(b) /\ b.op = "emit_0001"
    BY DEF Event, Response, Objects, Operations, Codes, Worlds, Empty, WorldSeen, Inspections
  <2> HIDE DEF a, b
  <2>2. /\ <<a, b>> \in Seq(Objects) /\ DOMAIN <<a, b>> = {1, 2}
        /\ <<a, b>>[1] = a /\ <<a, b>>[2] = b
    BY <2>1
  <2>3. QED
    BY <2>1, <2>2 DEF a, b
<1>5. (MayEmit(proc[l]) /\ Answer(l, q, t)) \/ Refuse(l, Used(l), "sequence")
  BY DEF Emit
<1> HIDE DEF q, t
<1>6. ASSUME MayEmit(proc[l]) PROVE Holds(q, output[l] \o t)
  <2>1. proc[l].generation # "none" /\ ~proc[l].terminal
    BY <1>1, <1>6, ClientDispatched DEF MayEmit, Inspections
  <2>2. QED
    BY <1>3, <1>4, <2>1, Types, HoldsQuietly
<1>7. ASSUME MayEmit(proc[l]), Answer(l, q, t) PROVE ClientInv'
  BY <1>2, <1>3, <1>4, <1>6, <1>7, AnswerIInv
<1>8. QED
  BY <1>2, <1>5, <1>7, RefuseIInv DEF Codes

\* The shutdown, whatever became of an armed fault.
LEMMA ShutdownIInv == ASSUME ClientInv, NEW l \in Labels, Shutdown(l) PROVE ClientInv'
<1>1. Dispatches(l, {"shutdown_0001"}) /\ {"shutdown_0001"} \in SUBSET Operations
  BY DEF Shutdown, Operations
<1>2. /\ Reads(l) /\ Used(l) \in Processes /\ Used(l).world = proc[l].world
      /\ Used(l).consumed = proc[l].consumed
      /\ proc[l].ops \subseteq Used(l).ops /\ Fresh(proc[l], Used(l), "shutdown_0001")
      /\ Used(l).generation = proc[l].generation /\ (Used(l).emitted <=> proc[l].emitted)
  BY <1>1, ClientDispatched
<1>3. PICK life \in {"exited", "exiting"}, answer \in {"arm_unused", "ok"} :
        Answer(l, [Used(l) EXCEPT !.terminal = TRUE, !.pending = NoLine, !.life = life],
               <<Response("shutdown_0001", answer, Empty)>>)
  BY DEF Shutdown
<1> DEFINE q == [Used(l) EXCEPT !.terminal = TRUE, !.pending = NoLine, !.life = life]
           o == Response("shutdown_0001", answer, Empty)
<1>4. NoLine \in Lines
  BY DEF NoLine, Lines, Records
<1>5. /\ q \in Processes /\ Keeps(proc[l], q) /\ Whole(q) /\ Fresh(proc[l], q, "shutdown_0001")
      /\ (q.emitted <=> proc[l].emitted)
  BY <1>2, <1>4 DEF Processes, Keeps, Whole, Fresh
<1>6. o \in Objects /\ o.kind # "fault_event" /\ ~WorldSeen(o) /\ o.op = "shutdown_0001"
  BY DEF Response, Objects, Operations, Codes, Worlds, Empty, WorldSeen, Inspections
<1> HIDE DEF q, o
<1>7. Answer(l, q, <<o>>)
  BY <1>3 DEF q, o
<1>8. QED
  BY <1>2, <1>5, <1>6, <1>7, QuietIInv

-----------------------------------------------------------------------------
(* Materialization *)

\* A process that still works, or waits to replace its pair, has told of no fault.
LEMMA NothingTold ==
  ASSUME ClientInv, NEW l \in Labels, ~proc[l].terminal \/ proc[l].pending # NoLine
  PROVE  \A i \in DOMAIN output[l] : output[l][i].kind # "fault_event"
  BY Types DEF Holds, WorldTold

\* The old pair goes for a line that is then pending.
LEMMA ReplaceIInv == ASSUME ClientInv, NEW l \in Labels, Replace(l) PROVE ClientInv'
<1> DEFINE q == [Used(l) EXCEPT !.pending = Line(l), !.world = Empty]
<1>1. Dispatches(l, {"materialize_0002"}) /\ {"materialize_0002"} \in SUBSET Operations
  BY DEF Replace, Operations, Materializations
<1>2. /\ Reads(l) /\ Line(l) \in Lines /\ Line(l).op = "materialize_0002" /\ Used(l) \in Processes
      /\ ~proc[l].terminal /\ proc[l].ops \subseteq Used(l).ops
      /\ Fresh(proc[l], Used(l), "materialize_0002")
      /\ Used(l).generation = proc[l].generation /\ (Used(l).emitted <=> proc[l].emitted)
  BY <1>1, ClientDispatched DEF Inspections
<1>3. /\ q \in Processes /\ q.pending = Line(l) /\ q.ops = Used(l).ops
      /\ q.generation = Used(l).generation /\ (q.emitted <=> Used(l).emitted)
  <2>1. Empty \in Worlds
    BY DEF Empty, Worlds
  <2>2. QED
    BY <1>2, <2>1 DEF Processes
<1>4. Whole(q)
  <2>1. NoLine.op = "unknown"
    BY DEF NoLine
  <2>2. q.pending # NoLine
    BY <1>2, <1>3, <2>1
  <2>3. QED
    BY <2>2 DEF Whole
<1> DEFINE t == <<>>
<1>5. Answer(l, q, t)
  BY DEF Replace
<1>6. t \in Seq(Objects) /\ DOMAIN t = {}
  OBVIOUS
<1> HIDE DEF q, t
<1>7. WorldTold(q, output[l] \o t)
  BY <1>2, <1>3, <1>6, Types, NothingTold, ToldOnce
<1>8. Once(q, output[l] \o t)
  <2>1. /\ proc[l].ops \subseteq q.ops /\ q.pending.op = "materialize_0002"
        /\ "materialize_0002" \in q.ops /\ q.pending.op \notin proc[l].ops
    BY <1>2, <1>3 DEF Fresh
  <2>2. QED
    BY <1>3, <1>6, <2>1, Types, OnceMore DEF Holds
<1>9. Succeeds(q, output[l] \o t)
  <2>1. Line(l).record = "R1" /\ proc[l].generation = "R0" /\ proc[l].emitted
    <3>1. Authentication(proc[l], Line(l)) = "ok"
      BY DEF Replace
    <3>2. QED
      BY <1>2, <3>1 DEF Authentication
  <2>2. Reported(output[l])
    BY <2>1, Types DEF Holds, Succeeds
  <2>3. QED
    BY <1>2, <1>3, <1>6, <2>1, <2>2, Types, ReportedStays DEF Succeeds
<1>10. QED
  BY <1>2, <1>3, <1>4, <1>5, <1>6, <1>7, <1>8, <1>9, AnswerIInv DEF Holds

\* A representation is built: whole by a process that works on, and told of if it is a
\* fault's.
LEMMA BuiltIInv ==
  ASSUME ClientInv, NEW l \in Labels, NEW op \in Materializations, NEW record \in {"R0", "R1"},
         NEW p \in Processes, NEW t \in Seq(Objects), Built(l, op, record, p, t),
         p.terminal \/ p.world = Pair(p.generation),
         \A k \in DOMAIN t : ~WorldSeen(t[k]) /\ (t[k].kind = "fault_event" => t[k].seen = p.world),
         (\E k \in DOMAIN t : t[k].kind = "fault_event")
            => op = "materialize_0002" /\ p.consumed /\ p.terminal,
         p.ops = proc[l].ops, p.pending \in {proc[l].pending, NoLine},
         \A k \in DOMAIN t : t[k].op = op,
         \A k, m \in DOMAIN t : t[k].kind = t[m].kind => k = m,
         p.generation \in {record, proc[l].generation}, (p.emitted <=> proc[l].emitted),
         ~p.terminal /\ op = "materialize_0001" => Reported(t)
  PROVE  ClientInv'
<1>0. /\ op # "emit_0001" /\ op # "unknown" /\ op \in Operations
      /\ NoLine.op = "unknown" /\ "unknown" \notin Operations
  BY DEF Materializations, Operations, NoLine, Inspections
<1>1. CASE /\ BuildsR0(l) /\ op = "materialize_0001" /\ record = "R0"
           /\ Answer(l, [p EXCEPT !.ops = @ \cup {op}], t)
  <2> DEFINE q == [p EXCEPT !.ops = @ \cup {op}]
  <2>1. Dispatches(l, {"materialize_0001"}) /\ {"materialize_0001"} \in SUBSET Operations
    BY <1>1 DEF BuildsR0, Operations, Materializations
  <2>2. /\ Reads(l) /\ ~proc[l].terminal /\ proc[l].pending = NoLine
        /\ Fresh(proc[l], Used(l), op)
    BY <1>1, <2>1, ClientDispatched DEF Inspections
  <2>3. /\ q \in Processes /\ q.world = p.world /\ q.generation = p.generation
        /\ q.terminal = p.terminal /\ q.pending = NoLine /\ q.ops = proc[l].ops \cup {op}
        /\ (q.emitted <=> p.emitted)
    BY <1>0, <2>2 DEF Processes
  <2>4. Whole(q)
    BY <2>3 DEF Whole
  <2>5. \A k \in DOMAIN t : t[k].kind # "fault_event"
    BY <1>1
  <2> HIDE DEF q
  <2>6. WorldTold(q, output[l] \o t)
    BY <2>2, <2>3, <2>5, Types, NothingTold, ToldOnce
  <2>7. Once(q, output[l] \o t)
    <3>1. proc[l].ops \subseteq q.ops /\ op \in q.ops /\ op \notin proc[l].ops
      BY <2>2, <2>3 DEF Fresh
    <3>2. QED
      BY <1>0, <2>2, <2>3, <3>1, Types, OnceMore DEF Holds
  <2>8. Succeeds(q, output[l] \o t)
    <3>1. proc[l].generation = "none" /\ ~proc[l].emitted
      BY <1>1, <2>1 DEF BuildsR0, Authentication, Dispatches
    <3>2. q.generation # "R1" /\ ~q.emitted
      BY <1>1, <2>3, <3>1
    <3>3. ~q.terminal => Reported(output[l] \o t)
      BY <1>1, <2>3, Types, ReportedStays
    <3>4. QED
      BY <2>3, <3>2, <3>3 DEF Succeeds
  <2>9. QED
    BY <1>1, <2>2, <2>3, <2>4, <2>6, <2>7, <2>8, AnswerIInv DEF q, Holds
<1>2. CASE /\ BuildsR1(l) /\ op = "materialize_0002"
           /\ proc' = [proc EXCEPT ![l] = [p EXCEPT !.pending = NoLine]]
           /\ output' = [output EXCEPT ![l] = @ \o t]
           /\ UNCHANGED <<case, control, closed>>
  <2> DEFINE q == [p EXCEPT !.pending = NoLine]
  <2>1. NoLine \in Lines
    BY DEF NoLine, Lines, Records
  <2>2. /\ q \in Processes /\ q.world = p.world /\ q.generation = p.generation
        /\ q.terminal = p.terminal /\ q.consumed = p.consumed /\ q.pending = NoLine
        /\ q.ops = proc[l].ops /\ (q.emitted <=> proc[l].emitted)
    BY <2>1 DEF Processes
  <2>3. Whole(q)
    BY <2>2 DEF Whole
  <2> HIDE DEF q
  <2>4. WorldTold(q, output[l] \o t)
    BY <1>2, <2>2, Types, NothingTold, ToldOnce DEF BuildsR1
  <2>5. Once(q, output[l] \o t)
    <3>1. proc[l].pending.op = op /\ op \in proc[l].ops /\ proc[l].ops \subseteq Operations
      <4>1. proc[l].pending # NoLine /\ Once(proc[l], output[l]) /\ proc[l] \in Processes
        BY <1>2, Types DEF BuildsR1, Holds
      <4>2. QED
        BY <1>2, <4>1 DEF Once, Processes
    <3>2. q.pending.op \notin proc[l].ops /\ q.pending.op # op
      BY <1>0, <2>2, <3>1
    <3>3. QED
      BY <1>0, <2>2, <3>1, <3>2, Types, OnceMore DEF Holds
  <2>6. proc' = [proc EXCEPT ![l] = q] /\ control' \in [Labels -> Seq(Lines)] /\ closed' = closed
    BY <1>2 DEF q, ClientInv, ClientTyped
  <2>7. Succeeds(q, output[l] \o t)
    <3>1. proc[l].emitted /\ Reported(output[l])
      BY <1>2, Types DEF BuildsR1, Holds, Succeeds
    <3>2. QED
      BY <2>2, <3>1, Types, ReportedStays DEF Succeeds
  <2>8. QED
    BY <1>2, <2>2, <2>3, <2>4, <2>5, <2>6, <2>7, StepIInv DEF Holds
<1>3. QED
  BY <1>1, <1>2 DEF Built

\* The worlds a materialization may leave, and the objects it writes.
LEMMA Materialized ==
  /\ \A record \in {"R0", "R1"} :
       /\ Pair(record) \in Worlds
       /\ [anchor |-> "none", resources |-> {record}] \in Worlds
  /\ Sabotaged \in Worlds
  /\ \A op \in Materializations, answer \in Codes :
       Response(op, answer, Empty) \in Objects /\ ~WorldSeen(Response(op, answer, Empty))
         /\ Response(op, answer, Empty).kind = "response" /\ Response(op, answer, Empty).op = op
  /\ \A w \in Worlds :
       LET e == Event("fault_event", "materialize_0002", w) IN
       e \in Objects /\ e.seen = w /\ ~WorldSeen(e) /\ e.kind = "fault_event" /\ e.op = "materialize_0002"
  BY DEF Pair, Worlds, Resources, Sabotaged, Materializations, Response, Event, Objects, Operations,
         Codes, WorldSeen, Inspections, Empty

\* What is written with one response alone.
LEMMA BuiltOneIInv ==
  ASSUME ClientInv, NEW l \in Labels, NEW op \in Materializations, NEW record \in {"R0", "R1"},
         NEW p \in Processes, NEW answer \in Codes,
         Built(l, op, record, p, <<Response(op, answer, Empty)>>),
         p.terminal \/ p.world = Pair(p.generation),
         p.ops = proc[l].ops, p.pending \in {proc[l].pending, NoLine},
         p.generation \in {record, proc[l].generation}, (p.emitted <=> proc[l].emitted),
         p.terminal \/ answer = "ok"
  PROVE  ClientInv'
<1> DEFINE o == Response(op, answer, Empty)
<1>1. /\ o \in Objects /\ ~WorldSeen(o) /\ o.kind = "response" /\ o.op = op
      /\ p.terminal \/ o.code = "ok"
  BY Materialized DEF Response
<1> HIDE DEF o
<1> DEFINE t == <<o>>
<1>2. t \in Seq(Objects) /\ 1 \in DOMAIN t /\ \A k \in DOMAIN t : k = 1 /\ t[k] = o
  BY <1>1
<1>3. Built(l, op, record, p, t)
  BY DEF o
<1> HIDE DEF t
<1>4. /\ \A k \in DOMAIN t : ~WorldSeen(t[k]) /\ t[k].kind # "fault_event" /\ t[k].op = op
      /\ \A k, m \in DOMAIN t : t[k].kind = t[m].kind => k = m
  BY <1>1, <1>2
<1>5. ~p.terminal /\ op = "materialize_0001" => Reported(t)
  BY <1>1, <1>2 DEF Reported
<1>6. QED
  BY <1>2, <1>3, <1>4, <1>5, BuiltIInv

\* What is written with a fault event first.
LEMMA BuiltFaultIInv ==
  ASSUME ClientInv, NEW l \in Labels, NEW p \in Processes, NEW answer \in Codes, NEW w \in Worlds,
         Built(l, "materialize_0002", "R1", p,
               <<Event("fault_event", "materialize_0002", w), Response("materialize_0002", answer, Empty)>>),
         p.terminal, p.consumed, p.world = w,
         p.ops = proc[l].ops, p.pending \in {proc[l].pending, NoLine},
         p.generation = "R1", (p.emitted <=> proc[l].emitted)
  PROVE  ClientInv'
<1> DEFINE a == Event("fault_event", "materialize_0002", w)
           b == Response("materialize_0002", answer, Empty)
<1>1. /\ a \in Objects /\ a.seen = w /\ ~WorldSeen(a) /\ a.kind = "fault_event"
      /\ b \in Objects /\ ~WorldSeen(b) /\ b.kind = "response"
      /\ a.op = "materialize_0002" /\ b.op = "materialize_0002"
  BY Materialized DEF Materializations
<1> HIDE DEF a, b
<1> DEFINE t == <<a, b>>
<1>2. t \in Seq(Objects) /\ DOMAIN t = {1, 2} /\ t[1] = a /\ t[2] = b
  BY <1>1
<1>3. Built(l, "materialize_0002", "R1", p, t)
  BY DEF a, b
<1> HIDE DEF t
<1>4. /\ \A k \in DOMAIN t : /\ ~WorldSeen(t[k]) /\ t[k].op = "materialize_0002"
                             /\ t[k].kind = "fault_event" => t[k].seen = p.world
      /\ \A k, m \in DOMAIN t : t[k].kind = t[m].kind => k = m
  BY <1>1, <1>2
<1>5. "materialize_0002" \in Materializations /\ "R1" \in {"R0", "R1"}
  BY DEF Materializations
<1>6. QED
  BY <1>2, <1>3, <1>4, <1>5, BuiltIInv

LEMMA RepresentsType ==
  ASSUME NEW p \in Processes, NEW record \in {"R0", "R1"}, NEW w \in Worlds
  PROVE  /\ Represents(p, record, w) \in Processes
         /\ Represents(p, record, w).world = w /\ Represents(p, record, w).generation = record
         /\ Represents(p, record, w).ops = p.ops /\ Represents(p, record, w).pending = p.pending
         /\ (Represents(p, record, w).emitted <=> p.emitted)
  BY DEF Represents, Processes

LEMMA TerminalType ==
  ASSUME NEW p \in Processes
  PROVE  /\ Terminal(p) \in Processes /\ Terminal(p).terminal
         /\ Terminal(p).world = p.world /\ Terminal(p).consumed = p.consumed
         /\ Terminal(p).ops = p.ops /\ Terminal(p).pending = NoLine
         /\ Terminal(p).generation = p.generation /\ (Terminal(p).emitted <=> p.emitted)
  BY DEF Terminal, Processes, NoLine, Lines, Records

\* The four ways a materialization goes on.
LEMMA ContinueIInv == ASSUME ClientInv, NEW l \in Labels, ContinueMaterialization(l) PROVE ClientInv'
<1>1. proc[l] \in Processes
  BY Types
<1>2. ASSUME NEW op \in Materializations, NEW record \in {"R0", "R1"},
             CompleteMaterialization(l, op, record)
      PROVE  ClientInv'
  <2> DEFINE p == Represents(proc[l], record, Pair(record))
  <2>1. Pair(record) \in Worlds
    BY Materialized
  <2>2. /\ p \in Processes /\ p.world = Pair(record) /\ p.generation = record
        /\ p.ops = proc[l].ops /\ p.pending = proc[l].pending /\ (p.emitted <=> proc[l].emitted)
    BY <1>1, <2>1, RepresentsType
  <2>3. Built(l, op, record, p, <<Response(op, "ok", Empty)>>)
    BY <1>2 DEF CompleteMaterialization
  <2>4. "ok" \in Codes
    BY DEF Codes
  <2> HIDE DEF p
  <2>5. QED
    BY <2>2, <2>3, <2>4, BuiltOneIInv
<1>3. CASE PartialPublication(l)
  <2> DEFINE torn == [anchor |-> "none", resources |-> {"R1"}]
             r == Represents(proc[l], "R1", torn)
             c == [r EXCEPT !.consumed = TRUE]
             p == Terminal(c)
  <2>1. torn \in Worlds
    BY Materialized
  <2>2. Built(l, "materialize_0002", "R1", p,
              <<Event("fault_event", "materialize_0002", torn),
                Response("materialize_0002", "partial_publication", Empty)>>)
    BY <1>3 DEF PartialPublication
  <2> HIDE DEF torn
  <2>3. /\ r \in Processes /\ r.world = torn /\ r.ops = proc[l].ops
        /\ r.generation = "R1" /\ (r.emitted <=> proc[l].emitted)
    BY <1>1, <2>1, RepresentsType
  <2> HIDE DEF r
  <2>4. /\ c \in Processes /\ c.world = torn /\ c.consumed /\ c.ops = proc[l].ops
        /\ c.generation = "R1" /\ (c.emitted <=> proc[l].emitted)
    BY <2>3 DEF Processes
  <2> HIDE DEF c
  <2>5. /\ p \in Processes /\ p.terminal /\ p.consumed /\ p.world = torn
        /\ p.ops = proc[l].ops /\ p.pending = NoLine
        /\ p.generation = "R1" /\ (p.emitted <=> proc[l].emitted)
    BY <2>4, TerminalType
  <2>6. "partial_publication" \in Codes
    BY DEF Codes
  <2> HIDE DEF p
  <2>7. QED
    BY <2>1, <2>2, <2>5, <2>6, BuiltFaultIInv
<1>4. CASE SabotageAfterReceipt(l)
  <2> DEFINE r == Represents(proc[l], "R1", Sabotaged)
             p == [r EXCEPT !.consumed = TRUE, !.terminal = TRUE]
  <2>1. Built(l, "materialize_0002", "R1", p,
              <<Event("fault_event", "materialize_0002", Sabotaged),
                Response("materialize_0002", "ok", Empty)>>)
    BY <1>4 DEF SabotageAfterReceipt
  <2>2. Sabotaged \in Worlds
    BY Materialized
  <2>3. /\ r \in Processes /\ r.world = Sabotaged
        /\ r.ops = proc[l].ops /\ r.pending = proc[l].pending
        /\ r.generation = "R1" /\ (r.emitted <=> proc[l].emitted)
    BY <1>1, <2>2, RepresentsType
  <2> HIDE DEF r
  <2>4. /\ p \in Processes /\ p.terminal /\ p.consumed /\ p.world = Sabotaged
        /\ p.ops = proc[l].ops /\ p.pending = proc[l].pending
        /\ p.generation = "R1" /\ (p.emitted <=> proc[l].emitted)
    BY <2>3 DEF Processes
  <2>5. "ok" \in Codes
    BY DEF Codes
  <2> HIDE DEF p
  <2>6. QED
    BY <2>1, <2>2, <2>4, <2>5, BuiltFaultIInv
<1>5. QED
  BY <1>2, <1>3, <1>4 DEF ContinueMaterialization, Materializations

\* The tick in which an actor is not spawned: terminal, whatever it leaves.
LEMMA SpawnFailureIInv == ASSUME ClientInv, NEW l \in Labels, SpawnFailure(l) PROVE ClientInv'
<1>1. PICK op \in Materializations, record \in {"R0", "R1"} : SpawnFails(l, op, record)
  BY DEF SpawnFailure, Materializations
<1>2. proc[l] \in Processes /\ {"cardinality", "fault_arm"} \subseteq Codes
  BY Types DEF Codes
<1>3. ASSUME NEW p \in Processes, NEW answer \in {"cardinality", "fault_arm"},
             p.ops = proc[l].ops, p.generation \in {record, proc[l].generation},
             (p.emitted <=> proc[l].emitted), Built(l, op, record, Terminal(p), <<Response(op, answer, Empty)>>)
      PROVE  ClientInv'
  BY <1>2, <1>3, TerminalType, BuiltOneIInv
<1>4. CASE Built(l, op, record, Terminal(proc[l]), <<Response(op, "cardinality", Empty)>>)
  BY <1>2, <1>3, <1>4
<1>5. ASSUME NEW w \in Worlds, NEW answer \in {"cardinality", "fault_arm"},
             Built(l, op, record, Terminal(Represents(proc[l], record, w)), <<Response(op, answer, Empty)>>)
      PROVE  ClientInv'
  BY <1>2, <1>3, <1>5, RepresentsType
<1>6. Pair(record) \in Worlds /\ [anchor |-> "none", resources |-> {record}] \in Worlds
  BY Materialized
<1>7. QED
  BY <1>1, <1>4, <1>5, <1>6 DEF SpawnFails

-----------------------------------------------------------------------------
(* Every step *)

\* The first tick writes the startup record.
LEMMA BootIInv == ASSUME ClientInv, NEW l \in Labels, Boot(l) PROVE ClientInv'
<1> DEFINE q == [proc[l] EXCEPT !.started = TRUE]
           o == Event("startup", "none", Empty)
<1>1. o \in Objects /\ o.kind = "startup" /\ ~WorldSeen(o) /\ ~Achieved(o)
  BY DEF Event, Objects, Codes, Worlds, Empty, WorldSeen, Inspections, Achieved
<1>2. proc[l] \in Processes /\ output[l] \in Seq(Objects) /\ Holds(proc[l], output[l])
  BY Types
<1>3. q \in Processes /\ Keeps(proc[l], q) /\ Whole(q) /\ (q.emitted <=> proc[l].emitted)
  BY <1>2 DEF Processes, Keeps, Whole, Holds
<1> DEFINE t == <<o>>
<1>4. proc' = [proc EXCEPT ![l] = q] /\ output' = [output EXCEPT ![l] = Append(@, o)]
  BY DEF Boot
<1> HIDE DEF q, o
<1>5. t \in Seq(Objects) /\ \A k \in DOMAIN t : k = 1 /\ t[k] = o
  BY <1>1
<1>6. Append(output[l], o) = output[l] \o t
  BY <1>1, <1>2
<1> HIDE DEF t
<1>7. Holds(q, output[l] \o t)
  BY <1>1, <1>2, <1>3, <1>5, HoldsQuietly
<1>8. control' \in [Labels -> Seq(Lines)] /\ closed' = closed
  BY DEF Boot, ClientInv, ClientTyped
<1>9. QED
  BY <1>3, <1>4, <1>5, <1>6, <1>7, <1>8, StepIInv

\* A process that starts, leaves or dies keeps all but its life; what the parent writes or
\* closes is in no output.
LEMMA LifeIInv ==
  ASSUME ClientInv, NEW l \in Labels, NEW life \in {"running", "exited"},
         proc' = [proc EXCEPT ![l].life = life], UNCHANGED <<control, output, closed>>
  PROVE  ClientInv'
<1> DEFINE q == [proc[l] EXCEPT !.life = life]
<1>1. proc[l] \in Processes /\ Holds(proc[l], output[l]) /\ output[l] \in Seq(Objects)
  BY Types
<1>2. q \in Processes /\ Keeps(proc[l], q) /\ Whole(q) /\ (q.emitted <=> proc[l].emitted)
  BY <1>1 DEF Processes, Keeps, Whole, Holds
<1>3. proc' = [proc EXCEPT ![l] = q]
  OBVIOUS
<1> HIDE DEF q
<1> DEFINE t == <<>>
<1>4. t \in Seq(Objects) /\ DOMAIN t = {}
  OBVIOUS
<1>5. output' = [output EXCEPT ![l] = @ \o t]
  BY <1>1 DEF ClientInv, ClientTyped
<1> HIDE DEF t
<1>6. Holds(q, output[l] \o t)
  BY <1>1, <1>2, <1>4, HoldsQuietly
<1>7. control' \in [Labels -> Seq(Lines)] /\ closed' = closed
  BY DEF ClientInv, ClientTyped
<1>8. QED
  BY <1>2, <1>3, <1>4, <1>5, <1>6, <1>7, StepIInv

LEMMA LinesTyped == (\A i \in DOMAIN Life : Life[i] \in Lines) /\ Choices \subseteq Lines
<1> DEFINE Pending == Operations \cup {"unknown", "malformed"}
<1>1. \A op \in Pending, r \in Records :
        /\ Proper(op, r) \in Lines
        /\ [Proper(op, r) EXCEPT !.binding = FALSE] \in Lines
        /\ [Proper(op, r) EXCEPT !.exact = FALSE] \in Lines
  BY DEF Proper, Lines
<1>2. /\ {"bind_0001", "emit_0001", "arm_fault_0001", "shutdown_0001", "unknown", "malformed",
          "inspect_L0", "inspect_terminal", "materialize_0001", "materialize_0002"} \subseteq Pending
      /\ {"none", "R0", "R1", "working"} \subseteq Records
  BY DEF Operations, Materializations, Inspections, Records
<1> HIDE DEF Pending
<1>3. Choices \subseteq Lines
  <2> SUFFICES ASSUME NEW c \in Choices PROVE c \in Lines
    OBVIOUS
  <2>1. \/ \E op \in Pending, r \in Records : c = Proper(op, r)
        \/ \E op \in Pending : c = [Proper(op, "none") EXCEPT !.binding = FALSE]
        \/ \E op \in Pending : c = [Proper(op, "none") EXCEPT !.exact = FALSE]
    BY <1>2, ZenonT(30) DEF Choices
  <2>2. QED
    BY <1>1, <1>2, <2>1
<1>4. \A i \in DOMAIN Life : Life[i] \in Lines
  <2>1. \A i \in DOMAIN Life : \E op \in Pending, r \in Records : Life[i] = Proper(op, r)
    <3>1. DOMAIN Life = 1..8
      BY DEF Life
    <3>2. /\ Life[1] = Proper("bind_0001", "none") /\ Life[2] = Proper("materialize_0001", "R0")
          /\ Life[3] = Proper("emit_0001", "none") /\ Life[4] = Proper("arm_fault_0001", "none")
          /\ Life[5] = Proper("materialize_0002", "R1") /\ Life[6] = Proper("inspect_L0", "none")
          /\ Life[7] = Proper("inspect_terminal", "none") /\ Life[8] = Proper("shutdown_0001", "none")
      BY DEF Life
    <3>3. QED
      BY <1>2, <3>1, <3>2
  <2>2. QED
    BY <1>1, <2>1
<1>5. QED
  BY <1>3, <1>4

LEMMA ParentIInv ==
  ASSUME ClientInv, NEW l \in Labels,
         \/ CloseStdin(l) \/ Proceed(l) \/ LeaveOut(l) \/ \E line \in Choices : Stray(l, line)
  PROVE  ClientInv'
<1>1. ASSUME NEW line \in Lines, Write(l, line) PROVE ClientInv'
  <2>1. control' \in [Labels -> Seq(Lines)] /\ UNCHANGED <<proc, output, closed>>
    BY <1>1 DEF Write, ClientInv, ClientTyped
  <2>2. QED
    BY <2>1 DEF ClientInv, ClientTyped, Holds, Whole, WorldTold, Once, Succeeds, Reported
<1>2. CASE Proceed(l)
  BY <1>1, <1>2, LinesTyped DEF Proceed
<1>3. ASSUME NEW line \in Choices, Stray(l, line) PROVE ClientInv'
  BY <1>1, <1>3, LinesTyped DEF Stray
<1>4. CASE CloseStdin(l) \/ LeaveOut(l)
  <2>1. closed' \in [Labels -> BOOLEAN] /\ UNCHANGED <<proc, output, control>>
    BY <1>4 DEF CloseStdin, LeaveOut, processVars, ClientInv, ClientTyped
  <2>2. QED
    BY <2>1 DEF ClientInv, ClientTyped, Holds, Whole, WorldTold, Once, Succeeds, Reported
<1>5. QED
  BY <1>2, <1>3, <1>4

LEMMA ProcessIInv == ASSUME ClientInv, NEW l \in Labels, ProcessStep(l) PROVE ClientInv'
<1>1. CASE SpawnFailure(l)
  BY <1>1, SpawnFailureIInv
<1>2. CASE Boot(l)
  BY <1>2, BootIInv
<1>3. CASE DispatchMalformed(l) \/ DispatchEndOfInput(l) \/ Exit(l)
  BY <1>3, LifeIInv DEF DispatchMalformed, DispatchEndOfInput, Exit, Exits
<1>4. CASE DispatchMisrouted(l) \/ DispatchOutOfSequence(l) \/ DispatchPayload(l) \/ RejectMaterialize(l)
  BY <1>4, RefusalIInv
<1>5. CASE Bind(l) \/ ArmFault(l) \/ Inspect(l)
  BY <1>5, CommandIInv
<1>6. CASE Emit(l) \/ Shutdown(l) \/ Replace(l) \/ ContinueMaterialization(l)
  BY <1>6, EmitIInv, ShutdownIInv, ReplaceIInv, ContinueIInv
<1>7. QED
  BY <1>1, <1>2, <1>3, <1>4, <1>5, <1>6 DEF ProcessStep, Tick, Dispatch

LEMMA ClientInitially == ClientInit => ClientInv
<1>1. AbsentProcess \in Processes /\ Whole(AbsentProcess)
  BY DEF AbsentProcess, Processes, Whole, NoLine, Lines, Records, Worlds, Empty
<1>2. WorldTold(AbsentProcess, <<>>)
  BY DEF WorldTold
<1>3. Once(AbsentProcess, <<>>) /\ Succeeds(AbsentProcess, <<>>)
  BY DEF Once, Succeeds, AbsentProcess
<1>4. QED
  BY <1>1, <1>2, <1>3 DEF ClientInit, ProcessInit, ClientInv, ClientTyped, Holds

LEMMA ClientSteps == ClientInv /\ [ClientNext]_lifeVars => ClientInv'
<1> SUFFICES ASSUME ClientInv, [ClientNext]_lifeVars PROVE ClientInv'
  OBVIOUS
<1>1. CASE UNCHANGED lifeVars
  BY <1>1 DEF lifeVars, processVars, ClientInv, ClientTyped, Holds, Whole, WorldTold, Once, Succeeds, Reported
<1>2. ASSUME NEW l \in Labels, Start(l) \/ Die(l) PROVE ClientInv'
  BY <1>2, LifeIInv DEF Start, Die, Crash, Exits
<1>3. CASE ClientNext
  BY <1>2, <1>3, ParentIInv, ProcessIInv DEF ClientNext
<1>4. QED
  BY <1>1, <1>3

\* The state of the processes is typed, whatever their parent writes (Dispatch of
\* CityLiveEvidenceGameMode.cpp).
THEOREM ProcessTyped == ClientSpec => []TypeOK
<1>1. ClientInv => TypeOK
  BY DEF ClientInv, ClientTyped, TypeOK
<1>2. QED
  BY <1>1, ClientInitially, ClientSteps, PTL DEF ClientSpec

\* For any witness, any parent and any bounds: a process that works shows exactly the pair
\* it accepted last, and what a fault event says of a broken one stays true of every later
\* census (ContinueMaterialization, ConsumeFault, Observe).
THEOREM RepresentationIsWhole == ClientSpec => []RepresentationWhole
<1>1. ClientInv => RepresentationWhole
  BY DEF ClientInv, Holds, Whole, WorldTold, WorldSeen, RepresentationWhole, FaultEventIsTheWorld
<1>2. QED
  BY <1>1, ClientInitially, ClientSteps, PTL DEF ClientSpec

\* For any witness, any parent and any bounds: no operation succeeds twice, and the one
\* physical interaction is told right before the response that reports it (Operations,
\* bEmitted).
THEOREM EachSucceedsOnce == ClientSpec => []SucceedsOnce
<1>1. ClientInv => SucceedsOnce
  BY DEF ClientInv, Holds, Once, Achieved, SucceedsOnce
<1>2. QED
  BY <1>1, ClientInitially, ClientSteps, PTL DEF ClientSpec

\* For any witness, any parent and any bounds: the R0 pair stands until a successor is
\* authenticated, and that needs the evidence that its process has emitted (Materialize,
\* AuthenticateMaterialize).
THEOREM OldPairStands == ClientSpec => []OldPairUntilSuccessor
<1>1. ASSUME ClientInv, NEW l \in Labels
      PROVE  /\ proc[l].generation = "R0" /\ proc[l].world # Pair("R0") =>
                  \/ proc[l].pending.record = "R1" /\ proc[l].emitted
                  \/ proc[l].terminal
             /\ proc[l].generation = "R1" \/ proc[l].pending # NoLine =>
                  proc[l].emitted /\ AnswerOf(l, "materialize_0001")
  BY <1>1 DEF ClientInv, Holds, Whole, Succeeds, Reported, AnswerOf
<1>2. ClientInv => OldPairUntilSuccessor
  BY Zenon, <1>1 DEF OldPairUntilSuccessor
<1>3. QED
  BY <1>2, ClientInitially, ClientSteps, PTL DEF ClientSpec

=============================================================================
